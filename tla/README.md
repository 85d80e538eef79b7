# A verification project for Soft80

Soft80 is a Z80 emulator whose CPU runs in a thread of its own, one T state per
call of `cycle_clock()`. Devices run in threads of their own too and talk to the
CPU through its pins and its interrupt latches. This directory holds TLA+ modules
that model the CPU's control logic clock by clock, its instruction decoder, what
its instructions compute, its memory and device maps and the complete systems of
the repository's test programs; the TLC configurations that check them; and TLAPS
proofs about them. All paths below are relative to `src/` of the repository.

## 1. Inventory

| Component | Source | State | Operations |
|---|---|---|---|
| CPU control | `source/soft80.cpp`, `include/soft80.h` | position of the executor thread, output pins, `busack`, `halt`, `data_bus`, `iff1/2`, `interrupt_mode`, `int_vector`, `int_response`, two latches, `should_cycle`, exit flag | `executor`, `wait_next_clock`, `fetch_opcode`, four bus cycles, `bus_acknowledge`, `int_acknowledge`, `nmi_acknowledge`, `update_m_cycle`, `cycle_clock`, `signal_int`, `signal_nmi`, `kill` |
| Instruction decoder | `source/decoder.cpp`, `include/decoder.h` | `prefix`, `needs_displacement`, `immediate_bytes`, `needs_high_imm`, `instruction_progress`, `alt_op`, `alt_reg` | `decode` and its four helpers |
| Instruction execution | `source/soft80.cpp:489-2391` | registers and flags, memory, masks, HALT, mode | `execute_instruction`: operand reads, one case per mnemonic, flags, result |
| Register file | `include/registers.h`, `source/registers.cpp` | register pairs | `get_value`, `set_value` |
| Memory map | `include/memorymap.h` | list of mappings, the regions' bytes | `add_mapping`, `read`, `write` |
| Device map | `include/devicemap.h` | list of mappings | `add_mapping`, `read`, `write` |
| Terminal devices | `include/terminaldevice.h`, `include/interruptingdevice.h` | `should_read`, `needs_len`, `in_buffer`, the thread's position | `read`, `write`, `executor`, `wait_cpu_int_ack`, `wait_cpu_halt` |
| Test programs | `tests/*.s` | program counter, B | the dialogue REQ_READ, HALT, PRINT |
| Main program | `source/main.cpp` | none | the clock loop |
| ROM loader | `source/util.cpp`, `include/util.h` | none | `load_bin_file` |

**Interaction.** Three threads share the `Soft80` object. `main` sets
`should_cycle`; the executor consumes it in `wait_next_clock`. A device sets
`nmi_latch` or `int_latch`, watches the pins IORQ, M1 and HALT, and writes
`data_bus`. The executor calls `read` and `write` of the device when an I/O cycle
ends. Input pins (BUSREQ, RESET, WAIT) are pointers to variables of others. There
is no lock anywhere; all ordering comes from the clock and the pins.

**What is hard here.** The acceptance of a request is spread over the test of a
latch, a wait for the clock, a possible bus grant and the writes to the masks. A
bus request may suspend any machine cycle. The latches are tested one after the
other. The decoder keeps state across calls, is never reset and has paths that
must each clean up after themselves. The vector is sampled at a fixed clock,
whether or not the device thread has been scheduled. A program's HALT races the
interrupt it waits for. A block instruction that repeats moves the PC back and can
be interrupted after each transfer. What an instruction reads, computes, writes
back and does to F is scattered over a prologue, a case and an epilogue. The full
list, each item at its line, is under `hazards` in `PROJECT.json`.

**What correctness means for each part.**

- CPU control: interrupts look atomic; requests are taken between instructions
  only; no maskable request gets in between an acceptance and its handler; a bus
  grant changes nothing; RETN gives the mask back; nobody waits for ever.
- Decoder: an instruction is a function of its own bytes.
- Execution: a sum or shift leaves in its destination and Carry what its operands call
  for, and loses nothing if they have its width; every instruction has the bus cycles and
  control effects the clocked CPU gives it; programs keep their ROM, their returns
  match their calls and their block instructions survive interrupts.
- Register file: a register keeps what it is given, cut to its width, and a pair and
  its halves are the same storage.
- Memory map: one address space, one owner for each address.
- Device map: one device for each port.
- Terminal system: the line reaches the program, every vector the CPU samples is
  one a device has driven, and every HALT ends.

## 2. Modules

| Module | Models | Built on |
|---|---|---|
| `InstructionKinds` | kinds of instruction: machine cycles and control effects | |
| `Soft80` | the executor thread and the environment of the CPU | `InstructionKinds` |
| `InterruptControl` | what the CPU promises about interrupts | |
| `Soft80Interrupts` | the refinement of the second by the first | `Soft80` |
| `NmiReturn` | a history variable for RETN | `Soft80Interrupts` |
| `Soft80Proofs` | inductive invariant, ten theorems | `Soft80` |
| `InterruptProofs` | the refinement and RETN, proved | `NmiReturn`, `Soft80Proofs` |
| `Opcodes` | the decoder's tables, pure operators | |
| `Decoder` | class `Decoder`, one action per branch of `decode` | `Opcodes` |
| `InstructionStream` | the reference: an instruction is a function of the bytes since the last one | `Opcodes` |
| `DecoderStream` | the refinement of the reference by the decoder | `Decoder` |
| `DecoderProofs` | the decoder's invariants and the refinement, proved | `DecoderStream` |
| `Registers` | the register file, flags, words and their bits | |
| `Execution` | `execute_instruction`, an operator on a machine's state | `Registers` |
| `Machine` | whole programs, instruction by instruction, with their device | `Execution`, `InstructionStream`, `InstructionKinds` |
| `MCMachine` | the programs for TLC, and every opcode once | `Machine` |
| `RegisterProofs` | the register file and F, proved | `Registers` |
| `MachineProofs` | the machine's inductive invariant | `Machine` |
| `ExecutionProofs` | sums, shifts and the kinds of all instructions, for every operand; the stack | `MachineProofs` |
| `TerminalSystem` | CPU, device thread, test program, clock and user together, clock by clock | `Soft80` |
| `TerminalProofs` | the invariant of the dialogue, reads, signals and vectors, proved | `TerminalSystem`, `Soft80Proofs` |
| `MemoryMap` | regions, mappings, reads and writes | |
| `AddressSpace` | the reference: one cell per address | |
| `DeviceMap` | ports and devices | |
| `Bus` | both maps, as `struct Soft80` holds them | `MemoryMap`, `DeviceMap` |
| `MemoryMapProofs` | the refinement of `AddressSpace` and one device for each port, proved | `Bus` |
| `MCMemoryMap` | both maps for TLC | `Bus` |

Two models of the CPU meet in `InstructionKinds`. `Soft80` has every clock, pin and
thread and lets an instruction be any of twenty kinds; `Machine` has every
instruction and treats it as one step. Each instruction of `Machine` records the bus
cycles it runs, and `KindMatches` says that they, its effect on masks, mode and HALT,
and whether it jumps, are those of one of the kinds: so what `Soft80` assumes of
instructions is checked against `execute_instruction`, for every opcode.

An operator whose name ends in an underscore and a word, next to the operator it
varies (`OpenNmiAck_Unmasked` next to `OpenNmiAck`), is a fault: what a plausible
mistake in the code would have made of that definition. No specification uses it;
it is there to show that a property notices.

### Soft80: the executor, clock by clock

`cycle` and `t` say in which machine cycle the thread is and which of its clocks
it waits for; `caller` and `step` stand for the C++ call stack, and `resume` for
the cycle that `bus_acknowledge` was called from. Every action either consumes a
tick (`Tick`: `should_cycle` is set and no wait source is up) and runs up to the
next `wait_next_clock()`, or is a step without a wait that reads something
another thread writes: the loop's tests of exit, reset and HALT (`ExecutorLoop`),
the tests of the latches (`CheckNmi`, `CheckInt`), the poll of BUSREQ inside a
grant (`BusAckPoll`).

| Action | Code |
|---|---|
| `ExecutorLoop`, `ResetClock`, `HaltClock`, `CheckNmi`, `CheckInt` | `executor` |
| `FirstClock` | `update_m_cycle`, and the first clock of whichever cycle called it (`OpenFetch`, `OpenBusCycle`, `OpenIntAck`, `OpenNmiAck`) |
| `BusAckClock`, `BusAckPoll` | `bus_acknowledge` |
| `FetchClock`, `BusClock`, `IntAckClock` | the remaining clocks of each cycle |
| `ExecuteInstruction` | the control effects of an instruction once its cycles have run |
| `EnterHandler` | the write to the PC that ends an acknowledge |
| `ExitProcess` | `exit(0)` in `wait_next_clock` |
| `cycle_clock`, `signal_int`, `signal_nmi`, `kill`, `SetPin`, `DriveDataBus` | the other threads |

Abstractions, and why they lose nothing the properties tell apart:

- An instruction is one of twenty kinds, each with the machine cycles it runs
  (`Cycles`) and its effect on masks, HALT and mode. Kinds that run the same
  cycles and touch no control state are one kind; a repeating block instruction
  is the same kind executed again because it moves the PC back; RST runs the
  cycles of CALL. `KindMatches` of `Machine` checks this list.
- The decoder appears as "another byte is needed" or "an instruction of some
  kind", at most `MaxBytes` bytes after the first. `LengthBound` of
  `DecoderStream` shows that 5 bounds the real decoder.
- The PC only says whether it stands at a handler's entry, at the reset address
  or somewhere in the program.
- The pins written in one clock change in one step. A device thread could see
  some of these writes and not yet others. The only device that looks reads IORQ
  and M1, and it reads them in two steps (`SeeIorq`, `SeeM1`).
- `should_cycle`, the latches and the exit flag are read as their current value.
  Those that are not atomic in the code could be read stale for a while, which
  delays a step and adds no behaviour to a model in which every step may be
  delayed.
- `data_bus` starts with any value because the code does not initialize it.

### InterruptControl and Soft80Interrupts

`InterruptControl` has no clocks, cycles or grants: two requests, two masks and a
phase. Its acceptance actions clear the request, change the masks and change the
phase in one step. The code does not: it clears the latch, waits for a clock,
possibly gives the bus away, and writes the masks then. `Soft80Interrupts` maps
the masks through `AckPending`: from the moment the latch is cleared they already
count as written. `ImplementsInterruptControl` says no thread can tell the
difference, and `InterruptProofs` proves it: nothing that may happen in between
depends on the old masks.

### Opcodes, Decoder, InstructionStream

`Opcodes` has the tables as they are in the code, gaps included. `Decoder` has
one action for each branch of `decode`. Opcode bytes range over all 256 values;
`Operand` restricts the bytes that are only stored, and is chosen to hold values
that would be prefixes or opcodes if the decoder took them for such.

`decode_alt_prefix` and the `alt_op` branch have no action because they cannot be
reached: `PrefixType`, part of `TypeOK`, says that `prefix` never is 0xDDCB or
0xFDCB (finding 1).

`InstructionStream` keeps the bytes since the last instruction and defines by
cases on the whole sequence what they mean. It knows nothing of flags.
`ImplementsInstructionStream` says the four flags and the half-built instruction
of the decoder carry exactly the information of those bytes.

### Registers and Execution

`Registers` keeps bytes and words; a pair is read and written through its halves, as
the unions of `GeneralRegisters` do, and F is a byte and a set of flags. An operand
of a bitwise instruction is the set of its bits (`BitsOf`, `Word`).

A machine is a record: registers, memory, masks, mode, HALT, the terminal and the
bus cycles of the current instruction. `execute_instruction(i, m)` is the set of
machines the code may leave: `OperandReads` is its prologue, `Case` its switch with
one operator for each case (or pair of cases that differ in a direction only),
`FlagsAfter` the construction of F and `Store` the write of the result. It is a set
because a read of the terminal past the end of its buffer gives any value of
`Undefined`.

The code is followed where it is not a Z80, because the modules are about this
program. What a reader of the code may not expect: CP stores its second operand in A,
and SCF and CCF clear A, because results are always stored; JP and CALL with an
address operand read memory at their target and write 0 back to it, which only a
ROM withstands; the result of an instruction with an indexed operand goes to the
address without the displacement; EX AF,AF' swaps A only; INC from 255 to 0 does
not set Zero; RLA, RR and RRA shift in 0 and not Carry, and RLC of a byte loses
bit 7 to Carry only; JR ignores its condition; F is built from 0 every time
(finding 6), so that an instruction of an interrupt handler costs the interrupted
program its flags.

### Machine and MCMachine

A step of `Machine` fetches one byte, and executes the instruction it completes; the
bytes are decoded by `InstructionStream`, which `DecoderProofs` shows to be what the
decoder computes. `CheckNmi` and `CheckInt` are the two tests at the end of the
loop, with acknowledges that push the PC, read the table of mode 2 or leave the
vector for the next instruction. The device is one of the four terminals, or a timer
that requests interrupts whenever it likes; their thread's steps are `Answer`,
`SignalAgain`, `Finish` and `Timer`. A vector is on the bus when it is sampled:
`slow_tty` is about when it is not.

`Boot` holds the machines to start: an image, initial registers, a device, the lines
that will be typed, and what the program is for, its text, the memory it leaves and
where it ends, read off the test programs. `MCMachine` has the images of
`tests/hello.s`, `nmi_tty.s`, `int0_tty.s`, `int1_tty.s`, `int2_tty.s` byte for byte
at the addresses their assembler gives them, the delay loop of `timer.s` with smaller
counts, a terminal that asks for two lines, an OTIR with B = 0, a program of block
instructions and loops under timers, and machines that execute one instruction
(`limit` = 1) and are then killed.

### TerminalSystem

The CPU of `Soft80`, restricted by what the program in memory and the device on
the bus make of its choices: `Decodes` gives the next instruction of the test
program, `ReadPort` and `WritePort` call the device at the end of an I/O cycle,
`Executes` moves through the program, `Samples` and `Enters` take the vector and
the handler it selects; `Internal` is every other step of the CPU. The device
thread has one step per statement that another thread can tell. The programs of
`tests/` are reduced to the instructions of the dialogue, one line per run;
`Machine` runs the whole programs.

Two assumptions about timing are constants because nothing in the code supports
or excludes them: `Prompt`, the devices whose thread does all it can between two
ticks, and `PatientInput`, that the line comes only after HALT. The findings show
what happens without them. Lines have at least one character: an empty one makes
`read()` index outside `in_buffer`, which is undefined.

### MemoryMap and AddressSpace

`read` uses the first mapping that holds an address, `write` all of them, and a
ROM ignores writes. `AddressSpace` is a function from addresses to bytes.
`ImplementsAddressSpace` relates them. A range that is empty or longer than its
region is excluded by `RequestAssumption`; the code checks neither. `DeviceMap` has
the same shape with ports for ranges: `read` asks the first device of a port, `write`
all of them, and `SameDevice` says that they are one and the same.

## 3. Runs

| Run | Question | Bounds |
|---|---|---|
| `control` | Do pins, HALT, masks, decoder progress, machine cycles and acknowledges agree, do interrupts look atomic, does RETN restore the mask? | all twenty kinds of instruction, of one or two bytes; one source for each of BUSREQ, RESET and WAIT; one bus value |
| `progress` | Is every request served, the bus granted and returned, the thread stopped? | three kinds, one source for each input pin |
| `decoder` | Does the decoder compute the reference meaning and leave nothing behind? | all 256 opcode bytes, four operand bytes |
| `machine` | Do programs print and leave what they were written to, and does every opcode leave the sum or shift and the Carry its operands call for, and match its kind? | the programs of `MCMachine`; all 1280 opcodes with one prefix at most, each on three register files; two values for what is undefined |
| `tty` | Do the four terminals' programs print their line, clock by clock, with every read in order, every vector the device's own and no signal lost? | lines of one and two characters |
| `memory` | Do mapped regions form one address space, and has a port one device? | six addresses, four regions, three bytes; two devices, two ports |
| `alt_prefix`, `address_in_hl`, `piped_tty`, `slow_tty`, `flags`, `overlap` | the findings below | |

Why the bounds are enough. Control depends on the number of sources of a pin only
through "one of them is up", and on the length of an instruction only through
"the first byte or a later one", so one source and two bytes show every case, and all
twelve properties of `control` are also theorems without bounds.
Two bus values in `tty` tell a sampled vector from a stale one. Two characters tell the
first, the last and a repeated execution of INIR apart. Six addresses hold ranges
beside, across and inside one another. The decoder's own state is finite and is
enumerated for every opcode byte, and `DecoderProofs` lifts the operand bytes.
The register files of `machine` (`Edges`) have A, F and the other registers at 0, at
the sign, at all ones and next to a half carry, so that each carry, borrow and wrap
occurs, and HL with an upper half that is empty and one that is not, so that sums of A
with the pair occur with Carry and without; `ExecutionProofs` covers every operand. Two
values of `Undefined` tell a program that depends on one from one that does not. Two
lines of different lengths tell the second request from the first, and two timer
requests put one interrupt into the handler of another.

**Fairness.** `FairSpec` (run `progress`): `WF(CpuStep)`, the operating system
schedules the executor thread, whose waits are loops around `yield`; and
`WF(cycle_clock)`, the loop of `main` never ends. Nothing is assumed of devices.
Liveness is stated under `NoMoreWait` and `NoMoreBusreq` where an input pin that
stays up legitimately stops the CPU. `BusGranted` has an exception for a halted
CPU, because the HALT loop never looks at BUSREQ. `FairSystem` (runs `tty`,
`piped_tty`, `slow_tty`) has weak fairness of the CPU, of the device thread, of
the clock and of the user. `FairSpec` of `Machine` (run `machine`) is the same one
level up: the CPU's thread, whose clock never ends, and the device's are scheduled.
`Finishes` is claimed of a patient user, and for two lines of a prompt device
thread only: if `should_read` is cleared after the program asks again
(`terminaldevice.h:63`) the second request is lost and the program waits for ever.
The other properties of `machine` are claimed without either.

`CHECK_DEADLOCK` is on everywhere: a tick can always come, and a killed machine of
`MCMachine` stays as it is.

**Action properties and history.** `GrantFreezes`, `RetnRestoresMask`,
`VectorSampled` and `SignalNotLost` constrain steps. `RetnRestoresMask` needs `interrupted`, what IFF1
was when the NMI whose handler runs was accepted; a reset in the handler does not
clear IFF2, and RETN then sets IFF1 again. `ReturnsMatch` needs `calls`, the addresses
that calls and acknowledges have pushed, and `executed` counts up to `limit`.

### Findings

1. `alt_prefix`. `decoder.cpp:773` writes `0xCB || (prefix << 8)`, which is the
   truth value 1. After DD CB or FD CB the displacement is decoded as an opcode,
   which the comment at `decoder.cpp:849` says must not happen, and since 1 is no
   prefix and not 0 either, prefix bytes mean nothing from then on.
2. `address_in_hl`. Entry 6 of `rTable` is commented "Address in HL"
   (`decoder.h:116`), but `decoder.cpp:640-644` uses it as the pair HL.
3. `piped_tty`. If the line is there when it is asked for, the NMI handler may run
   between REQ_READ and the HALT that is to wait for it. The HALT then never ends.
4. `slow_tty`. If the device thread is two clocks late, `soft80.cpp:418` samples
   what an earlier cycle left on the bus.
5. `overlap`. `add_mapping` looks for the ends of the new range in the old ones,
   so a range that encloses an old one is accepted (`memorymap.h:75`).
6. `flags`. `out_flags_value` starts at 0 (`soft80.cpp:2227`) and is assigned to F
   after every instruction, so LD, JP, CALL, RET, PUSH and EXX, which name no flag,
   clear all of them. No test program notices because each tests a flag in the
   instruction after the one that sets it, and none tests one that an interrupt
   could clear in between.

## 4. Proofs

Eight modules hold theorems. Every one is about the specification TLC runs, for every
value of the constants that satisfies the named assumptions of its modules.

### The CPU: Soft80Proofs, InterruptProofs

`Soft80Proofs` proves, for every `Byte`, `Program`, `MaxBytes` and set of input
pins that satisfy `ProgramAssumption`, `ByteAssumption` and `MaxBytesAssumption`:

| Theorem | Property |
|---|---|
| `TypeSafe` | `TypeOK` |
| `AckWindowSafe` | IORQ with M1 is an acknowledge, the masks are closed |
| `HandlerMaskedSafe` | no maskable request between acceptance and handler |
| `AckAtBoundarySafe` | requests are answered between instructions |
| `VectorFirstSafe` | the mode 0 vector is the next instruction's first byte |
| `HaltQuietSafe` | a halted CPU transfers nothing |
| `MaskOrderSafe` | IFF1 implies IFF2 |
| `PlanFollowedSafe` | machine cycles run in order, all of them |
| `GrantOwnedSafe`, `GrantFreezesSafe` | bus grants are owned and change nothing |

All follow from one inductive invariant, `IInv` (theorem `Inductive`). Most of
the properties are not inductive alone. An I/O cycle leaves IORQ up for whatever comes
next, so `AckWindow` may see both pins from the first clock of an acknowledge on:
it needs `MaskState`, which says that the masks are closed and HALT is over from
that clock until the vector is sampled. `HandlerMasked` needs to know that
nothing executes, and so no EI, while the PC stands at a handler's entry.
`VectorFirst` and `AckAtBoundary` need `DecoderState`, which says what the decoder
and the mode 0 response hold in every place but a fetch, and `PlanFollowed` needs
the instruction whose plan runs to stay known until it ends, across a grant.
`IInv` therefore ties each position of the thread to
the caller, step, instruction and pins that are possible there. Each action has a
lemma saying it preserves `IInv`; the steps of the other threads have one
together, since they leave the thread's own state alone. `GrantFreezes` is an
action property and is proved from `IInv` by cases on the actions that can run
during a grant.

`InterruptProofs` proves `ImplementsSafe`: `Soft80` implements `InterruptControl`.
Each action of the CPU maps to a step of `InterruptControl` or to none (one lemma
each, `NmiView` to `EnvironmentView`): the tests of the latches map to the
acceptances, `EnterHandler` and the sampled vector's execution to the ends of the
phases, EI, DI, RETN and HALT to their namesakes, and everything else leaves latches,
mapped masks and phase alone. `IInv` says where the thread can be while a latch is
cleared and the masks are not written, which is what `AckPending` needs.
`RetnRestoresMaskSafe` adds the history variable `interrupted` and the invariant
`SavedMask`: unless the program has used the masks itself since, IFF2 is what IFF1 was when the
NMI was accepted.

### The decoder: DecoderProofs

`StreamInv` is the abstraction function written as an invariant: for each of the
forms that the bytes since the last instruction can have (nothing, prefixes, an
opcode that wants a displacement, one or two immediate bytes), what the prefix, the
flags and the half-built instruction are. `CleanBoundary`, `PrefixUsedUp` and
`LengthBound` follow from it, and so does `ImplementsSafe`, one lemma for each branch
of `decode`. `LengthBoundSafe` is what `MaxBytesAssumption` of `Soft80` takes for
granted. `TypeSafe` says for every byte that the prefixes of the alternative forms
never occur: `decode_alt_prefix` is dead code.

### Execution: RegisterProofs, MachineProofs, ExecutionProofs

`RegisterProofs` proves that `get_value` returns what `set_value` was given, cut to
the register's width (`ReadBack`), that no other register changes unless one is half
of the other (`OthersKept`), that F holds the flags put into it (`FlagsRead`), and that
a word is the sum of its bits (`WordOfBits`).

`MachineProofs` proves `TypeSafe` and `ProgramKeptSafe` for every image, ROM size,
device and initial registers. Its invariant `IInv` has the types, the ROM (`Kept`),
that `boot` is one of the machines that may start, and that the bytes read so far of
an instruction are bytes: without `pending` the operands of the instruction they will
complete, and so what it stores, would be anything. Each case of
`execute_instruction` has a lemma saying that it leaves a good machine, and a result
and flags that the epilogue can store.

`ExecutionProofs` proves the three properties of single instructions for every operand,
every flag and every register the decoder can name, where the run enumerates opcodes on
three register files. It also proves what calls, returns and interrupts do to the
stack.

- `SumAndCarrySafe`: of every ADD, ADC, SUB and SBC the destination keeps the low bits of
  the result and Carry says whether it lost any; where the operands have one width, the
  two are together the exact sum or difference. They have not in 86H, 8EH, 96H and 9EH,
  the opcodes a Z80 calls ADD A,(HL) and its like: the tables name the pair HL and not
  the memory it points to (finding `address_in_hl`), so that A is added to 16 bits, keeps
  eight of up to 17, and Carry, read at 0xFF, says only that something is missing. A DD
  or FD before them changes nothing, because the decoder renames HL only in instructions
  that wait for operand bytes. The code reads Carry off a 32-bit result at a bit chosen
  by the operands' names, and subtracts without sign. The proof first shows from the
  tables what operands a sum can have (`SumShape`: A with a register, a byte or a pair;
  or two pairs), so that the bit is the one above the destination, and then does the
  arithmetic once for each width.
- `ShiftAndCarrySafe`: a shift or rotate moves every bit to its neighbour, and the lowest
  one, or the one in bit 7, into Carry: of a byte nothing is lost. The destination of the
  CB opcodes with index 6 is the pair HL. Shifted to the left it loses bit 15, and Carry
  says that one of the upper nine bits was set; shifted to the right its low byte gets
  the bits 1 to 7 and Carry bit 0, but nothing is claimed of the bits above (SRA, if HL
  is over 127, shifts in the sign of the low byte only). Shifts to the left are
  arithmetic; those to the right work on sets of bits and rest on `WordOfBits`.
- `KindMatchesSafe`: every instruction has the bus cycles, the effect on masks, mode and
  HALT, and the freedom to jump of one of the kinds of `InstructionKinds`. This is the
  link between the two models of the CPU. Each operation of a machine has a lemma saying
  which cycles it adds and what it leaves alone (`Passes`, `Runs`), each mnemonic one
  saying which kind it is (`CaseKinds`, `JumpKinds`), and `InstructionRuns` puts the reads
  of the operands and the write of the result around the case. It needs from the tables
  which instructions may address memory at all (`AddressShape`, `ReadShaped`).
- `PushedBack`, `ReturnSavedSafe` and `ReturnTakenSafe`: the stack. Run `machine` checks
  `ReturnsMatch` of its programs; that a return goes back to what was called last is true
  only of a program that leaves its stack alone, and so no theorem. These three are the
  CPU's part of it, for every program. Whatever pushes an address (a taken CALL, an RST,
  an NMI, an interrupt in mode 1 or 2) leaves all of it on top of the stack, also where
  the stack wraps around address 0; a return that is taken goes to what is on top; and a
  push and a pop give back the registers. There are two ways to lose an address, and TLC
  has a counterexample without either hypothesis: a stack in ROM (`StackInRam`), and a
  conditional CALL, whose result 0 `execute_instruction` stores at the address it calls
  (`WritesBack`), when that is one of the two cells.

### The maps: MemoryMapProofs

`MemoryMapProofs` proves for every set of regions and requests that of two
mappings that share an address the later encloses the earlier (`NestedSafe`), and
so that all are disjoint if no requested range encloses another (`DisjointSafe`,
hypothesis `NoEnclosing`). This is the exact reach of finding 5.

`AddressSpaceImplemented` is the refinement: the mapped regions implement
`AddressSpace`. Besides `NoEnclosing` it assumes `OnceEach`, that a host program asks for
a RAM region at one range only: a region at two ranges is one storage with two
addresses, which no address space has. A ROM may appear as often as one likes. The
argument is that at most one mapping holds an address (`AtMostOne`), so that the first
mapping a read uses is the only one a write goes to. Both assumptions are about the
host program, hold of `main.cpp:20-21`, and neither is implied by what `add_mapping`
tests; run `memory` satisfies both.

`SameDeviceSafe` proves `SameDevice` for every set of devices and ports without any
condition: ports are compared for equality. `BusMemory` says that the devices do not
disturb the memory, so that the theorems above are true of `Bus` as a whole.

### The terminal system: TerminalProofs

The three safety properties of the dialogue, for every set of devices, every length of
a line, every kind of instruction and every interleaving of the threads:

| Theorem | Property | Assumes |
|---|---|---|
| `SystemDrivesCpu` | the system is a use of `Soft80`: its theorems hold here | nothing |
| `SystemInvariant` | the inductive invariant, `IInv /\ SysInv` | nothing |
| `TransferInOrderSafe` | the length is read once, then characters inside the buffer | INT2 prompt, if it is mapped |
| `SignalNotLostSafe` | no signal meets a latch that is set, an acknowledge or a handler | `PatientInput`, if INT2 is mapped |
| `VectorSampledSafe` | the vector that is sampled is the one driven for it | INT0 and INT2 prompt, if mapped; `PatientInput`, if INT2 is |

The assumptions are as weak as they can be: for each that is dropped TLC finds a
counterexample, and nothing in the code enforces one (findings 3 and 4).

- A slow mode 2 thread, whatever the user does: its second request enters the first
  handler again, which reads a line that is not there.
- An impatient user of the mode 2 device, however prompt its thread: a line that comes
  between OUT and HALT lets the thread read the IORQ of that OUT and the M1 of the next
  fetch, one after the other, and take them for its acknowledge. It drives its vector
  too early and signals again while the first request is still in the latch. When the
  CPU acknowledges a request that is left over, nobody drives a vector for it.
- A slow thread of INT0 or INT2: the CPU samples the bus before the vector is there.

An impatient user of a prompt mode 2 device costs a request and a vector, but not the
dialogue: `TransferInOrder` survives it. NMI and INT1 keep all three properties
whatever the timing, and INT0 needs nothing but a prompt thread.

`SysInv` is the inductive invariant, on top of `IInv` of the CPU. It is `Core /\ Timing`.
`Core` holds of every device, thread and user:

- `Code`: one frame of the main program, or a handler over it, never two. The
  instruction that runs is the program's, the NOP of HALT or the CALL of a vector.
- `Requests`: an acknowledge that has begun interrupts the main program (`Answering`),
  and as long as a request is anywhere, with the device, in a latch or with the CPU
  (`Requesting`), a line is there and, but for mode 2, its length is still to be read.
  This carries the device's promise, made before the signal, to the handler's IN.
- `Line`: one line is typed, and nothing is requested before it.
- `Iorq`: while the CPU is halted IORQ is down, although an I/O cycle leaves it up for
  whatever comes next; a fetch has lowered it by the time HALT executes. Without it a
  device that waits for its acknowledge could take the strobe of a past OUT for it.
- `Mode2`: the mode 2 program is in its mode before it asks for a line, takes no
  instruction from the bus, and runs its handlers masked.

`Timing` says what more holds under which timing (`Patient`: not INT2, or a patient
user; `Watching`: a prompt device that drives vectors):

- `Single`, of the patient: a request is in exactly one place, and the main program runs
  as long as it is there. `FromHalt`: both requests of mode 2 find the CPU halted.
- `Attentive`, of the watching: the thread is at `iorq` until the third clock of
  the acknowledge, sees the pins on the fourth and is through before the fifth.
  `OnTheBus`: what is on the bus between two listenings is what the device drove.
- `Script`, of INT0: how far the program can be when the request is latched. From
  there to the acknowledge nothing writes to the bus, so a vector that was driven too
  early, for the strobe of a past OUT, is still there when it is sampled. It is why
  INT0 asks nothing of the user.
- `Second`, of a watching INT2: once the line has been served (`Served`), only vector 2
  can still be sampled, and it selects the handler that reads nothing. A request
  made too early may be merged with the first or wait beside an acknowledge, but then
  it is the second that is answered. This is what keeps the reads in order there.
- `Transfer`, unless a mode 2 thread is slow: B stays within the line's length between
  IN and the end of INIR.

Most of the lemmas are one for each action of the CPU and of the other threads. `Silent`,
`Moves` and `Entry` sum up what is to be shown of steps that the program does not
notice, that move it along and that call a handler, `Calm` says when such a step keeps
`Timing`, and `Outside` and `Resting` sum up the steps of the other threads.

### Only model-checked

Liveness under fairness (`NmiServed`, `IntServed`, `BusGranted`, `BusReturned`,
`KillStops`, `Echo`, `SecondRequest`, `Finishes`) is out of the prover's reach. So is
what particular programs do (`PrintsText`, `Result`, `ReadsInside`, `ReturnsMatch`):
they are true of images, and a proof would execute them.

## 5. Not modelled

- `soft80.cpp:2019-2224`, the cases of rotates and bit operations in their
  alternative forms, and `decode_alt_prefix`, `alt_op`, `alt_reg`: no sequence of
  bytes reaches them (`TypeSafe` of `DecoderProofs`, finding 1).
- `instruction_history`: grows without being read.
- Lines without a character: `read()` then indexes outside `in_buffer`, undefined
  behaviour from which nothing follows.
- Opening the image file, standard input and output as such: I/O.
- Thread creation and destruction, `exit(0)` in a device thread: C++ object lifetime.
  Their hazards are listed.
- A reset in the middle of an instruction leaves the decoder half-way. `Soft80` models
  it; `Machine` has no reset pin, because none of the repository's systems drives one.

## 6. Plan

Done: the CPU's control, its refinement, its proofs; the decoder, its refinement, its
proofs; execution, the register file and the test programs, with the proofs of types,
of the ROM, of sums, shifts and kinds; the terminal system, with the proofs of its
safety properties under their weakest assumptions; both maps and their proofs.

What could follow: `Machine` with a reset pin, if a system of the repository comes to
drive one.
