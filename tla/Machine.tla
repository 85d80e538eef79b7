------------------------------- MODULE Machine -------------------------------
(***************************************************************************)
(* The program of main.cpp instruction by instruction: a ROM image, the    *)
(* decoder, execute_instruction, the interrupt acknowledges and a device   *)
(* with its thread.  Clocks and machine cycles are those of module Soft80, *)
(* which leaves open what is computed; here a step fetches one byte, and   *)
(* executes the instruction it completes.                                  *)
(*                                                                         *)
(* A vector is on the data bus when it is sampled (the run slow_tty shows  *)
(* what happens when it is not).                                           *)
(***************************************************************************)
EXTENDS Execution

CONSTANT Boot   \* the machines to start

VARIABLES
    boot,                               \* the one that runs
    m,                                  \* its state; see module Execution
    pending, prefixes, decoded,         \* the decoder
    at,                                 \* the place in Soft80::executor
    nmi_latch, int_latch, data_bus, int_vector, int_response,
    round, lines, requests,             \* the device thread, and what is to come
    calls, executed                     \* history

decoder   == <<pending, prefixes, decoded>>
latches   == <<nmi_latch, int_latch, data_bus>>
response  == <<int_vector, int_response>>
device    == <<round, lines, requests>>
vars      == <<boot, m, decoder, at, latches, response, device, calls, executed>>

Stream == INSTANCE InstructionStream WITH byte <- 0
Kinds  == INSTANCE InstructionKinds

\* int_vector without a value.
NoByte == 256
Device == {"None", "NMI", "INT0", "INT1", "INT2", "IntTimer", "NmiTimer"}

\* An image, the registers an earlier program left, the device and what it
\* does; limit bounds the instructions, 0 for no bound.  The rest is what the
\* program is for: the text it prints, the memory it leaves and the address
\* after its last HALT.
BootType(b) ==
    /\ b.size \in 0..(RomSize - 1)
    /\ DOMAIN b.file \subseteq 0..(b.size - 1)
    /\ \A a \in DOMAIN b.file : b.file[a] \in UInt8
    /\ b.registers \in RegisterFile
    /\ b.device \in Device
    /\ b.lines \in Seq(Seq(UInt8))
    /\ b.requests \in Nat /\ b.limit \in Nat
    /\ b.patient \in BOOLEAN /\ b.prompt \in BOOLEAN

ASSUME BootAssumption == \A b \in Boot : BootType(b)

-----------------------------------------------------------------------------
(* Power up.                                                               *)

\* The bytes of a file, except zeros, and one more: the last get() fails.
load_bin_file(b, extra) ==
    [a \in DOMAIN b.file \cup {b.size} |-> IF a = b.size THEN extra ELSE b.file[a]]

Init ==
    /\ boot \in Boot
    /\ \E extra \in Undefined :
          m = [reg |-> boot.registers, mem |-> load_bin_file(boot, extra),
               iff1 |-> FALSE, iff2 |-> FALSE, mode |-> 0, halt |-> FALSE, bus |-> <<>>,
               term |-> [should_read |-> FALSE, needs_len |-> FALSE,
                         in_buffer |-> <<>>, printed |-> <<>>]]
    /\ pending = <<>> /\ prefixes = TRUE /\ decoded = Stream!nullopt
    /\ at = "Loop"
    /\ nmi_latch = FALSE /\ int_latch = FALSE /\ data_bus = 0
    /\ int_vector = NoByte /\ int_response = FALSE
    /\ round = 0 /\ lines = boot.lines /\ requests = boot.requests
    /\ calls = <<>> /\ executed = 0

-----------------------------------------------------------------------------
(* The executor.                                                           *)

\* The byte fetch_opcode gets, and the state it leaves the instruction: a byte
\* of an interrupt response does not come from memory.
Fetched  == IF int_vector # NoByte THEN int_vector
            ELSE IF int_response THEN data_bus ELSE Peek(m.mem, m.reg["PC"])
Advanced == LET fresh == [m EXCEPT !.bus = <<>>]
            IN  IF m.halt \/ int_vector # NoByte \/ int_response THEN fresh
                ELSE Goto(fresh, m.reg["PC"] + 1)

\* History: addresses returns will go to.
Returns(i) == i.name \in {"RET", "RETI", "RETN"}
CallsAfter(i, from, to) ==
    IF from.reg["SP"] = to.reg["SP"] THEN calls
    ELSE IF i.name \in {"CALL", "RST"} THEN <<from.reg["PC"]>> \o calls
    ELSE IF Returns(i) /\ calls # <<>> THEN Tail(calls)
    ELSE calls

Execute(i) ==
    /\ \E start \in {Advanced} : \E n \in execute_instruction(i, start) :
          m' = n /\ calls' = CallsAfter(i, start, n)
    /\ executed' = IF boot.limit = 0 THEN 0 ELSE executed + 1
    /\ int_response' = FALSE
    /\ at' = "CheckNmi"

\* Faults: a halted CPU stays where it is without looking at its latches.
HaltLoop_Deaf ==
    /\ m.halt
    /\ UNCHANGED <<decoder, int_vector, m, calls, executed, int_response, at>>

\* In HALT the CPU executes the default instruction over and over.
HaltLoop ==
    /\ m.halt
    /\ decoded' = Stream!NoInstruction
    /\ Execute(Stream!NoInstruction)
    /\ UNCHANGED <<pending, prefixes, int_vector>>

Fetch ==
    /\ ~m.halt
    /\ Stream!Read(Append(pending, Fetched))
    /\ int_vector' = NoByte
    /\ IF decoded' # Stream!nullopt
          THEN Execute(decoded')
          ELSE /\ m' = Advanced
               /\ UNCHANGED <<calls, executed, int_response, at>>

ExecutorLoop ==
    /\ at = "Loop"
    /\ boot.limit = 0 \/ executed < boot.limit
    /\ HaltLoop \/ Fetch
    /\ UNCHANGED <<boot, latches, device>>

\* An acknowledge pushes the address of the next instruction.
Interrupted(pc) == Goto(Push([m EXCEPT !.halt = FALSE, !.bus = <<>>], m.reg["PC"]), pc)

nmi_acknowledge ==
    /\ nmi_latch' = FALSE
    /\ m' = [Interrupted(102) EXCEPT !.iff1 = FALSE, !.iff2 = m.iff1]
    /\ calls' = <<m.reg["PC"]>> \o calls

CheckNmi ==
    /\ at = "CheckNmi" /\ at' = "CheckInt"
    /\ IF nmi_latch THEN nmi_acknowledge ELSE UNCHANGED <<nmi_latch, m, calls>>
    /\ UNCHANGED <<boot, decoder, int_latch, data_bus, response, device, executed>>

\* The entry of the table I points to, read after the address is pushed.
Entry(pushed) ==
    LET low  == 256 * m.reg["I"] + data_bus
        high == Word(BitsOf(256 * m.reg["I"]) \cup BitsOf(data_bus + 1))
    IN  Peek(pushed.mem, low) + 256 * Peek(pushed.mem, high)

Masked(n) == [n EXCEPT !.iff1 = FALSE, !.iff2 = FALSE, !.halt = FALSE]

\* Fault: mode 1 forgets the address it came from.
int_acknowledge_NoPush ==
    /\ int_latch' = FALSE
    /\ UNCHANGED response
    /\ m' = Masked(Goto(m, 56))
    /\ calls' = <<m.reg["PC"]>> \o calls

int_acknowledge ==
    /\ int_latch' = FALSE
    /\ IF m.mode = 0
          THEN /\ int_vector' = data_bus /\ int_response' = TRUE
               /\ m' = Masked(m)
               /\ UNCHANGED calls
          ELSE /\ UNCHANGED response
               /\ m' = Masked(Interrupted(IF m.mode = 1 THEN 56 ELSE Entry(Interrupted(0))))
               /\ calls' = <<m.reg["PC"]>> \o calls

CheckInt ==
    /\ at = "CheckInt" /\ at' = "Loop"
    /\ IF int_latch /\ m.iff1 THEN int_acknowledge ELSE UNCHANGED <<int_latch, response, m, calls>>
    /\ UNCHANGED <<boot, decoder, nmi_latch, data_bus, device, executed>>

\* kill(), after the last instruction of a bounded machine.
ExecutorExit ==
    /\ at = "Loop" /\ boot.limit # 0 /\ executed = boot.limit
    /\ at' = "Exit"
    /\ UNCHANGED <<boot, m, decoder, latches, response, device, calls, executed>>

-----------------------------------------------------------------------------
(* The device thread: the four executors of terminaldevice.h, and timers   *)
(* that request an interrupt whenever they like.                           *)

signal == IF boot.device \in {"NMI", "NmiTimer"}
             THEN nmi_latch' = TRUE /\ UNCHANGED int_latch
             ELSE int_latch' = TRUE /\ UNCHANGED nmi_latch

\* The line comes when the user types it; the patient one waits for HALT.
CanAnswer == /\ round = 0 /\ m.term.should_read /\ lines # <<>>
             /\ boot.patient => m.halt

\* Fault: read() is not told that the length comes first.
Answer_NoLength ==
    /\ CanAnswer
    /\ m' = [m EXCEPT !.term.in_buffer = Head(lines)]
    /\ signal
    /\ data_bus' = CASE boot.device = "INT0" -> 247 [] boot.device = "INT2" -> 0
                     [] OTHER -> data_bus
    /\ lines' = Tail(lines)
    /\ round' = IF boot.device = "INT2" THEN 1 ELSE 2
    /\ UNCHANGED requests

Answer ==
    /\ CanAnswer
    /\ m' = [m EXCEPT !.term.in_buffer = Head(lines), !.term.needs_len = TRUE]
    /\ signal
    /\ data_bus' = CASE boot.device = "INT0" -> 247 [] boot.device = "INT2" -> 0
                     [] OTHER -> data_bus
    /\ lines' = Tail(lines)
    /\ round' = IF boot.device = "INT2" THEN 1 ELSE 2
    /\ UNCHANGED requests

\* The mode 2 device waits for the acknowledge and then for HALT.
CanAgain == round = 1 /\ ~int_latch /\ m.halt
SignalAgain == /\ CanAgain /\ signal
               /\ data_bus' = 2 /\ round' = 2
               /\ UNCHANGED <<m, lines, requests>>

CanFinish == round = 2 /\ (boot.device \in {"INT0", "INT2"} => ~int_latch)
Finish == /\ CanFinish
          /\ m' = [m EXCEPT !.term.should_read = FALSE]
          /\ round' = 0
          /\ UNCHANGED <<latches, lines, requests>>

Timer == /\ boot.device \in {"IntTimer", "NmiTimer"} /\ requests > 0
         /\ signal
         /\ requests' = requests - 1
         /\ UNCHANGED <<m, data_bus, round, lines>>

DeviceStep ==
    /\ at # "Exit"
    /\ Answer \/ SignalAgain \/ Finish \/ Timer
    /\ UNCHANGED <<boot, decoder, at, response, calls, executed>>

-----------------------------------------------------------------------------
\* A prompt device thread does what it can before the CPU goes on.
Cpu == /\ boot.prompt => ~(CanAnswer \/ CanAgain \/ CanFinish)
       /\ ExecutorLoop \/ CheckNmi \/ CheckInt \/ ExecutorExit

\* The thread has left executor().
Exited == at = "Exit" /\ UNCHANGED vars

Next == Cpu \/ DeviceStep \/ Exited

Spec == Init /\ [][Next]_vars

\* The threads of the CPU and of the device are scheduled.
FairSpec == Spec /\ WF_vars(Cpu) /\ WF_vars(DeviceStep)

-----------------------------------------------------------------------------
(* Properties                                                              *)

\* Registers never outgrow their width; a memory cell, a byte of a line and a
\* byte on the data bus are bytes.
MachineType(n) ==
    /\ DOMAIN n = {"reg", "mem", "iff1", "iff2", "mode", "halt", "term", "bus"}
    /\ n.reg \in RegisterFile
    /\ DOMAIN n.mem \subseteq UInt16 /\ \A a \in DOMAIN n.mem : n.mem[a] \in UInt8
    /\ n.iff1 \in BOOLEAN /\ n.iff2 \in BOOLEAN /\ n.mode \in 0..2 /\ n.halt \in BOOLEAN
    /\ n.bus \in Seq(Kinds!BusCycle)
    /\ n.term \in [should_read : BOOLEAN, needs_len : BOOLEAN,
                   in_buffer : Seq(UInt8), printed : Seq(UInt8)]

TypeOK ==
    /\ MachineType(m)
    /\ at \in {"Loop", "CheckNmi", "CheckInt", "Exit"}
    /\ nmi_latch \in BOOLEAN /\ int_latch \in BOOLEAN /\ data_bus \in UInt8
    /\ int_vector \in UInt8 \cup {NoByte} /\ int_response \in BOOLEAN
    /\ round \in 0..2 /\ lines \in Seq(Seq(UInt8)) /\ requests \in Nat
    /\ calls \in Seq(UInt16) /\ executed \in Nat

\* An instruction has ended.
Executed == at = "Loop" /\ at' = "CheckNmi"

\* No program changes its ROM, whatever it writes and wherever a jump writes
\* its result back to.
ProgramKept ==
    \A a \in DOMAIN m.mem : a < RomSize /\ a # boot.size =>
        a \in DOMAIN boot.file /\ m.mem[a] = boot.file[a]

\* What a program prints is what it was written to print, with every line the
\* device delivered at its place, however the requests fall.
PrintsText ==
    boot.limit = 0 =>
        /\ Len(m.term.printed) <= Len(boot.text)
        /\ \A k \in DOMAIN m.term.printed : m.term.printed[k] = boot.text[k]

\* After its last HALT a program has left what its block instructions were to
\* leave, also when they were interrupted between two transfers.
AtEnd  == m.halt /\ m.reg["PC"] = boot.end
Result == AtEnd => \A a \in DOMAIN boot.result : Peek(m.mem, a) = boot.result[a]

\* The device is read only while it holds what is read: the length once, then
\* every character at an index inside in_buffer.
ReadsInside ==
    [][Executed /\ boot.limit = 0 /\ (\E k \in DOMAIN m'.bus : m'.bus[k] = "IORead") =>
         m.term.needs_len \/ m.reg["B"] \in 1..Len(m.term.in_buffer)]_vars

\* Every return goes back to what was called or interrupted last.
ReturnsMatch ==
    [][Executed /\ Returns(decoded') /\ m'.reg["SP"] # m.reg["SP"] /\ calls # <<>> =>
         m'.reg["PC"] = Head(calls)]_vars

\* Every instruction of the decoder is of one of the kinds module Soft80 knows:
\* it has no other bus cycles, no other effect on masks, mode and HALT, and
\* jumps only if the kind does.
KindMatches ==
    [][Executed =>
         \E k \in Kinds!Instruction :
            /\ m'.bus = Kinds!Cycles[k]
            /\ m'.iff1 = Kinds!Iff1After(k, m.iff1, m.iff2)
            /\ m'.iff2 = Kinds!Iff2After(k, m.iff2)
            /\ m'.mode = Kinds!ModeAfter(k, m.mode)
            /\ m'.halt = (m.halt \/ k = "HALT")
            /\ k \in Kinds!Jump \/ m'.reg["PC"] = Advanced.reg["PC"]]_vars

Width(i)     == IF is_16bit(i.dest) THEN 65536 ELSE 256
SameWidth(i) == is_16bit(i.dest) <=> is_16bit(i.source)
CarryOf(n)   == (n.reg["F"]) % 2

\* Of every sum and difference the destination keeps the low bits, and Carry
\* says whether it lost any.  Where the operands have one width the two are
\* together the exact result.  They are not in ADD A,(HL) and its like (86H,
\* 8EH, 96H, 9EH, also after DDH and FDH), which take the pair HL itself for
\* an operand: A keeps eight bits of up to 17, and the others are lost.
SumAndCarry ==
    [][\A i \in {decoded'} :
         Executed /\ i.name \in {"ADD", "ADC", "SUB", "SBC"} =>
            LET x   == reg(Advanced, i.dest)
                y   == Value(i, i.source, Advanced)
                c   == IF i.name \in {"ADC", "SBC"} THEN CarryOf(m) ELSE 0
                up  == i.name \in {"ADD", "ADC"}
                r   == IF up THEN x + y + c ELSE x - y - c
                out == Width(i) * CarryOf(m')
            IN  /\ reg(m', i.dest) = r % Width(i)
                /\ CarryOf(m') = 0 <=> 0 <= r /\ r < Width(i)
                /\ SameWidth(i) => r = reg(m', i.dest) + (IF up THEN out ELSE -out)]_vars

\* A shift or rotate moves every bit to its neighbour and the lowest one, or
\* the one in bit 7, into Carry: nothing of a byte is lost.  CB x6 shifts the
\* pair HL and does lose bits: to the left bit 15 goes, and Carry says that
\* one of the upper nine was set; to the right only the seven low bits of the
\* result are said to be those of the pair.
ShiftAndCarry ==
    [][\A i \in {decoded'} :
         LET x == reg(Advanced, i.dest)
             r == reg(m', i.dest)
         IN  Executed =>
               /\ i.name \in {"RL", "RLA", "RLC", "RLCA", "SLA", "SLL"} =>
                     /\ (r - 2 * x) % Width(i) \in {0, 1}
                     /\ CarryOf(m') = 1 <=> x > 127
               /\ i.name \in {"RR", "RRA", "RRC", "RRCA", "SRA", "SRL"} =>
                     2 * (r % 128) + CarryOf(m') = x % 256]_vars

\* With a user who waits for HALT every program prints all of its text and
\* reaches its last HALT; one that asks for another line needs a device thread
\* that is done with the first.
Finishes ==
    boot.limit = 0 /\ boot.patient /\ (boot.prompt \/ Len(boot.lines) <= 1) =>
        <>(AtEnd /\ m.term.printed = boot.text)

\* An instruction that names no flag leaves the flags alone.
FlagsKept ==
    [][Executed /\ decoded'.name \in {"LD", "JP", "CALL", "RET", "PUSH", "EXX"}
                /\ decoded'.dest \notin {"A", "AF", "F"} =>
         m'.reg["F"] = m.reg["F"]]_vars
=============================================================================
