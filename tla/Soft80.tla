------------------------------- MODULE Soft80 -------------------------------
(***************************************************************************)
(* The executor thread of class Soft80 (source/soft80.cpp): a Z80 that a   *)
(* clock thread drives one T state at a time, with its control pins, bus   *)
(* grant, reset, HALT state, interrupt latches and interrupt masks.        *)
(*                                                                         *)
(* The granularity is one clock: every action either consumes the tick     *)
(* that cycle_clock() left in should_cycle and runs to the next            *)
(* wait_next_clock(), or is a step the thread takes without waiting and    *)
(* that reads a variable another thread writes.  What instructions compute *)
(* is abstracted to the machine cycles they run and to the control state   *)
(* they change; registers and memory are not in this module.               *)
(***************************************************************************)
EXTENDS Naturals, Sequences, InstructionKinds

CONSTANTS
    Byte,             \* values of the data bus and of an interrupt vector
    NoByte,           \* std::nullopt of int_vector
    Program,          \* kinds of instruction the decoder meets
    MaxBytes,         \* bytes of the longest instruction of the decoder
    busreq_sources,   \* input pins given to add_busreq_source
    reset_sources,    \* ... to add_reset_source
    wait_sources      \* ... to add_wait_source

VARIABLES
    \* where the executor thread stands
    cycle,            \* the machine cycle, or a point between two of them
    t,                \* the clock of that cycle the thread waits for
    caller,           \* the function that runs the cycle
    step,             \* which cycle of the caller's plan it is
    resume,           \* the cycle bus_acknowledge was called from
    \* fetch_opcode and decoder
    current_instruction, bytes, PC,
    \* output pins
    pins, busack, halt, data_bus,
    \* interrupts
    iff1, iff2, interrupt_mode, int_response, int_vector, nmi_latch, int_latch,
    \* written by other threads
    should_cycle, asserted, should_executor_exit

place       == <<cycle, t, caller, step, resume>>
opcode      == <<current_instruction, bytes, PC>>
outputs     == <<pins, busack, halt, data_bus>>
mask        == <<iff1, iff2>>
response    == <<int_response, int_vector>>
latches     == <<nmi_latch, int_latch>>
environment == <<asserted, should_executor_exit>>
vars        == <<place, opcode, outputs, mask, interrupt_mode, response,
                 latches, should_cycle, environment>>

-----------------------------------------------------------------------------
(* Instructions, machine cycles and the strobes they drive.                *)

\* The control pins asserted from each clock of a cycle on.
Strobes ==
    [Fetch    |-> <<{"m1", "mreq", "rd"}, {"m1", "mreq", "rd"},
                    {"mreq", "rfsh"}, {"mreq", "rfsh"}>>,
     Halt     |-> <<{"m1"}, {"m1"}, {}, {}>>,
     MemRead  |-> <<{"mreq", "rd"}, {"mreq", "rd"}, {"rd"}>>,
     MemWrite |-> <<{"mreq"}, {"mreq", "wr"}, {"wr"}>>,
     IORead   |-> <<{}, {"iorq", "rd"}, {"iorq", "rd"}, {"iorq", "rd"}>>,
     IOWrite  |-> <<{}, {"iorq", "wr"}, {"iorq", "wr"}, {"iorq", "wr"}>>]

ASSUME ProgramAssumption == Program \subseteq Instruction
ASSUME ByteAssumption    == 0 \in Byte /\ NoByte \notin Byte
ASSUME MaxBytesAssumption == MaxBytes \in Nat \ {0}

read_busreq == asserted \cap busreq_sources # {}
read_reset  == asserted \cap reset_sources # {}
read_wait   == asserted \cap wait_sources # {}

-----------------------------------------------------------------------------
(* Moving the thread.                                                      *)

\* wait_next_clock returns: a tick is there and no wait source holds it up.
Tick == should_cycle /\ ~read_wait /\ should_cycle' = FALSE

\* The executor's own loop continues at c.
At(c) ==
    /\ cycle' = c /\ t' = 1
    /\ caller' = "executor" /\ step' = 0 /\ resume' = "None"

\* Fault: the last cycle of the plan is dropped.
Run_DropsLast(f, plan, n) ==
    /\ caller' = f /\ step' = n /\ t' = 1 /\ resume' = "None"
    /\ cycle' = IF n < Len(plan) THEN plan[n] ELSE "Return"

\* Function f runs the n-th cycle of its plan, or has run them all.
Run(f, plan, n) ==
    /\ caller' = f /\ step' = n /\ t' = 1 /\ resume' = "None"
    /\ cycle' = IF n <= Len(plan) THEN plan[n] ELSE "Return"

NextClock == t' = t + 1 /\ UNCHANGED <<cycle, caller, step, resume>>

\* The stack writes of an acknowledge, and the vector reads of mode 2.
PushPC == <<"MemWrite", "MemWrite">>
IntPlan == IF interrupt_mode = 1
              THEN PushPC
              ELSE <<"MemWrite", "MemWrite", "MemRead", "MemRead">>

Plan == CASE caller = "execute_instruction" -> Cycles[current_instruction]
          [] caller = "nmi_acknowledge"     -> PushPC
          [] caller = "int_acknowledge"     -> IntPlan
          [] OTHER                          -> <<>>

-----------------------------------------------------------------------------
(* fetch_opcode                                                            *)

\* Faults: one byte too many is accepted; the latches are looked at after
\* every byte.
DecodePart_OffByOne ==
    /\ bytes < MaxBytes
    /\ bytes' = bytes + 1
    /\ At("Loop")
    /\ UNCHANGED <<current_instruction, int_response>>

DecodePart_ChecksLatches ==
    /\ bytes + 1 < MaxBytes
    /\ bytes' = bytes + 1
    /\ At("CheckNmi")
    /\ UNCHANGED <<current_instruction, int_response>>

\* decoder.decode wants another byte: there is no instruction to execute yet.
DecodePart ==
    /\ bytes + 1 < MaxBytes
    /\ bytes' = bytes + 1
    /\ At("Loop")
    /\ UNCHANGED <<current_instruction, int_response>>

\* decoder.decode returns an instruction and the executor runs it at once.
DecodeLast ==
    \E i \in Program :
        /\ current_instruction' = i
        /\ bytes' = 0
        /\ int_response' = FALSE
        /\ Run("execute_instruction", Cycles[i], 1)

Decode == DecodePart \/ DecodeLast

\* Fault: the vector is used but not consumed.
TakeVector_Keeps == int_vector # NoByte /\ Decode /\ UNCHANGED <<int_vector, PC, pins>>

\* The byte an interrupting device gave in mode 0 stands for the fetched one.
TakeVector == int_vector # NoByte /\ int_vector' = NoByte /\ Decode /\ UNCHANGED <<PC, pins>>

\* The first clock after update_m_cycle.
OpenFetch ==
    \/ TakeVector
    \/ /\ int_vector = NoByte
       /\ pins' = Strobes["Fetch"][1]
       /\ cycle' = "Fetch" /\ t' = 2 /\ resume' = "None"
       /\ UNCHANGED <<caller, step, opcode, response>>

FetchClock ==
    /\ cycle = "Fetch" /\ t > 1 /\ Tick
    /\ pins' = Strobes["Fetch"][t]
    /\ \/ /\ t = 2
          /\ PC' = IF int_response THEN PC ELSE "Program"
          /\ NextClock
          /\ UNCHANGED <<current_instruction, bytes, int_response>>
       \/ t = 3 /\ NextClock /\ UNCHANGED <<opcode, int_response>>
       \/ t = 4 /\ Decode /\ UNCHANGED PC
    /\ UNCHANGED <<busack, halt, data_bus, mask, interrupt_mode, int_vector,
                   latches, environment>>

-----------------------------------------------------------------------------
(* read_memory, write_memory, read_io, write_io                            *)

OpenBusCycle(c) ==
    /\ cycle' = c /\ t' = 2 /\ resume' = "None"
    /\ pins' = Strobes[c][1]
    /\ IF c \in {"MemWrite", "IOWrite"} THEN data_bus' \in Byte
                                        ELSE UNCHANGED data_bus
    /\ UNCHANGED <<caller, step>>

BusClock ==
    /\ cycle \in BusCycle /\ t > 1 /\ Tick
    /\ pins' = Strobes[cycle][t]
    /\ IF t < Len(Strobes[cycle]) THEN NextClock ELSE Run(caller, Plan, step + 1)
    /\ UNCHANGED <<opcode, busack, halt, data_bus, mask, interrupt_mode,
                   response, latches, environment>>

-----------------------------------------------------------------------------
(* int_acknowledge and nmi_acknowledge                                     *)

\* Fault: the CPU stays halted.
OpenIntAck_Halted ==
    /\ cycle' = "IntAck" /\ t' = 2 /\ resume' = "None"
    /\ iff1' = FALSE /\ iff2' = FALSE
    /\ pins' = pins \cup {"m1"}
    /\ UNCHANGED <<halt, caller, step>>

OpenIntAck ==
    /\ cycle' = "IntAck" /\ t' = 2 /\ resume' = "None"
    /\ halt' = FALSE /\ iff1' = FALSE /\ iff2' = FALSE
    /\ pins' = pins \cup {"m1"}
    /\ UNCHANGED <<caller, step>>

\* Fault: the acknowledge strobes are not taken back.
EndAckStrobes_Keeps == pins
EndAckStrobes == pins \ {"m1", "iorq"}

\* IORQ joins M1 on the third clock and the vector is sampled on the fifth.
IntAckClock ==
    /\ cycle = "IntAck" /\ t > 1 /\ Tick
    /\ \/ t \in {2, 4} /\ NextClock /\ UNCHANGED <<pins, response>>
       \/ t = 3 /\ pins' = pins \cup {"iorq"} /\ NextClock /\ UNCHANGED response
       \/ /\ t = 5
          /\ pins' = EndAckStrobes
          /\ IF interrupt_mode = 0
                THEN int_response' = TRUE /\ int_vector' = data_bus /\ At("Loop")
                ELSE Run("int_acknowledge", IntPlan, 1) /\ UNCHANGED response
    /\ UNCHANGED <<opcode, busack, halt, data_bus, mask, interrupt_mode,
                   latches, environment>>

\* Faults: the CPU stays halted; IFF1 stays set; it is cleared before it is
\* saved.
OpenNmiAck_Halted ==
    /\ iff2' = iff1 /\ iff1' = FALSE /\ UNCHANGED halt
    /\ Run("nmi_acknowledge", PushPC, 1)

OpenNmiAck_Unmasked ==
    /\ halt' = FALSE /\ iff2' = iff1 /\ UNCHANGED iff1
    /\ Run("nmi_acknowledge", PushPC, 1)

OpenNmiAck_SavesLate ==
    /\ halt' = FALSE /\ iff1' = FALSE /\ iff2' = FALSE
    /\ Run("nmi_acknowledge", PushPC, 1)

OpenNmiAck ==
    /\ halt' = FALSE /\ iff2' = iff1 /\ iff1' = FALSE
    /\ Run("nmi_acknowledge", PushPC, 1)

\* The assignment to the PC that ends an acknowledge.
EnterHandler ==
    /\ cycle = "Return"
    /\ \/ caller = "nmi_acknowledge" /\ PC' = "Nmi" /\ At("CheckInt")
       \/ /\ caller = "int_acknowledge"
          /\ PC' = IF interrupt_mode = 1 THEN "Mode1" ELSE "Mode2"
          /\ At("Loop")
    /\ UNCHANGED <<current_instruction, bytes, outputs, mask, interrupt_mode,
                   response, latches, should_cycle, environment>>

-----------------------------------------------------------------------------
(* update_m_cycle and bus_acknowledge                                      *)

MCycle == BusCycle \cup {"Fetch", "IntAck", "NmiAck"}

\* What machine cycle c does on its first clock once update_m_cycle returns.
Open(c) ==
    \/ c = "Fetch" /\ OpenFetch /\ UNCHANGED <<halt, mask, data_bus>>
    \/ c \in BusCycle /\ OpenBusCycle(c) /\ UNCHANGED <<opcode, response, halt, mask>>
    \/ c = "IntAck" /\ OpenIntAck /\ UNCHANGED <<opcode, response, data_bus>>
    \/ c = "NmiAck" /\ OpenNmiAck /\ UNCHANGED <<opcode, response, pins, data_bus>>

\* Fault: opcode fetches do not look at BUSREQ.
PollsBusreq_NotFetch == cycle # "Fetch"

\* A fetch that answers an interrupt does not look at BUSREQ.
PollsBusreq == ~(cycle = "Fetch" /\ int_response)

FirstClock ==
    /\ cycle \in MCycle /\ t = 1 /\ Tick
    /\ IF read_busreq /\ PollsBusreq
          THEN /\ cycle' = "BusAck" /\ resume' = cycle
               /\ UNCHANGED <<t, caller, step, opcode, response, pins, halt,
                              data_bus, mask>>
          ELSE Open(cycle)
    /\ UNCHANGED <<busack, interrupt_mode, latches, environment>>

\* Clock 1 grants the bus, point 2 polls BUSREQ, clock 3 is waited for while
\* it stays asserted; the interrupted cycle then goes on in the same clock.
BusAckClock ==
    /\ cycle = "BusAck" /\ t \in {1, 3} /\ Tick
    /\ \/ t = 1 /\ busack' = TRUE /\ data_bus' = 0 /\ t' = 2
       \/ t = 3 /\ UNCHANGED <<busack, data_bus>> /\ t' = 2
    /\ UNCHANGED <<cycle, caller, step, resume, opcode, pins, halt, mask,
                   interrupt_mode, response, latches, environment>>

KeepGrant ==
    /\ read_busreq
    /\ t' = 3
    /\ UNCHANGED <<cycle, caller, step, resume, opcode, response, outputs, mask>>

\* Fault: the cycle goes on with BUSACK still up.
EndGrant_KeepsBusack == ~read_busreq /\ Open(resume) /\ UNCHANGED busack
EndGrant == ~read_busreq /\ Open(resume) /\ busack' = FALSE

BusAckPoll ==
    /\ cycle = "BusAck" /\ t = 2
    /\ KeepGrant \/ EndGrant
    /\ UNCHANGED <<interrupt_mode, latches, should_cycle, environment>>

-----------------------------------------------------------------------------
(* executor                                                                *)

ExecutorLoop ==
    /\ cycle = "Loop"
    /\ At(IF should_executor_exit THEN "Exited"
          ELSE IF read_reset THEN "Reset"
          ELSE IF halt THEN "Halt" ELSE "Fetch")
    /\ UNCHANGED <<opcode, outputs, mask, interrupt_mode, response, latches,
                   should_cycle, environment>>

\* A reset source is looked at again on the third clock: a pulse that is over
\* by then only wakes the CPU from HALT.
ResetClock ==
    /\ cycle = "Reset" /\ Tick
    /\ \/ /\ t = 1
          /\ pins' = {} /\ busack' = FALSE /\ halt' = FALSE
          /\ NextClock
          /\ UNCHANGED <<PC, iff1, interrupt_mode>>
       \/ t = 2 /\ NextClock /\ UNCHANGED <<PC, pins, busack, halt, iff1, interrupt_mode>>
       \/ /\ t = 3
          /\ IF read_reset
                THEN iff1' = FALSE /\ PC' = "Reset" /\ interrupt_mode' = 0
                ELSE UNCHANGED <<iff1, PC, interrupt_mode>>
          /\ At(IF halt THEN "Halt" ELSE "Fetch")
          /\ UNCHANGED <<pins, busack, halt>>
    /\ UNCHANGED <<current_instruction, bytes, data_bus, iff2, response, latches,
                   environment>>

\* A halted CPU runs an empty instruction every four clocks.
HaltClock ==
    /\ cycle = "Halt" /\ Tick
    /\ pins' = Strobes["Halt"][t]
    /\ IF t < 4
          THEN NextClock /\ UNCHANGED <<current_instruction, int_response>>
          ELSE /\ current_instruction' = "NOP"
               /\ int_response' = FALSE
               /\ Run("execute_instruction", <<>>, 1)
    /\ UNCHANGED <<bytes, PC, busack, halt, data_bus, mask, interrupt_mode,
                   int_vector, latches, environment>>

\* The control state the case of each instruction changes.
ExecuteInstruction ==
    /\ cycle = "Return" /\ caller = "execute_instruction"
    /\ LET i == current_instruction IN
          /\ iff1' = Iff1After(i, iff1, iff2) /\ iff2' = Iff2After(i, iff2)
          /\ halt' = (halt \/ i = "HALT")
          /\ interrupt_mode' = ModeAfter(i, interrupt_mode)
          /\ PC' \in IF i \in Jump THEN {PC, "Program"} ELSE {PC}
    /\ current_instruction' = "None"
    /\ At("CheckNmi")
    /\ UNCHANGED <<bytes, pins, busack, data_bus, response, latches,
                   should_cycle, environment>>

\* Faults: NMI is maskable; INT is only taken from HALT.
TakesNmi_Masked  == nmi_latch /\ iff1
TakesInt_InHalt  == int_latch /\ iff1 /\ halt

TakesNmi == nmi_latch
TakesInt == int_latch /\ iff1

\* The two latches are tested one after the other; a latch that is taken is
\* cleared before its acknowledge starts.
CheckNmi ==
    /\ cycle = "CheckNmi"
    /\ IF TakesNmi
          THEN /\ nmi_latch' = FALSE
               /\ cycle' = "NmiAck" /\ caller' = "nmi_acknowledge"
               /\ UNCHANGED <<t, step, resume>>
          ELSE At("CheckInt") /\ UNCHANGED nmi_latch
    /\ UNCHANGED <<opcode, outputs, mask, interrupt_mode, response, int_latch,
                   should_cycle, environment>>

CheckInt ==
    /\ cycle = "CheckInt"
    /\ IF TakesInt
          THEN /\ int_latch' = FALSE
               /\ cycle' = "IntAck" /\ caller' = "int_acknowledge"
               /\ UNCHANGED <<t, step, resume>>
          ELSE At("Loop") /\ UNCHANGED int_latch
    /\ UNCHANGED <<opcode, outputs, mask, interrupt_mode, response, nmi_latch,
                   should_cycle, environment>>

\* wait_next_clock finds no tick and the exit flag up: exit(0).
Waiting == \/ cycle \in MCycle \cup {"Reset", "Halt"}
           \/ cycle = "BusAck" /\ t # 2

\* Fault: the exit flag is not looked at while a wait source is up.
NoTick_IgnoresWait == ~should_cycle
NoTick == ~should_cycle \/ read_wait

ExitProcess ==
    /\ Waiting /\ should_executor_exit
    /\ NoTick
    /\ At("Exited")
    /\ UNCHANGED <<opcode, outputs, mask, interrupt_mode, response, latches,
                   should_cycle, environment>>

CpuStep ==
    \/ ExecutorLoop \/ ResetClock \/ HaltClock
    \/ FirstClock \/ FetchClock \/ BusClock \/ IntAckClock
    \/ BusAckClock \/ BusAckPoll
    \/ ExecuteInstruction \/ EnterHandler \/ CheckNmi \/ CheckInt
    \/ ExitProcess

-----------------------------------------------------------------------------
(* What the other threads do: the clock loop of main, devices, the owners  *)
(* of the input pins, and the code that stops the CPU.                     *)

cpu == <<place, opcode, pins, busack, halt, mask, interrupt_mode, response>>

\* A tick the executor has not consumed yet absorbs the next one.
cycle_clock ==
    /\ should_cycle' = TRUE
    /\ UNCHANGED <<cpu, data_bus, latches, environment>>

signal_int ==
    /\ int_latch' = TRUE
    /\ UNCHANGED <<cpu, data_bus, nmi_latch, should_cycle, environment>>

signal_nmi ==
    /\ nmi_latch' = TRUE
    /\ UNCHANGED <<cpu, data_bus, int_latch, should_cycle, environment>>

\* kill(), and the destructor before it joins the thread.
kill ==
    /\ should_executor_exit' = TRUE
    /\ UNCHANGED <<cpu, data_bus, latches, should_cycle, asserted>>

\* The owner of an input pin raises or lowers it.
SetPin(b) ==
    /\ asserted' \in {asserted \cup {b}, asserted \ {b}}
    /\ UNCHANGED <<cpu, data_bus, latches, should_cycle, should_executor_exit>>

\* data_bus is public and a device writes it when it sees an acknowledge.
DriveDataBus ==
    /\ data_bus' \in Byte
    /\ UNCHANGED <<cpu, latches, should_cycle, environment>>

Source == busreq_sources \cup reset_sources \cup wait_sources

Environment == \/ cycle_clock \/ signal_int \/ signal_nmi \/ kill \/ DriveDataBus
               \/ \E b \in Source : SetPin(b)

-----------------------------------------------------------------------------
\* Every pin is low, no instruction is known, and data_bus is uninitialized.
Init ==
    /\ cycle = "Loop" /\ t = 1 /\ caller = "executor" /\ step = 0 /\ resume = "None"
    /\ current_instruction = "None" /\ bytes = 0 /\ PC = "Reset"
    /\ pins = {} /\ busack = FALSE /\ halt = FALSE /\ data_bus \in Byte
    /\ iff1 = FALSE /\ iff2 = FALSE /\ interrupt_mode = 0
    /\ int_response = FALSE /\ int_vector = NoByte
    /\ nmi_latch = FALSE /\ int_latch = FALSE
    /\ should_cycle = FALSE /\ asserted = {} /\ should_executor_exit = FALSE

Next == CpuStep \/ Environment

Spec == Init /\ [][Next]_vars

\* The executor thread is scheduled, and main ticks the clock for ever.
FairSpec == Spec /\ WF_vars(CpuStep) /\ WF_vars(cycle_clock)

-----------------------------------------------------------------------------
(* Properties                                                              *)

Routine == {"execute_instruction", "nmi_acknowledge", "int_acknowledge"}
Pin     == {"iorq", "m1", "mreq", "rd", "wr", "rfsh"}
Handler == {"Nmi", "Mode1", "Mode2"}

PlaceType ==
    /\ cycle \in MCycle \cup {"Loop", "Reset", "Halt", "BusAck", "Return",
                              "CheckNmi", "CheckInt", "Exited"}
    /\ t \in 1..5
    /\ caller \in Routine \cup {"executor"}
    /\ step \in 0..5
    /\ resume \in MCycle \cup {"None"}

OpcodeType ==
    /\ current_instruction \in Instruction \cup {"None"}
    /\ bytes \in 0..(MaxBytes - 1)
    /\ PC \in Handler \cup {"Reset", "Program"}
    /\ interrupt_mode \in 0..2
    /\ int_vector \in Byte \cup {NoByte}

PinType ==
    /\ pins \subseteq Pin
    /\ data_bus \in Byte
    /\ asserted \subseteq Source

FlagType ==
    /\ busack \in BOOLEAN /\ halt \in BOOLEAN
    /\ iff1 \in BOOLEAN /\ iff2 \in BOOLEAN /\ int_response \in BOOLEAN
    /\ nmi_latch \in BOOLEAN /\ int_latch \in BOOLEAN
    /\ should_cycle \in BOOLEAN /\ should_executor_exit \in BOOLEAN

\* The values of the executor thread's position and of the CPU's state.
TypeOK == PlaceType /\ OpcodeType /\ PinType /\ FlagType

\* A device takes IORQ together with M1 for an interrupt acknowledge
\* (wait_cpu_int_ack).  No other cycle asserts both, although an I/O cycle
\* leaves IORQ up for whatever comes next, and when both are seen the masks
\* are closed, HALT is over and the vector has not been sampled.
AckWindow ==
    {"iorq", "m1"} \subseteq pins =>
        \/ cycle = "Exited"
        \/ cycle = "IntAck" /\ t > 1 /\ ~iff1 /\ ~iff2 /\ ~halt

\* From the acceptance of a request until the first byte of its handler is
\* fetched, or the instruction a device supplies in mode 0 is complete, no
\* maskable request can be accepted: not at the boundary where an NMI was
\* just taken, and not between the bytes of the response.
HandlerMasked == PC \in Handler \/ int_response => ~iff1

\* Requests are answered between instructions only: the decoder holds no
\* unfinished instruction, and none is being answered already.
AckAtBoundary ==
    caller \in {"nmi_acknowledge", "int_acknowledge"} =>
        /\ current_instruction = "None" /\ bytes = 0
        /\ ~int_response /\ int_vector = NoByte

\* The vector byte of a mode 0 device is the first byte of its instruction,
\* and no bus cycle or other request comes between its arrival and its use.
VectorFirst ==
    int_vector # NoByte =>
        /\ int_response /\ bytes = 0
        /\ \/ cycle \in {"Loop", "Reset", "Exited"}
           \/ cycle = "Fetch" /\ t = 1

\* A halted CPU fetches and transfers nothing: it idles, looks at its latches
\* and its reset, or is about to be woken.
HaltQuiet ==
    halt =>
        \/ cycle \in {"Loop", "Halt", "CheckNmi", "CheckInt", "Exited"}
        \/ cycle = "Reset" /\ t = 1
        \/ cycle = "Return" /\ current_instruction = "NOP"
        \/ cycle \in {"NmiAck", "IntAck"} /\ t = 1
        \/ cycle = "BusAck" /\ resume \in {"NmiAck", "IntAck"}

\* IFF2 never masks what IFF1 lets through, so that RETN after an NMI can
\* only give back an enabled state that existed before it.
MaskOrder == iff1 => iff2

\* The routine on the CPU thread's stack runs the cycles of its plan in
\* order and all of them, whatever bus grants and resets come between: its
\* last step is reached only after the whole return address was pushed.
PlanFollowed ==
    caller # "executor" /\ step > 0 =>
        \/ step \in DOMAIN Plan /\ cycle = Plan[step]
        \/ step \in DOMAIN Plan /\ cycle = "BusAck" /\ resume = Plan[step]
        \/ step = Len(Plan) + 1 /\ cycle = "Return"

\* BUSACK is shown only inside a bus grant, and a grant always has a machine
\* cycle to go back to.
GrantOwned ==
    /\ busack => cycle = "Exited" \/ (cycle = "BusAck" /\ t > 1)
    /\ cycle = "BusAck" => resume \in MCycle

\* While the bus is granted the instruction makes no progress and the control
\* pins stay as the interrupted cycle left them.
GrantFreezes ==
    [][busack /\ busack' =>
         UNCHANGED <<caller, step, resume, opcode, pins, halt, mask,
                     interrupt_mode, response>>
       \/ cycle' = "Exited"]_vars

-----------------------------------------------------------------------------
(* Liveness.  The clock stops for as long as a wait source is up, and the  *)
(* CPU is off the bus for as long as a bus request is up.                  *)

NoMoreWait   == <>[](~read_wait)
NoMoreBusreq == <>[](~read_busreq)

\* A latched NMI is acknowledged, however often the CPU is reset or halted.
NmiServed ==
    NoMoreWait /\ NoMoreBusreq =>
        (nmi_latch ~> caller = "nmi_acknowledge" \/ should_executor_exit)

\* A latched maskable interrupt is acknowledged unless the mask closes first.
IntServed ==
    NoMoreWait /\ NoMoreBusreq =>
        (int_latch /\ iff1 ~>
            caller = "int_acknowledge" \/ ~iff1 \/ should_executor_exit)

\* A bus request that is kept up is granted, unless the CPU is halted: the
\* HALT loop never looks at BUSREQ.
BusGranted ==
    NoMoreWait =>
        (read_busreq ~> busack \/ ~read_busreq \/ halt \/ should_executor_exit)

\* The bus is given back once the requests end.
BusReturned == NoMoreWait /\ NoMoreBusreq => (busack ~> ~busack \/ should_executor_exit)

\* kill() ends the thread or the process, also while a wait source is up.
KillStops == NoMoreBusreq => (should_executor_exit ~> cycle = "Exited")
=============================================================================
