--------------------------- MODULE TerminalSystem ---------------------------
(***************************************************************************)
(* The whole program: main's clock, the CPU of module Soft80, one terminal *)
(* device of include/terminaldevice.h with its own thread, and the program *)
(* of tests/ written for that device.  The program asks for a line with    *)
(* REQ_READ, HALTs, and prints what the interrupt handler has stored.      *)
(*                                                                         *)
(* Nothing in the code bounds the speed of the device thread or of the     *)
(* input, so two constants say what is assumed of them.                    *)
(***************************************************************************)
EXTENDS Soft80

CONSTANTS
    Device,         \* the device classes main may have mapped
    Length,         \* lengths of the lines on standard input
    Prompt,         \* devices whose thread does all it can between two clocks
    PatientInput    \* a line comes only after the program has reached HALT

ASSUME DeviceAssumption == Device \subseteq {"NMI", "INT0", "INT1", "INT2"}
ASSUME LengthAssumption == Length \subseteq 1..255
ASSUME TimingAssumption == Prompt \subseteq Device /\ PatientInput \in BOOLEAN
ASSUME VectorAssumption == {0, 2, 247} \subseteq Byte

VARIABLES
    device,                     \* the one main uses
    \* the program: what is left of the main program and of the handler over
    \* it, register B, the vector the CPU sampled, and what was printed
    frames, B, vector, printed,
    driven,                     \* the vector driven and not sampled yet
    \* the device
    dev, round, should_read, needs_len, in_buffer, typed

software  == <<frames, B, vector, printed, driven>>
thread    == <<dev, round>>
terminal  == <<should_read, needs_len, in_buffer>>
systemVars == <<vars, device, software, thread, terminal, typed>>

-----------------------------------------------------------------------------
(* The programs of tests/: instructions that matter for the dialogue.      *)

Main == CASE device = "NMI"  -> <<"REQ_READ", "HALT", "PRINT">>
          [] device = "INT0" -> <<"IM0", "EI", "REQ_READ", "HALT", "PRINT">>
          [] device = "INT1" -> <<"IM1", "EI", "REQ_READ", "HALT", "PRINT">>
          [] device = "INT2" -> <<"IM2", "EI", "REQ_READ", "HALT", "PRINT", "EI">>

ReadHandler  == <<"IN", "INIR", IF device = "NMI" THEN "RETN" ELSE "RETI">>
PrintHandler == <<"PRINT2", "RETI">>

\* Each program ends in HALT, or in a loop around it.
Label == IF Head(frames) = <<>> THEN "HALT" ELSE Head(Head(frames))

Kind(label) == CASE label \in {"REQ_READ", "PRINT", "PRINT2"} -> "OUT"
                 [] label = "INIR" -> "INI"
                 [] label = "RETI" -> "RET"
                 [] OTHER -> label

\* The entry of the table INT_TABLE a sampled vector selects.
TableEntry(v) == IF v = 2 THEN PrintHandler ELSE ReadHandler

Advance    == IF Head(frames) = <<>> THEN frames
              ELSE <<Tail(Head(frames))>> \o Tail(frames)
Call(code) == <<code>> \o frames

-----------------------------------------------------------------------------
(* Steps of the CPU that the program or the device can tell.               *)

\* A byte of the program is an instruction of the program; a mode 0 vector is
\* RST 30H if it is 0xF7 and something harmless otherwise.
Decodes ==
    /\ current_instruction = "None" /\ current_instruction' # "None"
    /\ cycle # "Halt" =>
         current_instruction' = IF int_vector = NoByte THEN Kind(Label)
                                ELSE IF int_vector = 247 THEN "CALL" ELSE "NOP"
    /\ UNCHANGED <<software, terminal>>

\* read() of the device, called on the last clock of the I/O cycle: the
\* length first, then the characters from the front.
ReadPort ==
    /\ cycle = "IORead" /\ cycle' # "IORead"
    /\ B' = IF Label = "IN" THEN in_buffer ELSE B
    /\ needs_len' = FALSE
    /\ UNCHANGED <<frames, vector, printed, driven, should_read, in_buffer>>

\* write() of the device: 0xFF asks for a line, anything else is printed.
WritePort ==
    /\ cycle = "IOWrite" /\ cycle' # "IOWrite"
    /\ should_read' = (should_read \/ Label = "REQ_READ")
    /\ printed' = IF Label = "REQ_READ" THEN printed ELSE printed \cup {Label}
    /\ UNCHANGED <<frames, B, vector, driven, needs_len, in_buffer>>

\* INIR repeats until B is 0; a return goes back to what was interrupted.
Executes ==
    /\ cycle = "Return" /\ caller = "execute_instruction"
    /\ frames' = CASE current_instruction = "NOP"             -> frames
                   [] current_instruction = "CALL"            -> Call(ReadHandler)
                   [] current_instruction \in {"RET", "RETN"} -> Tail(frames)
                   [] current_instruction = "INI" /\ B # 1    -> frames
                   [] OTHER                                   -> Advance
    /\ B' = IF current_instruction = "INI" THEN (B + 255) % 256 ELSE B
    /\ UNCHANGED <<vector, printed, driven, terminal>>

\* The vector of an interrupt is sampled, and used when the handler starts.
Samples ==
    /\ cycle = "IntAck" /\ t = 5 /\ t' # 5
    /\ vector' = data_bus /\ driven' = NoByte
    /\ UNCHANGED <<frames, B, printed, terminal>>

Enters ==
    /\ cycle = "Return" /\ caller # "execute_instruction"
    /\ frames' = Call(IF PC' = "Mode2" THEN TableEntry(vector) ELSE ReadHandler)
    /\ UNCHANGED <<B, vector, printed, driven, terminal>>

\* Every other step is invisible to them.
Internal ==
    /\ ~(current_instruction = "None" /\ current_instruction' # "None")
    /\ cycle # "Return"
    /\ cycle \in {"IORead", "IOWrite"} => cycle' = cycle
    /\ ~(cycle = "IntAck" /\ t = 5 /\ t' # 5)
    /\ UNCHANGED <<software, terminal>>

Cpu ==
    /\ CpuStep
    /\ Decodes \/ ReadPort \/ WritePort \/ Executes \/ Samples \/ Enters \/ Internal
    /\ UNCHANGED <<device, thread, typed>>

-----------------------------------------------------------------------------
(* The device thread: executor of the four device classes.                 *)

Go(d) == dev' = d /\ UNCHANGED round

Poll == /\ dev = "poll" /\ should_read /\ Go("getline")
        /\ UNCHANGED <<vars, device, software, terminal, typed>>

\* Fault: read() is not told that the length comes first.
GetLine_NoLength ==
    /\ dev = "getline" /\ typed /\ typed' = FALSE
    /\ in_buffer' \in Length
    /\ Go("signal")
    /\ UNCHANGED <<vars, device, software, should_read, needs_len>>

GetLine ==
    /\ dev = "getline" /\ typed /\ typed' = FALSE
    /\ in_buffer' \in Length
    /\ needs_len' = TRUE
    /\ Go("signal")
    /\ UNCHANGED <<vars, device, software, should_read>>

Signal ==
    /\ dev = "signal"
    /\ IF device = "NMI" THEN signal_nmi ELSE signal_int
    /\ Go(IF device \in {"NMI", "INT1"} THEN "done" ELSE "iorq")
    /\ UNCHANGED <<device, software, terminal, typed>>

\* wait_cpu_int_ack reads the two pins one after the other.
SeeIorq == /\ dev = "iorq" /\ "iorq" \in pins /\ Go("m1")
           /\ UNCHANGED <<vars, device, software, terminal, typed>>
SeeM1   == /\ dev = "m1" /\ Go(IF "m1" \in pins THEN "drive" ELSE "iorq")
           /\ UNCHANGED <<vars, device, software, terminal, typed>>

Vector == IF device = "INT0" THEN 247 ELSE IF round = 1 THEN 0 ELSE 2

\* Fault: the second request does not wait for HALT.
Drive_Hurries ==
    /\ dev = "drive" /\ DriveDataBus /\ data_bus' = Vector /\ driven' = Vector
    /\ IF device = "INT2" /\ round = 1 THEN dev' = "signal" /\ round' = 2
                                       ELSE Go("done")
    /\ UNCHANGED <<device, frames, B, vector, printed, terminal, typed>>

Drive ==
    /\ dev = "drive" /\ DriveDataBus /\ data_bus' = Vector /\ driven' = Vector
    /\ Go(IF device = "INT2" /\ round = 1 THEN "wait_halt" ELSE "done")
    /\ UNCHANGED <<device, frames, B, vector, printed, terminal, typed>>

WaitHalt == /\ dev = "wait_halt" /\ halt
            /\ dev' = "signal" /\ round' = 2
            /\ UNCHANGED <<vars, device, software, terminal, typed>>

Done == /\ dev = "done" /\ dev' = "poll" /\ round' = 1
        /\ should_read' = FALSE
        /\ UNCHANGED <<vars, device, software, needs_len, in_buffer, typed>>

DeviceStep == \/ Poll \/ GetLine \/ Signal \/ SeeIorq \/ SeeM1
              \/ Drive \/ WaitHalt \/ Done

\* The device has something to do.
Busy == CASE dev = "poll"      -> should_read
          [] dev = "getline"   -> typed
          [] dev = "iorq"      -> "iorq" \in pins
          [] dev = "wait_halt" -> halt
          [] OTHER             -> TRUE

-----------------------------------------------------------------------------
(* The clock of main and the user.                                         *)

Clock == /\ device \in Prompt => ~Busy
         /\ cycle_clock
         /\ UNCHANGED <<device, software, thread, terminal, typed>>

\* One line is typed; the patient user waits for HALT.
Type == /\ ~typed /\ in_buffer = 0
        /\ PatientInput => halt
        /\ typed' = TRUE
        /\ UNCHANGED <<vars, device, software, thread, terminal>>

SystemInit ==
    /\ Init /\ data_bus = 0
    /\ device \in Device
    /\ frames = <<Main>> /\ B = 0 /\ vector = 0 /\ printed = {} /\ driven = NoByte
    /\ dev = "poll" /\ round = 1
    /\ should_read = FALSE /\ needs_len = FALSE /\ in_buffer = 0 /\ typed = FALSE

SystemNext == Cpu \/ DeviceStep \/ Clock \/ Type

SystemSpec == SystemInit /\ [][SystemNext]_systemVars

\* Both threads and main's loop are scheduled, and the user types.
FairSystem == /\ SystemSpec
              /\ WF_systemVars(Cpu) /\ WF_systemVars(DeviceStep)
              /\ WF_systemVars(Clock) /\ WF_systemVars(Type)

-----------------------------------------------------------------------------
(* Properties                                                              *)

\* The handler's IN gets the length of the line and its INIR the characters,
\* each of them inside in_buffer: read() is called in the order, and as often,
\* as the device thread prepared it for.
TransferInOrder ==
    cycle = "IORead" =>
        /\ Label = "IN"   => needs_len /\ in_buffer > 0
        /\ Label = "INIR" => ~needs_len /\ B \in 1..in_buffer

\* The vector the CPU samples is the one the device has driven for it, not what
\* another cycle left on the bus.
VectorSampled ==
    [][Samples /\ device \in {"INT0", "INT2"} => vector' = driven]_systemVars

\* A signal only sets a latch, so it must find the last request answered and its
\* handler left: another one that is still latched would be merged with it, and
\* the mode 2 device signals twice.
SignalNotLost ==
    [][Signal => /\ ~nmi_latch /\ ~int_latch
                 /\ caller \notin {"nmi_acknowledge", "int_acknowledge"}
                 /\ Len(frames) = 1]_systemVars

\* The program gets past its HALT and prints the line it asked for.
Echo == <>("PRINT" \in printed)

\* The second request of the mode 2 device runs the second handler.
SecondRequest == <>("PRINT2" \in printed \/ device # "INT2")
=============================================================================
