---------------------------- MODULE TerminalProofs ----------------------------
(***************************************************************************)
(* The dialogue of program, CPU and device thread, for every set of        *)
(* devices, every length of a line, every kind of instruction and every    *)
(* interleaving: what the handler reads, and whose vector the CPU samples. *)
(***************************************************************************)
EXTENDS TerminalSystem, Soft80Proofs, SequenceTheorems

\* Nothing drives the input pins or ends the thread.
Running ==
    /\ asserted = {} /\ ~should_executor_exit
    /\ cycle \notin {"BusAck", "Reset", "Exited"}

\* What the main program consists of, and what may be left of a handler.
MainCode == IF device = "INT2" THEN {"IM2", "EI", "REQ_READ", "HALT", "PRINT"}
                               ELSE {"IM0", "IM1", "EI", "REQ_READ", "HALT", "PRINT"}

Reading(r)  == {<<"IN", "INIR", r>>, <<"INIR", r>>}
HandlerRest == Reading("RETN") \cup Reading("RETI")
               \cup {<<"RETN">>, <<"RETI">>, <<"PRINT2", "RETI">>}

InMain    == frames = <<frames[1]>> /\ frames[1] \in Seq(MainCode)
InHandler == /\ frames = <<frames[1], frames[2]>>
             /\ frames[1] \in HandlerRest /\ frames[2] \in Seq(MainCode)

\* The instruction that runs is the program's, an empty one of HALT, or the
\* one a vector stands for.
Code ==
    /\ InMain \/ InHandler
    /\ caller = "execute_instruction" => current_instruction \in {Kind(Label), "NOP", "CALL"}
    /\ halt => InMain

\* From the end of getline to the entry of the handler a request is in one
\* place: with the device, in a latch, or with the CPU.
Latched    == nmi_latch \/ int_latch
Answering  == \/ caller \in {"nmi_acknowledge", "int_acknowledge"}
              \/ int_vector # NoByte \/ current_instruction = "CALL"
Requesting == dev = "signal" \/ Latched \/ Answering

Requests ==
    /\ IF device = "NMI" THEN ~int_latch ELSE ~nmi_latch /\ caller # "nmi_acknowledge"
    /\ Answering => InMain
    /\ Requesting => in_buffer > 0 /\ (device # "INT2" => needs_len)

\* One line is typed, and nothing is requested before it.
Line ==
    /\ device \in Device
    /\ dev \in {"poll", "getline", "signal", "iorq", "m1", "drive", "wait_halt", "done"}
    /\ dev \in {"iorq", "m1", "drive"} => device \in {"INT0", "INT2"}
    /\ dev = "wait_halt" => device = "INT2"
    /\ in_buffer \in 0..255
    /\ typed => in_buffer = 0
    /\ in_buffer = 0 => InMain /\ ~Requesting /\ dev \in {"poll", "getline"}

\* IORQ is down while the CPU is halted or takes a vector for a byte, and after
\* a fetch; it is up from the third clock of an acknowledge on.
Iorq ==
    /\ \/ halt \/ int_vector # NoByte
       \/ caller = "execute_instruction" /\ step = 1 /\ (t = 1 \/ cycle = "Return")
       => "iorq" \notin pins
    /\ cycle = "IntAck" /\ t >= 4 => "iorq" \in pins

\* The mode 2 program sets its mode before it asks for a line, and its handlers
\* run masked.
Mode2 ==
    device = "INT2" =>
        /\ \/ frames = <<Main>> /\ should_read = FALSE /\ dev = "poll" /\ in_buffer = 0
           \/ interrupt_mode = 2 /\ frames[Len(frames)] \in Seq(MainCode \ {"IM2"})
        /\ int_vector = NoByte /\ current_instruction # "CALL"
        /\ InMain \/ ~iff1

\* What holds of every device, thread and user.
Core == Running /\ Code /\ Requests /\ Line /\ Iorq /\ Mode2

-----------------------------------------------------------------------------
(* What holds under the timing the programs were written for.  Only the    *)
(* mode 2 device, which signals twice, depends on the user; only a device  *)
(* that puts a vector on the bus depends on its thread.                    *)

Patient   == device # "INT2" \/ PatientInput
Watching  == device \in Prompt \cap {"INT0", "INT2"}

\* One request at a time, and made of the main program.
Single ==
    /\ dev = "signal" => ~Latched /\ ~Answering
    /\ Latched => ~Answering
    /\ Requesting => InMain

\* Its thread waits for the acknowledge.
Listening == dev \in {"iorq", "m1", "drive"}

\* Both requests of the mode 2 device find the CPU halted.
FromHalt ==
    /\ typed \/ dev = "signal" => halt
    /\ int_latch => dev = "iorq" /\ halt
    /\ cycle = "IntAck" =>
         /\ t = 1 => halt
         /\ t <= 3 => dev = "iorq" /\ "iorq" \notin pins

\* The thread is through with an acknowledge when its vector is sampled.
Attentive ==
    /\ Listening => IF cycle = "IntAck" THEN t <= 3 \/ (t = 4 /\ ~should_cycle)
                                        ELSE int_latch /\ ~Answering
    /\ dev = "signal" /\ Answering =>
         cycle = "IntAck" /\ (t = 1 \/ (t = 2 /\ ~should_cycle))

\* How far the mode 0 program can be when its request is latched: nothing it
\* does from there to the acknowledge writes to the bus.
Unanswered == in_buffer = 0 \/ dev = "signal" \/ int_latch

Script ==
    Unanswered =>
        /\ caller = "execute_instruction" /\ ~halt => current_instruction = Kind(Label)
        /\ \/ /\ frames \in {<<Main>>, <<Tail(Main)>>} /\ ~halt
              /\ ~should_read /\ dev = "poll" /\ in_buffer = 0
           \/ /\ frames = <<<<"REQ_READ", "HALT", "PRINT">>>> /\ iff1 /\ ~halt
              /\ \/ ~should_read /\ dev = "poll" /\ in_buffer = 0
                 \/ cycle = "Return" /\ caller = "execute_instruction"
           \/ frames = <<<<"HALT", "PRINT">>>> /\ iff1 /\ ~halt
           \/ frames = <<<<"PRINT">>>> /\ iff1 /\ halt

\* The vector stays on the bus, even when the thread drove it too early.
OnTheBus == (int_latch \/ cycle = "IntAck") /\ ~Listening => driven = data_bus

\* The line has been read, or will be by the handler that is about to run.
Served == in_buffer > 0 /\ \/ ~needs_len \/ Label = "IN"
                           \/ caller = "int_acknowledge" /\ step > 0 /\ vector # 2

\* After that only the second vector of the mode 2 device can be sampled.  A
\* request made too early may be merged with the first, or left in the latch
\* beside an acknowledge, but then it is the second that is answered.
Second ==
    /\ dev = "signal" /\ (Latched \/ Answering) => round = 2
    /\ int_latch /\ cycle = "IntAck" => IF Listening THEN round = 2 ELSE data_bus = 2
    /\ caller = "int_acknowledge" /\ step > 0 =>
         (int_latch => vector = 2) /\ (needs_len \/ vector = 2)
    /\ Served =>
         /\ dev = "signal" => round = 2 /\ halt /\ ~int_latch /\ ~Answering
         /\ int_latch => dev = "iorq" /\ round = 2 /\ halt /\ ~Answering
         /\ cycle = "IntAck" => IF Listening THEN round = 2
                                            ELSE data_bus = 2 /\ dev # "wait_halt"

\* What the handler has read.
Transfer ==
    /\ Label = "IN" => /\ in_buffer > 0
                       /\ IF cycle = "Return" /\ current_instruction = "IN"
                             THEN ~needs_len /\ B = in_buffer
                             ELSE needs_len
    /\ Label = "INIR" => ~needs_len /\ B \in 1..in_buffer

Timing ==
    /\ Patient => Single
    /\ Patient /\ device = "INT2" => FromHalt
    /\ Watching => Attentive
    /\ device = "INT0" => Script
    /\ Watching /\ Patient => OnTheBus
    /\ Watching /\ device = "INT2" => Second
    /\ device # "INT2" \/ Watching => Transfer

SysInv == Core /\ Timing

-----------------------------------------------------------------------------
(* What the program's next instruction can be.                             *)

Top(f) == IF Head(f) = <<>> THEN "HALT" ELSE Head(Head(f))

LEMMA Stacks ==
    \A a, b : /\ <<a>> \o <<b>> = <<a, b>> /\ <<a>> \o <<>> = <<a>>
              /\ Head(<<a>>) = a /\ Tail(<<a>>) = <<>> /\ Len(<<a>>) = 1
              /\ Head(<<a, b>>) = a /\ Tail(<<a, b>>) = <<b>> /\ Len(<<a, b>>) = 2
<1> TAKE a, b
<1>1. <<a>> \o <<b>> = <<a, b>>
  <2> DEFINE S == {a, b}
  <2>1. /\ <<a>> \in Seq(S) /\ <<b>> \in Seq(S) /\ <<a, b>> \in Seq(S)
        /\ Len(<<a>>) = 1 /\ Len(<<b>>) = 1 /\ Len(<<a, b>>) = 2
    OBVIOUS
  <2>2. <<a>> \o <<b>> \in Seq(S) /\ Len(<<a>> \o <<b>>) = 2
    BY <2>1
  <2>3. \A i \in 1..2 : (<<a>> \o <<b>>)[i] = <<a, b>>[i]
    BY <2>1
  <2>. QED
    BY <2>1, <2>2, <2>3, SeqEqual
<1>2. <<a>> \o <<>> = <<a>>
  OBVIOUS
<1>3. Tail(<<a>>) = <<>>
  <2>1. <<a>> \in Seq({a}) /\ Len(<<a>>) = 1
    OBVIOUS
  <2>2. Tail(<<a>>) \in Seq({a}) /\ Len(Tail(<<a>>)) = 0
    BY <2>1
  <2>. QED
    BY <2>2
<1>4. Head(<<a>>) = a /\ Len(<<a>>) = 1
  OBVIOUS
<1>5. Head(<<a, b>>) = a /\ Len(<<a, b>>) = 2
  OBVIOUS
<1>6. Tail(<<a, b>>) = <<b>>
  OBVIOUS
<1>. QED
  BY <1>1, <1>2, <1>3, <1>4, <1>5, <1>6

LEMMA TopLabel == Label = Top(frames) /\ Label' = Top(frames')
BY DEF Label, Top

LEMMA MainTop ==
    ASSUME NEW S, "HALT" \in S, NEW m \in Seq(S)
    PROVE  /\ Top(<<m>>) \in S
           /\ m # <<>> => Tail(m) \in Seq(S)
           /\ <<m>>[1] = m
BY DEF Top

LEMMA HandlerTop ==
    ASSUME NEW h \in HandlerRest, NEW m
    PROVE  /\ Top(<<h, m>>) \in {"IN", "INIR", "RETN", "RETI", "PRINT2"}
           /\ h # <<>> /\ Head(h) = Top(<<h, m>>)
           /\ Top(<<h, m>>) \in {"IN", "INIR", "PRINT2"} => Tail(h) \in HandlerRest
           /\ Top(<<h, m>>) = "IN" => Head(Tail(h)) = "INIR"
           /\ Top(<<h, m>>) \in {"INIR", "PRINT2"} => Head(Tail(h)) \in {"RETN", "RETI"}
           /\ Tail(<<h, m>>) = <<m>> /\ Head(<<h, m>>) = h
<1>1. \/ \E r \in {"RETN", "RETI"} : h = <<"IN", "INIR", r>>
      \/ \E r \in {"RETN", "RETI"} : h = <<"INIR", r>>
      \/ \E r \in {"RETN", "RETI"} : h = <<r>>
      \/ h = <<"PRINT2", "RETI">>
  BY DEF HandlerRest, Reading
<1>2. Top(<<h, m>>) = IF h = <<>> THEN "HALT" ELSE Head(h)
  BY DEF Top
<1>3. ASSUME NEW r \in {"RETN", "RETI"}, h = <<"IN", "INIR", r>>
      PROVE  /\ h # <<>> /\ Head(h) = "IN" /\ Tail(h) = <<"INIR", r>>
             /\ Tail(h) \in HandlerRest
  BY <1>3 DEF HandlerRest, Reading
<1>4. ASSUME NEW r \in {"RETN", "RETI"}, h = <<"INIR", r>>
      PROVE  /\ h # <<>> /\ Head(h) = "INIR" /\ Tail(h) = <<r>>
             /\ Tail(h) \in HandlerRest
  BY <1>4 DEF HandlerRest, Reading
<1>5. ASSUME NEW r \in {"RETN", "RETI"}, h = <<r>>
      PROVE  h # <<>> /\ Head(h) = r
  BY <1>5
<1>6. ASSUME h = <<"PRINT2", "RETI">>
      PROVE  /\ h # <<>> /\ Head(h) = "PRINT2" /\ Tail(h) = <<"RETI">>
             /\ Tail(h) \in HandlerRest
  BY <1>6 DEF HandlerRest, Reading
<1>. QED
  BY <1>1, <1>2, <1>3, <1>4, <1>5, <1>6

\* Kinds of the labels of main programs and of handlers.
LEMMA LabelKinds ==
    /\ \A l \in MainCode : l \notin {"IN", "INIR", "PRINT2", "RETN", "RETI"}
    /\ \A l \in MainCode : Kind(l) \in {"IM0", "IM1", "IM2", "EI", "HALT", "OUT"}
    /\ \A l \in MainCode : Kind(l) = "HALT" <=> l = "HALT"
    /\ \A l \in MainCode : Kind(l) = "OUT" <=> l \in {"REQ_READ", "PRINT"}
    /\ device = "INT2" => \A l \in MainCode : Kind(l) \notin {"IM0", "IM1"}
    /\ Kind("IM2") = "IM2"
    /\ Kind("IN") = "IN" /\ Kind("INIR") = "INI" /\ Kind("PRINT2") = "OUT"
    /\ Kind("RETN") = "RETN" /\ Kind("RETI") = "RET"
    /\ "HALT" \in MainCode
BY DEF Kind, MainCode

LEMMA InMainLabel ==
    ASSUME InMain
    PROVE  /\ Label \in MainCode /\ ~InHandler
           /\ Advance = <<Advance[1]>> /\ Advance[1] \in Seq(MainCode)
           /\ Label # "HALT" => Advance = <<Tail(frames[1])>> /\ frames[1] # <<>>
<1>1. Label \in MainCode
  BY TopLabel, MainTop, LabelKinds DEF InMain
<1>2. ~InHandler
  <2>1. Len(frames) = 1
    BY DEF InMain
  <2>. QED
    BY <2>1 DEF InHandler
<1>3. Head(frames) = frames[1] /\ Tail(frames) = <<>> /\ Len(frames) = 1
  BY Stacks DEF InMain
<1>4. CASE frames[1] = <<>>
  BY <1>1, <1>2, <1>3, <1>4 DEF Advance, InMain, Label
<1>5. CASE frames[1] # <<>>
  <2>1. Advance = <<Tail(frames[1])>>
    BY <1>3, <1>5, Stacks DEF Advance
  <2>2. Tail(frames[1]) \in Seq(MainCode)
    BY <1>5 DEF InMain
  <2>. QED
    BY <1>1, <1>2, <1>5, <2>1, <2>2
<1>. QED
  BY <1>4, <1>5

LEMMA InHandlerLabel ==
    ASSUME InHandler
    PROVE  /\ Label \in {"IN", "INIR", "RETN", "RETI", "PRINT2"} /\ ~InMain
           /\ Tail(frames) = <<frames[2]>>
           /\ Label \in {"IN", "INIR", "PRINT2"} =>
                 /\ Advance = <<Tail(frames[1]), frames[2]>>
                 /\ Tail(frames[1]) \in HandlerRest
           /\ Label = "IN" => Top(Advance) = "INIR"
           /\ Label \in {"INIR", "PRINT2"} => Top(Advance) \in {"RETN", "RETI"}
<1> DEFINE h == frames[1]
           m == frames[2]
<1>1. frames = <<h, m>> /\ h \in HandlerRest
  BY DEF InHandler
<1>2. Label = Top(<<h, m>>)
  BY <1>1, TopLabel
<1> HIDE DEF h, m
<1>3. Label \in {"IN", "INIR", "RETN", "RETI", "PRINT2"} /\ h # <<>>
  BY <1>1, <1>2, HandlerTop
<1>4. Tail(frames) = <<m>> /\ Head(frames) = h
  BY <1>1, HandlerTop
<1>5. Advance = <<Tail(h), m>>
  BY <1>3, <1>4, Stacks DEF Advance
<1>6. Label \in {"IN", "INIR", "PRINT2"} => Tail(h) \in HandlerRest
  BY <1>1, <1>2, HandlerTop
<1>7. ASSUME Tail(h) \in HandlerRest PROVE Top(Advance) = Head(Tail(h))
  <2>1. Tail(h) # <<>>
    BY <1>7 DEF HandlerRest, Reading
  <2>. QED
    BY <1>5, <2>1, Stacks DEF Top
<1>8. ~InMain
  <2>1. Len(frames) = 2
    BY <1>1
  <2>. QED
    BY <2>1 DEF InMain
<1>. QED
  BY <1>1, <1>2, <1>3, <1>4, <1>5, <1>6, <1>7, <1>8, HandlerTop DEF h, m

-----------------------------------------------------------------------------
(* The initial states, and the steps that program and device do not notice. *)

\* A step of the system is one of the CPU or of the threads around it.
LEMMA SystemStep == ASSUME SystemNext PROVE [Next]_vars
<1>1. CASE Cpu
  BY <1>1 DEF Cpu, Next
<1>2. CASE DeviceStep
  <2>1. \/ UNCHANGED vars
        \/ signal_nmi \/ signal_int \/ DriveDataBus
    BY <1>2 DEF DeviceStep, Poll, GetLine, Signal, SeeIorq, SeeM1, Drive, WaitHalt, Done
  <2>. QED
    BY <2>1 DEF Next, Environment
<1>3. CASE Clock
  BY <1>3 DEF Clock, Next, Environment
<1>4. CASE Type
  BY <1>4 DEF Type
<1>. QED
  BY <1>1, <1>2, <1>3, <1>4 DEF SystemNext

LEMMA SameDevice == ASSUME device' = device PROVE Patient' = Patient /\ Watching' = Watching
BY DEF Patient, Watching

LEMMA InitSysInv == ASSUME SystemInit PROVE SysInv
<1> USE DEF SystemInit, Init
<1>1. device \in {"NMI", "INT0", "INT1", "INT2"}
  BY DeviceAssumption
<1>2. Main \in Seq(MainCode) /\ frames = <<Main>> /\ frames[1] = Main
  <2>1. CASE device = "INT2"
    BY <2>1 DEF Main, MainCode
  <2>2. CASE device = "NMI"
    BY <2>2 DEF Main, MainCode
  <2>3. CASE device = "INT0"
    BY <2>3 DEF Main, MainCode
  <2>4. CASE device = "INT1"
    BY <2>4 DEF Main, MainCode
  <2>. QED
    BY <1>1, <2>1, <2>2, <2>3, <2>4
<1>3. InMain
  BY <1>2 DEF InMain
<1>4. Label \in MainCode
  BY <1>3, InMainLabel
<1>5. Running /\ Code
  BY <1>3 DEF Running, Code
<1>6. ~Requesting
  BY DEF Requesting, Latched, Answering
<1>7. Requests /\ Line
  BY <1>1, <1>3, <1>6 DEF Requests, Line, Requesting
<1>8. Transfer
  BY <1>4, LabelKinds DEF Transfer
<1>9. Mode2 /\ Iorq
  BY <1>3 DEF Mode2, Iorq
<1>10. Single /\ FromHalt
  BY <1>6 DEF Single, FromHalt, Requesting, Latched
<1>11. Attentive /\ OnTheBus /\ Script
  BY DEF Attentive, OnTheBus, Script, Listening
<1>12. Second
  BY DEF Second, Served
<1>. QED
  BY <1>5, <1>7, <1>8, <1>9, <1>10, <1>11, <1>12 DEF SysInv, Core, Timing

\* The mode 2 program takes no instruction from the bus.
LEMMA NoVector ==
    ASSUME Core PROVE device = "INT2" => int_vector = NoByte /\ current_instruction # "CALL"
BY DEF Core, Mode2

\* What has to be shown of a step of the CPU that program and device do not notice.
LEMMA Silent ==
    ASSUME Core, UNCHANGED <<device, frames, thread, needs_len, in_buffer, typed>>,
           device = "INT2" /\ frames = <<Main>> /\ should_read = FALSE => should_read' = FALSE,
           Running', Iorq',
           caller' = "execute_instruction" =>
               current_instruction' \in {Kind(Label), "NOP", "CALL"},
           halt' => halt, iff1' => iff1,
           nmi_latch' => nmi_latch, int_latch' => int_latch,
           Answering' => Answering \/ (Latched /\ InMain),
           caller' = "nmi_acknowledge" => caller = "nmi_acknowledge" \/ nmi_latch,
           device = "INT2" => int_vector' = NoByte /\ current_instruction' # "CALL",
           interrupt_mode' = interrupt_mode
    PROVE  Core'
<1> USE DEF Core, thread
<1>1. Label' = Label
  BY TopLabel
<1>2. InMain' = InMain /\ InHandler' = InHandler
  BY DEF InMain, InHandler, MainCode
<1>3. Code'
  BY <1>1, <1>2 DEF Code, Kind
<1>4. Requesting' => Requesting
  BY DEF Requesting, Latched
<1>5. Requests'
  BY <1>2, <1>4 DEF Requests, Latched
<1>6. Line'
  BY <1>2, <1>4 DEF Line
<1>7. Mode2'
  BY <1>2 DEF Mode2, Main, MainCode
<1>. QED
  BY <1>3, <1>5, <1>6, <1>7

LEMMA Calm ==
    ASSUME Core, Timing, UNCHANGED <<device, software, thread, terminal, typed>>,
           UNCHANGED <<halt, iff1, latches>>,
           cycle \notin {"IntAck", "Return"}, cycle' # "IntAck",
           data_bus' = data_bus \/ ~int_latch \/ ~(Watching /\ Patient),
           Answering' => Answering,
           caller' = "int_acknowledge" /\ step' > 0 => caller = "int_acknowledge" /\ step > 0,
           device = "INT0" /\ Unanswered /\ caller' = "execute_instruction" /\ ~halt
               => current_instruction' = Kind(Label),
           ~(cycle' = "Return" /\ current_instruction' = "IN" /\ Label = "IN")
    PROVE  Timing'
<1> USE DEF software, thread, terminal, latches
<1>1. Label' = Label /\ InMain' = InMain /\ Patient' = Patient /\ Watching' = Watching
  BY TopLabel, SameDevice DEF InMain, MainCode
<1>2. Latched' = Latched /\ (Requesting' => Requesting) /\ Listening' = Listening
      /\ Unanswered' = Unanswered
  BY DEF Requesting, Latched, Listening, Unanswered
<1>3. Single => Single'
  BY <1>1, <1>2 DEF Single
<1>4. FromHalt => FromHalt'
  BY DEF FromHalt
<1>5. Attentive => Attentive'
  BY <1>2 DEF Attentive
<1>6. Script /\ device = "INT0" => Script'
  BY <1>1, <1>2 DEF Script, Main, Kind
<1>7. OnTheBus /\ Watching /\ Patient => OnTheBus'
  BY <1>1, <1>2 DEF OnTheBus
<1>8. Second => Second'
  <2>1. Served' => Served
    BY <1>1 DEF Served
  <2>. QED
    BY <1>2, <2>1 DEF Second
<1>9. Transfer => Transfer'
  BY <1>1 DEF Transfer
<1>. QED
  BY <1>1, <1>3, <1>4, <1>5, <1>6, <1>7, <1>8, <1>9 DEF Timing

\* Steps of the CPU that are none of the program's and none of the device's.
LEMMA Unnoticed ==
    ASSUME Cpu, cycle # "Return",
           cycle \in {"IORead", "IOWrite"} => cycle' = cycle,
           ~(cycle = "IntAck" /\ t = 5 /\ t' # 5)
    PROVE  UNCHANGED <<device, software, thread, terminal, typed>>
BY DEF Cpu, Decodes, ReadPort, WritePort, Executes, Samples, Enters, Internal

-----------------------------------------------------------------------------
(* The CPU between two instructions.                                       *)

LEMMA ExecutorLoopSysInv ==
    ASSUME IInv, SysInv, Cpu, ExecutorLoop PROVE SysInv'
<1> USE DEF SysInv, software, thread, terminal, opcode, outputs, mask, response, latches, environment
<1>1. UNCHANGED <<device, software, thread, terminal, typed>>
  BY Unnoticed DEF ExecutorLoop
<1>2. /\ cycle' \in {"Halt", "Fetch"} /\ t' = 1 /\ caller' = "executor" /\ cycle = "Loop"
      /\ UNCHANGED <<opcode, outputs, mask, interrupt_mode, response, latches, should_cycle, environment>>
  BY DEF ExecutorLoop, At, Core, Running, read_reset
<1>3. caller = "executor"
  BY <1>2 DEF IInv, Position, Here
<1>4. Answering' = Answering
  BY <1>2, <1>3 DEF Answering
<1>5. Running' /\ Iorq'
  BY <1>2, <1>3 DEF Core, Running, Iorq
<1>6. Core'
  BY <1>1, <1>2, <1>3, <1>4, <1>5, NoVector, Silent
<1>7. Timing'
  BY <1>1, <1>2, <1>3, <1>4, Calm
<1>. QED
  BY <1>6, <1>7

\* The request an acknowledge answers has left its latch.
LEMMA CheckNmiSysInv ==
    ASSUME IInv, SysInv, Cpu, CheckNmi PROVE SysInv'
<1> USE DEF SysInv, software, thread, terminal, opcode, outputs, mask, response, latches, environment
<1>1. UNCHANGED <<device, software, thread, terminal, typed>>
  BY Unnoticed DEF CheckNmi
<1>2. /\ UNCHANGED <<opcode, outputs, mask, interrupt_mode, response, int_latch, should_cycle, environment>>
      /\ cycle' \in {"NmiAck", "CheckInt"} /\ cycle = "CheckNmi"
      /\ nmi_latch => /\ caller' = "nmi_acknowledge" /\ nmi_latch' = FALSE /\ UNCHANGED <<t, step>>
      /\ ~nmi_latch => caller' = "executor" /\ UNCHANGED nmi_latch
  BY DEF CheckNmi, At, TakesNmi
<1>3. caller = "executor"
  BY <1>2 DEF IInv, Position, Here
<1>4. nmi_latch => /\ device = "NMI" /\ ~int_latch /\ Patient /\ ~Watching /\ InMain
  <2>1. nmi_latch => device = "NMI" /\ ~int_latch
    BY DEF Core, Requests
  <2>2. nmi_latch => Patient /\ ~Watching
    BY <2>1 DEF Patient, Watching
  <2>3. nmi_latch => Single
    BY <2>2 DEF Timing
  <2>4. nmi_latch => InMain
    BY <2>3 DEF Single, Requesting, Latched
  <2>. QED
    BY <2>1, <2>2, <2>4
<1>5. Core'
  <2>1. Answering' => Answering \/ (Latched /\ InMain)
    BY <1>2, <1>3, <1>4 DEF Answering, Latched
  <2>2. Running' /\ Iorq'
    BY <1>2, <1>3 DEF Core, Running, Iorq
  <2>3. device = "INT2" => int_vector' = NoByte /\ current_instruction' # "CALL"
    BY <1>2, NoVector
  <2>4. /\ caller' # "execute_instruction" /\ (halt' => halt) /\ (iff1' => iff1)
        /\ (nmi_latch' => nmi_latch) /\ (int_latch' => int_latch)
        /\ caller' = "nmi_acknowledge" => nmi_latch
    BY <1>2, <1>3
  <2>. QED
    BY <1>1, <1>2, <1>3, <2>1, <2>2, <2>3, <2>4, Silent
<1>6. CASE ~nmi_latch
  <2>1. Answering' = Answering /\ nmi_latch' = nmi_latch
    BY <1>2, <1>3, <1>6 DEF Answering
  <2>. QED
    BY <1>1, <1>2, <1>3, <1>5, <1>6, <2>1, Calm
<1>7. CASE nmi_latch
  <2>1. Single'
    <3>1. ~Latched' /\ InMain' = InMain /\ Single
      BY <1>1, <1>2, <1>4, <1>7 DEF Latched, InMain, MainCode, Timing
    <3>2. dev # "signal"
      BY <1>7, <3>1 DEF Single, Latched
    <3>. QED
      BY <1>1, <1>4, <1>7, <3>1, <3>2 DEF Single
  <2>2. Transfer'
    <3>1. Label' = Label /\ Transfer
      BY <1>1, <1>4, <1>7, TopLabel DEF Timing
    <3>. QED
      BY <1>1, <1>2, <3>1 DEF Transfer
  <2>3. device' = "NMI" /\ ~Watching'
    BY <1>1, <1>4, <1>7, SameDevice
  <2>. QED
    BY <1>5, <2>1, <2>2, <2>3 DEF Timing
<1>. QED
  BY <1>6, <1>7

LEMMA CheckIntSysInv ==
    ASSUME IInv, SysInv, Cpu, CheckInt PROVE SysInv'
<1> USE DEF SysInv, software, thread, terminal, opcode, outputs, mask, response, latches, environment
<1>1. UNCHANGED <<device, software, thread, terminal, typed>>
  BY Unnoticed DEF CheckInt
<1>2. /\ UNCHANGED <<opcode, outputs, mask, interrupt_mode, response, nmi_latch, should_cycle, environment>>
      /\ cycle = "CheckInt"
      /\ TakesInt => /\ caller' = "int_acknowledge" /\ cycle' = "IntAck"
                     /\ int_latch' = FALSE /\ UNCHANGED <<t, step>>
      /\ ~TakesInt => caller' = "executor" /\ cycle' = "Loop" /\ UNCHANGED int_latch
  BY DEF CheckInt, At
<1>3. caller = "executor" /\ step = 0 /\ t = 1 /\ int_vector = NoByte
  BY <1>2 DEF IInv, Position, Here, DecoderState
<1>4. ASSUME TakesInt
      PROVE  int_latch /\ iff1 /\ InMain /\ device # "NMI" /\ nmi_latch = FALSE
  <2>1. int_latch /\ iff1 /\ device # "NMI" /\ nmi_latch = FALSE
    BY <1>4 DEF TakesInt, Core, Requests, IInv, TypeOK, FlagType
  <2>2. InMain
    <3>1. CASE device = "INT2"
      BY <2>1, <3>1 DEF Core, Mode2
    <3>2. CASE device # "INT2"
      BY <2>1, <3>2 DEF Timing, Patient, Single, Requesting, Latched
    <3>. QED
      BY <3>1, <3>2
  <2>. QED
    BY <2>1, <2>2
<1>5. Core'
  <2>1. Answering' => Answering \/ (Latched /\ InMain)
    BY <1>2, <1>3, <1>4 DEF Answering, Latched
  <2>2. Running' /\ Iorq'
    BY <1>2, <1>3 DEF Core, Running, Iorq
  <2>3. device = "INT2" => int_vector' = NoByte /\ current_instruction' # "CALL"
    BY <1>2, NoVector
  <2>4. /\ caller' # "execute_instruction" /\ (halt' => halt) /\ (iff1' => iff1)
        /\ (nmi_latch' => nmi_latch) /\ (int_latch' => int_latch)
        /\ caller' = "nmi_acknowledge" => nmi_latch
    BY <1>2, <1>3
  <2>. QED
    BY <1>1, <1>2, <1>3, <2>1, <2>2, <2>3, <2>4, Silent
<1>6. CASE ~TakesInt
  <2>1. Answering' = Answering /\ int_latch' = int_latch
    BY <1>2, <1>3, <1>6 DEF Answering
  <2>. QED
    BY <1>1, <1>2, <1>3, <1>5, <1>6, <2>1, Calm
<1>7. CASE TakesInt
  <2>1. /\ Label' = Label /\ InMain' = InMain /\ Patient' = Patient /\ Watching' = Watching
        /\ Listening' = Listening
    BY <1>1, TopLabel, SameDevice DEF InMain, MainCode, Listening
  <2>2. ~Latched' /\ Answering'
    BY <1>2, <1>4, <1>7 DEF Latched, Answering
  <2>3. Single => Single'
    BY <1>1, <1>4, <1>7, <2>1, <2>2 DEF Single, Latched
  <2>4. FromHalt => FromHalt'
    BY <1>1, <1>2, <1>3, <1>4, <1>7 DEF FromHalt, Core, Iorq
  <2>5. Attentive => Attentive'
    BY <1>1, <1>2, <1>3, <1>7, <2>1 DEF Attentive
  <2>6. Script /\ Single => Script'
    <3>1. in_buffer > 0 /\ in_buffer' = in_buffer
      BY <1>1, <1>4, <1>7 DEF Core, Requests, Requesting, Latched
    <3>2. Single => dev # "signal"
      BY <1>4, <1>7 DEF Single, Latched
    <3>3. Single => ~Unanswered'
      BY <1>1, <1>2, <1>7, <3>1, <3>2 DEF Unanswered
    <3>. QED
      BY <3>3 DEF Script
  <2>7. OnTheBus => OnTheBus'
    BY <1>1, <1>2, <1>4, <1>7, <2>1 DEF OnTheBus
  <2>8. Second => Second'
    <3>1. Served' => Served
      BY <1>1, <1>2, <1>3, <1>7, <2>1 DEF Served
    <3>. QED
      BY <1>1, <1>2, <1>3, <1>4, <1>7, <2>1, <3>1 DEF Second, Latched, Listening
  <2>9. Transfer => Transfer'
    BY <1>1, <1>2, <1>7, <2>1 DEF Transfer
  <2>10. device = "INT0" => Patient
    BY DEF Patient
  <2>. QED
    BY <1>1, <1>5, <2>1, <2>3, <2>4, <2>5, <2>6, <2>7, <2>8, <2>9, <2>10 DEF Timing
<1>. QED
  BY <1>6, <1>7

LEMMA HaltClockSysInv ==
    ASSUME IInv, SysInv, Cpu, HaltClock PROVE SysInv'
<1> USE DEF SysInv, software, thread, terminal, opcode, outputs, mask, latches, environment
<1>1. UNCHANGED <<device, software, thread, terminal, typed>>
  BY Unnoticed DEF HaltClock
<1>2. /\ cycle = "Halt" /\ halt /\ t \in 1..4 /\ caller = "executor" /\ int_vector = NoByte
      /\ current_instruction = "None"
  BY DEF HaltClock, IInv, Position, Here, HaltState, DecoderState
<1>3. /\ UNCHANGED <<halt, data_bus, mask, interrupt_mode, int_vector, latches, environment>>
      /\ \/ cycle' = "Halt" /\ UNCHANGED <<caller, step, current_instruction>>
         \/ /\ cycle' = "Return" /\ caller' = "execute_instruction"
            /\ current_instruction' = "NOP"
  BY DEF HaltClock, NextClock, Run
<1>4. "iorq" \notin pins'
  BY <1>2, StrobesPins DEF HaltClock
<1>5. Answering' = Answering
  BY <1>2, <1>3 DEF Answering
<1>6. Running' /\ Iorq'
  BY <1>3, <1>4 DEF Core, Running, Iorq
<1>7. Core'
  <2>1. current_instruction' # "CALL" /\ caller' # "nmi_acknowledge"
    BY <1>2, <1>3
  <2>2. caller' = "execute_instruction" => current_instruction' \in {Kind(Label), "NOP", "CALL"}
    BY <1>2, <1>3
  <2>. QED
    BY <1>1, <1>2, <1>3, <1>5, <1>6, <2>1, <2>2, Silent
<1>8. Timing'
  <2>1. current_instruction' # "IN" /\ cycle' # "IntAck" /\ caller' # "int_acknowledge"
    BY <1>2, <1>3
  <2>. QED
    BY <1>1, <1>2, <1>3, <1>5, <2>1, Calm
<1>. QED
  BY <1>7, <1>8

-----------------------------------------------------------------------------
(* Fetching an instruction, or taking the vector for one.                  *)

LEMMA ProgramLabel ==
    ASSUME Code
    PROVE  /\ Label \in MainCode \cup {"IN", "INIR", "RETN", "RETI", "PRINT2"}
           /\ Kind(Label) \notin {"CALL", "NOP", "IORead"}
           /\ Kind(Label) = "IN" <=> Label = "IN"
           /\ Kind(Label) = "INI" <=> Label = "INIR"
           /\ Kind(Label) = "HALT" <=> Label = "HALT"
           /\ Label \in {"REQ_READ", "HALT"} => InMain
BY InMainLabel, InHandlerLabel, LabelKinds DEF Code

\* A mode 0 program waits for its request with no vector taken before it.
LEMMA NoneBefore ==
    ASSUME Core, Timing, device = "INT0", Unanswered
    PROVE  int_vector = NoByte /\ ~Answering /\ InMain /\ Script
<1>1. Single /\ Script
  BY DEF Timing, Patient
<1>2. in_buffer = 0 => ~Answering /\ InMain
  BY DEF Core, Line, Requesting
<1>3. dev = "signal" \/ int_latch => ~Answering /\ InMain
  BY <1>1 DEF Single, Requesting, Latched
<1>. QED
  BY <1>1, <1>2, <1>3 DEF Unanswered, Answering

LEMMA DecodeSysInv ==
    ASSUME IInv, SysInv, Cpu, cycle = "Fetch", Decode, int_vector' = NoByte, Iorq',
           UNCHANGED <<halt, mask, data_bus, interrupt_mode, latches, environment>>
    PROVE  SysInv'
<1> USE DEF SysInv, software, thread, terminal, mask, latches, environment
<1>1. UNCHANGED <<device, software, thread, terminal, typed>>
  BY Unnoticed
<1>2. caller = "executor" /\ current_instruction = "None"
  BY DEF IInv, Position, Here, DecoderState
<1>3. CASE DecodePart
  <2>1. cycle' = "Loop" /\ caller' = "executor" /\ current_instruction' = "None"
    BY <1>2, <1>3 DEF DecodePart, At
  <2>2. Running' /\ (Answering' => Answering)
    BY <1>2, <2>1 DEF Core, Running, Answering
  <2>3. Core'
    BY <1>1, <2>1, <2>2, Silent
  <2>4. Timing'
    BY <1>1, <2>1, <2>2, Calm
  <2>. QED
    BY <2>3, <2>4
<1>4. CASE DecodeLast
  <2>1. PICK i \in Program : /\ current_instruction' = i
                             /\ Run("execute_instruction", Cycles[i], 1)
    BY <1>4 DEF DecodeLast
  <2>2. i \in Instruction /\ i # "None"
    BY ProgramAssumption DEF Instruction
  <2>3. current_instruction' = IF int_vector = NoByte THEN Kind(Label)
                               ELSE IF int_vector = 247 THEN "CALL" ELSE "NOP"
    BY <1>2, <2>1, <2>2 DEF Cpu, Decodes, ReadPort, WritePort, Executes, Samples, Enters, Internal
  <2>4. /\ caller' = "execute_instruction" /\ step' = 1
        /\ cycle' \in BusCycle \cup {"Return"}
    BY <2>1, <2>2, CyclesShape DEF Run
  <2>5. i = "IN" => cycle' # "Return"
    BY <2>1 DEF Run, Cycles, Instruction
  <2>6. Running' /\ cycle' # "IntAck"
    BY <2>4 DEF Core, Running, BusCycle
  <2>7. Kind(Label) # "CALL"
    BY ProgramLabel DEF Core
  <2>8. Answering' => Answering
    BY <2>3, <2>4, <2>7 DEF Answering
  <2>9. device = "INT2" => current_instruction' # "CALL"
    BY <2>3, <2>7, NoVector
  <2>10. Core'
    BY <1>1, <2>3, <2>4, <2>6, <2>8, <2>9, Silent
  <2>11. device = "INT0" /\ Unanswered => current_instruction' = Kind(Label)
    BY <2>3, NoneBefore
  <2>12. Timing'
    BY <1>1, <2>1, <2>4, <2>5, <2>6, <2>8, <2>11, Calm
  <2>. QED
    BY <2>10, <2>12
<1>. QED
  BY <1>3, <1>4 DEF Decode

LEMMA FetchClockSysInv ==
    ASSUME IInv, SysInv, Cpu, FetchClock PROVE SysInv'
<1> USE DEF SysInv, software, thread, terminal, mask, latches, environment
<1>1. UNCHANGED <<device, software, thread, terminal, typed>>
  BY Unnoticed DEF FetchClock
<1>2. /\ cycle = "Fetch" /\ t \in 2..4 /\ caller = "executor" /\ int_vector = NoByte
      /\ current_instruction = "None" /\ ~halt
  BY DEF FetchClock, IInv, Position, Here, HaltState, HaltQuiet, DecoderState
<1>3. UNCHANGED <<halt, mask, data_bus, interrupt_mode, int_vector, latches, environment>>
  BY DEF FetchClock
<1>4. "iorq" \notin pins'
  BY <1>2, StrobesPins DEF FetchClock
<1>5. CASE t < 4
  <2>1. UNCHANGED <<cycle, caller, step, current_instruction>>
    BY <1>5 DEF FetchClock, NextClock, opcode
  <2>2. Running' /\ Iorq' /\ Answering' = Answering
    BY <1>2, <1>3, <1>4, <2>1 DEF Core, Running, Iorq, Answering
  <2>3. device = "INT2" => int_vector' = NoByte /\ current_instruction' # "CALL"
    BY <1>2, <1>3, <2>1
  <2>4. Core'
    BY <1>1, <1>2, <1>3, <2>1, <2>2, <2>3, Silent
  <2>5. Timing'
    BY <1>1, <1>2, <1>3, <2>1, <2>2, Calm
  <2>. QED
    BY <2>4, <2>5
<1>6. CASE t = 4
  <2>1. Decode
    BY <1>6 DEF FetchClock
  <2>2. cycle' # "IntAck"
    <3>1. CASE DecodePart
      BY <3>1 DEF DecodePart, At
    <3>2. CASE DecodeLast
      <4>1. PICK i \in Program : Run("execute_instruction", Cycles[i], 1)
        BY <3>2 DEF DecodeLast
      <4>. QED
        BY <4>1, CyclesShape, ProgramAssumption DEF Run, BusCycle
    <3>. QED
      BY <2>1, <3>1, <3>2 DEF Decode
  <2>3. Iorq'
    BY <1>4, <2>2 DEF Iorq
  <2>. QED
    BY <1>2, <1>3, <2>1, <2>3, DecodeSysInv
<1>. QED
  BY <1>2, <1>5, <1>6

\* Neither halted nor between its request and the acknowledge does a program
\* write to the bus.
LEMMA WritesBefore ==
    ASSUME IInv, SysInv, cycle \in BusCycle, Watching, Patient
    PROVE  ~int_latch
<1> USE DEF SysInv
<1>1. ~halt /\ caller \in Routine /\ step > 0 /\ cycle # "Return"
  BY DEF IInv, HaltState, HaltQuiet, Position, Here, BusCycle
<1>2. CASE device = "INT2"
  BY <1>1, <1>2 DEF Timing, FromHalt
<1>3. CASE device = "INT0"
  <2>1. SUFFICES ASSUME int_latch PROVE FALSE
    OBVIOUS
  <2>2. Script /\ ~Answering /\ in_buffer # 0
    BY <1>3, <2>1, NoneBefore DEF Unanswered, Core, Requests, Requesting, Latched
  <2>3. caller = "execute_instruction" /\ Unanswered
    BY <1>1, <2>1, <2>2 DEF Answering, Routine, Unanswered
  <2>4. current_instruction = Kind(Label) /\ frames = <<<<"HALT", "PRINT">>>>
    BY <1>1, <2>2, <2>3 DEF Script
  <2>5. Label = "HALT"
    BY <2>4 DEF Label
  <2>6. Plan = <<>>
    BY <2>3, <2>4, <2>5 DEF Kind, Plan, Cycles, Instruction
  <2>. QED
    BY <1>1, <2>3, <2>6 DEF IInv, PlanFollowed, BusCycle
<1>. QED
  BY <1>2, <1>3 DEF Watching

LEMMA FirstClockSysInv ==
    ASSUME IInv, SysInv, Cpu, FirstClock PROVE SysInv'
<1> USE DEF SysInv, software, thread, terminal, mask, latches, environment
<1>1. UNCHANGED <<device, software, thread, terminal, typed>>
  <2>1. cycle \in {"IORead", "IOWrite"} => cycle' = cycle
    BY DEF FirstClock, Open, OpenBusCycle, Core, Running, read_busreq
  <2>. QED
    BY <2>1, Unnoticed DEF FirstClock, MCycle, BusCycle
<1>2. /\ Open(cycle) /\ cycle \in MCycle /\ t = 1 /\ ~should_cycle'
      /\ UNCHANGED <<interrupt_mode, latches, environment>>
  BY DEF FirstClock, Core, Running, read_busreq, Tick
<1>3. CASE cycle = "Fetch" /\ TakeVector
  <2>1. /\ int_vector # NoByte /\ int_vector' = NoByte /\ Decode
        /\ UNCHANGED <<pins, halt, mask, data_bus>>
    BY <1>2, <1>3 DEF TakeVector, Open, BusCycle
  <2>2. "iorq" \notin pins'
    BY <2>1 DEF Core, Iorq
  <2>3. cycle' # "IntAck"
    <3>1. CASE DecodePart
      BY <3>1 DEF DecodePart, At
    <3>2. CASE DecodeLast
      <4>1. PICK i \in Program : Run("execute_instruction", Cycles[i], 1)
        BY <3>2 DEF DecodeLast
      <4>. QED
        BY <4>1, CyclesShape, ProgramAssumption DEF Run, BusCycle
    <3>. QED
      BY <2>1, <3>1, <3>2 DEF Decode
  <2>4. Iorq'
    BY <2>2, <2>3 DEF Iorq
  <2>. QED
    BY <1>2, <1>3, <2>1, <2>4, DecodeSysInv
<1>4. CASE cycle = "Fetch" /\ ~TakeVector
  <2>1. /\ pins' = Strobes["Fetch"][1] /\ int_vector = NoByte
        /\ cycle' = "Fetch" /\ t' = 2
        /\ UNCHANGED <<caller, step, opcode, response, halt, mask, data_bus>>
    BY <1>2, <1>4 DEF Open, OpenFetch, BusCycle
  <2>2. "iorq" \notin pins'
    BY <2>1, StrobesPins
  <2>3. caller = "executor"
    BY <1>4 DEF IInv, Position, Here
  <2>4. /\ current_instruction' = current_instruction /\ int_vector' = NoByte
        /\ Answering' = Answering /\ Running' /\ Iorq'
    BY <1>2, <1>4, <2>1, <2>2, <2>3 DEF opcode, response, Core, Running, Iorq, Answering
  <2>5. Core'
    BY <1>1, <1>2, <2>1, <2>3, <2>4, NoVector, Silent
  <2>6. Timing'
    BY <1>1, <1>2, <1>4, <2>1, <2>3, <2>4, Calm
  <2>. QED
    BY <2>5, <2>6
<1>5. CASE cycle \in BusCycle
  <2>1. /\ cycle' = cycle /\ t' = 2
        /\ UNCHANGED <<caller, step, opcode, response, halt, mask>>
    BY <1>2, <1>5 DEF Open, OpenBusCycle, BusCycle
  <2>2. /\ ~halt /\ int_vector = NoByte
        /\ cycle \notin {"IntAck", "Return"}
    BY <1>5 DEF IInv, HaltState, HaltQuiet, DecoderState, Position, Here, BusCycle, Routine
  <2>3. /\ current_instruction' = current_instruction /\ int_vector' = NoByte
        /\ Answering' = Answering /\ Running' /\ Iorq'
    BY <1>2, <2>1, <2>2 DEF opcode, response, Core, Running, Iorq, Answering
  <2>4. caller = "execute_instruction" => current_instruction \in {Kind(Label), "NOP", "CALL"}
    BY DEF Core, Code
  <2>5. Core'
    BY <1>1, <1>2, <2>1, <2>2, <2>3, <2>4, NoVector, Silent DEF Core, Requests
  <2>6. device = "INT0" /\ Unanswered /\ caller' = "execute_instruction"
          => current_instruction' = Kind(Label)
    BY <2>1, <2>2, <2>3, NoneBefore DEF Script
  <2>7. Watching /\ Patient => ~int_latch
    BY <1>5, WritesBefore
  <2>8. Timing'
    BY <1>1, <1>2, <2>1, <2>2, <2>3, <2>6, <2>7, Calm
  <2>. QED
    BY <2>5, <2>8
<1>6. CASE cycle = "IntAck"
  <2>1. /\ cycle' = "IntAck" /\ t' = 2 /\ halt' = FALSE /\ iff1' = FALSE
        /\ pins' = pins \cup {"m1"}
        /\ UNCHANGED <<caller, step, opcode, response, data_bus>>
    BY <1>2, <1>6 DEF Open, OpenIntAck, BusCycle
  <2>2. caller = "int_acknowledge" /\ step = 0 /\ int_vector = NoByte
    BY <1>6 DEF IInv, Position, Here, DecoderState
  <2>3. /\ current_instruction' = current_instruction /\ int_vector' = NoByte
        /\ Answering /\ Answering' /\ Running' /\ Iorq'
    BY <1>2, <2>1, <2>2 DEF opcode, response, Core, Running, Iorq, Answering
  <2>4. InMain /\ in_buffer > 0 /\ in_buffer # 0 /\ ~typed
    BY <2>2, <2>3 DEF Core, Requests, Requesting, Line, Answering
  <2>5. Core'
    BY <1>1, <1>2, <2>1, <2>2, <2>3, NoVector, Silent
  <2>6. /\ Label' = Label /\ InMain' = InMain /\ Patient' = Patient /\ Watching' = Watching
        /\ Listening' = Listening /\ Latched' = Latched /\ (Served' => Served)
    BY <1>1, <1>2, <2>1, TopLabel, SameDevice DEF InMain, MainCode, Listening, Latched, Served
  <2>7. Single => Single' /\ dev # "signal" /\ ~int_latch
    BY <1>1, <2>3, <2>4, <2>6 DEF Single, Latched
  <2>8. FromHalt /\ Single => FromHalt'
    BY <1>1, <1>2, <1>6, <2>1, <2>4, <2>7 DEF FromHalt
  <2>9. Attentive => Attentive'
    BY <1>1, <1>2, <2>1, <2>6 DEF Attentive
  <2>10. Single => Script'
    BY <1>1, <1>2, <2>4, <2>7 DEF Script, Unanswered
  <2>11. OnTheBus => OnTheBus'
    BY <1>1, <1>2, <1>6, <2>1, <2>6 DEF OnTheBus
  <2>12. Second => Second'
    BY <1>1, <1>2, <1>6, <2>1, <2>2, <2>3, <2>6 DEF Second
  <2>13. Transfer => Transfer'
    BY <1>1, <1>6, <2>1, <2>6 DEF Transfer
  <2>14. device = "INT0" => Patient
    BY DEF Patient
  <2>. QED
    BY <1>1, <2>5, <2>6, <2>7, <2>8, <2>9, <2>10, <2>11, <2>12, <2>13, <2>14 DEF Timing
<1>7. CASE cycle = "NmiAck"
  <2>1. /\ Run("nmi_acknowledge", PushPC, 1) /\ ~halt' /\ iff1' = FALSE
        /\ UNCHANGED <<opcode, response, pins, data_bus>>
    BY <1>2, <1>7 DEF Open, OpenNmiAck, BusCycle
  <2>2. /\ cycle' = "MemWrite" /\ caller' = "nmi_acknowledge"
    BY <2>1 DEF Run, PushPC
  <2>3. caller = "nmi_acknowledge" /\ int_vector = NoByte
    BY <1>7 DEF IInv, Position, Here, DecoderState
  <2>4. device = "NMI" /\ Answering
    BY <2>3 DEF Core, Requests, Answering
  <2>5. Running' /\ Iorq' /\ int_vector' = NoByte /\ current_instruction' = current_instruction
    BY <1>2, <2>1, <2>2, <2>3 DEF opcode, response, Core, Running, Iorq
  <2>6. Core'
    BY <1>1, <1>2, <2>1, <2>2, <2>3, <2>4, <2>5, Silent
  <2>7. Patient /\ ~Watching /\ Single /\ Transfer
    BY <2>4 DEF Patient, Watching, Timing
  <2>8. /\ Label' = Label /\ InMain' = InMain /\ Latched' = Latched
    BY <1>1, <1>2, TopLabel DEF InMain, MainCode, Latched
  <2>9. Single'
    BY <1>1, <2>4, <2>7, <2>8 DEF Single, Requesting
  <2>10. Transfer'
    BY <1>1, <1>7, <2>2, <2>7, <2>8 DEF Transfer
  <2>11. device' = "NMI" /\ ~Watching'
    BY <1>1, <2>4, <2>7, SameDevice
  <2>. QED
    BY <2>6, <2>9, <2>10, <2>11 DEF Timing
<1>. QED
  BY <1>2, <1>3, <1>4, <1>5, <1>6, <1>7 DEF MCycle

-----------------------------------------------------------------------------
(* The acknowledge of a maskable request.                                  *)

LEMMA IntAckClockSysInv ==
    ASSUME IInv, SysInv, Cpu, IntAckClock PROVE SysInv'
<1> USE DEF SysInv, software, thread, terminal, mask, latches, environment
<1>1. /\ cycle = "IntAck" /\ t \in 2..5 /\ caller = "int_acknowledge" /\ step = 0
      /\ ~halt /\ int_vector = NoByte /\ current_instruction = "None"
  BY DEF IntAckClock, IInv, Position, Here, DecoderState, MaskState, TypeOK, PlaceType
<1>2. /\ UNCHANGED <<current_instruction, halt, mask, data_bus, interrupt_mode, latches, environment>>
      /\ ~should_cycle' /\ should_cycle
  BY DEF IntAckClock, opcode, Tick
<1>3. Answering /\ InMain /\ in_buffer > 0 /\ in_buffer # 0 /\ ~typed
  BY <1>1 DEF Core, Requests, Answering, Requesting, Line
<1>4. Label \notin {"IN", "INIR"}
  BY <1>3, InMainLabel, LabelKinds
<1>5. Single => ~Latched /\ ~int_latch /\ dev # "signal"
  BY <1>3 DEF Single, Latched
<1>6. (device = "INT0" => Patient) /\ (device' = device => Patient' = Patient /\ Watching' = Watching)
  BY SameDevice DEF Patient
<1>7. CASE t < 5
  <2>1. UNCHANGED <<device, software, thread, terminal, typed>>
    BY <1>1, <1>7, Unnoticed
  <2>2. /\ UNCHANGED <<cycle, caller, step, int_vector>> /\ t' = t + 1
        /\ pins' = IF t = 3 THEN pins \cup {"iorq"} ELSE pins
    BY <1>1, <1>7 DEF IntAckClock, NextClock, response
  <2>3. Running' /\ Iorq' /\ Answering' = Answering
    BY <1>1, <1>2, <2>2 DEF Core, Running, Iorq, Answering
  <2>4. Core'
    BY <1>1, <1>2, <2>1, <2>2, <2>3, Silent
  <2>5. /\ Label' = Label /\ InMain' = InMain /\ Listening' = Listening /\ Latched' = Latched
        /\ (Served' => Served)
    BY <1>1, <1>2, <2>1, <2>2, TopLabel DEF InMain, MainCode, Listening, Latched, Served
  <2>6. Single => Single'
    BY <2>1, <2>3, <2>5 DEF Single, Requesting
  <2>7. FromHalt /\ Single => FromHalt'
    BY <1>1, <1>2, <1>3, <1>5, <1>7, <2>1, <2>2 DEF FromHalt
  <2>8. Attentive => Attentive'
    BY <1>1, <1>2, <1>3, <1>7, <2>1, <2>2, <2>3, <2>5 DEF Attentive
  <2>9. Single => Script'
    BY <1>2, <1>3, <1>5, <2>1 DEF Script, Unanswered
  <2>10. OnTheBus => OnTheBus'
    BY <1>1, <1>2, <2>1, <2>2, <2>5 DEF OnTheBus
  <2>11. Second => Second'
    BY <1>1, <1>2, <2>1, <2>2, <2>3, <2>5 DEF Second
  <2>12. Transfer'
    BY <1>4, <2>5 DEF Transfer
  <2>. QED
    BY <1>6, <2>1, <2>4, <2>6, <2>7, <2>8, <2>9, <2>10, <2>11, <2>12 DEF Timing
<1>8. CASE t = 5
  <2>1. /\ t' = 1 /\ "iorq" \notin pins' /\ cycle' # "IntAck"
        /\ \/ cycle' = "Loop" /\ caller' = "executor" /\ step' = 0 /\ interrupt_mode = 0
           \/ /\ cycle' \in BusCycle /\ caller' = "int_acknowledge"
              /\ int_vector' = int_vector
    <3>1. IntPlan[1] = "MemWrite" /\ Len(IntPlan) >= 1
      BY DEF IntPlan, PushPC
    <3>. QED
      BY <1>8, <3>1 DEF IntAckClock, At, Run, response, EndAckStrobes, BusCycle
  <2>2. /\ vector' = data_bus
        /\ UNCHANGED <<device, frames, B, dev, round, thread, should_read, needs_len, in_buffer, typed>>
    BY <1>1, <1>2, <1>8, <2>1 DEF Cpu, Decodes, ReadPort, WritePort, Executes, Samples, Enters, Internal
  <2>3. Running' /\ Iorq' /\ (Answering' => Answering)
    BY <1>1, <1>2, <1>3, <2>1 DEF Core, Running, Iorq, BusCycle
  <2>4. device = "INT2" => interrupt_mode = 2
    BY <1>3 DEF Core, Mode2
  <2>5. Core'
    <3>1. device = "INT2" => int_vector' = NoByte
      BY <1>1, <2>1, <2>4
    <3>2. caller' \notin {"execute_instruction", "nmi_acknowledge"}
      BY <2>1
    <3>. QED
      BY <1>1, <1>2, <2>2, <2>3, <3>1, <3>2, Silent
  <2>6. Label' = Label /\ InMain' = InMain /\ Listening' = Listening /\ Latched' = Latched
    BY <1>2, <2>2, TopLabel DEF InMain, MainCode, Listening, Latched
  <2>7. Single => Single'
    BY <1>3, <1>5, <2>2, <2>6 DEF Single
  <2>8. FromHalt /\ Single => FromHalt'
    BY <1>2, <1>3, <1>5, <2>1, <2>2 DEF FromHalt
  <2>9. Attentive => ~Listening /\ dev # "signal"
    BY <1>1, <1>2, <1>3, <1>8 DEF Attentive
  <2>10. Attentive => Attentive'
    BY <2>2, <2>6, <2>9 DEF Attentive
  <2>11. Single => Script'
    BY <1>2, <1>3, <1>5, <2>2 DEF Script, Unanswered
  <2>12. Single => OnTheBus'
    BY <1>2, <1>5, <2>1 DEF OnTheBus
  <2>13. Second /\ Attentive => Second'
    <3>1. SUFFICES ASSUME Second, Attentive PROVE Second'
      OBVIOUS
    <3>2. int_latch => data_bus = 2
      BY <1>1, <2>9, <3>1 DEF Second
    <3>3. ~needs_len => data_bus = 2
      <4>1. ~needs_len => Served
        BY <1>3 DEF Served
      <4>. QED
        BY <1>1, <2>9, <3>1, <4>1 DEF Second
    <3>4. Served' => ~int_latch'
      <4>1. ASSUME Served, int_latch PROVE FALSE
        BY <1>3, <3>1, <4>1 DEF Second
      <4>2. ASSUME Served', int_latch PROVE Served
        BY <1>2, <1>4, <2>2, <2>6, <3>2, <4>2 DEF Served
      <4>. QED
        BY <1>2, <4>1, <4>2
    <3>. QED
      BY <1>2, <2>1, <2>2, <2>9, <3>1, <3>2, <3>3, <3>4 DEF Second
  <2>14. Transfer'
    BY <1>4, <2>6 DEF Transfer
  <2>. QED
    BY <1>6, <2>2, <2>5, <2>7, <2>8, <2>10, <2>11, <2>12, <2>13, <2>14 DEF Timing
<1>. QED
  BY <1>1, <1>7, <1>8

-----------------------------------------------------------------------------
(* Bus cycles, and the calls of the device at the end of two of them.      *)

LEMMA PortCycles ==
    ASSUME NEW i \in Instruction, NEW n \in DOMAIN Cycles[i]
    PROVE  /\ Cycles[i][n] = "IORead" =>
                 \/ i = "IN" /\ n = 2 /\ Len(Cycles[i]) = 2
                 \/ i = "INI" /\ n = 1 /\ Len(Cycles[i]) = 2 /\ Cycles[i][2] = "MemWrite"
           /\ Cycles[i][n] = "IOWrite" => i = "OUT" /\ n = 2 /\ Len(Cycles[i]) = 2
           /\ i = "IN" /\ n < 2 => n + 1 <= Len(Cycles[i])
<1>1. CASE i = "IN"
  <2>1. Cycles[i] = <<"MemRead", "IORead">>
    BY <1>1 DEF Cycles
  <2>. QED
    BY <1>1, <2>1
<1>2. CASE i = "OUT"
  <2>1. Cycles[i] = <<"MemRead", "IOWrite">>
    BY <1>2 DEF Cycles
  <2>. QED
    BY <1>2, <2>1
<1>3. CASE i = "INI"
  <2>1. Cycles[i] = <<"IORead", "MemWrite">>
    BY <1>3 DEF Cycles
  <2>. QED
    BY <1>3, <2>1
<1>4. CASE i \in {"LOAD", "CALLcc"}
  <2>1. Cycles[i] \in {<<"MemRead">>, <<"MemRead", "MemWrite", "MemWrite", "MemWrite">>}
    BY <1>4 DEF Cycles
  <2>. QED
    BY <1>4, <2>1
<1>5. CASE i \in {"STORE", "JP", "PUSH", "CALL", "POP", "RET", "RETN"}
  <2>1. Cycles[i] \in {<<"MemRead", "MemWrite">>, <<"MemWrite", "MemWrite">>,
                       <<"MemRead", "MemRead">>}
    BY <1>5 DEF Cycles
  <2>. QED
    BY <1>5, <2>1
<1>6. CASE i \notin {"IN", "OUT", "INI", "LOAD", "CALLcc", "STORE", "JP", "PUSH", "CALL",
                     "POP", "RET", "RETN"}
  BY <1>6 DEF Cycles
<1>. QED
  BY <1>1, <1>2, <1>3, <1>4, <1>5, <1>6

\* The place of a bus cycle in the plan of its routine, and what follows it.
LEMMA BusPlace ==
    ASSUME IInv, BusClock
    PROVE  /\ caller \in Routine /\ step > 0 /\ step \in Nat /\ cycle \in BusCycle
           /\ ~halt /\ int_vector = NoByte
           /\ caller = "execute_instruction" => current_instruction \in Instruction
           /\ cycle \in {"IORead", "IOWrite"} => caller = "execute_instruction"
           /\ cycle = "IORead" => \/ current_instruction = "IN"
                                 \/ current_instruction = "INI"
           /\ cycle = "IOWrite" => current_instruction = "OUT" /\ cycle' \in {"IOWrite", "Return"}
           /\ UNCHANGED caller
           /\ \/ cycle' = cycle /\ t' > 1
              \/ cycle' \in BusCycle \cup {"Return"} /\ step' > 1
           /\ current_instruction = "IN" =>
                 /\ cycle # "IORead" => cycle' # "Return"
                 /\ cycle = "IORead" => cycle' \in {"IORead", "Return"}
<1>1. /\ caller \in Routine /\ step > 0 /\ step \in Nat /\ cycle \in BusCycle
      /\ t > 1 /\ t \in Nat
      /\ ~halt /\ int_vector = NoByte
      /\ caller = "execute_instruction" => current_instruction \in Instruction
  BY DEF BusClock, IInv, Position, Here, HaltState, HaltQuiet, DecoderState, TypeOK, PlaceType,
         BusCycle, Routine
<1>2. step \in DOMAIN Plan /\ cycle = Plan[step]
  <2>1. caller # "executor" /\ cycle \notin {"BusAck", "Return"}
    BY <1>1 DEF Routine, BusCycle
  <2>. QED
    BY <1>1, <2>1 DEF IInv, PlanFollowed
<1>3. Plan \in Seq(BusCycle)
  BY PlanShape DEF IInv, DecoderState
<1>4. CASE caller # "execute_instruction"
  <2>1. Plan[step] \in {"MemRead", "MemWrite"} /\ current_instruction = "None"
    BY <1>1, <1>2, <1>4 DEF Plan, PushPC, IntPlan, Routine, IInv, DecoderState, BusCycle
  <2>2. \/ cycle' = cycle /\ t' > 1 /\ UNCHANGED caller
        \/ cycle' \in BusCycle \cup {"Return"} /\ step' > 1 /\ UNCHANGED caller
    BY <1>1, <1>2, <1>3 DEF BusClock, NextClock, Run
  <2>. QED
    BY <1>1, <1>2, <1>4, <2>1, <2>2
<1>5. CASE caller = "execute_instruction"
  <2>1. Plan = Cycles[current_instruction] /\ current_instruction \in Instruction
    BY <1>1, <1>5 DEF Plan
  <2>2. /\ cycle = "IORead" =>
              \/ current_instruction = "IN" /\ step = 2 /\ Len(Plan) = 2
              \/ current_instruction = "INI"
        /\ cycle = "IOWrite" => current_instruction = "OUT" /\ step = 2 /\ Len(Plan) = 2
        /\ current_instruction = "IN" /\ step < 2 => step + 1 <= Len(Plan)
    BY <1>2, <2>1, PortCycles
  <2>3. current_instruction = "IN" => Plan = <<"MemRead", "IORead">>
    BY <2>1 DEF Cycles
  <2>4. CASE t < Len(Strobes[cycle])
    BY <1>1, <1>5, <2>1, <2>2, <2>4 DEF BusClock, NextClock, BusCycle
  <2>5. CASE ~(t < Len(Strobes[cycle]))
    <3>1. /\ UNCHANGED caller /\ step' = step + 1
          /\ cycle' = IF step + 1 <= Len(Plan) THEN Plan[step + 1] ELSE "Return"
      BY <2>5 DEF BusClock, Run
    <3>2. cycle' \in BusCycle \cup {"Return"} /\ step' > 1
      BY <1>1, <1>3, <3>1
    <3>3. ASSUME current_instruction = "IN"
          PROVE  /\ cycle # "IORead" => cycle' # "Return"
                 /\ cycle = "IORead" => cycle' = "Return"
      <4>1. Plan = <<"MemRead", "IORead">>
        BY <2>3, <3>3
      <4>2. step \in 1..2 /\ Len(Plan) = 2
        BY <1>2, <4>1
      <4>3. CASE step = 1
        BY <1>2, <3>1, <4>1, <4>3
      <4>4. CASE step = 2
        BY <1>2, <3>1, <4>1, <4>4
      <4>. QED
        BY <4>2, <4>3, <4>4
    <3>. QED
      BY <1>1, <1>5, <2>1, <2>2, <3>1, <3>2, <3>3
  <2>. QED
    BY <2>4, <2>5
<1>. QED
  BY <1>4, <1>5

LEMMA BusClockSysInv ==
    ASSUME IInv, SysInv, Cpu, BusClock PROVE SysInv'
<1> USE DEF SysInv, software, thread, terminal, mask, latches, environment, opcode, response
<1>1. /\ caller \in Routine /\ step > 0 /\ step \in Nat /\ cycle \in BusCycle
      /\ ~halt /\ int_vector = NoByte
      /\ caller' = caller
      /\ \/ cycle' = cycle /\ t' > 1
         \/ cycle' \in BusCycle \cup {"Return"} /\ step' > 1
  BY BusPlace
<1>2. /\ UNCHANGED <<opcode, halt, mask, data_bus, interrupt_mode, response, latches, environment>>
      /\ ~should_cycle'
  BY DEF BusClock, Tick
<1>3. current_instruction = "IN" /\ cycle # "IORead" => cycle' # "Return"
  BY BusPlace
<1>4. Running' /\ Iorq' /\ Answering' = Answering /\ cycle # "Return" /\ cycle' # "IntAck" /\ cycle # "IntAck"
  BY <1>1, <1>2 DEF Core, Running, Iorq, BusCycle, Answering
<1>5. caller = "execute_instruction" => current_instruction \in {Kind(Label), "NOP", "CALL"}
  BY DEF Core, Code
<1>6. /\ int_vector' = NoByte /\ (device = "INT2" => current_instruction # "CALL")
      /\ current_instruction' = current_instruction
      /\ caller' = "nmi_acknowledge" => caller = "nmi_acknowledge"
      /\ interrupt_mode' = interrupt_mode
  BY <1>1, <1>2, NoVector
<1>7. CASE cycle = "IORead" /\ cycle' # "IORead"
  <2>1. /\ caller = "execute_instruction" /\ current_instruction \in {"IN", "INI"}
        /\ current_instruction = "IN" => cycle' = "Return"
    BY <1>7, BusPlace
  <2>2. /\ UNCHANGED <<device, frames, vector, printed, driven, should_read, in_buffer, thread, typed>>
        /\ B' = IF Label = "IN" THEN in_buffer ELSE B
        /\ needs_len' = FALSE
    BY <1>2, <1>7, <2>1 DEF Cpu, Decodes, ReadPort, WritePort, Executes, Samples, Enters, Internal
  <2>3. current_instruction = Kind(Label) /\ Label \in {"IN", "INIR"}
    BY <1>5, <2>1, ProgramLabel DEF Core
  <2>4. InHandler /\ ~InMain /\ ~Answering /\ in_buffer \in 1..255 /\ in_buffer # 0 /\ ~typed
    BY <2>3, InMainLabel, LabelKinds DEF Core, Code, Requests, Line
  <2>5. /\ Label' = Label /\ InMain' = InMain /\ InHandler' = InHandler /\ Latched' = Latched
        /\ Listening' = Listening /\ Patient' = Patient /\ Watching' = Watching
    BY <1>2, <2>2, TopLabel, SameDevice DEF InMain, InHandler, MainCode, Latched, Listening
  <2>6. Requesting' = Requesting
    BY <1>4, <2>2, <2>5 DEF Requesting
  <2>7. device # "INT2" => ~Requesting
    BY <2>4 DEF Timing, Patient, Single
  <2>8. Code' /\ Requests' /\ Line'
    BY <1>2, <1>4, <1>6, <2>1, <2>2, <2>3, <2>4, <2>5, <2>6, <2>7 DEF Core, Code, Requests, Line, Kind
  <2>9. Mode2'
    BY <1>2, <1>6, <2>2, <2>5 DEF Core, Mode2, Main, MainCode
  <2>10. Single => Single'
    BY <1>4, <2>2, <2>5, <2>6 DEF Single
  <2>11. FromHalt => FromHalt'
    BY <1>2, <1>4, <2>2 DEF FromHalt
  <2>12. Attentive => Attentive'
    BY <1>2, <1>4, <2>2, <2>5 DEF Attentive
  <2>13. Single => Script'
    BY <1>2, <2>2, <2>4 DEF Single, Script, Unanswered, Requesting, Latched
  <2>14. OnTheBus => OnTheBus'
    BY <1>2, <1>4, <2>2, <2>5 DEF OnTheBus
  <2>15. Transfer => needs_len \/ Label # "IN"
    BY <1>7 DEF Transfer
  <2>16. Second /\ Transfer => Second'
    <3>1. SUFFICES ASSUME Second, Transfer PROVE Second'
      OBVIOUS
    <3>2. Served
      BY <2>3, <2>4, <3>1 DEF Served, Transfer
    <3>3. caller \notin {"int_acknowledge"}
      BY <2>1
    <3>. QED
      BY <1>1, <1>2, <1>4, <2>2, <2>5, <3>1, <3>2, <3>3 DEF Second
  <2>17. Transfer => Transfer'
    BY <1>2, <1>7, <2>1, <2>2, <2>3, <2>4, <2>5, ProgramLabel DEF Transfer, Core
  <2>18. device = "INT0" => Patient
    BY DEF Patient
  <2>. QED
    BY <1>4, <2>2, <2>5, <2>8, <2>9, <2>10, <2>11, <2>12, <2>13, <2>14, <2>16, <2>17, <2>18
       DEF Core, Timing
<1>8. CASE cycle = "IOWrite" /\ cycle' # "IOWrite"
  <2>1. caller = "execute_instruction" /\ current_instruction = "OUT" /\ cycle' = "Return"
    BY <1>8, BusPlace
  <2>2. /\ UNCHANGED <<device, frames, B, vector, driven, needs_len, in_buffer, thread, typed>>
        /\ should_read' = (should_read \/ Label = "REQ_READ")
    BY <1>2, <1>8, <2>1 DEF Cpu, Decodes, ReadPort, WritePort, Executes, Samples, Enters, Internal
  <2>3. device = "INT2" /\ frames = <<Main>> => Label = "IM2"
    BY TopLabel DEF Top, Main
  <2>4. Core'
    <3>1. device = "INT2" /\ frames = <<Main>> /\ should_read = FALSE => should_read' = FALSE
      BY <2>2, <2>3
    <3>. QED
      BY <1>2, <1>4, <1>5, <1>6, <2>1, <2>2, <3>1, Silent
  <2>5. /\ Label' = Label /\ InMain' = InMain /\ Latched' = Latched
        /\ Listening' = Listening /\ Patient' = Patient /\ Watching' = Watching
    BY <1>2, <2>2, TopLabel, SameDevice DEF InMain, MainCode, Latched, Listening
  <2>6. Single => Single'
    BY <1>4, <2>2, <2>5 DEF Single, Requesting
  <2>7. FromHalt => FromHalt'
    BY <1>2, <1>4, <2>2 DEF FromHalt
  <2>8. Attentive => Attentive'
    BY <1>2, <1>4, <2>2, <2>5 DEF Attentive
  <2>9. device = "INT0" => Script'
    <3>1. SUFFICES ASSUME device = "INT0", Unanswered PROVE Script'
      BY <1>2, <2>2 DEF Script, Unanswered
    <3>2. Script
      BY <3>1, NoneBefore
    <3>3. current_instruction = Kind(Label) /\ Kind(Label) = "OUT"
      BY <1>1, <2>1, <3>1, <3>2 DEF Script
    <3>4. frames \notin {<<Main>>, <<Tail(Main)>>}
      <4>1. Main = <<"IM0", "EI", "REQ_READ", "HALT", "PRINT">>
        BY <3>1 DEF Main
      <4>2. Tail(Main) # <<>> /\ Head(Tail(Main)) = "EI" /\ Main # <<>> /\ Head(Main) = "IM0"
        BY <4>1
      <4>3. frames = <<Main>> => Label = "IM0"
        BY <4>2, Stacks DEF Label
      <4>4. frames = <<Tail(Main)>> => Label = "EI"
        BY <4>2, Stacks DEF Label
      <4>. QED
        BY <3>3, <4>3, <4>4 DEF Kind
    <3>5. \/ frames = <<<<"REQ_READ", "HALT", "PRINT">>>> /\ iff1 /\ ~halt
          \/ frames = <<<<"HALT", "PRINT">>>> /\ iff1 /\ ~halt
          \/ frames = <<<<"PRINT">>>> /\ iff1 /\ halt
      BY <3>1, <3>2, <3>4 DEF Script
    <3>6. caller' = "execute_instruction" /\ cycle' = "Return"
          /\ current_instruction' = Kind(Label') /\ iff1' = iff1 /\ halt' = halt /\ frames' = frames
      BY <1>1, <1>2, <2>1, <2>2, <2>5, <3>3 DEF Kind
    <3>. QED
      BY <3>5, <3>6 DEF Script
  <2>10. OnTheBus => OnTheBus'
    BY <1>2, <1>4, <2>2, <2>5 DEF OnTheBus
  <2>11. Second => Second'
    <3>1. Served' => Served
      BY <2>1, <2>2, <2>5, <1>1 DEF Served
    <3>. QED
      BY <1>1, <1>2, <1>4, <2>1, <2>2, <2>5, <3>1 DEF Second
  <2>12. Transfer => Transfer'
    BY <1>2, <2>1, <2>2, <2>5 DEF Transfer
  <2>. QED
    BY <2>2, <2>4, <2>5, <2>6, <2>7, <2>8, <2>9, <2>10, <2>11, <2>12 DEF Timing
<1>9. CASE cycle \in {"IORead", "IOWrite"} => cycle' = cycle
  <2>1. UNCHANGED <<device, software, thread, terminal, typed>>
    BY <1>4, <1>9, Unnoticed
  <2>2. current_instruction = "IN" => cycle' # "Return"
    BY <1>3, <1>9
  <2>3. Core'
    BY <1>2, <1>4, <1>5, <1>6, <1>1, <2>1, Silent
  <2>4. device = "INT0" /\ Unanswered /\ caller = "execute_instruction"
          => current_instruction = Kind(Label)
    BY <1>1, NoneBefore DEF Script
  <2>5. Timing'
    BY <1>1, <1>2, <1>4, <1>6, <2>1, <2>2, <2>4, Calm
  <2>. QED
    BY <2>3, <2>5
<1>. QED
  BY <1>7, <1>8, <1>9

-----------------------------------------------------------------------------
(* The end of an instruction, and the entry of a handler.                  *)

\* What has to be shown of a step of the program that calls nothing.
LEMMA Moves ==
    ASSUME Core, UNCHANGED <<device, thread, terminal, typed, latches>>,
           Running', Iorq', ~Answering', caller' # "execute_instruction",
           InMain' \/ InHandler', InMain => InMain', halt' => InMain', Mode2'
    PROVE  Core'
<1> USE DEF Core, thread, terminal, latches
<1>1. Code'
  BY DEF Code
<1>2. Requesting' => Requesting
  BY DEF Requesting, Latched
<1>3. Requests'
  BY <1>2 DEF Requests, Latched, Answering
<1>4. Line'
  BY <1>2 DEF Line
<1>. QED
  BY <1>1, <1>3, <1>4

\* The call of a handler, by RST 30H or by the CPU.
LEMMA Entry ==
    ASSUME Core, InMain, in_buffer > 0, device # "INT2" => needs_len,
           UNCHANGED <<device, B, thread, terminal, typed, latches>>,
           NEW h \in {ReadHandler, PrintHandler}, frames' = Call(h),
           Running', Iorq', ~Answering', caller' # "execute_instruction", cycle' # "Return",
           ~halt', interrupt_mode' = interrupt_mode,
           device = "INT2" => ~iff1' /\ int_vector' = NoByte /\ current_instruction' # "CALL"
    PROVE  /\ Core'
           /\ Label' = Head(h)
           /\ (h = ReadHandler => needs_len) => Transfer'
<1> USE DEF thread, terminal, latches
<1> DEFINE m == frames[1]
<1>1. frames = <<m>> /\ m \in Seq(MainCode)
  BY DEF InMain
<1> HIDE DEF m
<1>2. frames' = <<h, m>>
  BY <1>1, Stacks DEF Call
<1>3. h \in HandlerRest
  BY DEF ReadHandler, PrintHandler, HandlerRest, Reading
<1>4. frames'[1] = h /\ frames'[2] = m /\ Len(frames') = 2 /\ Len(frames) = 1
  BY <1>1, <1>2, Stacks
<1>5. InHandler'
  <2>1. MainCode' = MainCode
    BY DEF MainCode
  <2>. QED
    BY <1>1, <1>2, <1>3, <1>4, <2>1 DEF InHandler
<1>6. Label' = Head(h)
  <2>1. h # <<>>
    BY DEF ReadHandler, PrintHandler
  <2>. QED
    BY <1>2, <2>1, TopLabel, Stacks DEF Top
<1>7. Code' /\ Requests' /\ Line'
  <2>1. Code'
    BY <1>5 DEF Code, Answering
  <2>2. Requests'
    BY DEF Core, Requests, Answering, Latched
  <2>3. Line'
    BY DEF Core, Line
  <2>. QED
    BY <2>1, <2>2, <2>3
<1>8. (h = ReadHandler => needs_len) => Transfer'
  <2>1. h = ReadHandler => Label' = "IN"
    BY <1>6 DEF ReadHandler
  <2>2. h = PrintHandler => Label' = "PRINT2"
    BY <1>6 DEF PrintHandler
  <2>. QED
    BY <2>1, <2>2 DEF Transfer
<1>9. Mode2'
  <2>1. frames[Len(frames)] = m /\ frames'[Len(frames')] = m
    BY <1>1, <1>4
  <2>2. in_buffer # 0
    OBVIOUS
  <2>. QED
    BY <2>1, <2>2 DEF Core, Mode2, MainCode
<1>. QED
  BY <1>6, <1>7, <1>8, <1>9 DEF Core

LEMMA EnterHandlerSysInv ==
    ASSUME IInv, SysInv, Cpu, EnterHandler PROVE SysInv'
<1> USE DEF SysInv, software, thread, terminal, latches, environment, opcode, outputs, mask, response
<1>1. /\ cycle = "Return" /\ caller \in {"nmi_acknowledge", "int_acknowledge"} /\ step > 0
      /\ ~halt /\ int_vector = NoByte /\ current_instruction = "None"
      /\ caller = "int_acknowledge" => ~iff1
  BY DEF EnterHandler, IInv, Position, Here, DecoderState, HaltState, HaltQuiet, MaskState
<1>2. /\ cycle' \in {"CheckInt", "Loop"} /\ caller' = "executor" /\ step' = 0
      /\ UNCHANGED <<current_instruction, outputs, mask, interrupt_mode, response, latches,
                     should_cycle, environment>>
  BY DEF EnterHandler, At
<1>3. /\ frames' = Call(IF PC' = "Mode2" THEN TableEntry(vector) ELSE ReadHandler)
      /\ UNCHANGED <<device, B, vector, driven, thread, terminal, typed>>
  BY <1>1, <1>2 DEF Cpu, Decodes, ReadPort, WritePort, Executes, Samples, Enters, Internal
<1>4. /\ Answering /\ InMain /\ in_buffer > 0 /\ in_buffer # 0 /\ ~typed
      /\ device # "INT2" => needs_len
      /\ device = "INT2" => caller = "int_acknowledge" /\ interrupt_mode = 2
  BY <1>1 DEF Core, Requests, Answering, Requesting, Line, Mode2
<1>5. ~Answering' /\ Running' /\ Iorq'
  BY <1>1, <1>2 DEF Answering, Core, Running, Iorq
<1> DEFINE h == IF PC' = "Mode2" THEN TableEntry(vector) ELSE ReadHandler
<1>6. h \in {ReadHandler, PrintHandler} /\ frames' = Call(h)
  BY <1>3 DEF TableEntry
<1>7. device = "INT2" /\ h = ReadHandler => vector # 2
  <2>1. device = "INT2" => PC' = "Mode2"
    BY <1>1, <1>4 DEF EnterHandler
  <2>2. ReadHandler # PrintHandler
    BY DEF ReadHandler, PrintHandler
  <2>. QED
    BY <2>1, <2>2 DEF TableEntry
<1> HIDE DEF h
<1>8. /\ Core' /\ Label' = Head(h)
      /\ (h = ReadHandler => needs_len) => Transfer'
  <2>1. device = "INT2" => ~iff1' /\ int_vector' = NoByte /\ current_instruction' # "CALL"
    BY <1>1, <1>2, <1>4
  <2>2. ~halt' /\ interrupt_mode' = interrupt_mode /\ caller' # "execute_instruction" /\ cycle' # "Return"
    BY <1>1, <1>2
  <2>. QED
    BY <1>2, <1>3, <1>4, <1>5, <1>6, <2>1, <2>2, Entry
<1>9. Listening' = Listening /\ Latched' = Latched /\ Patient' = Patient /\ Watching' = Watching
  BY <1>2, <1>3, SameDevice DEF Listening, Latched
<1>10. Single => ~Latched /\ ~int_latch /\ dev # "signal"
  BY <1>4 DEF Single, Latched
<1>11. Single => Single'
  BY <1>3, <1>5, <1>9, <1>10 DEF Single, Requesting
<1>12. Single => FromHalt' /\ Script' /\ OnTheBus'
  BY <1>2, <1>3, <1>4, <1>10 DEF FromHalt, Script, OnTheBus, Unanswered
<1>13. Attentive => dev # "signal" /\ ~Listening
  BY <1>1, <1>4 DEF Attentive
<1>14. Attentive => Attentive'
  BY <1>3, <1>9, <1>13 DEF Attentive
<1>15. Second /\ Attentive /\ device = "INT2" => Second'
  <2>1. SUFFICES ASSUME Second, Attentive, device = "INT2" PROVE Second'
    OBVIOUS
  <2>2. Served' => Served
    <3>1. Label' = "IN" => h = ReadHandler
      BY <1>6, <1>8 DEF ReadHandler, PrintHandler
    <3>. QED
      BY <1>1, <1>2, <1>3, <1>4, <1>7, <2>1, <3>1 DEF Served
  <2>3. dev' # "signal" /\ cycle' # "IntAck" /\ caller' # "int_acknowledge"
    BY <1>2, <1>3, <1>13, <2>1
  <2>4. Served /\ int_latch => FALSE
    BY <1>4, <2>1 DEF Second
  <2>. QED
    BY <1>2, <2>2, <2>3, <2>4 DEF Second
<1>16. Second /\ device = "INT2" => (h = ReadHandler => needs_len)
  BY <1>1, <1>4, <1>7 DEF Second
<1>17. Timing'
  BY <1>3, <1>4, <1>8, <1>9, <1>11, <1>12, <1>14, <1>15, <1>16 DEF Timing, Patient, Watching
<1>. QED
  BY <1>8, <1>17

\* The mode 0 program on its way to HALT.
LEMMA ExecuteScript ==
    ASSUME IInv, SysInv, Cpu, ExecuteInstruction, device = "INT0" PROVE Script'
<1> USE DEF SysInv, software, thread, terminal, latches, environment, opcode, response
<1> DEFINE i == current_instruction
<1>1. /\ cycle = "Return" /\ caller = "execute_instruction"
      /\ halt => i = "NOP"
  BY DEF ExecuteInstruction, IInv, HaltState, HaltQuiet
<1>2. /\ caller' = "executor" /\ current_instruction' = "None"
      /\ halt' = (halt \/ i = "HALT") /\ iff1' = Iff1After(i, iff1, iff2)
      /\ UNCHANGED <<latches>>
  BY DEF ExecuteInstruction, At
<1>3. /\ frames' = CASE i = "NOP"             -> frames
                     [] i = "CALL"            -> Call(ReadHandler)
                     [] i \in {"RET", "RETN"} -> Tail(frames)
                     [] i = "INI" /\ B # 1    -> frames
                     [] OTHER                 -> Advance
      /\ UNCHANGED <<device, thread, terminal, typed>>
  <2>1. cycle' = "CheckNmi"
    BY DEF ExecuteInstruction, At
  <2>. QED
    BY <1>1, <1>2, <2>1 DEF Cpu, Decodes, ReadPort, WritePort, Executes, Samples, Enters, Internal
<1>4. SUFFICES ASSUME Unanswered PROVE Script'
  BY <1>2, <1>3 DEF Script, Unanswered
<1>5. Script
  BY <1>4, NoneBefore
<1>6. Main' = Main /\ Main = <<"IM0", "EI", "REQ_READ", "HALT", "PRINT">>
  BY <1>3 DEF Main
<1>7. ~halt => i = Kind(Label)
  BY <1>1, <1>4, <1>5 DEF Script
<1> HIDE DEF i
<1>8. ASSUME NEW m, frames = <<m>>, m # <<>>
      PROVE  Label = Head(m) /\ Advance = <<Tail(m)>>
  BY <1>8, Stacks DEF Label, Advance
<1>9. CASE halt
  <2>1. i = "NOP" /\ frames' = frames /\ halt' /\ iff1' = iff1
    BY <1>1, <1>2, <1>3, <1>9 DEF Iff1After
  <2>2. frames = <<<<"PRINT">>>> /\ iff1
    BY <1>4, <1>5, <1>9 DEF Script
  <2>. QED
    BY <1>2, <2>1, <2>2 DEF Script
<1>10. CASE ~halt /\ frames = <<Main>>
  <2>1. Main # <<>> /\ Head(Main) = "IM0"
    BY <1>6
  <2>2. Label = "IM0" /\ Advance = <<Tail(Main)>>
    BY <1>8, <1>10, <2>1
  <2>3. i = "IM0"
    BY <1>7, <1>10, <2>2 DEF Kind
  <2>4. frames' = <<Tail(Main)>> /\ ~halt'
    BY <1>2, <1>3, <1>10, <2>2, <2>3
  <2>5. ~should_read /\ dev = "poll" /\ in_buffer = 0
    <3>1. Label # "REQ_READ" /\ Label # "HALT" /\ Label # "PRINT"
      BY <2>2
    <3>2. /\ frames # <<<<"REQ_READ", "HALT", "PRINT">>>> /\ frames # <<<<"HALT", "PRINT">>>>
          /\ frames # <<<<"PRINT">>>>
      BY <3>1 DEF Label
    <3>. QED
      BY <1>4, <1>5, <3>2 DEF Script
  <2>. QED
    BY <1>2, <1>3, <1>6, <2>4, <2>5 DEF Script
<1>11. CASE ~halt /\ frames = <<Tail(Main)>>
  <2>1. /\ Tail(Main) # <<>> /\ Head(Tail(Main)) = "EI"
        /\ Tail(Tail(Main)) = <<"REQ_READ", "HALT", "PRINT">>
    BY <1>6
  <2>2. Label = "EI" /\ Advance = <<<<"REQ_READ", "HALT", "PRINT">>>>
    BY <1>8, <1>11, <2>1
  <2>3. i = "EI"
    BY <1>7, <1>11, <2>2 DEF Kind
  <2>4. frames' = <<<<"REQ_READ", "HALT", "PRINT">>>> /\ ~halt' /\ iff1'
    BY <1>2, <1>3, <1>11, <2>2, <2>3 DEF Iff1After
  <2>5. ~should_read /\ dev = "poll" /\ in_buffer = 0
    <3>1. Label # "REQ_READ" /\ Label # "HALT" /\ Label # "PRINT"
      BY <2>2
    <3>2. /\ frames # <<<<"REQ_READ", "HALT", "PRINT">>>> /\ frames # <<<<"HALT", "PRINT">>>>
          /\ frames # <<<<"PRINT">>>>
      BY <3>1 DEF Label
    <3>. QED
      BY <1>4, <1>5, <3>2 DEF Script
  <2>. QED
    BY <1>2, <1>3, <2>4, <2>5 DEF Script
<1>12. CASE ~halt /\ frames = <<<<"REQ_READ", "HALT", "PRINT">>>>
  <2>1. Label = "REQ_READ" /\ Advance = <<<<"HALT", "PRINT">>>>
    <3> DEFINE m == <<"REQ_READ", "HALT", "PRINT">>
    <3>1. m # <<>> /\ Head(m) = "REQ_READ" /\ Tail(m) = <<"HALT", "PRINT">>
      OBVIOUS
    <3>2. frames = <<m>>
      BY <1>12
    <3> HIDE DEF m
    <3>. QED
      BY <1>8, <3>1, <3>2
  <2>2. i = "OUT"
    BY <1>7, <1>12, <2>1 DEF Kind
  <2>3. iff1
    <3>1. frames \notin {<<Main>>, <<Tail(Main)>>}
      BY <1>6, <1>12, <2>1, <1>8
    <3>. QED
      BY <1>4, <1>5, <1>12, <3>1 DEF Script
  <2>4. frames' = <<<<"HALT", "PRINT">>>> /\ ~halt' /\ iff1'
    BY <1>2, <1>3, <1>12, <2>1, <2>2, <2>3 DEF Iff1After
  <2>. QED
    BY <1>2, <2>4 DEF Script
<1>13. CASE ~halt /\ frames = <<<<"HALT", "PRINT">>>>
  <2>1. Label = "HALT" /\ Advance = <<<<"PRINT">>>>
    <3> DEFINE m == <<"HALT", "PRINT">>
    <3>1. m # <<>> /\ Head(m) = "HALT" /\ Tail(m) = <<"PRINT">>
      OBVIOUS
    <3>2. frames = <<m>>
      BY <1>13
    <3> HIDE DEF m
    <3>. QED
      BY <1>8, <3>1, <3>2
  <2>2. i = "HALT"
    BY <1>7, <1>13, <2>1 DEF Kind
  <2>3. iff1
    <3>1. frames \notin {<<Main>>, <<Tail(Main)>>}
      BY <1>6, <1>13, <2>1, <1>8
    <3>. QED
      BY <1>4, <1>5, <1>13, <2>1, <3>1 DEF Script
  <2>4. frames' = <<<<"PRINT">>>> /\ halt' /\ iff1'
    BY <1>2, <1>3, <1>13, <2>1, <2>2, <2>3 DEF Iff1After
  <2>. QED
    BY <1>2, <2>4 DEF Script
<1>. QED
  BY <1>4, <1>5, <1>9, <1>10, <1>11, <1>12, <1>13 DEF Script

LEMMA ExecuteCore ==
    ASSUME IInv, SysInv, Cpu, ExecuteInstruction, Iorq'
    PROVE  /\ Core'
           /\ Transfer => Transfer'
           /\ InMain /\ ~Answering => InMain'
           /\ device = "INT2" /\ Label' = "IN" => Label = "IN"
<1> USE DEF software, thread, terminal, latches, environment, opcode, response
<1> DEFINE i == current_instruction
<1>1. /\ cycle = "Return" /\ caller = "execute_instruction" /\ int_vector = NoByte
      /\ halt => i = "NOP"
      /\ i # "None"
  BY DEF ExecuteInstruction, Instruction, IInv, Position, Here, DecoderState, HaltState, HaltQuiet
<1>2. /\ cycle' = "CheckNmi" /\ caller' = "executor" /\ current_instruction' = "None"
      /\ halt' = (halt \/ i = "HALT") /\ interrupt_mode' = ModeAfter(i, interrupt_mode)
      /\ iff1' = Iff1After(i, iff1, iff2)
      /\ UNCHANGED <<response, latches, environment>>
  BY DEF ExecuteInstruction, At
<1>3. /\ frames' = CASE i = "NOP"             -> frames
                     [] i = "CALL"            -> Call(ReadHandler)
                     [] i \in {"RET", "RETN"} -> Tail(frames)
                     [] i = "INI" /\ B # 1    -> frames
                     [] OTHER                 -> Advance
      /\ B' = IF i = "INI" THEN (B + 255) % 256 ELSE B
      /\ UNCHANGED <<device, vector, driven, thread, terminal, typed>>
  BY <1>1 DEF Cpu, Decodes, ReadPort, WritePort, Executes, Samples, Enters, Internal
<1>4. Core /\ (InMain \/ InHandler) /\ i \in {Kind(Label), "NOP", "CALL"}
  BY <1>1 DEF SysInv, Core, Code
<1>5. ~Answering' /\ Running'
  BY <1>1, <1>2, <1>4 DEF Answering, Core, Running
<1>6. /\ i \notin {"IM0", "IM1", "IM2"} => interrupt_mode' = interrupt_mode
      /\ i = "IM2" => interrupt_mode' = 2
  BY <1>2 DEF ModeAfter
<1>7. i \in {"NOP", "IN", "INI", "OUT", "CALL"} => iff1' = iff1
  BY <1>2 DEF Iff1After
<1> HIDE DEF i
<1>8. CASE i = "NOP"
  <2>1. frames' = frames /\ B' = B /\ interrupt_mode' = interrupt_mode /\ iff1' = iff1
    BY <1>3, <1>6, <1>7, <1>8
  <2>2. halt' => halt
    BY <1>2, <1>8
  <2>3. device = "INT2" => int_vector' = NoByte /\ current_instruction' # "CALL"
    BY <1>1, <1>2
  <2>4. Core'
    <3>1. /\ UNCHANGED <<device, frames, thread, needs_len, in_buffer, typed, interrupt_mode>>
          /\ should_read' = should_read
      BY <1>3, <2>1
    <3>2. /\ caller' # "execute_instruction" /\ caller' # "nmi_acknowledge"
          /\ nmi_latch' => nmi_latch
          /\ int_latch' => int_latch
          /\ iff1' => iff1
      BY <1>2, <2>1
    <3>. QED
      BY <1>4, <1>5, <2>2, <2>3, <3>1, <3>2, Silent
  <2>5. Label' = Label /\ InMain' = InMain
    BY <1>3, <2>1, TopLabel DEF InMain, MainCode
  <2>6. Transfer => Transfer'
    <3>1. current_instruction # "IN" /\ cycle' # "Return"
      BY <1>2, <1>8 DEF i
    <3>. QED
      BY <1>3, <2>1, <2>5, <3>1 DEF Transfer
  <2>. QED
    BY <2>4, <2>5, <2>6
<1>9. CASE i = "CALL"
  <2>1. Answering
    BY <1>9 DEF Answering, i
  <2>2. InMain /\ in_buffer > 0 /\ (device # "INT2" => needs_len)
    BY <1>4, <2>1 DEF Core, Requests, Requesting
  <2>3. device # "INT2" /\ needs_len
    BY <1>4, <1>9, <2>2, NoVector DEF i
  <2>4. frames' = Call(ReadHandler) /\ B' = B /\ ~halt' /\ interrupt_mode' = interrupt_mode
    BY <1>1, <1>2, <1>3, <1>6, <1>9
  <2>5. cycle' # "Return" /\ caller' # "execute_instruction"
    BY <1>2
  <2>. QED
    BY <1>2, <1>3, <1>4, <1>5, <2>1, <2>2, <2>3, <2>4, <2>5, Entry
<1>10. CASE i = Kind(Label) /\ InMain
  <2>1. /\ Label \in MainCode /\ Advance = <<Advance[1]>> /\ Advance[1] \in Seq(MainCode)
        /\ Label # "HALT" => Advance = <<Tail(frames[1])>> /\ frames[1] # <<>>
    BY <1>10, InMainLabel
  <2>2. i \in {"IM0", "IM1", "IM2", "EI", "HALT", "OUT"}
    BY <1>10, <2>1, LabelKinds
  <2>3. frames' = Advance /\ B' = B
    BY <1>3, <2>2
  <2>4. InMain'
    <3>1. frames'[1] = Advance[1] /\ frames' = <<Advance[1]>>
      BY <2>1, <2>3
    <3>2. MainCode' = MainCode
      BY <1>3 DEF MainCode
    <3>. QED
      BY <2>1, <3>1, <3>2 DEF InMain
  <2>5. Label' \in MainCode
    <3>1. frames' = <<Advance[1]>> /\ Label' = Top(frames')
      BY <2>1, <2>3, TopLabel
    <3>. QED
      BY <2>1, <3>1, MainTop, LabelKinds
  <2>6. Transfer'
    BY <2>5, LabelKinds DEF Transfer
  <2>7. Mode2'
    <3> DEFINE Later == MainCode \ {"IM2"}
               m == frames[1]
    <3>1. frames = <<m>> /\ frames[Len(frames)] = m /\ Head(m) = Head(Head(frames))
      BY <1>10, Stacks DEF InMain
    <3>2. ASSUME m # <<>>
          PROVE  Label = Head(m) /\ frames' = <<Tail(m)>>
      <4>1. Head(frames) = m /\ Tail(frames) = <<>>
        BY <3>1, Stacks
      <4>2. Advance = <<Tail(m)>> \o <<>>
        BY <3>2, <4>1 DEF Advance
      <4>. QED
        BY <2>3, <3>2, <4>1, <4>2, Stacks DEF Label
    <3>3. ASSUME m = <<>> PROVE frames' = frames /\ Label = "HALT"
      BY <2>3, <3>1, <3>3, Stacks DEF Label, Advance
    <3>4. CASE frames = <<Main>> /\ device = "INT2"
      <4>1. m = <<"IM2", "EI", "REQ_READ", "HALT", "PRINT", "EI">>
        BY <3>1, <3>4, Stacks DEF Main
      <4>2. m # <<>> /\ Head(m) = "IM2"
        BY <4>1
      <4>3. frames' = <<Tail(m)>> /\ i = "IM2"
        BY <1>10, <3>2, <4>2, LabelKinds
      <4>4. MainCode \ {"IM2"} = {"EI", "REQ_READ", "HALT", "PRINT"} /\ MainCode' = MainCode
        BY <1>3, <3>4 DEF MainCode
      <4>5. Tail(m) \in Seq(MainCode \ {"IM2"})
        BY <4>1, <4>4
      <4>6. interrupt_mode' = 2 /\ frames'[Len(frames')] = Tail(m)
        BY <1>6, <4>3, Stacks
      <4>. QED
        BY <1>1, <1>2, <2>4, <4>4, <4>5, <4>6 DEF Mode2
    <3>5. CASE frames # <<Main>> /\ device = "INT2"
      <4>1. interrupt_mode = 2 /\ m \in Seq(MainCode \ {"IM2"}) /\ MainCode' = MainCode
        BY <1>3, <1>4, <3>1, <3>5 DEF Core, Mode2, MainCode
      <4>2. i \notin {"IM0", "IM1"}
        BY <1>10, <2>1, <3>5, LabelKinds
      <4>3. interrupt_mode' = 2
        BY <1>6, <4>1, <4>2
      <4>4. (m # <<>> /\ frames' = <<Tail(m)>>) \/ frames' = <<m>>
        BY <3>1, <3>2, <3>3
      <4>5. \E r \in Seq(MainCode \ {"IM2"}) : frames' = <<r>>
        <5>1. m # <<>> => Tail(m) \in Seq(MainCode \ {"IM2"})
          BY <4>1
        <5>. QED
          BY <4>1, <4>4, <5>1
      <4>6. frames'[Len(frames')] \in Seq(MainCode \ {"IM2"})
        BY <4>5, Stacks
      <4>. QED
        BY <1>1, <1>2, <2>4, <4>1, <4>3, <4>6 DEF Mode2
    <3>. QED
      BY <1>3, <3>4, <3>5 DEF Mode2
  <2>8. Core'
    BY <1>2, <1>3, <1>4, <1>5, <2>4, <2>7, Moves
  <2>. QED
    BY <2>4, <2>5, <2>6, <2>8, LabelKinds
<1>11. CASE i = Kind(Label) /\ InHandler
  <2>1. /\ Label \in {"IN", "INIR", "RETN", "RETI", "PRINT2"} /\ ~InMain
        /\ Tail(frames) = <<frames[2]>>
        /\ Label \in {"IN", "INIR", "PRINT2"} =>
              /\ Advance = <<Tail(frames[1]), frames[2]>>
              /\ Tail(frames[1]) \in HandlerRest
        /\ Label = "IN" => Top(Advance) = "INIR"
        /\ Label \in {"INIR", "PRINT2"} => Top(Advance) \in {"RETN", "RETI"}
    BY <1>11, InHandlerLabel
  <2>2. /\ Label = "IN" <=> i = "IN"
        /\ Label = "INIR" <=> i = "INI"
        /\ Label = "PRINT2" <=> i = "OUT"
        /\ Label \in {"RETN", "RETI"} <=> i \in {"RET", "RETN"}
        /\ i \in {"IN", "INI", "OUT", "RET", "RETN"}
    BY <1>11, <2>1, LabelKinds
  <2>3. /\ frames = <<frames[1], frames[2]>> /\ frames[1] \in HandlerRest
        /\ frames[2] \in Seq(MainCode) /\ ~Answering /\ in_buffer \in 1..255
        /\ ~halt' /\ interrupt_mode' = interrupt_mode
    <3>1. ~Answering /\ in_buffer \in 0..255 /\ in_buffer # 0
      BY <1>4, <2>1 DEF Core, Requests, Line
    <3>2. ~halt' /\ interrupt_mode' = interrupt_mode
      BY <1>1, <1>2, <1>6, <2>2
    <3>. QED
      BY <1>11, <3>1, <3>2 DEF InHandler
  <2> DEFINE h == frames[1]
             m == frames[2]
  <2> HIDE DEF h, m
  <2>4. device = "INT2" => interrupt_mode = 2 /\ m \in Seq(MainCode \ {"IM2"}) /\ ~iff1
    <3>1. frames = <<h, m>>
      BY <2>3 DEF h, m
    <3>2. Len(frames) = 2 /\ frames # <<Main>>
      BY <3>1, Stacks
    <3>. QED
      BY <1>4, <2>1, <3>1, <3>2 DEF Core, Mode2
  <2>5. ASSUME \/ frames' = <<m>>
               \/ i \in {"IN", "INI", "OUT"} /\ (\E r \in HandlerRest : frames' = <<r, m>>)
        PROVE  Mode2' /\ (InMain' \/ InHandler')
    <3>1. MainCode' = MainCode /\ frames'[Len(frames')] = m /\ m \in Seq(MainCode)
      <4>1. MainCode' = MainCode /\ m \in Seq(MainCode)
        BY <1>3, <2>3 DEF MainCode, m
      <4>2. \A r : <<m>>[Len(<<m>>)] = m /\ <<r, m>>[Len(<<r, m>>)] = m
        BY Stacks
      <4>. QED
        BY <2>5, <4>1, <4>2
    <3>2. CASE frames' = <<m>>
      <4>1. InMain'
        BY <3>1, <3>2 DEF InMain
      <4>. QED
        BY <1>1, <1>2, <1>3, <2>3, <2>4, <3>1, <4>1 DEF Mode2
    <3>3. CASE i \in {"IN", "INI", "OUT"} /\ (\E r \in HandlerRest : frames' = <<r, m>>)
      <4>1. InHandler'
        BY <3>1, <3>3 DEF InHandler
      <4>2. iff1' = iff1
        BY <1>7, <3>3
      <4>3. device = "INT2" => ~iff1'
        BY <2>4, <4>2, Zenon
      <4>4. device = "INT2" => int_vector' = NoByte /\ current_instruction' # "CALL"
        BY <1>1, <1>2
      <4>5. device = "INT2" => /\ interrupt_mode' = 2
                               /\ frames'[Len(frames')] \in Seq(MainCode' \ {"IM2"})
        BY <2>3, <2>4, <3>1
      <4>6. device' = device
        BY <1>3
      <4>. QED
        BY <4>1, <4>3, <4>4, <4>5, <4>6 DEF Mode2
    <3>. QED
      BY <2>5, <3>2, <3>3
  <2>6. CASE i \in {"RET", "RETN"}
    <3>1. frames' = <<m>> /\ B' = B
      BY <1>3, <2>1, <2>6 DEF m
    <3>2. Label' = Top(<<m>>) /\ m \in Seq(MainCode)
      BY <2>3, <3>1, TopLabel DEF m
    <3>3. Label' \in MainCode
      BY <3>2, MainTop, LabelKinds
    <3>4. Transfer'
      BY <3>3, LabelKinds DEF Transfer
    <3>5. Core'
      BY <1>2, <1>3, <1>4, <1>5, <2>1, <2>3, <2>5, <3>1, Moves
    <3>. QED
      BY <2>1, <3>3, <3>4, <3>5, LabelKinds
  <2>7. CASE i = "INI" /\ B # 1
    <3>1. frames' = frames /\ frames = <<h, m>> /\ h \in HandlerRest
      BY <1>3, <2>3, <2>7 DEF h, m
    <3>2. Transfer => B \in 1..in_buffer /\ ~needs_len
      BY <2>2, <2>7 DEF Transfer
    <3>3. ASSUME Transfer PROVE B' \in 1..in_buffer
      <4>1. in_buffer \in 1..255 /\ B # 1
        BY <2>3, <2>7
      <4>2. B \in 2..255 /\ B <= in_buffer
        BY <3>2, <3>3, <4>1
      <4>3. (B + 255) % 256 = B - 1
        BY <4>2
      <4>4. B' = B - 1
        BY <1>3, <2>7, <4>3
      <4>. QED
        BY <4>1, <4>2, <4>4
    <3>4. Label' = Label /\ Label = "INIR"
      BY <2>2, <2>7, <3>1, TopLabel
    <3>5. Transfer => Transfer'
      BY <1>3, <3>2, <3>3, <3>4 DEF Transfer
    <3>6. Core'
      BY <1>2, <1>3, <1>4, <1>5, <2>1, <2>3, <2>5, <2>7, <3>1, Moves
    <3>. QED
      BY <2>1, <3>4, <3>5, <3>6
  <2>8. CASE i \in {"IN", "OUT"} \/ (i = "INI" /\ B = 1)
    <3>1. /\ frames' = Advance /\ Advance = <<Tail(h), m>> /\ Tail(h) \in HandlerRest
          /\ i # "INI" => B' = B
      BY <1>3, <2>1, <2>2, <2>8 DEF h, m
    <3>2. Label' = Top(Advance)
      BY <3>1, TopLabel
    <3>3. Core'
      BY <1>2, <1>3, <1>4, <1>5, <2>1, <2>2, <2>3, <2>5, <2>8, <3>1, Moves
    <3>4. CASE i = "IN"
      <4>1. /\ Label = "IN" /\ cycle = "Return" /\ current_instruction = "IN"
            /\ Label' = "INIR" /\ B' = B
        BY <1>1, <2>1, <2>2, <3>1, <3>2, <3>4 DEF i
      <4>2. Transfer => ~needs_len /\ B = in_buffer
        BY <4>1 DEF Transfer
      <4>3. in_buffer \in 1..255 /\ in_buffer' = in_buffer /\ needs_len' = needs_len
        BY <1>3, <2>3
      <4>4. Transfer => Transfer'
        BY <4>1, <4>2, <4>3 DEF Transfer
      <4>. QED
        BY <2>1, <3>3, <4>1, <4>4
    <3>5. CASE i # "IN"
      <4>1. Label' \in {"RETN", "RETI"}
        BY <2>1, <2>2, <2>8, <3>2, <3>5
      <4>2. Transfer'
        BY <4>1 DEF Transfer
      <4>. QED
        BY <2>1, <3>3, <4>1, <4>2
    <3>. QED
      BY <3>4, <3>5
  <2>. QED
    BY <2>2, <2>6, <2>7, <2>8
<1>. QED
  BY <1>4, <1>8, <1>9, <1>10, <1>11

LEMMA ExecuteInstructionSysInv ==
    ASSUME IInv, SysInv, Cpu, ExecuteInstruction PROVE SysInv'
<1> USE DEF software, thread, terminal, latches, environment, opcode, response
<1>1. /\ cycle = "Return" /\ caller = "execute_instruction" /\ int_vector = NoByte
      /\ current_instruction # "None"
      /\ current_instruction = "HALT" => step = 1
  <2>1. /\ cycle = "Return" /\ caller = "execute_instruction" /\ int_vector = NoByte
        /\ current_instruction \in Instruction /\ step > 0
    BY DEF ExecuteInstruction, IInv, Position, Here, DecoderState, BusCycle
  <2>2. current_instruction = "HALT" => Plan = <<>>
    BY <2>1 DEF Plan, Cycles
  <2>3. current_instruction = "HALT" => step = 1
    BY <2>1, <2>2 DEF IInv, PlanFollowed
  <2>. QED
    BY <2>1, <2>3 DEF Instruction
<1>2. /\ cycle' = "CheckNmi" /\ caller' = "executor" /\ current_instruction' = "None"
      /\ halt' = (halt \/ current_instruction = "HALT")
      /\ UNCHANGED <<pins, data_bus, response, latches, should_cycle, environment>>
  BY DEF ExecuteInstruction, At
<1>3. UNCHANGED <<device, vector, driven, thread, terminal, typed>>
  BY <1>1, <1>2 DEF Cpu, Decodes, ReadPort, WritePort, Executes, Samples, Enters, Internal
<1>4. Iorq'
  BY <1>1, <1>2 DEF SysInv, Core, Iorq
<1>5. /\ Core' /\ (Transfer => Transfer')
      /\ InMain /\ ~Answering => InMain'
      /\ device = "INT2" /\ Label' = "IN" => Label = "IN"
  BY <1>4, ExecuteCore
<1>6. /\ Latched' = Latched /\ ~Answering' /\ Listening' = Listening
      /\ Patient' = Patient /\ Watching' = Watching
  BY <1>1, <1>2, <1>3, SameDevice DEF Latched, Answering, Listening
<1>7. Single => Single'
  BY <1>3, <1>5, <1>6 DEF Single, Requesting
<1>8. FromHalt => FromHalt'
  BY <1>2, <1>3 DEF FromHalt
<1>9. Attentive => Attentive'
  BY <1>1, <1>2, <1>3, <1>6 DEF Attentive
<1>10. device = "INT0" => Script'
  BY ExecuteScript
<1>11. OnTheBus => OnTheBus'
  BY <1>1, <1>2, <1>3, <1>6 DEF OnTheBus
<1>12. device = "INT2" /\ Second => Second'
  <2>1. device = "INT2" /\ Served' => Served
    BY <1>1, <1>2, <1>3, <1>5 DEF Served
  <2>2. cycle' # "IntAck" /\ caller' # "int_acknowledge"
    BY <1>2
  <2>3. Second /\ dev' = "signal" /\ Latched' => round' = 2
    BY <1>3, <1>6 DEF Second
  <2>. QED
    BY <1>2, <1>3, <1>6, <2>1, <2>2, <2>3 DEF Second
<1>. QED
  BY <1>3, <1>5, <1>6, <1>7, <1>8, <1>9, <1>10, <1>11, <1>12 DEF SysInv, Timing

\* The CPU of this system is never reset, granted away or stopped.
LEMMA CpuSysInv == ASSUME IInv, SysInv, Cpu PROVE SysInv'
<1>1. ~ResetClock /\ ~BusAckClock /\ ~BusAckPoll /\ ~ExitProcess
  BY DEF SysInv, Core, Running, ResetClock, BusAckClock, BusAckPoll, ExitProcess
<1>2. CpuStep
  BY DEF Cpu
<1>. QED
  BY <1>1, <1>2, ExecutorLoopSysInv, HaltClockSysInv, FirstClockSysInv, FetchClockSysInv,
     BusClockSysInv, IntAckClockSysInv, ExecuteInstructionSysInv, EnterHandlerSysInv,
     CheckNmiSysInv, CheckIntSysInv DEF CpuStep

-----------------------------------------------------------------------------
(* The device thread, the clock and the user.                              *)

\* A step of another thread moves neither the CPU nor its program.
LEMMA Outside ==
    ASSUME SysInv, UNCHANGED <<cpu, environment, device, frames>>
    PROVE  /\ Running' /\ Code' /\ Iorq'
           /\ Label' = Label /\ InMain' = InMain /\ Answering' = Answering
           /\ Main' = Main /\ MainCode' = MainCode
           /\ Patient' = Patient /\ Watching' = Watching
<1> USE DEF cpu, place, opcode, response, environment
<1>1. Label' = Label /\ InMain' = InMain /\ InHandler' = InHandler /\ Answering' = Answering
  BY TopLabel DEF InMain, InHandler, MainCode, Answering
<1>2. Running' /\ Code' /\ Iorq'
  BY <1>1 DEF SysInv, Core, Running, Code, Kind, Iorq
<1>3. Main' = Main /\ MainCode' = MainCode
  BY DEF Main, MainCode
<1>. QED
  BY <1>1, <1>2, <1>3, SameDevice

\* Where the CPU is while it acknowledges, and when it does so halted.
LEMMA Acknowledge ==
    ASSUME IInv, Core
    PROVE  /\ cycle = "IntAck" => caller = "int_acknowledge" /\ step = 0 /\ Answering
           /\ caller = "int_acknowledge" /\ halt => cycle = "IntAck" /\ t = 1
<1>1. cycle # "BusAck"
  BY DEF Core, Running
<1>2. cycle = "IntAck" => caller = "int_acknowledge" /\ step = 0
  BY <1>1 DEF IInv, Position, Here
<1>3. caller = "int_acknowledge" => cycle \in BusCycle \cup {"Return", "IntAck"}
  BY <1>1 DEF IInv, TypeOK, PlaceType, Position, Here, MCycle
<1>4. cycle \in BusCycle \cup {"Return"} => step > 0
  BY <1>1 DEF IInv, Position, Here, BusCycle
<1>5. halt => caller # "int_acknowledge" \/ (~(step > 0) /\ (cycle = "IntAck" => ~(t > 1)))
  BY DEF IInv, MaskState
<1>6. cycle = "IntAck" /\ ~(t > 1) => t = 1
  BY <1>1 DEF IInv, TypeOK, PlaceType
<1>. QED
  BY <1>2, <1>3, <1>4, <1>5, <1>6 DEF Answering

LEMMA PollSysInv == ASSUME SysInv, Poll PROVE SysInv'
<1> USE DEF SysInv, vars, cpu, place, opcode, outputs, mask, response, latches, environment, software, terminal
<1>1. /\ dev = "poll" /\ dev' = "getline" /\ should_read /\ round' = round
      /\ UNCHANGED <<vars, device, software, terminal, typed>>
  BY DEF Poll, Go
<1> USE <1>1
<1>2. UNCHANGED <<cpu, environment, device, frames>>
  OBVIOUS
<1>3. /\ Running' /\ Code' /\ Iorq'
      /\ Label' = Label /\ InMain' = InMain /\ Answering' = Answering
      /\ Main' = Main /\ MainCode' = MainCode
      /\ Patient' = Patient /\ Watching' = Watching
  BY <1>2, Outside
<1>4. Requests' /\ Line'
  BY <1>3 DEF Core, Requests, Line, Requesting, Latched
<1>5. Mode2'
  BY <1>3 DEF Core, Mode2
<1>6. /\ Single => Single'
      /\ FromHalt => FromHalt'
      /\ Attentive => Attentive'
      /\ OnTheBus => OnTheBus'
  BY <1>3 DEF Single, FromHalt, Attentive, OnTheBus, Listening, Requesting, Latched
<1>7. Script => Script'
  BY <1>3 DEF Script, Unanswered, Kind
<1>8. Second => Second'
  BY <1>3 DEF Second, Served, Listening, Latched
<1>9. Transfer => Transfer'
  BY <1>3 DEF Transfer
<1>. QED
  BY <1>3, <1>4, <1>5, <1>6, <1>7, <1>8, <1>9 DEF Core, Timing

\* The line is there: the only request is about to be made.
LEMMA GetLineSysInv == ASSUME IInv, SysInv, GetLine PROVE SysInv'
<1> USE DEF SysInv, vars, cpu, place, opcode, outputs, mask, response, latches, environment, software, terminal
<1>1. /\ dev = "getline" /\ dev' = "signal" /\ typed /\ typed' = FALSE /\ round' = round
      /\ in_buffer' \in 1..255 /\ needs_len' = TRUE
      /\ UNCHANGED <<vars, device, software, should_read>>
  BY LengthAssumption DEF GetLine, Go
<1>2. in_buffer = 0 /\ InMain /\ ~Requesting /\ ~Latched /\ ~Answering
  BY <1>1 DEF Core, Line, Requesting
<1>3. /\ Running' /\ Code' /\ Iorq'
      /\ Label' = Label /\ InMain' = InMain /\ Answering' = Answering
      /\ Main' = Main /\ MainCode' = MainCode
      /\ Patient' = Patient /\ Watching' = Watching
  BY <1>1, Outside
<1>4. Latched' = Latched /\ ~int_latch /\ in_buffer' # 0
      /\ caller # "int_acknowledge" /\ cycle # "IntAck"
  BY <1>1, <1>2, Acknowledge DEF Core, Latched, Answering
<1>5. Label \notin {"IN", "INIR"}
  BY <1>2, InMainLabel, LabelKinds
<1>6. Requests' /\ Line'
  BY <1>1, <1>2, <1>3, <1>4 DEF Core, Requests, Line, Latched
<1>7. Mode2'
  BY <1>1, <1>3 DEF Core, Mode2
<1>8. Single' /\ (FromHalt => FromHalt') /\ Attentive' /\ OnTheBus'
  BY <1>1, <1>2, <1>3, <1>4 DEF Single, FromHalt, Attentive, OnTheBus, Listening
<1>9. Script => Script'
  BY <1>1, <1>2, <1>3 DEF Script, Unanswered, Kind
<1>10. Second'
  BY <1>1, <1>2, <1>3, <1>4, <1>5 DEF Second, Served
<1>11. Transfer'
  BY <1>3, <1>5 DEF Transfer
<1>. QED
  BY <1>1, <1>3, <1>6, <1>7, <1>8, <1>9, <1>10, <1>11 DEF Core, Timing

LEMMA SignalSysInv == ASSUME IInv, SysInv, Signal PROVE SysInv'
<1> USE DEF SysInv, vars, cpu, place, opcode, outputs, mask, response, latches, environment, software, terminal
<1>1. /\ dev = "signal" /\ dev' = IF device \in {"NMI", "INT1"} THEN "done" ELSE "iorq"
      /\ IF device = "NMI" THEN nmi_latch' = TRUE /\ UNCHANGED int_latch
                           ELSE int_latch' = TRUE /\ UNCHANGED nmi_latch
      /\ UNCHANGED <<cpu, data_bus, should_cycle, environment, device, round, software, terminal, typed>>
  BY DEF Signal, Go, signal_nmi, signal_int
<1>2. /\ Requesting /\ in_buffer > 0 /\ in_buffer # 0 /\ (device # "INT2" => needs_len)
      /\ typed = FALSE
      /\ device \in {"NMI", "INT0", "INT1", "INT2"}
  BY <1>1, DeviceAssumption DEF Core, Requests, Requesting, Line, IInv, TypeOK
<1>3. /\ Running' /\ Code' /\ Iorq'
      /\ Label' = Label /\ InMain' = InMain /\ Answering' = Answering
      /\ Main' = Main /\ MainCode' = MainCode
      /\ Patient' = Patient /\ Watching' = Watching
  BY <1>1, Outside
<1>4. cycle = "IntAck" => caller = "int_acknowledge" /\ step = 0 /\ Answering
  BY Acknowledge DEF Core
<1>5. Requests'
  BY <1>1, <1>2, <1>3 DEF Core, Requests, Requesting
<1>6. Line'
  BY <1>1, <1>2, <1>3 DEF Core, Line
<1>7. Mode2'
  BY <1>1, <1>3 DEF Core, Mode2
<1>8. Single => ~Latched /\ ~Answering /\ InMain
  BY <1>1 DEF Single, Requesting
<1>9. Single => Single'
  BY <1>1, <1>3, <1>8 DEF Single
<1>10. device = "INT2" /\ Single /\ FromHalt => FromHalt'
  BY <1>1, <1>2, <1>3, <1>4, <1>8 DEF FromHalt
<1>11. Attentive => (Answering => cycle = "IntAck" /\ (t = 1 \/ (t = 2 /\ ~should_cycle)))
  BY <1>1 DEF Attentive
<1>12. device \in {"INT0", "INT2"} => Listening' /\ int_latch' = TRUE /\ dev' = "iorq"
  BY <1>1 DEF Listening
<1>13. device \in {"INT0", "INT2"} /\ Attentive => Attentive'
  BY <1>1, <1>3, <1>4, <1>11, <1>12 DEF Attentive
<1>14. Script => Script'
  BY <1>1, <1>3 DEF Script, Unanswered, Kind
<1>15. device \in {"INT0", "INT2"} => OnTheBus'
  BY <1>12 DEF OnTheBus
<1>16. device = "INT2" /\ Attentive /\ Second => Second'
  <2>1. SUFFICES ASSUME device = "INT2", Attentive, Second PROVE Second'
    OBVIOUS
  <2>2. Served' = Served
    BY <1>1, <1>3 DEF Served
  <2>3. Answering => round = 2 /\ cycle = "IntAck"
    BY <1>1, <1>11, <2>1 DEF Second
  <2>4. Served => round = 2 /\ halt /\ ~Answering
    BY <1>1, <2>1 DEF Second
  <2>5. caller = "int_acknowledge" /\ step > 0 => FALSE
    BY <1>4, <2>3 DEF Answering
  <2>. QED
    BY <1>1, <1>3, <1>4, <1>12, <2>1, <2>2, <2>3, <2>4, <2>5 DEF Second
<1>17. Transfer => Transfer'
  BY <1>1, <1>3 DEF Transfer
<1>18. Watching => device \in {"INT0", "INT2"}
  BY DEF Watching
<1>. QED
  BY <1>1, <1>3, <1>5, <1>6, <1>7, <1>9, <1>10, <1>13, <1>14, <1>15, <1>16, <1>17, <1>18
     DEF Core, Timing

LEMMA SeeIorqSysInv == ASSUME IInv, SysInv, SeeIorq PROVE SysInv'
<1> USE DEF SysInv, vars, cpu, place, opcode, outputs, mask, response, latches, environment, software, terminal
<1>1. /\ dev = "iorq" /\ dev' = "m1" /\ "iorq" \in pins /\ round' = round
      /\ UNCHANGED <<vars, device, software, terminal, typed>>
  BY DEF SeeIorq, Go
<1>2. ~halt
  BY <1>1 DEF Core, Iorq
<1>3. /\ Running' /\ Code' /\ Iorq'
      /\ Label' = Label /\ InMain' = InMain /\ Answering' = Answering
      /\ Main' = Main /\ MainCode' = MainCode
      /\ Patient' = Patient /\ Watching' = Watching
  BY <1>1, Outside
<1>4. Listening' = Listening /\ Listening /\ Latched' = Latched
  BY <1>1 DEF Listening, Latched
<1>5. Requests' /\ Line' /\ Mode2'
  BY <1>1, <1>3, <1>4 DEF Core, Requests, Line, Mode2, Requesting
<1>6. Single => Single'
  BY <1>1, <1>3, <1>4 DEF Single, Requesting
<1>7. FromHalt => FromHalt'
  BY <1>1, <1>2 DEF FromHalt
<1>8. Attentive => Attentive'
  BY <1>1, <1>3, <1>4 DEF Attentive
<1>9. Script => Script'
  BY <1>1, <1>3 DEF Script, Unanswered, Kind
<1>10. OnTheBus'
  BY <1>4 DEF OnTheBus
<1>11. Second => Second'
  <2>1. Served' = Served
    BY <1>1, <1>3 DEF Served
  <2>. QED
    BY <1>1, <1>2, <1>3, <1>4, <2>1 DEF Second
<1>12. Transfer => Transfer'
  BY <1>1, <1>3 DEF Transfer
<1>. QED
  BY <1>1, <1>3, <1>5, <1>6, <1>7, <1>8, <1>9, <1>10, <1>11, <1>12 DEF Core, Timing

LEMMA SeeM1SysInv == ASSUME IInv, SysInv, SeeM1 PROVE SysInv'
<1> USE DEF SysInv, vars, cpu, place, opcode, outputs, mask, response, latches, environment, software, terminal
<1>1. /\ dev = "m1" /\ dev' \in {"drive", "iorq"} /\ round' = round
      /\ UNCHANGED <<vars, device, software, terminal, typed>>
  BY DEF SeeM1, Go
<1>2. /\ Running' /\ Code' /\ Iorq'
      /\ Label' = Label /\ InMain' = InMain /\ Answering' = Answering
      /\ Main' = Main /\ MainCode' = MainCode
      /\ Patient' = Patient /\ Watching' = Watching
  BY <1>1, Outside
<1>3. Listening' = Listening /\ Listening /\ Latched' = Latched
  BY <1>1 DEF Listening, Latched
<1>4. Requests' /\ Line' /\ Mode2'
  BY <1>1, <1>2, <1>3 DEF Core, Requests, Line, Mode2, Requesting
<1>5. Single => Single'
  BY <1>1, <1>2, <1>3 DEF Single, Requesting
<1>6. FromHalt => FromHalt'
  BY <1>1 DEF FromHalt
<1>7. Attentive => Attentive'
  BY <1>1, <1>2, <1>3 DEF Attentive
<1>8. Script => Script'
  BY <1>1, <1>2 DEF Script, Unanswered, Kind
<1>9. OnTheBus'
  BY <1>3 DEF OnTheBus
<1>10. Second => Second'
  <2>1. Served' = Served
    BY <1>1, <1>2 DEF Served
  <2>. QED
    BY <1>1, <1>2, <1>3, <2>1 DEF Second
<1>11. Transfer => Transfer'
  BY <1>1, <1>2 DEF Transfer
<1>. QED
  BY <1>1, <1>2, <1>4, <1>5, <1>6, <1>7, <1>8, <1>9, <1>10, <1>11 DEF Core, Timing

\* Once the line has been served the vector that is driven is the second one.
LEMMA DriveSysInv == ASSUME IInv, SysInv, Drive PROVE SysInv'
<1> USE DEF SysInv, vars, cpu, place, opcode, outputs, mask, response, latches, environment, software, terminal
<1>1. /\ dev = "drive" /\ round' = round /\ data_bus' = Vector /\ driven' = Vector
      /\ dev' = IF device = "INT2" /\ round = 1 THEN "wait_halt" ELSE "done"
      /\ UNCHANGED <<cpu, latches, should_cycle, environment, device, frames, B, vector,
                     terminal, typed>>
  BY DEF Drive, Go, DriveDataBus
<1>2. /\ Running' /\ Code' /\ Iorq'
      /\ Label' = Label /\ InMain' = InMain /\ Answering' = Answering
      /\ Main' = Main /\ MainCode' = MainCode
      /\ Patient' = Patient /\ Watching' = Watching
  BY <1>1, Outside
<1>3. Listening /\ ~Listening' /\ dev' # "signal" /\ dev' # "poll" /\ Latched' = Latched
  BY <1>1 DEF Listening, Latched
<1>4. Requests' /\ Line' /\ Mode2'
  BY <1>1, <1>2, <1>3 DEF Core, Requests, Line, Mode2, Requesting
<1>5. Single => Single'
  BY <1>1, <1>2, <1>3 DEF Single, Requesting
<1>6. FromHalt => FromHalt'
  BY <1>1, <1>3 DEF FromHalt
<1>7. Attentive'
  BY <1>3 DEF Attentive
<1>8. Script => Script'
  BY <1>1, <1>2, <1>3 DEF Script, Unanswered, Kind
<1>9. OnTheBus'
  BY <1>1 DEF OnTheBus
<1>10. device = "INT2" /\ Second => Second'
  <2>1. SUFFICES ASSUME device = "INT2", Second PROVE Second'
    OBVIOUS
  <2>2. Served' = Served
    BY <1>1, <1>2 DEF Served
  <2>3. round = 2 => data_bus' = 2 /\ dev' # "wait_halt"
    BY <1>1, <2>1 DEF Vector
  <2>. QED
    BY <1>1, <1>2, <1>3, <2>1, <2>2, <2>3 DEF Second
<1>11. Transfer => Transfer'
  BY <1>1, <1>2 DEF Transfer
<1>. QED
  BY <1>1, <1>2, <1>4, <1>5, <1>6, <1>7, <1>8, <1>9, <1>10, <1>11 DEF Core, Timing

\* The second request is made of a CPU that is halted; if the first one has not
\* been answered then, nothing has been served.
LEMMA WaitHaltSysInv == ASSUME IInv, SysInv, WaitHalt PROVE SysInv'
<1> USE DEF SysInv, vars, cpu, place, opcode, outputs, mask, response, latches, environment, software, terminal
<1>1. /\ dev = "wait_halt" /\ dev' = "signal" /\ halt /\ round' = 2
      /\ UNCHANGED <<vars, device, software, terminal, typed>>
  BY DEF WaitHalt
<1>2. device = "INT2" /\ InMain /\ in_buffer > 0 /\ in_buffer # 0 /\ ~typed
  BY <1>1 DEF Core, Code, Line
<1>3. nmi_latch = FALSE /\ (Answering => cycle = "IntAck" /\ t = 1)
  <2>1. ~nmi_latch /\ caller # "nmi_acknowledge" /\ int_vector = NoByte
        /\ current_instruction # "CALL"
    BY <1>2 DEF Core, Requests, Mode2
  <2>2. caller = "int_acknowledge" => cycle = "IntAck" /\ t = 1
    BY <1>1, Acknowledge DEF Core
  <2>3. nmi_latch \in BOOLEAN
    BY DEF IInv, TypeOK, FlagType
  <2>. QED
    BY <2>1, <2>2, <2>3 DEF Answering
<1>4. /\ Running' /\ Code' /\ Iorq'
      /\ Label' = Label /\ InMain' = InMain /\ Answering' = Answering
      /\ Main' = Main /\ MainCode' = MainCode
      /\ Patient' = Patient /\ Watching' = Watching
  BY <1>1, Outside
<1>5. ~Listening /\ ~Listening' /\ Latched' = Latched
  BY <1>1 DEF Listening, Latched
<1>6. Requests' /\ Line' /\ Mode2'
  BY <1>1, <1>2, <1>4, <1>5 DEF Core, Requests, Line, Mode2, Requesting
<1>7. FromHalt => ~Latched /\ ~Answering
  BY <1>1, <1>3 DEF FromHalt, Latched
<1>8. FromHalt => Single'
  BY <1>1, <1>2, <1>4, <1>5, <1>7 DEF Single
<1>9. FromHalt => FromHalt'
  BY <1>1, <1>2, <1>3, <1>7, Acknowledge DEF FromHalt, Latched, Core
<1>10. Attentive'
  BY <1>1, <1>3, <1>4, <1>5 DEF Attentive
<1>11. OnTheBus => OnTheBus'
  BY <1>1, <1>5 DEF OnTheBus
<1>12. Second => Second'
  <2>1. SUFFICES ASSUME Second PROVE Second'
    OBVIOUS
  <2>2. Served' = Served
    BY <1>1, <1>4 DEF Served
  <2>3. Served => ~int_latch /\ ~Answering
    BY <1>1, <1>3, <1>5, <2>1 DEF Second
  <2>4. cycle = "IntAck" => Answering
    BY Acknowledge DEF Core
  <2>. QED
    BY <1>1, <1>4, <1>5, <2>1, <2>2, <2>3, <2>4 DEF Second
<1>13. Transfer => Transfer'
  BY <1>1, <1>4 DEF Transfer
<1>. QED
  BY <1>1, <1>2, <1>4, <1>6, <1>8, <1>9, <1>10, <1>11, <1>12, <1>13 DEF Core, Timing

LEMMA DoneSysInv == ASSUME IInv, SysInv, Done PROVE SysInv'
<1> USE DEF SysInv, vars, cpu, place, opcode, outputs, mask, response, latches, environment, software
<1>1. /\ dev = "done" /\ dev' = "poll" /\ round' = 1 /\ should_read' = FALSE
      /\ UNCHANGED <<vars, device, software, needs_len, in_buffer, typed>>
  BY DEF Done
<1>2. in_buffer # 0 /\ InMain' = InMain
  BY <1>1 DEF Core, Line, InMain, MainCode
<1>3. /\ Running' /\ Code' /\ Iorq'
      /\ Label' = Label /\ InMain' = InMain /\ Answering' = Answering
      /\ Main' = Main /\ MainCode' = MainCode
      /\ Patient' = Patient /\ Watching' = Watching
  BY <1>1, Outside
<1>4. ~Listening /\ ~Listening' /\ Latched' = Latched
  BY <1>1 DEF Listening, Latched
<1>5. Requests' /\ Line' /\ Mode2'
  BY <1>1, <1>2, <1>3, <1>4 DEF Core, Requests, Line, Mode2, Requesting
<1>6. Single => Single'
  BY <1>1, <1>3, <1>4 DEF Single, Requesting
<1>7. FromHalt => FromHalt'
  BY <1>1 DEF FromHalt
<1>8. Attentive'
  BY <1>1, <1>4 DEF Attentive
<1>9. Script => Script'
  BY <1>1, <1>2, <1>3 DEF Script, Unanswered, Kind
<1>10. OnTheBus => OnTheBus'
  BY <1>1, <1>4 DEF OnTheBus
<1>11. Second => Second'
  <2>1. Served' = Served
    BY <1>1, <1>3 DEF Served
  <2>. QED
    BY <1>1, <1>3, <1>4, <2>1 DEF Second
<1>12. Transfer => Transfer'
  BY <1>1, <1>3 DEF Transfer
<1>. QED
  BY <1>1, <1>3, <1>5, <1>6, <1>7, <1>8, <1>9, <1>10, <1>11, <1>12 DEF Core, Timing

\* What the invariant says of a tick and of a step that changes nothing.
LEMMA Resting ==
    ASSUME SysInv, UNCHANGED <<cpu, data_bus, latches, environment>>,
           UNCHANGED <<device, software, thread, terminal>>,
           Line', Watching => Attentive', Patient /\ device = "INT2" => FromHalt'
    PROVE  SysInv'
<1> USE DEF SysInv, cpu, place, opcode, mask, response, latches, environment, software, thread, terminal
<1>1. /\ Running' /\ Code' /\ Iorq'
      /\ Label' = Label /\ InMain' = InMain /\ Answering' = Answering
      /\ Main' = Main /\ MainCode' = MainCode
      /\ Patient' = Patient /\ Watching' = Watching
  BY Outside
<1>2. Listening' = Listening /\ Latched' = Latched
  BY DEF Listening, Latched
<1>3. Requests' /\ Mode2'
  BY <1>1, <1>2 DEF Core, Requests, Mode2, Requesting
<1>4. /\ Single => Single'
      /\ Script => Script'
      /\ OnTheBus => OnTheBus'
  <2>1. Single => Single'
    BY <1>1, <1>2 DEF Single, Requesting
  <2>2. Script => Script'
    BY <1>1 DEF Script, Unanswered, Kind
  <2>3. OnTheBus => OnTheBus'
    BY <1>2 DEF OnTheBus
  <2>. QED
    BY <2>1, <2>2, <2>3
<1>5. Second => Second'
  <2>1. Served' = Served
    BY <1>1 DEF Served
  <2>. QED
    BY <1>1, <1>2, <2>1 DEF Second
<1>6. Transfer => Transfer'
  BY <1>1 DEF Transfer
<1>. QED
  BY <1>1, <1>3, <1>4, <1>5, <1>6 DEF Core, Timing

\* Main's clock does not tick before a prompt thread has done all it can.
LEMMA ClockSysInv == ASSUME IInv, SysInv, Clock PROVE SysInv'
<1> USE DEF cpu, place, opcode, response, latches, environment, software, thread, terminal
<1>1. /\ UNCHANGED <<cpu, data_bus, latches, environment>>
      /\ UNCHANGED <<device, software, thread, terminal, typed>>
  BY DEF Clock, cycle_clock
<1>2. Answering' = Answering /\ Listening' = Listening /\ Latched' = Latched /\ InMain' = InMain
  BY <1>1 DEF Answering, Listening, Latched, InMain, MainCode
<1>3. Line'
  BY <1>1, <1>2 DEF SysInv, Core, Line, Requesting
<1>4. ASSUME Watching PROVE Attentive'
  <2>1. Attentive /\ (cycle = "IntAck" /\ t >= 4 => "iorq" \in pins)
    BY <1>4 DEF SysInv, Core, Timing, Iorq
  <2>2. ~Busy
    BY <1>4 DEF Clock, Watching
  <2>3. dev \notin {"signal", "m1", "drive"} /\ (dev = "iorq" => "iorq" \notin pins)
    BY <2>2 DEF Busy
  <2>4. Listening => cycle # "IntAck" \/ t <= 3
    <3>1. Listening /\ cycle = "IntAck" => t <= 3 \/ t = 4
      BY <2>1 DEF Attentive
    <3>. QED
      BY <2>1, <2>3, <3>1 DEF Listening
  <2>. QED
    BY <1>1, <1>2, <2>1, <2>3, <2>4 DEF Attentive
<1>5. Patient /\ device = "INT2" => FromHalt'
  BY <1>1 DEF SysInv, Timing, FromHalt
<1>. QED
  BY <1>1, <1>3, <1>4, <1>5, Resting

LEMMA TypeSysInv == ASSUME IInv, SysInv, Type PROVE SysInv'
<1> USE DEF vars, cpu, place, opcode, outputs, response, latches, environment, software, thread, terminal
<1>1. /\ in_buffer = 0 /\ (PatientInput => halt) /\ typed' = TRUE
      /\ UNCHANGED <<vars, device, software, thread, terminal>>
  BY DEF Type
<1>2. Answering' = Answering /\ Listening' = Listening /\ Latched' = Latched /\ InMain' = InMain
  BY <1>1 DEF Answering, Listening, Latched, InMain, MainCode
<1>3. Line'
  BY <1>1, <1>2 DEF SysInv, Core, Line, Requesting
<1>4. Watching => Attentive'
  BY <1>1, <1>2 DEF SysInv, Timing, Attentive
<1>5. Patient /\ device = "INT2" => FromHalt'
  BY <1>1 DEF SysInv, Timing, FromHalt, Patient
<1>. QED
  BY <1>1, <1>3, <1>4, <1>5, Resting

-----------------------------------------------------------------------------
(* The theorems.                                                           *)

LEMMA NextSysInv ==
    ASSUME IInv, SysInv, [SystemNext]_systemVars PROVE IInv' /\ SysInv'
<1>1. CASE SystemNext
  <2>1. IInv'
    BY <1>1, SystemStep, NextIInv
  <2>2. SysInv'
    BY <1>1, CpuSysInv, PollSysInv, GetLineSysInv, SignalSysInv, SeeIorqSysInv, SeeM1SysInv,
       DriveSysInv, WaitHaltSysInv, DoneSysInv, ClockSysInv, TypeSysInv DEF SystemNext, DeviceStep
  <2>. QED
    BY <2>1, <2>2
<1>2. CASE UNCHANGED systemVars
  <2> USE <1>2 DEF systemVars, software, thread, terminal
  <2>1. UNCHANGED vars
    OBVIOUS
  <2>2. IInv'
    BY <2>1, NextIInv
  <2>3. UNCHANGED <<cpu, latches, data_bus, should_cycle, environment>>
    BY <2>1 DEF vars, cpu, outputs
  <2> USE <2>3 DEF cpu, place, opcode, response, latches, environment
  <2>4. Answering' = Answering /\ Listening' = Listening /\ Latched' = Latched /\ InMain' = InMain
    BY DEF Answering, Listening, Latched, InMain, MainCode
  <2>5. Line'
    BY <2>4 DEF SysInv, Core, Line, Requesting
  <2>6. (Watching => Attentive') /\ (Patient /\ device = "INT2" => FromHalt')
    BY <2>4 DEF SysInv, Timing, Attentive, FromHalt
  <2>. QED
    BY <2>2, <2>5, <2>6, Resting
<1>. QED
  BY <1>1, <1>2

\* The whole program drives the CPU as module Soft80 lets its surroundings
\* drive it: what is proved of Soft80 holds in it.
THEOREM SystemDrivesCpu == SystemSpec => Spec
<1>1. SystemInit => Init
  BY DEF SystemInit
<1>2. [SystemNext]_systemVars => [Next]_vars
  BY SystemStep DEF systemVars
<1>. QED
  BY <1>1, <1>2, PTL DEF SystemSpec, Spec

\* The dialogue keeps its invariant, whatever the devices, their threads and
\* the user: program, latches, device thread and bus agree on the requests that
\* are under way, on how far each has come, and on what it can meet.
THEOREM SystemInvariant == SystemSpec => [](IInv /\ SysInv)
<1>1. SystemInit => IInv /\ SysInv
  BY InitIInv, InitSysInv DEF SystemInit
<1>2. IInv /\ SysInv /\ [SystemNext]_systemVars => (IInv /\ SysInv)'
  BY NextSysInv
<1>. QED
  BY <1>1, <1>2, PTL DEF SystemSpec

\* read() of the device is called in the order, and as often, as its thread
\* prepared it for: the length once, then characters inside in_buffer.  Only
\* the mode 2 device needs a prompt thread for it; nobody has to be patient.
THEOREM TransferInOrderSafe ==
    ASSUME "INT2" \in Device => "INT2" \in Prompt
    PROVE  SystemSpec => []TransferInOrder
<1>1. SysInv => TransferInOrder
  <2>1. SUFFICES ASSUME SysInv PROVE TransferInOrder
    OBVIOUS
  <2>2. device # "INT2" \/ Watching
    BY <2>1 DEF SysInv, Core, Line, Watching
  <2>3. Transfer
    BY <2>1, <2>2 DEF SysInv, Timing
  <2>. QED
    BY <2>3 DEF Transfer, TransferInOrder
<1>. QED
  BY <1>1, SystemInvariant, PTL

\* No signal of the device meets a latch that is still set, a CPU that answers
\* the last one, or a handler: signal_int and signal_nmi lose no request.  Only
\* the mode 2 device needs a patient user for it; no thread has to be prompt.
THEOREM SignalNotLostSafe ==
    ASSUME "INT2" \in Device => PatientInput
    PROVE  SystemSpec => SignalNotLost
<1> DEFINE Heeded == /\ ~nmi_latch /\ ~int_latch
                     /\ caller \notin {"nmi_acknowledge", "int_acknowledge"}
                     /\ Len(frames) = 1
<1>1. SysInv /\ dev = "signal" => Heeded
  <2>1. SUFFICES ASSUME SysInv, dev = "signal" PROVE Heeded
    OBVIOUS
  <2>2. Patient
    BY <2>1 DEF SysInv, Core, Line, Patient
  <2>3. Single
    BY <2>1, <2>2 DEF SysInv, Timing
  <2>. QED
    BY <2>1, <2>3, Stacks DEF Single, Requesting, Latched, Answering, InMain
<1>2. SysInv /\ [SystemNext]_systemVars => [Signal => Heeded]_systemVars
  BY <1>1 DEF Signal
<1>. QED
  BY <1>2, SystemInvariant, PTL DEF SystemSpec, SignalNotLost

\* The vector the CPU samples on the fifth clock is the one the device put on
\* the bus for this acknowledge.  The thread of a device that drives one has to
\* be prompt; the user has to be patient for the mode 2 device alone.
THEOREM VectorSampledSafe ==
    ASSUME Device \cap {"INT0", "INT2"} \subseteq Prompt, "INT2" \in Device => PatientInput
    PROVE  SystemSpec => VectorSampled
<1>1. ASSUME IInv, SysInv, Samples, device \in {"INT0", "INT2"} PROVE vector' = driven
  <2>1. Watching /\ Patient
    BY <1>1 DEF SysInv, Core, Line, Watching, Patient
  <2>2. Attentive /\ OnTheBus
    BY <1>1, <2>1 DEF SysInv, Timing
  <2>3. cycle = "IntAck" /\ t = 5 /\ vector' = data_bus
    BY <1>1 DEF Samples
  <2>4. ~Listening
    BY <2>2, <2>3 DEF Attentive
  <2>. QED
    BY <2>2, <2>3, <2>4 DEF OnTheBus
<1>2. IInv /\ SysInv /\ [SystemNext]_systemVars
        => [Samples /\ device \in {"INT0", "INT2"} => vector' = driven]_systemVars
  BY <1>1
<1>. QED
  BY <1>2, SystemInvariant, PTL DEF SystemSpec, VectorSampled
=============================================================================
