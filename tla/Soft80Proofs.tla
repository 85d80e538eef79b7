---------------------------- MODULE Soft80Proofs ----------------------------
(***************************************************************************)
(* Proofs, for every value of the constants, of the type invariant of      *)
(* Soft80 and of its invariants about masks, acknowledges, HALT and bus    *)
(* grants.  Few of them are inductive on their own: IInv adds where the    *)
(* executor thread can be in the code when each of them matters.           *)
(***************************************************************************)
EXTENDS Soft80, TLAPS

\* The cycle the thread is in, also while its bus is granted away.
Here == IF cycle = "BusAck" THEN resume ELSE cycle

\* Which function is on the stack in each cycle, and how many clocks it has.
Position ==
    /\ cycle = "BusAck" => resume \in MCycle /\ t \in 1..3
    /\ Here \in {"Loop", "Reset", "Halt", "Fetch", "CheckNmi", "CheckInt", "Exited"} =>
         caller = "executor" /\ step = 0
    /\ Here = "NmiAck" => caller = "nmi_acknowledge" /\ step = 0
    /\ Here = "IntAck" => caller = "int_acknowledge" /\ step = 0
    /\ Here \in BusCycle \cup {"Return"} => caller \in Routine /\ step > 0
    /\ cycle \in {"Halt", "Fetch"} => t \in 1..4
    /\ cycle = "Reset" => t \in 1..3
    /\ cycle \in BusCycle => t \in 1..Len(Strobes[cycle])
    /\ cycle \in {"Loop", "CheckNmi", "CheckInt", "NmiAck"} => t = 1

\* What the decoder and the mode 0 response hold when no fetch is going on.
DecoderState ==
    /\ caller # "executor" \/ cycle \in {"CheckNmi", "CheckInt"} \/ halt =>
         bytes = 0 /\ ~int_response /\ int_vector = NoByte
    /\ caller = "execute_instruction" => current_instruction \in Instruction
    /\ caller # "execute_instruction" /\ cycle # "Exited" =>
         current_instruction = "None"
    /\ Here = "Fetch" /\ (cycle = "BusAck" \/ t > 1) => int_vector = NoByte
    /\ VectorFirst

HaltState ==
    /\ HaltQuiet
    /\ cycle = "Halt" => halt

\* Why no handler and no response can run with IFF1 set.
MaskState ==
    /\ MaskOrder
    /\ HandlerMasked
    /\ \/ int_response \/ halt
       \/ caller \in {"execute_instruction", "int_acknowledge"}
       \/ cycle = "Fetch" /\ t > 2
       => PC \notin Handler
    /\ caller = "nmi_acknowledge" /\ step > 0 => ~iff1
    /\ caller = "int_acknowledge" /\ (step > 0 \/ (cycle = "IntAck" /\ t > 1)) =>
         ~iff1 /\ ~iff2 /\ ~halt

IInv == /\ TypeOK /\ Position /\ DecoderState /\ HaltState /\ MaskState
        /\ AckWindow /\ GrantOwned /\ PlanFollowed

-----------------------------------------------------------------------------
(* The tables.                                                             *)

LEMMA TwoCycles ==
    ASSUME NEW a \in BusCycle, NEW b \in BusCycle
    PROVE  <<a, b>> \in Seq(BusCycle) /\ Len(<<a, b>>) = 2
OBVIOUS

\* Every instruction runs at most four cycles, all of them bus cycles.
LEMMA CyclesShape ==
    ASSUME NEW i \in Instruction
    PROVE  Cycles[i] \in Seq(BusCycle) /\ Len(Cycles[i]) \in 0..4
<1>1. CASE i = "LOAD" BY <1>1 DEF Cycles, BusCycle
<1>2. CASE i \in {"STORE", "JP"}
  <2>1. Cycles[i] = <<"MemRead", "MemWrite">> BY <1>2 DEF Cycles
  <2> QED BY <2>1, TwoCycles DEF BusCycle
<1>3. CASE i \in {"PUSH", "CALL"}
  <2>1. Cycles[i] = <<"MemWrite", "MemWrite">> BY <1>3 DEF Cycles
  <2> QED BY <2>1, TwoCycles DEF BusCycle
<1>4. CASE i = "CALLcc" BY <1>4 DEF Cycles, BusCycle
<1>5. CASE i \in {"POP", "RET", "RETN"}
  <2>1. Cycles[i] = <<"MemRead", "MemRead">> BY <1>5 DEF Cycles
  <2> QED BY <2>1, TwoCycles DEF BusCycle
<1>6. CASE i = "IN" BY <1>6 DEF Cycles, BusCycle
<1>7. CASE i = "OUT" BY <1>7 DEF Cycles, BusCycle
<1>8. CASE i = "INI" BY <1>8 DEF Cycles, BusCycle
<1>9. CASE i \notin {"LOAD", "STORE", "JP", "PUSH", "CALL", "CALLcc", "POP",
                     "RET", "RETN", "IN", "OUT", "INI"}
      BY <1>9 DEF Cycles, BusCycle
<1> QED BY <1>1, <1>2, <1>3, <1>4, <1>5, <1>6, <1>7, <1>8, <1>9

LEMMA IntPlanShape ==
    IntPlan \in Seq(BusCycle) /\ Len(IntPlan) \in {2, 4}
<1>1. CASE interrupt_mode = 1 BY <1>1, TwoCycles DEF IntPlan, PushPC, BusCycle
<1>2. CASE interrupt_mode # 1 BY <1>2 DEF IntPlan, BusCycle
<1> QED BY <1>1, <1>2

LEMMA PlanShape ==
    ASSUME caller = "execute_instruction" => current_instruction \in Instruction
    PROVE  Plan \in Seq(BusCycle) /\ Len(Plan) \in 0..4
<1>1. CASE caller = "execute_instruction" BY <1>1, CyclesShape DEF Plan
<1>2. CASE caller = "nmi_acknowledge" BY <1>2 DEF Plan, PushPC, BusCycle
<1>3. CASE caller = "int_acknowledge" BY <1>3, IntPlanShape DEF Plan
<1>4. CASE caller \notin Routine BY <1>4 DEF Plan, Routine
<1> QED BY <1>1, <1>2, <1>3, <1>4 DEF Routine

LEMMA StrobesLength == \A c \in BusCycle : Len(Strobes[c]) \in 3..4
BY DEF Strobes, BusCycle

\* No cycle of the tables asserts IORQ and M1 together.
LEMMA StrobesPins ==
    /\ \A n \in 1..4 : Strobes["Fetch"][n] \subseteq Pin \ {"iorq"}
    /\ \A n \in 1..4 : Strobes["Halt"][n] \subseteq Pin \ {"iorq"}
    /\ \A c \in BusCycle : \A n \in 1..Len(Strobes[c]) :
          Strobes[c][n] \subseteq Pin \ {"m1"}
BY DEF Strobes, BusCycle, Pin

-----------------------------------------------------------------------------
(* The initial states and the steps of the other threads.                  *)

LEMMA InitIInv == ASSUME Init PROVE IInv
<1> USE DEF Init
<1>1. TypeOK
  <2>1. PlaceType BY DEF PlaceType
  <2>2. OpcodeType BY MaxBytesAssumption DEF OpcodeType
  <2>3. PinType BY DEF PinType
  <2>4. FlagType BY DEF FlagType
  <2> QED BY <2>1, <2>2, <2>3, <2>4 DEF TypeOK
<1> USE DEF Here, BusCycle, MCycle, Routine
<1>2. Position BY DEF Position
<1>3. DecoderState /\ HaltState BY DEF DecoderState, VectorFirst, HaltState, HaltQuiet
<1>4. MaskState BY DEF MaskState, MaskOrder, HandlerMasked, Handler
<1>5. AckWindow /\ GrantOwned /\ PlanFollowed
      BY DEF AckWindow, GrantOwned, PlanFollowed
<1> QED BY <1>1, <1>2, <1>3, <1>4, <1>5 DEF IInv

\* What the other threads write, no part of IInv but TypeOK speaks about.
LEMMA CpuUnchanged ==
    ASSUME IInv, UNCHANGED cpu, UNCHANGED busack, TypeOK'
    PROVE  IInv'
<1> USE DEF cpu, place, opcode, mask, response
<1>1. Position' BY DEF IInv, Position, Here
<1>2. DecoderState' BY DEF IInv, DecoderState, VectorFirst, Here
<1>3. HaltState' BY DEF IInv, HaltState, HaltQuiet
<1>4. MaskState' BY DEF IInv, MaskState, MaskOrder, HandlerMasked
<1>5. AckWindow' /\ GrantOwned' BY DEF IInv, AckWindow, GrantOwned
<1>6. PlanFollowed' BY DEF IInv, PlanFollowed, Plan, IntPlan
<1> QED BY <1>1, <1>2, <1>3, <1>4, <1>5, <1>6 DEF IInv

LEMMA EnvironmentIInv == ASSUME IInv, Environment PROVE IInv'
<1> USE DEF IInv, TypeOK, PlaceType, OpcodeType, PinType, FlagType, cpu, place, opcode, mask, response, latches, environment
<1>1. CASE cycle_clock BY <1>1, CpuUnchanged DEF cycle_clock
<1>2. CASE signal_int BY <1>2, CpuUnchanged DEF signal_int
<1>3. CASE signal_nmi BY <1>3, CpuUnchanged DEF signal_nmi
<1>4. CASE kill BY <1>4, CpuUnchanged DEF kill
<1>5. CASE DriveDataBus BY <1>5, CpuUnchanged DEF DriveDataBus
<1>6. CASE \E b \in Source : SetPin(b) BY <1>6, CpuUnchanged DEF SetPin
<1> QED BY <1>1, <1>2, <1>3, <1>4, <1>5, <1>6 DEF Environment

-----------------------------------------------------------------------------
(* Moving the thread.                                                      *)

Between == {"Loop", "Reset", "Halt", "Fetch", "CheckNmi", "CheckInt", "Exited"}

LEMMA AtShape ==
    ASSUME NEW c \in Between, At(c)
    PROVE  PlaceType' /\ Position' /\ PlanFollowed'
<1> USE DEF At, Between
<1>1. PlaceType' BY DEF PlaceType, MCycle, BusCycle
<1>2. Position' BY DEF Position, Here, MCycle, BusCycle
<1>3. PlanFollowed' BY DEF PlanFollowed
<1> QED BY <1>1, <1>2, <1>3

LEMMA RunShape ==
    ASSUME NEW f \in Routine, NEW plan \in Seq(BusCycle), NEW n \in 1..5,
           Len(plan) \in 0..4, n <= Len(plan) + 1,
           Run(f, plan, n), plan = Plan'
    PROVE  PlaceType' /\ Position' /\ PlanFollowed'
<1>1. \/ n \in DOMAIN plan /\ cycle' = plan[n] /\ cycle' \in BusCycle
      \/ n = Len(plan) + 1 /\ cycle' = "Return"
      BY DEF Run
<1>2. caller' = f /\ step' = n /\ t' = 1 /\ resume' = "None"
      BY DEF Run
<1>3. PlaceType' BY <1>1, <1>2 DEF PlaceType, MCycle
<1>4. Position'
  <2>1. CASE cycle' \in BusCycle
    <3>1. t' \in 1..Len(Strobes[cycle']) BY <2>1, <1>2, StrobesLength
    <3> QED BY <2>1, <1>2, <3>1 DEF Position, Here, BusCycle
  <2>2. CASE cycle' = "Return"
        BY <2>2, <1>2 DEF Position, Here, BusCycle
  <2> QED BY <2>1, <2>2, <1>1
<1>5. PlanFollowed' BY <1>1, <1>2 DEF PlanFollowed
<1> QED BY <1>3, <1>4, <1>5

-----------------------------------------------------------------------------
(* Steps of the executor that wait for no clock.                           *)

LEMMA ExecutorLoopIInv == ASSUME IInv, ExecutorLoop PROVE IInv'
<1> USE DEF IInv, ExecutorLoop, opcode, outputs, mask, response, latches, environment
<1>1. \E c \in {"Exited", "Reset", "Halt", "Fetch"} :
         At(c) /\ (c = "Halt" => halt) /\ (c = "Fetch" => ~halt)
      OBVIOUS
<1>2. PlaceType' /\ Position' /\ PlanFollowed' BY <1>1, AtShape DEF Between
<1>3. TypeOK' BY <1>2 DEF TypeOK, OpcodeType, PinType, FlagType
<1>4. caller = "executor" /\ step = 0 BY DEF Position, Here
<1> USE <1>1, <1>4 DEF At
<1>5. DecoderState' BY DEF DecoderState, VectorFirst, Here
<1>6. HaltState' BY DEF HaltState, HaltQuiet
<1>7. MaskState' BY DEF MaskState, MaskOrder, HandlerMasked
<1>8. AckWindow' /\ GrantOwned' BY DEF AckWindow, GrantOwned
<1> QED BY <1>2, <1>3, <1>5, <1>6, <1>7, <1>8

LEMMA CheckNmiIInv == ASSUME IInv, CheckNmi PROVE IInv'
<1> USE DEF IInv, CheckNmi, opcode, outputs, mask, response, environment
<1>1. caller = "executor" /\ step = 0 /\ t = 1 BY DEF Position, Here
<1>2. CASE TakesNmi
  <2> USE <1>1, <1>2 DEF TakesNmi
  <2>1. TypeOK'
    <3>1. PlaceType' BY DEF TypeOK, PlaceType, MCycle, Routine
    <3> QED BY <3>1 DEF TypeOK, OpcodeType, PinType, FlagType
  <2>2. Position' /\ PlanFollowed' BY DEF Position, PlanFollowed, Here, BusCycle
  <2>3. DecoderState' BY DEF DecoderState, VectorFirst, Here
  <2>4. HaltState' BY DEF HaltState, HaltQuiet
  <2>5. MaskState' BY DEF MaskState, MaskOrder, HandlerMasked
  <2>6. AckWindow' /\ GrantOwned' BY DEF AckWindow, GrantOwned
  <2> QED BY <2>1, <2>2, <2>3, <2>4, <2>5, <2>6
<1>3. CASE ~TakesNmi
  <2> USE <1>1, <1>3
  <2>1. PlaceType' /\ Position' /\ PlanFollowed' BY AtShape DEF Between
  <2>2. TypeOK' BY <2>1 DEF TypeOK, OpcodeType, PinType, FlagType
  <2> USE DEF At
  <2>3. DecoderState' BY DEF DecoderState, VectorFirst, Here
  <2>4. HaltState' BY DEF HaltState, HaltQuiet
  <2>5. MaskState' BY DEF MaskState, MaskOrder, HandlerMasked
  <2>6. AckWindow' /\ GrantOwned' BY DEF AckWindow, GrantOwned
  <2> QED BY <2>1, <2>2, <2>3, <2>4, <2>5, <2>6
<1> QED BY <1>2, <1>3

LEMMA CheckIntIInv == ASSUME IInv, CheckInt PROVE IInv'
<1> USE DEF IInv, CheckInt, opcode, outputs, mask, response, environment
<1>1. caller = "executor" /\ step = 0 /\ t = 1 BY DEF Position, Here
<1>2. CASE TakesInt
  <2> USE <1>1, <1>2 DEF TakesInt
  <2>1. TypeOK'
    <3>1. PlaceType' BY DEF TypeOK, PlaceType, MCycle, Routine
    <3> QED BY <3>1 DEF TypeOK, OpcodeType, PinType, FlagType
  <2>2. Position' /\ PlanFollowed' BY DEF Position, PlanFollowed, Here, BusCycle
  <2>3. DecoderState' BY DEF DecoderState, VectorFirst, Here
  <2>4. HaltState' BY DEF HaltState, HaltQuiet
  <2>5. MaskState' BY DEF MaskState, MaskOrder, HandlerMasked
  <2>6. AckWindow' /\ GrantOwned' BY DEF AckWindow, GrantOwned
  <2> QED BY <2>1, <2>2, <2>3, <2>4, <2>5, <2>6
<1>3. CASE ~TakesInt
  <2> USE <1>1, <1>3
  <2>1. PlaceType' /\ Position' /\ PlanFollowed' BY AtShape DEF Between
  <2>2. TypeOK' BY <2>1 DEF TypeOK, OpcodeType, PinType, FlagType
  <2> USE DEF At
  <2>3. DecoderState' BY DEF DecoderState, VectorFirst, Here
  <2>4. HaltState' BY DEF HaltState, HaltQuiet
  <2>5. MaskState' BY DEF MaskState, MaskOrder, HandlerMasked
  <2>6. AckWindow' /\ GrantOwned' BY DEF AckWindow, GrantOwned
  <2> QED BY <2>1, <2>2, <2>3, <2>4, <2>5, <2>6
<1> QED BY <1>2, <1>3

LEMMA EnterHandlerIInv == ASSUME IInv, EnterHandler PROVE IInv'
<1> USE DEF IInv, EnterHandler, outputs, mask, response, latches, environment
<1>1. \E c \in {"CheckInt", "Loop"} : At(c) OBVIOUS
<1>2. PlaceType' /\ Position' /\ PlanFollowed' BY <1>1, AtShape DEF Between
<1>3. TypeOK' BY <1>2 DEF TypeOK, OpcodeType, PinType, FlagType, Handler
<1>4. caller \in {"nmi_acknowledge", "int_acknowledge"} /\ step > 0
      BY DEF Position, Here, BusCycle
<1> USE <1>1, <1>4 DEF At
<1>5. DecoderState' BY DEF DecoderState, VectorFirst, Here
<1>6. HaltState' BY DEF HaltState, HaltQuiet
<1>7. MaskState' BY <1>5 DEF MaskState, MaskOrder, HandlerMasked, DecoderState, HaltState, HaltQuiet
<1>8. AckWindow' /\ GrantOwned' BY DEF AckWindow, GrantOwned
<1> QED BY <1>2, <1>3, <1>5, <1>6, <1>7, <1>8

LEMMA ExitProcessIInv == ASSUME IInv, ExitProcess PROVE IInv'
<1> USE DEF IInv, ExitProcess, opcode, outputs, mask, response, latches, environment
<1>1. PlaceType' /\ Position' /\ PlanFollowed' BY AtShape DEF Between
<1>2. TypeOK' BY <1>1 DEF TypeOK, OpcodeType, PinType, FlagType
<1> USE DEF At
<1>3. DecoderState' BY DEF DecoderState, VectorFirst, Here
<1>4. HaltState' BY DEF HaltState, HaltQuiet
<1>5. MaskState' BY DEF MaskState, MaskOrder, HandlerMasked
<1>6. AckWindow' /\ GrantOwned' BY DEF AckWindow, GrantOwned
<1> QED BY <1>1, <1>2, <1>3, <1>4, <1>5, <1>6

LEMMA ExecuteInstructionIInv == ASSUME IInv, ExecuteInstruction PROVE IInv'
<1> USE DEF IInv, ExecuteInstruction, response, latches, environment
<1>1. PlaceType' /\ Position' /\ PlanFollowed' BY AtShape DEF Between
<1>2. TypeOK'
  <2>1. interrupt_mode' \in 0..2 /\ PC' \in Handler \cup {"Reset", "Program"}
        BY DEF TypeOK, OpcodeType, ModeAfter
  <2>2. OpcodeType' BY <2>1 DEF TypeOK, OpcodeType
  <2>3. FlagType' BY DEF TypeOK, FlagType, Iff1After, Iff2After
  <2>4. PinType' BY DEF TypeOK, PinType
  <2> QED BY <1>1, <2>2, <2>3, <2>4 DEF TypeOK
<1> USE DEF At
<1>3. DecoderState' BY DEF DecoderState, VectorFirst, Here
<1>4. HaltState' BY DEF HaltState, HaltQuiet
<1>5. PC' \notin Handler BY DEF MaskState, Handler
<1>6. iff1' => iff2' BY DEF MaskState, MaskOrder, Iff1After, Iff2After
<1>7. MaskState'
      BY <1>3, <1>5, <1>6 DEF MaskState, MaskOrder, HandlerMasked, DecoderState
<1>8. AckWindow' /\ GrantOwned' BY DEF AckWindow, GrantOwned
<1> QED BY <1>1, <1>2, <1>3, <1>4, <1>7, <1>8

-----------------------------------------------------------------------------
(* Steps that take a clock.                                                *)

LEMMA NextClockPlace ==
    ASSUME IInv, NextClock, cycle \in {"Reset", "Halt", "Fetch", "IntAck"} \cup BusCycle,
           t < 5
    PROVE  PlaceType'
BY DEF IInv, TypeOK, PlaceType, NextClock

LEMMA ResetClockIInv == ASSUME IInv, ResetClock PROVE IInv'
<1> USE DEF IInv, ResetClock, opcode, outputs, mask, response, latches, environment
<1>0. caller = "executor" /\ step = 0 /\ t \in 1..3 BY DEF Position, Here
<1>1. CASE t < 3
  <2> USE <1>0, <1>1
  <2>1. NextClock OBVIOUS
  <2>2. TypeOK'
    <3>1. PlaceType' BY <2>1, NextClockPlace
    <3>2. OpcodeType' BY DEF TypeOK, OpcodeType
    <3>3. FlagType' BY DEF TypeOK, FlagType, Tick
    <3>4. PinType' BY DEF TypeOK, PinType
    <3> QED BY <3>1, <3>2, <3>3, <3>4 DEF TypeOK
  <2> USE <2>1 DEF NextClock
  <2>3. Position' /\ PlanFollowed' BY DEF Position, PlanFollowed, Here, BusCycle
  <2>4. DecoderState' BY DEF DecoderState, VectorFirst, Here, HaltState, HaltQuiet
  <2>5. HaltState' BY DEF HaltState, HaltQuiet
  <2>6. MaskState' BY DEF MaskState, MaskOrder, HandlerMasked
  <2>7. AckWindow' /\ GrantOwned' BY DEF AckWindow, GrantOwned
  <2> QED BY <2>2, <2>3, <2>4, <2>5, <2>6, <2>7
<1>2. CASE t = 3
  <2> USE <1>0, <1>2
  <2>1. ~halt /\ At("Fetch") /\ int_vector' = int_vector
        BY DEF HaltState, HaltQuiet
  <2>2. PlaceType' /\ Position' /\ PlanFollowed' BY <2>1, AtShape DEF Between
  <2>3. TypeOK'
    <3>1. OpcodeType' BY DEF TypeOK, OpcodeType
    <3>2. FlagType' BY DEF TypeOK, FlagType, Tick
    <3>3. PinType' BY DEF TypeOK, PinType
    <3> QED BY <2>2, <3>1, <3>2, <3>3 DEF TypeOK
  <2> USE <2>1 DEF At
  <2>4. DecoderState' BY DEF DecoderState, VectorFirst, Here
  <2>5. HaltState' BY DEF HaltState, HaltQuiet
  <2>6. MaskState' BY DEF MaskState, MaskOrder, HandlerMasked, Handler
  <2>7. AckWindow' /\ GrantOwned' BY DEF AckWindow, GrantOwned
  <2> QED BY <2>2, <2>3, <2>4, <2>5, <2>6, <2>7
<1> QED BY <1>0, <1>1, <1>2

LEMMA HaltClockIInv == ASSUME IInv, HaltClock PROVE IInv'
<1> USE DEF IInv, HaltClock, mask, latches, environment
<1>0. caller = "executor" /\ step = 0 /\ t \in 1..4 /\ halt
      BY DEF Position, Here, HaltState
<1>1. pins' \subseteq Pin \ {"iorq"} BY <1>0, StrobesPins
<1>2. bytes = 0 /\ ~int_response /\ int_vector = NoByte BY <1>0 DEF DecoderState
<1>3. PC \notin Handler BY <1>0 DEF MaskState
<1>4. CASE t < 4
  <2> USE <1>0, <1>1, <1>2, <1>3, <1>4
  <2>1. NextClock OBVIOUS
  <2>2. TypeOK'
    <3>1. PlaceType' BY <2>1, NextClockPlace
    <3> QED BY <3>1 DEF TypeOK, OpcodeType, PinType, FlagType, Tick
  <2> USE <2>1 DEF NextClock
  <2>3. Position' /\ PlanFollowed' BY DEF Position, PlanFollowed, Here, BusCycle
  <2>4. DecoderState' BY DEF DecoderState, VectorFirst, Here
  <2>5. HaltState' BY DEF HaltState, HaltQuiet
  <2>6. MaskState' BY DEF MaskState, MaskOrder, HandlerMasked
  <2>7. AckWindow' /\ GrantOwned' BY DEF AckWindow, GrantOwned
  <2> QED BY <2>2, <2>3, <2>4, <2>5, <2>6, <2>7
<1>5. CASE t = 4
  <2> USE <1>0, <1>1, <1>2, <1>3, <1>5
  <2>1. /\ cycle' = "Return" /\ caller' = "execute_instruction" /\ step' = 1
        /\ t' = 1 /\ resume' = "None" /\ current_instruction' = "NOP"
        /\ ~int_response'
        BY DEF Run
  <2>2. TypeOK'
    <3>1. PlaceType' BY <2>1 DEF PlaceType, Routine
    <3>2. OpcodeType' BY <2>1 DEF TypeOK, OpcodeType, Instruction
    <3>3. FlagType' BY DEF TypeOK, FlagType, Tick
    <3> QED BY <3>1, <3>2, <3>3 DEF TypeOK, PinType
  <2>3. Position' BY <2>1 DEF Position, Here, BusCycle, Routine
  <2>4. PlanFollowed'
    <3>1. Plan' = <<>> BY <2>1 DEF Plan, Cycles, Instruction
    <3> QED BY <2>1, <3>1 DEF PlanFollowed
  <2>5. DecoderState' BY <2>1 DEF DecoderState, VectorFirst, Here, Instruction
  <2>6. HaltState' BY <2>1 DEF HaltState, HaltQuiet
  <2>7. MaskState' BY <2>1 DEF MaskState, MaskOrder, HandlerMasked
  <2>8. AckWindow' /\ GrantOwned' BY <2>1 DEF AckWindow, GrantOwned
  <2> QED BY <2>2, <2>3, <2>4, <2>5, <2>6, <2>7, <2>8
<1> QED BY <1>0, <1>4, <1>5

\* One more byte reaches the decoder: on the last clock of a fetch, or with
\* the vector of a mode 0 device.
LEMMA DecodeIInv ==
    ASSUME IInv, Decode, caller = "executor", step = 0, ~halt,
           cycle \notin {"Exited", "CheckNmi", "CheckInt"},
           PC' = PC, PC \notin Handler, int_vector' = NoByte, ~busack',
           AckWindow', PinType', FlagType', UNCHANGED <<halt, mask, interrupt_mode>>
    PROVE  IInv'
<1> USE DEF IInv, mask
<1>0. current_instruction = "None" BY DEF DecoderState
<1>1. CASE DecodePart
  <2> USE <1>0, <1>1 DEF DecodePart
  <2>1. PlaceType' /\ Position' /\ PlanFollowed' BY AtShape DEF Between
  <2>2. OpcodeType' BY MaxBytesAssumption DEF TypeOK, OpcodeType
  <2>3. TypeOK' BY <2>1, <2>2 DEF TypeOK
  <2> USE DEF At
  <2>4. DecoderState' BY DEF DecoderState, VectorFirst, Here
  <2>5. HaltState' BY DEF HaltState, HaltQuiet
  <2>6. MaskState' BY DEF MaskState, MaskOrder, HandlerMasked
  <2>7. GrantOwned' BY DEF GrantOwned
  <2> QED BY <2>1, <2>3, <2>4, <2>5, <2>6, <2>7
<1>2. CASE DecodeLast
  <2>1. PICK i \in Program :
          /\ current_instruction' = i
          /\ bytes' = 0
          /\ int_response' = FALSE
          /\ Run("execute_instruction", Cycles[i], 1)
        BY <1>2 DEF DecodeLast
  <2>2. i \in Instruction BY ProgramAssumption
  <2>3. /\ caller' = "execute_instruction" /\ step' = 1 /\ t' = 1
        /\ resume' = "None" /\ cycle' \in BusCycle \cup {"Return"}
        BY <2>1, <2>2, CyclesShape DEF Run
  <2>4. Plan' = Cycles[i] BY <2>1, <2>3 DEF Plan
  <2>5. PlaceType' /\ Position' /\ PlanFollowed'
        BY <2>1, <2>2, <2>4, CyclesShape, RunShape DEF Routine
  <2>6. OpcodeType' BY <2>1, <2>2, MaxBytesAssumption DEF TypeOK, OpcodeType
  <2>7. TypeOK' BY <2>5, <2>6 DEF TypeOK
  <2> USE <2>1, <2>2, <2>3
  <2>8. DecoderState' BY DEF DecoderState, VectorFirst, Here, BusCycle
  <2>9. HaltState' BY DEF HaltState, HaltQuiet, BusCycle
  <2>10. MaskState' BY DEF MaskState, MaskOrder, HandlerMasked, BusCycle
  <2>11. GrantOwned' BY DEF GrantOwned, BusCycle
  <2> QED BY <2>5, <2>7, <2>8, <2>9, <2>10, <2>11
<1> QED BY <1>1, <1>2 DEF Decode

LEMMA FetchClockIInv == ASSUME IInv, FetchClock PROVE IInv'
<1> USE DEF IInv, FetchClock, latches, environment
<1>0. /\ caller = "executor" /\ step = 0 /\ t \in 2..4
      /\ int_vector = NoByte /\ ~halt /\ current_instruction = "None" /\ ~busack
      BY DEF Position, Here, DecoderState, HaltState, HaltQuiet, GrantOwned, TypeOK, PlaceType, FlagType
<1>1. pins' \subseteq Pin \ {"iorq"} BY <1>0, StrobesPins
<1>2. AckWindow' BY <1>1 DEF AckWindow
<1>3. PinType' BY <1>1 DEF TypeOK, PinType
<1>4. CASE t < 4
  <2> USE <1>0, <1>1, <1>4
  <2>1. NextClock OBVIOUS
  <2>2. PC' \in {PC, "Program"} /\ (t = 2 => PC' = IF int_response THEN PC ELSE "Program")
        /\ UNCHANGED <<current_instruction, bytes, int_response>>
        BY DEF opcode
  <2>3. TypeOK'
    <3>1. PlaceType' BY <2>1, NextClockPlace
    <3>2. OpcodeType' BY <2>2 DEF TypeOK, OpcodeType
    <3>3. FlagType' BY <2>2 DEF TypeOK, FlagType, Tick, mask
    <3> QED BY <1>3, <3>1, <3>2, <3>3 DEF TypeOK
  <2> USE <2>1, <2>2 DEF NextClock
  <2>4. Position' /\ PlanFollowed' BY DEF Position, PlanFollowed, Here, BusCycle
  <2>5. DecoderState' BY DEF DecoderState, VectorFirst, Here
  <2>6. HaltState' BY DEF HaltState, HaltQuiet
  <2>7. MaskState' BY DEF MaskState, MaskOrder, HandlerMasked, Handler, opcode, mask
  <2>8. GrantOwned' BY DEF GrantOwned
  <2> QED BY <1>2, <2>3, <2>4, <2>5, <2>6, <2>7, <2>8
<1>5. CASE t = 4
  <2>1. Decode /\ PC' = PC /\ PC \notin Handler BY <1>5 DEF MaskState
  <2>2. FlagType'
    <3>1. int_response' \in BOOLEAN
          BY <2>1 DEF Decode, DecodePart, DecodeLast, TypeOK, FlagType
    <3> QED BY <3>1 DEF TypeOK, FlagType, Tick, mask
  <2> QED BY <1>0, <1>2, <1>3, <2>1, <2>2, DecodeIInv
<1> QED BY <1>0, <1>4, <1>5

LEMMA BusClockIInv == ASSUME IInv, BusClock PROVE IInv'
<1> USE DEF IInv, BusClock, latches, environment, opcode, response, mask
<1>0. /\ caller \in Routine /\ step > 0 /\ t \in 2..Len(Strobes[cycle])
      /\ Len(Strobes[cycle]) \in 3..4 /\ ~halt /\ ~busack
      BY StrobesLength DEF Position, Here, HaltState, HaltQuiet, GrantOwned, BusCycle, TypeOK, PlaceType, FlagType
<1>1. pins' \subseteq Pin \ {"m1"} BY <1>0, StrobesPins
<1>2. step \in DOMAIN Plan /\ cycle = Plan[step] /\ cycle \in BusCycle
  <2>1. cycle \in BusCycle /\ cycle \notin {"BusAck", "Return"} BY DEF BusCycle
  <2>2. caller # "executor" BY <1>0 DEF Routine
  <2> QED BY <1>0, <2>1, <2>2 DEF PlanFollowed
<1>3. Plan \in Seq(BusCycle) /\ Len(Plan) \in 0..4 BY PlanShape DEF DecoderState
<1>4. PlaceType' /\ Position' /\ PlanFollowed'
  <2>1. CASE t < Len(Strobes[cycle])
    <3>1. NextClock BY <2>1
    <3>2. PlaceType' BY <3>1, <1>0, <2>1, NextClockPlace
    <3>3. Position' BY <3>1, <1>0, <1>2, <2>1 DEF NextClock, Position, Here, BusCycle
    <3>4. Plan' = Plan BY <3>1 DEF NextClock, Plan, IntPlan
    <3>5. PlanFollowed' BY <3>1, <3>4, <1>2 DEF NextClock, PlanFollowed
    <3> QED BY <3>2, <3>3, <3>5
  <2>2. CASE ~(t < Len(Strobes[cycle]))
    <3>1. Run(caller, Plan, step + 1) BY <2>2
    <3>2. Plan' = Plan BY <3>1 DEF Run, Plan, IntPlan
    <3>3. step + 1 \in 1..5 /\ step + 1 <= Len(Plan) + 1
          BY <1>2, <1>3
    <3> QED BY <3>1, <3>2, <3>3, <1>0, <1>3, RunShape
  <2> QED BY <2>1, <2>2
<1>5. /\ caller' = caller /\ step' > 0
      /\ cycle' \in BusCycle \cup {"Return"}
  <2>1. CASE t < Len(Strobes[cycle]) BY <2>1, <1>0 DEF NextClock
  <2>2. CASE ~(t < Len(Strobes[cycle])) BY <2>2, <1>0, <1>2, <1>3 DEF Run
  <2> QED BY <2>1, <2>2
<1>6. TypeOK' BY <1>1, <1>4 DEF TypeOK, OpcodeType, PinType, FlagType, Tick
<1> USE <1>0, <1>5 DEF BusCycle, Routine
<1>7. DecoderState' BY DEF DecoderState, VectorFirst, Here
<1>8. HaltState' BY DEF HaltState, HaltQuiet
<1>9. MaskState' BY DEF MaskState, MaskOrder, HandlerMasked
<1>10. AckWindow' /\ GrantOwned' BY <1>1 DEF AckWindow, GrantOwned
<1> QED BY <1>4, <1>6, <1>7, <1>8, <1>9, <1>10

LEMMA IntAckClockIInv == ASSUME IInv, IntAckClock PROVE IInv'
<1> USE DEF IInv, IntAckClock, opcode, response, mask, latches, environment
<1>0. /\ caller = "int_acknowledge" /\ step = 0 /\ t \in 2..5
      /\ ~iff1 /\ ~iff2 /\ ~halt /\ ~busack
      /\ bytes = 0 /\ ~int_response /\ int_vector = NoByte
      /\ current_instruction = "None"
      BY DEF Position, Here, DecoderState, MaskState, GrantOwned, TypeOK, PlaceType, FlagType
<1> USE <1>0
<1>1. pins' \subseteq Pin /\ (t = 5 => "m1" \notin pins')
  <2>1. pins \subseteq Pin BY DEF TypeOK, PinType
  <2>2. \/ pins' \in {pins, pins \cup {"iorq"}} /\ t # 5
        \/ pins' = pins \ {"m1", "iorq"}
        BY DEF EndAckStrobes
  <2> QED BY <2>1, <2>2 DEF Pin
<1>2. CASE t < 5
  <2> USE <1>2
  <2>1. NextClock /\ UNCHANGED response OBVIOUS
  <2>2. TypeOK'
    <3>1. PlaceType' BY <2>1, NextClockPlace
    <3>2. OpcodeType' /\ PinType' BY <1>1, <2>1 DEF TypeOK, OpcodeType, PinType
    <3>3. FlagType' BY <2>1 DEF TypeOK, FlagType, Tick
    <3> QED BY <3>1, <3>2, <3>3 DEF TypeOK
  <2> USE <2>1 DEF NextClock
  <2>3. Position' /\ PlanFollowed' BY DEF Position, PlanFollowed, Here, BusCycle
  <2>4. DecoderState' BY DEF DecoderState, VectorFirst, Here
  <2>5. HaltState' BY DEF HaltState, HaltQuiet
  <2>6. MaskState' BY DEF MaskState, MaskOrder, HandlerMasked
  <2>7. AckWindow' /\ GrantOwned' BY DEF AckWindow, GrantOwned
  <2> QED BY <2>2, <2>3, <2>4, <2>5, <2>6, <2>7
<1>3. CASE t = 5 /\ interrupt_mode = 0
  <2> USE <1>3
  <2>1. At("Loop") /\ int_response' = TRUE /\ int_vector' = data_bus OBVIOUS
  <2>2. PlaceType' /\ Position' /\ PlanFollowed' BY <2>1, AtShape DEF Between
  <2>3. TypeOK'
    <3>1. OpcodeType' BY <2>1 DEF TypeOK, OpcodeType, PinType
    <3>2. PinType' BY <1>1 DEF TypeOK, PinType
    <3>3. FlagType' BY <2>1 DEF TypeOK, FlagType, Tick
    <3> QED BY <2>2, <3>1, <3>2, <3>3 DEF TypeOK
  <2> USE <2>1 DEF At
  <2>4. DecoderState' BY DEF DecoderState, VectorFirst, Here
  <2>5. HaltState' BY DEF HaltState, HaltQuiet
  <2>6. MaskState' BY DEF MaskState, MaskOrder, HandlerMasked
  <2>7. AckWindow' /\ GrantOwned' BY <1>1 DEF AckWindow, GrantOwned
  <2> QED BY <2>2, <2>3, <2>4, <2>5, <2>6, <2>7
<1>4. CASE t = 5 /\ interrupt_mode # 0
  <2> USE <1>4
  <2>1. Run("int_acknowledge", IntPlan, 1) /\ UNCHANGED response OBVIOUS
  <2>2. IntPlan = Plan' BY <2>1 DEF Run, Plan, IntPlan
  <2>3. PlaceType' /\ Position' /\ PlanFollowed'
        BY <2>1, <2>2, IntPlanShape, RunShape DEF Routine
  <2>4. /\ caller' = "int_acknowledge" /\ step' = 1 /\ t' = 1
        /\ resume' = "None" /\ cycle' \in BusCycle
        BY <2>1, IntPlanShape DEF Run
  <2>5. TypeOK'
    <3>1. OpcodeType' /\ PinType' BY <1>1, <2>1 DEF TypeOK, OpcodeType, PinType
    <3>2. FlagType' BY <2>1 DEF TypeOK, FlagType, Tick
    <3> QED BY <2>3, <3>1, <3>2 DEF TypeOK
  <2> USE <2>1, <2>4 DEF BusCycle
  <2>6. DecoderState' BY DEF DecoderState, VectorFirst, Here
  <2>7. HaltState' BY DEF HaltState, HaltQuiet
  <2>8. MaskState' BY DEF MaskState, MaskOrder, HandlerMasked
  <2>9. AckWindow' /\ GrantOwned' BY <1>1 DEF AckWindow, GrantOwned
  <2> QED BY <2>3, <2>5, <2>6, <2>7, <2>8, <2>9
<1> QED BY <1>2, <1>3, <1>4

LEMMA BusAckClockIInv == ASSUME IInv, BusAckClock PROVE IInv'
<1> USE DEF IInv, BusAckClock, opcode, response, mask, latches, environment
<1>1. t' = 2 /\ UNCHANGED <<cycle, caller, step, resume>> OBVIOUS
<1>2. TypeOK'
  <2>1. PlaceType' BY <1>1 DEF TypeOK, PlaceType
  <2>2. OpcodeType' BY DEF TypeOK, OpcodeType
  <2>3. PinType' BY ByteAssumption DEF TypeOK, PinType
  <2>4. FlagType' BY DEF TypeOK, FlagType, Tick
  <2> QED BY <2>1, <2>2, <2>3, <2>4 DEF TypeOK
<1> USE <1>1
<1>3. Position' BY DEF Position, Here, MCycle, BusCycle
<1>4. Plan' = Plan BY DEF Plan, IntPlan
<1>5. PlanFollowed' BY <1>4 DEF PlanFollowed
<1>6. DecoderState' BY DEF DecoderState, VectorFirst, Here
<1>7. HaltState' BY DEF HaltState, HaltQuiet
<1>8. MaskState' BY DEF MaskState, MaskOrder, HandlerMasked
<1>9. AckWindow' /\ GrantOwned' BY DEF AckWindow, GrantOwned, Position
<1> QED BY <1>2, <1>3, <1>5, <1>6, <1>7, <1>8, <1>9

\* The first clock of the machine cycle the thread is in, or resumes.
LEMMA OpenIInv ==
    ASSUME IInv, Open(Here), Here \in MCycle, cycle = "BusAck" \/ t = 1,
           busack' = FALSE, should_cycle' \in BOOLEAN,
           UNCHANGED <<interrupt_mode, latches, environment>>
    PROVE  IInv'
<1> USE DEF IInv, opcode, response, mask, latches, environment
<1>0. cycle # "Exited" /\ ~({"iorq", "m1"} \subseteq pins)
      BY DEF AckWindow, Here, MCycle, BusCycle
<1>1. CASE Here = "Fetch"
  <2> USE <1>1
  <2>1. /\ caller = "executor" /\ step = 0 /\ current_instruction = "None"
        /\ ~halt /\ cycle \in {"Fetch", "BusAck"}
        BY DEF Position, DecoderState, HaltState, HaltQuiet, Here
  <2>2. OpenFetch /\ UNCHANGED <<halt, mask, data_bus>>
        BY DEF Open, BusCycle
  <2>3. CASE TakeVector
    <3>1. int_vector # NoByte /\ int_vector' = NoByte /\ Decode
          /\ UNCHANGED <<PC, pins>>
          BY <2>3 DEF TakeVector
    <3>2. int_response BY <3>1 DEF DecoderState, VectorFirst
    <3>3. PC \notin Handler BY <3>2 DEF MaskState
    <3>4. AckWindow' BY <1>0, <3>1 DEF AckWindow
    <3>5. PinType' BY <2>2, <3>1 DEF TypeOK, PinType
    <3>6. int_response' \in BOOLEAN
          BY <3>1 DEF Decode, DecodePart, DecodeLast, TypeOK, FlagType
    <3>7. FlagType' BY <2>2, <3>6 DEF TypeOK, FlagType
    <3> QED BY <2>1, <2>2, <3>1, <3>3, <3>4, <3>5, <3>7, DecodeIInv
  <2>4. CASE ~TakeVector
    <3>1. /\ pins' = Strobes["Fetch"][1] /\ int_vector = NoByte
          /\ cycle' = "Fetch" /\ t' = 2 /\ resume' = "None"
          /\ UNCHANGED <<caller, step, opcode, response>>
          BY <2>2, <2>4 DEF OpenFetch
    <3>2. pins' \subseteq Pin \ {"iorq"} BY <3>1, StrobesPins
    <3>3. TypeOK'
      <4>1. PlaceType' BY <3>1 DEF TypeOK, PlaceType, MCycle
      <4>2. OpcodeType' /\ PinType' BY <2>2, <3>1, <3>2 DEF TypeOK, OpcodeType, PinType
      <4>3. FlagType' BY <2>2, <3>1 DEF TypeOK, FlagType
      <4> QED BY <4>1, <4>2, <4>3 DEF TypeOK
    <3> USE <2>1, <2>2, <3>1
    <3>4. Position' /\ PlanFollowed' BY DEF Position, PlanFollowed, Here, BusCycle
    <3>5. DecoderState' BY DEF DecoderState, VectorFirst, Here
    <3>6. HaltState' BY DEF HaltState, HaltQuiet
    <3>7. MaskState' BY DEF MaskState, MaskOrder, HandlerMasked
    <3>8. AckWindow' /\ GrantOwned' BY <3>2 DEF AckWindow, GrantOwned
    <3> QED BY <3>3, <3>4, <3>5, <3>6, <3>7, <3>8
  <2> QED BY <2>3, <2>4
<1>2. CASE Here \in BusCycle
  <2> USE <1>2
  <2>1. /\ OpenBusCycle(Here) /\ UNCHANGED <<opcode, response, halt, mask>>
        BY DEF Open, BusCycle
  <2>2. /\ cycle' = Here /\ t' = 2 /\ resume' = "None" /\ UNCHANGED <<caller, step>>
        /\ pins' = Strobes[Here][1]
        BY <2>1 DEF OpenBusCycle
  <2>3. caller \in Routine /\ step > 0 BY DEF Position
  <2>4. ~halt BY DEF HaltState, HaltQuiet, Here, BusCycle
  <2>5. Len(Strobes[Here]) \in 3..4 BY StrobesLength
  <2>6. pins' \subseteq Pin \ {"m1"} BY <2>2, <2>5, StrobesPins
  <2>7. TypeOK'
    <3>1. PlaceType' BY <2>2 DEF TypeOK, PlaceType, MCycle
    <3>2. OpcodeType' BY <2>1 DEF TypeOK, OpcodeType
    <3>3. data_bus' \in Byte BY <2>1 DEF OpenBusCycle, TypeOK, PinType
    <3>4. PinType' BY <2>6, <3>3 DEF TypeOK, PinType
    <3>5. FlagType' BY <2>1 DEF TypeOK, FlagType
    <3> QED BY <3>1, <3>2, <3>4, <3>5 DEF TypeOK
  <2>8. Position'
    <3>1. cycle' \in BusCycle /\ t' \in 1..Len(Strobes[cycle']) BY <2>2, <2>5
    <3>2. caller' \in Routine /\ step' > 0 BY <2>2, <2>3
    <3> QED BY <3>1, <3>2 DEF Position, Here, BusCycle
  <2>9. PlanFollowed'
    <3>1. caller # "executor" /\ cycle \notin {"Return"}
          BY <2>3 DEF Routine, Here, BusCycle
    <3>2. Plan \in Seq(BusCycle) BY PlanShape DEF DecoderState
    <3>3. step \in DOMAIN Plan => Plan[step] # "BusAck" BY <3>2 DEF BusCycle
    <3>4. step \in DOMAIN Plan /\ Here = Plan[step]
          BY <2>3, <3>1, <3>3 DEF PlanFollowed, Here
    <3>5. Plan' = Plan BY <2>1, <2>2 DEF Plan, IntPlan
    <3> QED BY <2>2, <3>4, <3>5 DEF PlanFollowed
  <2> USE <2>1, <2>2, <2>3, <2>4 DEF BusCycle, Routine
  <2>10. DecoderState'
    <3>1. cycle # "Exited" /\ cycle' # "Exited" BY <1>0
    <3> QED BY <3>1 DEF DecoderState, VectorFirst, Here
  <2>11. HaltState' BY DEF HaltState, HaltQuiet
  <2>12. MaskState' BY DEF MaskState, MaskOrder, HandlerMasked
  <2>13. AckWindow' /\ GrantOwned' BY <2>6 DEF AckWindow, GrantOwned
  <2> QED BY <2>7, <2>8, <2>9, <2>10, <2>11, <2>12, <2>13
<1>3. CASE Here = "IntAck"
  <2> USE <1>3
  <2>1. /\ OpenIntAck /\ UNCHANGED <<opcode, response, data_bus>>
        /\ caller = "int_acknowledge" /\ step = 0
        BY DEF Open, BusCycle, Position
  <2>2. /\ cycle' = "IntAck" /\ t' = 2 /\ resume' = "None"
        /\ halt' = FALSE /\ iff1' = FALSE /\ iff2' = FALSE
        /\ pins' = pins \cup {"m1"}
        /\ UNCHANGED <<caller, step>>
        BY <2>1 DEF OpenIntAck
  <2>3. TypeOK'
    <3>1. PlaceType' BY <2>2 DEF TypeOK, PlaceType, MCycle
    <3>2. OpcodeType' /\ PinType' BY <2>1, <2>2 DEF TypeOK, OpcodeType, PinType, Pin
    <3>3. FlagType' BY <2>1, <2>2 DEF TypeOK, FlagType
    <3> QED BY <3>1, <3>2, <3>3 DEF TypeOK
  <2> USE <2>1, <2>2
  <2>4. Position' /\ PlanFollowed' BY DEF Position, PlanFollowed, Here, BusCycle
  <2>5. DecoderState' BY <1>0 DEF DecoderState, VectorFirst, Here
  <2>6. HaltState' BY DEF HaltState, HaltQuiet
  <2>7. MaskState' BY DEF MaskState, MaskOrder, HandlerMasked
  <2>8. AckWindow' /\ GrantOwned' BY DEF AckWindow, GrantOwned
  <2> QED BY <2>3, <2>4, <2>5, <2>6, <2>7, <2>8
<1>4. CASE Here = "NmiAck"
  <2> USE <1>4
  <2>1. /\ OpenNmiAck /\ UNCHANGED <<opcode, response, pins, data_bus>>
        /\ caller = "nmi_acknowledge" /\ step = 0
        BY DEF Open, BusCycle, Position
  <2>2. /\ Run("nmi_acknowledge", PushPC, 1)
        /\ halt' = FALSE /\ iff2' = iff1 /\ iff1' = FALSE
        BY <2>1 DEF OpenNmiAck
  <2>3. PushPC \in Seq(BusCycle) /\ Len(PushPC) = 2 /\ PushPC[1] = "MemWrite"
        BY TwoCycles DEF PushPC, BusCycle
  <2>4. PushPC = Plan' BY <2>2 DEF Run, Plan
  <2>5. PlaceType' /\ Position' /\ PlanFollowed'
        BY <2>2, <2>3, <2>4, RunShape DEF Routine
  <2>6. /\ caller' = "nmi_acknowledge" /\ step' = 1 /\ t' = 1
        /\ resume' = "None" /\ cycle' = "MemWrite"
        BY <2>2, <2>3 DEF Run
  <2>7. TypeOK'
    <3>1. OpcodeType' /\ PinType' BY <2>1 DEF TypeOK, OpcodeType, PinType
    <3>2. FlagType' BY <2>1, <2>2 DEF TypeOK, FlagType
    <3> QED BY <2>5, <3>1, <3>2 DEF TypeOK
  <2> USE <2>1, <2>2, <2>6
  <2>8. DecoderState' BY <1>0 DEF DecoderState, VectorFirst, Here
  <2>9. HaltState' BY DEF HaltState, HaltQuiet
  <2>10. MaskState' BY DEF MaskState, MaskOrder, HandlerMasked
  <2>11. AckWindow' /\ GrantOwned' BY <1>0 DEF AckWindow, GrantOwned
  <2> QED BY <2>5, <2>7, <2>8, <2>9, <2>10, <2>11
<1> QED BY <1>1, <1>2, <1>3, <1>4 DEF MCycle

LEMMA FirstClockIInv == ASSUME IInv, FirstClock PROVE IInv'
<1> USE DEF IInv, FirstClock
<1>1. Here = cycle /\ cycle # "BusAck" /\ ~busack
      BY DEF Here, MCycle, BusCycle, GrantOwned
<1>2. CASE read_busreq /\ PollsBusreq
  <2>1. /\ cycle' = "BusAck" /\ resume' = cycle
        /\ UNCHANGED <<t, caller, step, opcode, response, pins, halt,
                       data_bus, mask, busack, interrupt_mode, latches, environment>>
        BY <1>2
  <2> USE <1>1, <2>1 DEF opcode, response, mask, latches, environment
  <2>2. TypeOK'
    <3>1. PlaceType' BY DEF TypeOK, PlaceType
    <3> QED BY <3>1 DEF TypeOK, OpcodeType, PinType, FlagType, Tick
  <2>3. Position' BY DEF Position, Here, MCycle, BusCycle
  <2>4. PlanFollowed'
    <3>1. Plan' = Plan BY DEF Plan, IntPlan
    <3> QED BY <3>1 DEF PlanFollowed, MCycle, BusCycle
  <2>5. DecoderState'
    <3>1. cycle = "Fetch" => int_vector = NoByte
          BY <1>2 DEF PollsBusreq, DecoderState, VectorFirst
    <3>2. cycle # "Fetch" => int_vector = NoByte
          BY DEF DecoderState, VectorFirst, MCycle, BusCycle
    <3>3. cycle # "Exited" BY DEF MCycle, BusCycle
    <3> QED BY <3>1, <3>2, <3>3 DEF DecoderState, VectorFirst, Here
  <2>6. HaltState'
    <3>1. halt => cycle \in {"NmiAck", "IntAck"}
          BY DEF HaltState, HaltQuiet, MCycle, BusCycle
    <3> QED BY <3>1 DEF HaltState, HaltQuiet
  <2>7. MaskState' BY DEF MaskState, MaskOrder, HandlerMasked
  <2>8. AckWindow' /\ GrantOwned' BY DEF AckWindow, GrantOwned, MCycle, BusCycle
  <2> QED BY <2>2, <2>3, <2>4, <2>5, <2>6, <2>7, <2>8
<1>3. CASE ~(read_busreq /\ PollsBusreq)
  <2>1. should_cycle' \in BOOLEAN /\ busack' = FALSE
        BY <1>1 DEF Tick, TypeOK, FlagType
  <2> QED BY <1>1, <1>3, <2>1, OpenIInv
<1> QED BY <1>2, <1>3

LEMMA BusAckPollIInv == ASSUME IInv, BusAckPoll PROVE IInv'
<1> USE DEF IInv, BusAckPoll
<1>1. Here = resume /\ resume \in MCycle BY DEF Here, GrantOwned
<1>2. CASE KeepGrant
  <2> USE <1>2 DEF KeepGrant, opcode, outputs, response, mask, latches, environment
  <2>1. TypeOK'
    <3>1. PlaceType' BY DEF TypeOK, PlaceType
    <3> QED BY <3>1 DEF TypeOK, OpcodeType, PinType, FlagType
  <2>2. Position' BY <1>1 DEF Position, Here, MCycle, BusCycle
  <2>3. PlanFollowed'
    <3>1. Plan' = Plan BY DEF Plan, IntPlan
    <3> QED BY <3>1 DEF PlanFollowed
  <2>4. DecoderState' BY DEF DecoderState, VectorFirst, Here
  <2>5. HaltState' BY DEF HaltState, HaltQuiet
  <2>6. MaskState' BY DEF MaskState, MaskOrder, HandlerMasked
  <2>7. AckWindow' /\ GrantOwned' BY DEF AckWindow, GrantOwned
  <2> QED BY <2>1, <2>2, <2>3, <2>4, <2>5, <2>6, <2>7
<1>3. CASE EndGrant
  <2>1. should_cycle' \in BOOLEAN BY DEF TypeOK, FlagType
  <2> QED BY <1>1, <1>3, <2>1, OpenIInv DEF EndGrant
<1> QED BY <1>2, <1>3

-----------------------------------------------------------------------------
(* IInv is an inductive invariant.                                         *)

LEMMA StutterIInv == ASSUME IInv, UNCHANGED vars PROVE IInv'
<1> USE DEF vars
<1>1. TypeOK'
      BY DEF IInv, TypeOK, PlaceType, OpcodeType, PinType, FlagType, place, opcode, outputs, mask, response, latches, environment
<1> QED BY <1>1, CpuUnchanged DEF cpu, outputs

LEMMA CpuStepIInv == ASSUME IInv, CpuStep PROVE IInv'
BY ExecutorLoopIInv, ResetClockIInv, HaltClockIInv, FirstClockIInv,
   FetchClockIInv, BusClockIInv, IntAckClockIInv, BusAckClockIInv,
   BusAckPollIInv, ExecuteInstructionIInv, EnterHandlerIInv, CheckNmiIInv,
   CheckIntIInv, ExitProcessIInv
   DEF CpuStep

LEMMA NextIInv == ASSUME IInv, [Next]_vars PROVE IInv'
BY CpuStepIInv, EnvironmentIInv, StutterIInv DEF Next

\* In every reachable state the executor thread is where IInv says it can be.
THEOREM Inductive == Spec => []IInv
<1>1. Init => IInv BY InitIInv
<1>2. IInv /\ [Next]_vars => IInv' BY NextIInv
<1> QED BY <1>1, <1>2, PTL DEF Spec

\* soft80.h, soft80.cpp: the CPU's variables keep the values they can have.
THEOREM TypeSafe == Spec => []TypeOK
<1>1. IInv => TypeOK BY DEF IInv
<1> QED BY <1>1, Inductive, PTL

\* int_acknowledge is the only code that shows a device IORQ and M1 together,
\* and it has closed the masks and left HALT by then.
THEOREM AckWindowSafe == Spec => []AckWindow
<1>1. IInv => AckWindow BY DEF IInv
<1> QED BY <1>1, Inductive, PTL

\* int_acknowledge and nmi_acknowledge close IFF1 long enough for the first
\* byte of the handler, or the instruction of a mode 0 device, to be fetched.
THEOREM HandlerMaskedSafe == Spec => []HandlerMasked
<1>1. IInv => HandlerMasked BY DEF IInv, MaskState
<1> QED BY <1>1, Inductive, PTL

\* execute_instruction looks at the latches only when the decoder is empty.
THEOREM AckAtBoundarySafe == Spec => []AckAtBoundary
<1>1. IInv => AckAtBoundary
  <2> SUFFICES ASSUME IInv, caller \in {"nmi_acknowledge", "int_acknowledge"}
               PROVE  /\ current_instruction = "None" /\ bytes = 0
                      /\ ~int_response /\ int_vector = NoByte
      BY DEF AckAtBoundary
  <2>1. cycle # "Exited" BY DEF IInv, Position, Here
  <2> QED BY <2>1 DEF IInv, DecoderState
<1> QED BY <1>1, Inductive, PTL

\* fetch_opcode consumes the vector of a mode 0 device before anything else
\* reaches the decoder.
THEOREM VectorFirstSafe == Spec => []VectorFirst
<1>1. IInv => VectorFirst BY DEF IInv, DecoderState
<1> QED BY <1>1, Inductive, PTL

\* HALT stops fetches and transfers until an acknowledge or a reset ends it.
THEOREM HaltQuietSafe == Spec => []HaltQuiet
<1>1. IInv => HaltQuiet BY DEF IInv, HaltState
<1> QED BY <1>1, Inductive, PTL

\* EI, DI, RETN, the acknowledges and the reset keep IFF2 over IFF1.
THEOREM MaskOrderSafe == Spec => []MaskOrder
<1>1. IInv => MaskOrder BY DEF IInv, MaskState
<1> QED BY <1>1, Inductive, PTL

\* The cycles of an instruction or an acknowledge are run in order and all of
\* them, whatever update_m_cycle interposes.
THEOREM PlanFollowedSafe == Spec => []PlanFollowed
<1>1. IInv => PlanFollowed BY DEF IInv
<1> QED BY <1>1, Inductive, PTL

\* bus_acknowledge raises BUSACK, and takes it back before it returns.
THEOREM GrantOwnedSafe == Spec => []GrantOwned
<1>1. IInv => GrantOwned BY DEF IInv
<1> QED BY <1>1, Inductive, PTL

\* No step of any thread moves the instruction, the masks or the control pins
\* while bus_acknowledge holds BUSACK up.
THEOREM GrantFreezesSafe == Spec => GrantFreezes
<1> DEFINE Frozen == busack /\ busack' =>
                        \/ UNCHANGED <<caller, step, resume, opcode, pins, halt,
                                       mask, interrupt_mode, response>>
                        \/ cycle' = "Exited"
<1>1. ASSUME IInv, [Next]_vars PROVE [Frozen]_vars
  <2> SUFFICES ASSUME busack, busack', Next
               PROVE  Frozen
      BY <1>1
  <2>1. CASE cycle = "Exited"
    <3>1. ~CpuStep
          BY <2>1 DEF CpuStep, ExecutorLoop, ResetClock, HaltClock, FirstClock, FetchClock, BusClock, IntAckClock, BusAckClock, BusAckPoll, ExecuteInstruction, EnterHandler, CheckNmi, CheckInt, ExitProcess, Waiting, MCycle, BusCycle
    <3>2. Environment BY <3>1 DEF Next
    <3>3. UNCHANGED cpu
          BY <3>2 DEF Environment, cycle_clock, signal_int, signal_nmi, kill, SetPin, DriveDataBus
    <3> QED BY <3>3 DEF cpu, place, opcode, mask, response
  <2>2. CASE cycle = "BusAck"
    <3>1. CASE BusAckClock BY <3>1 DEF BusAckClock
    <3>2. CASE BusAckPoll
          BY <3>2 DEF BusAckPoll, KeepGrant, EndGrant, outputs
    <3>3. CASE ExitProcess BY <3>3 DEF ExitProcess, At
    <3>4. CASE Environment
      <4>1. UNCHANGED cpu
            BY <3>4 DEF Environment, cycle_clock, signal_int, signal_nmi, kill, SetPin, DriveDataBus
      <4> QED BY <4>1 DEF cpu, place, opcode, mask, response
    <3> QED BY <2>2, <3>1, <3>2, <3>3, <3>4 DEF Next, CpuStep, ExecutorLoop, ResetClock, HaltClock, FirstClock, FetchClock, BusClock, IntAckClock, ExecuteInstruction, EnterHandler, CheckNmi, CheckInt, MCycle, BusCycle
  <2> QED BY <1>1, <2>1, <2>2 DEF IInv, GrantOwned
<1> QED BY <1>1, Inductive, PTL DEF Spec, GrantFreezes
=============================================================================
