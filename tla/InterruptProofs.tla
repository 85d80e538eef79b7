--------------------------- MODULE InterruptProofs ---------------------------
(***************************************************************************)
(* Soft80 implements InterruptControl for every value of the constants,    *)
(* and RETN gives back the mask the NMI found.  Both rest on the inductive *)
(* invariant of Soft80Proofs, which says where in the code the executor    *)
(* thread can be while a latch is cleared and the masks are not written.   *)
(***************************************************************************)
EXTENDS NmiReturn, Soft80Proofs

-----------------------------------------------------------------------------
(* Reading the refinement mapping.                                         *)

LEMMA Masks ==
    ASSUME TypeOK
    PROVE  /\ Enabled \in BOOLEAN /\ Saved \in BOOLEAN
           /\ ~AckPending => Enabled = iff1 /\ Saved = iff2
           /\ AckPending => /\ Enabled = FALSE
                            /\ caller = "nmi_acknowledge" => Saved = iff1
                            /\ caller = "int_acknowledge" => Saved = FALSE
<1>1. iff1 \in BOOLEAN /\ iff2 \in BOOLEAN
      BY DEF TypeOK, FlagType
<1> QED BY <1>1 DEF Enabled, Saved

LEMMA MasksNext ==
    ASSUME TypeOK'
    PROVE  /\ Enabled' \in BOOLEAN /\ Saved' \in BOOLEAN
           /\ ~AckPending' => Enabled' = iff1' /\ Saved' = iff2'
           /\ AckPending' => /\ Enabled' = FALSE
                             /\ caller' = "nmi_acknowledge" => Saved' = iff1'
                             /\ caller' = "int_acknowledge" => Saved' = FALSE
<1>1. iff1' \in BOOLEAN /\ iff2' \in BOOLEAN
      BY DEF TypeOK, FlagType
<1> QED BY <1>1 DEF Enabled, Saved

LEMMA Phases ==
    /\ cycle = "Exited" => Phase = "Off"
    /\ cycle # "Exited" =>
         /\ caller = "nmi_acknowledge" /\ ~int_response => Phase = "Nmi"
         /\ caller = "int_acknowledge" => Phase = "Int"
         /\ caller \in {"executor", "execute_instruction"} =>
              /\ int_response => Phase = "Int"
              /\ ~int_response /\ halt => Phase = "Halt"
              /\ ~int_response /\ ~halt => Phase = "Run"
BY DEF Phase

LEMMA PhasesNext ==
    /\ cycle' = "Exited" => Phase' = "Off"
    /\ cycle' # "Exited" =>
         /\ caller' = "nmi_acknowledge" /\ ~int_response' => Phase' = "Nmi"
         /\ caller' = "int_acknowledge" => Phase' = "Int"
         /\ caller' \in {"executor", "execute_instruction"} =>
              /\ int_response' => Phase' = "Int"
              /\ ~int_response' /\ halt' => Phase' = "Halt"
              /\ ~int_response' /\ ~halt' => Phase' = "Run"
BY DEF Phase

\* Steps that neither thread nor program can tell from none.
Same == UNCHANGED <<nmi_latch, int_latch>> /\ Enabled' = Enabled /\ Saved' = Saved /\ Phase' = Phase

LEMMA Idle ==
    ASSUME TypeOK, TypeOK', UNCHANGED <<nmi_latch, int_latch, mask>>,
           ~AckPending, ~AckPending', Phase' = Phase
    PROVE  Same
BY Masks, MasksNext DEF Same, mask

LEMMA Executor ==
    ASSUME IInv, caller \in {"executor", "execute_instruction"}
    PROVE  ~AckPending
BY DEF AckPending, Acknowledging

LEMMA ExecutorNext ==
    ASSUME caller' \in {"executor", "execute_instruction"}
    PROVE  ~AckPending'
BY DEF AckPending, Acknowledging

\* The executor's thread ends.
LEMMA Ends ==
    ASSUME TypeOK', cycle' = "Exited", UNCHANGED <<nmi_latch, int_latch>>
    PROVE  IC!PowerOff
BY MasksNext, PhasesNext DEF IC!PowerOff

-----------------------------------------------------------------------------
(* Steps between two machine cycles.                                       *)

LEMMA LoopView == ASSUME IInv, IInv', ExecutorLoop PROVE IC!Next \/ Same
<1>1. caller = "executor" /\ caller' = "executor" /\ cycle # "Exited"
      /\ UNCHANGED <<halt, mask, int_response, nmi_latch, int_latch>>
      BY DEF ExecutorLoop, At, IInv, Position, Here, outputs, response, latches
<1>2. CASE cycle' = "Exited"
      BY <1>1, <1>2, Ends DEF IInv, IC!Next
<1>3. CASE cycle' # "Exited"
  <2>1. Phase' = Phase
        BY <1>1, <1>3 DEF Phase
  <2> QED BY <1>1, <2>1, Executor, ExecutorNext, Idle DEF IInv
<1> QED BY <1>2, <1>3

LEMMA ExitView == ASSUME IInv, IInv', ExitProcess PROVE IC!Next \/ Same
<1>1. cycle' = "Exited" /\ UNCHANGED <<nmi_latch, int_latch>>
      BY DEF ExitProcess, At, latches
<1> QED BY <1>1, Ends DEF IInv, IC!Next

LEMMA NmiView == ASSUME IInv, IInv', CheckNmi PROVE IC!Next \/ Same
<1>1. /\ caller = "executor" /\ step = 0 /\ cycle = "CheckNmi" /\ ~int_response /\ t = 1
      /\ UNCHANGED <<halt, mask, iff1, iff2, int_response, int_latch>>
      BY DEF CheckNmi, IInv, Position, DecoderState, Here, outputs, response, mask
<1>2. ~AckPending
      BY <1>1, Executor
<1>3. CASE TakesNmi
  <2>1. /\ nmi_latch /\ nmi_latch' = FALSE /\ cycle' = "NmiAck" /\ caller' = "nmi_acknowledge"
        /\ step' = 0 /\ t' = 1
        BY <1>1, <1>3 DEF CheckNmi, TakesNmi
  <2>2. AckPending'
        BY <2>1 DEF AckPending, Acknowledging
  <2>3. Enabled' = FALSE /\ Saved' = iff1' /\ Enabled = iff1
        BY <1>2, <2>1, <2>2, Masks, MasksNext DEF IInv
  <2>4. Phase \in {"Run", "Halt"} /\ Phase' = "Nmi"
        BY <1>1, <2>1, Phases, PhasesNext
  <2>5. IC!AcceptNmi
        BY <1>1, <2>1, <2>3, <2>4 DEF IC!AcceptNmi
  <2> QED BY <2>5 DEF IC!Next
<1>4. CASE ~TakesNmi
  <2>1. cycle' = "CheckInt" /\ caller' = "executor" /\ nmi_latch' = nmi_latch
        BY <1>4 DEF CheckNmi, At
  <2>2. Phase' = Phase
        BY <1>1, <2>1 DEF Phase
  <2> QED BY <1>1, <1>2, <2>1, <2>2, ExecutorNext, Idle DEF IInv
<1> QED BY <1>3, <1>4

LEMMA IntView == ASSUME IInv, IInv', CheckInt PROVE IC!Next \/ Same
<1>1. /\ caller = "executor" /\ step = 0 /\ cycle = "CheckInt" /\ ~int_response /\ t = 1
      /\ UNCHANGED <<halt, mask, iff1, iff2, int_response, nmi_latch>>
      BY DEF CheckInt, IInv, Position, DecoderState, Here, outputs, response, mask
<1>2. ~AckPending
      BY <1>1, Executor
<1>3. CASE TakesInt
  <2>1. /\ int_latch /\ iff1 /\ int_latch' = FALSE /\ cycle' = "IntAck"
        /\ caller' = "int_acknowledge" /\ step' = 0 /\ t' = 1
        BY <1>1, <1>3 DEF CheckInt, TakesInt
  <2>2. AckPending'
        BY <2>1 DEF AckPending, Acknowledging
  <2>3. Enabled' = FALSE /\ Saved' = FALSE /\ Enabled
        BY <1>2, <2>1, <2>2, Masks, MasksNext DEF IInv
  <2>4. Phase \in {"Run", "Halt"} /\ Phase' = "Int"
        BY <1>1, <2>1, Phases, PhasesNext
  <2>5. IC!AcceptInt
        BY <1>1, <2>1, <2>3, <2>4 DEF IC!AcceptInt
  <2> QED BY <2>5 DEF IC!Next
<1>4. CASE ~TakesInt
  <2>1. cycle' = "Loop" /\ caller' = "executor" /\ int_latch' = int_latch
        BY <1>4 DEF CheckInt, At
  <2>2. Phase' = Phase
        BY <1>1, <2>1 DEF Phase
  <2> QED BY <1>1, <1>2, <2>1, <2>2, ExecutorNext, Idle DEF IInv
<1> QED BY <1>3, <1>4

\* The PC is written, and the CPU runs again.
LEMMA HandlerView == ASSUME IInv, IInv', EnterHandler PROVE IC!Next \/ Same
<1>1. /\ cycle = "Return" /\ caller \in {"nmi_acknowledge", "int_acknowledge"} /\ step > 0
      /\ ~int_response /\ ~halt
      BY DEF EnterHandler, IInv, Position, DecoderState, HaltState, HaltQuiet, Here
<1>2. /\ caller' = "executor" /\ cycle' \in {"CheckInt", "Loop"}
      /\ UNCHANGED <<halt, mask, iff1, iff2, int_response, nmi_latch, int_latch>>
      BY DEF EnterHandler, At, outputs, mask, response, latches
<1>3. ~AckPending
      BY <1>1 DEF AckPending
<1>4. ~AckPending'
      BY <1>2, ExecutorNext
<1>5. Enabled' = Enabled /\ Saved' = Saved
      BY <1>2, <1>3, <1>4, Masks, MasksNext DEF IInv
<1>6. Phase \in {"Nmi", "Int"} /\ Phase' = "Run"
      BY <1>1, <1>2, Phases, PhasesNext
<1>7. IC!EnterHandler
      BY <1>2, <1>5, <1>6 DEF IC!EnterHandler
<1> QED BY <1>7 DEF IC!Next

\* EI, DI, RETN, HALT, and the instructions that change none of this.
LEMMA ExecuteView == ASSUME IInv, IInv', ExecuteInstruction PROVE IC!Next \/ Same
<1> DEFINE i == current_instruction
<1>1. /\ cycle = "Return" /\ caller = "execute_instruction" /\ ~int_response
      /\ caller' = "executor" /\ cycle' = "CheckNmi"
      /\ UNCHANGED <<int_response, nmi_latch, int_latch>>
      BY DEF ExecuteInstruction, At, IInv, DecoderState, response, latches
<1>2. /\ iff1' = Iff1After(i, iff1, iff2) /\ iff2' = Iff2After(i, iff2)
      /\ halt' = (halt \/ i = "HALT")
      BY DEF ExecuteInstruction
<1>3. Enabled = iff1 /\ Saved = iff2 /\ Enabled' = iff1' /\ Saved' = iff2'
      BY <1>1, Executor, ExecutorNext, Masks, MasksNext DEF IInv
<1>4. Phase = IF halt THEN "Halt" ELSE "Run"
      BY <1>1, Phases
<1>5. Phase' = IF halt' THEN "Halt" ELSE "Run"
      BY <1>1, PhasesNext
<1>6. halt => i = "NOP"
      BY <1>1 DEF IInv, HaltState, HaltQuiet
<1> HIDE DEF i
<1>7. CASE i \notin {"EI", "DI", "RETN", "HALT"}
  <2>1. iff1' = iff1 /\ iff2' = iff2
        BY <1>2, <1>7 DEF Iff1After, Iff2After
  <2>2. Phase' = Phase
        BY <1>2, <1>4, <1>5, <1>7
  <2> QED BY <1>1, <1>3, <2>1, <2>2 DEF Same
<1>8. CASE i = "HALT"
  <2>1. iff1' = iff1 /\ iff2' = iff2
        BY <1>2, <1>8 DEF Iff1After, Iff2After
  <2>2. Phase = "Run" /\ Phase' = "Halt"
        BY <1>2, <1>4, <1>5, <1>6, <1>8
  <2>3. IC!Stop
        BY <1>1, <1>3, <2>1, <2>2 DEF IC!Stop
  <2> QED BY <2>3 DEF IC!Next
<1>9. CASE i \in {"EI", "DI", "RETN"}
  <2>1. Phase = "Run" /\ Phase' = "Run"
        BY <1>2, <1>4, <1>5, <1>6, <1>9
  <2>2. \/ iff1' = TRUE /\ iff2' = TRUE
        \/ iff1' = FALSE /\ iff2' = FALSE
        \/ iff1' = iff2 /\ iff2' = iff2
        BY <1>2, <1>9 DEF Iff1After, Iff2After
  <2>3. IC!Execute
        BY <1>1, <1>3, <2>1, <2>2 DEF IC!Execute
  <2> QED BY <2>3 DEF IC!Next
<1> QED BY <1>7, <1>8, <1>9

\* HALT ends on the first clock of a reset, the masks close on its third.
LEMMA ResetView == ASSUME IInv, IInv', ResetClock PROVE IC!Next \/ Same
<1>1. /\ caller = "executor" /\ caller' = "executor" /\ cycle = "Reset"
      /\ t \in 1..3 /\ (t # 1 => ~halt) /\ cycle' # "Exited"
      /\ UNCHANGED <<int_response, nmi_latch, int_latch, iff2>>
      BY DEF ResetClock, NextClock, At, IInv, Position, Here, HaltState, HaltQuiet, response, latches
<1>2. /\ Enabled = iff1 /\ Saved = iff2 /\ Enabled' = iff1' /\ Saved' = iff2'
      BY <1>1, Executor, ExecutorNext, Masks, MasksNext DEF IInv
<1>3. int_response => ~iff1 /\ ~halt
      BY DEF IInv, MaskState, HandlerMasked, DecoderState
<1>4. CASE t = 1
  <2>1. halt' = FALSE /\ iff1' = iff1
        BY <1>4 DEF ResetClock
  <2>2. CASE halt
    <3>1. Phase = "Halt" /\ Phase' = "Run"
          BY <1>1, <1>3, <2>1, <2>2, Phases, PhasesNext
    <3>2. IC!ResetWakes
          BY <1>1, <1>2, <2>1, <3>1 DEF IC!ResetWakes
    <3> QED BY <3>2 DEF IC!Next
  <2>3. CASE ~halt
    <3>1. Phase' = Phase
          BY <1>1, <2>1, <2>3, Phases, PhasesNext
    <3> QED BY <1>1, <1>2, <2>1, <3>1 DEF Same
  <2> QED BY <2>2, <2>3
<1>5. CASE t # 1
  <2>1. ~halt /\ ~halt'
        BY <1>1, <1>5 DEF ResetClock
  <2>2. Phase' = Phase
        BY <1>1, <2>1, Phases, PhasesNext
  <2>3. iff1' = iff1 \/ iff1' = FALSE
        BY <1>1, <1>5 DEF ResetClock
  <2>4. CASE iff1' = iff1
        BY <1>1, <1>2, <2>2, <2>4 DEF Same
  <2>5. CASE iff1' = FALSE /\ iff1' # iff1
    <3>1. ~int_response
          BY <1>3, <2>5 DEF IInv, TypeOK, FlagType
    <3>2. Phase = "Run"
          BY <1>1, <2>1, <3>1, Phases
    <3>3. IC!ResetMasks
          BY <1>1, <1>2, <2>2, <2>5, <3>2 DEF IC!ResetMasks
    <3> QED BY <3>3 DEF IC!Next
  <2> QED BY <2>3, <2>4, <2>5
<1> QED BY <1>4, <1>5

LEMMA HaltView == ASSUME IInv, IInv', HaltClock PROVE IC!Next \/ Same
<1>1. /\ caller = "executor" /\ cycle = "Halt" /\ halt /\ ~int_response /\ ~int_response'
      /\ UNCHANGED <<halt, mask, nmi_latch, int_latch>>
      BY DEF HaltClock, IInv, Position, Here, HaltState, DecoderState, latches
<1>2. caller' \in {"executor", "execute_instruction"} /\ cycle' # "Exited"
      BY <1>1 DEF HaltClock, NextClock, Run
<1>3. Phase' = Phase
      BY <1>1, <1>2, Phases, PhasesNext
<1> QED BY <1>1, <1>2, <1>3, Executor, ExecutorNext, Idle DEF IInv

-----------------------------------------------------------------------------
(* Clocks within a machine cycle.                                          *)

\* The last byte of a mode 0 response ends the acknowledge.
LEMMA DecodeView ==
    ASSUME IInv, IInv', Decode, caller = "executor", ~halt, cycle # "Exited",
           UNCHANGED <<halt, mask, nmi_latch, int_latch>>
    PROVE  IC!Next \/ Same
<1>1. ~AckPending
      BY Executor
<1>2. CASE DecodePart
  <2>1. cycle' = "Loop" /\ caller' = "executor" /\ int_response' = int_response
        BY <1>2 DEF DecodePart, At
  <2>2. Phase' = Phase
        BY <2>1 DEF Phase
  <2> QED BY <1>1, <2>1, <2>2, ExecutorNext, Idle DEF IInv
<1>3. CASE DecodeLast
  <2>1. caller' = "execute_instruction" /\ ~int_response'
        BY <1>3 DEF DecodeLast, Run
  <2>2. cycle' # "Exited"
        BY <2>1 DEF IInv, Position, Here
  <2>3. ~AckPending' /\ Phase' = "Run"
        BY <2>1, <2>2, ExecutorNext, PhasesNext
  <2>4. CASE int_response
    <3>1. Phase = "Int"
          BY <2>4, Phases
    <3>2. Enabled' = Enabled /\ Saved' = Saved
          BY <1>1, <2>3, Masks, MasksNext DEF IInv, mask
    <3>3. IC!EnterHandler
          BY <2>3, <3>1, <3>2 DEF IC!EnterHandler
    <3> QED BY <3>3 DEF IC!Next
  <2>5. CASE ~int_response
    <3>1. Phase = "Run"
          BY <2>5, Phases
    <3> QED BY <1>1, <2>3, <3>1, Idle DEF IInv
  <2> QED BY <2>4, <2>5
<1> QED BY <1>2, <1>3 DEF Decode

\* The first clock of a machine cycle, or of one that a bus grant held back:
\* here the masks become what they are already shown to be.
LEMMA OpenView ==
    ASSUME IInv, IInv', Open(Here), Here \in MCycle, cycle = "BusAck" \/ t = 1,
           UNCHANGED <<nmi_latch, int_latch>>
    PROVE  IC!Next \/ Same
<1>1. cycle # "Exited"
      BY DEF Here, MCycle, BusCycle
<1>2. CASE Here = "Fetch"
  <2>1. caller = "executor" /\ ~halt
        BY <1>2 DEF IInv, Position, HaltState, HaltQuiet, Here
  <2>2. OpenFetch /\ UNCHANGED <<halt, mask>>
        BY <1>2 DEF Open, BusCycle
  <2>3. CASE TakeVector
    <3>1. Decode
          BY <2>3 DEF TakeVector
    <3> QED BY <1>1, <2>1, <2>2, <3>1, DecodeView
  <2>4. CASE ~TakeVector
    <3>1. cycle' = "Fetch" /\ UNCHANGED <<caller, int_response>>
          BY <2>2, <2>4 DEF OpenFetch, response
    <3>2. Phase' = Phase
          BY <1>1, <2>2, <3>1 DEF Phase
    <3> QED BY <2>1, <2>2, <3>1, <3>2, Executor, ExecutorNext, Idle DEF IInv
  <2> QED BY <2>3, <2>4
<1>3. CASE Here \in BusCycle
  <2>1. /\ cycle' = Here /\ UNCHANGED <<caller, step, halt, mask, int_response>>
        BY <1>3 DEF Open, OpenBusCycle, BusCycle, response
  <2>2. step > 0 /\ step \in Nat
        BY <1>3 DEF IInv, Position, TypeOK, PlaceType
  <2>3. ~AckPending /\ ~AckPending'
        BY <2>1, <2>2 DEF AckPending
  <2>4. Phase' = Phase
        BY <1>1, <1>3, <2>1 DEF Phase, BusCycle
  <2> QED BY <2>1, <2>3, <2>4, Idle DEF IInv
<1>4. CASE Here = "IntAck"
  <2>1. /\ cycle' = "IntAck" /\ t' = 2 /\ iff1' = FALSE /\ iff2' = FALSE
        /\ UNCHANGED <<caller, step, int_response>>
        /\ caller = "int_acknowledge" /\ step = 0
        BY <1>4 DEF Open, OpenIntAck, BusCycle, response, IInv, Position
  <2>2. AckPending /\ ~AckPending'
        BY <2>1 DEF AckPending, Acknowledging
  <2>3. Enabled' = Enabled /\ Saved' = Saved
        BY <2>1, <2>2, Masks, MasksNext DEF IInv
  <2>4. Phase' = Phase
        BY <1>1, <2>1, Phases, PhasesNext
  <2> QED BY <2>3, <2>4 DEF Same
<1>5. CASE Here = "NmiAck"
  <2>1. /\ Run("nmi_acknowledge", PushPC, 1) /\ iff2' = iff1 /\ iff1' = FALSE
        /\ int_response' = int_response
        /\ caller = "nmi_acknowledge" /\ step = 0
        BY <1>5 DEF Open, OpenNmiAck, BusCycle, response, IInv, Position
  <2>2. caller' = "nmi_acknowledge" /\ step' = 1 /\ cycle' # "Exited"
        BY <2>1 DEF Run, PushPC
  <2>3. AckPending
        BY <2>1 DEF AckPending, Acknowledging
  <2>4. ~AckPending'
        BY <2>2 DEF AckPending
  <2>5. Enabled' = Enabled /\ Saved' = Saved
        BY <2>1, <2>3, <2>4, Masks, MasksNext DEF IInv
  <2>6. ~int_response
        BY <2>1 DEF IInv, DecoderState
  <2>7. Phase' = Phase
        BY <1>1, <2>1, <2>2, <2>6, Phases, PhasesNext
  <2> QED BY <2>1, <2>5, <2>7 DEF Same
<1> QED BY <1>2, <1>3, <1>4, <1>5 DEF MCycle

LEMMA FirstClockView == ASSUME IInv, IInv', FirstClock PROVE IC!Next \/ Same
<1>1. /\ cycle \in MCycle /\ cycle # "BusAck" /\ cycle # "Exited" /\ Here = cycle /\ t = 1
      /\ UNCHANGED <<nmi_latch, int_latch>>
      BY DEF FirstClock, MCycle, BusCycle, Here, latches
<1>2. CASE read_busreq /\ PollsBusreq
  <2>1. cycle' = "BusAck" /\ UNCHANGED <<caller, step, halt, mask, iff1, iff2, int_response>>
        BY <1>2 DEF FirstClock, response, mask
  <2>2. AckPending' = AckPending
        BY <1>1, <2>1 DEF AckPending, Acknowledging
  <2>3. Enabled' = Enabled /\ Saved' = Saved
        BY <2>1, <2>2 DEF Enabled, Saved
  <2>4. Phase' = Phase
        BY <1>1, <2>1 DEF Phase
  <2> QED BY <1>1, <2>3, <2>4 DEF Same
<1>3. CASE ~(read_busreq /\ PollsBusreq)
      BY <1>1, <1>3, OpenView DEF FirstClock
<1> QED BY <1>2, <1>3

LEMMA GrantClockView == ASSUME IInv, IInv', BusAckClock PROVE IC!Next \/ Same
<1>1. /\ cycle = "BusAck" /\ cycle' = "BusAck"
      /\ UNCHANGED <<caller, step, halt, iff1, iff2, int_response, nmi_latch, int_latch>>
      BY DEF BusAckClock, mask, response, latches
<1>2. AckPending' = AckPending
      BY <1>1 DEF AckPending, Acknowledging
<1> QED BY <1>1, <1>2 DEF Same, Enabled, Saved, Phase

LEMMA GrantPollView == ASSUME IInv, IInv', BusAckPoll PROVE IC!Next \/ Same
<1>1. cycle = "BusAck" /\ resume \in MCycle /\ Here = resume /\ UNCHANGED <<nmi_latch, int_latch>>
      BY DEF BusAckPoll, IInv, GrantOwned, Here, latches
<1>2. CASE KeepGrant
  <2>1. /\ cycle' = "BusAck"
        /\ UNCHANGED <<caller, step, halt, iff1, iff2, int_response>>
        BY <1>1, <1>2 DEF KeepGrant, mask, response, outputs
  <2>2. AckPending' = AckPending
        BY <1>1, <2>1 DEF AckPending, Acknowledging
  <2> QED BY <1>1, <2>1, <2>2 DEF Same, Enabled, Saved, Phase
<1>3. CASE EndGrant
      BY <1>1, <1>3, OpenView DEF EndGrant
<1> QED BY <1>2, <1>3 DEF BusAckPoll

LEMMA FetchView == ASSUME IInv, IInv', FetchClock PROVE IC!Next \/ Same
<1>1. /\ cycle = "Fetch" /\ caller = "executor" /\ ~halt
      /\ UNCHANGED <<halt, mask, nmi_latch, int_latch>>
      BY DEF FetchClock, IInv, Position, HaltState, HaltQuiet, Here, latches
<1>2. CASE Decode
      BY <1>1, <1>2, DecodeView
<1>3. CASE ~Decode
  <2>1. cycle' = "Fetch" /\ caller' = "executor" /\ int_response' = int_response
        BY <1>1, <1>3 DEF FetchClock, NextClock
  <2>2. Phase' = Phase
        BY <1>1, <2>1 DEF Phase
  <2> QED BY <1>1, <2>1, <2>2, Executor, ExecutorNext, Idle DEF IInv
<1> QED BY <1>2, <1>3

LEMMA BusView == ASSUME IInv, IInv', BusClock PROVE IC!Next \/ Same
<1>1. /\ cycle \in BusCycle /\ cycle # "Exited" /\ step \in Nat /\ step > 0 /\ caller # "executor"
      /\ UNCHANGED <<halt, mask, int_response, nmi_latch, int_latch>>
      BY DEF BusClock, IInv, Position, Here, BusCycle, Routine, TypeOK, PlaceType, latches, response
<1>2. caller' = caller /\ step' > 0
      BY <1>1 DEF BusClock, NextClock, Run
<1>3. cycle' # "Exited"
      BY <1>1, <1>2 DEF IInv, Position, Here
<1>4. ~AckPending
      BY <1>1 DEF AckPending
<1>5. ~AckPending'
      BY <1>2 DEF AckPending
<1>6. Phase' = Phase
      BY <1>1, <1>2, <1>3 DEF Phase
<1> QED BY <1>1, <1>4, <1>5, <1>6, Idle DEF IInv

LEMMA VectorView == ASSUME IInv, IInv', IntAckClock PROVE IC!Next \/ Same
<1>1. /\ cycle = "IntAck" /\ caller = "int_acknowledge" /\ step = 0 /\ t \in 2..5 /\ ~halt
      /\ UNCHANGED <<halt, mask, nmi_latch, int_latch>>
      BY DEF IntAckClock, IInv, Position, MaskState, Here, TypeOK, PlaceType, latches
<1>2. ~AckPending
      BY <1>1 DEF AckPending
<1>3. CASE t # 5
  <2>1. cycle' = "IntAck" /\ caller' = "int_acknowledge" /\ t' = t + 1
        BY <1>1, <1>3 DEF IntAckClock, NextClock
  <2>2. ~AckPending'
        BY <1>1, <2>1 DEF AckPending
  <2>3. Phase' = Phase
        BY <1>1, <2>1, Phases, PhasesNext
  <2> QED BY <1>1, <1>2, <2>2, <2>3, Idle DEF IInv
<1>4. CASE t = 5 /\ interrupt_mode = 0
  <2>1. cycle' = "Loop" /\ caller' = "executor" /\ int_response'
        BY <1>4 DEF IntAckClock, At
  <2>2. Phase' = Phase
        BY <1>1, <2>1, Phases, PhasesNext
  <2> QED BY <1>1, <1>2, <2>1, <2>2, ExecutorNext, Idle DEF IInv
<1>5. CASE t = 5 /\ interrupt_mode # 0
  <2>1. caller' = "int_acknowledge" /\ step' = 1
        BY <1>5 DEF IntAckClock, Run
  <2>2. cycle' # "Exited"
        BY <2>1 DEF IInv, Position, Here
  <2>3. ~AckPending'
        BY <2>1 DEF AckPending
  <2>4. Phase' = Phase
        BY <1>1, <2>1, <2>2, Phases, PhasesNext
  <2> QED BY <1>1, <1>2, <2>3, <2>4, Idle DEF IInv
<1> QED BY <1>3, <1>4, <1>5

-----------------------------------------------------------------------------
(* All steps.                                                              *)

LEMMA EnvironmentView == ASSUME IInv, IInv', Environment PROVE IC!Next \/ Same
<1>1. UNCHANGED <<cycle, t, caller, step, halt, iff1, iff2, int_response>>
      BY DEF Environment, cycle_clock, signal_int, signal_nmi, kill, SetPin, DriveDataBus,
             cpu, place, mask, response
<1>2. Enabled' = Enabled /\ Saved' = Saved /\ Phase' = Phase
      BY <1>1 DEF Enabled, Saved, Phase, AckPending, Acknowledging
<1>3. CASE signal_nmi
      BY <1>2, <1>3 DEF signal_nmi, IC!SignalNmi, IC!Next
<1>4. CASE signal_int
      BY <1>2, <1>4 DEF signal_int, IC!SignalInt, IC!Next
<1>5. CASE cycle_clock \/ kill \/ DriveDataBus \/ \E b \in Source : SetPin(b)
  <2>1. UNCHANGED <<nmi_latch, int_latch>>
        BY <1>5 DEF cycle_clock, kill, SetPin, DriveDataBus, latches
  <2> QED BY <1>2, <2>1 DEF Same
<1> QED BY <1>3, <1>4, <1>5 DEF Environment

LEMMA StutterView == ASSUME UNCHANGED vars PROVE Same
<1>1. UNCHANGED <<cycle, t, caller, step, halt, iff1, iff2, int_response, nmi_latch, int_latch>>
      BY DEF vars, place, outputs, mask, response, latches
<1> QED BY <1>1 DEF Same, Enabled, Saved, Phase, AckPending, Acknowledging

LEMMA StepView == ASSUME IInv, IInv', [Next]_vars PROVE IC!Next \/ Same
<1>1. CASE CpuStep
      BY <1>1, LoopView, ResetView, HaltView, FirstClockView, FetchView, BusView, VectorView,
         GrantClockView, GrantPollView, ExecuteView, HandlerView, NmiView, IntView, ExitView
         DEF CpuStep
<1>2. CASE Environment
      BY <1>2, EnvironmentView
<1>3. CASE UNCHANGED vars
      BY <1>3, StutterView
<1> QED BY <1>1, <1>2, <1>3 DEF Next

\* Interrupts look atomic, whatever the bytes, the program and the pins: the
\* test of a latch, the wait for a clock, a bus grant and the assignments to
\* halt and the masks are together one step of InterruptControl (nmi_acknowledge
\* and int_acknowledge).
THEOREM ImplementsSafe == Spec => ImplementsInterruptControl
<1>1. Init => IC!Init
  <2> SUFFICES ASSUME Init PROVE IC!Init
      OBVIOUS
  <2>1. /\ ~AckPending /\ iff1 = FALSE /\ iff2 = FALSE
        /\ nmi_latch = FALSE /\ int_latch = FALSE
        BY DEF Init, AckPending, Acknowledging
  <2>2. Enabled = FALSE /\ Saved = FALSE
        BY <2>1 DEF Enabled, Saved
  <2>3. Phase = "Run"
        BY Phases DEF Init
  <2> QED BY <2>1, <2>2, <2>3 DEF IC!Init
<1>2. IInv /\ IInv' /\ [Next]_vars => [IC!Next]_(IC!vars)
  <2>1. Same => UNCHANGED IC!vars
        BY DEF Same, IC!vars
  <2> QED BY <2>1, StepView
<1> QED BY <1>1, <1>2, Inductive, PTL DEF Spec, ImplementsInterruptControl, IC!Spec

-----------------------------------------------------------------------------
(* RETN.                                                                   *)

\* IFF2 holds what IFF1 was when the NMI was accepted whose handler runs.
SavedMask == interrupted \in {"enabled", "masked", "none"}
             /\ (interrupted # "none" => iff2 = (interrupted = "enabled"))

\* What a step does to IFF2: nothing, or it saves IFF1 as it accepts an NMI,
\* or the program has used the masks.
KeepsIff2 == iff2' = iff2 /\ ~AcceptsNmi
SavesIff1 == AcceptsNmi /\ iff2' = iff1
GivesUp   == UsesMasks /\ ~AcceptsNmi

LEMMA NmiAckOnly == ASSUME IInv, AcceptsNmi PROVE Here = "NmiAck"
<1>1. Here \in MCycle \cup {"Loop", "Reset", "Halt", "Return", "CheckNmi", "CheckInt", "Exited"}
      BY DEF IInv, TypeOK, PlaceType, GrantOwned, Here
<1>2. caller = "nmi_acknowledge" /\ step = 0
      BY DEF AcceptsNmi
<1> QED BY <1>1, <1>2 DEF IInv, Position, MCycle

LEMMA OpenIff2 ==
    ASSUME IInv, Open(Here), Here \in MCycle
    PROVE  KeepsIff2 \/ SavesIff1 \/ GivesUp
<1>1. CASE Here \in BusCycle \cup {"Fetch"}
  <2>1. iff2' = iff2 /\ Here # "NmiAck"
        BY <1>1 DEF Open, BusCycle, mask
  <2> QED BY <2>1, NmiAckOnly DEF KeepsIff2
<1>2. CASE Here = "IntAck"
  <2>1. caller' = "int_acknowledge"
        BY <1>2 DEF Open, OpenIntAck, BusCycle, IInv, Position
  <2> QED BY <1>2, <2>1, NmiAckOnly DEF GivesUp, UsesMasks
<1>3. CASE Here = "NmiAck"
  <2>1. caller = "nmi_acknowledge" /\ step = 0 /\ step' = 1 /\ iff2' = iff1
        BY <1>3 DEF Open, OpenNmiAck, Run, BusCycle, IInv, Position
  <2> QED BY <2>1 DEF SavesIff1, AcceptsNmi
<1> QED BY <1>1, <1>2, <1>3 DEF MCycle

LEMMA ExecuteIff2 ==
    ASSUME IInv, ExecuteInstruction
    PROVE  KeepsIff2 \/ SavesIff1 \/ GivesUp
<1>1. /\ cycle = "Return" /\ caller' = "executor" /\ Here # "NmiAck"
      /\ iff2' = Iff2After(current_instruction, iff2)
      BY DEF ExecuteInstruction, At, Here
<1>2. CASE current_instruction \in {"EI", "DI"}
      BY <1>1, <1>2, NmiAckOnly DEF GivesUp, UsesMasks, Executes
<1>3. CASE current_instruction \notin {"EI", "DI"}
      BY <1>1, <1>3, NmiAckOnly DEF KeepsIff2, Iff2After
<1> QED BY <1>2, <1>3

LEMMA StepIff2 ==
    ASSUME IInv, [Next]_vars
    PROVE  KeepsIff2 \/ SavesIff1 \/ GivesUp
<1>1. CASE FirstClock
  <2>1. Here = cycle /\ cycle \in MCycle
        BY <1>1 DEF FirstClock, Here, MCycle, BusCycle
  <2>2. CASE read_busreq /\ PollsBusreq
        BY <1>1, <2>2 DEF FirstClock, KeepsIff2, AcceptsNmi, mask
  <2>3. CASE ~(read_busreq /\ PollsBusreq)
        BY <1>1, <2>1, <2>3, OpenIff2 DEF FirstClock
  <2> QED BY <2>2, <2>3
<1>2. CASE BusAckPoll
  <2>1. Here = resume /\ resume \in MCycle
        BY <1>2 DEF BusAckPoll, IInv, GrantOwned, Here
  <2>2. CASE KeepGrant
        BY <2>2 DEF KeepGrant, KeepsIff2, AcceptsNmi, mask
  <2>3. CASE EndGrant
        BY <2>1, <2>3, OpenIff2 DEF EndGrant
  <2> QED BY <1>2, <2>2, <2>3 DEF BusAckPoll
<1>3. CASE ExecuteInstruction
      BY <1>3, ExecuteIff2
<1>4. CASE BusAckClock \/ Environment \/ UNCHANGED vars
  <2>1. step' = step /\ iff2' = iff2
        BY <1>4 DEF BusAckClock, Environment, cycle_clock, signal_int, signal_nmi, kill, SetPin,
                    DriveDataBus, cpu, vars, place, mask
  <2> QED BY <2>1 DEF KeepsIff2, AcceptsNmi
<1>5. CASE ExitProcess
      BY <1>5 DEF ExitProcess, At, KeepsIff2, AcceptsNmi, mask
<1>6. CASE \/ ExecutorLoop \/ ResetClock \/ HaltClock \/ FetchClock \/ BusClock \/ IntAckClock
           \/ EnterHandler \/ CheckNmi \/ CheckInt
  <2>1. iff2' = iff2
        BY <1>6 DEF ExecutorLoop, ResetClock, HaltClock, FetchClock, BusClock, IntAckClock,
                    EnterHandler, CheckNmi, CheckInt, mask
  <2>2. \/ Here # "NmiAck"
        \/ cycle = "NmiAck" /\ t > 1
        BY <1>6 DEF ExecutorLoop, ResetClock, HaltClock, FetchClock, BusClock, IntAckClock,
                    EnterHandler, CheckNmi, CheckInt, Here, BusCycle
  <2>3. Here # "NmiAck"
        BY <2>2 DEF IInv, Position
  <2> QED BY <2>1, <2>3, NmiAckOnly DEF KeepsIff2
<1> QED BY <1>1, <1>2, <1>3, <1>4, <1>5, <1>6 DEF Next, CpuStep

LEMMA SavedMaskStep ==
    ASSUME IInv, SavedMask, [HistoryNext]_<<vars, interrupted>>
    PROVE  SavedMask'
<1>1. CASE HistoryNext
  <2>1. KeepsIff2 \/ SavesIff1 \/ GivesUp
        BY <1>1, StepIff2 DEF HistoryNext
  <2>2. interrupted' = IF AcceptsNmi THEN IF iff1 THEN "enabled" ELSE "masked"
                       ELSE IF UsesMasks THEN "none" ELSE interrupted
        BY <1>1 DEF HistoryNext, Remember
  <2>3. iff1 \in BOOLEAN /\ iff2 \in BOOLEAN
        BY DEF IInv, TypeOK, FlagType
  <2> QED BY <2>1, <2>2, <2>3 DEF SavedMask, KeepsIff2, SavesIff1, GivesUp
<1>2. CASE UNCHANGED <<vars, interrupted>>
      BY <1>2 DEF SavedMask, vars, mask
<1> QED BY <1>1, <1>2

\* RETN gives the interrupted program the mask it had, whatever the handler
\* did apart from using the masks itself (nmi_acknowledge and the RETN case of
\* execute_instruction).
THEOREM RetnRestoresMaskSafe == HistorySpec => RetnRestoresMask
<1>1. HistoryInit => Init /\ SavedMask
      BY DEF HistoryInit, SavedMask
<1>2. [HistoryNext]_<<vars, interrupted>> => [Next]_vars
      BY DEF HistoryNext
<1>3. IInv /\ SavedMask /\ [HistoryNext]_<<vars, interrupted>> => SavedMask'
      BY SavedMaskStep
<1>4. IInv /\ SavedMask /\ [HistoryNext]_<<vars, interrupted>>
        => [Executes("RETN") /\ interrupted # "none" =>
              iff1' = (interrupted = "enabled")]_<<vars, interrupted>>
  <2> SUFFICES ASSUME IInv, SavedMask, Next, Executes("RETN"), interrupted # "none"
               PROVE  iff1' = (interrupted = "enabled")
      BY DEF HistoryNext
  <2>1. /\ cycle = "Return" /\ current_instruction = "RETN" /\ caller = "execute_instruction"
        /\ caller' = "executor"
        BY DEF Executes, IInv, DecoderState
  <2>2. ExecuteInstruction
        BY <2>1 DEF Next, CpuStep, Environment, ExecutorLoop, ResetClock, HaltClock, FirstClock,
                    FetchClock, BusClock, IntAckClock, BusAckClock, BusAckPoll, EnterHandler,
                    CheckNmi, CheckInt, ExitProcess, Waiting, MCycle, BusCycle, cycle_clock,
                    signal_int, signal_nmi, kill, SetPin, DriveDataBus, cpu, place
  <2>3. iff1' = iff2
        BY <2>1, <2>2 DEF ExecuteInstruction, Iff1After
  <2> QED BY <2>3 DEF SavedMask
<1>5. HistorySpec => Spec
      BY <1>1, <1>2, PTL DEF HistorySpec, Spec
<1> QED BY <1>1, <1>3, <1>4, <1>5, Inductive, PTL DEF HistorySpec, RetnRestoresMask
=============================================================================
