------------------------------ MODULE NmiReturn ------------------------------
(***************************************************************************)
(* Soft80 with a history variable: the state of the maskable interrupts    *)
(* when the CPU accepted the NMI whose handler is running.                 *)
(***************************************************************************)
EXTENDS Soft80Interrupts

VARIABLE interrupted    \* "enabled", "masked", or "none" if no handler is
                        \* running or it has used the masks itself

Executes(i) == cycle = "Return" /\ current_instruction = i /\ caller' = "executor"

AcceptsNmi == caller = "nmi_acknowledge" /\ step = 0 /\ step' = 1

UsesMasks == \/ Executes("EI") \/ Executes("DI") \/ Executes("RETN")
             \/ caller' = "int_acknowledge"

Remember ==
    interrupted' = IF AcceptsNmi THEN IF iff1 THEN "enabled" ELSE "masked"
                   ELSE IF UsesMasks THEN "none" ELSE interrupted

HistoryInit == Init /\ interrupted = "none"
HistoryNext == Next /\ Remember
HistorySpec == HistoryInit /\ [][HistoryNext]_<<vars, interrupted>>

\* RETN gives the interrupted program the mask it had, whatever happened in
\* the handler apart from EI, DI and another acknowledge: bus grants, HALT,
\* mode changes, and also a reset, which clears IFF1 but not IFF2.
RetnRestoresMask ==
    [][Executes("RETN") /\ interrupted # "none" =>
         iff1' = (interrupted = "enabled")]_<<vars, interrupted>>
=============================================================================
