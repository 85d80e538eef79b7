--------------------------- MODULE InstructionKinds ---------------------------
(***************************************************************************)
(* What the clocked CPU of module Soft80 knows of instructions: kinds of   *)
(* them, the machine cycles execute_instruction runs for each kind, what   *)
(* it does to the control state, and which kinds may change the PC.        *)
(* Module Machine shows that the instructions themselves have no other     *)
(* cycles and no other effect on the control state.                        *)
(***************************************************************************)

BusCycle == {"MemRead", "MemWrite", "IORead", "IOWrite"}

\* Kinds of instruction: those that change control state one by one, the
\* others by the cycles they run.  OUT and INI stand for their repeating forms
\* too, RET for RETI, and NOP for whatever stays inside the register file.
Instruction ==
    {"NOP", "EI", "DI", "HALT", "IM0", "IM1", "IM2", "RETN", "LOAD", "STORE",
     "PUSH", "POP", "JR", "JP", "CALL", "CALLcc", "RET", "IN", "OUT", "INI"}

\* The cycles execute_instruction runs for each kind: the operand reads of its
\* prologue, the transfers of its case, and the result its epilogue writes
\* back through addr_dest.
Cycles ==
    [i \in Instruction |->
        CASE i = "LOAD"                   -> <<"MemRead">>
          [] i \in {"STORE", "JP"}        -> <<"MemRead", "MemWrite">>
          [] i \in {"PUSH", "CALL"}       -> <<"MemWrite", "MemWrite">>
          [] i = "CALLcc"                 -> <<"MemRead", "MemWrite", "MemWrite", "MemWrite">>
          [] i \in {"POP", "RET", "RETN"} -> <<"MemRead", "MemRead">>
          [] i = "IN"                     -> <<"MemRead", "IORead">>
          [] i = "OUT"                    -> <<"MemRead", "IOWrite">>
          [] i = "INI"                    -> <<"IORead", "MemWrite">>
          [] OTHER                        -> <<>>]

\* The kinds that may leave the PC somewhere else than after the instruction;
\* LOAD and STORE stand for CPIR and LDIR too.
Jump == {"LOAD", "STORE", "JR", "JP", "CALL", "CALLcc", "RET", "RETN", "OUT", "INI"}

-----------------------------------------------------------------------------
(* The control state after an instruction of kind i.                       *)

Iff1After(i, iff1, iff2) == CASE i = "EI" -> TRUE [] i = "DI" -> FALSE
                              [] i = "RETN" -> iff2 [] OTHER -> iff1

\* Fault: EI sets IFF1 only.
Iff2After_NotByEI(i, iff2) == IF i = "DI" THEN FALSE ELSE iff2
Iff2After(i, iff2) == CASE i = "EI" -> TRUE [] i = "DI" -> FALSE [] OTHER -> iff2

ModeAfter(i, mode) == CASE i = "IM0" -> 0 [] i = "IM1" -> 1 [] i = "IM2" -> 2
                        [] OTHER -> mode
===============================================================================
