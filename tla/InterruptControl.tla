-------------------------- MODULE InterruptControl --------------------------
(***************************************************************************)
(* What the CPU promises the software it runs and the devices attached to  *)
(* it about interrupts: a request stays pending until it is accepted, is   *)
(* accepted between two instructions only, and its acceptance and the      *)
(* change of the masks are one indivisible step.  Clocks, machine cycles,  *)
(* bus grants and wait states do not exist here; module Soft80Interrupts   *)
(* maps the clock-by-clock CPU to this module.                             *)
(***************************************************************************)

VARIABLES
    nmi, int,          \* requests pending
    enabled, saved,    \* IFF1 and IFF2 as the program sees them
    phase              \* Run, Halt, Nmi or Int (being answered), Off

vars == <<nmi, int, enabled, saved, phase>>

TypeOK == /\ nmi \in BOOLEAN /\ int \in BOOLEAN
          /\ enabled \in BOOLEAN /\ saved \in BOOLEAN
          /\ phase \in {"Run", "Halt", "Nmi", "Int", "Off"}

Init == /\ nmi = FALSE /\ int = FALSE
        /\ enabled = FALSE /\ saved = FALSE
        /\ phase = "Run"

SignalNmi == nmi' = TRUE /\ UNCHANGED <<int, enabled, saved, phase>>
SignalInt == int' = TRUE /\ UNCHANGED <<nmi, enabled, saved, phase>>

\* EI, DI and RETN
Execute ==
    /\ phase = "Run"
    /\ \/ enabled' = TRUE  /\ saved' = TRUE
       \/ enabled' = FALSE /\ saved' = FALSE
       \/ enabled' = saved /\ saved' = saved
    /\ UNCHANGED <<nmi, int, phase>>

Stop == /\ phase = "Run" /\ phase' = "Halt"
        /\ UNCHANGED <<nmi, int, enabled, saved>>

\* Acceptance wakes a halted CPU.
AcceptNmi == /\ phase \in {"Run", "Halt"} /\ nmi
             /\ nmi' = FALSE /\ phase' = "Nmi"
             /\ saved' = enabled /\ enabled' = FALSE
             /\ UNCHANGED int

AcceptInt == /\ phase \in {"Run", "Halt"} /\ int /\ enabled
             /\ int' = FALSE /\ phase' = "Int"
             /\ saved' = FALSE /\ enabled' = FALSE
             /\ UNCHANGED nmi

\* The return address is saved, or the device's instruction has arrived.
EnterHandler == /\ phase \in {"Nmi", "Int"} /\ phase' = "Run"
                /\ UNCHANGED <<nmi, int, enabled, saved>>

\* A short reset pulse only ends HALT, a longer one also masks interrupts.
ResetWakes == /\ phase = "Halt" /\ phase' = "Run"
              /\ UNCHANGED <<nmi, int, enabled, saved>>
ResetMasks == /\ phase = "Run" /\ enabled' = FALSE
              /\ UNCHANGED <<nmi, int, saved, phase>>

\* The process ends, at any point; its masks mean nothing any more.
PowerOff == /\ phase' = "Off"
            /\ enabled' \in BOOLEAN /\ saved' \in BOOLEAN
            /\ UNCHANGED <<nmi, int>>

Next == \/ SignalNmi \/ SignalInt \/ Execute \/ Stop
        \/ AcceptNmi \/ AcceptInt \/ EnterHandler
        \/ ResetWakes \/ ResetMasks \/ PowerOff

Spec == Init /\ [][Next]_vars
=============================================================================
