-------------------------- MODULE Soft80Interrupts --------------------------
(***************************************************************************)
(* Soft80 implements InterruptControl: the acceptance of a request, which  *)
(* the code spreads over the test of the latch, a wait for the clock, a    *)
(* possible bus grant and the assignments to halt and the masks, looks     *)
(* like one step.                                                          *)
(***************************************************************************)
EXTENDS Soft80

Acknowledging == caller \in {"nmi_acknowledge", "int_acknowledge"}

\* The latch is cleared but the masks are not written yet.
AckPending == /\ Acknowledging /\ step = 0
              /\ cycle = "BusAck" \/ t = 1

\* The masks and the phase as the program and the devices can see them.
Enabled == iff1 /\ ~AckPending
Saved   == IF AckPending THEN caller = "nmi_acknowledge" /\ iff1 ELSE iff2
Phase   == IF cycle = "Exited" THEN "Off"
           ELSE CASE caller = "nmi_acknowledge"                 -> "Nmi"
                  [] caller = "int_acknowledge" \/ int_response -> "Int"
                  [] OTHER -> IF halt THEN "Halt" ELSE "Run"

IC == INSTANCE InterruptControl WITH
        nmi     <- nmi_latch,
        int     <- int_latch,
        enabled <- Enabled,
        saved   <- Saved,
        phase   <- Phase

\* Interrupts look atomic: every step of the clocked CPU is a step of
\* InterruptControl or leaves it unchanged.
ImplementsInterruptControl == IC!Spec
=============================================================================
