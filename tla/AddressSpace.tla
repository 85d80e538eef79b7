----------------------------- MODULE AddressSpace -----------------------------
(***************************************************************************)
(* What the CPU expects of the memory it is given: one cell for each       *)
(* address, that keeps what was written last if it is RAM and never        *)
(* changes if it is ROM or not there.  Module MemoryMap maps the regions   *)
(* and mappings of the code to it.                                         *)
(***************************************************************************)
CONSTANTS Address, Byte

VARIABLES
    memory,     \* what a read returns
    kind        \* "none", "rom" or "ram"

Init == /\ memory \in [Address -> Byte]
        /\ kind = [a \in Address |-> "none"]

\* A region appears at addresses that were free, and all of it is one kind.
Install(place, k) ==
    /\ \A a \in place : kind[a] = "none"
    /\ kind' = [a \in Address |-> IF a \in place THEN k ELSE kind[a]]
    /\ \A a \in Address \ place : memory'[a] = memory[a]

Write(a, b) ==
    /\ kind[a] = "ram"
    /\ memory' = [memory EXCEPT ![a] = b]
    /\ UNCHANGED kind

Next == \/ \E place \in SUBSET Address, k \in {"rom", "ram"} : Install(place, k)
        \/ \E a \in Address, b \in Byte : Write(a, b)

Spec == Init /\ [][Next]_<<memory, kind>>
=============================================================================
