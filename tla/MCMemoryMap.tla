----------------------------- MODULE MCMemoryMap -----------------------------
(***************************************************************************)
(* Module Bus for TLC: six addresses, and the ranges two ROM and RAM       *)
(* regions of main, or a careless host program, may be given; the terminal *)
(* of main and another device on two ports.                                *)
(***************************************************************************)
EXTENDS Bus

CONSTANTS rom, ram, bank, patch, term, disk

SixAddresses == 0..5

\* The regions of main, scaled, and two more.
Sizes == [r \in Region |-> IF r = ram THEN 4 ELSE 2]

Map(r, low, high) == [region |-> r, low |-> low, high |-> high]

\* Every pair of them is disjoint or overlaps at an end.
SideBySide == {Map(rom, 0, 1), Map(ram, 2, 5), Map(bank, 1, 2), Map(patch, 5, 5)}

\* The RAM around a bank that was mapped before it.
Around == {Map(rom, 0, 1), Map(ram, 2, 5), Map(bank, 3, 4)}
=============================================================================
