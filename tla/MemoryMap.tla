------------------------------ MODULE MemoryMap ------------------------------
(***************************************************************************)
(* struct MemoryMap (include/memorymap.h): memory regions of the host      *)
(* program, ROM or RAM, mapped to ranges of the CPU's addresses.  main     *)
(* adds the mappings, the CPU reads and writes through them.               *)
(***************************************************************************)
EXTENDS Naturals, Sequences

CONSTANTS
    Address,    \* 16-bit addresses
    Byte,
    Region,     \* the MemoryBlock objects
    Size,       \* ... and how many bytes each holds
    RAM,        \* the Mutable ones; the others are ROM
    Request     \* mappings the host program asks for

ASSUME AddressAssumption == Address \subseteq Nat /\ 0 \in Byte /\ RAM \subseteq Region
ASSUME SizeAssumption    == Size \in [Region -> Nat]

\* A range is not empty and lies inside its region: nothing in the code
\* checks either.
ASSUME RequestAssumption ==
    \A m \in Request :
        /\ m.region \in Region /\ m.low \in Address /\ m.high \in Address
        /\ m.low <= m.high /\ m.high - m.low < Size[m.region]

VARIABLES mappings, data

vars == <<mappings, data>>

-----------------------------------------------------------------------------
Holds(m, a) == m.low <= a /\ a <= m.high

\* Faults: only the lower end is looked at; a range may touch the last byte
\* of another.
Overlaps_LowOnly(m, existing) == Holds(existing, m.low)

\* One end of m lies in the existing mapping.
Overlaps(m, existing) == Holds(existing, m.low) \/ Holds(existing, m.high)

\* A refused mapping, Error::Overlaps_Existing, changes nothing.
add_mapping(m) ==
    /\ \A i \in DOMAIN mappings : ~Overlaps(m, mappings[i])
    /\ mappings' = Append(mappings, m)
    /\ UNCHANGED data

\* The mappings of address a; reads use the first of them, writes all.
At(a) == {i \in DOMAIN mappings : Holds(mappings[i], a)}

First(a) == mappings[CHOOSE i \in At(a) : \A j \in At(a) : i <= j]

read(a) == IF At(a) = {} THEN 0 ELSE data[First(a).region][a - First(a).low]

\* MemoryBlock::write ignores a write to a ROM.
\* Fault: it does not.
Written_Rom(r, k, a) ==
    \E i \in At(a) : mappings[i].region = r /\ k = a - mappings[i].low

Written(r, k, a) ==
    r \in RAM /\ \E i \in At(a) : mappings[i].region = r /\ k = a - mappings[i].low

write(a, b) ==
    /\ data' = [r \in Region |-> [k \in DOMAIN data[r] |->
                  IF Written(r, k, a) THEN b ELSE data[r][k]]]
    /\ UNCHANGED mappings

\* RAM is cleared, ROM holds the image that was loaded.
Init ==
    /\ mappings = <<>>
    /\ \E image \in Byte :
         data = [r \in Region |-> [k \in 0..(Size[r] - 1) |-> IF r \in RAM THEN 0 ELSE image]]

Next == \/ \E m \in Request : add_mapping(m)
        \/ \E a \in Address, b \in Byte : write(a, b)

Spec == Init /\ [][Next]_vars

-----------------------------------------------------------------------------
(* Properties                                                              *)

Cells(m) == {a \in Address : Holds(m, a)}

\* Error::Overlaps_Existing: no address belongs to two mappings.
Disjoint ==
    \A i, j \in DOMAIN mappings :
        i # j => Cells(mappings[i]) \cap Cells(mappings[j]) = {}

Kind(a) == IF At(a) = {} THEN "none"
           ELSE IF First(a).region \in RAM THEN "ram" ELSE "rom"

AS == INSTANCE AddressSpace WITH memory <- [a \in Address |-> read(a)],
                                 kind   <- [a \in Address |-> Kind(a)]

\* The mappings together are one address space: a write changes what is read
\* at its own address and nowhere else, ROM keeps its image, and a region that
\* is added hides nothing that was there.
ImplementsAddressSpace == AS!Spec
=============================================================================
