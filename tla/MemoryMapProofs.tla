--------------------------- MODULE MemoryMapProofs ---------------------------
(***************************************************************************)
(* The two maps for every set of regions, ranges, devices and ports: what  *)
(* the tests of the two add_mapping are worth, and when the memory map is  *)
(* one address space.                                                      *)
(***************************************************************************)
EXTENDS Bus, TLAPS

\* Of two mappings of one address the later one reaches beyond the earlier at
\* both ends.
Nested ==
    \A i, j \in DOMAIN mappings :
        i < j => LET m == mappings[i]
                     n == mappings[j]
                 IN  \/ m.high < n.low \/ n.high < m.low
                     \/ n.low < m.low /\ m.high < n.high

IInv == mappings \in Seq(Request) /\ Nested

\* No host program asks for a range and for another one inside it.
NoEnclosing ==
    \A m, n \in Request : ~(n.low < m.low /\ m.high < n.high)

-----------------------------------------------------------------------------
\* The bounds of a requested range are numbers, the lower one first.
LEMMA RequestBounds ==
    ASSUME NEW m \in Request
    PROVE  m.low \in Nat /\ m.high \in Nat /\ m.low <= m.high
BY RequestAssumption, AddressAssumption

\* If neither end of n lies in m, n lies beside m or encloses it.
LEMMA EndsOutside ==
    ASSUME NEW m \in Request, NEW n \in Request, ~Overlaps(n, m)
    PROVE  \/ m.high < n.low \/ n.high < m.low
           \/ n.low < m.low /\ m.high < n.high
<1>1. /\ m.low \in Nat /\ m.high \in Nat /\ m.low <= m.high
      /\ n.low \in Nat /\ n.high \in Nat /\ n.low <= n.high
  BY RequestBounds
<1>2. (n.low < m.low \/ m.high < n.low) /\ (n.high < m.low \/ m.high < n.high)
  BY <1>1 DEF Overlaps, Holds
<1>. QED
  BY <1>1, <1>2

\* An accepted mapping is nested around each older one or beside it.
LEMMA AddMappingStep ==
    ASSUME IInv, NEW m \in Request, add_mapping(m)
    PROVE  IInv'
<1>1. mappings \in Seq(Request) /\ mappings' = Append(mappings, m)
  BY DEF IInv, add_mapping
<1>2. mappings' \in Seq(Request)
  BY <1>1
<1>3. ASSUME NEW i \in DOMAIN mappings', NEW j \in DOMAIN mappings', i < j
      PROVE  \/ mappings'[i].high < mappings'[j].low
             \/ mappings'[j].high < mappings'[i].low
             \/ /\ mappings'[j].low < mappings'[i].low
                /\ mappings'[i].high < mappings'[j].high
  <2>1. i \in DOMAIN mappings /\ mappings'[i] = mappings[i]
    BY <1>1, <1>3
  <2>2. CASE j \in DOMAIN mappings
    <3>1. mappings'[j] = mappings[j]
      BY <1>1, <2>2
    <3>. QED
      BY <1>3, <2>1, <2>2, <3>1 DEF IInv, Nested
  <2>3. CASE j \notin DOMAIN mappings
    <3>1. mappings'[j] = m
      BY <1>1, <2>3
    <3>2. mappings[i] \in Request /\ ~Overlaps(m, mappings[i])
      BY <1>1, <2>1 DEF add_mapping
    <3>. QED
      BY <2>1, <3>1, <3>2, EndsOutside
  <2>. QED
    BY <2>2, <2>3
<1>. QED
  BY <1>2, <1>3 DEF IInv, Nested

\* The test lets only mappings pass that are disjoint or nested around an
\* older one, whatever the host program asks for.
THEOREM NestedSafe == Spec => []IInv
<1>1. Init => IInv
  BY DEF Init, IInv, Nested
<1>2. IInv /\ [Next]_vars => IInv'
  <2>1. ASSUME IInv, UNCHANGED mappings PROVE IInv'
    BY <2>1 DEF IInv, Nested
  <2>2. ASSUME IInv, [Next]_vars PROVE IInv'
    BY <2>1, <2>2, AddMappingStep DEF Next, vars, write
  <2>. QED
    BY <2>2
<1>. QED
  BY <1>1, <1>2, PTL DEF Spec

\* Then at most one mapping holds an address.
LEMMA OneMapping ==
    ASSUME NoEnclosing, IInv, NEW a \in Address, NEW i \in At(a), NEW j \in At(a)
    PROVE  i = j
<1>1. SUFFICES ASSUME i # j PROVE FALSE
  OBVIOUS
<1>2. /\ mappings[i] \in Request /\ mappings[j] \in Request /\ i \in Nat /\ j \in Nat
      /\ i \in DOMAIN mappings /\ j \in DOMAIN mappings
  BY DEF IInv, At
<1>3. \/ mappings[i].high < mappings[j].low
      \/ mappings[j].high < mappings[i].low
  <2>1. i < j \/ j < i
    BY <1>1, <1>2
  <2>. QED
    BY <1>2, <2>1, NoEnclosing DEF IInv, Nested, NoEnclosing
<1>. QED
  BY <1>2, <1>3, RequestBounds, AddressAssumption DEF At, Holds

\* If no requested range encloses another, no address ever belongs to two
\* mappings: then the one a read uses and the ones a write goes to agree.
THEOREM DisjointSafe ==
    ASSUME NoEnclosing
    PROVE  Spec => []Disjoint
<1>1. IInv => Disjoint
  BY OneMapping DEF Disjoint, Cells, At
<1>. QED
  BY <1>1, NestedSafe, PTL

-----------------------------------------------------------------------------
(* The address space.                                                      *)

\* No host program asks for a RAM region at two ranges.
OnceEach ==
    \A m, n \in Request : m.region \in RAM /\ m.region = n.region => m = n

DataOK == \A r \in Region : DOMAIN data[r] = 0..(Size[r] - 1)

KindOf(r) == IF r \in RAM THEN "ram" ELSE "rom"

\* An address nothing is mapped to, and one with a single mapping.
Lookup ==
    \A a : /\ At(a) = {} => read(a) = 0 /\ Kind(a) = "none"
           /\ \A i \in Nat : At(a) = {i} =>
                 /\ read(a) = data[mappings[i].region][a - mappings[i].low]
                 /\ Kind(a) = KindOf(mappings[i].region)

LEMMA OnlyOne ==
    ASSUME NEW S, NEW i \in Nat, S = {i}
    PROVE  (CHOOSE k \in S : \A j \in S : k <= j) = i
<1>1. i \in S /\ \A j \in S : i <= j
  OBVIOUS
<1>2. (CHOOSE k \in S : \A j \in S : k <= j) \in S
  BY <1>1
<1>. QED
  BY <1>2

LEMMA LookupHolds == Lookup
<1>1. ASSUME NEW a, At(a) = {} PROVE read(a) = 0 /\ Kind(a) = "none"
  BY <1>1 DEF read, Kind
<1>2. ASSUME NEW a, NEW i \in Nat, At(a) = {i}
      PROVE  /\ read(a) = data[mappings[i].region][a - mappings[i].low]
             /\ Kind(a) = KindOf(mappings[i].region)
  <2>1. First(a) = mappings[i]
    BY <1>2, OnlyOne DEF First
  <2>. QED
    BY <1>2, <2>1 DEF read, Kind, KindOf
<1>. QED
  BY <1>1, <1>2 DEF Lookup

\* Every address has no mapping or one.
LEMMA AtMostOne ==
    ASSUME NoEnclosing, IInv, NEW a \in Address
    PROVE  At(a) = {} \/ \E i \in Nat : i \in DOMAIN mappings /\ At(a) = {i}
<1>1. SUFFICES ASSUME NEW i \in At(a)
               PROVE  i \in Nat /\ i \in DOMAIN mappings /\ At(a) = {i}
  OBVIOUS
<1>2. i \in Nat /\ i \in DOMAIN mappings
  BY DEF At, IInv
<1>3. \A j \in At(a) : i = j
  BY OneMapping
<1>4. At(a) = {i}
  BY <1>3
<1>. QED
  BY <1>2, <1>4

\* An accepted mapping covers only addresses that were free.
LEMMA InstallStep ==
    ASSUME NoEnclosing, IInv, NEW m \in Request, add_mapping(m)
    PROVE  AS!Install(Cells(m), KindOf(m.region))
<1>1. mappings \in Seq(Request) /\ mappings' = Append(mappings, m) /\ data' = data
  BY DEF IInv, add_mapping
<1> DEFINE n == Len(mappings) + 1
<1>2. /\ n \in Nat /\ n \notin DOMAIN mappings /\ mappings'[n] = m
      /\ DOMAIN mappings' = DOMAIN mappings \cup {n}
      /\ \A i \in DOMAIN mappings : mappings'[i] = mappings[i]
  BY <1>1
<1> HIDE DEF n
<1>3. \A a : At(a)' = At(a) \cup (IF Holds(m, a) THEN {n} ELSE {})
  BY <1>2 DEF At
<1>4. ASSUME NEW a \in Address, Holds(m, a) PROVE At(a) = {}
  <2>1. SUFFICES ASSUME NEW i \in At(a) PROVE FALSE
    OBVIOUS
  <2>2. mappings[i] \in Request /\ ~Overlaps(m, mappings[i]) /\ Holds(mappings[i], a)
    BY <1>1 DEF At, add_mapping
  <2>3. mappings[i].high < m.low \/ m.high < mappings[i].low
    BY <2>2, EndsOutside, NoEnclosing DEF NoEnclosing
  <2>. QED
    BY <1>4, <2>2, <2>3, RequestBounds, AddressAssumption DEF Holds
<1>5. Lookup /\ Lookup'
  BY LookupHolds, PTL
<1>6. ASSUME NEW a \in Cells(m)
      PROVE  a \in Address /\ Kind(a) = "none" /\ Kind(a)' = KindOf(m.region)
  <2>1. a \in Address /\ At(a) = {} /\ At(a)' = {n}
    BY <1>3, <1>4 DEF Cells
  <2>. QED
    BY <1>2, <1>5, <2>1 DEF Lookup
<1>7. ASSUME NEW a \in Address, a \notin Cells(m)
      PROVE  Kind(a)' = Kind(a) /\ read(a)' = read(a)
  <2>1. At(a)' = At(a)
    BY <1>3, <1>7 DEF Cells
  <2>2. CASE At(a) = {}
    BY <1>5, <2>1, <2>2 DEF Lookup
  <2>3. CASE \E i \in Nat : i \in DOMAIN mappings /\ At(a) = {i}
    BY <1>1, <1>2, <1>5, <2>1, <2>3 DEF Lookup
  <2>. QED
    BY <2>2, <2>3, AtMostOne
<1>8. Cells(m) \subseteq Address
  BY DEF Cells
<1>. QED
  BY <1>6, <1>7, <1>8 DEF AS!Install

\* A write to RAM changes one cell of the address space; any other none.
LEMMA WriteStep ==
    ASSUME NoEnclosing, OnceEach, IInv, DataOK, NEW a \in Address, NEW b \in Byte, write(a, b)
    PROVE  \/ AS!Write(a, b)
           \/ \A x \in Address : read(x)' = read(x) /\ Kind(x)' = Kind(x)
<1>1. /\ mappings' = mappings
      /\ data' = [r \in Region |-> [k \in DOMAIN data[r] |->
                    IF Written(r, k, a) THEN b ELSE data[r][k]]]
  BY DEF write
<1>2. Lookup /\ Lookup'
  BY LookupHolds, PTL
<1>3. \A x : At(x)' = At(x)
  BY <1>1 DEF At
\* What a mapped address reads afterwards.
<1>4. ASSUME NEW x \in Address, NEW i \in Nat, i \in DOMAIN mappings, At(x) = {i}
      PROVE  LET r == mappings[i].region
                 k == x - mappings[i].low
             IN  /\ read(x)' = IF Written(r, k, a) THEN b ELSE read(x)
                 /\ Kind(x)' = Kind(x) /\ Kind(x) = KindOf(r)
  <2> DEFINE r == mappings[i].region
             k == x - mappings[i].low
  <2>1. mappings[i] \in Request /\ Holds(mappings[i], x)
    BY <1>4 DEF IInv, At
  <2>2. r \in Region /\ k \in DOMAIN data[r]
    <3> DEFINE q == mappings[i]
    <3>1. /\ q.region \in Region /\ q.low \in Nat /\ q.high \in Nat
          /\ q.high - q.low < Size[q.region] /\ Size[q.region] \in Nat
      BY <2>1, RequestBounds, RequestAssumption, SizeAssumption
    <3>2. x \in Nat /\ q.low <= x /\ x <= q.high
      BY <2>1, AddressAssumption DEF Holds
    <3> HIDE DEF q
    <3>3. x - q.low \in 0..(Size[q.region] - 1)
      BY <3>1, <3>2
    <3>. QED
      BY <3>1, <3>3 DEF DataOK, q
  <2>3. read(x)' = data'[r][k] /\ read(x) = data[r][k]
    BY <1>1, <1>2, <1>3, <1>4 DEF Lookup
  <2>4. data'[r][k] = IF Written(r, k, a) THEN b ELSE data[r][k]
    BY <1>1, <2>2
  <2>5. Kind(x)' = KindOf(r) /\ Kind(x) = KindOf(r)
    BY <1>1, <1>2, <1>3, <1>4 DEF Lookup
  <2>. QED
    BY <2>3, <2>4, <2>5
<1>5. ASSUME NEW x \in Address, At(x) = {}
      PROVE  read(x)' = read(x) /\ Kind(x)' = Kind(x)
  BY <1>2, <1>3, <1>5 DEF Lookup
<1>6. CASE Kind(a) # "ram"
  <2>1. \A r, k : ~Written(r, k, a)
    <3>1. CASE At(a) = {}
      BY <3>1 DEF Written
    <3>2. CASE \E i \in Nat : i \in DOMAIN mappings /\ At(a) = {i}
      BY <1>4, <1>6, <3>2 DEF Written, KindOf
    <3>. QED
      BY <3>1, <3>2, AtMostOne
  <2>. QED
    BY <1>4, <1>5, <2>1, AtMostOne
<1>7. CASE Kind(a) = "ram"
  <2>1. PICK i \in Nat : i \in DOMAIN mappings /\ At(a) = {i}
    <3>1. At(a) # {}
      BY <1>2, <1>7 DEF Lookup
    <3>. QED
      BY <3>1, AtMostOne
  <2> DEFINE q == mappings[i]
  <2>2. q.region \in RAM /\ q \in Request
    BY <1>4, <1>7, <2>1 DEF KindOf, IInv
  <2>3. \A r, k : Written(r, k, a) <=> r = q.region /\ k = a - q.low
    BY <2>1, <2>2 DEF Written
  <2>4. ASSUME NEW x \in Address
        PROVE  /\ Kind(x)' = Kind(x)
               /\ read(x)' = IF x = a THEN b ELSE read(x)
    <3>1. CASE At(x) = {}
      BY <1>5, <2>1, <3>1
    <3>2. ASSUME NEW j \in Nat, j \in DOMAIN mappings, At(x) = {j}
          PROVE  /\ Kind(x)' = Kind(x)
                 /\ read(x)' = IF x = a THEN b ELSE read(x)
      <4>1. mappings[j] \in Request
        BY <3>2 DEF IInv
      \* The same RAM region is the same mapping.
      <4>2. mappings[j].region = q.region => mappings[j] = q
        BY <2>2, <4>1, OnceEach DEF OnceEach
      <4>3. mappings[j] = q => (x - q.low = a - q.low <=> x = a)
        BY <2>2, RequestBounds, AddressAssumption
      <4>4. x = a => mappings[j] = q
        BY <2>1, <3>2
      <4>5. Written(mappings[j].region, x - mappings[j].low, a) <=> x = a
        BY <2>3, <4>2, <4>3, <4>4
      <4>. QED
        BY <1>4, <3>2, <4>5
    <3>. QED
      BY <3>1, <3>2, AtMostOne
  <2>5. [x \in Address |-> Kind(x)]' = [x \in Address |-> Kind(x)]
    BY <2>4
  <2>6. [x \in Address |-> read(x)]' = [[x \in Address |-> read(x)] EXCEPT ![a] = b]
    BY <2>4
  <2>. QED
    BY <1>7, <2>5, <2>6 DEF AS!Write
<1>. QED
  BY <1>6, <1>7

\* If no range encloses another and every RAM region has one range, as in
\* main, the mappings are one address space: a read returns what was written
\* last to that address, ROM never changes, and a region that is added hides
\* nothing (MemoryMap::read and MemoryMap::write).
THEOREM AddressSpaceImplemented ==
    ASSUME NoEnclosing, OnceEach
    PROVE  Spec => ImplementsAddressSpace
<1>1. Init => AS!Init
  <2> SUFFICES ASSUME Init PROVE AS!Init
    OBVIOUS
  <2>1. \A a : At(a) = {}
    BY DEF Init, At
  <2>2. \A a : read(a) = 0 /\ Kind(a) = "none"
    BY <2>1, LookupHolds DEF Lookup
  <2>. QED
    BY <2>2, AddressAssumption DEF AS!Init
<1>2. Init => DataOK
  BY DEF Init, DataOK
<1>3. DataOK /\ [Next]_vars => DataOK'
  <2>1. ASSUME DataOK, NEW a \in Address, NEW b \in Byte, write(a, b) PROVE DataOK'
    BY <2>1 DEF DataOK, write
  <2>2. ASSUME DataOK, UNCHANGED data PROVE DataOK'
    BY <2>2 DEF DataOK
  <2>. QED
    BY <2>1, <2>2 DEF Next, add_mapping, vars
<1>4. IInv /\ DataOK /\ [Next]_vars
        => [AS!Next]_<<[a \in Address |-> read(a)], [a \in Address |-> Kind(a)]>>
  <2>1. ASSUME IInv, NEW m \in Request, add_mapping(m) PROVE AS!Next
    <3>1. Cells(m) \in SUBSET Address /\ KindOf(m.region) \in {"rom", "ram"}
      BY DEF Cells, KindOf
    <3>. QED
      BY <2>1, <3>1, InstallStep DEF AS!Next
  <2>2. ASSUME IInv, DataOK, NEW a \in Address, NEW b \in Byte, write(a, b)
        PROVE  \/ AS!Next
               \/ UNCHANGED <<[x \in Address |-> read(x)], [x \in Address |-> Kind(x)]>>
    BY <2>2, WriteStep DEF AS!Next
  <2>3. ASSUME UNCHANGED vars
        PROVE  UNCHANGED <<[x \in Address |-> read(x)], [x \in Address |-> Kind(x)]>>
    BY <2>3 DEF vars, read, Kind, First, At
  <2>. QED
    BY <2>1, <2>2, <2>3 DEF Next
<1>. QED
  BY <1>1, <1>2, <1>3, <1>4, NestedSafe, PTL DEF Spec, ImplementsAddressSpace, AS!Spec

-----------------------------------------------------------------------------
(* The device map.                                                         *)

PortsOK    == ports \in Seq([device : Device, port : Port])
PortsApart == \A i, j \in DOMAIN ports : ports[i].port = ports[j].port => i = j

\* Every port has at most one device, for reads and for writes, in whatever
\* order and however often the host program asks for mappings, and whatever
\* it does to the memory map (DeviceMap::add_mapping).
THEOREM SameDeviceSafe == BusSpec => []SameDevice
<1> DEFINE Inv == PortsOK /\ PortsApart
<1>1. BusInit => Inv
  BY DEF BusInit, Devices!Init, PortsOK, PortsApart
<1>2. Inv /\ [BusNext]_<<vars, ports>> => Inv'
  <2>1. ASSUME Inv, UNCHANGED ports PROVE Inv'
    BY <2>1 DEF PortsOK, PortsApart
  <2>2. ASSUME Inv, NEW d \in Device, NEW p \in Port, Devices!add_mapping(d, p) PROVE Inv'
    <3> DEFINE n == Len(ports) + 1
    <3>1. ports \in Seq([device : Device, port : Port])
      BY <2>2 DEF PortsOK
    <3>2. ports' = Append(ports, [device |-> d, port |-> p])
      BY <2>2 DEF Devices!add_mapping, Devices!Mapping
    <3>3. PortsOK'
      BY <3>1, <3>2 DEF PortsOK
    <3>4. /\ DOMAIN ports' = DOMAIN ports \cup {n} /\ ports'[n].port = p
          /\ \A i \in DOMAIN ports : ports'[i] = ports[i]
      BY <3>1, <3>2
    <3>5. \A i \in DOMAIN ports : ports[i].port # p
      BY <2>2 DEF Devices!add_mapping, Devices!Port_In_Use
    <3> HIDE DEF n
    <3>6. PortsApart'
      BY <2>2, <3>4, <3>5 DEF PortsApart
    <3>. QED
      BY <3>3, <3>6
  <2>. QED
    BY <2>1, <2>2 DEF BusNext, Devices!Next
<1>3. Inv => SameDevice
  BY DEF PortsOK, PortsApart, SameDevice, Devices!SameDevice, Devices!read, Devices!write,
         Devices!At
<1>. QED
  BY <1>1, <1>2, <1>3, PTL DEF BusSpec

\* The devices do not touch the memory: what is proved of Spec is true of the bus.
LEMMA BusMemory == BusSpec => Spec
<1>1. BusInit => Init
  BY DEF BusInit
<1>2. [BusNext]_<<vars, ports>> => [Next]_vars
  BY DEF BusNext
<1>. QED
  BY <1>1, <1>2, PTL DEF BusSpec, Spec
=============================================================================
