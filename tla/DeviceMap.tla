------------------------------ MODULE DeviceMap ------------------------------
(***************************************************************************)
(* struct DeviceMap (include/devicemap.h): devices of the host program and *)
(* the ports they answer.  A read asks the first mapping of a port only, a *)
(* write calls all of them.                                                *)
(***************************************************************************)
EXTENDS Naturals, Sequences

CONSTANTS Device, Port

VARIABLE mappings

Mapping(d, p) == [device |-> d, port |-> p]

\* The mappings a port selects, in the order they were added.
At(p) == {i \in DOMAIN mappings : mappings[i].port = p}

\* Devices whose read_fn or write_fn is called; a port nobody answers reads 0.
read(p)  == {mappings[i].device : i \in {j \in At(p) : \A k \in At(p) : j <= k}}
write(p) == {mappings[i].device : i \in At(p)}

\* Fault: the device is compared, not the port.
Port_In_Use_ByDevice(d, p) == \E i \in DOMAIN mappings : mappings[i].device = d
Port_In_Use(d, p) == \E i \in DOMAIN mappings : mappings[i].port = p

\* A refused mapping changes nothing.
add_mapping(d, p) ==
    /\ ~Port_In_Use(d, p)
    /\ mappings' = Append(mappings, Mapping(d, p))

Init == mappings = <<>>
Next == \E d \in Device, p \in Port : add_mapping(d, p)
Spec == Init /\ [][Next]_mappings

-----------------------------------------------------------------------------
\* What is written to a port goes once, and to the device that is read there;
\* the order in which the host program maps its devices does not matter.
SameDevice ==
    \A p \in Port : write(p) = read(p) /\ \A i, j \in At(p) : i = j
=============================================================================
