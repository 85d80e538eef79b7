--------------------------------- MODULE Bus ---------------------------------
(***************************************************************************)
(* The two maps struct Soft80 (include/soft80.h) holds: its memory and its *)
(* devices.  The host program adds to each of them; neither looks at the   *)
(* other.                                                                  *)
(***************************************************************************)
EXTENDS MemoryMap

CONSTANTS Device, Port

VARIABLE ports      \* the mappings of the device map

Devices == INSTANCE DeviceMap WITH mappings <- ports

BusInit == Init /\ Devices!Init
BusNext == \/ Next /\ UNCHANGED ports
           \/ Devices!Next /\ UNCHANGED vars
BusSpec == BusInit /\ [][BusNext]_<<vars, ports>>

\* A port has one device, whatever was mapped before it.
SameDevice == Devices!SameDevice
=============================================================================
