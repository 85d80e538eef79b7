SPECIFICATION FairSpec
CONSTANTS
    Byte = {0}
    NoByte = NoByte
    Program = {"NOP", "EI", "HALT"}
    MaxBytes = 2
    busreq_sources = {busreq}
    reset_sources = {reset}
    wait_sources = {wait}
PROPERTIES NmiServed IntServed BusGranted BusReturned KillStops
