SPECIFICATION FairSystem
CONSTANTS
    Byte = {0, 2, 247}
    NoByte = NoByte
    Program = {"NOP", "EI", "HALT", "IM0", "IM1", "IM2", "RET", "RETN", "IN", "OUT", "INI", "CALL"}
    MaxBytes = 1
    busreq_sources = {}
    reset_sources = {}
    wait_sources = {}
    Device = {"NMI"}
    Length = {1, 2}
    Prompt = {}
    PatientInput = FALSE
PROPERTY Echo
