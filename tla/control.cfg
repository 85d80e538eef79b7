SPECIFICATION HistorySpec
CONSTANTS
    Byte = {0}
    NoByte = NoByte
    Program <- Instruction
    MaxBytes = 2
    busreq_sources = {busreq}
    reset_sources = {reset}
    wait_sources = {wait}
INVARIANTS TypeOK AckWindow HandlerMasked AckAtBoundary VectorFirst HaltQuiet MaskOrder PlanFollowed GrantOwned
PROPERTIES ImplementsInterruptControl RetnRestoresMask GrantFreezes
