SPECIFICATION FairSpec
CONSTANTS
    RomSize = 8192
    Port = 80
    Boot <- MCBoot
    Undefined = {0, 199}
INVARIANTS TypeOK ProgramKept PrintsText Result
PROPERTIES ReadsInside ReturnsMatch KindMatches SumAndCarry ShiftAndCarry Finishes
