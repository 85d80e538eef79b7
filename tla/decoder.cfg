SPECIFICATION StreamSpec
CONSTANTS Operand = {0, 118, 203, 221}
INVARIANTS TypeOK CleanBoundary PrefixUsedUp LengthBound
PROPERTY ImplementsInstructionStream
