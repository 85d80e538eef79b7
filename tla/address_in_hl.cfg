SPECIFICATION Spec
CONSTANTS Operand = {0}
INVARIANT AddressInHL
