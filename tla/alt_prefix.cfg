SPECIFICATION Spec
CONSTANTS Operand = {0}
PROPERTY AltPrefixWaits
