SPECIFICATION Spec
CONSTANTS
    RomSize = 8192
    Port = 80
    Boot <- MCPrograms
    Undefined = {0}
PROPERTY FlagsKept
