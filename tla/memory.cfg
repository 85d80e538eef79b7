SPECIFICATION BusSpec
CONSTANTS
    rom = rom
    ram = ram
    bank = bank
    patch = patch
    term = term
    disk = disk
    Device = {term, disk}
    Port = {80, 81}
    Address <- SixAddresses
    Byte = {0, 1, 2}
    Region = {rom, ram, bank, patch}
    Size <- Sizes
    RAM = {ram, patch}
    Request <- SideBySide
INVARIANTS Disjoint SameDevice
PROPERTY ImplementsAddressSpace
