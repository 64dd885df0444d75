SPECIFICATION FairSpec
CONSTANTS
    AddrSpace = 3
    Mapped <- MCMapped
    Values = {7}
    Glyphs <- MCGlyphs
    WordLen = 2
    MaxLen = 2
    Usages <- MCUsages
INVARIANTS TypeOK CallsDoAsTheySay InStep NoFalseError NoExit AddressAgrees InterruptKept
PROPERTY CallsReturn
CHECK_DEADLOCK FALSE
