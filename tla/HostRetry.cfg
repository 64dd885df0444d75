SPECIFICATION Spec
CONSTANTS
    AddrSpace = 3
    Mapped <- MCMapped
    Values = {7}
    Glyphs <- MCGlyphs
    WordLen = 2
    MaxLen = 2
    Usages <- RetryUsages
INVARIANTS CallsDoAsTheySay
