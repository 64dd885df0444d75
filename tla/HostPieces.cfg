SPECIFICATION Spec
CONSTANTS
    AddrSpace = 3
    Mapped <- MCAllMapped
    Values = {7}
    Glyphs <- MCGlyphs
    WordLen = 2
    MaxLen = 2
    Usages <- PiecesUsages
INVARIANTS CallsDoAsTheySay
