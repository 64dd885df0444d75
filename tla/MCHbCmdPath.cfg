SPECIFICATION Spec
CONSTANTS
    Nibble <- MCNibble
    WordLen = 2
    Worth <- MCWorth
    AddrSpace = 1
    Mapped <- MCMapped
    Linger = 2
    MaxWait = 1
    PowerUp <- MCPowerUp
    Keys <- MCKeys
    MaxDigits = 3
    CharTime = 2
INVARIANTS TypeOK CommandsAsTyped LostOnlyIfSlow ResetOutlastsDevice
PROPERTIES AnswersSpaced
