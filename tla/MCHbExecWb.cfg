SPECIFICATION FairSpec
CONSTANTS
    AddrSpace = 4
    Mapped <- MCMapped
    Linger = 2
    MaxWait = 2
    AddrWords <- MCAddrWords
    WriteWords <- MCWriteWords
    PowerUp <- MCPowerUp
INVARIANT IInv
PROPERTIES BusStable CycleAnswered ImplementsPort
