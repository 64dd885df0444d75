SPECIFICATION FairSpec
CONSTANTS
    Clients <- MCClients
    SockBuf = 2
    None = None
    Settings <- MCSettings
    Bytes <- MCBytes
INVARIANTS TypeOK BytesInOrder
PROPERTY AllServed
