SPECIFICATION FairSpec
CONSTANTS
    Clients <- MCClients
    SockBuf = 2
    Commands = 2
    Window = 2
    Backlog = 1
    Settings <- MCSettings
    Chunk = 2
    TtyBuf = 1
    LineSize = 3
    Newline <- MCNewline
INVARIANTS TypeOK AnswersWhole CommandsWhole NoCommandDropped FlushedBefore OwnAnswers PatientAnswered KeepsServing
PROPERTY EveryToolLeaves
CHECK_DEADLOCK FALSE
