SPECIFICATION FairSpec
CONSTANTS
    Nibble <- MCNibble
    WordLen = 2
    IdleLimit = 19
    Answers <- MCAnswers
    Window = 2
    Apart = 4
    MaxTx = 2
PROPERTY InterruptReported
