SPECIFICATION FairSpec
CONSTANTS
    Nibble <- MCNibble
    WordLen = 2
    IdleLimit = 19
    Answers <- MCAnswers
    Window = 3
    Apart = 4
    MaxTx = 2
PROPERTY ResponseHeld
