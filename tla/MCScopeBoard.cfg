SPECIFICATION FairSpec
CONSTANTS
    LGMEM = 3
    HOLDOFFBITS = 4
    DefaultHoldoff = 0
    Unset = Unset
    Settings <- MCSettings
    Writes <- MCWrites
    Signals <- MCSignals
    Runs = 2
    Drift = 2
INVARIANTS TypeOK MarksTrigger NewCapture OneInterrupt
PROPERTY Completes
