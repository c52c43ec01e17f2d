SPECIFICATION FairSpec
CONSTANTS
    t1 = t1
    t2 = t2
    r1 = r1
    r2 = r2
    r3 = r3
    Task = {t1, t2}
    Sender = {r1, r2, r3}
    Capacity = 2
    MaxFrames = 3
    MaxCommands = 4
INVARIANTS
    TypeOK
    FlagHasOwner
PROPERTIES
    
    MicStops
\* With the microphone off nothing has to happen.
CHECK_DEADLOCK FALSE
