SPECIFICATION FairSpec
CONSTANTS
    t1 = t1
    t2 = t2
    Task = {t1, t2}
    SampleRate = 8000
    MaxCommands = 3
INVARIANTS
    NothingDestroyedInUse
    NothingLeft
    StreamsBelongToTasks
PROPERTIES
    EchoTestEnds
\* A crashed process stops.
CHECK_DEADLOCK FALSE
