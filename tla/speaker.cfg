SPECIFICATION FairSpec
CONSTANTS
    t1 = t1
    t2 = t2
    r1 = r1
    r2 = r2
    main = main
    Task = {t1, t2}
    Receiver = {r1, r2}
    Main = main
    Capacity = 2
    MaxFrames = 2
    MaxCommands = 3
INVARIANTS
    TypeOK
    PlayingHasTask
PROPERTIES
    PlayedInOrder
    SpeakerStops
    ReceiverReturns
    FramesLeaveQueue
\* With the speaker off nothing has to happen.
CHECK_DEADLOCK FALSE
