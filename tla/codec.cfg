SPECIFICATION FairSpec
CONSTANTS
    Base = 4
    HEADER1 = 1
    HEADER2 = 3
    Message <- MCMessage
    MaxMessages = 3
INVARIANTS
    ArrivesIntact
    NothingWaits
PROPERTY
    EverythingArrives
\* When everything has arrived the connection is silent.
CHECK_DEADLOCK FALSE
