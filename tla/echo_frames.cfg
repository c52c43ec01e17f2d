SPECIFICATION Spec
CONSTANTS
    p1 = p1
    p2 = p2
    Player = {p1, p2}
    MaxPlayed = 3
    MaxRecorded = 2
    MaxCommands = 5
INVARIANTS
    
    EchoIsRecent
PROPERTIES
    EncodesThisFrame
\* A crashed process stops, and so do the loops at their bounds.
CHECK_DEADLOCK FALSE
