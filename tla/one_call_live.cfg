\* 2 phones, 1 connections.
SPECIFICATION FairSpec
CONSTANTS
    p1 = p1
    p2 = p2
    c1 = c1
    Phone = {p1, p2}
    Conn = {c1}
    NoPhone = NoPhone
    NoConn = NoConn
    MaxCommands = 3
    MaxErrors = 0
PROPERTIES
    CloseEndsCallAtPeer
    UnbindReturns
    AnswerGetsThrough
\* A call may end, and then nobody has to start another one.
CHECK_DEADLOCK FALSE
