\* 2 phones, 2 connections.
SPECIFICATION Spec
CONSTANTS
    p1 = p1
    p2 = p2
    c1 = c1
    c2 = c2
    Phone = {p1, p2}
    Conn = {c1, c2}
    NoPhone = NoPhone
    NoConn = NoConn
    MaxCommands = 3
    MaxErrors = 0
SYMMETRY Symmetry
INVARIANTS
    ServerConnectedState
\* A call may end, and then nobody has to start another one.
CHECK_DEADLOCK FALSE
