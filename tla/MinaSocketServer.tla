--------------------------- MODULE MinaSocketServer ---------------------------
(***************************************************************************)
(* The server half of remote/mina: MinaSocketServer, which wraps one       *)
(* acceptor and means to keep one session with a client.  The operators    *)
(* are its methods and the handler it wraps around the service's, as parts *)
(* of the service's actions; each one says which variables it sets.        *)
(***************************************************************************)
EXTENDS MinaSession

VARIABLES
    bound,          \* bound[p]: the acceptor is bound, hence active
    tcpSession,     \* tcpSession[p]: "the only session with the client"
    bindTasks       \* bindTasks[p][s]: bind calls the thread pool holds in stage s

serverVars == <<bound, tcpSession, bindTasks>>

\* A bind call is queued, then acceptor.bind has returned or thrown and the
\* listener is still to be called.
BindStage == {"queued", "succeeded", "failed"}

ServerTypeOK ==
    /\ bound \in [Phone -> BOOLEAN]
    /\ tcpSession \in [Phone -> Conn \cup {NoConn}]
    /\ bindTasks \in [Phone -> [BindStage -> Nat]]

ServerInit ==
    /\ bound = [p \in Phone |-> FALSE]
    /\ tcpSession = [p \in Phone |-> NoConn]
    /\ bindTasks = [p \in Phone |-> [s \in BindStage |-> 0]]

-----------------------------------------------------------------------------
\* bind(): nothing at all when the acceptor is active, not even a callback.
\* Sets bindTasks.
Bind(p) ==
    IF bound[p]
    THEN UNCHANGED bindTasks
    ELSE bindTasks' = [bindTasks EXCEPT ![p]["queued"] = @ + 1]

\* The pooled task calls acceptor.bind: it throws when this acceptor is bound
\* already, and may throw when something else holds the port.
\* Sets bound, bindTasks.
RunBindSucceeds(p) ==
    /\ bindTasks[p]["queued"] > 0
    /\ ~bound[p]
    /\ bound' = [bound EXCEPT ![p] = TRUE]
    /\ bindTasks' = [bindTasks EXCEPT ![p]["queued"] = @ - 1,
                                      ![p]["succeeded"] = @ + 1]

RunBindFails(p) ==
    /\ bindTasks[p]["queued"] > 0
    /\ bindTasks' = [bindTasks EXCEPT ![p]["queued"] = @ - 1,
                                      ![p]["failed"] = @ + 1]
    /\ UNCHANGED bound

BindReportsAgain(p, s) ==   \* a mutant: the listener is called once too often
    bindTasks' = [bindTasks EXCEPT ![p][s] = @ - 1]

\* The task calls onBindSucess or onBindFailed.  Sets bindTasks.
BindReports(p, s) ==
    /\ bindTasks[p][s] > 0
    /\ bindTasks' = [bindTasks EXCEPT ![p][s] = @ - 1]

-----------------------------------------------------------------------------
\* tcpSession is set and connected.
HasSession(p) == tcpSession[p] # NoConn /\ IsConnected(S(tcpSession[p]))

\* send(): queued; refused, which calls onSendFailed before send returns; or,
\* in every other case, dropped without a callback.
ServerSendQueued(p) == HasSession(p) /\ WriteQueued(S(tcpSession[p]))
ServerSendFails(p) == HasSession(p) /\ WriteRefused(S(tcpSession[p]))

\* The sessions closeSession() asks MINA to close.
ServerCloses(p) == IF HasSession(p) THEN {S(tcpSession[p])} ELSE {}

\* unbind() of a bound acceptor closes every managed session and does not
\* return before the last one is gone; otherwise it returns at once.
Unbinds(p) == IF bound[p] THEN ManagedSessions(p) ELSE {}

\* closeSession() and then unbind(), as endCall calls them.
\* Sets tcpSession, bound, closing.
ServerCloseAndUnbind(p) ==
    /\ tcpSession' = IF HasSession(p)
                     THEN [tcpSession EXCEPT ![p] = NoConn]
                     ELSE tcpSession
    /\ bound' = [bound EXCEPT ![p] = FALSE]
    /\ closing' = CloseNow(CloseOnFlush(closing, ServerCloses(p)), Unbinds(p))

\* The wrapped sessionOpened: an extra session is left open and is not
\* announced to the service.
Announced(p) == ~HasSession(p)

ServerSessionClosedKeeps(p) ==      \* a mutant: tcpSession is not reset
    /\ bound' = [bound EXCEPT ![p] = FALSE]
    /\ closing' = CloseNow(closing, Unbinds(p))
    /\ UNCHANGED tcpSession

\* The wrapped sessionClosed, whichever session it is.
\* Sets tcpSession, bound, closing.
ServerSessionClosed(p) ==
    /\ tcpSession' = [tcpSession EXCEPT ![p] = NoConn]
    /\ bound' = [bound EXCEPT ![p] = FALSE]
    /\ closing' = CloseNow(closing, Unbinds(p))

\* The wrapped exceptionCaught closes tcpSession, whichever session failed.
\* Sets closing.
ServerExceptionCaught(p) ==
    closing' = IF tcpSession[p] = NoConn
               THEN closing
               ELSE CloseOnFlush(closing, {S(tcpSession[p])})
=============================================================================
