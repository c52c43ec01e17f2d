--------------------------- MODULE MinaSocketClient ---------------------------
(***************************************************************************)
(* The client half of remote/mina: MinaSocketClient and the state objects  *)
(* ClosedSessionState, ConnectingSessionState and ConnectedSessionState it *)
(* delegates to.  The operators are its methods, as parts of the actions   *)
(* of the service that calls them; each one says which variables it sets.  *)
(*                                                                         *)
(* Each phone has one MinaSocketClient, so every variable is a function    *)
(* of the phone, except attached, which is about one connect call.         *)
(***************************************************************************)
EXTENDS MinaSession

VARIABLES
    sessionState,   \* sessionState[p]: the state object
    session,        \* session[p]: "the single session"
    connectFuture,  \* connectFuture[p]: the connection of the last connect
    destIP,         \* destIP[p]: the phone to connect to
    connectTasks,   \* connectTasks[p]: connect calls the thread pool has not run
    attached        \* the connections whose future has got its listeners

clientVars ==
    <<sessionState, session, connectFuture, destIP, connectTasks, attached>>

ClientTypeOK ==
    /\ sessionState \in [Phone -> {"CLOSED", "CONNECTING", "CONNECTED"}]
    /\ session \in [Phone -> Conn \cup {NoConn}]
    /\ connectFuture \in [Phone -> Conn \cup {NoConn}]
    /\ destIP \in [Phone -> Phone \cup {NoPhone}]
    /\ connectTasks \in [Phone -> Nat]
    /\ attached \subseteq Conn

ClientInit ==
    /\ sessionState = [p \in Phone |-> "CLOSED"]
    /\ session = [p \in Phone |-> NoConn]
    /\ connectFuture = [p \in Phone |-> NoConn]
    /\ destIP = [p \in Phone |-> NoPhone]
    /\ connectTasks = [p \in Phone |-> 0]
    /\ attached = {}

-----------------------------------------------------------------------------
\* setIP and connect: the work is handed to the thread pool.
\* Sets destIP, connectTasks.
ClientConnect(p, q) ==
    /\ destIP' = [destIP EXCEPT ![p] = q]
    /\ connectTasks' = [connectTasks EXCEPT ![p] = @ + 1]

\* The pooled task in ClosedSessionState: connect and keep the future.  The
\* listeners are added by a later step of the same task, see ListenerRuns.
\* Sets client, server, future, connectTasks, sessionState, connectFuture.
RunConnectClosed(p, c) ==
    /\ connectTasks[p] > 0
    /\ sessionState[p] = "CLOSED"
    /\ connectTasks' = [connectTasks EXCEPT ![p] = @ - 1]
    /\ Connect(p, destIP[p], c)
    /\ sessionState' = [sessionState EXCEPT ![p] = "CONNECTING"]
    /\ connectFuture' = [connectFuture EXCEPT ![p] = c]

\* The same task in the other two states does nothing: the caller's listener
\* is dropped and will never be called.  Sets connectTasks.
RunConnectIgnored(p) ==
    /\ connectTasks[p] > 0
    /\ sessionState[p] # "CLOSED"
    /\ connectTasks' = [connectTasks EXCEPT ![p] = @ - 1]

ListenerRunsUnchecked(c, result) ==     \* a mutant: the result is not looked at
    /\ sessionState' = [sessionState EXCEPT ![client[c]] = "CONNECTED"]
    /\ session' = [session EXCEPT ![client[c]] = c]

\* The listener ClosedSessionState adds to the future of c, run with the
\* future's result.  Sets sessionState, session.
ListenerRuns(c, result) ==
    LET p == client[c] IN
    IF result = "connected"
    THEN /\ sessionState' = [sessionState EXCEPT ![p] = "CONNECTED"]
         /\ session' = [session EXCEPT ![p] = c]
    ELSE /\ sessionState' = [sessionState EXCEPT ![p] = "CLOSED"]
         /\ session' = [session EXCEPT ![p] = NoConn]

-----------------------------------------------------------------------------
\* The future ConnectingSessionState.closeConnection cancels.
Cancels(p) ==
    /\ sessionState[p] = "CONNECTING"
    /\ connectFuture[p] # NoConn
    /\ future[connectFuture[p]] = "pending"

\* The sessions MinaSocketClient.closeSession asks MINA to close.
ClientCloses(p) ==
    IF sessionState[p] = "CONNECTED" THEN {C(session[p])} ELSE {}

\* closeSession() in whatever state the client is: nothing to do, cancel a
\* pending future (its listeners then run inside cancel), or close the
\* session.  Sets sessionState, session, future, closing.
ClientCloseSession(p) ==
    /\ sessionState' = [sessionState EXCEPT ![p] = "CLOSED"]
    /\ closing' = CloseOnFlush(closing, ClientCloses(p))
    /\ IF Cancels(p)
       THEN /\ future' = [future EXCEPT ![connectFuture[p]] = "failed"]
            /\ session' = IF connectFuture[p] \in attached
                          THEN [session EXCEPT ![p] = NoConn]
                          ELSE session
       ELSE UNCHANGED <<future, session>>

\* send(msg, listener, tryConnect = false), the only form the service uses:
\* whether the message is queued on the session, and whether onSendFailed is
\* called before send returns.
ClientSendQueued(p) ==
    sessionState[p] = "CONNECTED" /\ WriteQueued(C(session[p]))
ClientSendFails(p) ==
    sessionState[p] # "CONNECTED" \/ WriteRefused(C(session[p]))
=============================================================================
