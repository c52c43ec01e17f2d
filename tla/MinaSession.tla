----------------------------- MODULE MinaSession -----------------------------
(***************************************************************************)
(* TCP and the sessions of Apache MINA 2.0.16, the library the repository  *)
(* ships as a jar (callme/libs) and calls from remote/mina.  Nothing here  *)
(* is code of the repository: it is what that code relies on, and what it  *)
(* can observe.                                                            *)
(*                                                                         *)
(* A connection has two ends.  An end is the session object its phone      *)
(* holds; MINA serves an end's events one at a time on one processor       *)
(* thread, and no filter of the program moves them to another.  The life   *)
(* of an end:                                                              *)
(*                                                                         *)
(*   none     -> created   TCP is established, the processor has not fired *)
(*                         the session's events yet                        *)
(*   created  -> open      sessionOpened has run                           *)
(*   open     -> failing   an exceptionCaught is due, the removal follows  *)
(*   failing  -> removing  exceptionCaught has run                         *)
(*   open, removing -> dropped   the channel is closed and the session is  *)
(*                         out of the service's managedSessions            *)
(*   dropped  -> closed    sessionClosed has run                           *)
(***************************************************************************)
EXTENDS Naturals, FiniteSets

CONSTANTS
    Phone,      \* the phones of one WLAN that run the program
    Conn,       \* identities of TCP connections, each used once
    NoPhone,    \* the value of a connection's phone before it is used
    NoConn      \* the null session

ASSUME NullAssumption == NoPhone \notin Phone /\ NoConn \notin Conn

VARIABLES
    client,     \* client[c]: the phone that connects, NoPhone while c is unused
    server,     \* server[c]: the phone it connects to
    future,     \* future[c]: the ConnectFuture of c
    sess,       \* sess[e]: the life of the end e, as above
    closing,    \* closing[e]: whether closeOnFlush or closeNow was called on e
    outbox,     \* the ends whose write of a call message is not flushed yet
    wire,       \* the ends that have a call message to read
    crashed     \* the phones whose process has died

minaVars == <<client, server, future, sess, closing, outbox, wire, crashed>>

End == Conn \X {"client", "server"}

C(c) == <<c, "client">>
S(c) == <<c, "server">>
Peer(e) == IF e[2] = "client" THEN S(e[1]) ELSE C(e[1])
Owner(e) == IF e[2] = "client" THEN client[e[1]] ELSE server[e[1]]

SessionStatus ==
    {"none", "created", "open", "failing", "removing", "dropped", "closed"}
FutureStatus == {"none", "pending", "connected", "failed"}

MinaTypeOK ==
    /\ client \in [Conn -> Phone \cup {NoPhone}]
    /\ server \in [Conn -> Phone \cup {NoPhone}]
    /\ future \in [Conn -> FutureStatus]
    /\ sess \in [End -> SessionStatus]
    /\ closing \in [End -> {"no", "flush", "now"}]
    /\ outbox \subseteq End
    /\ wire \subseteq End
    /\ crashed \subseteq Phone

MinaInit ==
    /\ client = [c \in Conn |-> NoPhone]
    /\ server = [c \in Conn |-> NoPhone]
    /\ future = [c \in Conn |-> "none"]
    /\ sess = [e \in End |-> "none"]
    /\ closing = [e \in End |-> "no"]
    /\ outbox = {}
    /\ wire = {}
    /\ crashed = {}

-----------------------------------------------------------------------------
(* What the program can ask of a session. *)

\* IoServiceListenerSupport.managedSessions holds the session.
Managed == {"open", "failing", "removing"}

\* IoSession.isConnected(): the closeFuture is not done.
IsConnected(e) == sess[e] \in Managed \cup {"created", "dropped"}

\* The managed sessions of p's acceptor.
ManagedSessions(p) ==
    {e \in End : e[2] = "server" /\ server[e[1]] = p /\ sess[e] \in Managed}

\* AbstractIoService.isActive() of p's connector: from the first session's
\* creation until its last session's sessionClosed has returned.
ConnectorActive(p) ==
    \E c \in Conn : /\ client[c] = p
                    /\ \/ sess[C(c)] \in Managed \cup {"dropped"}
                       \/ sess[C(c)] = "created" /\ future[c] = "connected"

\* closeOnFlush() and closeNow() on the ends of E; a later closeOnFlush does
\* not take a closeNow back.
CloseOnFlush(cl, E) ==
    [e \in End |-> IF e \in E /\ cl[e] = "no" THEN "flush" ELSE cl[e]]
CloseNow(cl, E) == [e \in End |-> IF e \in E THEN "now" ELSE cl[e]]

\* write(): queued, refused with a failed future (closing or closed), or put
\* in a queue nobody will look at again (dropped: no callback ever).
WriteQueued(e) == sess[e] \in Managed \cup {"created"} /\ closing[e] = "no"
WriteRefused(e) == sess[e] = "closed" \/ closing[e] # "no"

-----------------------------------------------------------------------------
(* Steps of TCP and of MINA's threads that run no handler of the program. *)

\* connector.connect(): the future is pending.
Connect(p, q, c) ==
    /\ future[c] = "none"
    /\ client' = [client EXCEPT ![c] = p]
    /\ server' = [server EXCEPT ![c] = q]
    /\ future' = [future EXCEPT ![c] = "pending"]

\* The handshake with a bound listener completes.
TcpEstablished(c) ==
    /\ future[c] = "pending"
    /\ sess[C(c)] = "none"
    /\ sess' = [sess EXCEPT ![C(c)] = "created", ![S(c)] = "created"]

\* Refused, unreachable, or the 10 s connect timeout.
TcpConnectFails(c) ==
    /\ future[c] = "pending"
    /\ sess[C(c)] = "none"
    /\ future' = [future EXCEPT ![c] = "failed"]

\* The other end's channel is closed, or its process is gone.
PeerGone(e) ==
    sess[Peer(e)] \in {"dropped", "closed"} \/ Owner(Peer(e)) \in crashed

\* The processor must remove the session.
RemovalDue(e) ==
    \/ sess[e] = "removing"
    \/ sess[e] = "open" /\ (closing[e] # "no" \/ PeerGone(e))

\* flush(): the queued message leaves; an end that is gone never reads it.
FlushWrite(e) ==
    /\ e \in outbox
    /\ sess[e] = "open"
    /\ closing[e] # "now"
    /\ outbox' = outbox \ {e}
    /\ wire' = IF PeerGone(e) THEN wire ELSE wire \cup {Peer(e)}

FailWriteIfPeerGone(e) ==   \* a mutant: closeNow leaves the queue as it is
    /\ e \in outbox
    /\ sess[e] = "removing" \/ (sess[e] = "open" /\ PeerGone(e))
    /\ outbox' = outbox \ {e}
    /\ sess' = [sess EXCEPT ![e] = "failing"]

\* removeNow(): clearWriteRequestQueue fails the queued write.
FailWrite(e) ==
    /\ e \in outbox
    /\ RemovalDue(e)
    /\ sess[e] = "open" => closing[e] = "now" \/ PeerGone(e)
    /\ outbox' = outbox \ {e}
    /\ sess' = [sess EXCEPT ![e] = "failing"]

\* removeNow(): the channel is closed, what it still held is lost, and the
\* session is no longer managed.
DropSession(e) ==
    /\ RemovalDue(e)
    /\ e \notin outbox
    /\ wire' = wire \ {e}
    /\ sess' = [sess EXCEPT ![e] = "dropped"]

\* A read or write of the channel throws.
ChannelError(e) ==
    /\ sess[e] = "open"
    /\ sess' = [sess EXCEPT ![e] = "failing"]

\* A message of e is decoded and handed to the handler.
ReadMessage(e) ==
    /\ e \in wire
    /\ sess[e] = "open"
    /\ closing[e] # "now"
    /\ wire' = wire \ {e}
=============================================================================
