-------------------------- MODULE CommunicateService --------------------------
(***************************************************************************)
(* The service of every phone on one WLAN, from finding the other phone    *)
(* over UDP to hanging up, over the client and server halves of            *)
(* remote/mina and the sessions of MINA.                                   *)
(*                                                                         *)
(* Threads of a phone: the main thread (commands of the screens, received  *)
(* UDP messages), the two thread pools of MinaSocketClient and             *)
(* MinaSocketServer (connect and bind tasks), and one MINA processor       *)
(* thread per session (its handler, and the callbacks of its writes).      *)
(* They share state, IS_COMMUNICATING and the fields of the two sockets    *)
(* without a lock, so every call a thread makes is a step of its own and   *)
(* they interleave freely.                                                 *)
(*                                                                         *)
(* The messages modelled are the two that make a call: REQUEST_CALL, from  *)
(* the connecting phone, and RESPONSE_CALL_OK, from the answering one.     *)
(***************************************************************************)
EXTENDS MinaSocketClient, MinaSocketServer

CONSTANTS
    MaxCommands,    \* a bound on the commands the users give
    MaxErrors       \* a bound on the reads and writes that throw

ASSUME BoundsAssumption == MaxCommands \in Nat /\ MaxErrors \in Nat

VARIABLES
    state,      \* state[p], STATE: 0 idle, 1 server waiting, 2 server
                \*           connected, 3 client waiting, 4 client connected
    comm,       \* comm[p]: IS_COMMUNICATING
    ringing,    \* ringing[p]: the screen with the answer button is up
    answered,   \* the connections on which RESPONSE_CALL_OK was written
    inbox,      \* inbox[p]: UDP messages posted to the main thread
    mainWaits,  \* mainWaits[p]: the call in which main waits inside unbind
    procWaits,  \* the ends whose processor thread waits inside unbind
    commands,   \* commands given so far
    errors      \* reads and writes that threw so far

serviceVars ==
    <<state, comm, ringing, answered, inbox, mainWaits, procWaits,
      commands, errors>>
vars == <<minaVars, clientVars, serverVars, serviceVars>>

UdpMessage == [command : {"FIND_OTHER", "START_TCP_CONNECTION"}, data : Phone]

ServiceTypeOK ==
    /\ state \in [Phone -> 0 .. 4]
    /\ comm \in [Phone -> BOOLEAN]
    /\ ringing \in [Phone -> BOOLEAN]
    /\ answered \subseteq Conn
    /\ inbox \in [Phone -> SUBSET UdpMessage]
    /\ mainWaits \in [Phone -> {"no", "endCall", "answer"}]
    /\ procWaits \subseteq End
    /\ commands \in 0 .. MaxCommands
    /\ errors \in 0 .. MaxErrors

\* Every variable holds a value of its type; in particular a pool's tasks are
\* never taken twice (their counts stay natural numbers).
TypeOK == MinaTypeOK /\ ClientTypeOK /\ ServerTypeOK /\ ServiceTypeOK

ServiceInit ==
    /\ state = [p \in Phone |-> 0]
    /\ comm = [p \in Phone |-> FALSE]
    /\ ringing = [p \in Phone |-> FALSE]
    /\ answered = {}
    /\ inbox = [p \in Phone |-> {}]
    /\ mainWaits = [p \in Phone |-> "no"]
    /\ procWaits = {}
    /\ commands = 0
    /\ errors = 0

Init == MinaInit /\ ClientInit /\ ServerInit /\ ServiceInit

-----------------------------------------------------------------------------
(* Threads, and the calls they share. *)

\* The main thread of p can take its next message.
MainFree(p) == p \notin crashed /\ mainWaits[p] = "no"

\* The processor thread of the session e can take its next event.
ProcFree(e) == Owner(e) \in Phone \ crashed /\ e \notin procWaits

\* A datagram to 255.255.255.255 from p: any of the other phones may miss it.
Broadcast(box, p, command) ==
    \E R \in SUBSET (Phone \ {p}) :
        inbox' = [q \in Phone |->
                     IF q \in R
                     THEN box[q] \cup {[command |-> command, data |-> p]}
                     ELSE box[q]]

\* endCall() has to wait inside unbind for p's server sessions to go.
EndCallWaits(p) == state[p] = 2 /\ Unbinds(p) # {}

\* endCall().  In the states 1 and 3 it only resets state: a bound acceptor and
\* a pending connect stay.  When it waits, state is reset after the wait.
\* Sets state and the variables of the two sockets.
EndCall(p) ==
    /\ state' = IF EndCallWaits(p) THEN state ELSE [state EXCEPT ![p] = 0]
    /\ \/ /\ state[p] = 4
          /\ ClientCloseSession(p)
          /\ UNCHANGED <<tcpSession, bound>>
       \/ /\ state[p] = 2
          /\ ServerCloseAndUnbind(p)
          /\ UNCHANGED <<sessionState, session, future>>
       \/ /\ state[p] \notin {2, 4}
          /\ UNCHANGED <<sessionState, session, future, closing, tcpSession,
                         bound>>

\* What the two sessionClosed handlers do to the service, whatever session it
\* was.  Sets state, comm.
SessionOverKeepsComm(p) ==      \* a mutant: IS_COMMUNICATING is not reset
    /\ state' = [state EXCEPT ![p] = 0]
    /\ UNCHANGED comm

SessionOverKeepsState(p) ==     \* a mutant: STATE is not reset
    /\ comm' = [comm EXCEPT ![p] = FALSE]
    /\ UNCHANGED state

SessionOver(p) ==
    /\ comm' = [comm EXCEPT ![p] = FALSE]
    /\ state' = [state EXCEPT ![p] = 0]

-----------------------------------------------------------------------------
(* The main thread: commands of the screens. *)

\* The user of p gives a command.
Command(p) ==
    /\ MainFree(p)
    /\ commands < MaxCommands
    /\ commands' = commands + 1

\* COMMAND_SEND_LOCAL_IP: broadcast FIND_OTHER, when idle.
StartCall(p) ==
    /\ Command(p)
    /\ state[p] = 0
    /\ Broadcast(inbox, p, "FIND_OTHER")
    /\ UNCHANGED <<minaVars, clientVars, serverVars, state, comm, ringing,
                   answered, mainWaits, procWaits, errors>>

\* COMMAND_END_LOCAL and COMMAND_STOP_CALLING (which changes nothing when
\* state is 0); the screen that was up is left.
HangUp(p) ==
    /\ Command(p)
    /\ state[p] # 0
    /\ EndCall(p)
    /\ ringing' = [ringing EXCEPT ![p] = FALSE]
    /\ mainWaits' = IF EndCallWaits(p)
                    THEN [mainWaits EXCEPT ![p] = "endCall"] ELSE mainWaits
    /\ UNCHANGED <<client, server, sess, outbox, wire, crashed, connectFuture,
                   destIP, connectTasks, attached, bindTasks, comm, answered,
                   inbox, procWaits, errors>>

AnswerAtOnce(p) ==          \* a mutant: the call begins before the answer is sent
    /\ Command(p)
    /\ ringing[p] /\ ~comm[p]
    /\ ServerSendQueued(p)
    /\ outbox' = outbox \cup {S(tcpSession[p])}
    /\ answered' = answered \cup {tcpSession[p]}
    /\ comm' = [comm EXCEPT ![p] = TRUE]
    /\ UNCHANGED <<client, server, future, sess, closing, wire, crashed,
                   clientVars, serverVars, state, ringing, inbox, mainWaits,
                   procWaits, errors>>

\* COMMAND_ANSWER_CALL: RESPONSE_CALL_OK is queued on tcpSession ...
Answer(p) ==
    /\ Command(p)
    /\ ringing[p] /\ ~comm[p]
    /\ ServerSendQueued(p)
    /\ outbox' = outbox \cup {S(tcpSession[p])}
    /\ answered' = answered \cup {tcpSession[p]}
    /\ UNCHANGED <<client, server, future, sess, closing, wire, crashed,
                   clientVars, serverVars, state, comm, ringing, inbox,
                   mainWaits, procWaits, errors>>

\* ... or refused at once, and onSendFailed ends the call.  (The third case, no
\* callback at all, changes nothing.)
AnswerRefused(p) ==
    /\ Command(p)
    /\ ringing[p] /\ ~comm[p]
    /\ ServerSendFails(p)
    /\ EndCall(p)
    /\ IF EndCallWaits(p)
       THEN mainWaits' = [mainWaits EXCEPT ![p] = "answer"] /\ UNCHANGED comm
       ELSE comm' = [comm EXCEPT ![p] = FALSE] /\ UNCHANGED mainWaits
    /\ UNCHANGED <<client, server, sess, outbox, wire, crashed, connectFuture,
                   destIP, connectTasks, attached, bindTasks, ringing,
                   answered, inbox, procWaits, errors>>

\* unbind has returned to the main thread: the rest of endCall, and of
\* onSendFailed if that is what called it.
MainResumes(p) ==
    /\ p \notin crashed
    /\ mainWaits[p] # "no"
    /\ ManagedSessions(p) = {}
    /\ state' = [state EXCEPT ![p] = 0]
    /\ comm' = IF mainWaits[p] = "answer"
               THEN [comm EXCEPT ![p] = FALSE] ELSE comm
    /\ mainWaits' = [mainWaits EXCEPT ![p] = "no"]
    /\ UNCHANGED <<minaVars, clientVars, serverVars, ringing, answered, inbox,
                   procWaits, commands, errors>>

-----------------------------------------------------------------------------
(* The main thread: received UDP messages. *)

Received(p, command, q) ==
    /\ MainFree(p)
    /\ [command |-> command, data |-> q] \in inbox[p]

Taken(p, command, q) ==
    [inbox EXCEPT ![p] = @ \ {[command |-> command, data |-> q]}]

\* FIND_OTHER: startSocketListen, which binds only when idle, and then
\* START_TCP_CONNECTION to everyone, whatever came of it.
OnFindOther(p, q) ==
    /\ Received(p, "FIND_OTHER", q)
    /\ IF state[p] = 0 THEN Bind(p) ELSE UNCHANGED bindTasks
    /\ Broadcast(Taken(p, "FIND_OTHER", q), p, "START_TCP_CONNECTION")
    /\ UNCHANGED <<minaVars, clientVars, bound, tcpSession, state, comm,
                   ringing, answered, mainWaits, procWaits, commands, errors>>

\* START_TCP_CONNECTION: startSocketConnect, when idle.  MINA refuses a new
\* handler for an active connector, and the exception kills the process.
OnStartTcp(p, q) ==
    /\ Received(p, "START_TCP_CONNECTION", q)
    /\ inbox' = Taken(p, "START_TCP_CONNECTION", q)
    /\ \/ /\ state[p] # 0
          /\ UNCHANGED <<state, destIP, connectTasks, crashed>>
       \/ /\ state[p] = 0 /\ ~ConnectorActive(p)
          /\ state' = [state EXCEPT ![p] = 3]
          /\ ClientConnect(p, q)
          /\ UNCHANGED crashed
       \/ /\ state[p] = 0 /\ ConnectorActive(p)
          /\ crashed' = crashed \cup {p}
          /\ UNCHANGED <<state, destIP, connectTasks>>
    /\ UNCHANGED <<client, server, future, sess, closing, outbox, wire,
                   sessionState, session, connectFuture, attached, serverVars,
                   comm, ringing, answered, mainWaits, procWaits, commands,
                   errors>>

-----------------------------------------------------------------------------
(* The thread pools. *)

\* A connect task starts to connect, or finds the client not closed and stops.
RunConnect(p) ==
    /\ p \notin crashed
    /\ \/ \E c \in Conn : RunConnectClosed(p, c)
       \/ /\ RunConnectIgnored(p)
          /\ UNCHANGED <<client, server, future, sessionState, connectFuture>>
    /\ UNCHANGED <<sess, closing, outbox, wire, crashed, session, destIP,
                   attached, serverVars, serviceVars>>

\* What the two listeners of the future of c do with its result: the client's,
\* and the service's, which resets STATE when the connect failed.
FutureListeners(c, result) ==
    /\ ListenerRuns(c, result)
    /\ state' = IF result = "failed"
                THEN [state EXCEPT ![client[c]] = 0] ELSE state

\* The connect task adds its listeners: they run now if the future is done.
AttachListeners(c) ==
    /\ client[c] \in Phone \ crashed
    /\ c \notin attached
    /\ attached' = attached \cup {c}
    /\ IF future[c] = "pending"
       THEN UNCHANGED <<sessionState, session, state>>
       ELSE FutureListeners(c, future[c])
    /\ UNCHANGED <<minaVars, connectFuture, destIP, connectTasks, serverVars,
                   comm, ringing, answered, inbox, mainWaits, procWaits, commands,
                   errors>>

\* A bind task calls acceptor.bind, and then the listener of startSocketListen,
\* which sets STATE whatever has happened in between.
RunBind(p) ==
    /\ p \notin crashed
    /\ RunBindSucceeds(p) \/ RunBindFails(p)
    /\ UNCHANGED <<minaVars, clientVars, tcpSession, serviceVars>>

OnBindSucess(p) ==
    /\ p \notin crashed
    /\ BindReports(p, "succeeded")
    /\ state' = [state EXCEPT ![p] = 1]
    /\ UNCHANGED <<minaVars, clientVars, bound, tcpSession, comm, ringing,
                   answered, inbox, mainWaits, procWaits, commands, errors>>

OnBindFailed(p) ==
    /\ p \notin crashed
    /\ BindReports(p, "failed")
    /\ state' = [state EXCEPT ![p] = 0]
    /\ UNCHANGED <<minaVars, clientVars, bound, tcpSession, comm, ringing,
                   answered, inbox, mainWaits, procWaits, commands, errors>>

-----------------------------------------------------------------------------
(* A connection is made, or not. *)

Established(c) ==
    /\ TcpEstablished(c)
    /\ {client[c], server[c]} \cap crashed = {}
    /\ bound[server[c]]
    /\ UNCHANGED <<client, server, future, closing, outbox, wire, crashed,
                   clientVars, serverVars, serviceVars>>

ConnectFails(c) ==
    /\ TcpConnectFails(c)
    /\ client[c] \notin crashed
    /\ IF c \in attached
       THEN FutureListeners(c, "failed")
       ELSE UNCHANGED <<sessionState, session, state>>
    /\ UNCHANGED <<client, server, sess, closing, outbox, wire, crashed,
                   connectFuture, destIP, connectTasks, attached, serverVars,
                   comm, ringing, answered, inbox, mainWaits, procWaits, commands,
                   errors>>

\* The listening socket is closed before the acceptor has taken the connection.
NeverAccepted(c) ==
    /\ sess[S(c)] = "created"
    /\ ~bound[server[c]] \/ server[c] \in crashed
    /\ sess' = [sess EXCEPT ![S(c)] = "closed"]
    /\ UNCHANGED <<client, server, future, closing, outbox, wire, crashed,
                   clientVars, serverVars, serviceVars>>

\* The connecting phone's processor fires sessionCreated: the future is done.
ClientSessionCreated(c) ==
    /\ ProcFree(C(c))
    /\ sess[C(c)] = "created"
    /\ future[c] = "pending"
    /\ future' = [future EXCEPT ![c] = "connected"]
    /\ IF c \in attached
       THEN FutureListeners(c, "connected")
       ELSE UNCHANGED <<sessionState, session, state>>
    /\ UNCHANGED <<client, server, sess, closing, outbox, wire, crashed,
                   connectFuture, destIP, connectTasks, attached, serverVars,
                   comm, ringing, answered, inbox, mainWaits, procWaits, commands,
                   errors>>

-----------------------------------------------------------------------------
(* Processor threads: the handlers of startSocketConnect. *)

\* sessionOpened sets STATE to 4 and sends REQUEST_CALL.  When that fails at
\* once, onSendFailed calls endCall, here with STATE = 4.
ClientSessionOpened(c) ==
    LET p == client[c] IN
    /\ ProcFree(C(c))
    /\ sess[C(c)] = "created"
    /\ future[c] # "pending"
    /\ sess' = [sess EXCEPT ![C(c)] = "open"]
    /\ IF ClientSendFails(p)
       THEN /\ state' = [state EXCEPT ![p] = 0]
            /\ ClientCloseSession(p)
            /\ UNCHANGED outbox
       ELSE /\ state' = [state EXCEPT ![p] = 4]
            /\ outbox' = IF ClientSendQueued(p)
                         THEN outbox \cup {C(session[p])} ELSE outbox
            /\ UNCHANGED <<sessionState, session, future, closing>>
    /\ UNCHANGED <<client, server, wire, crashed, connectFuture, destIP,
                   connectTasks, attached, serverVars, comm, ringing, answered,
                   inbox, mainWaits, procWaits, commands, errors>>

\* messageReceived, RESPONSE_CALL_OK.
ClientMessageReceivedIfConnected(c) ==  \* a mutant: only heard in STATE 4
    /\ ProcFree(C(c))
    /\ ReadMessage(C(c))
    /\ comm' = [comm EXCEPT ![client[c]] = comm[client[c]] \/ state[client[c]] = 4]
    /\ UNCHANGED <<client, server, future, sess, closing, outbox, crashed,
                   clientVars, serverVars, state, ringing, answered, inbox,
                   mainWaits, procWaits, commands, errors>>

ClientMessageReceived(c) ==
    /\ ProcFree(C(c))
    /\ ReadMessage(C(c))
    /\ comm' = [comm EXCEPT ![client[c]] = TRUE]
    /\ UNCHANGED <<client, server, future, sess, closing, outbox, crashed,
                   clientVars, serverVars, state, ringing, answered, inbox,
                   mainWaits, procWaits, commands, errors>>

\* exceptionCaught: closeSession, then everything is reset.
ClientExceptionCaught(c) ==
    LET p == client[c] IN
    /\ ProcFree(C(c))
    /\ sess[C(c)] = "failing"
    /\ sess' = [sess EXCEPT ![C(c)] = "removing"]
    /\ ClientCloseSession(p)
    /\ comm' = [comm EXCEPT ![p] = FALSE]
    /\ state' = [state EXCEPT ![p] = 0]
    /\ UNCHANGED <<client, server, outbox, wire, crashed, connectFuture, destIP,
                   connectTasks, attached, serverVars, ringing, answered,
                   inbox, mainWaits, procWaits, commands, errors>>

\* sessionClosed.
ClientSessionClosed(c) ==
    LET p == client[c] IN
    /\ ProcFree(C(c))
    /\ sess[C(c)] = "dropped"
    /\ sess' = [sess EXCEPT ![C(c)] = "closed"]
    /\ SessionOver(p)
    /\ sessionState' = [sessionState EXCEPT ![p] = "CLOSED"]
    /\ UNCHANGED <<client, server, future, closing, outbox, wire, crashed,
                   session, connectFuture, destIP, connectTasks, attached,
                   serverVars, ringing, answered, inbox, mainWaits, procWaits,
                   commands, errors>>

-----------------------------------------------------------------------------
(* Processor threads: the handlers of startSocketListen, as wrapped. *)

\* sessionOpened: the session is kept and STATE is set to 2, unless there is a
\* session already.
ServerSessionOpened(c) ==
    LET p == server[c] IN
    /\ ProcFree(S(c))
    /\ sess[S(c)] = "created"
    /\ sess' = [sess EXCEPT ![S(c)] = "open"]
    /\ IF Announced(p)
       THEN /\ tcpSession' = [tcpSession EXCEPT ![p] = c]
            /\ state' = [state EXCEPT ![p] = 2]
       ELSE UNCHANGED <<tcpSession, state>>
    /\ UNCHANGED <<client, server, future, closing, outbox, wire, crashed,
                   clientVars, bound, bindTasks, comm, ringing, answered,
                   inbox, mainWaits, procWaits, commands, errors>>

\* messageReceived, REQUEST_CALL: OnCallEvent brings up the answer button.
ServerMessageReceivedIfConnected(c) ==  \* a mutant: only heard in STATE 2
    LET p == server[c] IN
    /\ ProcFree(S(c))
    /\ ReadMessage(S(c))
    /\ ringing' = [ringing EXCEPT ![p] = ringing[p] \/ state[p] = 2]
    /\ UNCHANGED <<client, server, future, sess, closing, outbox, crashed,
                   clientVars, serverVars, state, comm, answered, inbox,
                   mainWaits, procWaits, commands, errors>>

ServerMessageReceived(c) ==
    /\ ProcFree(S(c))
    /\ ReadMessage(S(c))
    /\ ringing' = [ringing EXCEPT ![server[c]] = TRUE]
    /\ UNCHANGED <<client, server, future, sess, closing, outbox, crashed,
                   clientVars, serverVars, state, comm, answered, inbox,
                   mainWaits, procWaits, commands, errors>>

\* exceptionCaught: the service's own exceptionCaught is never called.
ServerExceptionHandled(c) ==
    /\ ProcFree(S(c))
    /\ sess[S(c)] = "failing"
    /\ sess' = [sess EXCEPT ![S(c)] = "removing"]
    /\ ServerExceptionCaught(server[c])
    /\ UNCHANGED <<client, server, future, outbox, wire, crashed, clientVars,
                   serverVars, serviceVars>>

\* sessionClosed: the service's handler, then unbind.
ServerClosed(c) ==
    LET p == server[c] IN
    /\ ProcFree(S(c))
    /\ sess[S(c)] = "dropped"
    /\ sess' = [sess EXCEPT ![S(c)] = "closed"]
    /\ ServerSessionClosed(p)
    /\ SessionOver(p)
    /\ UNCHANGED <<client, server, future, outbox, wire, crashed, clientVars,
                   bindTasks, ringing, answered, inbox, mainWaits, procWaits,
                   commands, errors>>

-----------------------------------------------------------------------------
(* Processor threads: writing and closing. *)

\* REQUEST_CALL is written: onSendSuccess only brings up a screen.
RequestSent(c) ==
    /\ ProcFree(C(c))
    /\ FlushWrite(C(c))
    /\ UNCHANGED <<client, server, future, sess, closing, crashed, clientVars,
                   serverVars, serviceVars>>

\* RESPONSE_CALL_OK is written: onSendSuccess of responseAnswerCall.
ResponseSent(c) ==
    /\ ProcFree(S(c))
    /\ FlushWrite(S(c))
    /\ comm' = [comm EXCEPT ![server[c]] = TRUE]
    /\ UNCHANGED <<client, server, future, sess, closing, crashed, clientVars,
                   serverVars, state, ringing, answered, inbox, mainWaits,
                   procWaits, commands, errors>>

\* REQUEST_CALL is not written: onSendFailed calls endCall on this thread.
RequestNotSent(c) ==
    LET p == client[c] IN
    /\ ProcFree(C(c))
    /\ FailWrite(C(c))
    /\ EndCall(p)
    /\ procWaits' = IF EndCallWaits(p) THEN procWaits \cup {C(c)} ELSE procWaits
    /\ UNCHANGED <<client, server, wire, crashed, connectFuture, destIP,
                   connectTasks, attached, bindTasks, comm, ringing, answered,
                   inbox, mainWaits, commands, errors>>

\* RESPONSE_CALL_OK is not written: endCall, on the very thread that has to
\* remove this session before unbind can return.
ResponseNotSent(c) ==
    LET p == server[c] IN
    /\ ProcFree(S(c))
    /\ FailWrite(S(c))
    /\ EndCall(p)
    /\ IF EndCallWaits(p)
       THEN procWaits' = procWaits \cup {S(c)} /\ UNCHANGED comm
       ELSE comm' = [comm EXCEPT ![p] = FALSE] /\ UNCHANGED procWaits
    /\ UNCHANGED <<client, server, wire, crashed, connectFuture, destIP,
                   connectTasks, attached, bindTasks, ringing, answered, inbox,
                   mainWaits, commands, errors>>

\* unbind has returned to a processor thread: the rest of endCall.
ProcResumes(e) ==
    /\ e \in procWaits
    /\ Owner(e) \notin crashed
    /\ ManagedSessions(Owner(e)) = {}
    /\ procWaits' = procWaits \ {e}
    /\ state' = [state EXCEPT ![Owner(e)] = 0]
    /\ UNCHANGED <<minaVars, clientVars, serverVars, comm, ringing, answered,
                   inbox, mainWaits, commands, errors>>

ReadOrWriteError(e) ==
    /\ ProcFree(e)
    /\ ChannelError(e)
    /\ errors < MaxErrors
    /\ errors' = errors + 1
    /\ UNCHANGED <<client, server, future, closing, outbox, wire, crashed,
                   clientVars, serverVars, state, comm, ringing, answered,
                   inbox, mainWaits, procWaits, commands>>

Drop(e) ==
    /\ ProcFree(e)
    /\ DropSession(e)
    /\ UNCHANGED <<client, server, future, closing, outbox, crashed,
                   clientVars, serverVars, serviceVars>>

-----------------------------------------------------------------------------
Users(p) == StartCall(p) \/ HangUp(p) \/ Answer(p) \/ AnswerRefused(p)

Main(p) ==
    \/ MainResumes(p)
    \/ \E q \in Phone : OnFindOther(p, q) \/ OnStartTcp(p, q)

ConnectPool(c) == AttachListeners(c)

BindPool(p) == RunBind(p) \/ OnBindSucess(p) \/ OnBindFailed(p)

Network(c) == Established(c) \/ ConnectFails(c) \/ NeverAccepted(c)

ClientProcessor(c) ==
    \/ ClientSessionCreated(c) \/ ClientSessionOpened(c)
    \/ ClientMessageReceived(c) \/ ClientExceptionCaught(c)
    \/ RequestSent(c) \/ RequestNotSent(c)
    \/ Drop(C(c)) \/ ClientSessionClosed(c) \/ ProcResumes(C(c))

ServerProcessor(c) ==
    \/ ServerSessionOpened(c) \/ ServerMessageReceived(c)
    \/ ServerExceptionHandled(c) \/ ResponseSent(c) \/ ResponseNotSent(c)
    \/ Drop(S(c)) \/ ServerClosed(c)

Next ==
    \/ \E p \in Phone : Users(p) \/ Main(p) \/ BindPool(p) \/ RunConnect(p)
    \/ \E c \in Conn : \/ ConnectPool(c) \/ Network(c)
                       \/ ClientProcessor(c) \/ ServerProcessor(c)
    \/ \E e \in End : ReadOrWriteError(e)

Spec == Init /\ [][Next]_vars

\* Every thread that can go on does, and a connect attempt has an outcome (the
\* connector's timeout).  Users need not act, and channels need not fail.
Fairness ==
    /\ \A p \in Phone : /\ WF_vars(Main(p))
                        /\ WF_vars(BindPool(p))
                        /\ WF_vars(RunConnect(p))
    /\ \A c \in Conn : /\ WF_vars(ConnectPool(c))
                       /\ WF_vars(Network(c))
                       /\ WF_vars(ClientProcessor(c))
                       /\ WF_vars(ServerProcessor(c))

FairSpec == Spec /\ Fairness

-----------------------------------------------------------------------------
(* Safety. *)

\* A session of p has been opened and its sessionClosed has not run.
LiveServer(p, c) == server[c] = p /\ sess[S(c)] \in Managed \cup {"dropped"}
LiveClient(p, c) == client[c] = p /\ sess[C(c)] \in Managed \cup {"dropped"}

\* The phone is inside endCall, waiting for unbind.
EndingCall(p) == mainWaits[p] # "no" \/ \E e \in procWaits : Owner(e) = p

\* The states 2 and 4 are never about a dead session: a phone that says it is
\* connected as a server holds the session it sends on (unless it is ending
\* the call), and one that says it is connected as a client has a live one.
\* Late callbacks, extra sessions and write failures all reset STATE; none may
\* leave it at 2 or 4 after the last session.
ServerStateIsBacked ==
    \A p \in Phone \ crashed :
        state[p] = 2 => tcpSession[p] # NoConn \/ EndingCall(p)

ClientStateIsBacked ==
    \A p \in Phone \ crashed :
        state[p] = 4 => \E c \in Conn : LiveClient(p, c)

ConnectedStateIsBacked == ServerStateIsBacked /\ ClientStateIsBacked

\* tcpSession never outlives its session, so responseAnswerCall and sendText
\* never write to a session whose sessionClosed has run.
TcpSessionIsLive ==
    \A p \in Phone \ crashed :
        tcpSession[p] # NoConn => LiveServer(p, tcpSession[p])

\* A phone is in a call only over a session that is still live and on which
\* the user of the accepting phone has answered: hanging up, losing the
\* session or an answer that is not delivered never leave IS_COMMUNICATING set.
CommunicatingWasAnswered ==
    \A p \in Phone \ crashed : comm[p] =>
        \E c \in answered : LiveServer(p, c) \/ LiveClient(p, c)

\* ConnectedSessionState sends on, and closes, a session that was connected:
\* a listener that comes late, a cancelled future and a closed session never
\* leave the client CONNECTED to nothing (a null session).
ConnectedHasSession ==
    \A p \in Phone : sessionState[p] = "CONNECTED" =>
        /\ session[p] # NoConn
        /\ client[session[p]] = p
        /\ future[session[p]] = "connected"

\* What the invariants above rest on: a connection is used once and its
\* accepting end never precedes its connecting end; a processor thread waits
\* only between a failed write and the exceptionCaught that follows;
\* RESPONSE_CALL_OK travels only where an answer was given; and a connect task
\* knows whom to connect to.
FreshConn ==
    \A c \in Conn : /\ future[c] = "none" =>
                         sess[C(c)] = "none" /\ client[c] = NoPhone
                    /\ sess[C(c)] = "none" => sess[S(c)] = "none"

WaitingProc == \A e \in procWaits : sess[e] = "failing"

ResponseWasGiven ==
    \A c \in Conn : S(c) \in outbox \/ C(c) \in wire => c \in answered

DestKnown == \A p \in Phone : connectTasks[p] > 0 => destIP[p] \in Phone

IInv ==
    /\ TypeOK /\ ConnectedHasSession /\ FreshConn /\ WaitingProc
    /\ ResponseWasGiven /\ DestKnown /\ TcpSessionIsLive /\ ConnectedStateIsBacked
    /\ CommunicatingWasAnswered

-----------------------------------------------------------------------------
(* What the users are promised. *)

Line(e) ==
    CASE sess[e] \in {"none", "created"} -> "new"
      [] sess[e] = "closed" -> "over"
      [] OTHER -> "up"

Promise == INSTANCE CallPromise
    WITH caller <- client,
         callee <- server,
         line <- [e \in End |-> Line(e)],
         onWay <- wire,
         ringing <- {p \in Phone : ringing[p]},
         inCall <- {p \in Phone \ crashed : comm[p]}

\* Whichever threads meet in whichever order, and whatever fails: a phone is put
\* into a call only by an answer that its user gave to a ringing phone, over a
\* session that is open, and that was sent (the callee) or has arrived (the
\* caller), and leaves it with the end of any of its sessions.
PromiseSpec == Promise!Spec

-----------------------------------------------------------------------------
(* Liveness, under FairSpec. *)

\* The connection c has failed, or one of its phones is closing it.
BrokenDown(c) ==
    \E e \in {C(c), S(c)} : \/ sess[e] \notin {"created", "open"}
                            \/ closing[e] # "no"
                            \/ Owner(e) \in crashed

\* REQUEST_CALL, once sent, brings up the answer button of the other phone, or
\* the session breaks down (or a thread waits in unbind for ever).
RequestRings ==
    \A c \in Conn :
        C(c) \in outbox ~> \/ BrokenDown(c)
                           \/ ringing[server[c]]
                           \/ S(c) \in procWaits \/ C(c) \in procWaits

\* An answer puts the calling phone in the call, or the session breaks down.
AnswerGetsThrough ==
    \A c \in Conn :
        c \in answered ~> BrokenDown(c) \/ comm[client[c]]

\* When a session is closed at one end, the phone at the other end closes it and
\* leaves the call, unless its processor waits in unbind.
CloseEndsCallAtPeer ==
    \A e \in End :
        sess[e] = "closed" /\ sess[Peer(e)] # "closed" ~>
            \/ sess[Peer(e)] = "closed" /\ ~comm[Owner(Peer(e))]
            \/ Owner(Peer(e)) \in crashed
            \/ Peer(e) \in procWaits

\* The main thread comes back from unbind, unless a session it waits for is
\* served by a thread that itself waits in unbind, or opened after unbind had
\* told the others to close.
UnbindReturns ==
    \A p \in Phone :
        mainWaits[p] # "no" ~>
            \/ mainWaits[p] = "no"
            \/ p \in crashed
            \/ \E e \in ManagedSessions(p) :
                   e \in procWaits \/ closing[e] = "no"

-----------------------------------------------------------------------------
(* What comments of the code say and the code does not do. *)

\* STATE: "2: the server is connected".
ServerConnectedState ==
    \A p \in Phone \ crashed :
        tcpSession[p] # NoConn /\ sess[S(tcpSession[p])] = "open"
                              /\ closing[S(tcpSession[p])] = "no"
        => state[p] = 2

\* connectTimeoutMillis: "times out after 10 seconds", so a phone whose connect
\* task has run does not wait as a client (STATE 3) for ever.
ClientWaitEnds ==
    \A p \in Phone :
        state[p] = 3 /\ connectTasks[p] = 0 ~> state[p] # 3 \/ p \in crashed
=============================================================================
