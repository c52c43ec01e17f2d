----------------------- MODULE CommunicateService_proofs -----------------------
EXTENDS CommunicateService, TLAPS

\* The initial state is well typed.
LEMMA InitTypeOK == Init => TypeOK
  BY NullAssumption, BoundsAssumption
     DEF Init, MinaInit, ClientInit, ServerInit, ServiceInit, TypeOK, MinaTypeOK,
         ClientTypeOK, ServerTypeOK, ServiceTypeOK, BindStage, FutureStatus,
         SessionStatus

\* closeOnFlush and closeNow keep the type of closing.
LEMMA ClosingType ==
  ASSUME NEW cl \in [End -> {"no", "flush", "now"}], NEW E
  PROVE  /\ CloseOnFlush(cl, E) \in [End -> {"no", "flush", "now"}]
         /\ CloseNow(cl, E) \in [End -> {"no", "flush", "now"}]
  BY DEF CloseOnFlush, CloseNow

\* Both ends of a connection are ends.
LEMMA EndType == \A c \in Conn : C(c) \in End /\ S(c) \in End
  BY DEF C, S, End

\* Messages are broadcast to well-typed inboxes only.
LEMMA BroadcastType ==
  ASSUME NEW box \in [Phone -> SUBSET UdpMessage], NEW p \in Phone,
         NEW command \in {"FIND_OTHER", "START_TCP_CONNECTION"},
         Broadcast(box, p, command)
  PROVE  inbox' \in [Phone -> SUBSET UdpMessage]
  BY DEF Broadcast, UdpMessage

\* closeSession keeps the types of what it sets.
LEMMA ClientCloseType ==
  ASSUME TypeOK, NEW p \in Phone, ClientCloseSession(p)
  PROVE  /\ sessionState' \in [Phone -> {"CLOSED", "CONNECTING", "CONNECTED"}]
         /\ session' \in [Phone -> Conn \cup {NoConn}]
         /\ future' \in [Conn -> FutureStatus]
         /\ closing' \in [End -> {"no", "flush", "now"}]
  BY ClosingType
     DEF TypeOK, MinaTypeOK, ClientTypeOK, ClientCloseSession, Cancels,
         FutureStatus

\* endCall keeps the types of what it sets.
LEMMA EndCallType ==
  ASSUME TypeOK, NEW p \in Phone, EndCall(p)
  PROVE  /\ state' \in [Phone -> 0 .. 4]
         /\ sessionState' \in [Phone -> {"CLOSED", "CONNECTING", "CONNECTED"}]
         /\ session' \in [Phone -> Conn \cup {NoConn}]
         /\ future' \in [Conn -> FutureStatus]
         /\ closing' \in [End -> {"no", "flush", "now"}]
         /\ tcpSession' \in [Phone -> Conn \cup {NoConn}]
         /\ bound' \in [Phone -> BOOLEAN]
  <1>1. state' \in [Phone -> 0 .. 4]
    BY DEF EndCall, TypeOK, ServiceTypeOK
  <1>2. CASE state[p] = 4
    <2>1. ClientCloseSession(p) /\ UNCHANGED <<tcpSession, bound>>
      BY <1>2 DEF EndCall
    <2> QED BY <1>1, <2>1, ClientCloseType DEF TypeOK, ServerTypeOK
  <1>3. CASE state[p] = 2
    <2>1. /\ ServerCloseAndUnbind(p)
          /\ UNCHANGED <<sessionState, session, future>>
      BY <1>3 DEF EndCall
    <2> QED
      BY <1>1, <2>1, ClosingType
         DEF TypeOK, MinaTypeOK, ClientTypeOK, ServerTypeOK, ServerCloseAndUnbind
  <1>4. CASE state[p] # 4 /\ state[p] # 2
    <2>1. UNCHANGED <<sessionState, session, future, closing, tcpSession, bound>>
      BY <1>4 DEF EndCall
    <2> QED BY <1>1, <2>1 DEF TypeOK, MinaTypeOK, ClientTypeOK, ServerTypeOK
  <1> QED BY <1>2, <1>3, <1>4

\* The owner of an end, and the end opposite.
LEMMA EndFacts ==
  ASSUME NEW c \in Conn
  PROVE  /\ C(c) \in End /\ S(c) \in End
         /\ Owner(C(c)) = client[c] /\ Owner(S(c)) = server[c]
         /\ Peer(C(c)) = S(c) /\ Peer(S(c)) = C(c)
         /\ C(c) # S(c)
  BY DEF C, S, End, Owner, Peer

\* Setting STATE or IS_COMMUNICATING of a phone keeps the types.
LEMMA UpdateType ==
  ASSUME NEW D, NEW T, NEW f \in [D -> T], NEW x \in T, NEW p
  PROVE  [f EXCEPT ![p] = x] \in [D -> T]
  OBVIOUS

LEMMA ResetType ==
  ASSUME ServiceTypeOK, NEW p
  PROVE  /\ [state EXCEPT ![p] = 0] \in [Phone -> 0 .. 4]
         /\ [comm EXCEPT ![p] = FALSE] \in [Phone -> BOOLEAN]
  <1>1. [state EXCEPT ![p] = 0] \in [Phone -> 0 .. 4]
    BY UpdateType DEF ServiceTypeOK
  <1>2. [comm EXCEPT ![p] = FALSE] \in [Phone -> BOOLEAN]
    <2>1. comm \in [Phone -> BOOLEAN]
      BY DEF ServiceTypeOK
    <2> QED BY <2>1, UpdateType, Zenon
  <1> QED BY <1>1, <1>2

\* Every step keeps the types, one action after the other; that outbox holds
\* ends needs ConnectedHasSession.
LEMMA NextTypeOK == TypeOK /\ ConnectedHasSession /\ [Next]_vars => TypeOK'
  <1> SUFFICES ASSUME TypeOK, ConnectedHasSession, [Next]_vars PROVE TypeOK'
    OBVIOUS
  <1>a. MinaTypeOK /\ ClientTypeOK /\ ServerTypeOK /\ ServiceTypeOK
    BY DEF TypeOK
  <1>1. ASSUME NEW p \in Phone, StartCall(p) PROVE TypeOK'
    <2>i. inbox' \in [Phone -> SUBSET UdpMessage]
      BY <1>1, <1>a, BroadcastType DEF StartCall, ServiceTypeOK
    <2>1. MinaTypeOK'
      BY <1>1, <1>a DEF StartCall, Command, MinaTypeOK, minaVars
    <2>2. ClientTypeOK'
      BY <1>1, <1>a DEF StartCall, Command, ClientTypeOK, clientVars
    <2>3. ServerTypeOK'
      BY <1>1, <1>a DEF StartCall, Command, ServerTypeOK, serverVars
    <2>4. ServiceTypeOK'
      BY <1>1, <1>a, <2>i, BoundsAssumption DEF StartCall, Command,
         ServiceTypeOK, serviceVars
    <2> QED BY <2>1, <2>2, <2>3, <2>4 DEF TypeOK
  <1>2. ASSUME NEW p \in Phone, HangUp(p) PROVE TypeOK'
    <2>1. MinaTypeOK'
      BY <1>2, <1>a, EndCallType DEF HangUp, Command, MinaTypeOK, minaVars
    <2>2. ClientTypeOK'
      BY <1>2, <1>a, EndCallType DEF HangUp, Command, ClientTypeOK, clientVars
    <2>3. ServerTypeOK'
      BY <1>2, <1>a, EndCallType DEF HangUp, Command, ServerTypeOK, serverVars
    <2>4. ServiceTypeOK'
      BY <1>2, <1>a, EndCallType, BoundsAssumption DEF HangUp, Command,
         ServiceTypeOK, serviceVars
    <2> QED BY <2>1, <2>2, <2>3, <2>4 DEF TypeOK
  <1>3. ASSUME NEW p \in Phone, Answer(p) PROVE TypeOK'
    <2>1. MinaTypeOK'
      BY <1>3, <1>a, EndFacts DEF Answer, Command, ServerSendQueued, HasSession,
         ServerTypeOK, MinaTypeOK, minaVars
    <2>2. ClientTypeOK'
      BY <1>3, <1>a DEF Answer, Command, ClientTypeOK, clientVars
    <2>3. ServerTypeOK'
      BY <1>3, <1>a DEF Answer, Command, ServerTypeOK, serverVars
    <2>4. ServiceTypeOK'
      BY <1>3, <1>a, BoundsAssumption DEF Answer, Command, ServerSendQueued,
         HasSession, ServerTypeOK, ServiceTypeOK, serviceVars
    <2> QED BY <2>1, <2>2, <2>3, <2>4 DEF TypeOK
  <1>4. ASSUME NEW p \in Phone, AnswerRefused(p) PROVE TypeOK'
    <2>c. comm' \in [Phone -> BOOLEAN]
      <3>1. comm' = comm \/ comm' = [comm EXCEPT ![p] = FALSE]
        BY <1>4 DEF AnswerRefused
      <3>2. comm \in [Phone -> BOOLEAN]
        BY <1>a DEF ServiceTypeOK
      <3>3. [comm EXCEPT ![p] = FALSE] \in [Phone -> BOOLEAN]
        BY <1>a, ResetType
      <3> QED BY <3>1, <3>2, <3>3, Zenon
    <2>1. MinaTypeOK'
      BY <1>4, <1>a, EndCallType DEF AnswerRefused, Command, MinaTypeOK,
         minaVars
    <2>2. ClientTypeOK'
      BY <1>4, <1>a, EndCallType DEF AnswerRefused, Command, ClientTypeOK,
         clientVars
    <2>3. ServerTypeOK'
      BY <1>4, <1>a, EndCallType DEF AnswerRefused, Command, ServerTypeOK,
         serverVars
    <2>4. ServiceTypeOK'
      BY <1>4, <1>a, EndCallType, BoundsAssumption, <2>c DEF AnswerRefused,
         Command, ServiceTypeOK, serviceVars
    <2> QED BY <2>1, <2>2, <2>3, <2>4 DEF TypeOK
  <1>5. ASSUME NEW p \in Phone, MainResumes(p) PROVE TypeOK'
    <2>1. MinaTypeOK'
      BY <1>5, <1>a DEF MainResumes, MinaTypeOK, minaVars
    <2>2. ClientTypeOK'
      BY <1>5, <1>a DEF MainResumes, ClientTypeOK, clientVars
    <2>3. ServerTypeOK'
      BY <1>5, <1>a DEF MainResumes, ServerTypeOK, serverVars
    <2>4. ServiceTypeOK'
      BY <1>5, <1>a DEF MainResumes, ServiceTypeOK, serviceVars
    <2> QED BY <2>1, <2>2, <2>3, <2>4 DEF TypeOK
  <1>6. ASSUME NEW p \in Phone, NEW q \in Phone, OnFindOther(p, q) PROVE TypeOK'
    <2>i. inbox' \in [Phone -> SUBSET UdpMessage]
      <3>1. Taken(p, "FIND_OTHER", q) \in [Phone -> SUBSET UdpMessage]
        BY <1>a DEF Taken, ServiceTypeOK
      <3> QED
        BY <1>6, <3>1, BroadcastType DEF OnFindOther
    <2>1. MinaTypeOK'
      BY <1>6, <1>a DEF OnFindOther, MinaTypeOK, minaVars
    <2>2. ClientTypeOK'
      BY <1>6, <1>a DEF OnFindOther, ClientTypeOK, clientVars
    <2>3. ServerTypeOK'
      BY <1>6, <1>a DEF OnFindOther, Bind, BindStage, ServerTypeOK, serverVars
    <2>4. ServiceTypeOK'
      BY <1>6, <1>a, <2>i DEF OnFindOther, ServiceTypeOK, serviceVars
    <2> QED BY <2>1, <2>2, <2>3, <2>4 DEF TypeOK
  <1>7. ASSUME NEW p \in Phone, NEW q \in Phone, OnStartTcp(p, q) PROVE TypeOK'
    <2>1. MinaTypeOK'
      BY <1>7, <1>a DEF OnStartTcp, MinaTypeOK, minaVars
    <2>2. ClientTypeOK'
      BY <1>7, <1>a DEF OnStartTcp, ClientConnect, ClientTypeOK, clientVars
    <2>3. ServerTypeOK'
      BY <1>7, <1>a DEF OnStartTcp, ServerTypeOK, serverVars
    <2>4. ServiceTypeOK'
      BY <1>7, <1>a DEF OnStartTcp, Taken, ServiceTypeOK, serviceVars
    <2> QED BY <2>1, <2>2, <2>3, <2>4 DEF TypeOK
  <1>8. ASSUME NEW p \in Phone, RunBind(p) PROVE TypeOK'
    <2>1. MinaTypeOK'
      BY <1>8, <1>a DEF RunBind, MinaTypeOK, minaVars
    <2>2. ClientTypeOK'
      BY <1>8, <1>a DEF RunBind, ClientTypeOK, clientVars
    <2>3. ServerTypeOK'
      BY <1>8, <1>a DEF RunBind, RunBindSucceeds, RunBindFails, BindStage,
         ServerTypeOK, serverVars
    <2>4. ServiceTypeOK'
      BY <1>8, <1>a DEF RunBind, ServiceTypeOK, serviceVars
    <2> QED BY <2>1, <2>2, <2>3, <2>4 DEF TypeOK
  <1>9. ASSUME NEW p \in Phone, OnBindSucess(p) PROVE TypeOK'
    <2>1. MinaTypeOK'
      BY <1>9, <1>a DEF OnBindSucess, MinaTypeOK, minaVars
    <2>2. ClientTypeOK'
      BY <1>9, <1>a DEF OnBindSucess, ClientTypeOK, clientVars
    <2>3. ServerTypeOK'
      BY <1>9, <1>a DEF OnBindSucess, BindReports, BindStage, ServerTypeOK,
         serverVars
    <2>4. ServiceTypeOK'
      BY <1>9, <1>a DEF OnBindSucess, ServiceTypeOK, serviceVars
    <2> QED BY <2>1, <2>2, <2>3, <2>4 DEF TypeOK
  <1>10. ASSUME NEW p \in Phone, OnBindFailed(p) PROVE TypeOK'
    <2>1. MinaTypeOK'
      BY <1>10, <1>a DEF OnBindFailed, MinaTypeOK, minaVars
    <2>2. ClientTypeOK'
      BY <1>10, <1>a DEF OnBindFailed, ClientTypeOK, clientVars
    <2>3. ServerTypeOK'
      BY <1>10, <1>a DEF OnBindFailed, BindReports, BindStage, ServerTypeOK,
         serverVars
    <2>4. ServiceTypeOK'
      BY <1>10, <1>a DEF OnBindFailed, ServiceTypeOK, serviceVars
    <2> QED BY <2>1, <2>2, <2>3, <2>4 DEF TypeOK
  <1>11. ASSUME NEW p \in Phone, RunConnect(p) PROVE TypeOK'
    <2>1. MinaTypeOK'
      BY <1>11, <1>a DEF RunConnect, RunConnectClosed, Connect, FutureStatus,
         ClientTypeOK, MinaTypeOK, minaVars
    <2>2. ClientTypeOK'
      BY <1>11, <1>a DEF RunConnect, RunConnectClosed, RunConnectIgnored,
         ClientTypeOK, clientVars
    <2>3. ServerTypeOK'
      BY <1>11, <1>a DEF RunConnect, ServerTypeOK, serverVars
    <2>4. ServiceTypeOK'
      BY <1>11, <1>a DEF RunConnect, ServiceTypeOK, serviceVars
    <2> QED BY <2>1, <2>2, <2>3, <2>4 DEF TypeOK
  <1>12. ASSUME NEW c \in Conn, AttachListeners(c) PROVE TypeOK'
    <2>1. MinaTypeOK'
      BY <1>12, <1>a DEF AttachListeners, MinaTypeOK, minaVars
    <2>2. ClientTypeOK'
      BY <1>12, <1>a DEF AttachListeners, FutureListeners, ListenerRuns,
         ClientTypeOK, clientVars
    <2>3. ServerTypeOK'
      BY <1>12, <1>a DEF AttachListeners, ServerTypeOK, serverVars
    <2>4. ServiceTypeOK'
      BY <1>12, <1>a DEF AttachListeners, FutureListeners, ServiceTypeOK,
         serviceVars
    <2> QED BY <2>1, <2>2, <2>3, <2>4 DEF TypeOK
  <1>13. ASSUME NEW c \in Conn, Established(c) PROVE TypeOK'
    <2>1. MinaTypeOK'
      BY <1>13, <1>a, EndFacts DEF Established, TcpEstablished, SessionStatus,
         MinaTypeOK, minaVars
    <2>2. ClientTypeOK'
      BY <1>13, <1>a DEF Established, ClientTypeOK, clientVars
    <2>3. ServerTypeOK'
      BY <1>13, <1>a DEF Established, ServerTypeOK, serverVars
    <2>4. ServiceTypeOK'
      BY <1>13, <1>a DEF Established, ServiceTypeOK, serviceVars
    <2> QED BY <2>1, <2>2, <2>3, <2>4 DEF TypeOK
  <1>14. ASSUME NEW c \in Conn, ConnectFails(c) PROVE TypeOK'
    <2>1. MinaTypeOK'
      BY <1>14, <1>a DEF ConnectFails, TcpConnectFails, FutureStatus,
         MinaTypeOK, minaVars
    <2>2. ClientTypeOK'
      BY <1>14, <1>a DEF ConnectFails, FutureListeners, ListenerRuns,
         ClientTypeOK, clientVars
    <2>3. ServerTypeOK'
      BY <1>14, <1>a DEF ConnectFails, ServerTypeOK, serverVars
    <2>4. ServiceTypeOK'
      BY <1>14, <1>a DEF ConnectFails, FutureListeners, ServiceTypeOK,
         serviceVars
    <2> QED BY <2>1, <2>2, <2>3, <2>4 DEF TypeOK
  <1>15. ASSUME NEW c \in Conn, NeverAccepted(c) PROVE TypeOK'
    <2>1. MinaTypeOK'
      BY <1>15, <1>a, EndFacts DEF NeverAccepted, SessionStatus, MinaTypeOK,
         minaVars
    <2>2. ClientTypeOK'
      BY <1>15, <1>a DEF NeverAccepted, ClientTypeOK, clientVars
    <2>3. ServerTypeOK'
      BY <1>15, <1>a DEF NeverAccepted, ServerTypeOK, serverVars
    <2>4. ServiceTypeOK'
      BY <1>15, <1>a DEF NeverAccepted, ServiceTypeOK, serviceVars
    <2> QED BY <2>1, <2>2, <2>3, <2>4 DEF TypeOK
  <1>16. ASSUME NEW c \in Conn, ClientSessionCreated(c) PROVE TypeOK'
    <2>1. MinaTypeOK'
      BY <1>16, <1>a DEF ClientSessionCreated, FutureStatus, MinaTypeOK,
         minaVars
    <2>2. ClientTypeOK'
      BY <1>16, <1>a DEF ClientSessionCreated, FutureListeners, ListenerRuns,
         ClientTypeOK, clientVars
    <2>3. ServerTypeOK'
      BY <1>16, <1>a DEF ClientSessionCreated, ServerTypeOK, serverVars
    <2>4. ServiceTypeOK'
      BY <1>16, <1>a DEF ClientSessionCreated, FutureListeners, ServiceTypeOK,
         serviceVars
    <2> QED BY <2>1, <2>2, <2>3, <2>4 DEF TypeOK
  <1>17. ASSUME NEW c \in Conn, ClientSessionOpened(c) PROVE TypeOK'
    <2>p. client[c] \in Phone
      BY <1>17, EndFacts DEF ClientSessionOpened, ProcFree
    <2>t. /\ sessionState' \in [Phone -> {"CLOSED", "CONNECTING", "CONNECTED"}]
          /\ session' \in [Phone -> Conn \cup {NoConn}]
          /\ future' \in [Conn -> FutureStatus]
          /\ closing' \in [End -> {"no", "flush", "now"}]
      BY <1>17, <1>a, <2>p, ClientCloseType DEF ClientSessionOpened, MinaTypeOK,
         ClientTypeOK
    <2>o. outbox' \subseteq End
      BY <1>17, <1>a, <2>p, EndFacts DEF ClientSessionOpened, ClientSendQueued,
         ConnectedHasSession, MinaTypeOK, ClientTypeOK
    <2>1. MinaTypeOK'
      BY <1>17, <1>a, <2>t, <2>o, EndFacts DEF ClientSessionOpened,
         SessionStatus, MinaTypeOK, minaVars
    <2>2. ClientTypeOK'
      BY <1>17, <1>a, <2>t DEF ClientSessionOpened, ClientTypeOK, clientVars
    <2>3. ServerTypeOK'
      BY <1>17, <1>a DEF ClientSessionOpened, ServerTypeOK, serverVars
    <2>4. ServiceTypeOK'
      BY <1>17, <1>a DEF ClientSessionOpened, ServiceTypeOK, serviceVars
    <2> QED BY <2>1, <2>2, <2>3, <2>4 DEF TypeOK
  <1>18. ASSUME NEW c \in Conn, ClientMessageReceived(c) PROVE TypeOK'
    <2>1. MinaTypeOK'
      BY <1>18, <1>a DEF ClientMessageReceived, ReadMessage, MinaTypeOK,
         minaVars
    <2>2. ClientTypeOK'
      BY <1>18, <1>a DEF ClientMessageReceived, ClientTypeOK, clientVars
    <2>3. ServerTypeOK'
      BY <1>18, <1>a DEF ClientMessageReceived, ServerTypeOK, serverVars
    <2>4. ServiceTypeOK'
      BY <1>18, <1>a DEF ClientMessageReceived, ServiceTypeOK, serviceVars
    <2> QED BY <2>1, <2>2, <2>3, <2>4 DEF TypeOK
  <1>19. ASSUME NEW c \in Conn, ClientExceptionCaught(c) PROVE TypeOK'
    <2>p. client[c] \in Phone
      BY <1>19, EndFacts DEF ClientExceptionCaught, ProcFree
    <2>e. ClientCloseSession(client[c])
      BY <1>19 DEF ClientExceptionCaught
    <2>1. MinaTypeOK'
      BY <1>19, <1>a, <2>e, <2>p, ClientCloseType, EndFacts DEF
         ClientExceptionCaught, SessionStatus, MinaTypeOK, minaVars
    <2>2. ClientTypeOK'
      BY <1>19, <1>a, <2>e, <2>p, ClientCloseType, EndFacts DEF
         ClientExceptionCaught, ClientTypeOK, clientVars
    <2>3. ServerTypeOK'
      BY <1>19, <1>a DEF ClientExceptionCaught, ServerTypeOK, serverVars
    <2>4. ServiceTypeOK'
      BY <1>19, <1>a, ResetType DEF ClientExceptionCaught, ServiceTypeOK,
         serviceVars
    <2> QED BY <2>1, <2>2, <2>3, <2>4 DEF TypeOK
  <1>20. ASSUME NEW c \in Conn, ClientSessionClosed(c) PROVE TypeOK'
    <2>1. MinaTypeOK'
      BY <1>20, <1>a, EndFacts DEF ClientSessionClosed, SessionStatus,
         MinaTypeOK, minaVars
    <2>2. ClientTypeOK'
      BY <1>20, <1>a DEF ClientSessionClosed, ClientTypeOK, clientVars
    <2>3. ServerTypeOK'
      BY <1>20, <1>a DEF ClientSessionClosed, ServerTypeOK, serverVars
    <2>4. ServiceTypeOK'
      BY <1>20, <1>a, ResetType DEF ClientSessionClosed, SessionOver,
         ServiceTypeOK, serviceVars
    <2> QED BY <2>1, <2>2, <2>3, <2>4 DEF TypeOK
  <1>21. ASSUME NEW c \in Conn, ServerSessionOpened(c) PROVE TypeOK'
    <2>1. MinaTypeOK'
      BY <1>21, <1>a, EndFacts DEF ServerSessionOpened, SessionStatus,
         MinaTypeOK, minaVars
    <2>2. ClientTypeOK'
      BY <1>21, <1>a DEF ServerSessionOpened, ClientTypeOK, clientVars
    <2>3. ServerTypeOK'
      BY <1>21, <1>a DEF ServerSessionOpened, ServerTypeOK, serverVars
    <2>4. ServiceTypeOK'
      BY <1>21, <1>a DEF ServerSessionOpened, ServiceTypeOK, serviceVars
    <2> QED BY <2>1, <2>2, <2>3, <2>4 DEF TypeOK
  <1>22. ASSUME NEW c \in Conn, ServerMessageReceived(c) PROVE TypeOK'
    <2>1. MinaTypeOK'
      BY <1>22, <1>a DEF ServerMessageReceived, ReadMessage, MinaTypeOK,
         minaVars
    <2>2. ClientTypeOK'
      BY <1>22, <1>a DEF ServerMessageReceived, ClientTypeOK, clientVars
    <2>3. ServerTypeOK'
      BY <1>22, <1>a DEF ServerMessageReceived, ServerTypeOK, serverVars
    <2>4. ServiceTypeOK'
      BY <1>22, <1>a DEF ServerMessageReceived, ServiceTypeOK, serviceVars
    <2> QED BY <2>1, <2>2, <2>3, <2>4 DEF TypeOK
  <1>23. ASSUME NEW c \in Conn, ServerExceptionHandled(c) PROVE TypeOK'
    <2>1. MinaTypeOK'
      BY <1>23, <1>a, EndFacts, ClosingType DEF ServerExceptionHandled,
         ServerExceptionCaught, SessionStatus, MinaTypeOK, minaVars
    <2>2. ClientTypeOK'
      BY <1>23, <1>a DEF ServerExceptionHandled, ClientTypeOK, clientVars
    <2>3. ServerTypeOK'
      BY <1>23, <1>a DEF ServerExceptionHandled, ServerTypeOK, serverVars
    <2>4. ServiceTypeOK'
      BY <1>23, <1>a DEF ServerExceptionHandled, ServiceTypeOK, serviceVars
    <2> QED BY <2>1, <2>2, <2>3, <2>4 DEF TypeOK
  <1>24. ASSUME NEW c \in Conn, ServerClosed(c) PROVE TypeOK'
    <2>1. MinaTypeOK'
      BY <1>24, <1>a, EndFacts, ClosingType DEF ServerClosed,
         ServerSessionClosed, SessionStatus, MinaTypeOK, minaVars
    <2>2. ClientTypeOK'
      BY <1>24, <1>a DEF ServerClosed, ClientTypeOK, clientVars
    <2>3. ServerTypeOK'
      BY <1>24, <1>a DEF ServerClosed, ServerSessionClosed, ServerTypeOK,
         serverVars
    <2>4. ServiceTypeOK'
      BY <1>24, <1>a, ResetType DEF ServerClosed, SessionOver, ServiceTypeOK,
         serviceVars
    <2> QED BY <2>1, <2>2, <2>3, <2>4 DEF TypeOK
  <1>25. ASSUME NEW c \in Conn, RequestSent(c) PROVE TypeOK'
    <2>1. MinaTypeOK'
      BY <1>25, <1>a, EndFacts DEF RequestSent, FlushWrite, Peer, C, S, End,
         MinaTypeOK, minaVars
    <2>2. ClientTypeOK'
      BY <1>25, <1>a DEF RequestSent, ClientTypeOK, clientVars
    <2>3. ServerTypeOK'
      BY <1>25, <1>a DEF RequestSent, ServerTypeOK, serverVars
    <2>4. ServiceTypeOK'
      BY <1>25, <1>a DEF RequestSent, ServiceTypeOK, serviceVars
    <2> QED BY <2>1, <2>2, <2>3, <2>4 DEF TypeOK
  <1>26. ASSUME NEW c \in Conn, ResponseSent(c) PROVE TypeOK'
    <2>1. MinaTypeOK'
      BY <1>26, <1>a, EndFacts DEF ResponseSent, FlushWrite, Peer, C, S, End,
         MinaTypeOK, minaVars
    <2>2. ClientTypeOK'
      BY <1>26, <1>a DEF ResponseSent, ClientTypeOK, clientVars
    <2>3. ServerTypeOK'
      BY <1>26, <1>a DEF ResponseSent, ServerTypeOK, serverVars
    <2>4. ServiceTypeOK'
      BY <1>26, <1>a DEF ResponseSent, ServiceTypeOK, serviceVars
    <2> QED BY <2>1, <2>2, <2>3, <2>4 DEF TypeOK
  <1>27. ASSUME NEW c \in Conn, RequestNotSent(c) PROVE TypeOK'
    <2>p. client[c] \in Phone
      BY <1>27, EndFacts DEF RequestNotSent, ProcFree
    <2>e. EndCall(client[c])
      BY <1>27 DEF RequestNotSent
    <2>1. MinaTypeOK'
      BY <1>27, <1>a, <2>e, <2>p, EndCallType, EndFacts DEF RequestNotSent,
         FailWrite, SessionStatus, MinaTypeOK, minaVars
    <2>2. ClientTypeOK'
      BY <1>27, <1>a, <2>e, <2>p, EndCallType, EndFacts DEF RequestNotSent,
         ClientTypeOK, clientVars
    <2>3. ServerTypeOK'
      BY <1>27, <1>a, <2>e, <2>p, EndCallType, EndFacts DEF RequestNotSent,
         ServerTypeOK, serverVars
    <2>4. ServiceTypeOK'
      BY <1>27, <1>a, <2>e, <2>p, EndCallType, EndFacts DEF RequestNotSent,
         ServiceTypeOK, serviceVars
    <2> QED BY <2>1, <2>2, <2>3, <2>4 DEF TypeOK
  <1>28. ASSUME NEW c \in Conn, ResponseNotSent(c) PROVE TypeOK'
    <2>p. server[c] \in Phone
      BY <1>28, EndFacts DEF ResponseNotSent, ProcFree
    <2>e. EndCall(server[c])
      BY <1>28 DEF ResponseNotSent
    <2>c. comm' \in [Phone -> BOOLEAN]
      <3>1. comm' = comm \/ comm' = [comm EXCEPT ![server[c]] = FALSE]
        BY <1>28 DEF ResponseNotSent
      <3>2. comm \in [Phone -> BOOLEAN]
        BY <1>a DEF ServiceTypeOK
      <3>3. [comm EXCEPT ![server[c]] = FALSE] \in [Phone -> BOOLEAN]
        BY <1>a, ResetType
      <3> QED BY <3>1, <3>2, <3>3, Zenon
    <2>1. MinaTypeOK'
      BY <1>28, <1>a, <2>e, <2>p, EndCallType, EndFacts DEF ResponseNotSent,
         FailWrite, SessionStatus, MinaTypeOK, minaVars
    <2>2. ClientTypeOK'
      BY <1>28, <1>a, <2>e, <2>p, EndCallType, EndFacts DEF ResponseNotSent,
         ClientTypeOK, clientVars
    <2>3. ServerTypeOK'
      BY <1>28, <1>a, <2>e, <2>p, EndCallType, EndFacts DEF ResponseNotSent,
         ServerTypeOK, serverVars
    <2>4. ServiceTypeOK'
      BY <1>28, <1>a, <2>e, <2>p, EndCallType, EndFacts, <2>c DEF
         ResponseNotSent, ServiceTypeOK, serviceVars
    <2> QED BY <2>1, <2>2, <2>3, <2>4 DEF TypeOK
  <1>29. ASSUME NEW e \in End, ProcResumes(e) PROVE TypeOK'
    <2>1. MinaTypeOK'
      BY <1>29, <1>a DEF ProcResumes, MinaTypeOK, minaVars
    <2>2. ClientTypeOK'
      BY <1>29, <1>a DEF ProcResumes, ClientTypeOK, clientVars
    <2>3. ServerTypeOK'
      BY <1>29, <1>a DEF ProcResumes, ServerTypeOK, serverVars
    <2>4. ServiceTypeOK'
      BY <1>29, <1>a, ResetType DEF ProcResumes, ServiceTypeOK, serviceVars
    <2> QED BY <2>1, <2>2, <2>3, <2>4 DEF TypeOK
  <1>30. ASSUME NEW e \in End, ReadOrWriteError(e) PROVE TypeOK'
    <2>1. MinaTypeOK'
      BY <1>30, <1>a DEF ReadOrWriteError, ChannelError, SessionStatus,
         MinaTypeOK, minaVars
    <2>2. ClientTypeOK'
      BY <1>30, <1>a DEF ReadOrWriteError, ClientTypeOK, clientVars
    <2>3. ServerTypeOK'
      BY <1>30, <1>a DEF ReadOrWriteError, ServerTypeOK, serverVars
    <2>4. ServiceTypeOK'
      BY <1>30, <1>a, BoundsAssumption DEF ReadOrWriteError, ServiceTypeOK,
         serviceVars
    <2> QED BY <2>1, <2>2, <2>3, <2>4 DEF TypeOK
  <1>31. ASSUME NEW e \in End, Drop(e) PROVE TypeOK'
    <2>1. MinaTypeOK'
      BY <1>31, <1>a DEF Drop, DropSession, SessionStatus, MinaTypeOK, minaVars
    <2>2. ClientTypeOK'
      BY <1>31, <1>a DEF Drop, ClientTypeOK, clientVars
    <2>3. ServerTypeOK'
      BY <1>31, <1>a DEF Drop, ServerTypeOK, serverVars
    <2>4. ServiceTypeOK'
      BY <1>31, <1>a DEF Drop, ServiceTypeOK, serviceVars
    <2> QED BY <2>1, <2>2, <2>3, <2>4 DEF TypeOK
  <1>32. CASE UNCHANGED vars
    BY <1>32 DEF vars, minaVars, clientVars, serverVars, serviceVars, TypeOK,
               MinaTypeOK, ClientTypeOK, ServerTypeOK, ServiceTypeOK
  <1> QED
    BY <1>1, <1>2, <1>3, <1>4, <1>5, <1>6, <1>7, <1>8, <1>9, <1>10, <1>11,
       <1>12, <1>13, <1>14, <1>15, <1>16, <1>17, <1>18, <1>19, <1>20, <1>21,
       <1>22, <1>23, <1>24, <1>25, <1>26, <1>27, <1>28, <1>29, <1>30, <1>31,
       <1>32, EndFacts DEF Next, Users, Main, BindPool, ConnectPool, Network,
       ClientProcessor, ServerProcessor

\* Ends are told apart by their connection and their side.
LEMMA EndDistinct ==
  /\ \A c, d \in Conn : /\ C(c) # S(d)
                        /\ C(c) = C(d) => c = d
                        /\ S(c) = S(d) => c = d
  /\ \A e \in End : \E c \in Conn : e = C(c) \/ e = S(c)
  BY DEF C, S, End

\* FreshConn survives a step that changes nothing it reads.
LEMMA FreshConnFrame ==
  ASSUME FreshConn, UNCHANGED <<client, future, sess>> PROVE FreshConn'
  BY DEF FreshConn

\* Every step keeps FreshConn.
LEMMA NextFreshConn ==
  TypeOK /\ FreshConn /\ [Next]_vars => FreshConn'
  <1> SUFFICES ASSUME TypeOK, FreshConn, [Next]_vars
               PROVE  FreshConn'
    OBVIOUS
  <1> USE DEF minaVars, clientVars, serverVars, serviceVars
  <1>1. ASSUME NEW p \in Phone, StartCall(p) PROVE FreshConn'
    BY <1>1, FreshConnFrame DEF StartCall
  <1>2. ASSUME NEW p \in Phone, HangUp(p) PROVE FreshConn'
    BY <1>2 DEF HangUp, EndCall, ClientCloseSession, FreshConn, TypeOK,
       MinaTypeOK
  <1>3. ASSUME NEW p \in Phone, Answer(p) PROVE FreshConn'
    BY <1>3, FreshConnFrame DEF Answer
  <1>4. ASSUME NEW p \in Phone, AnswerRefused(p) PROVE FreshConn'
    BY <1>4 DEF AnswerRefused, EndCall, ClientCloseSession, FreshConn, TypeOK,
       MinaTypeOK
  <1>5. ASSUME NEW p \in Phone, MainResumes(p) PROVE FreshConn'
    BY <1>5, FreshConnFrame DEF MainResumes
  <1>6. ASSUME NEW p \in Phone, NEW q \in Phone, OnFindOther(p, q)
        PROVE  FreshConn'
    BY <1>6, FreshConnFrame DEF OnFindOther
  <1>7. ASSUME NEW p \in Phone, NEW q \in Phone, OnStartTcp(p, q)
        PROVE  FreshConn'
    BY <1>7, FreshConnFrame DEF OnStartTcp
  <1>8. ASSUME NEW p \in Phone, RunBind(p) PROVE FreshConn'
    BY <1>8, FreshConnFrame DEF RunBind
  <1>9. ASSUME NEW p \in Phone, OnBindSucess(p) PROVE FreshConn'
    BY <1>9, FreshConnFrame DEF OnBindSucess
  <1>10. ASSUME NEW p \in Phone, OnBindFailed(p) PROVE FreshConn'
    BY <1>10, FreshConnFrame DEF OnBindFailed
  <1>11. ASSUME NEW p \in Phone, RunConnect(p) PROVE FreshConn'
    BY <1>11 DEF RunConnect, RunConnectClosed, Connect, FreshConn, TypeOK,
       MinaTypeOK
  <1>12. ASSUME NEW c \in Conn, AttachListeners(c) PROVE FreshConn'
    BY <1>12, FreshConnFrame DEF AttachListeners
  <1>13. ASSUME NEW c \in Conn, Established(c) PROVE FreshConn'
    BY <1>13, EndFacts, EndDistinct DEF Established, TcpEstablished, FreshConn,
       TypeOK, MinaTypeOK
  <1>14. ASSUME NEW c \in Conn, ConnectFails(c) PROVE FreshConn'
    BY <1>14 DEF ConnectFails, TcpConnectFails, FreshConn
  <1>15. ASSUME NEW c \in Conn, NeverAccepted(c) PROVE FreshConn'
    BY <1>15 DEF NeverAccepted, FreshConn
  <1>16. ASSUME NEW c \in Conn, ClientSessionCreated(c) PROVE FreshConn'
    BY <1>16 DEF ClientSessionCreated, FreshConn
  <1>17. ASSUME NEW c \in Conn, ClientSessionOpened(c) PROVE FreshConn'
    BY <1>17 DEF ClientSessionOpened, ClientCloseSession, FreshConn, TypeOK,
       MinaTypeOK
  <1>18. ASSUME NEW c \in Conn, ClientMessageReceived(c) PROVE FreshConn'
    BY <1>18, FreshConnFrame DEF ClientMessageReceived
  <1>19. ASSUME NEW c \in Conn, ClientExceptionCaught(c) PROVE FreshConn'
    BY <1>19 DEF ClientExceptionCaught, ClientCloseSession, FreshConn, TypeOK,
       MinaTypeOK
  <1>20. ASSUME NEW c \in Conn, ClientSessionClosed(c) PROVE FreshConn'
    BY <1>20 DEF ClientSessionClosed, FreshConn
  <1>21. ASSUME NEW c \in Conn, ServerSessionOpened(c) PROVE FreshConn'
    BY <1>21 DEF ServerSessionOpened, FreshConn
  <1>22. ASSUME NEW c \in Conn, ServerMessageReceived(c) PROVE FreshConn'
    BY <1>22, FreshConnFrame DEF ServerMessageReceived
  <1>23. ASSUME NEW c \in Conn, ServerExceptionHandled(c) PROVE FreshConn'
    BY <1>23 DEF ServerExceptionHandled, FreshConn
  <1>24. ASSUME NEW c \in Conn, ServerClosed(c) PROVE FreshConn'
    BY <1>24 DEF ServerClosed, FreshConn
  <1>25. ASSUME NEW c \in Conn, RequestSent(c) PROVE FreshConn'
    BY <1>25, FreshConnFrame DEF RequestSent
  <1>26. ASSUME NEW c \in Conn, ResponseSent(c) PROVE FreshConn'
    BY <1>26, FreshConnFrame DEF ResponseSent
  <1>27. ASSUME NEW c \in Conn, RequestNotSent(c) PROVE FreshConn'
    BY <1>27 DEF RequestNotSent, FailWrite, RemovalDue, EndCall,
       ClientCloseSession, FreshConn, TypeOK, MinaTypeOK
  <1>28. ASSUME NEW c \in Conn, ResponseNotSent(c) PROVE FreshConn'
    BY <1>28 DEF ResponseNotSent, FailWrite, RemovalDue, EndCall,
       ClientCloseSession, FreshConn, TypeOK, MinaTypeOK
  <1>29. ASSUME NEW e \in End, ProcResumes(e) PROVE FreshConn'
    BY <1>29, FreshConnFrame DEF ProcResumes
  <1>30. ASSUME NEW e \in End, ReadOrWriteError(e) PROVE FreshConn'
    BY <1>30 DEF ReadOrWriteError, ChannelError, FreshConn
  <1>31. ASSUME NEW e \in End, Drop(e) PROVE FreshConn'
    BY <1>31 DEF Drop, DropSession, RemovalDue, FreshConn
  <1>32. CASE UNCHANGED vars
    BY <1>32, FreshConnFrame DEF vars
  <1> QED
    BY <1>1, <1>2, <1>3, <1>4, <1>5, <1>6, <1>7, <1>8, <1>9, <1>10, <1>11,
       <1>12, <1>13, <1>14, <1>15, <1>16, <1>17, <1>18, <1>19, <1>20, <1>21,
       <1>22, <1>23, <1>24, <1>25, <1>26, <1>27, <1>28, <1>29, <1>30, <1>31,
       <1>32, EndFacts DEF Next, Users, Main, BindPool, ConnectPool, Network,
       ClientProcessor, ServerProcessor

\* WaitingProc survives a step that changes nothing it reads.
LEMMA WaitingProcFrame ==
  ASSUME WaitingProc, UNCHANGED <<sess, procWaits>> PROVE WaitingProc'
  BY DEF WaitingProc

\* Every step keeps WaitingProc: a waiting thread takes no step of its own.
LEMMA NextWaitingProc ==
  TypeOK /\ FreshConn /\ WaitingProc /\ [Next]_vars => WaitingProc'
  <1> SUFFICES ASSUME TypeOK, FreshConn, WaitingProc, [Next]_vars
               PROVE  WaitingProc'
    OBVIOUS
  <1> USE DEF minaVars, clientVars, serverVars, serviceVars
  <1>1. ASSUME NEW p \in Phone, StartCall(p) PROVE WaitingProc'
    BY <1>1, WaitingProcFrame DEF StartCall
  <1>2. ASSUME NEW p \in Phone, HangUp(p) PROVE WaitingProc'
    BY <1>2, WaitingProcFrame DEF HangUp
  <1>3. ASSUME NEW p \in Phone, Answer(p) PROVE WaitingProc'
    BY <1>3, WaitingProcFrame DEF Answer
  <1>4. ASSUME NEW p \in Phone, AnswerRefused(p) PROVE WaitingProc'
    BY <1>4, WaitingProcFrame DEF AnswerRefused
  <1>5. ASSUME NEW p \in Phone, MainResumes(p) PROVE WaitingProc'
    BY <1>5, WaitingProcFrame DEF MainResumes
  <1>6. ASSUME NEW p \in Phone, NEW q \in Phone, OnFindOther(p, q)
        PROVE  WaitingProc'
    BY <1>6, WaitingProcFrame DEF OnFindOther
  <1>7. ASSUME NEW p \in Phone, NEW q \in Phone, OnStartTcp(p, q)
        PROVE  WaitingProc'
    BY <1>7, WaitingProcFrame DEF OnStartTcp
  <1>8. ASSUME NEW p \in Phone, RunBind(p) PROVE WaitingProc'
    BY <1>8, WaitingProcFrame DEF RunBind
  <1>9. ASSUME NEW p \in Phone, OnBindSucess(p) PROVE WaitingProc'
    BY <1>9, WaitingProcFrame DEF OnBindSucess
  <1>10. ASSUME NEW p \in Phone, OnBindFailed(p) PROVE WaitingProc'
    BY <1>10, WaitingProcFrame DEF OnBindFailed
  <1>11. ASSUME NEW p \in Phone, RunConnect(p) PROVE WaitingProc'
    BY <1>11, WaitingProcFrame DEF RunConnect
  <1>12. ASSUME NEW c \in Conn, AttachListeners(c) PROVE WaitingProc'
    BY <1>12, WaitingProcFrame DEF AttachListeners
  <1>13. ASSUME NEW c \in Conn, Established(c) PROVE WaitingProc'
    BY <1>13 DEF Established, TcpEstablished, WaitingProc, FreshConn, TypeOK,
       MinaTypeOK, ServiceTypeOK
  <1>14. ASSUME NEW c \in Conn, ConnectFails(c) PROVE WaitingProc'
    BY <1>14, WaitingProcFrame DEF ConnectFails
  <1>15. ASSUME NEW c \in Conn, NeverAccepted(c) PROVE WaitingProc'
    BY <1>15 DEF NeverAccepted, WaitingProc
  <1>16. ASSUME NEW c \in Conn, ClientSessionCreated(c) PROVE WaitingProc'
    BY <1>16, WaitingProcFrame DEF ClientSessionCreated
  <1>17. ASSUME NEW c \in Conn, ClientSessionOpened(c) PROVE WaitingProc'
    BY <1>17 DEF ClientSessionOpened, WaitingProc
  <1>18. ASSUME NEW c \in Conn, ClientMessageReceived(c) PROVE WaitingProc'
    BY <1>18, WaitingProcFrame DEF ClientMessageReceived
  <1>19. ASSUME NEW c \in Conn, ClientExceptionCaught(c) PROVE WaitingProc'
    BY <1>19 DEF ClientExceptionCaught, WaitingProc, ProcFree
  <1>20. ASSUME NEW c \in Conn, ClientSessionClosed(c) PROVE WaitingProc'
    BY <1>20 DEF ClientSessionClosed, WaitingProc
  <1>21. ASSUME NEW c \in Conn, ServerSessionOpened(c) PROVE WaitingProc'
    BY <1>21 DEF ServerSessionOpened, WaitingProc
  <1>22. ASSUME NEW c \in Conn, ServerMessageReceived(c) PROVE WaitingProc'
    BY <1>22, WaitingProcFrame DEF ServerMessageReceived
  <1>23. ASSUME NEW c \in Conn, ServerExceptionHandled(c) PROVE WaitingProc'
    BY <1>23 DEF ServerExceptionHandled, WaitingProc, ProcFree
  <1>24. ASSUME NEW c \in Conn, ServerClosed(c) PROVE WaitingProc'
    BY <1>24 DEF ServerClosed, WaitingProc
  <1>25. ASSUME NEW c \in Conn, RequestSent(c) PROVE WaitingProc'
    BY <1>25, WaitingProcFrame DEF RequestSent
  <1>26. ASSUME NEW c \in Conn, ResponseSent(c) PROVE WaitingProc'
    BY <1>26, WaitingProcFrame DEF ResponseSent
  <1>27. ASSUME NEW c \in Conn, RequestNotSent(c) PROVE WaitingProc'
    BY <1>27 DEF RequestNotSent, FailWrite, WaitingProc, TypeOK, MinaTypeOK
  <1>28. ASSUME NEW c \in Conn, ResponseNotSent(c) PROVE WaitingProc'
    BY <1>28 DEF ResponseNotSent, FailWrite, WaitingProc, TypeOK, MinaTypeOK
  <1>29. ASSUME NEW e \in End, ProcResumes(e) PROVE WaitingProc'
    BY <1>29 DEF ProcResumes, WaitingProc
  <1>30. ASSUME NEW e \in End, ReadOrWriteError(e) PROVE WaitingProc'
    BY <1>30 DEF ReadOrWriteError, ChannelError, WaitingProc
  <1>31. ASSUME NEW e \in End, Drop(e) PROVE WaitingProc'
    BY <1>31 DEF Drop, DropSession, RemovalDue, WaitingProc
  <1>32. CASE UNCHANGED vars
    BY <1>32, WaitingProcFrame DEF vars
  <1> QED
    BY <1>1, <1>2, <1>3, <1>4, <1>5, <1>6, <1>7, <1>8, <1>9, <1>10, <1>11,
       <1>12, <1>13, <1>14, <1>15, <1>16, <1>17, <1>18, <1>19, <1>20, <1>21,
       <1>22, <1>23, <1>24, <1>25, <1>26, <1>27, <1>28, <1>29, <1>30, <1>31,
       <1>32, EndFacts DEF Next, Users, Main, BindPool, ConnectPool, Network,
       ClientProcessor, ServerProcessor

\* ResponseWasGiven survives a step that changes nothing it reads.
LEMMA ResponseWasGivenFrame ==
  ASSUME ResponseWasGiven, UNCHANGED <<outbox, wire, answered>> PROVE ResponseWasGiven'
  BY DEF ResponseWasGiven

\* Every step keeps ResponseWasGiven.
LEMMA NextResponseWasGiven ==
  TypeOK /\ ConnectedHasSession /\ ResponseWasGiven /\ [Next]_vars => ResponseWasGiven'
  <1> SUFFICES ASSUME TypeOK, ConnectedHasSession, ResponseWasGiven, [Next]_vars
               PROVE  ResponseWasGiven'
    OBVIOUS
  <1> USE DEF minaVars, clientVars, serverVars, serviceVars
  <1>1. ASSUME NEW p \in Phone, StartCall(p) PROVE ResponseWasGiven'
    BY <1>1, ResponseWasGivenFrame DEF StartCall
  <1>2. ASSUME NEW p \in Phone, HangUp(p) PROVE ResponseWasGiven'
    BY <1>2, ResponseWasGivenFrame DEF HangUp
  <1>3. ASSUME NEW p \in Phone, Answer(p) PROVE ResponseWasGiven'
    BY <1>3, EndDistinct DEF Answer, ServerSendQueued, HasSession,
       ResponseWasGiven, TypeOK, ServerTypeOK
  <1>4. ASSUME NEW p \in Phone, AnswerRefused(p) PROVE ResponseWasGiven'
    BY <1>4, ResponseWasGivenFrame DEF AnswerRefused
  <1>5. ASSUME NEW p \in Phone, MainResumes(p) PROVE ResponseWasGiven'
    BY <1>5, ResponseWasGivenFrame DEF MainResumes
  <1>6. ASSUME NEW p \in Phone, NEW q \in Phone, OnFindOther(p, q)
        PROVE  ResponseWasGiven'
    BY <1>6, ResponseWasGivenFrame DEF OnFindOther
  <1>7. ASSUME NEW p \in Phone, NEW q \in Phone, OnStartTcp(p, q)
        PROVE  ResponseWasGiven'
    BY <1>7, ResponseWasGivenFrame DEF OnStartTcp
  <1>8. ASSUME NEW p \in Phone, RunBind(p) PROVE ResponseWasGiven'
    BY <1>8, ResponseWasGivenFrame DEF RunBind
  <1>9. ASSUME NEW p \in Phone, OnBindSucess(p) PROVE ResponseWasGiven'
    BY <1>9, ResponseWasGivenFrame DEF OnBindSucess
  <1>10. ASSUME NEW p \in Phone, OnBindFailed(p) PROVE ResponseWasGiven'
    BY <1>10, ResponseWasGivenFrame DEF OnBindFailed
  <1>11. ASSUME NEW p \in Phone, RunConnect(p) PROVE ResponseWasGiven'
    BY <1>11, ResponseWasGivenFrame DEF RunConnect
  <1>12. ASSUME NEW c \in Conn, AttachListeners(c) PROVE ResponseWasGiven'
    BY <1>12, ResponseWasGivenFrame DEF AttachListeners
  <1>13. ASSUME NEW c \in Conn, Established(c) PROVE ResponseWasGiven'
    BY <1>13, ResponseWasGivenFrame DEF Established
  <1>14. ASSUME NEW c \in Conn, ConnectFails(c) PROVE ResponseWasGiven'
    BY <1>14, ResponseWasGivenFrame DEF ConnectFails
  <1>15. ASSUME NEW c \in Conn, NeverAccepted(c) PROVE ResponseWasGiven'
    BY <1>15, ResponseWasGivenFrame DEF NeverAccepted
  <1>16. ASSUME NEW c \in Conn, ClientSessionCreated(c) PROVE ResponseWasGiven'
    BY <1>16, ResponseWasGivenFrame DEF ClientSessionCreated
  <1>17. ASSUME NEW c \in Conn, ClientSessionOpened(c) PROVE ResponseWasGiven'
    BY <1>17, EndFacts, EndDistinct DEF ClientSessionOpened, ClientSendQueued,
       ResponseWasGiven, ConnectedHasSession, ProcFree, TypeOK, ClientTypeOK
  <1>18. ASSUME NEW c \in Conn, ClientMessageReceived(c) PROVE ResponseWasGiven'
    BY <1>18 DEF ClientMessageReceived, ReadMessage, ResponseWasGiven
  <1>19. ASSUME NEW c \in Conn, ClientExceptionCaught(c) PROVE ResponseWasGiven'
    BY <1>19, ResponseWasGivenFrame DEF ClientExceptionCaught
  <1>20. ASSUME NEW c \in Conn, ClientSessionClosed(c) PROVE ResponseWasGiven'
    BY <1>20, ResponseWasGivenFrame DEF ClientSessionClosed
  <1>21. ASSUME NEW c \in Conn, ServerSessionOpened(c) PROVE ResponseWasGiven'
    BY <1>21, ResponseWasGivenFrame DEF ServerSessionOpened
  <1>22. ASSUME NEW c \in Conn, ServerMessageReceived(c) PROVE ResponseWasGiven'
    BY <1>22 DEF ServerMessageReceived, ReadMessage, ResponseWasGiven
  <1>23. ASSUME NEW c \in Conn, ServerExceptionHandled(c)
         PROVE  ResponseWasGiven'
    BY <1>23, ResponseWasGivenFrame DEF ServerExceptionHandled
  <1>24. ASSUME NEW c \in Conn, ServerClosed(c) PROVE ResponseWasGiven'
    BY <1>24, ResponseWasGivenFrame DEF ServerClosed
  <1>25. ASSUME NEW c \in Conn, RequestSent(c) PROVE ResponseWasGiven'
    BY <1>25, EndFacts DEF RequestSent, FlushWrite, ResponseWasGiven
  <1>26. ASSUME NEW c \in Conn, ResponseSent(c) PROVE ResponseWasGiven'
    BY <1>26, EndFacts DEF ResponseSent, FlushWrite, ResponseWasGiven
  <1>27. ASSUME NEW c \in Conn, RequestNotSent(c) PROVE ResponseWasGiven'
    BY <1>27 DEF RequestNotSent, FailWrite, ResponseWasGiven
  <1>28. ASSUME NEW c \in Conn, ResponseNotSent(c) PROVE ResponseWasGiven'
    BY <1>28 DEF ResponseNotSent, FailWrite, ResponseWasGiven
  <1>29. ASSUME NEW e \in End, ProcResumes(e) PROVE ResponseWasGiven'
    BY <1>29, ResponseWasGivenFrame DEF ProcResumes
  <1>30. ASSUME NEW e \in End, ReadOrWriteError(e) PROVE ResponseWasGiven'
    BY <1>30, ResponseWasGivenFrame DEF ReadOrWriteError
  <1>31. ASSUME NEW e \in End, Drop(e) PROVE ResponseWasGiven'
    BY <1>31 DEF Drop, DropSession, ResponseWasGiven
  <1>32. CASE UNCHANGED vars
    BY <1>32, ResponseWasGivenFrame DEF vars
  <1> QED
    BY <1>1, <1>2, <1>3, <1>4, <1>5, <1>6, <1>7, <1>8, <1>9, <1>10, <1>11,
       <1>12, <1>13, <1>14, <1>15, <1>16, <1>17, <1>18, <1>19, <1>20, <1>21,
       <1>22, <1>23, <1>24, <1>25, <1>26, <1>27, <1>28, <1>29, <1>30, <1>31,
       <1>32, EndFacts DEF Next, Users, Main, BindPool, ConnectPool, Network,
       ClientProcessor, ServerProcessor

\* ConnectedHasSession survives a step that changes nothing it reads.
LEMMA ConnectedHasSessionFrame ==
  ASSUME ConnectedHasSession, UNCHANGED <<sessionState, session, client, future>> PROVE ConnectedHasSession'
  BY DEF ConnectedHasSession

\* Every step keeps ConnectedHasSession.
LEMMA NextConnectedHasSession ==
  TypeOK /\ ConnectedHasSession /\ [Next]_vars => ConnectedHasSession'
  <1> SUFFICES ASSUME TypeOK, ConnectedHasSession, [Next]_vars
               PROVE  ConnectedHasSession'
    OBVIOUS
  <1> USE DEF minaVars, clientVars, serverVars, serviceVars
  <1>1. ASSUME NEW p \in Phone, StartCall(p) PROVE ConnectedHasSession'
    BY <1>1, ConnectedHasSessionFrame DEF StartCall
  <1>2. ASSUME NEW p \in Phone, HangUp(p) PROVE ConnectedHasSession'
    BY <1>2 DEF HangUp, EndCall, ClientCloseSession, Cancels,
       ConnectedHasSession, TypeOK, MinaTypeOK, ClientTypeOK
  <1>3. ASSUME NEW p \in Phone, Answer(p) PROVE ConnectedHasSession'
    BY <1>3, ConnectedHasSessionFrame DEF Answer
  <1>4. ASSUME NEW p \in Phone, AnswerRefused(p) PROVE ConnectedHasSession'
    BY <1>4 DEF AnswerRefused, EndCall, ClientCloseSession, Cancels,
       ConnectedHasSession, TypeOK, MinaTypeOK, ClientTypeOK
  <1>5. ASSUME NEW p \in Phone, MainResumes(p) PROVE ConnectedHasSession'
    BY <1>5, ConnectedHasSessionFrame DEF MainResumes
  <1>6. ASSUME NEW p \in Phone, NEW q \in Phone, OnFindOther(p, q)
        PROVE  ConnectedHasSession'
    BY <1>6, ConnectedHasSessionFrame DEF OnFindOther
  <1>7. ASSUME NEW p \in Phone, NEW q \in Phone, OnStartTcp(p, q)
        PROVE  ConnectedHasSession'
    BY <1>7, ConnectedHasSessionFrame DEF OnStartTcp
  <1>8. ASSUME NEW p \in Phone, RunBind(p) PROVE ConnectedHasSession'
    BY <1>8, ConnectedHasSessionFrame DEF RunBind
  <1>9. ASSUME NEW p \in Phone, OnBindSucess(p) PROVE ConnectedHasSession'
    BY <1>9, ConnectedHasSessionFrame DEF OnBindSucess
  <1>10. ASSUME NEW p \in Phone, OnBindFailed(p) PROVE ConnectedHasSession'
    BY <1>10, ConnectedHasSessionFrame DEF OnBindFailed
  <1>11. ASSUME NEW p \in Phone, RunConnect(p) PROVE ConnectedHasSession'
    BY <1>11 DEF RunConnect, RunConnectClosed, Connect, ConnectedHasSession,
       TypeOK, MinaTypeOK, ClientTypeOK
  <1>12. ASSUME NEW c \in Conn, AttachListeners(c) PROVE ConnectedHasSession'
    <2>1. client' = client /\ future' = future /\ client[c] \in Phone
      BY <1>12 DEF AttachListeners
    <2>2. CASE future[c] = "connected" /\ ListenerRuns(c, future[c])
      BY <2>1, <2>2, NullAssumption DEF ListenerRuns, ConnectedHasSession,
         TypeOK, MinaTypeOK, ClientTypeOK
    <2>3. CASE future[c] # "connected" /\ ListenerRuns(c, future[c])
      BY <2>1, <2>3 DEF ListenerRuns, ConnectedHasSession, TypeOK, MinaTypeOK,
         ClientTypeOK
    <2>4. CASE UNCHANGED <<sessionState, session>>
      BY <2>1, <2>4 DEF ConnectedHasSession
    <2> QED BY <1>12, <2>2, <2>3, <2>4 DEF AttachListeners, FutureListeners
  <1>13. ASSUME NEW c \in Conn, Established(c) PROVE ConnectedHasSession'
    BY <1>13, ConnectedHasSessionFrame DEF Established
  <1>14. ASSUME NEW c \in Conn, ConnectFails(c) PROVE ConnectedHasSession'
    BY <1>14 DEF ConnectFails, TcpConnectFails, FutureListeners, ListenerRuns,
       ConnectedHasSession, TypeOK, ClientTypeOK
  <1>15. ASSUME NEW c \in Conn, NeverAccepted(c) PROVE ConnectedHasSession'
    BY <1>15, ConnectedHasSessionFrame DEF NeverAccepted
  <1>16. ASSUME NEW c \in Conn, ClientSessionCreated(c)
         PROVE  ConnectedHasSession'
    BY <1>16, NullAssumption DEF ClientSessionCreated, FutureListeners,
       ListenerRuns, ConnectedHasSession, TypeOK, MinaTypeOK, ClientTypeOK
  <1>17. ASSUME NEW c \in Conn, ClientSessionOpened(c)
         PROVE  ConnectedHasSession'
    BY <1>17 DEF ClientSessionOpened, ClientCloseSession, Cancels,
       ConnectedHasSession, TypeOK, MinaTypeOK, ClientTypeOK
  <1>18. ASSUME NEW c \in Conn, ClientMessageReceived(c)
         PROVE  ConnectedHasSession'
    BY <1>18, ConnectedHasSessionFrame DEF ClientMessageReceived
  <1>19. ASSUME NEW c \in Conn, ClientExceptionCaught(c)
         PROVE  ConnectedHasSession'
    BY <1>19 DEF ClientExceptionCaught, ClientCloseSession, Cancels,
       ConnectedHasSession, TypeOK, MinaTypeOK, ClientTypeOK
  <1>20. ASSUME NEW c \in Conn, ClientSessionClosed(c)
         PROVE  ConnectedHasSession'
    BY <1>20 DEF ClientSessionClosed, ConnectedHasSession
  <1>21. ASSUME NEW c \in Conn, ServerSessionOpened(c)
         PROVE  ConnectedHasSession'
    BY <1>21, ConnectedHasSessionFrame DEF ServerSessionOpened
  <1>22. ASSUME NEW c \in Conn, ServerMessageReceived(c)
         PROVE  ConnectedHasSession'
    BY <1>22, ConnectedHasSessionFrame DEF ServerMessageReceived
  <1>23. ASSUME NEW c \in Conn, ServerExceptionHandled(c)
         PROVE  ConnectedHasSession'
    BY <1>23, ConnectedHasSessionFrame DEF ServerExceptionHandled
  <1>24. ASSUME NEW c \in Conn, ServerClosed(c) PROVE ConnectedHasSession'
    BY <1>24, ConnectedHasSessionFrame DEF ServerClosed
  <1>25. ASSUME NEW c \in Conn, RequestSent(c) PROVE ConnectedHasSession'
    BY <1>25, ConnectedHasSessionFrame DEF RequestSent
  <1>26. ASSUME NEW c \in Conn, ResponseSent(c) PROVE ConnectedHasSession'
    BY <1>26, ConnectedHasSessionFrame DEF ResponseSent
  <1>27. ASSUME NEW c \in Conn, RequestNotSent(c) PROVE ConnectedHasSession'
    BY <1>27 DEF RequestNotSent, EndCall, ClientCloseSession, Cancels,
       ConnectedHasSession, TypeOK, MinaTypeOK, ClientTypeOK
  <1>28. ASSUME NEW c \in Conn, ResponseNotSent(c) PROVE ConnectedHasSession'
    BY <1>28 DEF ResponseNotSent, EndCall, ClientCloseSession, Cancels,
       ConnectedHasSession, TypeOK, MinaTypeOK, ClientTypeOK
  <1>29. ASSUME NEW e \in End, ProcResumes(e) PROVE ConnectedHasSession'
    BY <1>29, ConnectedHasSessionFrame DEF ProcResumes
  <1>30. ASSUME NEW e \in End, ReadOrWriteError(e) PROVE ConnectedHasSession'
    BY <1>30, ConnectedHasSessionFrame DEF ReadOrWriteError
  <1>31. ASSUME NEW e \in End, Drop(e) PROVE ConnectedHasSession'
    BY <1>31, ConnectedHasSessionFrame DEF Drop
  <1>32. CASE UNCHANGED vars
    BY <1>32, ConnectedHasSessionFrame DEF vars
  <1> QED
    BY <1>1, <1>2, <1>3, <1>4, <1>5, <1>6, <1>7, <1>8, <1>9, <1>10, <1>11,
       <1>12, <1>13, <1>14, <1>15, <1>16, <1>17, <1>18, <1>19, <1>20, <1>21,
       <1>22, <1>23, <1>24, <1>25, <1>26, <1>27, <1>28, <1>29, <1>30, <1>31,
       <1>32, EndFacts DEF Next, Users, Main, BindPool, ConnectPool, Network,
       ClientProcessor, ServerProcessor

\* TcpSessionIsLive survives a step that changes nothing it reads.
LEMMA TcpSessionIsLiveFrame ==
  ASSUME TcpSessionIsLive, UNCHANGED <<tcpSession, server, sess, crashed>> PROVE TcpSessionIsLive'
  BY DEF TcpSessionIsLive, LiveServer

\* Every step keeps TcpSessionIsLive: a session leaves tcpSession before, or as,
\* its sessionClosed runs.
LEMMA NextTcpSessionIsLive ==
  TypeOK /\ FreshConn /\ TcpSessionIsLive /\ [Next]_vars => TcpSessionIsLive'
  <1> SUFFICES ASSUME TypeOK, FreshConn, TcpSessionIsLive, [Next]_vars
               PROVE  TcpSessionIsLive'
    OBVIOUS
  <1> USE DEF minaVars, clientVars, serverVars, serviceVars
  <1>1. ASSUME NEW p \in Phone, StartCall(p) PROVE TcpSessionIsLive'
    BY <1>1, TcpSessionIsLiveFrame DEF StartCall
  <1>2. ASSUME NEW p \in Phone, HangUp(p) PROVE TcpSessionIsLive'
    BY <1>2 DEF HangUp, EndCall, ServerCloseAndUnbind, TcpSessionIsLive,
       LiveServer, TypeOK, ServerTypeOK
  <1>3. ASSUME NEW p \in Phone, Answer(p) PROVE TcpSessionIsLive'
    BY <1>3, TcpSessionIsLiveFrame DEF Answer
  <1>4. ASSUME NEW p \in Phone, AnswerRefused(p) PROVE TcpSessionIsLive'
    BY <1>4 DEF AnswerRefused, EndCall, ServerCloseAndUnbind, TcpSessionIsLive,
       LiveServer, TypeOK, ServerTypeOK
  <1>5. ASSUME NEW p \in Phone, MainResumes(p) PROVE TcpSessionIsLive'
    BY <1>5, TcpSessionIsLiveFrame DEF MainResumes
  <1>6. ASSUME NEW p \in Phone, NEW q \in Phone, OnFindOther(p, q)
        PROVE  TcpSessionIsLive'
    BY <1>6, TcpSessionIsLiveFrame DEF OnFindOther
  <1>7. ASSUME NEW p \in Phone, NEW q \in Phone, OnStartTcp(p, q)
        PROVE  TcpSessionIsLive'
    BY <1>7 DEF OnStartTcp, TcpSessionIsLive, LiveServer
  <1>8. ASSUME NEW p \in Phone, RunBind(p) PROVE TcpSessionIsLive'
    BY <1>8, TcpSessionIsLiveFrame DEF RunBind
  <1>9. ASSUME NEW p \in Phone, OnBindSucess(p) PROVE TcpSessionIsLive'
    BY <1>9, TcpSessionIsLiveFrame DEF OnBindSucess
  <1>10. ASSUME NEW p \in Phone, OnBindFailed(p) PROVE TcpSessionIsLive'
    BY <1>10, TcpSessionIsLiveFrame DEF OnBindFailed
  <1>11. ASSUME NEW p \in Phone, RunConnect(p) PROVE TcpSessionIsLive'
    BY <1>11 DEF RunConnect, RunConnectClosed, Connect, TcpSessionIsLive,
       LiveServer, Managed, FreshConn, TypeOK, MinaTypeOK, ServerTypeOK
  <1>12. ASSUME NEW c \in Conn, AttachListeners(c) PROVE TcpSessionIsLive'
    BY <1>12, TcpSessionIsLiveFrame DEF AttachListeners
  <1>13. ASSUME NEW c \in Conn, Established(c) PROVE TcpSessionIsLive'
    BY <1>13, EndFacts DEF Established, TcpEstablished, TcpSessionIsLive,
       LiveServer, Managed, FreshConn, TypeOK, MinaTypeOK, ServerTypeOK
  <1>14. ASSUME NEW c \in Conn, ConnectFails(c) PROVE TcpSessionIsLive'
    BY <1>14, TcpSessionIsLiveFrame DEF ConnectFails
  <1>15. ASSUME NEW c \in Conn, NeverAccepted(c) PROVE TcpSessionIsLive'
    BY <1>15 DEF NeverAccepted, TcpSessionIsLive, LiveServer, Managed
  <1>16. ASSUME NEW c \in Conn, ClientSessionCreated(c) PROVE TcpSessionIsLive'
    BY <1>16, TcpSessionIsLiveFrame DEF ClientSessionCreated
  <1>17. ASSUME NEW c \in Conn, ClientSessionOpened(c) PROVE TcpSessionIsLive'
    BY <1>17 DEF ClientSessionOpened, TcpSessionIsLive, LiveServer, Managed
  <1>18. ASSUME NEW c \in Conn, ClientMessageReceived(c) PROVE TcpSessionIsLive'
    BY <1>18, TcpSessionIsLiveFrame DEF ClientMessageReceived
  <1>19. ASSUME NEW c \in Conn, ClientExceptionCaught(c) PROVE TcpSessionIsLive'
    BY <1>19 DEF ClientExceptionCaught, TcpSessionIsLive, LiveServer, Managed
  <1>20. ASSUME NEW c \in Conn, ClientSessionClosed(c) PROVE TcpSessionIsLive'
    BY <1>20, EndDistinct DEF ClientSessionClosed, TcpSessionIsLive, LiveServer,
       TypeOK, ServerTypeOK
  <1>21. ASSUME NEW c \in Conn, ServerSessionOpened(c) PROVE TcpSessionIsLive'
    BY <1>21, EndFacts DEF ServerSessionOpened, Announced, TcpSessionIsLive,
       LiveServer, Managed, TypeOK, MinaTypeOK, ServerTypeOK
  <1>22. ASSUME NEW c \in Conn, ServerMessageReceived(c) PROVE TcpSessionIsLive'
    BY <1>22, TcpSessionIsLiveFrame DEF ServerMessageReceived
  <1>23. ASSUME NEW c \in Conn, ServerExceptionHandled(c)
         PROVE  TcpSessionIsLive'
    BY <1>23 DEF ServerExceptionHandled, TcpSessionIsLive, LiveServer, Managed
  <1>24. ASSUME NEW c \in Conn, ServerClosed(c) PROVE TcpSessionIsLive'
    BY <1>24, EndFacts DEF ServerClosed, ServerSessionClosed,
       ServerSessionClosed, TcpSessionIsLive, LiveServer, TypeOK, ServerTypeOK
  <1>25. ASSUME NEW c \in Conn, RequestSent(c) PROVE TcpSessionIsLive'
    BY <1>25, TcpSessionIsLiveFrame DEF RequestSent
  <1>26. ASSUME NEW c \in Conn, ResponseSent(c) PROVE TcpSessionIsLive'
    BY <1>26, TcpSessionIsLiveFrame DEF ResponseSent
  <1>27. ASSUME NEW c \in Conn, RequestNotSent(c) PROVE TcpSessionIsLive'
    BY <1>27, EndDistinct DEF RequestNotSent, FailWrite, EndCall,
       ServerCloseAndUnbind, TcpSessionIsLive, LiveServer, TypeOK, ServerTypeOK
  <1>28. ASSUME NEW c \in Conn, ResponseNotSent(c) PROVE TcpSessionIsLive'
    BY <1>28 DEF ResponseNotSent, FailWrite, EndCall, ServerCloseAndUnbind,
       TcpSessionIsLive, LiveServer, Managed, TypeOK, ServerTypeOK
  <1>29. ASSUME NEW e \in End, ProcResumes(e) PROVE TcpSessionIsLive'
    BY <1>29, TcpSessionIsLiveFrame DEF ProcResumes
  <1>30. ASSUME NEW e \in End, ReadOrWriteError(e) PROVE TcpSessionIsLive'
    BY <1>30 DEF ReadOrWriteError, ChannelError, TcpSessionIsLive, LiveServer,
       Managed
  <1>31. ASSUME NEW e \in End, Drop(e) PROVE TcpSessionIsLive'
    BY <1>31 DEF Drop, DropSession, TcpSessionIsLive, LiveServer
  <1>32. CASE UNCHANGED vars
    BY <1>32, TcpSessionIsLiveFrame DEF vars
  <1> QED
    BY <1>1, <1>2, <1>3, <1>4, <1>5, <1>6, <1>7, <1>8, <1>9, <1>10, <1>11,
       <1>12, <1>13, <1>14, <1>15, <1>16, <1>17, <1>18, <1>19, <1>20, <1>21,
       <1>22, <1>23, <1>24, <1>25, <1>26, <1>27, <1>28, <1>29, <1>30, <1>31,
       <1>32, EndFacts DEF Next, Users, Main, BindPool, ConnectPool, Network,
       ClientProcessor, ServerProcessor

\* A step that only takes phones out of STATE 2 keeps ServerStateIsBacked.
LEMMA ServerStateFrame ==
  ASSUME ServerStateIsBacked, state \in [Phone -> 0 .. 4],
         \A p \in Phone : state'[p] = 2 => state[p] = 2,
         UNCHANGED <<client, server, tcpSession, mainWaits, procWaits, crashed>>
  PROVE  ServerStateIsBacked'
  BY DEF ServerStateIsBacked, EndingCall, Owner

\* ServerStateIsBacked survives a step that changes nothing it reads.
LEMMA ServerStateIsBackedFrame ==
  ASSUME ServerStateIsBacked, UNCHANGED <<state, tcpSession, mainWaits, procWaits, crashed, client, server>> PROVE ServerStateIsBacked'
  BY DEF ServerStateIsBacked, EndingCall, Owner

\* So does a step that sets STATE and tcpSession of one phone to values that fit.
LEMMA ServerStateSet ==
  ASSUME ServerStateIsBacked, NEW p, state'[p] = 2 => tcpSession'[p] # NoConn,
         \A q \in Phone : q # p => /\ state'[q] = state[q]
                                  /\ tcpSession'[q] = tcpSession[q],
         UNCHANGED <<client, server, mainWaits, procWaits, crashed>>
  PROVE  ServerStateIsBacked'
  <1>1. \A q : EndingCall(q) => EndingCall(q)'
    BY DEF EndingCall, Owner
  <1> QED BY <1>1 DEF ServerStateIsBacked

\* Every step keeps ServerStateIsBacked.
LEMMA NextServerStateIsBacked ==
  TypeOK /\ FreshConn /\ WaitingProc /\ ServerStateIsBacked /\ [Next]_vars => ServerStateIsBacked'
  <1> SUFFICES ASSUME TypeOK, FreshConn, WaitingProc, ServerStateIsBacked, [Next]_vars
               PROVE  ServerStateIsBacked'
    OBVIOUS
  <1> USE DEF minaVars, clientVars, serverVars, serviceVars
  <1>1. ASSUME NEW p \in Phone, StartCall(p) PROVE ServerStateIsBacked'
    BY <1>1, ServerStateIsBackedFrame DEF StartCall
  <1>2. ASSUME NEW p \in Phone, HangUp(p) PROVE ServerStateIsBacked'
    BY <1>2 DEF HangUp, EndCall, ServerCloseAndUnbind, ServerStateIsBacked,
       EndingCall, Owner, TypeOK, ServerTypeOK, ServiceTypeOK
  <1>3. ASSUME NEW p \in Phone, Answer(p) PROVE ServerStateIsBacked'
    BY <1>3, ServerStateIsBackedFrame DEF Answer
  <1>4. ASSUME NEW p \in Phone, AnswerRefused(p) PROVE ServerStateIsBacked'
    BY <1>4 DEF AnswerRefused, EndCall, ServerCloseAndUnbind,
       ServerStateIsBacked, EndingCall, Owner, TypeOK, ServerTypeOK,
       ServiceTypeOK
  <1>5. ASSUME NEW p \in Phone, MainResumes(p) PROVE ServerStateIsBacked'
    BY <1>5 DEF MainResumes, ServerStateIsBacked, EndingCall, Owner, TypeOK,
       ServiceTypeOK
  <1>6. ASSUME NEW p \in Phone, NEW q \in Phone, OnFindOther(p, q)
        PROVE  ServerStateIsBacked'
    BY <1>6, ServerStateIsBackedFrame DEF OnFindOther
  <1>7. ASSUME NEW p \in Phone, NEW q \in Phone, OnStartTcp(p, q)
        PROVE  ServerStateIsBacked'
    BY <1>7 DEF OnStartTcp, ServerStateIsBacked, EndingCall, Owner, TypeOK,
       ServiceTypeOK
  <1>8. ASSUME NEW p \in Phone, RunBind(p) PROVE ServerStateIsBacked'
    BY <1>8, ServerStateIsBackedFrame DEF RunBind
  <1>9. ASSUME NEW p \in Phone, OnBindSucess(p) PROVE ServerStateIsBacked'
    BY <1>9 DEF OnBindSucess, ServerStateIsBacked, EndingCall, Owner
  <1>10. ASSUME NEW p \in Phone, OnBindFailed(p) PROVE ServerStateIsBacked'
    BY <1>10 DEF OnBindFailed, ServerStateIsBacked, EndingCall, Owner
  <1>11. ASSUME NEW p \in Phone, RunConnect(p) PROVE ServerStateIsBacked'
    <2>1. \A d \in Conn : future[d] # "none" =>
             client'[d] = client[d] /\ server'[d] = server[d]
      BY <1>11 DEF RunConnect, RunConnectClosed, RunConnectIgnored, Connect, TypeOK,
         MinaTypeOK
    <2>2. \A e \in procWaits : Owner(e)' = Owner(e)
      <3> SUFFICES ASSUME NEW e \in procWaits PROVE Owner(e)' = Owner(e)
        OBVIOUS
      <3>1. e \in End /\ sess[e] = "failing"
        BY DEF WaitingProc, TypeOK, ServiceTypeOK
      <3>2. PICK d \in Conn : e = C(d) \/ e = S(d)
        BY <3>1, EndDistinct
      <3>3. future[d] # "none"
        BY <3>1, <3>2 DEF FreshConn
      <3> QED BY <2>1, <3>2, <3>3 DEF Owner, C, S
    <2>3. UNCHANGED <<state, tcpSession, mainWaits, procWaits, crashed>>
      BY <1>11 DEF RunConnect
    <2> QED BY <2>2, <2>3 DEF ServerStateIsBacked, EndingCall
  <1>12. ASSUME NEW c \in Conn, AttachListeners(c) PROVE ServerStateIsBacked'
    BY <1>12 DEF AttachListeners, FutureListeners, ServerStateIsBacked,
       EndingCall, Owner, TypeOK, ServiceTypeOK
  <1>13. ASSUME NEW c \in Conn, Established(c) PROVE ServerStateIsBacked'
    BY <1>13, ServerStateIsBackedFrame DEF Established
  <1>14. ASSUME NEW c \in Conn, ConnectFails(c) PROVE ServerStateIsBacked'
    <2>1. \A q \in Phone : state'[q] = 2 => state[q] = 2
      BY <1>14 DEF ConnectFails, FutureListeners, TypeOK, ServiceTypeOK
    <2> QED BY <1>14, <2>1, ServerStateFrame DEF ConnectFails, TypeOK, ServiceTypeOK
  <1>15. ASSUME NEW c \in Conn, NeverAccepted(c) PROVE ServerStateIsBacked'
    BY <1>15, ServerStateIsBackedFrame DEF NeverAccepted
  <1>16. ASSUME NEW c \in Conn, ClientSessionCreated(c)
         PROVE  ServerStateIsBacked'
    <2>1. \A q \in Phone : state'[q] = 2 => state[q] = 2
      BY <1>16 DEF ClientSessionCreated, FutureListeners, TypeOK, ServiceTypeOK
    <2> QED BY <1>16, <2>1, ServerStateFrame
       DEF ClientSessionCreated, TypeOK, ServiceTypeOK
  <1>17. ASSUME NEW c \in Conn, ClientSessionOpened(c)
         PROVE  ServerStateIsBacked'
    <2>1. \A q \in Phone : state'[q] = 2 => state[q] = 2
      BY <1>17 DEF ClientSessionOpened, TypeOK, ServiceTypeOK
    <2> QED BY <1>17, <2>1, ServerStateFrame
       DEF ClientSessionOpened, TypeOK, ServiceTypeOK
  <1>18. ASSUME NEW c \in Conn, ClientMessageReceived(c)
         PROVE  ServerStateIsBacked'
    BY <1>18, ServerStateIsBackedFrame DEF ClientMessageReceived
  <1>19. ASSUME NEW c \in Conn, ClientExceptionCaught(c)
         PROVE  ServerStateIsBacked'
    BY <1>19 DEF ClientExceptionCaught, ServerStateIsBacked, EndingCall, Owner
  <1>20. ASSUME NEW c \in Conn, ClientSessionClosed(c)
         PROVE  ServerStateIsBacked'
    BY <1>20 DEF ClientSessionClosed, SessionOver, ServerStateIsBacked,
       EndingCall, Owner
  <1>21. ASSUME NEW c \in Conn, ServerSessionOpened(c)
         PROVE  ServerStateIsBacked'
    <2> DEFINE p == server[c]
    <2>1. UNCHANGED <<client, server, mainWaits, procWaits, crashed>>
      BY <1>21 DEF ServerSessionOpened
    <2>2. CASE UNCHANGED <<state, tcpSession>>
      BY <2>1, <2>2, ServerStateIsBackedFrame
    <2>3. CASE /\ state' = [state EXCEPT ![p] = 2]
               /\ tcpSession' = [tcpSession EXCEPT ![p] = c]
      <3>1. c # NoConn
        BY NullAssumption
      <3>2. /\ p \in Phone => tcpSession'[p] = c
            /\ p \notin Phone => state' = state /\ tcpSession' = tcpSession
            /\ \A q \in Phone : q # p => /\ state'[q] = state[q]
                                         /\ tcpSession'[q] = tcpSession[q]
        BY <2>3 DEF TypeOK, ServerTypeOK, ServiceTypeOK
      <3>3. CASE p \in Phone
        BY <2>1, <3>1, <3>2, <3>3, ServerStateSet
      <3>4. CASE p \notin Phone
        BY <2>1, <3>2, <3>4, ServerStateIsBackedFrame
      <3> QED BY <3>3, <3>4
    <2> QED BY <1>21, <2>2, <2>3 DEF ServerSessionOpened
  <1>22. ASSUME NEW c \in Conn, ServerMessageReceived(c)
         PROVE  ServerStateIsBacked'
    BY <1>22, ServerStateIsBackedFrame DEF ServerMessageReceived
  <1>23. ASSUME NEW c \in Conn, ServerExceptionHandled(c)
         PROVE  ServerStateIsBacked'
    BY <1>23, ServerStateIsBackedFrame DEF ServerExceptionHandled
  <1>24. ASSUME NEW c \in Conn, ServerClosed(c) PROVE ServerStateIsBacked'
    BY <1>24 DEF ServerClosed, SessionOver, ServerSessionClosed,
       ServerSessionClosed, ServerStateIsBacked, EndingCall, Owner, TypeOK,
       ServiceTypeOK
  <1>25. ASSUME NEW c \in Conn, RequestSent(c) PROVE ServerStateIsBacked'
    BY <1>25, ServerStateIsBackedFrame DEF RequestSent
  <1>26. ASSUME NEW c \in Conn, ResponseSent(c) PROVE ServerStateIsBacked'
    BY <1>26, ServerStateIsBackedFrame DEF ResponseSent
  <1>27. ASSUME NEW c \in Conn, RequestNotSent(c) PROVE ServerStateIsBacked'
    BY <1>27, EndFacts DEF RequestNotSent, EndCall, ServerCloseAndUnbind,
       ServerStateIsBacked, EndingCall, Owner, TypeOK, ServerTypeOK,
       ServiceTypeOK
  <1>28. ASSUME NEW c \in Conn, ResponseNotSent(c) PROVE ServerStateIsBacked'
    BY <1>28, EndFacts DEF ResponseNotSent, EndCall, ServerCloseAndUnbind,
       ServerStateIsBacked, EndingCall, Owner, TypeOK, ServerTypeOK,
       ServiceTypeOK
  <1>29. ASSUME NEW e \in End, ProcResumes(e) PROVE ServerStateIsBacked'
    BY <1>29 DEF ProcResumes, ServerStateIsBacked, EndingCall, Owner, TypeOK,
       ServiceTypeOK
  <1>30. ASSUME NEW e \in End, ReadOrWriteError(e) PROVE ServerStateIsBacked'
    BY <1>30, ServerStateIsBackedFrame DEF ReadOrWriteError
  <1>31. ASSUME NEW e \in End, Drop(e) PROVE ServerStateIsBacked'
    BY <1>31, ServerStateIsBackedFrame DEF Drop
  <1>32. CASE UNCHANGED vars
    BY <1>32, ServerStateIsBackedFrame DEF vars
  <1> QED
    BY <1>1, <1>2, <1>3, <1>4, <1>5, <1>6, <1>7, <1>8, <1>9, <1>10, <1>11,
       <1>12, <1>13, <1>14, <1>15, <1>16, <1>17, <1>18, <1>19, <1>20, <1>21,
       <1>22, <1>23, <1>24, <1>25, <1>26, <1>27, <1>28, <1>29, <1>30, <1>31,
       <1>32, EndFacts DEF Next, Users, Main, BindPool, ConnectPool, Network,
       ClientProcessor, ServerProcessor

\* ClientStateIsBacked survives a step that changes nothing it reads.
LEMMA ClientStateIsBackedFrame ==
  ASSUME ClientStateIsBacked, UNCHANGED <<state, client, sess, crashed>> PROVE ClientStateIsBacked'
  BY DEF ClientStateIsBacked, LiveClient

\* Every step keeps ClientStateIsBacked.
LEMMA NextClientStateIsBacked ==
  TypeOK /\ FreshConn /\ ClientStateIsBacked /\ [Next]_vars => ClientStateIsBacked'
  <1> SUFFICES ASSUME TypeOK, FreshConn, ClientStateIsBacked, [Next]_vars
               PROVE  ClientStateIsBacked'
    OBVIOUS
  <1> USE DEF minaVars, clientVars, serverVars, serviceVars
  <1>1. ASSUME NEW p \in Phone, StartCall(p) PROVE ClientStateIsBacked'
    BY <1>1, ClientStateIsBackedFrame DEF StartCall
  <1>2. ASSUME NEW p \in Phone, HangUp(p) PROVE ClientStateIsBacked'
    BY <1>2 DEF HangUp, EndCall, ClientStateIsBacked, LiveClient
  <1>3. ASSUME NEW p \in Phone, Answer(p) PROVE ClientStateIsBacked'
    BY <1>3, ClientStateIsBackedFrame DEF Answer
  <1>4. ASSUME NEW p \in Phone, AnswerRefused(p) PROVE ClientStateIsBacked'
    BY <1>4 DEF AnswerRefused, EndCall, ClientStateIsBacked, LiveClient
  <1>5. ASSUME NEW p \in Phone, MainResumes(p) PROVE ClientStateIsBacked'
    BY <1>5 DEF MainResumes, ClientStateIsBacked, LiveClient
  <1>6. ASSUME NEW p \in Phone, NEW q \in Phone, OnFindOther(p, q)
        PROVE  ClientStateIsBacked'
    BY <1>6, ClientStateIsBackedFrame DEF OnFindOther
  <1>7. ASSUME NEW p \in Phone, NEW q \in Phone, OnStartTcp(p, q)
        PROVE  ClientStateIsBacked'
    BY <1>7 DEF OnStartTcp, ClientStateIsBacked, LiveClient, TypeOK,
       ServiceTypeOK
  <1>8. ASSUME NEW p \in Phone, RunBind(p) PROVE ClientStateIsBacked'
    BY <1>8, ClientStateIsBackedFrame DEF RunBind
  <1>9. ASSUME NEW p \in Phone, OnBindSucess(p) PROVE ClientStateIsBacked'
    BY <1>9 DEF OnBindSucess, ClientStateIsBacked, LiveClient
  <1>10. ASSUME NEW p \in Phone, OnBindFailed(p) PROVE ClientStateIsBacked'
    BY <1>10 DEF OnBindFailed, ClientStateIsBacked, LiveClient
  <1>11. ASSUME NEW p \in Phone, RunConnect(p) PROVE ClientStateIsBacked'
    <2>1. \A d \in Conn : future[d] # "none" =>
             client'[d] = client[d] /\ server'[d] = server[d]
      BY <1>11 DEF RunConnect, RunConnectClosed, RunConnectIgnored, Connect, TypeOK,
         MinaTypeOK
    <2>2. \A d \in Conn : sess[C(d)] # "none" => client'[d] = client[d]
      BY <2>1 DEF FreshConn
    <2>3. UNCHANGED <<state, sess, crashed>>
      BY <1>11 DEF RunConnect
    <2>4. \A q \in Phone, d \in Conn : LiveClient(q, d) => LiveClient(q, d)'
      BY <2>2, <2>3 DEF LiveClient, Managed
    <2> QED BY <2>3, <2>4 DEF ClientStateIsBacked
  <1>12. ASSUME NEW c \in Conn, AttachListeners(c) PROVE ClientStateIsBacked'
    BY <1>12 DEF AttachListeners, FutureListeners, ClientStateIsBacked,
       LiveClient, TypeOK, ServiceTypeOK
  <1>13. ASSUME NEW c \in Conn, Established(c) PROVE ClientStateIsBacked'
    BY <1>13, EndFacts, EndDistinct DEF Established, TcpEstablished,
       ClientStateIsBacked, LiveClient, Managed, TypeOK, MinaTypeOK
  <1>14. ASSUME NEW c \in Conn, ConnectFails(c) PROVE ClientStateIsBacked'
    BY <1>14 DEF ConnectFails, FutureListeners, ClientStateIsBacked, LiveClient,
       TypeOK, ServiceTypeOK
  <1>15. ASSUME NEW c \in Conn, NeverAccepted(c) PROVE ClientStateIsBacked'
    BY <1>15, EndDistinct DEF NeverAccepted, ClientStateIsBacked, LiveClient
  <1>16. ASSUME NEW c \in Conn, ClientSessionCreated(c)
         PROVE  ClientStateIsBacked'
    BY <1>16 DEF ClientSessionCreated, FutureListeners, ClientStateIsBacked,
       LiveClient
  <1>17. ASSUME NEW c \in Conn, ClientSessionOpened(c)
         PROVE  ClientStateIsBacked'
    BY <1>17, EndFacts DEF ClientSessionOpened, ClientStateIsBacked, LiveClient,
       Managed, TypeOK, MinaTypeOK, ServiceTypeOK
  <1>18. ASSUME NEW c \in Conn, ClientMessageReceived(c)
         PROVE  ClientStateIsBacked'
    BY <1>18, ClientStateIsBackedFrame DEF ClientMessageReceived
  <1>19. ASSUME NEW c \in Conn, ClientExceptionCaught(c)
         PROVE  ClientStateIsBacked'
    BY <1>19 DEF ClientExceptionCaught, ClientStateIsBacked, LiveClient, Managed
  <1>20. ASSUME NEW c \in Conn, ClientSessionClosed(c)
         PROVE  ClientStateIsBacked'
    BY <1>20, EndFacts DEF ClientSessionClosed, SessionOver,
       ClientStateIsBacked, LiveClient, TypeOK, ServiceTypeOK
  <1>21. ASSUME NEW c \in Conn, ServerSessionOpened(c)
         PROVE  ClientStateIsBacked'
    BY <1>21, EndDistinct DEF ServerSessionOpened, ClientStateIsBacked,
       LiveClient, TypeOK, ServiceTypeOK
  <1>22. ASSUME NEW c \in Conn, ServerMessageReceived(c)
         PROVE  ClientStateIsBacked'
    BY <1>22, ClientStateIsBackedFrame DEF ServerMessageReceived
  <1>23. ASSUME NEW c \in Conn, ServerExceptionHandled(c)
         PROVE  ClientStateIsBacked'
    BY <1>23, EndDistinct DEF ServerExceptionHandled, ClientStateIsBacked,
       LiveClient
  <1>24. ASSUME NEW c \in Conn, ServerClosed(c) PROVE ClientStateIsBacked'
    BY <1>24, EndDistinct DEF ServerClosed, SessionOver, ClientStateIsBacked,
       LiveClient
  <1>25. ASSUME NEW c \in Conn, RequestSent(c) PROVE ClientStateIsBacked'
    BY <1>25, ClientStateIsBackedFrame DEF RequestSent
  <1>26. ASSUME NEW c \in Conn, ResponseSent(c) PROVE ClientStateIsBacked'
    BY <1>26, ClientStateIsBackedFrame DEF ResponseSent
  <1>27. ASSUME NEW c \in Conn, RequestNotSent(c) PROVE ClientStateIsBacked'
    BY <1>27 DEF RequestNotSent, FailWrite, EndCall, ClientStateIsBacked,
       LiveClient, Managed
  <1>28. ASSUME NEW c \in Conn, ResponseNotSent(c) PROVE ClientStateIsBacked'
    BY <1>28, EndDistinct DEF ResponseNotSent, FailWrite, EndCall,
       ClientStateIsBacked, LiveClient
  <1>29. ASSUME NEW e \in End, ProcResumes(e) PROVE ClientStateIsBacked'
    BY <1>29 DEF ProcResumes, ClientStateIsBacked, LiveClient
  <1>30. ASSUME NEW e \in End, ReadOrWriteError(e) PROVE ClientStateIsBacked'
    BY <1>30 DEF ReadOrWriteError, ChannelError, ClientStateIsBacked,
       LiveClient, Managed
  <1>31. ASSUME NEW e \in End, Drop(e) PROVE ClientStateIsBacked'
    BY <1>31 DEF Drop, DropSession, ClientStateIsBacked, LiveClient
  <1>32. CASE UNCHANGED vars
    BY <1>32, ClientStateIsBackedFrame DEF vars
  <1> QED
    BY <1>1, <1>2, <1>3, <1>4, <1>5, <1>6, <1>7, <1>8, <1>9, <1>10, <1>11,
       <1>12, <1>13, <1>14, <1>15, <1>16, <1>17, <1>18, <1>19, <1>20, <1>21,
       <1>22, <1>23, <1>24, <1>25, <1>26, <1>27, <1>28, <1>29, <1>30, <1>31,
       <1>32, EndFacts DEF Next, Users, Main, BindPool, ConnectPool, Network,
       ClientProcessor, ServerProcessor

\* CommunicatingWasAnswered survives a step that changes nothing it reads.
LEMMA CommunicatingWasAnsweredFrame ==
  ASSUME CommunicatingWasAnswered, UNCHANGED <<comm, answered, client, server, sess, crashed>> PROVE CommunicatingWasAnswered'
  BY DEF CommunicatingWasAnswered, LiveServer, LiveClient

\* Every step keeps CommunicatingWasAnswered.
LEMMA NextCommunicatingWasAnswered ==
  TypeOK /\ FreshConn /\ ResponseWasGiven /\ CommunicatingWasAnswered /\ [Next]_vars => CommunicatingWasAnswered'
  <1> SUFFICES ASSUME TypeOK, FreshConn, ResponseWasGiven, CommunicatingWasAnswered, [Next]_vars
               PROVE  CommunicatingWasAnswered'
    OBVIOUS
  <1> USE DEF minaVars, clientVars, serverVars, serviceVars
  <1>1. ASSUME NEW p \in Phone, StartCall(p) PROVE CommunicatingWasAnswered'
    BY <1>1, CommunicatingWasAnsweredFrame DEF StartCall
  <1>2. ASSUME NEW p \in Phone, HangUp(p) PROVE CommunicatingWasAnswered'
    BY <1>2, CommunicatingWasAnsweredFrame DEF HangUp
  <1>3. ASSUME NEW p \in Phone, Answer(p) PROVE CommunicatingWasAnswered'
    BY <1>3 DEF Answer, CommunicatingWasAnswered, LiveServer, LiveClient
  <1>4. ASSUME NEW p \in Phone, AnswerRefused(p) PROVE CommunicatingWasAnswered'
    BY <1>4 DEF AnswerRefused, CommunicatingWasAnswered, LiveServer, LiveClient,
       TypeOK, ServiceTypeOK
  <1>5. ASSUME NEW p \in Phone, MainResumes(p) PROVE CommunicatingWasAnswered'
    BY <1>5 DEF MainResumes, CommunicatingWasAnswered, LiveServer, LiveClient
  <1>6. ASSUME NEW p \in Phone, NEW q \in Phone, OnFindOther(p, q)
        PROVE  CommunicatingWasAnswered'
    BY <1>6, CommunicatingWasAnsweredFrame DEF OnFindOther
  <1>7. ASSUME NEW p \in Phone, NEW q \in Phone, OnStartTcp(p, q)
        PROVE  CommunicatingWasAnswered'
    BY <1>7 DEF OnStartTcp, CommunicatingWasAnswered, LiveServer, LiveClient
  <1>8. ASSUME NEW p \in Phone, RunBind(p) PROVE CommunicatingWasAnswered'
    BY <1>8, CommunicatingWasAnsweredFrame DEF RunBind
  <1>9. ASSUME NEW p \in Phone, OnBindSucess(p) PROVE CommunicatingWasAnswered'
    BY <1>9, CommunicatingWasAnsweredFrame DEF OnBindSucess
  <1>10. ASSUME NEW p \in Phone, OnBindFailed(p) PROVE CommunicatingWasAnswered'
    BY <1>10, CommunicatingWasAnsweredFrame DEF OnBindFailed
  <1>11. ASSUME NEW p \in Phone, RunConnect(p) PROVE CommunicatingWasAnswered'
    BY <1>11, NullAssumption DEF RunConnect, RunConnectClosed, Connect,
       CommunicatingWasAnswered, LiveServer, LiveClient, Managed, FreshConn,
       TypeOK, MinaTypeOK, ServiceTypeOK
  <1>12. ASSUME NEW c \in Conn, AttachListeners(c)
         PROVE  CommunicatingWasAnswered'
    BY <1>12, CommunicatingWasAnsweredFrame DEF AttachListeners
  <1>13. ASSUME NEW c \in Conn, Established(c) PROVE CommunicatingWasAnswered'
    BY <1>13, EndFacts DEF Established, TcpEstablished,
       CommunicatingWasAnswered, LiveServer, LiveClient, Managed, FreshConn,
       TypeOK, MinaTypeOK, ServiceTypeOK
  <1>14. ASSUME NEW c \in Conn, ConnectFails(c) PROVE CommunicatingWasAnswered'
    BY <1>14, CommunicatingWasAnsweredFrame DEF ConnectFails
  <1>15. ASSUME NEW c \in Conn, NeverAccepted(c) PROVE CommunicatingWasAnswered'
    BY <1>15 DEF NeverAccepted, CommunicatingWasAnswered, LiveServer,
       LiveClient, Managed
  <1>16. ASSUME NEW c \in Conn, ClientSessionCreated(c)
         PROVE  CommunicatingWasAnswered'
    BY <1>16, CommunicatingWasAnsweredFrame DEF ClientSessionCreated
  <1>17. ASSUME NEW c \in Conn, ClientSessionOpened(c)
         PROVE  CommunicatingWasAnswered'
    BY <1>17 DEF ClientSessionOpened, CommunicatingWasAnswered, LiveServer,
       LiveClient, Managed
  <1>18. ASSUME NEW c \in Conn, ClientMessageReceived(c)
         PROVE  CommunicatingWasAnswered'
    BY <1>18 DEF ClientMessageReceived, ReadMessage, CommunicatingWasAnswered,
       LiveServer, LiveClient, Managed, ResponseWasGiven
  <1>19. ASSUME NEW c \in Conn, ClientExceptionCaught(c)
         PROVE  CommunicatingWasAnswered'
    BY <1>19 DEF ClientExceptionCaught, CommunicatingWasAnswered, LiveServer,
       LiveClient, Managed
  <1>20. ASSUME NEW c \in Conn, ClientSessionClosed(c)
         PROVE  CommunicatingWasAnswered'
    BY <1>20, EndFacts DEF ClientSessionClosed, SessionOver,
       CommunicatingWasAnswered, LiveServer, LiveClient, TypeOK, ServiceTypeOK
  <1>21. ASSUME NEW c \in Conn, ServerSessionOpened(c)
         PROVE  CommunicatingWasAnswered'
    BY <1>21 DEF ServerSessionOpened, CommunicatingWasAnswered, LiveServer,
       LiveClient, Managed
  <1>22. ASSUME NEW c \in Conn, ServerMessageReceived(c)
         PROVE  CommunicatingWasAnswered'
    BY <1>22, CommunicatingWasAnsweredFrame DEF ServerMessageReceived
  <1>23. ASSUME NEW c \in Conn, ServerExceptionHandled(c)
         PROVE  CommunicatingWasAnswered'
    BY <1>23 DEF ServerExceptionHandled, CommunicatingWasAnswered, LiveServer,
       LiveClient, Managed
  <1>24. ASSUME NEW c \in Conn, ServerClosed(c) PROVE CommunicatingWasAnswered'
    BY <1>24, EndFacts DEF ServerClosed, SessionOver, CommunicatingWasAnswered,
       LiveServer, LiveClient, TypeOK, ServiceTypeOK
  <1>25. ASSUME NEW c \in Conn, RequestSent(c) PROVE CommunicatingWasAnswered'
    BY <1>25, CommunicatingWasAnsweredFrame DEF RequestSent
  <1>26. ASSUME NEW c \in Conn, ResponseSent(c) PROVE CommunicatingWasAnswered'
    BY <1>26 DEF ResponseSent, FlushWrite, CommunicatingWasAnswered, LiveServer,
       LiveClient, Managed, ResponseWasGiven
  <1>27. ASSUME NEW c \in Conn, RequestNotSent(c)
         PROVE  CommunicatingWasAnswered'
    BY <1>27 DEF RequestNotSent, FailWrite, CommunicatingWasAnswered,
       LiveServer, LiveClient, Managed
  <1>28. ASSUME NEW c \in Conn, ResponseNotSent(c)
         PROVE  CommunicatingWasAnswered'
    BY <1>28 DEF ResponseNotSent, FailWrite, CommunicatingWasAnswered,
       LiveServer, LiveClient, Managed, TypeOK, ServiceTypeOK
  <1>29. ASSUME NEW e \in End, ProcResumes(e) PROVE CommunicatingWasAnswered'
    BY <1>29, CommunicatingWasAnsweredFrame DEF ProcResumes
  <1>30. ASSUME NEW e \in End, ReadOrWriteError(e)
         PROVE  CommunicatingWasAnswered'
    BY <1>30 DEF ReadOrWriteError, ChannelError, CommunicatingWasAnswered,
       LiveServer, LiveClient, Managed
  <1>31. ASSUME NEW e \in End, Drop(e) PROVE CommunicatingWasAnswered'
    BY <1>31 DEF Drop, DropSession, CommunicatingWasAnswered, LiveServer,
       LiveClient
  <1>32. CASE UNCHANGED vars
    BY <1>32, CommunicatingWasAnsweredFrame DEF vars
  <1> QED
    BY <1>1, <1>2, <1>3, <1>4, <1>5, <1>6, <1>7, <1>8, <1>9, <1>10, <1>11,
       <1>12, <1>13, <1>14, <1>15, <1>16, <1>17, <1>18, <1>19, <1>20, <1>21,
       <1>22, <1>23, <1>24, <1>25, <1>26, <1>27, <1>28, <1>29, <1>30, <1>31,
       <1>32, EndFacts DEF Next, Users, Main, BindPool, ConnectPool, Network,
       ClientProcessor, ServerProcessor

\* Every step keeps DestKnown: only startSocketConnect hands a task to the pool.
LEMMA NextDestKnown ==
  TypeOK /\ DestKnown /\ [Next]_vars => DestKnown'
  <1> SUFFICES ASSUME TypeOK, DestKnown, [Next]_vars PROVE DestKnown'
    OBVIOUS
  <1> USE DEF minaVars, clientVars, serverVars, serviceVars
  <1>1. ASSUME NEW p \in Phone, NEW q \in Phone, OnStartTcp(p, q)
        PROVE  DestKnown'
    BY <1>1 DEF OnStartTcp, ClientConnect, DestKnown, TypeOK, ClientTypeOK
  <1>2. ASSUME NEW p \in Phone, RunConnect(p) PROVE DestKnown'
    BY <1>2 DEF RunConnect, RunConnectClosed, RunConnectIgnored, DestKnown,
       TypeOK, ClientTypeOK
  <1>3. ASSUME NEW p \in Phone, Users(p) \/ MainResumes(p) \/ BindPool(p)
        PROVE  UNCHANGED <<destIP, connectTasks>>
    BY <1>3 DEF Users, StartCall, HangUp, Answer, AnswerRefused, MainResumes,
       BindPool, RunBind, OnBindSucess, OnBindFailed
  <1>4. ASSUME NEW p \in Phone, NEW q \in Phone, OnFindOther(p, q)
        PROVE  UNCHANGED <<destIP, connectTasks>>
    BY <1>4 DEF OnFindOther
  <1>5. ASSUME NEW c \in Conn, ConnectPool(c) \/ Network(c)
        PROVE  UNCHANGED <<destIP, connectTasks>>
    BY <1>5 DEF ConnectPool, AttachListeners, Network, Established,
       ConnectFails, NeverAccepted
  <1>6. ASSUME NEW c \in Conn, ClientProcessor(c)
        PROVE  UNCHANGED <<destIP, connectTasks>>
    BY <1>6 DEF ClientProcessor, ClientSessionCreated, ClientSessionOpened,
       ClientMessageReceived, ClientExceptionCaught, RequestSent,
       RequestNotSent, Drop, ClientSessionClosed, ProcResumes
  <1>7. ASSUME NEW c \in Conn, ServerProcessor(c)
        PROVE  UNCHANGED <<destIP, connectTasks>>
    BY <1>7 DEF ServerProcessor, ServerSessionOpened, ServerMessageReceived,
       ServerExceptionHandled, ResponseSent, ResponseNotSent, Drop, ServerClosed
  <1>8. ASSUME NEW e \in End, ReadOrWriteError(e)
        PROVE  UNCHANGED <<destIP, connectTasks>>
    BY <1>8 DEF ReadOrWriteError
  <1>9. CASE UNCHANGED <<destIP, connectTasks>>
    BY <1>9 DEF DestKnown
  <1>10. CASE UNCHANGED vars
    BY <1>9, <1>10 DEF vars
  <1> QED
    BY <1>1, <1>2, <1>3, <1>4, <1>5, <1>6, <1>7, <1>8, <1>9, <1>10
       DEF Next, Main

\* The inductive invariant holds initially.
LEMMA InitIInv == Init => IInv
  <1> SUFFICES ASSUME Init PROVE IInv
    OBVIOUS
  <1> USE DEF Init, MinaInit, ClientInit, ServerInit, ServiceInit
  <1>1. TypeOK
    BY InitTypeOK
  <1>2. ConnectedHasSession
    BY DEF ConnectedHasSession
  <1>3. FreshConn
    BY EndFacts DEF FreshConn
  <1>4. WaitingProc /\ ResponseWasGiven /\ DestKnown
    BY DEF WaitingProc, ResponseWasGiven, DestKnown
  <1>5. TcpSessionIsLive
    BY DEF TcpSessionIsLive
  <1>6. ConnectedStateIsBacked
    BY DEF ConnectedStateIsBacked, ServerStateIsBacked, ClientStateIsBacked
  <1>7. CommunicatingWasAnswered
    BY DEF CommunicatingWasAnswered
  <1> QED BY <1>1, <1>2, <1>3, <1>4, <1>5, <1>6, <1>7 DEF IInv

\* Every step keeps the inductive invariant.
LEMMA NextIInv == IInv /\ [Next]_vars => IInv'
  <1> SUFFICES ASSUME IInv, [Next]_vars PROVE IInv'
    OBVIOUS
  <1> USE DEF IInv
  <1>1. TypeOK' /\ ConnectedHasSession'
    BY NextTypeOK, NextConnectedHasSession
  <1>2. FreshConn' /\ WaitingProc' /\ ResponseWasGiven' /\ DestKnown'
    BY NextFreshConn, NextWaitingProc, NextResponseWasGiven, NextDestKnown
  <1>3. TcpSessionIsLive'
    BY NextTcpSessionIsLive
  <1>4. ConnectedStateIsBacked'
    BY NextServerStateIsBacked, NextClientStateIsBacked
       DEF ConnectedStateIsBacked
  <1>5. CommunicatingWasAnswered'
    BY NextCommunicatingWasAnswered
  <1> QED BY <1>1, <1>2, <1>3, <1>4, <1>5

\* Every reachable state satisfies the inductive invariant.
LEMMA Inductive == Spec => []IInv
  BY InitIInv, NextIInv, PTL DEF Spec

-----------------------------------------------------------------------------
(* How the variables of CallPromise are mapped. *)
Lines == [e \in End |-> Line(e)]
InCall == {p \in Phone \ crashed : comm[p]}
Ringing == {p \in Phone : ringing[p]}

\* The promise sees nothing of a step that changes none of these.
LEMMA PromiseFrame ==
  ASSUME UNCHANGED <<client, server, sess, wire, ringing, answered, comm, crashed>>
  PROVE  UNCHANGED Promise!promiseVars
  BY DEF Promise!promiseVars, Line

\* A session of e that goes on leaves the lines as they are, and one that is
\* opened or over changes the line of e.
LEMMA LinesStep ==
  ASSUME TypeOK, NEW e \in End, NEW st, sess' = [sess EXCEPT ![e] = st]
  PROVE  /\ Line(e)' = Line(e) => Lines' = Lines
         /\ Lines' = [Lines EXCEPT ![e] = Line(e)']
  <1>1. \A d \in End : d # e => Line(d)' = Line(d)
    BY DEF Line, TypeOK, MinaTypeOK
  <1> QED BY <1>1 DEF Lines

\* What becomes of the set of the phones in a call.
LEMMA InCallStep ==
  ASSUME TypeOK, NEW p \in Phone, UNCHANGED crashed
  PROVE  /\ UNCHANGED comm => InCall' = InCall
         /\ comm' = [comm EXCEPT ![p] = FALSE] => InCall' = InCall \ {p}
         /\ comm' = [comm EXCEPT ![p] = TRUE] /\ p \notin crashed
              => InCall' = InCall \cup {p}
  <1> USE DEF InCall, TypeOK, ServiceTypeOK
  <1>1. UNCHANGED comm => InCall' = InCall
    OBVIOUS
  <1>2. comm' = [comm EXCEPT ![p] = FALSE] => InCall' = InCall \ {p}
    OBVIOUS
  <1>3. comm' = [comm EXCEPT ![p] = TRUE] /\ p \notin crashed
          => InCall' = InCall \cup {p}
    OBVIOUS
  <1> QED BY <1>1, <1>2, <1>3

\* The ends and their phones are the same in both.
LEMMA PromiseEnds ==
  /\ Promise!End = End
  /\ \A c \in Conn : Promise!CallerEnd(c) = C(c) /\ Promise!CalleeEnd(c) = S(c)
  /\ \A e \in End : Promise!PhoneOf(e) = Owner(e)
  BY DEF Promise!End, End, Promise!CallerEnd, Promise!CalleeEnd, C, S,
         Promise!PhoneOf, Owner

\* A phone that leaves a call, or stays out of it.
LEMMA LeavesStep ==
  ASSUME TypeOK, NEW p \in Phone, Lines' = Lines, UNCHANGED crashed,
         UNCHANGED <<client, server, wire, ringing, answered>>,
         comm' = [comm EXCEPT ![p] = FALSE] \/ UNCHANGED comm
  PROVE  [Promise!Next]_Promise!promiseVars
  <1>1. CASE comm' = [comm EXCEPT ![p] = FALSE]
    <2>1. Promise!Leave(p)
      BY <1>1, InCallStep DEF Promise!Leave, Lines, InCall
    <2> QED BY <2>1 DEF Promise!Next
  <1>2. CASE UNCHANGED comm
    BY <1>2 DEF Promise!promiseVars, Lines
  <1> QED BY <1>1, <1>2

\* Every step is a step of CallPromise, or none, one action after the other.
LEMMA StepIsPromiseStep ==
  IInv /\ [Next]_vars => [Promise!Next]_Promise!promiseVars
  <1> SUFFICES ASSUME IInv, [Next]_vars
               PROVE  [Promise!Next]_Promise!promiseVars
    OBVIOUS
  <1> USE DEF minaVars, clientVars, serverVars, serviceVars
  <1>a. /\ TypeOK /\ FreshConn /\ ResponseWasGiven /\ TcpSessionIsLive
        /\ DestKnown
    BY DEF IInv
  <1>b. /\ client \in [Conn -> Phone \cup {NoPhone}]
        /\ server \in [Conn -> Phone \cup {NoPhone}]
        /\ comm \in [Phone -> BOOLEAN] /\ ringing \in [Phone -> BOOLEAN]
        /\ sess \in [End -> SessionStatus]
    BY <1>a DEF TypeOK, MinaTypeOK, ServiceTypeOK
  <1>c. \A e \in End : Lines[e] = Line(e)
    BY DEF Lines
  <1>1. ASSUME NEW p \in Phone, StartCall(p)
        PROVE  [Promise!Next]_Promise!promiseVars
    BY <1>1, PromiseFrame DEF StartCall
  <1>2. ASSUME NEW p \in Phone, HangUp(p)
        PROVE  [Promise!Next]_Promise!promiseVars
    <2>1. Lines' = Lines
      BY <1>2 DEF HangUp, Lines, Line
    <2>2. Ringing' = Ringing \ {p}
      BY <1>2, <1>b DEF HangUp, Ringing
    <2>3. Promise!Quiet(p)
      BY <1>2, <2>1, <2>2 DEF HangUp, Promise!Quiet, Lines, Ringing
    <2> QED BY <2>3 DEF Promise!Next
  <1>3. ASSUME NEW p \in Phone, Answer(p)
        PROVE  [Promise!Next]_Promise!promiseVars
    <2> DEFINE c == tcpSession[p]
    <2>1. p \notin crashed /\ ringing[p] /\ ~comm[p] /\ c # NoConn
      BY <1>3 DEF Answer, Command, MainFree, ServerSendQueued, HasSession
    <2>2. c \in Conn /\ LiveServer(p, c)
      BY <1>a, <2>1 DEF TcpSessionIsLive, TypeOK, ServerTypeOK
    <2>3. server[c] = p /\ Line(S(c)) = "up"
      BY <2>2 DEF LiveServer, Line, Managed
    <2>4. Lines' = Lines
      BY <1>3 DEF Answer, Lines, Line
    <2>5. Promise!Answer(c)
      BY <1>3, <1>c, <2>1, <2>2, <2>3, <2>4, PromiseEnds, EndFacts
         DEF Answer, Promise!Answer, Lines
    <2> QED BY <2>2, <2>5 DEF Promise!Next
  <1>4. ASSUME NEW p \in Phone, AnswerRefused(p)
        PROVE  [Promise!Next]_Promise!promiseVars
    <2>1. Lines' = Lines
      BY <1>4 DEF AnswerRefused, Lines, Line
    <2> QED BY <1>4, <1>a, <2>1, LeavesStep DEF AnswerRefused
  <1>5. ASSUME NEW p \in Phone, MainResumes(p)
        PROVE  [Promise!Next]_Promise!promiseVars
    <2>1. Lines' = Lines
      BY <1>5 DEF MainResumes, Lines, Line
    <2> QED BY <1>5, <1>a, <2>1, LeavesStep DEF MainResumes
  <1>6. ASSUME NEW p \in Phone, NEW q \in Phone, OnFindOther(p, q)
        PROVE  [Promise!Next]_Promise!promiseVars
    BY <1>6, PromiseFrame DEF OnFindOther
  <1>7. ASSUME NEW p \in Phone, NEW q \in Phone, OnStartTcp(p, q)
        PROVE  [Promise!Next]_Promise!promiseVars
    <2>1. CASE UNCHANGED crashed
      BY <1>7, <2>1, PromiseFrame DEF OnStartTcp
    <2>2. CASE crashed' = crashed \cup {p}
      <3>1. Lines' = Lines
        BY <1>7 DEF OnStartTcp, Lines, Line
      <3>2. InCall' = InCall \ {p}
        BY <1>7, <2>2 DEF OnStartTcp, InCall
      <3>3. Promise!Leave(p)
        BY <1>7, <3>1, <3>2 DEF OnStartTcp, Promise!Leave, Lines, InCall
      <3> QED BY <3>3 DEF Promise!Next
    <2> QED BY <1>7, <2>1, <2>2 DEF OnStartTcp
  <1>8. ASSUME NEW p \in Phone, RunBind(p)
        PROVE  [Promise!Next]_Promise!promiseVars
    BY <1>8, PromiseFrame DEF RunBind
  <1>9. ASSUME NEW p \in Phone, OnBindSucess(p)
        PROVE  [Promise!Next]_Promise!promiseVars
    BY <1>9, PromiseFrame DEF OnBindSucess
  <1>10. ASSUME NEW p \in Phone, OnBindFailed(p)
         PROVE  [Promise!Next]_Promise!promiseVars
    BY <1>10, PromiseFrame DEF OnBindFailed
  <1>11. ASSUME NEW p \in Phone, RunConnect(p)
         PROVE  [Promise!Next]_Promise!promiseVars
    <2>1. ASSUME NEW c \in Conn, RunConnectClosed(p, c)
          PROVE  [Promise!Next]_Promise!promiseVars
      <3>1. destIP[p] \in Phone
        BY <1>a, <2>1 DEF RunConnectClosed, DestKnown
      <3>2. client[c] = NoPhone
        BY <1>a, <2>1 DEF RunConnectClosed, Connect, FreshConn
      <3>3. Lines' = Lines
        BY <1>11 DEF RunConnect, Lines, Line
      <3>4. Promise!Call(p, destIP[p], c)
        BY <1>11, <2>1, <3>2, <3>3
           DEF RunConnect, RunConnectClosed, Connect, Promise!Call, Lines
      <3> QED BY <3>1, <3>4 DEF Promise!Next
    <2>2. CASE UNCHANGED <<client, server>>
      BY <1>11, <2>2, PromiseFrame DEF RunConnect
    <2> QED BY <1>11, <2>1, <2>2 DEF RunConnect
  <1>12. ASSUME NEW c \in Conn, AttachListeners(c)
         PROVE  [Promise!Next]_Promise!promiseVars
    BY <1>12, PromiseFrame DEF AttachListeners
  <1>13. ASSUME NEW c \in Conn, Established(c)
         PROVE  [Promise!Next]_Promise!promiseVars
    <2>1. sess[C(c)] = "none" /\ sess[S(c)] = "none"
      BY <1>13, <1>a DEF Established, TcpEstablished, FreshConn
    <2>2. sess' = [sess EXCEPT ![C(c)] = "created", ![S(c)] = "created"]
      BY <1>13 DEF Established, TcpEstablished
    <2>3. Lines' = Lines
      BY <1>b, <2>1, <2>2 DEF Lines, Line
    <2> QED BY <1>13, <2>3 DEF Established, Promise!promiseVars, Lines
  <1>14. ASSUME NEW c \in Conn, ConnectFails(c)
         PROVE  [Promise!Next]_Promise!promiseVars
    BY <1>14, PromiseFrame DEF ConnectFails
  <1>15. ASSUME NEW c \in Conn, NeverAccepted(c)
         PROVE  [Promise!Next]_Promise!promiseVars
    <2>1. /\ sess' = [sess EXCEPT ![S(c)] = "closed"]
          /\ Line(S(c)) = "new" /\ Line(S(c))' = "over"
      BY <1>15, <1>b, EndFacts DEF NeverAccepted, Line
    <2>2. Lines' = [Lines EXCEPT ![S(c)] = "over"]
      BY <1>a, <2>1, EndFacts, LinesStep
    <2>3. Promise!LineMissed(S(c))
      BY <1>15, <1>c, <2>1, <2>2, EndFacts
         DEF NeverAccepted, Promise!LineMissed, Lines
    <2> QED BY <2>3, EndFacts, PromiseEnds DEF Promise!Next
  <1>16. ASSUME NEW c \in Conn, ClientSessionCreated(c)
         PROVE  [Promise!Next]_Promise!promiseVars
    BY <1>16, PromiseFrame DEF ClientSessionCreated
  <1>17. ASSUME NEW c \in Conn, ClientSessionOpened(c)
         PROVE  [Promise!Next]_Promise!promiseVars
    <2>1. /\ sess' = [sess EXCEPT ![C(c)] = "open"]
          /\ Line(C(c)) = "new" /\ Line(C(c))' = "up"
      BY <1>17, <1>b, EndFacts DEF ClientSessionOpened, Line
    <2>2. Lines' = [Lines EXCEPT ![C(c)] = "up"]
      BY <1>a, <2>1, EndFacts, LinesStep
    <2>3. Promise!LineOpens(C(c))
      BY <1>17, <1>c, <2>1, <2>2, EndFacts
         DEF ClientSessionOpened, Promise!LineOpens, Lines
    <2> QED BY <2>3, EndFacts, PromiseEnds DEF Promise!Next
  <1>18. ASSUME NEW c \in Conn, ClientMessageReceived(c)
         PROVE  [Promise!Next]_Promise!promiseVars
    <2>1. Line(C(c)) = "up" /\ Lines' = Lines
      BY <1>18 DEF ClientMessageReceived, ReadMessage, Line, Lines
    <2>2. client[c] \in Phone \ crashed
      BY <1>18, EndFacts DEF ClientMessageReceived, ProcFree
    <2>3. InCall' = InCall \cup {client[c]}
      BY <1>18, <1>a, <2>2, InCallStep DEF ClientMessageReceived
    <2>4. Promise!Join(c)
      BY <1>18, <1>c, <2>1, <2>3, EndFacts, PromiseEnds
         DEF ClientMessageReceived, ReadMessage, Promise!Join, Lines, InCall
    <2> QED BY <2>4 DEF Promise!Next
  <1>19. ASSUME NEW c \in Conn, ClientExceptionCaught(c)
         PROVE  [Promise!Next]_Promise!promiseVars
    <2>1. /\ sess' = [sess EXCEPT ![C(c)] = "removing"]
          /\ Line(C(c)) = "up" /\ Line(C(c))' = "up"
      BY <1>19, <1>b, EndFacts DEF ClientExceptionCaught, Line
    <2>2. Lines' = Lines
      BY <1>a, <2>1, EndFacts, LinesStep
    <2>3. client[c] \in Phone
      BY <1>19, EndFacts DEF ClientExceptionCaught, ProcFree
    <2> QED BY <1>19, <1>a, <2>2, <2>3, LeavesStep DEF ClientExceptionCaught
  <1>20. ASSUME NEW c \in Conn, ClientSessionClosed(c)
         PROVE  [Promise!Next]_Promise!promiseVars
    <2>1. /\ sess' = [sess EXCEPT ![C(c)] = "closed"]
          /\ Line(C(c)) = "up" /\ Line(C(c))' = "over"
      BY <1>20, <1>b, EndFacts DEF ClientSessionClosed, Line
    <2>2. Lines' = [Lines EXCEPT ![C(c)] = "over"]
      BY <1>a, <2>1, EndFacts, LinesStep
    <2>3. client[c] \in Phone
      BY <1>20, EndFacts DEF ClientSessionClosed, ProcFree
    <2>4. InCall' = InCall \ {client[c]}
      BY <1>20, <1>a, <2>3, InCallStep DEF ClientSessionClosed, SessionOver
    <2>5. Promise!LineOver(C(c))
      BY <1>20, <1>c, <2>1, <2>2, <2>4, EndFacts, PromiseEnds
         DEF ClientSessionClosed, Promise!LineOver, Lines, InCall
    <2> QED BY <2>5, EndFacts, PromiseEnds DEF Promise!Next
  <1>21. ASSUME NEW c \in Conn, ServerSessionOpened(c)
         PROVE  [Promise!Next]_Promise!promiseVars
    <2>1. /\ sess' = [sess EXCEPT ![S(c)] = "open"]
          /\ Line(S(c)) = "new" /\ Line(S(c))' = "up"
      BY <1>21, <1>b, EndFacts DEF ServerSessionOpened, Line
    <2>2. Lines' = [Lines EXCEPT ![S(c)] = "up"]
      BY <1>a, <2>1, EndFacts, LinesStep
    <2>3. Promise!LineOpens(S(c))
      BY <1>21, <1>c, <2>1, <2>2, EndFacts
         DEF ServerSessionOpened, Promise!LineOpens, Lines
    <2> QED BY <2>3, EndFacts, PromiseEnds DEF Promise!Next
  <1>22. ASSUME NEW c \in Conn, ServerMessageReceived(c)
         PROVE  [Promise!Next]_Promise!promiseVars
    <2>1. Line(S(c)) = "up" /\ Lines' = Lines
      BY <1>22 DEF ServerMessageReceived, ReadMessage, Line, Lines
    <2>2. server[c] \in Phone
      BY <1>22, EndFacts DEF ServerMessageReceived, ProcFree
    <2>3. Ringing' = Ringing \cup {server[c]}
      BY <1>22, <1>b, <2>2 DEF ServerMessageReceived, Ringing
    <2>4. Promise!Ring(c)
      BY <1>22, <1>c, <2>1, <2>3, EndFacts, PromiseEnds
         DEF ServerMessageReceived, ReadMessage, Promise!Ring, Lines, Ringing
    <2> QED BY <2>4 DEF Promise!Next
  <1>23. ASSUME NEW c \in Conn, ServerExceptionHandled(c)
         PROVE  [Promise!Next]_Promise!promiseVars
    <2>1. /\ sess' = [sess EXCEPT ![S(c)] = "removing"]
          /\ Line(S(c)) = "up" /\ Line(S(c))' = "up"
      BY <1>23, <1>b, EndFacts DEF ServerExceptionHandled, Line
    <2>2. Lines' = Lines
      BY <1>a, <2>1, EndFacts, LinesStep
    <2> QED
      BY <1>23, <2>2 DEF ServerExceptionHandled, Promise!promiseVars, Lines
  <1>24. ASSUME NEW c \in Conn, ServerClosed(c)
         PROVE  [Promise!Next]_Promise!promiseVars
    <2>1. /\ sess' = [sess EXCEPT ![S(c)] = "closed"]
          /\ Line(S(c)) = "up" /\ Line(S(c))' = "over"
      BY <1>24, <1>b, EndFacts DEF ServerClosed, Line
    <2>2. Lines' = [Lines EXCEPT ![S(c)] = "over"]
      BY <1>a, <2>1, EndFacts, LinesStep
    <2>3. server[c] \in Phone
      BY <1>24, EndFacts DEF ServerClosed, ProcFree
    <2>4. InCall' = InCall \ {server[c]}
      BY <1>24, <1>a, <2>3, InCallStep DEF ServerClosed, SessionOver
    <2>5. Promise!LineOver(S(c))
      BY <1>24, <1>c, <2>1, <2>2, <2>4, EndFacts, PromiseEnds
         DEF ServerClosed, Promise!LineOver, Lines, InCall
    <2> QED BY <2>5, EndFacts, PromiseEnds DEF Promise!Next
  <1>25. ASSUME NEW c \in Conn, RequestSent(c)
         PROVE  [Promise!Next]_Promise!promiseVars
    <2>1. Line(C(c)) = "up" /\ Lines' = Lines
      BY <1>25 DEF RequestSent, FlushWrite, Line, Lines
    <2>2. Promise!Ask(c)
      BY <1>25, <1>c, <2>1, EndFacts, PromiseEnds
         DEF RequestSent, FlushWrite, Promise!Ask, Lines
    <2> QED BY <2>2 DEF Promise!Next
  <1>26. ASSUME NEW c \in Conn, ResponseSent(c)
         PROVE  [Promise!Next]_Promise!promiseVars
    <2>1. Line(S(c)) = "up" /\ Lines' = Lines
      BY <1>26 DEF ResponseSent, FlushWrite, Line, Lines
    <2>2. server[c] \in Phone \ crashed
      BY <1>26, EndFacts DEF ResponseSent, ProcFree
    <2>3. InCall' = InCall \cup {server[c]}
      BY <1>26, <1>a, <2>2, InCallStep DEF ResponseSent
    <2>4. c \in answered
      BY <1>26, <1>a DEF ResponseSent, FlushWrite, ResponseWasGiven
    <2>5. Promise!Confirm(c)
      BY <1>26, <1>c, <2>1, <2>3, <2>4, EndFacts, PromiseEnds
         DEF ResponseSent, FlushWrite, Promise!Confirm, Lines, InCall
    <2> QED BY <2>5 DEF Promise!Next
  <1>27. ASSUME NEW c \in Conn, RequestNotSent(c)
         PROVE  [Promise!Next]_Promise!promiseVars
    <2>1. /\ sess' = [sess EXCEPT ![C(c)] = "failing"]
          /\ Line(C(c)) = "up" /\ Line(C(c))' = "up"
      BY <1>27, <1>b, EndFacts
         DEF RequestNotSent, FailWrite, RemovalDue, Line
    <2>2. Lines' = Lines
      BY <1>a, <2>1, EndFacts, LinesStep
    <2> QED BY <1>27, <2>2 DEF RequestNotSent, Promise!promiseVars, Lines
  <1>28. ASSUME NEW c \in Conn, ResponseNotSent(c)
         PROVE  [Promise!Next]_Promise!promiseVars
    <2>1. /\ sess' = [sess EXCEPT ![S(c)] = "failing"]
          /\ Line(S(c)) = "up" /\ Line(S(c))' = "up"
      BY <1>28, <1>b, EndFacts
         DEF ResponseNotSent, FailWrite, RemovalDue, Line
    <2>2. Lines' = Lines
      BY <1>a, <2>1, EndFacts, LinesStep
    <2>3. server[c] \in Phone
      BY <1>28, EndFacts DEF ResponseNotSent, ProcFree
    <2> QED BY <1>28, <1>a, <2>2, <2>3, LeavesStep DEF ResponseNotSent
  <1>29. ASSUME NEW e \in End, ProcResumes(e)
         PROVE  [Promise!Next]_Promise!promiseVars
    BY <1>29, PromiseFrame DEF ProcResumes
  <1>30. ASSUME NEW e \in End, ReadOrWriteError(e)
         PROVE  [Promise!Next]_Promise!promiseVars
    <2>1. /\ sess' = [sess EXCEPT ![e] = "failing"]
          /\ Line(e) = "up" /\ Line(e)' = "up"
      BY <1>30, <1>b DEF ReadOrWriteError, ChannelError, Line
    <2>2. Lines' = Lines
      BY <1>a, <2>1, LinesStep
    <2> QED
      BY <1>30, <2>2
         DEF ReadOrWriteError, ChannelError, Promise!promiseVars, Lines
  <1>31. ASSUME NEW e \in End, Drop(e)
         PROVE  [Promise!Next]_Promise!promiseVars
    <2>1. /\ sess' = [sess EXCEPT ![e] = "dropped"]
          /\ Line(e) = "up" /\ Line(e)' = "up"
      BY <1>31, <1>b DEF Drop, DropSession, RemovalDue, Line
    <2>2. Lines' = Lines
      BY <1>a, <2>1, LinesStep
    <2>3. Promise!Lose(e)
      BY <1>31, <2>2 DEF Drop, DropSession, Promise!Lose, Lines
    <2> QED BY <2>3, PromiseEnds DEF Promise!Next
  <1>32. CASE UNCHANGED vars
    BY <1>32, PromiseFrame DEF vars
  <1> QED
    BY <1>1, <1>2, <1>3, <1>4, <1>5, <1>6, <1>7, <1>8, <1>9, <1>10, <1>11,
       <1>12, <1>13, <1>14, <1>15, <1>16, <1>17, <1>18, <1>19, <1>20, <1>21,
       <1>22, <1>23, <1>24, <1>25, <1>26, <1>27, <1>28, <1>29, <1>30, <1>31,
       <1>32, EndFacts DEF Next, Users, Main, BindPool, ConnectPool, Network,
       ClientProcessor, ServerProcessor

-----------------------------------------------------------------------------
\* Type correctness, for any number of phones, connections, commands and errors:
\* no callback, in whatever order the threads of the service run it, takes a
\* variable out of its type.
THEOREM TypeCorrect == Spec => []TypeOK
  <1>1. IInv => TypeOK
    BY DEF IInv
  <1> QED BY <1>1, Inductive, PTL

\* MinaSocketClient is CONNECTED only with a session that was connected, and is
\* its own: ConnectedSessionState never meets a null session.
THEOREM ClientSessionIsReal == Spec => []ConnectedHasSession
  <1>1. IInv => ConnectedHasSession
    BY DEF IInv
  <1> QED BY <1>1, Inductive, PTL

\* MinaSocketServer.tcpSession never outlives its session.
THEOREM ServerSessionIsLive == Spec => []TcpSessionIsLive
  <1>1. IInv => TcpSessionIsLive
    BY DEF IInv
  <1> QED BY <1>1, Inductive, PTL

\* STATE is 2 or 4 only while a session of that side is live, or while endCall
\* waits inside unbind.
THEOREM StateIsBacked == Spec => []ConnectedStateIsBacked
  <1>1. IInv => ConnectedStateIsBacked
    BY DEF IInv
  <1> QED BY <1>1, Inductive, PTL

\* IS_COMMUNICATING is set only over a live session on which the user of the
\* accepting phone has answered.
THEOREM CallsAreAnswered == Spec => []CommunicatingWasAnswered
  <1>1. IInv => CommunicatingWasAnswered
    BY DEF IInv
  <1> QED BY <1>1, Inductive, PTL

\* The service implements CallPromise: whatever its threads, MINA and the network
\* do, a call begins and ends only as that says, for any number of phones,
\* connections, commands and errors.
THEOREM ServiceKeepsItsPromise == Spec => PromiseSpec
  <1>1. Init => Promise!Init
    BY PromiseEnds
       DEF Init, MinaInit, ClientInit, ServerInit, ServiceInit, Promise!Init, Line
  <1> QED
    BY <1>1, StepIsPromiseStep, Inductive, PTL DEF Spec, PromiseSpec, Promise!Spec

\* What CallPromise is worth, seen through the mapping: every phone in a call has
\* a line that is up, of a connection over which the callee has answered.
PromisedCall(p) ==
    \E c \in answered : \/ client[c] = p /\ Lines[C(c)] = "up"
                        \/ server[c] = p /\ Lines[S(c)] = "up"

\* It is inductive with what it rests on: an answer is on its way only where one
\* was given, and a connection has both phones or none.
PromiseInv ==
    /\ client \in [Conn -> Phone \cup {NoPhone}]
    /\ server \in [Conn -> Phone \cup {NoPhone}]
    /\ answered \subseteq Conn
    /\ \A c \in Conn : client[c] = NoPhone => server[c] = NoPhone
    /\ \A c \in Conn : C(c) \in wire => c \in answered
    /\ \A p \in InCall : PromisedCall(p)

\* Every step of CallPromise keeps it.
LEMMA PromiseStep ==
  ASSUME PromiseInv, [Promise!Next]_Promise!promiseVars PROVE PromiseInv'
  <1> USE PromiseEnds
  <1>l. Lines = [e \in End |-> Lines[e]] /\ Lines' = [e \in End |-> Lines'[e]]
    BY DEF Lines
  <1>i. InCall \subseteq Phone /\ InCall' \subseteq Phone
    BY DEF InCall
  <1>1. ASSUME NEW c \in Conn, NEW p \in Phone, NEW q \in Phone, Promise!Call(p, q, c)
        PROVE  PromiseInv'
    <2>1. /\ client[c] = NoPhone /\ client' = [client EXCEPT ![c] = p]
          /\ server' = [server EXCEPT ![c] = q]
          /\ UNCHANGED <<Lines, wire, answered, InCall>>
      BY <1>1 DEF Promise!Call, Lines, InCall
    <2>2. ASSUME NEW r \in InCall' PROVE PromisedCall(r)'
      <3>1. r \in Phone /\ r # NoPhone
        BY <1>i, NullAssumption
      <3>2. PICK d \in answered : \/ client[d] = r /\ Lines[C(d)] = "up"
                                  \/ server[d] = r /\ Lines[S(d)] = "up"
        BY <2>1, <2>2 DEF PromiseInv, PromisedCall
      <3>3. d # c
        BY <2>1, <3>1, <3>2 DEF PromiseInv
      <3> QED BY <2>1, <3>2, <3>3 DEF PromiseInv, PromisedCall
    <2> QED BY <2>1, <2>2, NullAssumption DEF PromiseInv
  <1>2. ASSUME UNCHANGED <<client, server, Lines>>, answered \subseteq answered',
               answered' \subseteq Conn,
               \A c \in Conn : C(c) \in wire' => c \in answered',
               \A p \in InCall' \ InCall : PromisedCall(p)'
        PROVE  PromiseInv'
    <2>1. ASSUME NEW p \in InCall PROVE PromisedCall(p)'
      BY <1>2, <2>1 DEF PromiseInv, PromisedCall
    <2> QED BY <1>2, <2>1 DEF PromiseInv
  <1>3. ASSUME NEW c \in Conn, Promise!Ask(c) \/ Promise!Ring(c) \/ Promise!Answer(c)
        PROVE  PromiseInv'
    <2>1. /\ UNCHANGED <<client, server, Lines, InCall>>
          /\ answered' = answered \/ answered' = answered \cup {c}
          /\ wire' \subseteq wire \cup {S(c)}
      BY <1>3 DEF Promise!Ask, Promise!Ring, Promise!Answer, Lines, InCall
    <2> QED BY <1>2, <2>1, EndDistinct DEF PromiseInv
  <1>4. ASSUME NEW c \in Conn, Promise!Confirm(c) PROVE PromiseInv'
    <2>1. /\ UNCHANGED <<client, server, Lines, answered>>
          /\ c \in answered /\ Lines[S(c)] = "up"
          /\ wire' \subseteq wire \cup {C(c)} /\ InCall' = InCall \cup {server[c]}
      BY <1>4 DEF Promise!Confirm, Lines, InCall
    <2>2. \A p \in InCall' \ InCall : PromisedCall(p)'
      BY <2>1 DEF PromisedCall
    <2> QED BY <1>2, <2>1, <2>2, EndDistinct DEF PromiseInv
  <1>5. ASSUME NEW c \in Conn, Promise!Join(c) PROVE PromiseInv'
    <2>1. /\ UNCHANGED <<client, server, Lines, answered>>
          /\ C(c) \in wire /\ Lines[C(c)] = "up"
          /\ wire' \subseteq wire /\ InCall' = InCall \cup {client[c]}
      BY <1>5 DEF Promise!Join, Lines, InCall
    <2>2. \A p \in InCall' \ InCall : PromisedCall(p)'
      BY <2>1 DEF PromisedCall, PromiseInv
    <2> QED BY <1>2, <2>1, <2>2 DEF PromiseInv
  <1>6. ASSUME NEW e \in End,
               Promise!LineOpens(e) \/ Promise!LineMissed(e) \/ Promise!LineOver(e)
        PROVE  PromiseInv'
    <2>1. /\ UNCHANGED <<client, server, wire, answered>>
          /\ InCall' \subseteq InCall
          /\ \A d \in End : d # e => Lines'[d] = Lines[d]
          /\ Lines[e] = "up" => InCall' = InCall \ {Owner(e)}
      BY <1>6 DEF Promise!LineOpens, Promise!LineMissed, Promise!LineOver, Lines,
         InCall
    <2>2. ASSUME NEW p \in InCall' PROVE PromisedCall(p)'
      <3>1. PICK c \in answered : \/ client[c] = p /\ Lines[C(c)] = "up"
                                  \/ server[c] = p /\ Lines[S(c)] = "up"
        BY <2>1, <2>2 DEF PromiseInv, PromisedCall
      <3>2. c \in Conn
        BY DEF PromiseInv
      <3>3. PICK d \in {C(c), S(c)} : Owner(d) = p /\ Lines[d] = "up"
        BY <3>1, <3>2, EndFacts
      <3>4. d # e
        BY <2>1, <2>2, <3>3
      <3> QED BY <2>1, <3>1, <3>2, <3>3, <3>4, EndFacts DEF PromisedCall
    <2> QED BY <2>1, <2>2 DEF PromiseInv
  <1>7. ASSUME NEW e \in End, Promise!Lose(e) PROVE PromiseInv'
    <2>1. UNCHANGED <<client, server, Lines, answered, InCall>> /\ wire' \subseteq wire
      BY <1>7 DEF Promise!Lose, Lines, InCall
    <2> QED BY <1>2, <2>1 DEF PromiseInv
  <1>8. ASSUME NEW p \in Phone, Promise!Quiet(p) \/ Promise!Leave(p) PROVE PromiseInv'
    <2>1. UNCHANGED <<client, server, Lines, wire, answered>> /\ InCall' \subseteq InCall
      BY <1>8 DEF Promise!Quiet, Promise!Leave, Lines, InCall
    <2> QED BY <1>2, <2>1 DEF PromiseInv
  <1>9. CASE UNCHANGED Promise!promiseVars
    <2>1. UNCHANGED <<client, server, Lines, wire, answered, InCall>>
      BY <1>9 DEF Promise!promiseVars, Lines, InCall
    <2> QED BY <1>2, <2>1 DEF PromiseInv
  <1> QED
    BY <1>1, <1>3, <1>4, <1>5, <1>6, <1>7, <1>8, <1>9 DEF Promise!Next

\* What the abstract specification says is enough for what the users need: in
\* every behaviour of CallPromise a phone in a call has a line that is up, over
\* which the call was answered.
THEOREM PromiseKeepsCallsAnswered ==
  Promise!Spec => [](\A p \in InCall : PromisedCall(p))
  <1>1. Promise!Init => PromiseInv
    BY PromiseEnds, NullAssumption DEF Promise!Init, PromiseInv, InCall
  <1>2. PromiseInv => \A p \in InCall : PromisedCall(p)
    BY DEF PromiseInv
  <1> QED BY <1>1, <1>2, PromiseStep, PTL DEF Promise!Spec

-----------------------------------------------------------------------------
(* The safety part of the liveness properties: no call message is lost.      *)

\* A connection that was established and is broken down stays so: sessions are
\* not revived, closing is not taken back, a dead process stays dead, and the
\* phones of a connection do not change.
Forward ==
    /\ \A e \in End :
           /\ sess[e] \notin {"none", "created", "open"}
                => sess'[e] \notin {"none", "created", "open"}
           /\ closing[e] # "no" => closing'[e] # "no"
    /\ crashed \subseteq crashed'
    /\ \A c \in Conn : future[c] # "none" =>
           client'[c] = client[c] /\ server'[c] = server[c]

\* closeOnFlush and closeNow do not take a close back.
LEMMA ClosingStays ==
  ASSUME NEW cl \in [End -> {"no", "flush", "now"}], NEW E, NEW e \in End,
         cl[e] # "no"
  PROVE  CloseOnFlush(cl, E)[e] # "no" /\ CloseNow(cl, E)[e] # "no"
  BY DEF CloseOnFlush, CloseNow

\* Nor does closeSession of the client,
LEMMA ClientCloseStays ==
  ASSUME TypeOK, NEW p \in Phone, ClientCloseSession(p), NEW e \in End,
         closing[e] # "no"
  PROVE  closing'[e] # "no"
  BY ClosingStays DEF ClientCloseSession, TypeOK, MinaTypeOK

\* or endCall.
LEMMA EndCallStays ==
  ASSUME TypeOK, NEW p \in Phone, EndCall(p), NEW e \in End, closing[e] # "no"
  PROVE  closing'[e] # "no"
  <1>1. CASE state[p] = 4
    BY <1>1, ClientCloseStays DEF EndCall
  <1>2. CASE state[p] = 2
    <2>1. closing' = CloseNow(CloseOnFlush(closing, ServerCloses(p)), Unbinds(p))
      BY <1>2 DEF EndCall, ServerCloseAndUnbind
    <2>2. closing \in [End -> {"no", "flush", "now"}]
      BY DEF TypeOK, MinaTypeOK
    <2>3. /\ CloseOnFlush(closing, ServerCloses(p))
               \in [End -> {"no", "flush", "now"}]
          /\ CloseOnFlush(closing, ServerCloses(p))[e] # "no"
      BY <2>2, ClosingType, ClosingStays
    <2> QED BY <2>1, <2>3, ClosingStays
  <1>3. CASE state[p] \notin {2, 4}
    BY <1>3 DEF EndCall
  <1> QED BY <1>1, <1>2, <1>3

\* A session of e that goes from one status to the next is not revived.
LEMMA ForwardSession ==
  ASSUME TypeOK, NEW e \in End, NEW st, sess' = [sess EXCEPT ![e] = st],
         \/ sess[e] \in {"none", "created", "open"}
         \/ st \notin {"none", "created", "open"},
         \A d \in End : closing[d] # "no" => closing'[d] # "no",
         UNCHANGED <<crashed, client, server>>
  PROVE  Forward
  BY DEF Forward, TypeOK, MinaTypeOK

\* Every step goes forward.
LEMMA NextForward == TypeOK /\ FreshConn /\ [Next]_vars => Forward
  <1> SUFFICES ASSUME TypeOK, FreshConn, [Next]_vars PROVE Forward
    OBVIOUS
  <1> USE DEF minaVars, clientVars, serverVars, serviceVars
  <1>a. closing \in [End -> {"no", "flush", "now"}]
    BY DEF TypeOK, MinaTypeOK
  <1>b. ASSUME UNCHANGED <<sess, closing, client, server>>, crashed \subseteq crashed'
        PROVE  Forward
    BY <1>b DEF Forward
  <1>1. ASSUME NEW p \in Phone,
               \/ StartCall(p) \/ Answer(p) \/ MainResumes(p) \/ BindPool(p)
               \/ \E q \in Phone : OnFindOther(p, q) \/ OnStartTcp(p, q)
        PROVE  Forward
    <2>1. UNCHANGED <<sess, closing, client, server>> /\ crashed \subseteq crashed'
      BY <1>1 DEF StartCall, Answer, MainResumes, BindPool, RunBind,
         OnBindSucess, OnBindFailed, OnFindOther, OnStartTcp
    <2> QED BY <1>b, <2>1
  <1>2. ASSUME NEW p \in Phone, HangUp(p) \/ AnswerRefused(p) PROVE Forward
    <2>1. EndCall(p) /\ UNCHANGED <<sess, client, server, crashed>>
      BY <1>2 DEF HangUp, AnswerRefused
    <2> QED BY <2>1, EndCallStays DEF Forward
  <1>3. ASSUME NEW p \in Phone, RunConnect(p) PROVE Forward
    BY <1>3 DEF RunConnect, RunConnectClosed, Connect, Forward, TypeOK, MinaTypeOK
  <1>4. ASSUME NEW c \in Conn,
               AttachListeners(c) \/ ConnectFails(c) \/ ClientSessionCreated(c)
        PROVE  Forward
    BY <1>4, <1>b DEF AttachListeners, ConnectFails, ClientSessionCreated
  <1>5. ASSUME NEW c \in Conn, Established(c) PROVE Forward
    <2>1. sess[C(c)] = "none" /\ sess[S(c)] = "none"
      BY <1>5 DEF Established, TcpEstablished, FreshConn
    <2> QED BY <1>5, <2>1 DEF Established, TcpEstablished, Forward, TypeOK,
         MinaTypeOK
  <1>6. ASSUME NEW c \in Conn,
               \/ NeverAccepted(c) \/ ServerSessionOpened(c)
               \/ ClientSessionClosed(c) \/ Drop(S(c)) \/ Drop(C(c))
        PROVE  Forward
    <2>1. UNCHANGED <<closing, crashed, client, server>>
      BY <1>6 DEF NeverAccepted, ServerSessionOpened, ClientSessionClosed, Drop
    <2>2. \/ \E st \in {"open", "closed", "dropped"} :
                 sess' = [sess EXCEPT ![S(c)] = st] /\ (st = "open" => sess[S(c)] = "created")
          \/ \E st \in {"closed", "dropped"} : sess' = [sess EXCEPT ![C(c)] = st]
      BY <1>6 DEF NeverAccepted, ServerSessionOpened, ClientSessionClosed, Drop,
         DropSession
    <2> QED BY <2>1, <2>2, EndFacts, ForwardSession
  <1>7. ASSUME NEW e \in End, ReadOrWriteError(e) PROVE Forward
    BY <1>7, ForwardSession DEF ReadOrWriteError, ChannelError
  <1>8. ASSUME NEW c \in Conn,
               ClientSessionOpened(c) \/ ClientExceptionCaught(c)
        PROVE  Forward
    <2>1. \A d \in End : closing[d] # "no" => closing'[d] # "no"
      <3>1. client[c] \in Phone
        BY <1>8, EndFacts DEF ClientSessionOpened, ClientExceptionCaught, ProcFree
      <3> QED BY <1>8, <3>1, ClientCloseStays DEF ClientSessionOpened,
           ClientExceptionCaught
    <2> QED BY <1>8, <2>1, EndFacts, ForwardSession DEF ClientSessionOpened,
         ClientExceptionCaught
  <1>9. ASSUME NEW c \in Conn,
               \/ ClientMessageReceived(c) \/ ServerMessageReceived(c)
               \/ RequestSent(c) \/ ResponseSent(c)
        PROVE  Forward
    BY <1>9, <1>b DEF ClientMessageReceived, ServerMessageReceived, RequestSent,
       ResponseSent
  <1>10. ASSUME NEW c \in Conn, ServerExceptionHandled(c) PROVE Forward
    <2>1. \A d \in End : closing[d] # "no" => closing'[d] # "no"
      BY <1>10, <1>a, ClosingStays DEF ServerExceptionHandled,
         ServerExceptionCaught
    <2> QED BY <1>10, <2>1, EndFacts, ForwardSession DEF ServerExceptionHandled
  <1>11. ASSUME NEW c \in Conn, ServerClosed(c) PROVE Forward
    <2>1. \A d \in End : closing[d] # "no" => closing'[d] # "no"
      BY <1>11, <1>a, ClosingStays DEF ServerClosed, ServerSessionClosed
    <2> QED BY <1>11, <2>1, EndFacts, ForwardSession DEF ServerClosed
  <1>12. ASSUME NEW c \in Conn, RequestNotSent(c) \/ ResponseNotSent(c)
         PROVE  Forward
    <2>1. PICK e \in {C(c), S(c)} : ProcFree(e) /\ FailWrite(e) /\ EndCall(Owner(e))
      BY <1>12, EndFacts DEF RequestNotSent, ResponseNotSent
    <2>2. \A d \in End : closing[d] # "no" => closing'[d] # "no"
      BY <2>1, EndCallStays DEF ProcFree
    <2> QED BY <1>12, <2>1, <2>2, EndFacts, ForwardSession DEF RequestNotSent,
         ResponseNotSent, FailWrite
  <1>13. ASSUME NEW e \in End, ProcResumes(e) PROVE Forward
    BY <1>13, <1>b DEF ProcResumes
  <1>14. CASE UNCHANGED vars
    BY <1>14, <1>b DEF vars
  <1> QED
    BY <1>1, <1>2, <1>3, <1>4, <1>5, <1>6, <1>7, <1>8, <1>9, <1>10, <1>11, <1>12,
       <1>13, <1>14, EndFacts DEF Next, Users, Main, ConnectPool, Network,
       ClientProcessor, ServerProcessor

\* What breaks down stays broken down.
LEMMA StaysBroken ==
  ASSUME TypeOK, FreshConn, [Next]_vars, NEW c \in Conn,
         BrokenDown(c), sess[S(c)] # "none"
  PROVE  BrokenDown(c)'
  <1>1. Forward
    BY NextForward
  <1>2. sess[C(c)] # "none" /\ future[c] # "none"
    BY DEF FreshConn
  <1>3. UNCHANGED <<Owner(C(c)), Owner(S(c))>>
    BY <1>1, <1>2 DEF Forward, Owner, C, S
  <1>4. PICK e \in {C(c), S(c)} : \/ sess[e] \notin {"created", "open"}
                                 \/ closing[e] # "no"
                                 \/ Owner(e) \in crashed
    BY DEF BrokenDown
  <1>5. \/ sess'[e] \notin {"created", "open"}
        \/ closing'[e] # "no"
        \/ Owner(e)' \in crashed'
    BY <1>1, <1>2, <1>3, <1>4, EndFacts DEF Forward
  <1> QED BY <1>5 DEF BrokenDown, C, S

-----------------------------------------------------------------------------
\* What becomes of a call message in one step.
MessagesArrive ==
    \A c \in Conn :
        /\ c \in answered' \ answered => S(c) \in outbox'
        /\ \A e \in {C(c), S(c)} :
               e \in outbox \ outbox' => Peer(e) \in wire' \/ BrokenDown(c)'
        /\ S(c) \in wire \ wire' => ringing'[server[c]] \/ BrokenDown(c)'
        /\ C(c) \in wire \ wire' => comm'[client[c]] \/ BrokenDown(c)'
        /\ BrokenDown(c) /\ sess[S(c)] # "none" => BrokenDown(c)'

\* An end that is neither created nor open breaks its connection down.
LEMMA BrokenEnd ==
  ASSUME NEW c \in Conn, NEW e \in {C(c), S(c)},
         sess'[e] \notin {"created", "open"} \/ Owner(e)' \in crashed'
  PROVE  BrokenDown(c)'
  BY DEF BrokenDown, C, S

\* A flushed message is on the wire, unless the other end is gone.
LEMMA FlushArrives ==
  ASSUME NEW c \in Conn, NEW e \in {C(c), S(c)}, FlushWrite(e),
         UNCHANGED <<sess, crashed, client, server>>
  PROVE  /\ outbox \ outbox' \subseteq {e}
         /\ wire \subseteq wire'
         /\ Peer(e) \in wire' \/ BrokenDown(c)'
  <1>1. outbox \ outbox' \subseteq {e} /\ wire \subseteq wire'
    BY DEF FlushWrite
  <1>2. CASE PeerGone(e)
    <2>1. /\ Peer(e) \in {C(c), S(c)}
          /\ sess'[Peer(e)] \notin {"created", "open"}
                \/ Owner(Peer(e))' \in crashed'
      BY <1>2, EndFacts DEF PeerGone, Owner
    <2>2. BrokenDown(c)'
      BY <2>1, BrokenEnd
    <2> QED BY <1>1, <2>2
  <1>3. CASE ~PeerGone(e)
    BY <1>1, <1>3 DEF FlushWrite
  <1> QED BY <1>2, <1>3

\* Every step lets the messages arrive, or breaks their connection down.
LEMMA NextMessagesArrive == TypeOK /\ FreshConn /\ [Next]_vars => MessagesArrive
  <1> SUFFICES ASSUME TypeOK, FreshConn, [Next]_vars, NEW c \in Conn
               PROVE  /\ c \in answered' \ answered => S(c) \in outbox'
                      /\ \A e \in {C(c), S(c)} : e \in outbox \ outbox' =>
                             Peer(e) \in wire' \/ BrokenDown(c)'
                      /\ S(c) \in wire \ wire' =>
                             ringing'[server[c]] \/ BrokenDown(c)'
                      /\ C(c) \in wire \ wire' =>
                             comm'[client[c]] \/ BrokenDown(c)'
    BY StaysBroken DEF MessagesArrive
  <1> DEFINE Arrives ==
        /\ c \in answered' \ answered => S(c) \in outbox'
        /\ \A e \in {C(c), S(c)} :
               e \in outbox \ outbox' => Peer(e) \in wire' \/ BrokenDown(c)'
        /\ S(c) \in wire \ wire' => ringing'[server[c]] \/ BrokenDown(c)'
        /\ C(c) \in wire \ wire' => comm'[client[c]] \/ BrokenDown(c)'
  <1> SUFFICES Arrives
    OBVIOUS
  <1> USE DEF minaVars, clientVars, serverVars, serviceVars
  <1>a. ASSUME outbox \subseteq outbox', wire \subseteq wire',
               answered' \subseteq answered
        PROVE  Arrives
    BY <1>a
  <1>1. ASSUME NEW p \in Phone,
               \/ StartCall(p) \/ HangUp(p) \/ AnswerRefused(p) \/ Main(p)
               \/ BindPool(p) \/ RunConnect(p)
        PROVE  Arrives
    <2>1. UNCHANGED <<outbox, wire, answered>>
      BY <1>1 DEF StartCall, HangUp, AnswerRefused, Main, MainResumes,
         OnFindOther, OnStartTcp, BindPool, RunBind, OnBindSucess, OnBindFailed,
         RunConnect
    <2> QED BY <1>a, <2>1
  <1>2. ASSUME NEW p \in Phone, Answer(p) PROVE Arrives
    BY <1>2 DEF Answer
  <1>3. ASSUME NEW d \in Conn,
               \/ ConnectPool(d) \/ Network(d) \/ ClientSessionCreated(d)
               \/ ClientSessionOpened(d) \/ ClientExceptionCaught(d)
               \/ ClientSessionClosed(d) \/ ServerSessionOpened(d)
               \/ ServerExceptionHandled(d) \/ ServerClosed(d)
        PROVE  Arrives
    <2>1. outbox \subseteq outbox' /\ UNCHANGED <<wire, answered>>
      BY <1>3 DEF ConnectPool, AttachListeners, Network, Established,
         ConnectFails, NeverAccepted, ClientSessionCreated, ClientSessionOpened,
         ClientExceptionCaught, ClientSessionClosed, ServerSessionOpened,
         ServerExceptionHandled, ServerClosed
    <2> QED BY <1>a, <2>1
  <1>4. ASSUME NEW e \in End, ProcResumes(e) \/ ReadOrWriteError(e) PROVE Arrives
    <2>1. UNCHANGED <<outbox, wire, answered>>
      BY <1>4 DEF ProcResumes, ReadOrWriteError
    <2> QED BY <1>a, <2>1
  <1>5. ASSUME NEW d \in Conn, ClientMessageReceived(d) PROVE Arrives
    <2>1. /\ wire' = wire \ {C(d)} /\ UNCHANGED <<outbox, answered>>
          /\ client[d] \in Phone /\ comm'[client[d]]
      BY <1>5, EndFacts DEF ClientMessageReceived, ReadMessage, ProcFree, TypeOK,
         ServiceTypeOK
    <2> QED BY <2>1, EndDistinct
  <1>6. ASSUME NEW d \in Conn, ServerMessageReceived(d) PROVE Arrives
    <2>1. /\ wire' = wire \ {S(d)} /\ UNCHANGED <<outbox, answered>>
          /\ server[d] \in Phone /\ ringing'[server[d]]
      BY <1>6, EndFacts DEF ServerMessageReceived, ReadMessage, ProcFree, TypeOK,
         ServiceTypeOK
    <2> QED BY <2>1, EndDistinct
  <1>7. ASSUME NEW d \in Conn, RequestSent(d) \/ ResponseSent(d) PROVE Arrives
    <2>1. /\ UNCHANGED <<sess, crashed, client, server, answered>>
          /\ \E e \in {C(d), S(d)} : FlushWrite(e)
      BY <1>7 DEF RequestSent, ResponseSent
    <2>2. PICK e \in {C(d), S(d)} : FlushWrite(e)
      BY <2>1
    <2>3. /\ outbox \ outbox' \subseteq {e} /\ wire \subseteq wire'
          /\ Peer(e) \in wire' \/ BrokenDown(d)'
      BY <2>1, <2>2, FlushArrives
    <2>4. e \in {C(c), S(c)} => d = c
      BY <2>2, EndDistinct
    <2> QED BY <2>1, <2>3, <2>4
  <1>8. ASSUME NEW d \in Conn, RequestNotSent(d) \/ ResponseNotSent(d)
        PROVE  Arrives
    <2>1. UNCHANGED <<wire, answered>> /\ \E e \in {C(d), S(d)} : FailWrite(e)
      BY <1>8 DEF RequestNotSent, ResponseNotSent
    <2>2. PICK e \in {C(d), S(d)} : FailWrite(e)
      BY <2>1
    <2>3. outbox' = outbox \ {e} /\ sess'[e] = "failing"
      BY <2>2, EndFacts DEF FailWrite, TypeOK, MinaTypeOK
    <2>4. e \in {C(c), S(c)} => BrokenDown(c)'
      BY <2>3, BrokenEnd
    <2> QED BY <2>1, <2>3, <2>4
  <1>9. ASSUME NEW e \in End, Drop(e) PROVE Arrives
    <2>1. /\ wire' = wire \ {e} /\ sess'[e] = "dropped"
          /\ UNCHANGED <<outbox, answered>>
      BY <1>9 DEF Drop, DropSession, TypeOK, MinaTypeOK
    <2>2. e \in {C(c), S(c)} => BrokenDown(c)'
      BY <2>1, BrokenEnd
    <2> QED BY <2>1, <2>2
  <1>10. CASE UNCHANGED vars
    BY <1>10, <1>a DEF vars
  <1> QED
    BY <1>1, <1>2, <1>3, <1>4, <1>5, <1>6, <1>7, <1>8, <1>9, <1>10, EndFacts
       DEF Next, Users, ClientProcessor, ServerProcessor

\* No call message is lost while its connection is well: an answer that is given
\* is in the queue of its session, what leaves the queue is on the wire, and what
\* leaves the wire rings or puts the caller into the call; and a connection that
\* is broken down stays so.  This is the safety part of RequestRings and
\* AnswerGetsThrough, for any number of phones, connections and commands.
THEOREM CallMessagesGetThrough == Spec => [][MessagesArrive]_vars
  <1>1. IInv /\ [Next]_vars => [MessagesArrive]_vars
    BY NextMessagesArrive DEF IInv
  <1> QED BY <1>1, Inductive, PTL DEF Spec

-----------------------------------------------------------------------------
(* The safety part of the liveness properties: how much the thread that serves *)
(* an end of a connection still has to do.                                   *)

\* The steps a session still has before it, with room for one write in the
\* sessionOpened of a client; a queued write weighs what its failure undoes.
Life(status) ==
    CASE status = "none" -> 10
      [] status = "created" -> 9
      [] status = "open" -> 4
      [] status = "failing" -> 3
      [] status = "removing" -> 2
      [] status = "dropped" -> 1
      [] OTHER -> 0
Unsent(e) == IF e \in outbox THEN 4 ELSE 0
Unread(e) == IF e \in wire THEN 1 ELSE 0
Waiting(e) == IF e \in procWaits THEN 1 ELSE 0
Connecting(e) ==
    CASE e[2] = "client" /\ future[e[1]] = "none" -> 2
      [] e[2] = "client" /\ future[e[1]] = "pending" -> 1
      [] OTHER -> 0
EndWork(e) ==
    Life(sess[e]) + Unsent(e) + Unread(e) + Waiting(e) + Connecting(e)

\* What runs on the processor thread of e.
ProcessorOf(e) ==
    IF e[2] = "client" THEN ClientProcessor(e[1]) ELSE ServerProcessor(e[1])

\* The work of e only grows when a message is written on it, before it is asked
\* to close, or reaches it from a peer that is there; its own thread lowers it.
RunsDown(e) ==
    \/ EndWork(e)' <= EndWork(e)
    \/ e \in outbox' \ outbox /\ closing[e] = "no"
    \/ e \in wire' \ wire /\ Peer(e) \in outbox /\ ~PeerGone(Peer(e))

\* What a step does to the work of the ends.
SessionsEnd ==
    \A e \in End : RunsDown(e) /\ (ProcessorOf(e) => EndWork(e)' < EndWork(e))

\* Sums of which no part grows, or one falls.
LEMMA EndSums ==
  ASSUME NEW l1 \in Nat, NEW o1 \in Nat, NEW r1 \in Nat, NEW w1 \in Nat, NEW f1 \in Nat,
         NEW l2 \in Nat, NEW o2 \in Nat, NEW r2 \in Nat, NEW w2 \in Nat, NEW f2 \in Nat,
         r2 <= r1, f2 <= f1
  PROVE  /\ l2 <= l1 /\ o2 <= o1 /\ w2 <= w1
              => l2 + o2 + r2 + w2 + f2 <= l1 + o1 + r1 + w1 + f1
         /\ l2 + o2 + w2 < l1 + o1 + w1
              => l2 + o2 + r2 + w2 + f2 < l1 + o1 + r1 + w1 + f1
         /\ l2 <= l1 /\ o2 <= o1 /\ w2 <= w1 /\ (r2 < r1 \/ f2 < f1)
              => l2 + o2 + r2 + w2 + f2 < l1 + o1 + r1 + w1 + f1
  OBVIOUS

LEMMA ThreeSums ==
  ASSUME NEW l1 \in Nat, NEW o1 \in Nat, NEW w1 \in Nat,
         NEW l2 \in Nat, NEW o2 \in Nat, NEW w2 \in Nat,
         l2 <= l1, o2 <= o1, w2 <= w1, l2 < l1 \/ o2 < o1 \/ w2 < w1
  PROVE  l2 + o2 + w2 < l1 + o1 + w1
  OBVIOUS

LEMMA FailSums ==
  ASSUME NEW l1 \in {2, 4}, NEW w1 \in {0, 1}, NEW l2, l2 = 3, NEW w2 \in {0, 1},
         NEW o1, o1 = 4, NEW o2, o2 = 0
  PROVE  l2 + o2 + w2 < l1 + o1 + w1
  OBVIOUS

LEMMA OpenSums ==
  ASSUME NEW l1, l1 = 9, NEW l2, l2 = 4, NEW o1 \in {0, 4}, NEW o2 \in {0, 4},
         NEW w1 \in {0, 1}, NEW w2, w2 = w1
  PROVE  l2 + o2 + w2 < l1 + o1 + w1
  OBVIOUS

LEMMA LessOrEqual ==
  ASSUME NEW m \in Nat, NEW n \in Nat PROVE m < n => m <= n
  OBVIOUS

\* The parts of the work are natural numbers, before and after a step.
LEMMA EndParts ==
  ASSUME NEW e
  PROVE  /\ Life(sess[e]) \in Nat /\ Unsent(e) \in Nat /\ Unread(e) \in Nat
         /\ Waiting(e) \in Nat /\ Connecting(e) \in Nat
         /\ Life(sess[e])' \in Nat /\ Unsent(e)' \in Nat /\ Unread(e)' \in Nat
         /\ Waiting(e)' \in Nat /\ Connecting(e)' \in Nat
  BY DEF Life, Unsent, Unread, Waiting, Connecting

\* A step that leaves the session of e as it is and adds nothing to its queues.
LEMMA WorkKept ==
  ASSUME NEW e \in End, sess'[e] = sess[e], Connecting(e)' <= Connecting(e),
         e \in outbox' => e \in outbox, e \in wire' => e \in wire,
         e \in procWaits' => e \in procWaits
  PROVE  EndWork(e)' <= EndWork(e)
  <1>1. /\ Life(sess[e])' <= Life(sess[e])
        /\ Unsent(e)' <= Unsent(e)
        /\ Unread(e)' <= Unread(e)
        /\ Waiting(e)' <= Waiting(e)
    BY DEF Life, Unsent, Unread, Waiting
  <1> QED BY <1>1, EndParts, EndSums DEF EndWork

\* A step that brings e nearer to its end.
LEMMA WorkFalls ==
  ASSUME NEW e \in End, Connecting(e)' <= Connecting(e), e \in wire' => e \in wire,
         Life(sess[e])' + Unsent(e)' + Waiting(e)'
           < Life(sess[e]) + Unsent(e) + Waiting(e)
  PROVE  EndWork(e)' < EndWork(e)
  <1>1. Unread(e)' <= Unread(e)
    BY DEF Unread
  <1> QED BY <1>1, EndParts, EndSums DEF EndWork

\* A connect future only goes forward.
LEMMA ConnectingFalls ==
  ASSUME TypeOK, NEW e \in End,
         \A c \in Conn : \/ future'[c] = future[c] \/ future[c] = "none"
                         \/ future'[c] \in {"connected", "failed"},
         TypeOK'
  PROVE  Connecting(e)' <= Connecting(e)
  BY DEF Connecting, TypeOK, MinaTypeOK, FutureStatus, End

\* closeSession, alone or within endCall, only cancels pending futures.
LEMMA FutureForward ==
  ASSUME TypeOK, NEW p \in Phone, EndCall(p) \/ ClientCloseSession(p)
  PROVE  \A c \in Conn : \/ future'[c] = future[c]
                         \/ future'[c] \in {"connected", "failed"}
  BY DEF EndCall, ClientCloseSession, TypeOK, MinaTypeOK

\* The end d goes from one status to a later one, and nothing else grows.
LEMMA SessionGoesOn ==
  ASSUME TypeOK, TypeOK', NEW d \in End, NEW st \in SessionStatus,
         sess' = [sess EXCEPT ![d] = st], Life(st) < Life(sess[d]),
         \A c \in Conn : \/ future'[c] = future[c] \/ future[c] = "none"
                         \/ future'[c] \in {"connected", "failed"},
         outbox' \subseteq outbox, wire' \subseteq wire, procWaits' = procWaits
  PROVE  /\ EndWork(d)' < EndWork(d)
         /\ \A e \in End : e # d => RunsDown(e)
  <1>1. ASSUME NEW e \in End PROVE Connecting(e)' <= Connecting(e)
    BY ConnectingFalls
  <1>2. ASSUME NEW e \in End, e # d PROVE RunsDown(e)
    <2>1. sess'[e] = sess[e]
      BY <1>2 DEF TypeOK, MinaTypeOK
    <2> QED BY <1>1, <2>1, WorkKept DEF RunsDown
  <1>3. EndWork(d)' < EndWork(d)
    <2>1. sess'[d] = st
      BY DEF TypeOK, MinaTypeOK
    <2>2. Life(sess[d])' < Life(sess[d])
      BY <2>1
    <2>3. Unsent(d)' <= Unsent(d) /\ Waiting(d)' <= Waiting(d)
      BY DEF Unsent, Waiting
    <2>4. Life(sess[d])' + Unsent(d)' + Waiting(d)'
            < Life(sess[d]) + Unsent(d) + Waiting(d)
      BY <2>2, <2>3, EndParts, ThreeSums
    <2> QED BY <1>1, <2>4, WorkFalls
  <1> QED BY <1>2, <1>3

\* A message of d is read.
LEMMA ReadRunsDown ==
  ASSUME TypeOK, TypeOK', NEW d \in End, ReadMessage(d),
         UNCHANGED <<sess, future, outbox, procWaits>>
  PROVE  /\ EndWork(d)' < EndWork(d)
         /\ \A e \in End : e # d => RunsDown(e)
  <1>1. \A e \in End : Connecting(e)' <= Connecting(e)
    BY ConnectingFalls
  <1>2. ASSUME NEW e \in End, e # d PROVE RunsDown(e)
    BY <1>1, <1>2, WorkKept DEF RunsDown, ReadMessage
  <1>3. EndWork(d)' < EndWork(d)
    <2>1. Unread(d)' < Unread(d)
      BY DEF Unread, ReadMessage
    <2>2. /\ Life(sess[d])' <= Life(sess[d])
          /\ Unsent(d)' <= Unsent(d)
          /\ Waiting(d)' <= Waiting(d)
      BY DEF Life, Unsent, Waiting
    <2> QED BY <1>1, <2>1, <2>2, EndParts, EndSums DEF EndWork
  <1> QED BY <1>2, <1>3

\* A message of d is written, and reaches the other end if that is there.
LEMMA FlushRunsDown ==
  ASSUME TypeOK, TypeOK', NEW d \in End, FlushWrite(d),
         UNCHANGED <<sess, future, procWaits>>
  PROVE  /\ EndWork(d)' < EndWork(d)
         /\ \A e \in End : e # d => RunsDown(e)
  <1>1. \A e \in End : Connecting(e)' <= Connecting(e)
    BY ConnectingFalls
  <1>p. Peer(d) \in End /\ Peer(d) # d /\ Peer(Peer(d)) = d
    BY EndDistinct, EndFacts
  <1>2. ASSUME NEW e \in End, e # d PROVE RunsDown(e)
    <2>1. CASE e \in wire' \ wire
      BY <1>p, <2>1 DEF FlushWrite, RunsDown
    <2>2. CASE ~(e \in wire' \ wire)
      BY <1>1, <1>2, <2>2, WorkKept DEF FlushWrite, RunsDown
    <2> QED BY <2>1, <2>2
  <1>3. EndWork(d)' < EndWork(d)
    <2>1. d \in wire' => d \in wire
      BY <1>p DEF FlushWrite
    <2>2. /\ Life(sess[d])' <= Life(sess[d])
          /\ Unsent(d)' < Unsent(d)
          /\ Waiting(d)' <= Waiting(d)
      BY DEF Life, Unsent, Waiting, FlushWrite
    <2>3. Life(sess[d])' + Unsent(d)' + Waiting(d)'
            < Life(sess[d]) + Unsent(d) + Waiting(d)
      BY <2>2, EndParts, ThreeSums
    <2> QED BY <1>1, <2>1, <2>3, WorkFalls
  <1> QED BY <1>2, <1>3

\* A write of d fails, and endCall may then wait on the thread of d.
LEMMA FailRunsDown ==
  ASSUME TypeOK, TypeOK', NEW d \in End, FailWrite(d), NEW p \in Phone, EndCall(p),
         UNCHANGED wire, procWaits \subseteq procWaits',
         procWaits' \subseteq procWaits \cup {d}
  PROVE  /\ EndWork(d)' < EndWork(d)
         /\ \A e \in End : e # d => RunsDown(e)
  <1>1. \A e \in End : Connecting(e)' <= Connecting(e)
    BY ConnectingFalls, FutureForward
  <1>2. ASSUME NEW e \in End, e # d PROVE RunsDown(e)
    <2>1. sess'[e] = sess[e] /\ (e \in outbox' => e \in outbox)
      BY <1>2 DEF FailWrite, TypeOK, MinaTypeOK
    <2> QED BY <1>1, <1>2, <2>1, WorkKept DEF RunsDown
  <1>3. EndWork(d)' < EndWork(d)
    <2>1. sess[d] \in {"open", "removing"} /\ sess'[d] = "failing"
      BY DEF FailWrite, RemovalDue, TypeOK, MinaTypeOK
    <2>2. Life(sess[d]) \in {2, 4} /\ Life(sess[d])' = 3
      BY <2>1 DEF Life
    <2>3. Unsent(d) = 4 /\ Unsent(d)' = 0
      BY DEF FailWrite, Unsent
    <2>4. Waiting(d) \in {0, 1} /\ Waiting(d)' \in {0, 1}
      BY DEF Waiting
    <2>5. Life(sess[d])' + Unsent(d)' + Waiting(d)'
            < Life(sess[d]) + Unsent(d) + Waiting(d)
      BY <2>2, <2>3, <2>4, FailSums
    <2> QED BY <1>1, <2>5, WorkFalls
  <1> QED BY <1>2, <1>3

\* sessionOpened of a client may write REQUEST_CALL, on this session or on another
\* one of the phone.
LEMMA OpenedRunsDown ==
  ASSUME IInv, IInv', NEW c \in Conn, ClientSessionOpened(c)
  PROVE  /\ EndWork(C(c))' < EndWork(C(c))
         /\ \A e \in End : e # C(c) => RunsDown(e)
  <1>a. /\ TypeOK /\ TypeOK' /\ C(c) \in End /\ client[c] \in Phone
        /\ sess[C(c)] = "created" /\ sess' = [sess EXCEPT ![C(c)] = "open"]
        /\ UNCHANGED <<wire, procWaits>>
    BY EndFacts DEF IInv, ClientSessionOpened, serviceVars, ProcFree
  <1>1. \A e \in End : Connecting(e)' <= Connecting(e)
    <2>1. \A d \in Conn : \/ future'[d] = future[d]
                          \/ future'[d] \in {"connected", "failed"}
      BY <1>a, FutureForward DEF ClientSessionOpened
    <2> QED BY <1>a, <2>1, ConnectingFalls
  <1>2. ASSUME NEW e \in End, e # C(c) PROVE RunsDown(e)
    <2>1. sess'[e] = sess[e]
      BY <1>a, <1>2 DEF TypeOK, MinaTypeOK
    <2>2. CASE e \in outbox' \ outbox
      <3>1. WriteQueued(e)
        BY <2>2 DEF ClientSessionOpened, ClientSendQueued
      <3> QED BY <2>2, <3>1 DEF WriteQueued, RunsDown
    <2>3. CASE ~(e \in outbox' \ outbox)
      BY <1>a, <1>1, <2>1, <2>3, WorkKept DEF RunsDown
    <2> QED BY <2>2, <2>3
  <1>3. EndWork(C(c))' < EndWork(C(c))
    <2>1. sess'[C(c)] = "open"
      BY <1>a DEF TypeOK, MinaTypeOK
    <2>2. Life(sess[C(c)]) = 9 /\ Life(sess[C(c)])' = 4
      BY <1>a, <2>1 DEF Life
    <2>3. Unsent(C(c)) \in {0, 4} /\ Unsent(C(c))' \in {0, 4}
      BY DEF Unsent
    <2>4. Waiting(C(c))' = Waiting(C(c)) /\ Waiting(C(c)) \in {0, 1}
      BY <1>a DEF Waiting
    <2>5. Life(sess[C(c)])' + Unsent(C(c))' + Waiting(C(c))'
            < Life(sess[C(c)]) + Unsent(C(c)) + Waiting(C(c))
      BY <2>2, <2>3, <2>4, OpenSums
    <2> QED BY <1>a, <1>1, <2>5, WorkFalls
  <1> QED BY <1>2, <1>3

\* The processor thread of the connecting end lowers its work.
LEMMA ClientRunsDown ==
  ASSUME IInv, IInv', NEW c \in Conn, ClientProcessor(c)
  PROVE  /\ EndWork(C(c))' < EndWork(C(c))
         /\ \A e \in End : e # C(c) => RunsDown(e)
  <1> DEFINE Goal == /\ EndWork(C(c))' < EndWork(C(c))
                     /\ \A e \in End : e # C(c) => RunsDown(e)
  <1> SUFFICES Goal
    OBVIOUS
  <1> USE DEF clientVars, serverVars, serviceVars
  <1>a. TypeOK /\ TypeOK' /\ C(c) \in End
    BY EndFacts DEF IInv
  <1>1. CASE ClientSessionCreated(c)
    <2>1. /\ UNCHANGED <<sess, outbox, wire, procWaits>>
          /\ future[c] = "pending" /\ future' = [future EXCEPT ![c] = "connected"]
      BY <1>1 DEF ClientSessionCreated
    <2>2. \A d \in Conn : \/ future'[d] = future[d]
                          \/ future'[d] \in {"connected", "failed"}
      BY <1>a, <2>1 DEF TypeOK, MinaTypeOK
    <2>3. \A e \in End : Connecting(e)' <= Connecting(e)
      BY <1>a, <2>2, ConnectingFalls
    <2>4. \A e \in End : RunsDown(e)
      BY <2>1, <2>3, WorkKept DEF RunsDown
    <2>5. Connecting(C(c))' < Connecting(C(c))
      BY <1>a, <2>1 DEF Connecting, C, TypeOK, MinaTypeOK
    <2>6. /\ Life(sess[C(c)])' <= Life(sess[C(c)])
          /\ Unsent(C(c))' <= Unsent(C(c))
          /\ Unread(C(c))' <= Unread(C(c))
          /\ Waiting(C(c))' <= Waiting(C(c))
      BY <2>1 DEF Life, Unsent, Unread, Waiting
    <2>7. EndWork(C(c))' < EndWork(C(c))
      BY <2>5, <2>6, EndParts, EndSums DEF EndWork
    <2> QED BY <2>4, <2>7
  <1>2. CASE ClientSessionOpened(c)
    BY <1>2, OpenedRunsDown
  <1>3. CASE ClientMessageReceived(c)
    BY <1>a, <1>3, ReadRunsDown DEF ClientMessageReceived
  <1>4. CASE ClientExceptionCaught(c)
    <2>1. client[c] \in Phone /\ ClientCloseSession(client[c])
      BY <1>4, EndFacts DEF ClientExceptionCaught, ProcFree
    <2>2. \A d \in Conn : \/ future'[d] = future[d]
                          \/ future'[d] \in {"connected", "failed"}
      BY <1>a, <2>1, FutureForward
    <2>3. /\ sess[C(c)] = "failing" /\ sess' = [sess EXCEPT ![C(c)] = "removing"]
          /\ UNCHANGED <<outbox, wire, procWaits>>
      BY <1>4 DEF ClientExceptionCaught
    <2>4. "removing" \in SessionStatus /\ Life("removing") < Life(sess[C(c)])
      BY <2>3 DEF SessionStatus, Life
    <2> QED BY <1>a, <2>2, <2>3, <2>4, SessionGoesOn
  <1>5. CASE RequestSent(c)
    BY <1>a, <1>5, FlushRunsDown DEF RequestSent
  <1>6. CASE RequestNotSent(c)
    <2>1. /\ FailWrite(C(c)) /\ client[c] \in Phone /\ EndCall(client[c])
          /\ UNCHANGED wire /\ procWaits \subseteq procWaits'
          /\ procWaits' \subseteq procWaits \cup {C(c)}
      BY <1>6, EndFacts DEF RequestNotSent, ProcFree
    <2> QED BY <1>a, <2>1, FailRunsDown
  <1>7. CASE Drop(C(c))
    <2>1. /\ sess[C(c)] \in {"open", "removing"}
          /\ sess' = [sess EXCEPT ![C(c)] = "dropped"]
          /\ wire' \subseteq wire /\ UNCHANGED <<outbox, procWaits, future>>
      BY <1>7 DEF Drop, DropSession, RemovalDue
    <2>2. "dropped" \in SessionStatus /\ Life("dropped") < Life(sess[C(c)])
      BY <2>1 DEF SessionStatus, Life
    <2> QED BY <1>a, <2>1, <2>2, SessionGoesOn
  <1>8. CASE ClientSessionClosed(c)
    <2>1. /\ sess[C(c)] = "dropped" /\ sess' = [sess EXCEPT ![C(c)] = "closed"]
          /\ UNCHANGED <<outbox, wire, procWaits, future>>
      BY <1>8 DEF ClientSessionClosed
    <2>2. "closed" \in SessionStatus /\ Life("closed") < Life(sess[C(c)])
      BY <2>1 DEF SessionStatus, Life
    <2> QED BY <1>a, <2>1, <2>2, SessionGoesOn
  <1>9. CASE ProcResumes(C(c))
    <2>1. /\ C(c) \in procWaits /\ procWaits' = procWaits \ {C(c)}
          /\ UNCHANGED <<sess, future, outbox, wire>>
      BY <1>9 DEF ProcResumes, minaVars
    <2>3. \A e \in End : Connecting(e)' <= Connecting(e)
      BY <1>a, <2>1, ConnectingFalls
    <2>4. \A e \in End : RunsDown(e)
      BY <2>1, <2>3, WorkKept DEF RunsDown
    <2>5. /\ Life(sess[C(c)])' <= Life(sess[C(c)])
          /\ Unsent(C(c))' <= Unsent(C(c))
          /\ Waiting(C(c))' < Waiting(C(c))
      BY <2>1 DEF Life, Unsent, Waiting
    <2>6. Life(sess[C(c)])' + Unsent(C(c))' + Waiting(C(c))'
            < Life(sess[C(c)]) + Unsent(C(c)) + Waiting(C(c))
      BY <2>5, EndParts, ThreeSums
    <2>7. EndWork(C(c))' < EndWork(C(c))
      BY <1>a, <2>1, <2>3, <2>6, WorkFalls
    <2> QED BY <2>4, <2>7
  <1> QED BY <1>1, <1>2, <1>3, <1>4, <1>5, <1>6, <1>7, <1>8, <1>9
          DEF ClientProcessor

\* The processor thread of the accepting end lowers its work.
LEMMA ServerRunsDown ==
  ASSUME IInv, IInv', NEW c \in Conn, ServerProcessor(c)
  PROVE  /\ EndWork(S(c))' < EndWork(S(c))
         /\ \A e \in End : e # S(c) => RunsDown(e)
  <1> DEFINE Goal == /\ EndWork(S(c))' < EndWork(S(c))
                     /\ \A e \in End : e # S(c) => RunsDown(e)
  <1> SUFFICES Goal
    OBVIOUS
  <1> USE DEF clientVars, serverVars, serviceVars
  <1>a. TypeOK /\ TypeOK' /\ S(c) \in End
    BY EndFacts DEF IInv
  <1>b. ASSUME NEW st \in SessionStatus, sess' = [sess EXCEPT ![S(c)] = st],
               Life(st) < Life(sess[S(c)]),
               UNCHANGED <<future, outbox, procWaits>>, wire' \subseteq wire
        PROVE  Goal
    BY <1>a, <1>b, SessionGoesOn
  <1>1. CASE ServerSessionOpened(c)
    <2>1. /\ sess[S(c)] = "created" /\ sess' = [sess EXCEPT ![S(c)] = "open"]
          /\ UNCHANGED <<outbox, wire, procWaits, future>>
      BY <1>1 DEF ServerSessionOpened
    <2>2. "open" \in SessionStatus /\ Life("open") < Life(sess[S(c)])
      BY <2>1 DEF SessionStatus, Life
    <2> QED BY <1>b, <2>1, <2>2
  <1>2. CASE ServerMessageReceived(c)
    BY <1>a, <1>2, ReadRunsDown DEF ServerMessageReceived
  <1>3. CASE ServerExceptionHandled(c)
    <2>1. /\ sess[S(c)] = "failing" /\ sess' = [sess EXCEPT ![S(c)] = "removing"]
          /\ UNCHANGED <<outbox, wire, procWaits, future>>
      BY <1>3 DEF ServerExceptionHandled
    <2>2. "removing" \in SessionStatus /\ Life("removing") < Life(sess[S(c)])
      BY <2>1 DEF SessionStatus, Life
    <2> QED BY <1>b, <2>1, <2>2
  <1>4. CASE ResponseSent(c)
    BY <1>a, <1>4, FlushRunsDown DEF ResponseSent
  <1>5. CASE ResponseNotSent(c)
    <2>1. /\ FailWrite(S(c)) /\ server[c] \in Phone /\ EndCall(server[c])
          /\ UNCHANGED wire /\ procWaits \subseteq procWaits'
          /\ procWaits' \subseteq procWaits \cup {S(c)}
      BY <1>5, EndFacts DEF ResponseNotSent, ProcFree
    <2> QED BY <1>a, <2>1, FailRunsDown
  <1>6. CASE Drop(S(c))
    <2>1. /\ sess[S(c)] \in {"open", "removing"}
          /\ sess' = [sess EXCEPT ![S(c)] = "dropped"]
          /\ wire' \subseteq wire /\ UNCHANGED <<outbox, procWaits, future>>
      BY <1>6 DEF Drop, DropSession, RemovalDue
    <2>2. "dropped" \in SessionStatus /\ Life("dropped") < Life(sess[S(c)])
      BY <2>1 DEF SessionStatus, Life
    <2> QED BY <1>b, <2>1, <2>2
  <1>7. CASE ServerClosed(c)
    <2>1. /\ sess[S(c)] = "dropped" /\ sess' = [sess EXCEPT ![S(c)] = "closed"]
          /\ UNCHANGED <<outbox, wire, procWaits, future>>
      BY <1>7 DEF ServerClosed
    <2>2. "closed" \in SessionStatus /\ Life("closed") < Life(sess[S(c)])
      BY <2>1 DEF SessionStatus, Life
    <2> QED BY <1>b, <2>1, <2>2
  <1> QED BY <1>1, <1>2, <1>3, <1>4, <1>5, <1>6, <1>7 DEF ServerProcessor

\* So is their sum.
LEMMA EndWorkType ==
  ASSUME NEW e
  PROVE  /\ EndWork(e) \in Nat /\ EndWork(e)' \in Nat
         /\ EndWork(e)' < EndWork(e) => EndWork(e)' <= EndWork(e)
  <1>1. EndWork(e) \in Nat /\ EndWork(e)' \in Nat
    BY EndParts DEF EndWork
  <1> QED BY <1>1, LessOrEqual

\* The other threads, the network and the users add work only by writing.
LEMMA OthersRunDown ==
  ASSUME IInv, IInv', [Next]_vars, NEW e \in End,
         \A c \in Conn : ~ClientProcessor(c) /\ ~ServerProcessor(c)
  PROVE  RunsDown(e)
  <1> USE DEF minaVars, clientVars, serverVars, serviceVars
  <1>a. TypeOK /\ TypeOK' /\ FreshConn
    BY DEF IInv
  <1>b. ASSUME UNCHANGED <<sess, outbox, wire, procWaits>>,
               \A d \in Conn : \/ future'[d] = future[d] \/ future[d] = "none"
                               \/ future'[d] \in {"connected", "failed"}
        PROVE  RunsDown(e)
    <2>1. Connecting(e)' <= Connecting(e)
      BY <1>a, <1>b, ConnectingFalls
    <2>2. EndWork(e)' <= EndWork(e)
      BY <1>b, <2>1, WorkKept
    <2> QED BY <2>2 DEF RunsDown
  <1>c. ASSUME UNCHANGED <<minaVars, procWaits>> PROVE RunsDown(e)
    BY <1>b, <1>c
  <1>1. ASSUME NEW p \in Phone, StartCall(p) \/ Main(p) \/ BindPool(p)
        PROVE  RunsDown(e)
    <2>1. UNCHANGED <<sess, outbox, wire, procWaits, future>>
      BY <1>1 DEF StartCall, Main, MainResumes, OnFindOther, OnStartTcp,
         BindPool, RunBind, OnBindSucess, OnBindFailed
    <2> QED BY <1>b, <2>1
  <1>2. ASSUME NEW p \in Phone, HangUp(p) \/ AnswerRefused(p) PROVE RunsDown(e)
    <2>1. EndCall(p) /\ UNCHANGED <<sess, outbox, wire, procWaits>>
      BY <1>2 DEF HangUp, AnswerRefused
    <2> QED BY <1>a, <1>b, <2>1, FutureForward
  <1>3. ASSUME NEW p \in Phone, Answer(p) PROVE RunsDown(e)
    <2>1. CASE e \in outbox' \ outbox
      <3>1. WriteQueued(e)
        BY <1>3, <2>1 DEF Answer, ServerSendQueued
      <3> QED BY <2>1, <3>1 DEF WriteQueued, RunsDown
    <2>2. CASE ~(e \in outbox' \ outbox)
      <3>1. UNCHANGED <<sess, wire, procWaits, future>>
        BY <1>3 DEF Answer
      <3>2. Connecting(e)' <= Connecting(e)
        BY <1>a, <3>1, ConnectingFalls
      <3> QED BY <2>2, <3>1, <3>2, WorkKept DEF RunsDown
    <2> QED BY <2>1, <2>2
  <1>4. ASSUME NEW p \in Phone, RunConnect(p) PROVE RunsDown(e)
    <2>1. UNCHANGED <<sess, outbox, wire, procWaits>>
      BY <1>4 DEF RunConnect
    <2>2. \A d \in Conn : future'[d] = future[d] \/ future[d] = "none"
      BY <1>a, <1>4 DEF RunConnect, RunConnectClosed, Connect, TypeOK, MinaTypeOK
    <2> QED BY <1>b, <2>1, <2>2
  <1>5. ASSUME NEW c \in Conn, AttachListeners(c) PROVE RunsDown(e)
    BY <1>5, <1>c DEF AttachListeners
  <1>6. ASSUME NEW c \in Conn, ConnectFails(c) PROVE RunsDown(e)
    <2>1. UNCHANGED <<sess, outbox, wire, procWaits>>
      BY <1>6 DEF ConnectFails
    <2>2. \A d \in Conn : future'[d] = future[d] \/ future'[d] = "failed"
      BY <1>a, <1>6 DEF ConnectFails, TcpConnectFails, TypeOK, MinaTypeOK
    <2> QED BY <1>b, <2>1, <2>2
  <1>7. ASSUME NEW c \in Conn, Established(c) PROVE RunsDown(e)
    <2>1. UNCHANGED <<future, outbox, wire, procWaits>>
      BY <1>7 DEF Established
    <2>2. Connecting(e)' <= Connecting(e)
      BY <1>a, <2>1, ConnectingFalls
    <2>3. CASE e \in {C(c), S(c)}
      <3>1. sess[e] = "none" /\ sess'[e] = "created"
        BY <1>a, <1>7, <2>3, EndFacts DEF Established, TcpEstablished,
           FreshConn, TypeOK, MinaTypeOK
      <3>2. Life(sess[e])' < Life(sess[e])
        BY <3>1 DEF Life
      <3>3. Unsent(e)' <= Unsent(e) /\ Waiting(e)' <= Waiting(e)
        BY <2>1 DEF Unsent, Waiting
      <3>4. Life(sess[e])' + Unsent(e)' + Waiting(e)'
              < Life(sess[e]) + Unsent(e) + Waiting(e)
        BY <3>2, <3>3, EndParts, ThreeSums
      <3>5. EndWork(e)' < EndWork(e)
        BY <2>1, <2>2, <3>4, WorkFalls
      <3> QED BY <3>5, EndWorkType DEF RunsDown
    <2>4. CASE e \notin {C(c), S(c)}
      <3>1. sess'[e] = sess[e]
        BY <1>a, <1>7, <2>4 DEF Established, TcpEstablished, TypeOK, MinaTypeOK
      <3> QED BY <2>1, <2>2, <3>1, WorkKept DEF RunsDown
    <2> QED BY <2>3, <2>4
  <1>8. ASSUME NEW c \in Conn, NeverAccepted(c) PROVE RunsDown(e)
    <2>1. /\ sess[S(c)] = "created" /\ sess' = [sess EXCEPT ![S(c)] = "closed"]
          /\ UNCHANGED <<future, outbox, wire, procWaits>>
      BY <1>8 DEF NeverAccepted
    <2>2. "closed" \in SessionStatus /\ Life("closed") < Life(sess[S(c)])
      BY <2>1 DEF SessionStatus, Life
    <2>3. EndWork(S(c))' < EndWork(S(c)) /\ (e # S(c) => RunsDown(e))
      BY <1>a, <2>1, <2>2, EndFacts, SessionGoesOn
    <2> QED BY <2>3, EndWorkType DEF RunsDown
  <1>9. ASSUME NEW d \in End, ReadOrWriteError(d) PROVE RunsDown(e)
    <2>1. /\ sess[d] = "open" /\ sess' = [sess EXCEPT ![d] = "failing"]
          /\ UNCHANGED <<future, outbox, wire, procWaits>>
      BY <1>9 DEF ReadOrWriteError, ChannelError
    <2>2. "failing" \in SessionStatus /\ Life("failing") < Life(sess[d])
      BY <2>1 DEF SessionStatus, Life
    <2>3. EndWork(d)' < EndWork(d) /\ (e # d => RunsDown(e))
      BY <1>a, <2>1, <2>2, SessionGoesOn
    <2> QED BY <2>3, EndWorkType DEF RunsDown
  <1>10. CASE UNCHANGED vars
    BY <1>10, <1>c DEF vars
  <1> QED
    BY <1>1, <1>2, <1>3, <1>4, <1>5, <1>6, <1>7, <1>8, <1>9, <1>10
       DEF Next, Users, ConnectPool, Network

\* So it is with every step.
LEMMA NextSessionsEnd == IInv /\ IInv' /\ [Next]_vars => SessionsEnd
  <1> SUFFICES ASSUME IInv, IInv', [Next]_vars, NEW e \in End
               PROVE  RunsDown(e) /\ (ProcessorOf(e) => EndWork(e)' < EndWork(e))
    BY DEF SessionsEnd
  <1>1. RunsDown(e)
    <2>1. CASE \A c \in Conn : ~ClientProcessor(c) /\ ~ServerProcessor(c)
      BY <2>1, OthersRunDown
    <2>2. ASSUME NEW c \in Conn, ClientProcessor(c) PROVE RunsDown(e)
      <3>1. EndWork(C(c))' < EndWork(C(c)) /\ (e # C(c) => RunsDown(e))
        BY <2>2, ClientRunsDown
      <3> QED BY <3>1, EndWorkType DEF RunsDown
    <2>3. ASSUME NEW c \in Conn, ServerProcessor(c) PROVE RunsDown(e)
      <3>1. EndWork(S(c))' < EndWork(S(c)) /\ (e # S(c) => RunsDown(e))
        BY <2>3, ServerRunsDown
      <3> QED BY <3>1, EndWorkType DEF RunsDown
    <2> QED BY <2>1, <2>2, <2>3
  <1>2. ASSUME ProcessorOf(e) PROVE EndWork(e)' < EndWork(e)
    <2>1. PICK c \in Conn : e = C(c) \/ e = S(c)
      BY EndDistinct
    <2>2. CASE e = C(c)
      <3>1. ClientProcessor(c)
        BY <1>2, <2>2 DEF ProcessorOf, C
      <3> QED BY <2>2, <3>1, ClientRunsDown
    <2>3. CASE e = S(c)
      <3>1. ServerProcessor(c)
        BY <1>2, <2>3 DEF ProcessorOf, S
      <3> QED BY <2>3, <3>1, ServerRunsDown
    <2> QED BY <2>1, <2>2, <2>3
  <1> QED BY <1>1, <1>2

\* No session goes on for ever on its own: every step of the thread that serves an
\* end lowers its work, a natural number, which only a call message that is
\* written on a session nobody has closed, or that arrives from a peer that is
\* there, raises again.  This is the safety part of CloseEndsCallAtPeer and of
\* UnbindReturns: a session told to close, or whose peer is gone, comes to its
\* sessionClosed.
THEOREM SessionsRunDown ==
  /\ \A e \in End : EndWork(e) \in Nat
  /\ Spec => [][SessionsEnd]_vars
  <1>1. \A e \in End : EndWork(e) \in Nat
    BY EndWorkType
  <1>2. IInv /\ IInv' /\ [Next]_vars => [SessionsEnd]_vars
    BY NextSessionsEnd
  <1>3. Spec => [][SessionsEnd]_vars
    BY <1>2, Inductive, PTL DEF Spec
  <1> QED BY <1>1, <1>3

-----------------------------------------------------------------------------
\* The thread that serves e has something to do ...
Due(e) ==
    \/ sess[e] \in {"created", "failing", "removing", "dropped"}
    \/ sess[e] = "open" /\ (RemovalDue(e) \/ e \in outbox \/ e \in wire)

\* ... and one of its steps is possible: opening, reading, flushing or failing a
\* write, exceptionCaught, closing the channel, sessionClosed.
CanGoOn(e) ==
    /\ ProcFree(e)
    /\ \/ sess[e] \in {"created", "failing", "dropped"}
       \/ sess[e] = "open" /\ closing[e] # "now" /\ (e \in wire \/ e \in outbox)
       \/ e \in outbox /\ RemovalDue(e)
            /\ (sess[e] = "open" => closing[e] = "now" \/ PeerGone(e))
       \/ e \notin outbox /\ RemovalDue(e)

\* No end is stuck.
SessionsCanGoOn ==
    \A e \in End :
        /\ Due(e) /\ Owner(e) \notin crashed /\ e \notin procWaits => CanGoOn(e)
        /\ e \in procWaits => sess[e] = "failing"

\* A connection that is used has two phones.
UsedConn ==
    \A c \in Conn : future[c] # "none" => client[c] \in Phone /\ server[c] \in Phone

\* Every step keeps UsedConn.
LEMMA NextUsedConn ==
  IInv /\ UsedConn /\ [Next]_vars => UsedConn'
  <1> SUFFICES ASSUME IInv, UsedConn, [Next]_vars PROVE UsedConn'
    OBVIOUS
  <1> USE DEF minaVars, clientVars, serverVars, serviceVars
  <1>a. TypeOK /\ DestKnown
    BY DEF IInv
  <1>b. ASSUME UNCHANGED <<client, server>>,
               \A d \in Conn : future'[d] # "none" => future[d] # "none"
        PROVE  UsedConn'
    BY <1>b DEF UsedConn
  <1>c. ASSUME NEW p \in Phone, EndCall(p) \/ ClientCloseSession(p)
        PROVE  \A d \in Conn : future'[d] # "none" => future[d] # "none"
    BY <1>a, <1>c DEF EndCall, ClientCloseSession, Cancels, TypeOK, MinaTypeOK
  <1>1. ASSUME NEW p \in Phone,
               StartCall(p) \/ Answer(p) \/ Main(p) \/ BindPool(p)
        PROVE  UsedConn'
    <2>1. UNCHANGED <<client, server, future>>
      BY <1>1 DEF StartCall, Answer, Main, MainResumes, OnFindOther, OnStartTcp,
         BindPool, RunBind, OnBindSucess, OnBindFailed
    <2> QED BY <1>b, <2>1
  <1>2. ASSUME NEW p \in Phone, HangUp(p) \/ AnswerRefused(p) PROVE UsedConn'
    BY <1>2, <1>b, <1>c DEF HangUp, AnswerRefused
  <1>3. ASSUME NEW p \in Phone, RunConnect(p) PROVE UsedConn'
    BY <1>3, <1>a DEF RunConnect, RunConnectClosed, Connect, UsedConn, DestKnown,
       TypeOK, MinaTypeOK, ClientTypeOK
  <1>4. ASSUME NEW c \in Conn, ConnectPool(c) \/ Network(c) PROVE UsedConn'
    <2>1. /\ UNCHANGED <<client, server>>
          /\ \A d \in Conn : future'[d] # "none" => future[d] # "none"
      BY <1>4, <1>a DEF ConnectPool, AttachListeners, Network, Established,
         ConnectFails, NeverAccepted, TcpConnectFails, TypeOK, MinaTypeOK
    <2> QED BY <1>b, <2>1
  <1>5. ASSUME NEW c \in Conn,
               \/ ClientSessionOpened(c) \/ ClientExceptionCaught(c)
               \/ RequestNotSent(c) \/ ResponseNotSent(c)
        PROVE  UsedConn'
    <2>1. /\ UNCHANGED <<client, server>>
          /\ UNCHANGED future \/ \E p \in Phone : EndCall(p) \/ ClientCloseSession(p)
      BY <1>5, EndFacts DEF ClientSessionOpened, ClientExceptionCaught,
         RequestNotSent, ResponseNotSent, ProcFree
    <2> QED BY <1>b, <1>c, <2>1
  <1>6. ASSUME NEW c \in Conn, ClientSessionCreated(c) PROVE UsedConn'
    BY <1>6, <1>a, <1>b DEF ClientSessionCreated, TypeOK, MinaTypeOK
  <1>7. ASSUME NEW c \in Conn,
               \/ ClientMessageReceived(c) \/ ClientSessionClosed(c)
               \/ ServerSessionOpened(c) \/ ServerMessageReceived(c)
               \/ ServerExceptionHandled(c) \/ ServerClosed(c)
               \/ RequestSent(c) \/ ResponseSent(c)
        PROVE  UsedConn'
    <2>1. UNCHANGED <<client, server, future>>
      BY <1>7 DEF ClientMessageReceived, ClientSessionClosed,
         ServerSessionOpened, ServerMessageReceived, ServerExceptionHandled,
         ServerClosed, RequestSent, ResponseSent
    <2> QED BY <1>b, <2>1
  <1>8. ASSUME NEW e \in End, ProcResumes(e) \/ ReadOrWriteError(e) \/ Drop(e)
        PROVE  UsedConn'
    <2>1. UNCHANGED <<client, server, future>>
      BY <1>8 DEF ProcResumes, ReadOrWriteError, Drop
    <2> QED BY <1>b, <2>1
  <1>9. CASE UNCHANGED vars
    BY <1>9, <1>b DEF vars
  <1> QED
    BY <1>1, <1>2, <1>3, <1>4, <1>5, <1>6, <1>7, <1>8, <1>9, EndFacts
       DEF Next, Users, ClientProcessor, ServerProcessor

\* Where there is something to do, the thread can go on.
LEMMA DueCanGoOn ==
  ASSUME TypeOK, FreshConn, UsedConn, NEW e \in End, Due(e),
         Owner(e) \notin crashed, e \notin procWaits
  PROVE  CanGoOn(e)
  <1>1. sess[e] # "none"
    BY DEF Due
  <1>2. Owner(e) \in Phone
    <2>1. PICK c \in Conn : e = C(c) \/ e = S(c)
      BY EndDistinct
    <2>2. future[c] # "none"
      BY <1>1, <2>1 DEF FreshConn
    <2> QED BY <2>1, <2>2, EndFacts DEF UsedConn
  <1>3. closing[e] \in {"no", "flush", "now"}
    BY DEF TypeOK, MinaTypeOK
  <1> QED BY <1>2, <1>3 DEF Due, CanGoOn, ProcFree, RemovalDue

\* No session is stuck, unless its process is dead or its thread waits in unbind:
\* where a call message is to be written or read, the session is to be removed,
\* or a callback is due, the thread that serves it has a step to take, and a thread
\* waits in unbind only between a failed write and exceptionCaught.  With
\* SessionsRunDown and CallMessagesGetThrough this is what the liveness properties
\* of the call rest on, apart from the fairness of the threads.
THEOREM SessionsGoOn == Spec => []SessionsCanGoOn
  <1>1. Init => UsedConn
    BY DEF Init, MinaInit, UsedConn
  <1>2. IInv /\ UsedConn => SessionsCanGoOn
    BY DueCanGoOn DEF SessionsCanGoOn, IInv, WaitingProc
  <1> QED BY <1>1, <1>2, NextUsedConn, Inductive, PTL DEF Spec
=============================================================================
