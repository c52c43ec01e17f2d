--------------------------- MODULE AudioRecord_proofs ---------------------------
(***************************************************************************)
(* AudioRecord for any number of tasks and senders: the types, and that    *)
(* isRecording is never left behind.                                       *)
(***************************************************************************)
EXTENDS AudioRecord, TLAPS

\* A queue of at least one frame, taken apart, and one with a frame added.
LEMMA FramesQueue ==
  ASSUME NEW q \in Seq(Nat), NEW n \in Nat
  PROVE  /\ Append(q, n) \in Seq(Nat) /\ Len(Append(q, n)) = Len(q) + 1
         /\ q # <<>> => /\ Head(q) \in Nat /\ Tail(q) \in Seq(Nat)
                        /\ Len(Tail(q)) <= Len(q)
  OBVIOUS

\* Where tasks and senders are stays where they can be.
LEMMA GoesType ==
  ASSUME TypeOK,
         NEW t \in Task, NEW from, NEW to \in TaskStatus, Goes(t, from, to)
  PROVE  task' \in [Task -> TaskStatus]
  BY DEF TypeOK, Goes

LEMMA SenderGoesType ==
  ASSUME TypeOK, NEW r \in Sender, NEW from,
         NEW to \in {"free", "waiting", "test", "poll", "send"},
         SenderGoes(r, from, to)
  PROVE  sender' \in [Sender -> {"free", "waiting", "test", "poll", "send"}]
  BY DEF TypeOK, SenderGoes

\* Every reachable state has the types of TypeOK; in particular the queue of
\* recorded frames never holds more than its capacity.
THEOREM TypeCorrect == Spec => []TypeOK
  <1>1. Init => TypeOK
    <2>1. <<>> \in Seq(Nat) /\ Len(<<>>) = 0
      OBVIOUS
    <2>2. Init => /\ isRecording \in BOOLEAN
                  /\ is_recording2 \in {0, 1}
                  /\ task \in [Task -> TaskStatus]
      BY DEF Init, TaskStatus
    <2>3. Init => /\ sender \in [Sender -> {"free", "waiting", "test", "poll", "send"}]
                  /\ held \in [Sender -> Nat]
      BY DEF Init
    <2>4. Init => queue \in Seq(Nat) /\ Len(queue) <= Capacity
      BY <2>1, RecordAssumption DEF Init
    <2>5. Init => /\ recorded \in 0 .. MaxFrames
                  /\ sent \in Nat
                  /\ commands \in 0 .. MaxCommands
      BY RecordAssumption DEF Init
    <2> QED BY <2>2, <2>3, <2>4, <2>5 DEF TypeOK
  <1>2. TypeOK /\ [Next]_vars => TypeOK'
    <2> SUFFICES ASSUME TypeOK, [Next]_vars PROVE TypeOK'
      OBVIOUS
    <2> USE RecordAssumption DEF micVars, senderVars
    <2>1. CASE Main
      <3>1. commands + 1 \in 0 .. MaxCommands /\ commands' = commands + 1
        BY <2>1 DEF Main, TurnOnMic, TurnOffMic, Command, TypeOK
      <3>2. task' \in [Task -> TaskStatus]
        BY <2>1 DEF Main, TurnOnMic, TurnOffMic, TypeOK, TaskStatus
      <3> QED BY <2>1, <3>1, <3>2 DEF Main, TurnOnMic, TurnOffMic, TypeOK
    <2>2. ASSUME NEW t \in Task, OpenFails(t) \/ OpenSucceeds(t) \/ Close(t)
          PROVE  TypeOK'
      <3>1. task' \in [Task -> TaskStatus]
        BY <2>2, GoesType DEF OpenFails, OpenSucceeds, Close, TaskStatus
      <3> QED BY <2>2, <3>1 DEF OpenFails, OpenSucceeds, Close, TypeOK
    <2>3. ASSUME NEW t \in Task, NEW r \in Sender, OnRecordStart(t, r)
          PROVE  TypeOK'
      <3>1. task' \in [Task -> TaskStatus]
        BY <2>3, GoesType DEF OnRecordStart, TaskStatus
      <3>2. sender' \in [Sender -> {"free", "waiting", "test", "poll", "send"}]
        BY <2>3 DEF OnRecordStart, TypeOK
      <3> QED BY <2>3, <3>1, <3>2 DEF OnRecordStart, TypeOK
    <2>4. ASSUME NEW t \in Task, EnterLoop(t) \/ LoopTests(t) PROVE TypeOK'
      <3>1. task' \in [Task -> TaskStatus]
        BY <2>4, GoesType DEF EnterLoop, LoopTests, TaskStatus
      <3> QED BY <2>4, <3>1 DEF EnterLoop, LoopTests, TypeOK
    <2>5. ASSUME NEW t \in Task, RecordFrame(t) PROVE TypeOK'
      <3>1. task' \in [Task -> TaskStatus]
        BY <2>5, GoesType DEF RecordFrame, TaskStatus
      <3>2. recorded' \in 0 .. MaxFrames
        BY <2>5 DEF RecordFrame, TypeOK
      <3>3. queue' \in Seq(Nat) /\ Len(queue') <= Capacity
        <4>1. queue \in Seq(Nat) /\ Len(queue) <= Capacity /\ recorded + 1 \in Nat
          BY <2>5 DEF TypeOK
        <4>2. CASE queue' = queue
          BY <4>1, <4>2
        <4>3. CASE queue' = Append(queue, recorded + 1) /\ Len(queue) < Capacity
          BY <4>1, <4>3, FramesQueue
        <4> QED BY <2>5, <4>2, <4>3 DEF RecordFrame
      <3> QED BY <2>5, <3>1, <3>2, <3>3 DEF RecordFrame, TypeOK
    <2>6. ASSUME NEW r \in Sender, Sending(r) PROVE TypeOK'
      <3>1. sender' \in [Sender -> {"free", "waiting", "test", "poll", "send"}]
        BY <2>6, SenderGoesType
           DEF Sending, SenderStarts, SenderTests, SenderPolls, SenderSends
      <3>2. queue \in Seq(Nat) /\ Len(queue) <= Capacity /\ 0 \in Nat
        BY DEF TypeOK
      <3>3. /\ held' \in [Sender -> Nat] /\ sent' \in Nat
            /\ queue' \in Seq(Nat) /\ Len(queue') <= Capacity
        <4>1. CASE SenderPolls(r) /\ queue # <<>>
          <5>1. Head(queue) \in Nat /\ Tail(queue) \in Seq(Nat)
                /\ Len(Tail(queue)) <= Len(queue)
            BY <3>2, <4>1, FramesQueue
          <5>2. queue' = Tail(queue) /\ sent' = sent
                /\ held' = [held EXCEPT ![r] = Head(queue)]
            BY <4>1 DEF SenderPolls
          <5>3. Len(queue') <= Capacity
            BY <3>2, <5>1, <5>2
          <5> QED BY <5>1, <5>2, <5>3 DEF TypeOK
        <4>2. CASE ~(SenderPolls(r) /\ queue # <<>>)
          <5>1. UNCHANGED <<held, queue>> /\ (sent' = sent \/ sent' = held[r])
            BY <2>6, <4>2
               DEF Sending, SenderStarts, SenderTests, SenderPolls, SenderSends
          <5> QED BY <5>1, <3>2 DEF TypeOK
        <4> QED BY <4>1, <4>2
      <3>4. UNCHANGED <<micVars, recorded, commands>>
        BY <2>6
           DEF Sending, SenderStarts, SenderTests, SenderPolls, SenderSends
      <3> QED BY <3>1, <3>3, <3>4 DEF TypeOK
    <2>7. CASE UNCHANGED vars
      BY <2>7 DEF vars, TypeOK
    <2> QED BY <2>1, <2>2, <2>3, <2>4, <2>5, <2>6, <2>7 DEF Next, Recording
  <1> QED BY <1>1, <1>2, PTL DEF Spec

\* isRecording is never left set by tasks that are gone: whoever else has reset
\* it or is about to, some task that is past opening the device stands for it.
THEOREM FlagIsNeverLeftBehind == Spec => []FlagHasOwner
  <1>1. Init => FlagHasOwner
    BY DEF Init, FlagHasOwner
  <1>2. TypeOK /\ FlagHasOwner /\ [Next]_vars => FlagHasOwner'
    <2> SUFFICES ASSUME TypeOK, FlagHasOwner, [Next]_vars, isRecording'
                 PROVE  \E t \in Task : task'[t] \notin {"free", "queued"}
      BY DEF FlagHasOwner
    <2> USE DEF micVars, senderVars
    <2>1. CASE \E t \in Task : OpenSucceeds(t)
      BY <2>1 DEF OpenSucceeds, Goes, TypeOK
    <2>2. CASE ~\E t \in Task : OpenSucceeds(t)
      <3>1. isRecording
        BY <2>2
           DEF Next, Main, Recording, Sending, TurnOnMic, TurnOffMic, OpenFails,
               OnRecordStart, EnterLoop, LoopTests, RecordFrame, Close,
               SenderStarts, SenderTests, SenderPolls, SenderSends, vars
      <3>2. PICK t \in Task : task[t] \notin {"free", "queued"}
        BY <3>1 DEF FlagHasOwner
      <3>3. task'[t] \notin {"free", "queued"}
        BY <2>2, <3>2
           DEF Next, Main, Recording, Sending, TurnOnMic, TurnOffMic, OpenFails,
               OnRecordStart, EnterLoop, LoopTests, RecordFrame, Close, Goes,
               SenderStarts, SenderTests, SenderPolls, SenderSends, vars, TypeOK
      <3> QED BY <3>3
    <2> QED BY <2>1, <2>2
  <1> QED BY <1>1, <1>2, TypeCorrect, PTL DEF Spec

\* A frame behind the others, and the first one taken away.
LEMMA AppendKeepsOrder ==
  ASSUME NEW q \in Seq(Nat), NEW n \in Nat,
         \A i, j \in 1 .. Len(q) : i < j => q[i] < q[j],
         \A i \in 1 .. Len(q) : q[i] < n
  PROVE  LET a == Append(q, n)
         IN  /\ \A i, j \in 1 .. Len(a) : i < j => a[i] < a[j]
             /\ \A i \in 1 .. Len(a) : a[i] = n \/ (i \in 1 .. Len(q) /\ a[i] = q[i])
  <1> DEFINE a == Append(q, n)
  <1>1. Len(a) = Len(q) + 1 /\ a[Len(q) + 1] = n /\ Len(q) \in Nat
    OBVIOUS
  <1>2. \A i \in 1 .. Len(q) : a[i] = q[i]
    OBVIOUS
  <1> HIDE DEF a
  <1>3. \A i \in 1 .. Len(a) : i \in 1 .. Len(q) \/ i = Len(q) + 1
    BY <1>1
  <1>4. \A i, j \in 1 .. Len(a) : i < j => i \in 1 .. Len(q)
    BY <1>1
  <1>5. \A i, j \in 1 .. Len(a) : i < j => a[i] < a[j]
    BY <1>1, <1>2, <1>3, <1>4
  <1>6. ASSUME NEW i \in 1 .. Len(a)
        PROVE  a[i] = n \/ (i \in 1 .. Len(q) /\ a[i] = q[i])
    <2>1. CASE i \in 1 .. Len(q)
      BY <1>2, <2>1
    <2>2. CASE i = Len(q) + 1
      BY <1>1, <2>2
    <2> QED BY <1>3, <2>1, <2>2
  <1> QED BY <1>5, <1>6 DEF a

LEMMA TailKeepsOrder ==
  ASSUME NEW q \in Seq(Nat), q # <<>>,
         \A i, j \in 1 .. Len(q) : i < j => q[i] < q[j]
  PROVE  LET a == Tail(q)
         IN  /\ \A i, j \in 1 .. Len(a) : i < j => a[i] < a[j]
             /\ \A i \in 1 .. Len(a) : i + 1 \in 1 .. Len(q) /\ a[i] = q[i + 1]
             /\ \A i \in 1 .. Len(a) : Head(q) < a[i]
             /\ 1 \in 1 .. Len(q) /\ Head(q) = q[1]
  OBVIOUS

\* Only one runnable of sendService runs at a time.
LEMMA OneSenderRuns == TypeOK /\ OneSender /\ [Next]_vars => OneSender'
  <1> SUFFICES ASSUME TypeOK, OneSender, [Next]_vars PROVE OneSender'
    OBVIOUS
  <1> USE DEF micVars, senderVars
  <1>1. CASE UNCHANGED sender
    BY <1>1 DEF OneSender
  <1>2. ASSUME NEW t \in Task, NEW r \in Sender, OnRecordStart(t, r)
        PROVE  OneSender'
    BY <1>2 DEF OnRecordStart, OneSender, TypeOK
  <1>3. ASSUME NEW r \in Sender, SenderStarts(r) PROVE OneSender'
    BY <1>3 DEF SenderStarts, SenderGoes, OneSender, TypeOK
  <1>4. ASSUME NEW r \in Sender, SenderTests(r) \/ SenderPolls(r) \/ SenderSends(r)
        PROVE  OneSender'
    BY <1>4 DEF SenderTests, SenderPolls, SenderSends, SenderGoes, OneSender, TypeOK
  <1> QED
    BY <1>1, <1>2, <1>3, <1>4
       DEF Next, Main, Recording, Sending, TurnOnMic, TurnOffMic, OpenFails,
           OpenSucceeds, EnterLoop, LoopTests, RecordFrame, Close, vars

\* The frame sent last, the one held, those in the queue and the one recorded
\* last stay in this order.
LEMMA OrderIsKept == TypeOK /\ OneSender /\ InOrder /\ [Next]_vars => InOrder'
  <1> SUFFICES ASSUME TypeOK, OneSender, InOrder, [Next]_vars PROVE InOrder'
    OBVIOUS
  <1> USE DEF micVars, senderVars
  <1>a. /\ queue \in Seq(Nat) /\ sent \in Nat /\ recorded \in Nat
        /\ \A i \in 1 .. Len(queue) : queue[i] \in Nat
        /\ held \in [Sender -> Nat]
    BY RecordAssumption DEF TypeOK
  <1>1. CASE UNCHANGED <<sender, held, sent, queue, recorded>>
    BY <1>1 DEF InOrder
  <1>2. ASSUME NEW t \in Task, NEW r \in Sender, OnRecordStart(t, r)
        PROVE  InOrder'
    BY <1>2 DEF OnRecordStart, InOrder, TypeOK
  <1>3. ASSUME NEW t \in Task, RecordFrame(t) PROVE InOrder'
    <2>1. CASE UNCHANGED queue
      BY <1>3, <1>a, <2>1 DEF RecordFrame, InOrder
    <2>2. CASE queue' # queue
      <3>1. /\ recorded' = recorded + 1 /\ queue' = Append(queue, recorded + 1)
            /\ UNCHANGED <<sender, held, sent>>
        BY <1>3, <2>2 DEF RecordFrame
      <3>2. \A i \in 1 .. Len(queue) : queue[i] < recorded + 1
        BY <1>a DEF InOrder
      <3>3. /\ \A i, j \in 1 .. Len(queue') : i < j => queue'[i] < queue'[j]
            /\ \A i \in 1 .. Len(queue') :
                  \/ queue'[i] = recorded + 1
                  \/ i \in 1 .. Len(queue) /\ queue'[i] = queue[i]
        BY <1>a, <3>1, <3>2, AppendKeepsOrder DEF InOrder
      <3>4. sent <= recorded' /\ recorded' = recorded + 1
        BY <1>a, <3>1 DEF InOrder
      <3>5. \A i \in 1 .. Len(queue') : sent < queue'[i] /\ queue'[i] <= recorded'
        BY <1>a, <3>3, <3>4 DEF InOrder
      <3>6. ASSUME NEW r \in Sender, sender[r] = "send"
            PROVE  /\ sent < held[r] /\ held[r] <= recorded'
                   /\ \A i \in 1 .. Len(queue') : held[r] < queue'[i]
        BY <1>a, <3>3, <3>4, <3>6 DEF InOrder
      <3> QED BY <3>1, <3>3, <3>4, <3>5, <3>6 DEF InOrder
    <2> QED BY <2>1, <2>2
  <1>4. ASSUME NEW r \in Sender, SenderStarts(r) \/ SenderTests(r) PROVE InOrder'
    BY <1>4 DEF SenderStarts, SenderTests, SenderGoes, InOrder, TypeOK
  <1>5. ASSUME NEW r \in Sender, SenderPolls(r) PROVE InOrder'
    <2>1. CASE queue = <<>>
      BY <1>5, <2>1 DEF SenderPolls, SenderGoes, InOrder, TypeOK
    <2>2. CASE queue # <<>>
      <3>1. /\ sender[r] = "poll" /\ queue' = Tail(queue)
            /\ sender' = [sender EXCEPT ![r] = "send"]
            /\ held' = [held EXCEPT ![r] = Head(queue)]
            /\ UNCHANGED <<sent, recorded>>
        BY <1>5, <2>2 DEF SenderPolls, SenderGoes
      <3>2. /\ \A i, j \in 1 .. Len(queue') : i < j => queue'[i] < queue'[j]
            /\ \A i \in 1 .. Len(queue') :
                  i + 1 \in 1 .. Len(queue) /\ queue'[i] = queue[i + 1]
            /\ \A i \in 1 .. Len(queue') : Head(queue) < queue'[i]
            /\ 1 \in 1 .. Len(queue) /\ Head(queue) = queue[1]
        BY <1>a, <2>2, <3>1, TailKeepsOrder DEF InOrder
      <3>3. \A i \in 1 .. Len(queue') : sent < queue'[i] /\ queue'[i] <= recorded
        BY <3>2 DEF InOrder
      <3>4. sent < Head(queue) /\ Head(queue) <= recorded
        BY <3>2 DEF InOrder
      <3>5. ASSUME NEW x \in Sender, sender'[x] = "send" PROVE x = r
        BY <3>1, <3>5 DEF OneSender, TypeOK
      <3>6. held'[r] = Head(queue)
        BY <1>a, <3>1
      <3> QED BY <3>1, <3>2, <3>3, <3>4, <3>5, <3>6 DEF InOrder
    <2> QED BY <2>1, <2>2
  <1>6. ASSUME NEW r \in Sender, SenderSends(r) PROVE InOrder'
    <2>1. /\ sender[r] = "send" /\ sent' = held[r]
          /\ sender' = [sender EXCEPT ![r] = "test"]
          /\ UNCHANGED <<held, queue, recorded>>
      BY <1>6 DEF SenderSends, SenderGoes
    <2>2. \A x \in Sender : sender'[x] # "send"
      BY <2>1 DEF OneSender, TypeOK
    <2> QED BY <2>1, <2>2 DEF InOrder
  <1> QED
    BY <1>1, <1>2, <1>3, <1>4, <1>5, <1>6
       DEF Next, Main, Recording, Sending, TurnOnMic, TurnOffMic, OpenFails,
           OpenSucceeds, EnterLoop, LoopTests, Close, vars

\* However often the microphone is switched, and however many runnables wait for
\* the one thread of sendService, frames are sent in the order of their recording.
THEOREM FramesAreSentInOrder == Spec => SentInOrder
  <1>1. Init => OneSender /\ InOrder
    <2>1. Init => OneSender
      BY DEF Init, OneSender
    <2>2. 1 .. Len(<<>>) = {}
      OBVIOUS
    <2>3. Init => InOrder
      BY <2>2 DEF Init, InOrder
    <2> QED BY <2>1, <2>3
  <1>2. TypeOK /\ OneSender /\ InOrder /\ [Next]_vars => OneSender' /\ InOrder'
    BY OneSenderRuns, OrderIsKept
  <1>3. Spec => [](TypeOK /\ OneSender /\ InOrder)
    BY <1>1, <1>2, TypeCorrect, PTL DEF Spec
  <1>4. TypeOK /\ InOrder /\ [Next]_vars => [sent' # sent => sent' > sent]_vars
    <2> SUFFICES ASSUME TypeOK, InOrder, Next, sent' # sent PROVE sent' > sent
      OBVIOUS
    <2>1. PICK r \in Sender : SenderSends(r)
      BY DEF Next, Main, Recording, Sending, TurnOnMic, TurnOffMic, OpenFails,
             OpenSucceeds, OnRecordStart, EnterLoop, LoopTests, RecordFrame,
             Close, SenderStarts, SenderTests, SenderPolls, senderVars
    <2>2. sender[r] = "send" /\ sent' = held[r]
      BY <2>1 DEF SenderSends, SenderGoes
    <2>3. sent < held[r] /\ sent \in Nat /\ held[r] \in Nat
      BY <2>2 DEF InOrder, TypeOK
    <2> QED BY <2>2, <2>3
  <1> QED BY <1>3, <1>4, PTL DEF Spec, SentInOrder
-----------------------------------------------------------------------------
(* A microphone that was turned off falls silent, as far as it is a matter *)
(* of safety.                                                              *)

\* The steps a task has before it at most while is_recording2 is 0: one that
\* has looked at the flag records one more frame.
StepsLeft(status) ==
    CASE status \in {"free", "aborted"} -> 0
      [] status = "closing" -> 1
      [] status = "loop" -> 2
      [] status = "frame" -> 3
      [] status = "announced" -> 4
      [] status = "flagged" -> 5
      [] status = "queued" -> 6

\* While is_recording2 is 0 only a task that enters its loop sets it again, and
\* every other step of a task brings that task nearer to its end.
TasksRunOut ==
    [][is_recording2 = 0 =>
         \/ \E t \in Task : EnterLoop(t)
         \/ /\ is_recording2' = 0
            /\ \A t \in Task :
                 task'[t] # task[t] =>
                     \/ TurnOnMic(t)
                     \/ Recording(t) /\ StepsLeft(task'[t]) < StepsLeft(task[t])]_vars

\* Where a step of a task leads while is_recording2 is 0.
LEMMA StepsLeftFalls ==
  ASSUME TypeOK, is_recording2 = 0, NEW t \in Task, Recording(t), ~EnterLoop(t)
  PROVE  /\ is_recording2' = 0
         /\ StepsLeft(task'[t]) < StepsLeft(task[t])
         /\ \A u \in Task : task'[u] # task[u] => u = t
  <1>1. ASSUME NEW from \in TaskStatus, NEW to \in TaskStatus, Goes(t, from, to),
               StepsLeft(to) < StepsLeft(from)
        PROVE  /\ StepsLeft(task'[t]) < StepsLeft(task[t])
               /\ \A u \in Task : task'[u] # task[u] => u = t
    <2>1. task[t] = from /\ task'[t] = to /\ \A u \in Task : u # t => task'[u] = task[u]
      BY <1>1 DEF Goes, TypeOK
    <2> QED BY <1>1, <2>1
  <1>2. is_recording2' = 0
    BY DEF Recording, OpenFails, OpenSucceeds, OnRecordStart, LoopTests,
           RecordFrame, Close
  <1>3. PICK from \in TaskStatus, to \in TaskStatus :
           Goes(t, from, to) /\ StepsLeft(to) < StepsLeft(from)
    <2>1. CASE OpenFails(t)
      BY <2>1 DEF OpenFails, StepsLeft, TaskStatus
    <2>2. CASE OpenSucceeds(t)
      BY <2>2 DEF OpenSucceeds, StepsLeft, TaskStatus
    <2>3. CASE LoopTests(t)
      BY <2>3 DEF LoopTests, StepsLeft, TaskStatus
    <2>4. CASE RecordFrame(t)
      BY <2>4 DEF RecordFrame, StepsLeft, TaskStatus
    <2>5. CASE Close(t)
      BY <2>5 DEF Close, StepsLeft, TaskStatus
    <2>6. ASSUME NEW r \in Sender, OnRecordStart(t, r)
          PROVE  Goes(t, "flagged", "announced")
      BY <2>6 DEF OnRecordStart
    <2>7. CASE \E r \in Sender : OnRecordStart(t, r)
      BY <2>6, <2>7 DEF StepsLeft, TaskStatus
    <2> QED BY <2>1, <2>2, <2>3, <2>4, <2>5, <2>7 DEF Recording
  <1> QED BY <1>1, <1>2, <1>3

\* Once is_recording2 is 0, and until another task enters its loop, every task is
\* at most six of its own steps, and one frame, from its end.
THEOREM TurnedOffMicRunsOut == Spec => TasksRunOut
  <1> DEFINE Kept ==
        is_recording2 = 0 =>
          \/ \E t \in Task : EnterLoop(t)
          \/ /\ is_recording2' = 0
             /\ \A t \in Task :
                  task'[t] # task[t] =>
                    \/ TurnOnMic(t)
                    \/ Recording(t) /\ StepsLeft(task'[t]) < StepsLeft(task[t])
  <1>1. TypeOK /\ [Next]_vars => [Kept]_vars
    <2> SUFFICES ASSUME TypeOK, Next, is_recording2 = 0,
                        ~\E t \in Task : EnterLoop(t)
                 PROVE  Kept
      OBVIOUS
    <2>1. ASSUME NEW t \in Task, TurnOnMic(t) PROVE Kept
      BY <2>1 DEF TurnOnMic, TypeOK
    <2>2. ASSUME NEW t \in Task, Recording(t) PROVE Kept
      <3>1. ~EnterLoop(t)
        OBVIOUS
      <3> QED BY <2>2, <3>1, StepsLeftFalls
    <2>3. CASE is_recording2' = 0 /\ task' = task
      BY <2>3
    <2>4. CASE TurnOffMic
      BY <2>3, <2>4 DEF TurnOffMic
    <2>5. ASSUME NEW r \in Sender, Sending(r) PROVE Kept
      BY <2>3, <2>5 DEF Sending, SenderStarts, SenderTests, SenderPolls,
                        SenderSends, micVars
    <2> QED BY <2>1, <2>2, <2>4, <2>5 DEF Next, Main
  <1> QED BY <1>1, TypeCorrect, PTL DEF Spec, TasksRunOut
================================================================================
