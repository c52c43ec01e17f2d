---------------------------- MODULE AudioPlay_proofs ----------------------------
(***************************************************************************)
(* AudioPlay for any number of tasks, sessions and frames: the types, that *)
(* isPlaying is never left behind, and that frames are played in order.    *)
(***************************************************************************)
EXTENDS AudioPlay, TLAPS

\* A queue of at least one frame, taken apart, and one with a frame added.
LEMMA PlayQueue ==
  ASSUME NEW q \in Seq(Frame), NEW f \in Frame
  PROVE  /\ Append(q, f) \in Seq(Frame) /\ Len(Append(q, f)) = Len(q) + 1
         /\ q # <<>> => /\ Head(q) \in Frame /\ Tail(q) \in Seq(Frame)
                        /\ Len(Tail(q)) <= Len(q)
  OBVIOUS

\* Where tasks and threads are stays where they can be.
LEMMA GoesType ==
  ASSUME TypeOK,
         NEW t \in Task, NEW from, NEW to \in TaskStatus, Goes(t, from, to)
  PROVE  /\ task' \in [Task -> TaskStatus]
         /\ \A u \in Task : task'[u] = IF u = t THEN to ELSE task[u]
  BY DEF TypeOK, Goes

LEMMA MovesType ==
  ASSUME TypeOK,
         NEW x \in Thread, NEW from, NEW to \in ThreadStatus, Moves(x, from, to)
  PROVE  /\ pc' \in [Thread -> ThreadStatus]
         /\ \A y \in Thread : pc'[y] = IF y = x THEN to ELSE pc[y]
  BY DEF TypeOK, Moves

\* The initial state has the types, and nothing is held or on its way.
LEMMA InitTypes == Init => TypeOK /\ HeldFrames
  <1> SUFFICES ASSUME Init PROVE TypeOK /\ HeldFrames
    OBVIOUS
  <1>1. queue \in Seq(Frame) /\ Len(queue) <= Capacity
    <2>1. <<>> \in Seq(Frame) /\ Len(<<>>) = 0
      OBVIOUS
    <2> QED BY <2>1, PlayAssumption DEF Init
  <1>2. /\ task \in [Task -> TaskStatus]
        /\ pc \in [Thread -> ThreadStatus]
        /\ opened \in [Task -> BOOLEAN]
        /\ held \in [Task -> Frame \cup {<<>>}]
    BY DEF Init, TaskStatus, ThreadStatus
  <1>3. /\ received \in [Receiver -> 0 .. MaxFrames]
        /\ played \in [Task -> [Receiver -> 0 .. MaxFrames]]
        /\ commands \in 0 .. MaxCommands
    BY PlayAssumption DEF Init
  <1>4. isPlaying \in BOOLEAN /\ is_playing2 \in {0, 1} /\ crashed \in BOOLEAN
    BY DEF Init
  <1>5. HeldFrames
    BY DEF Init, HeldFrames, Thread
  <1> QED BY <1>1, <1>2, <1>3, <1>4, <1>5 DEF TypeOK

\* Every step keeps the types: of the queue, whose length add() bounds, and of
\* the numbers of the frames, since a task that plays holds a frame.
LEMMA NextTypes == TypeOK /\ HeldFrames /\ [Next]_vars => TypeOK' /\ HeldFrames'
  <1> SUFFICES ASSUME TypeOK, HeldFrames, [Next]_vars
               PROVE  TypeOK' /\ HeldFrames'
    OBVIOUS
  <1> USE PlayAssumption DEF taskVars
  <1>1. ASSUME NEW t \in Task, TurnOnSpeaker(t) PROVE TypeOK' /\ HeldFrames'
    <2>1. commands' \in 0 .. MaxCommands
      BY <1>1 DEF TurnOnSpeaker, Command, TypeOK
    <2>2. task' \in [Task -> TaskStatus]
          /\ \A u \in Task : task'[u] = "play" => task[u] = "play"
      BY <1>1 DEF TurnOnSpeaker, TypeOK, TaskStatus
    <2> QED BY <1>1, <2>1, <2>2 DEF TurnOnSpeaker, TypeOK, HeldFrames
  <1>2. ASSUME NEW x \in Thread, StopPlay(x) PROVE TypeOK' /\ HeldFrames'
    <2>1. commands' \in 0 .. MaxCommands
      BY <1>2 DEF StopPlay, Command, TypeOK
    <2>2. pc' \in [Thread -> ThreadStatus]
          /\ \A y \in Thread : pc'[y] = IF y = x THEN "clear" ELSE pc[y]
      BY <1>2, MovesType DEF StopPlay, ThreadStatus
    <2> QED BY <1>2, <2>1, <2>2 DEF StopPlay, TypeOK, HeldFrames, Thread
  <1>3. ASSUME NEW x \in Thread, ClearQueue(x) PROVE TypeOK' /\ HeldFrames'
    <2>1. pc' \in [Thread -> ThreadStatus]
          /\ \A y \in Thread : pc'[y] = IF y = x THEN "idle" ELSE pc[y]
      BY <1>3, MovesType DEF ClearQueue, ThreadStatus
    <2>2. queue' \in Seq(Frame) /\ Len(queue') <= Capacity
      BY <1>3 DEF ClearQueue
    <2> QED BY <1>3, <2>1, <2>2 DEF ClearQueue, TypeOK, HeldFrames, Thread
  <1>4. ASSUME NEW r \in Receiver, VoiceReceived(r) PROVE TypeOK' /\ HeldFrames'
    <2>1. pc' \in [Thread -> ThreadStatus]
          /\ \A y \in Thread : pc'[y] = IF y = r THEN "test" ELSE pc[y]
      BY <1>4, MovesType DEF VoiceReceived, ThreadStatus, Thread
    <2>2. /\ received' \in [Receiver -> 0 .. MaxFrames]
          /\ received'[r] > 0
          /\ \A y \in Receiver : y # r => received'[y] = received[y]
      BY <1>4 DEF VoiceReceived, TypeOK
    <2> QED BY <1>4, <2>1, <2>2 DEF VoiceReceived, TypeOK, HeldFrames, Thread
  <1>5. ASSUME NEW r \in Receiver, TestPlaying(r) PROVE TypeOK' /\ HeldFrames'
    <2>1. PICK to \in {"add", "idle"} : Moves(r, "test", to)
      BY <1>5 DEF TestPlaying
    <2>2. pc' \in [Thread -> ThreadStatus]
          /\ \A y \in Thread : pc'[y] = IF y = r THEN to ELSE pc[y]
      BY <2>1, MovesType DEF ThreadStatus, Thread
    <2>3. pc[r] = "test"
      BY <2>1 DEF Moves
    <2> QED BY <1>5, <2>2, <2>3 DEF TestPlaying, TypeOK, HeldFrames, Thread
  <1>6. ASSUME NEW r \in Receiver, AddToPlayQueue(r) PROVE TypeOK' /\ HeldFrames'
    <2>1. pc' \in [Thread -> ThreadStatus]
          /\ \A y \in Thread : pc'[y] = IF y = r THEN "idle" ELSE pc[y]
      BY <1>6, MovesType DEF AddToPlayQueue, ThreadStatus, Thread
    <2>2. [from |-> r, no |-> received[r]] \in Frame
      BY <1>6 DEF AddToPlayQueue, Moves, HeldFrames, TypeOK, Frame
    <2>3. queue' \in Seq(Frame) /\ Len(queue') <= Capacity
      <3>1. queue \in Seq(Frame) /\ Len(queue) <= Capacity
        BY DEF TypeOK
      <3>2. CASE Len(queue) < Capacity
        BY <1>6, <2>2, <3>1, <3>2, PlayQueue DEF AddToPlayQueue
      <3>3. CASE ~(Len(queue) < Capacity)
        BY <1>6, <3>1, <3>3 DEF AddToPlayQueue
      <3> QED BY <3>2, <3>3
    <2> QED BY <1>6, <2>1, <2>3 DEF AddToPlayQueue, TypeOK, HeldFrames, Thread
  <1>7. ASSUME NEW t \in Task, OpenDevice(t) \/ EnterLoop(t) \/ Close(t)
        PROVE  TypeOK' /\ HeldFrames'
    <2>1. PICK from \in TaskStatus, to \in {"flagged", "loop", "free"} :
             Goes(t, from, to)
      BY <1>7 DEF OpenDevice, EnterLoop, Close, TaskStatus
    <2>2. /\ task' \in [Task -> TaskStatus]
          /\ \A u \in Task : task'[u] = IF u = t THEN to ELSE task[u]
      BY <2>1, GoesType DEF TaskStatus
    <2>3. opened' \in [Task -> BOOLEAN]
      BY <1>7 DEF OpenDevice, EnterLoop, Close, TypeOK
    <2> QED BY <1>7, <2>2, <2>3 DEF OpenDevice, EnterLoop, Close, TypeOK, HeldFrames
  <1>8. ASSUME NEW t \in Task, LoopTests(t) PROVE TypeOK' /\ HeldFrames'
    <2>1. PICK to \in {"poll", "closing"} : Goes(t, "loop", to)
      BY <1>8 DEF LoopTests
    <2>2. /\ task' \in [Task -> TaskStatus]
          /\ \A u \in Task : task'[u] = IF u = t THEN to ELSE task[u]
      BY <2>1, GoesType DEF TaskStatus
    <2> QED BY <1>8, <2>2 DEF LoopTests, TypeOK, HeldFrames
  <1>9. ASSUME NEW t \in Task, PollFrame(t) PROVE TypeOK' /\ HeldFrames'
    <2>1. queue \in Seq(Frame) /\ Len(queue) <= Capacity
      BY DEF TypeOK
    <2>2. CASE queue = <<>>
      <3>1. Goes(t, "poll", "loop")
        BY <1>9, <2>2 DEF PollFrame
      <3>2. /\ task' \in [Task -> TaskStatus]
            /\ \A u \in Task : task'[u] = IF u = t THEN "loop" ELSE task[u]
        BY <3>1, GoesType DEF TaskStatus
      <3> QED BY <1>9, <2>2, <3>2 DEF PollFrame, TypeOK, HeldFrames
    <2>3. CASE queue # <<>>
      <3>1. Goes(t, "poll", "play")
        BY <1>9, <2>3 DEF PollFrame
      <3>2. /\ task' \in [Task -> TaskStatus]
            /\ \A u \in Task : task'[u] = IF u = t THEN "play" ELSE task[u]
        BY <3>1, GoesType DEF TaskStatus
      <3>3. Head(queue) \in Frame /\ Tail(queue) \in Seq(Frame)
            /\ Len(Tail(queue)) <= Capacity
        BY <2>1, <2>3
      <3>4. /\ held' = [held EXCEPT ![t] = Head(queue)]
            /\ queue' = Tail(queue)
        BY <1>9, <2>3 DEF PollFrame
      <3>5. held' \in [Task -> Frame \cup {<<>>}]
            /\ \A u \in Task : task'[u] = "play" => held'[u] \in Frame
        BY <3>2, <3>3, <3>4 DEF TypeOK, HeldFrames
      <3> QED BY <1>9, <3>2, <3>3, <3>4, <3>5 DEF PollFrame, TypeOK, HeldFrames
    <2> QED BY <2>2, <2>3
  <1>10. ASSUME NEW t \in Task, PlayFrame(t) PROVE TypeOK' /\ HeldFrames'
    <2>1. Goes(t, "play", "loop")
      BY <1>10 DEF PlayFrame
    <2>2. /\ task' \in [Task -> TaskStatus]
          /\ \A u \in Task : task'[u] = IF u = t THEN "loop" ELSE task[u]
      BY <2>1, GoesType DEF TaskStatus
    <2>3. held[t].from \in Receiver /\ held[t].no \in 0 .. MaxFrames
      BY <2>1 DEF Goes, HeldFrames, Frame
    <2>4. played' \in [Task -> [Receiver -> 0 .. MaxFrames]]
      <3>1. played[t] \in [Receiver -> 0 .. MaxFrames]
        BY DEF TypeOK
      <3>2. [played[t] EXCEPT ![held[t].from] = held[t].no]
              \in [Receiver -> 0 .. MaxFrames]
        BY <2>3, <3>1
      <3>3. \/ played' = played
            \/ played' = [played EXCEPT ![t] =
                             [played[t] EXCEPT ![held[t].from] = held[t].no]]
        BY <1>10 DEF PlayFrame
      <3> QED BY <3>2, <3>3 DEF TypeOK
    <2>5. held' \in [Task -> Frame \cup {<<>>}]
          /\ \A u \in Task : u # t => held'[u] = held[u]
      BY <1>10 DEF PlayFrame, TypeOK
    <2>6. crashed' \in BOOLEAN
      BY <1>10 DEF PlayFrame, TypeOK
    <2> QED BY <1>10, <2>2, <2>4, <2>5, <2>6 DEF PlayFrame, TypeOK, HeldFrames
  <1>11. CASE UNCHANGED vars
    BY <1>11 DEF vars, TypeOK, HeldFrames
  <1> QED
    BY <1>1, <1>2, <1>3, <1>4, <1>5, <1>6, <1>7, <1>8, <1>9, <1>10, <1>11
       DEF Next, Playing, Receiving

\* Every reachable state has the types of TypeOK; in particular audioPlayQueue
\* never holds more than its capacity, however many sessions add to it.
THEOREM TypeCorrect == Spec => []TypeOK
  <1> QED BY InitTypes, NextTypes, PTL DEF Spec

\* isPlaying is never left set by tasks that are gone: whoever else has reset it
\* or is about to, some task that is past opening the device stands for it and
\* will reset it.
THEOREM FlagIsNeverLeftBehind == Spec => []PlayingHasTask
  <1>1. Init => PlayingHasTask
    BY DEF Init, PlayingHasTask
  <1>2. TypeOK /\ PlayingHasTask /\ [Next]_vars => PlayingHasTask'
    <2> SUFFICES ASSUME TypeOK, PlayingHasTask, [Next]_vars, isPlaying'
                 PROVE  \E t \in Task : task'[t] \notin {"free", "queued"}
      BY DEF PlayingHasTask
    <2> USE DEF taskVars
    <2>1. CASE \E t \in Task : OpenDevice(t)
      BY <2>1 DEF OpenDevice, Goes, TypeOK
    <2>2. CASE ~\E t \in Task : OpenDevice(t)
      <3>1. isPlaying /\ ~\E t \in Task : Close(t)
        BY <2>2
           DEF Next, Playing, Receiving, TurnOnSpeaker, StopPlay, ClearQueue,
               VoiceReceived, TestPlaying, AddToPlayQueue, EnterLoop, LoopTests,
               PollFrame, PlayFrame, Close, vars
      <3>2. PICK t \in Task : task[t] \notin {"free", "queued"}
        BY <3>1 DEF PlayingHasTask
      <3>3. task'[t] \notin {"free", "queued"}
        BY <2>2, <3>1, <3>2
           DEF Next, Playing, Receiving, TurnOnSpeaker, StopPlay, ClearQueue,
               VoiceReceived, TestPlaying, AddToPlayQueue, EnterLoop, LoopTests,
               PollFrame, PlayFrame, Goes, vars, TypeOK
      <3> QED BY <3>3
    <2> QED BY <2>1, <2>2
  <1> QED BY <1>1, <1>2, TypeCorrect, PTL DEF Spec

\* The frames of a longer queue, and those of a shorter one.
LEMMA AppendedFrames ==
  ASSUME NEW q \in Seq(Frame), NEW f \in Frame
  PROVE  LET a == Append(q, f)
         IN  \A i \in 1 .. Len(a) :
               /\ \/ i \in 1 .. Len(q) /\ a[i] = q[i]
                  \/ i = Len(q) + 1 /\ a[i] = f
               /\ \A j \in 1 .. Len(a) : i < j => i \in 1 .. Len(q)
  <1> DEFINE a == Append(q, f)
  <1>1. Len(a) = Len(q) + 1 /\ a[Len(q) + 1] = f /\ Len(q) \in Nat
    OBVIOUS
  <1>2. \A i \in 1 .. Len(q) : a[i] = q[i]
    OBVIOUS
  <1> HIDE DEF a
  <1>3. \A i \in 1 .. Len(a) : i \in 1 .. Len(q) \/ i = Len(q) + 1
    BY <1>1
  <1>4. \A i, j \in 1 .. Len(a) : i < j => i \in 1 .. Len(q)
    BY <1>1
  <1>5. ASSUME NEW i \in 1 .. Len(a)
        PROVE  \/ i \in 1 .. Len(q) /\ a[i] = q[i]
               \/ i = Len(q) + 1 /\ a[i] = f
    BY <1>1, <1>2, <1>3
  <1> QED BY <1>4, <1>5 DEF a

LEMMA RemainingFrames ==
  ASSUME NEW q \in Seq(Frame), q # <<>>
  PROVE  /\ 1 \in 1 .. Len(q) /\ Head(q) = q[1]
         /\ \A i \in 1 .. Len(Tail(q)) :
              i + 1 \in 1 .. Len(q) /\ Tail(q)[i] = q[i + 1] /\ 1 < i + 1
         /\ \A i, j \in 1 .. Len(Tail(q)) : i < j => i + 1 < j + 1
  <1>1. Len(q) \in Nat \ {0} /\ Len(Tail(q)) = Len(q) - 1
    OBVIOUS
  <1>2. Head(q) = q[1]
    OBVIOUS
  <1>3. \A i \in 1 .. Len(q) - 1 : Tail(q)[i] = q[i + 1]
    OBVIOUS
  <1> QED BY <1>1, <1>2, <1>3

\* The numbers that are compared are numbers.
LEMMA FrameNumbers ==
  ASSUME TypeOK
  PROVE  /\ queue \in Seq(Frame)
         /\ \A i \in 1 .. Len(queue) :
              /\ queue[i].from \in Receiver /\ queue[i].no \in Nat
              /\ queue[i] \in Frame
         /\ \A r \in Receiver : received[r] \in Nat /\ r \in Thread
         /\ \A t \in Task, r \in Receiver : played[t][r] \in Nat
         /\ \A f \in Frame : f.from \in Receiver /\ f.no \in Nat
  <1>1. queue \in Seq(Frame)
    BY DEF TypeOK
  <1>2. \A i \in 1 .. Len(queue) : queue[i] \in Frame
    BY <1>1
  <1>3. \A f \in Frame : f.from \in Receiver /\ f.no \in Nat
    BY PlayAssumption DEF Frame
  <1>4. \A r \in Receiver : received[r] \in Nat /\ r \in Thread
    BY PlayAssumption DEF TypeOK, Thread
  <1>5. \A t \in Task, r \in Receiver : played[t][r] \in Nat
    BY PlayAssumption DEF TypeOK
  <1> QED BY <1>1, <1>2, <1>3, <1>4, <1>5

\* A step that moves no frame, starts no session's addition and lets no task
\* hold one keeps the order.
LEMMA OrderFrame ==
  ASSUME TypeOK, QueueInOrder, TasksInOrder,
         UNCHANGED <<held, played, queue>>,
         \A t \in Task : task'[t] = "play" => task[t] = "play",
         \A r \in Receiver : Latest'[r] \in Nat /\ Latest[r] <= Latest'[r],
         \A r \in Receiver : Latest[r] \in Int,
         HeldFrames
  PROVE  QueueInOrder' /\ TasksInOrder'
  <1>1. QueueInOrder'
    <2> SUFFICES ASSUME NEW i \in 1 .. Len(queue)
                 PROVE  /\ queue[i].no <= Latest'[queue[i].from]
                        /\ \A j \in 1 .. Len(queue) :
                             i < j /\ queue[i].from = queue[j].from
                               => queue[i].no < queue[j].no
                        /\ \A t \in Task :
                             /\ played[t][queue[i].from] < queue[i].no
                             /\ task'[t] = "play" /\ held[t].from = queue[i].from
                                  => held[t].no < queue[i].no
      BY DEF QueueInOrder
    <2>1. queue[i].no <= Latest'[queue[i].from]
      BY FrameNumbers DEF QueueInOrder
    <2> QED BY <2>1 DEF QueueInOrder
  <1>2. TasksInOrder'
    <2> SUFFICES ASSUME NEW t \in Task
                 PROVE  /\ \A r \in Receiver : played[t][r] <= Latest'[r]
                        /\ task'[t] = "play" =>
                             /\ held[t].no <= Latest'[held[t].from]
                             /\ played[t][held[t].from] < held[t].no
      BY DEF TasksInOrder
    <2>1. \A r \in Receiver : played[t][r] <= Latest'[r]
      BY FrameNumbers DEF TasksInOrder
    <2>2. ASSUME task'[t] = "play"
          PROVE  /\ held[t].no <= Latest'[held[t].from]
                 /\ played[t][held[t].from] < held[t].no
      <3>1. held[t].from \in Receiver /\ held[t].no \in Nat /\ task[t] = "play"
        BY <2>2, FrameNumbers DEF HeldFrames
      <3> QED BY <3>1 DEF TasksInOrder
    <2> QED BY <2>1, <2>2
  <1> QED BY <1>1, <1>2

\* The last frame that can have reached the queue never goes back.
LEMMA LatestGrows ==
  ASSUME TypeOK, HeldFrames, [Next]_vars
  PROVE  \A r \in Receiver :
           Latest[r] \in Nat /\ Latest'[r] \in Nat /\ Latest[r] <= Latest'[r]
  <1> USE DEF taskVars
  <1>1. TypeOK' /\ HeldFrames'
    BY NextTypes
  <1>2. ASSUME NEW r \in Receiver
        PROVE  Latest[r] \in Nat /\ Latest'[r] \in Nat
    <2>1. received[r] \in Nat /\ received'[r] \in Nat
      BY <1>1, PlayAssumption DEF TypeOK
    <2> QED BY <2>1, <1>1 DEF Latest, HeldFrames
  <1>3. ASSUME NEW r \in Receiver PROVE Latest[r] <= Latest'[r]
    <2>1. received[r] \in Nat /\ r \in Thread
      BY FrameNumbers
    <2>2. CASE UNCHANGED <<pc, received>>
      BY <1>2, <2>2 DEF Latest
    <2>3. ASSUME NEW x \in Thread, StopPlay(x) \/ ClearQueue(x)
          PROVE  Latest[r] <= Latest'[r]
      <3>1. received' = received
        BY <2>3 DEF StopPlay, ClearQueue
      <3>2. pc'[r] = pc[r] \/ pc'[r] \in {"clear", "idle"}
        BY <2>1, <2>3 DEF StopPlay, ClearQueue, Moves, TypeOK
      <3> QED BY <2>1, <3>1, <3>2 DEF Latest
    <2>4. ASSUME NEW x \in Receiver, VoiceReceived(x)
          PROVE  Latest[r] <= Latest'[r]
      <3>1. CASE x = r
        <4>1. pc[r] = "idle" /\ pc'[r] = "test" /\ received'[r] = received[r] + 1
          BY <2>1, <2>4, <3>1 DEF VoiceReceived, Moves, TypeOK
        <4> QED BY <2>1, <4>1 DEF Latest
      <3>2. CASE x # r
        <4>1. pc'[r] = pc[r] /\ received'[r] = received[r]
          BY <2>1, <2>4, <3>2 DEF VoiceReceived, Moves, TypeOK
        <4> QED BY <2>1, <4>1 DEF Latest
      <3> QED BY <3>1, <3>2
    <2>5. ASSUME NEW x \in Receiver, TestPlaying(x) \/ AddToPlayQueue(x)
          PROVE  Latest[r] <= Latest'[r]
      <3>1. received' = received /\ pc[x] \in {"test", "add"}
        BY <2>5 DEF TestPlaying, AddToPlayQueue, Moves
      <3>2. pc'[r] = pc[r] \/ x = r
        BY <2>1, <2>5 DEF TestPlaying, AddToPlayQueue, Moves, TypeOK
      <3> QED BY <2>1, <3>1, <3>2 DEF Latest
    <2> QED BY <2>2, <2>3, <2>4, <2>5
        DEF Next, Playing, Receiving, TurnOnSpeaker, OpenDevice, EnterLoop,
            LoopTests, PollFrame, PlayFrame, Close, vars
  <1> QED BY <1>2, <1>3

\* Every step keeps the frames of a session in order: a task takes the oldest
\* frame of the queue, and a session adds the youngest.
LEMMA OrderIsKept ==
  TypeOK /\ HeldFrames /\ QueueInOrder /\ TasksInOrder /\ [Next]_vars =>
    QueueInOrder' /\ TasksInOrder'
  <1> SUFFICES ASSUME TypeOK, HeldFrames, QueueInOrder, TasksInOrder, [Next]_vars
               PROVE  QueueInOrder' /\ TasksInOrder'
    OBVIOUS
  <1> USE DEF taskVars
  <1>a. \A r \in Receiver : /\ Latest[r] \in Int /\ Latest'[r] \in Nat
                            /\ Latest[r] <= Latest'[r]
    BY LatestGrows
  <1>1. CASE /\ UNCHANGED <<held, played, queue>>
             /\ \A t \in Task : task'[t] = "play" => task[t] = "play"
    BY <1>1, <1>a, OrderFrame
  <1>2. ASSUME NEW x \in Thread, ClearQueue(x) PROVE QueueInOrder' /\ TasksInOrder'
    <2>1. queue' = <<>> /\ UNCHANGED <<task, held, played>>
      BY <1>2 DEF ClearQueue
    <2>2. 1 .. Len(<<>>) = {}
      OBVIOUS
    <2>3. QueueInOrder'
      BY <2>1, <2>2 DEF QueueInOrder
    <2>4. ASSUME NEW t \in Task
          PROVE  /\ \A r \in Receiver : played[t][r] <= Latest'[r]
                 /\ task[t] = "play" => /\ held[t].no <= Latest'[held[t].from]
                                        /\ played[t][held[t].from] < held[t].no
      <3>1. \A r \in Receiver : played[t][r] <= Latest'[r]
        BY <1>a, FrameNumbers DEF TasksInOrder
      <3>2. ASSUME task[t] = "play"
            PROVE  held[t].no <= Latest'[held[t].from]
        <4>1. held[t].from \in Receiver /\ held[t].no \in Nat
          BY <3>2, FrameNumbers DEF HeldFrames
        <4> QED BY <3>2, <4>1, <1>a DEF TasksInOrder
      <3> QED BY <3>1, <3>2 DEF TasksInOrder
    <2> QED BY <2>1, <2>3, <2>4 DEF TasksInOrder
  <1>3. ASSUME NEW r \in Receiver, AddToPlayQueue(r), queue' # queue
        PROVE  QueueInOrder' /\ TasksInOrder'
    <2> DEFINE f == [from |-> r, no |-> received[r]]
    <2>1. /\ pc[r] = "add" /\ queue' = Append(queue, f)
          /\ UNCHANGED <<task, held, played, received>>
      BY <1>3 DEF AddToPlayQueue, Moves
    <2>2. f \in Frame /\ received[r] \in Nat
      BY <2>1, FrameNumbers DEF HeldFrames, TypeOK, Frame
    <2>3. Latest[r] = received[r] - 1 /\ Latest'[r] = received[r]
      <3>1. pc'[r] = "idle"
        BY <1>3, FrameNumbers DEF AddToPlayQueue, Moves, TypeOK
      <3> QED BY <2>1, <3>1 DEF Latest
    <2>4. f.from = r /\ f.no = received[r]
      OBVIOUS
    <2> HIDE DEF f
    <2>5. ASSUME NEW i \in 1 .. Len(queue')
          PROVE  /\ \/ i \in 1 .. Len(queue) /\ queue'[i] = queue[i]
                    \/ queue'[i] = f
                 /\ \A j \in 1 .. Len(queue') : i < j =>
                      i \in 1 .. Len(queue) /\ queue'[i] = queue[i]
      <3>1. \/ i \in 1 .. Len(queue) /\ queue'[i] = queue[i]
            \/ i = Len(queue) + 1 /\ queue'[i] = f
        BY <2>1, <2>2, FrameNumbers, AppendedFrames
      <3>2. \A j \in 1 .. Len(queue') : i < j => i \in 1 .. Len(queue)
        BY <2>1, <2>2, FrameNumbers, AppendedFrames
      <3>3. i = Len(queue) + 1 => i \notin 1 .. Len(queue)
        BY FrameNumbers
      <3> QED BY <3>1, <3>2, <3>3
    <2>6. \A i \in 1 .. Len(queue) :
             /\ queue[i].no <= Latest'[queue[i].from]
             /\ queue[i].from = r => queue[i].no < f.no
      <3> TAKE i \in 1 .. Len(queue)
      <3>1. queue[i].from \in Receiver /\ queue[i].no \in Nat
        BY FrameNumbers
      <3>2. queue[i].no <= Latest[queue[i].from]
        BY DEF QueueInOrder
      <3>3. queue[i].no <= Latest'[queue[i].from]
        BY <1>a, <3>1, <3>2
      <3>4. queue[i].from = r => queue[i].no < f.no
        BY <2>2, <2>3, <2>4, <3>1, <3>2
      <3> QED BY <3>3, <3>4
    <2>7. \A t \in Task :
             /\ \A y \in Receiver : played[t][y] <= Latest'[y]
             /\ played[t][r] < f.no
      BY <1>a, <2>2, <2>3, <2>4, FrameNumbers DEF TasksInOrder
    <2>8. ASSUME NEW t \in Task, task[t] = "play"
          PROVE  /\ held[t].no <= Latest'[held[t].from]
                 /\ held[t].from = r => held[t].no < f.no
      <3>1. held[t].from \in Receiver /\ held[t].no \in Nat
        BY <2>8, FrameNumbers DEF HeldFrames
      <3>2. held[t].no <= Latest[held[t].from]
        BY <2>8 DEF TasksInOrder
      <3> QED BY <1>a, <2>2, <2>3, <2>4, <3>1, <3>2
    <2>9. QueueInOrder'
      <3> SUFFICES ASSUME NEW i \in 1 .. Len(queue')
                   PROVE  /\ queue'[i].no <= Latest'[queue'[i].from]
                          /\ \A j \in 1 .. Len(queue') :
                               i < j /\ queue'[i].from = queue'[j].from
                                 => queue'[i].no < queue'[j].no
                          /\ \A t \in Task :
                               /\ played[t][queue'[i].from] < queue'[i].no
                               /\ task[t] = "play" /\ held[t].from = queue'[i].from
                                    => held[t].no < queue'[i].no
        BY <2>1 DEF QueueInOrder
      <3>1. CASE i \in 1 .. Len(queue) /\ queue'[i] = queue[i]
        <4>1. \A j \in 1 .. Len(queue') :
                 i < j /\ queue'[i].from = queue'[j].from
                   => queue'[i].no < queue'[j].no
          BY <2>4, <2>5, <2>6, <3>1 DEF QueueInOrder
        <4> QED BY <2>6, <3>1, <4>1 DEF QueueInOrder
      <3>2. CASE queue'[i] = f /\ \A j \in 1 .. Len(queue') : ~(i < j)
        <4>1. f.no <= Latest'[f.from]
          BY <2>2, <2>3, <2>4
        <4> QED BY <2>4, <2>7, <2>8, <3>2, <4>1
      <3> QED BY <2>5, <3>1, <3>2
    <2>10. TasksInOrder'
      BY <2>1, <2>7, <2>8 DEF TasksInOrder
    <2> QED BY <2>9, <2>10
  <1>4. ASSUME NEW t \in Task, PollFrame(t), queue # <<>>
        PROVE  QueueInOrder' /\ TasksInOrder'
    <2> DEFINE f == Head(queue)
    <2>1. /\ queue' = Tail(queue) /\ UNCHANGED <<played, received>>
          /\ held' = [held EXCEPT ![t] = f]
          /\ task' = [task EXCEPT ![t] = "play"]
      BY <1>4 DEF PollFrame, Goes
    <2>2. /\ held'[t] = f
          /\ \A u \in Task : u # t => held'[u] = held[u] /\ task'[u] = task[u]
      BY <2>1 DEF TypeOK
    <2>3. 1 \in 1 .. Len(queue) /\ f = queue[1]
      BY <1>4, FrameNumbers, RemainingFrames
    <2> HIDE DEF f
    <2>4. \A i \in 1 .. Len(queue') :
             i + 1 \in 1 .. Len(queue) /\ queue'[i] = queue[i + 1] /\ 1 < i + 1
      BY <1>4, <2>1, FrameNumbers, RemainingFrames
    <2>5. \A i, j \in 1 .. Len(queue') : i < j => i + 1 < j + 1
      OBVIOUS
    <2>6. \A i \in 1 .. Len(queue) : queue[i].no <= Latest'[queue[i].from]
      <3> TAKE i \in 1 .. Len(queue)
      <3>1. queue[i].from \in Receiver /\ queue[i].no \in Nat
        BY FrameNumbers
      <3>2. queue[i].no <= Latest[queue[i].from]
        BY DEF QueueInOrder
      <3> QED BY <1>a, <3>1, <3>2
    <2>7. QueueInOrder'
      <3> SUFFICES ASSUME NEW i \in 1 .. Len(queue')
                   PROVE  /\ queue'[i].no <= Latest'[queue'[i].from]
                          /\ \A j \in 1 .. Len(queue') :
                               i < j /\ queue'[i].from = queue'[j].from
                                 => queue'[i].no < queue'[j].no
                          /\ \A u \in Task :
                               /\ played[u][queue'[i].from] < queue'[i].no
                               /\ task'[u] = "play" /\ held'[u].from = queue'[i].from
                                    => held'[u].no < queue'[i].no
        BY <2>1 DEF QueueInOrder
      <3>1. \A j \in 1 .. Len(queue') :
               i < j /\ queue'[i].from = queue'[j].from
                 => queue'[i].no < queue'[j].no
        BY <2>4, <2>5 DEF QueueInOrder
      <3>2. f.from = queue'[i].from => f.no < queue'[i].no
        BY <2>3, <2>4 DEF QueueInOrder
      <3> QED BY <2>2, <2>4, <2>6, <3>1, <3>2 DEF QueueInOrder
    <2>8. \A u \in Task, r \in Receiver : played[u][r] <= Latest'[r]
      BY <1>a, FrameNumbers DEF TasksInOrder
    <2>9. f.no <= Latest'[f.from] /\ played[t][f.from] < f.no
      BY <2>3, <2>6 DEF QueueInOrder
    <2>10. ASSUME NEW u \in Task, u # t, task[u] = "play"
           PROVE  /\ held[u].no <= Latest'[held[u].from]
                  /\ played[u][held[u].from] < held[u].no
      <3>1. held[u].from \in Receiver /\ held[u].no \in Nat
        BY <2>10, FrameNumbers DEF HeldFrames
      <3> QED BY <1>a, <2>10, <3>1 DEF TasksInOrder
    <2>11. TasksInOrder'
      BY <2>1, <2>2, <2>8, <2>9, <2>10 DEF TasksInOrder
    <2> QED BY <2>7, <2>11
  <1>5. ASSUME NEW t \in Task, PlayFrame(t) PROVE QueueInOrder' /\ TasksInOrder'
    <2> DEFINE f == held[t]
    <2>1. /\ task[t] = "play" /\ UNCHANGED <<queue, received>>
          /\ task' = [task EXCEPT ![t] = "loop"]
          /\ held' = [held EXCEPT ![t] = <<>>]
          /\ \/ played' = played
             \/ played' = [played EXCEPT ![t] = [played[t] EXCEPT ![f.from] = f.no]]
      BY <1>5 DEF PlayFrame, Goes
    <2>2. f \in Frame /\ f.from \in Receiver /\ f.no \in Nat
      BY <2>1, FrameNumbers DEF HeldFrames
    <2>3. f.no <= Latest'[f.from] /\ Latest'[f.from] \in Nat
      BY <1>a, <2>1, <2>2 DEF TasksInOrder
    <2> HIDE DEF f
    <2>4. \A u \in Task, r \in Receiver :
             \/ played'[u][r] = played[u][r]
             \/ u = t /\ r = f.from /\ played'[u][r] = f.no
      BY <2>1 DEF TypeOK
    <2>5. /\ task'[t] # "play"
          /\ \A u \in Task : u # t => held'[u] = held[u] /\ task'[u] = task[u]
      BY <2>1 DEF TypeOK
    <2>6. QueueInOrder'
      <3> SUFFICES ASSUME NEW i \in 1 .. Len(queue)
                   PROVE  /\ queue[i].no <= Latest'[queue[i].from]
                          /\ \A j \in 1 .. Len(queue) :
                               i < j /\ queue[i].from = queue[j].from
                                 => queue[i].no < queue[j].no
                          /\ \A u \in Task :
                               /\ played'[u][queue[i].from] < queue[i].no
                               /\ task'[u] = "play" /\ held'[u].from = queue[i].from
                                    => held'[u].no < queue[i].no
        BY <2>1 DEF QueueInOrder
      <3>1. queue[i].no <= Latest'[queue[i].from] /\ queue[i].from \in Receiver
        BY <1>a, FrameNumbers DEF QueueInOrder
      <3>2. f.from = queue[i].from => f.no < queue[i].no
        BY <2>1 DEF QueueInOrder, f
      <3>3. \A u \in Task : played'[u][queue[i].from] < queue[i].no
        BY <2>4, <3>1, <3>2 DEF QueueInOrder
      <3> QED BY <2>5, <3>1, <3>3 DEF QueueInOrder
    <2>7. \A u \in Task, r \in Receiver : played'[u][r] <= Latest'[r]
      <3>1. \A u \in Task, r \in Receiver : played[u][r] <= Latest'[r]
        BY <1>a, FrameNumbers DEF TasksInOrder
      <3> QED BY <2>3, <2>4, <3>1
    <2>8. ASSUME NEW u \in Task, u # t, task[u] = "play"
          PROVE  /\ held[u].no <= Latest'[held[u].from]
                 /\ played'[u][held[u].from] < held[u].no
      <3>1. held[u].from \in Receiver /\ held[u].no \in Nat
        BY <2>8, FrameNumbers DEF HeldFrames
      <3> QED BY <1>a, <2>4, <2>8, <3>1 DEF TasksInOrder
    <2>9. TasksInOrder'
      BY <2>5, <2>7, <2>8 DEF TasksInOrder
    <2> QED BY <2>6, <2>9
  <1>6. ASSUME NEW t \in Task, PollFrame(t), queue = <<>>
        PROVE  /\ UNCHANGED <<held, played, queue>>
               /\ \A u \in Task : task'[u] = "play" => task[u] = "play"
    BY <1>6 DEF PollFrame, Goes, TypeOK
  <1>7. ASSUME NEW t \in Task, \/ TurnOnSpeaker(t) \/ OpenDevice(t) \/ EnterLoop(t)
                               \/ LoopTests(t) \/ Close(t)
        PROVE  /\ UNCHANGED <<held, played, queue>>
               /\ \A u \in Task : task'[u] = "play" => task[u] = "play"
    BY <1>7 DEF TurnOnSpeaker, OpenDevice, EnterLoop, LoopTests, Close, Goes, TypeOK
  <1>8. ASSUME \/ \E x \in Thread : StopPlay(x)
               \/ \E r \in Receiver :
                    \/ VoiceReceived(r) \/ TestPlaying(r)
                    \/ AddToPlayQueue(r) /\ queue' = queue
               \/ UNCHANGED vars
        PROVE  /\ UNCHANGED <<held, played, queue>>
               /\ \A u \in Task : task'[u] = "play" => task[u] = "play"
    BY <1>8 DEF StopPlay, VoiceReceived, TestPlaying, AddToPlayQueue, vars
  <1> QED
    BY <1>1, <1>2, <1>3, <1>4, <1>5, <1>6, <1>7, <1>8
       DEF Next, Playing, Receiving

\* However tasks of the pool overlap, and whatever an earlier use of the speaker
\* left in audioPlayQueue, a task plays the frames of a session in the order in
\* which they were received.
THEOREM FramesArePlayedInOrder == Spec => PlayedInOrder
  <1> DEFINE Safe == TypeOK /\ HeldFrames /\ QueueInOrder /\ TasksInOrder
  <1>1. Init => Safe
    <2>1. 1 .. Len(<<>>) = {}
      OBVIOUS
    <2>2. Init => QueueInOrder
      BY <2>1 DEF Init, QueueInOrder
    <2>3. Init => TasksInOrder
      BY DEF Init, TasksInOrder, Latest, Thread
    <2> QED BY <2>2, <2>3, InitTypes
  <1>2. Safe /\ [Next]_vars => Safe'
    BY NextTypes, OrderIsKept
  <1>3. Safe /\ [Next]_vars =>
          [\A t \in Task, r \in Receiver :
             played'[t][r] # played[t][r] => played'[t][r] > played[t][r]]_vars
    <2> SUFFICES ASSUME Safe, Next, NEW u \in Task, NEW r \in Receiver,
                        played'[u][r] # played[u][r]
                 PROVE  played'[u][r] > played[u][r]
      OBVIOUS
    <2>1. PICK t \in Task : PlayFrame(t)
      BY DEF Next, Playing, Receiving, TurnOnSpeaker, StopPlay, ClearQueue,
             VoiceReceived, TestPlaying, AddToPlayQueue, OpenDevice, EnterLoop,
             LoopTests, PollFrame, Close, taskVars
    <2>2. /\ task[t] = "play"
          /\ played' = [played EXCEPT ![t] =
                          [played[t] EXCEPT ![held[t].from] = held[t].no]]
      BY <2>1 DEF PlayFrame, Goes
    <2>3. held[t].no \in Nat /\ played[t][held[t].from] < held[t].no
          /\ played[u][r] \in Nat
      BY <2>2, FrameNumbers DEF HeldFrames, TasksInOrder
    <2>4. u = t /\ r = held[t].from /\ played'[u][r] = held[t].no
      BY <2>2 DEF TypeOK
    <2> QED BY <2>3, <2>4
  <1>4. Spec => []Safe
    BY <1>1, <1>2, PTL DEF Spec
  <1> QED BY <1>3, <1>4, PTL DEF Spec, PlayedInOrder

-----------------------------------------------------------------------------
(* A speaker that was turned off falls silent, as far as it is a matter of *)
(* safety.                                                                 *)

\* The steps a task has before it at most while is_playing2 is 0: one that has
\* looked at the flag may poll and play one more frame.
StepsLeft(status) ==
    CASE status = "free" -> 0
      [] status = "closing" -> 1
      [] status = "loop" -> 2
      [] status = "play" -> 3
      [] status = "poll" -> 4
      [] status = "flagged" -> 5
      [] status = "queued" -> 6

\* While is_playing2 is 0 only a task that enters its loop sets it again, and
\* every other step of a task brings that task nearer to its end.
TasksRunOut ==
    [][is_playing2 = 0 =>
         \/ \E t \in Task : EnterLoop(t)
         \/ /\ is_playing2' = 0
            /\ \A t \in Task :
                 task'[t] # task[t] =>
                     \/ TurnOnSpeaker(t)
                     \/ Playing(t) /\ StepsLeft(task'[t]) < StepsLeft(task[t])]_vars

\* Where a step of a task leads while is_playing2 is 0.
LEMMA StepsLeftFalls ==
  ASSUME TypeOK, is_playing2 = 0, NEW t \in Task, Playing(t), ~EnterLoop(t)
  PROVE  /\ is_playing2' = 0
         /\ StepsLeft(task'[t]) < StepsLeft(task[t])
         /\ \A u \in Task : task'[u] # task[u] => u = t
  <1>1. ASSUME NEW from \in TaskStatus, NEW to \in TaskStatus, Goes(t, from, to),
               StepsLeft(to) < StepsLeft(from)
        PROVE  /\ StepsLeft(task'[t]) < StepsLeft(task[t])
               /\ \A u \in Task : task'[u] # task[u] => u = t
    <2>1. task[t] = from /\ task'[t] = to /\ \A u \in Task : u # t => task'[u] = task[u]
      BY <1>1, GoesType DEF Goes
    <2> QED BY <1>1, <2>1
  <1>2. is_playing2' = 0
    BY DEF Playing, OpenDevice, LoopTests, PollFrame, PlayFrame, Close
  <1>3. PICK from \in TaskStatus, to \in TaskStatus :
           Goes(t, from, to) /\ StepsLeft(to) < StepsLeft(from)
    <2>1. CASE OpenDevice(t)
      BY <2>1 DEF OpenDevice, StepsLeft, TaskStatus
    <2>2. CASE LoopTests(t)
      BY <2>2 DEF LoopTests, StepsLeft, TaskStatus
    <2>3. CASE PollFrame(t)
      BY <2>3 DEF PollFrame, StepsLeft, TaskStatus
    <2>4. CASE PlayFrame(t)
      BY <2>4 DEF PlayFrame, StepsLeft, TaskStatus
    <2>5. CASE Close(t)
      BY <2>5 DEF Close, StepsLeft, TaskStatus
    <2> QED BY <2>1, <2>2, <2>3, <2>4, <2>5 DEF Playing
  <1> QED BY <1>1, <1>2, <1>3

\* Once is_playing2 is 0, and until another task enters its loop, every task is
\* at most six of its own steps, and one frame, from its end.
THEOREM TurnedOffSpeakerRunsOut == Spec => TasksRunOut
  <1> DEFINE Kept ==
        is_playing2 = 0 =>
          \/ \E t \in Task : EnterLoop(t)
          \/ /\ is_playing2' = 0
             /\ \A t \in Task :
                  task'[t] # task[t] =>
                    \/ TurnOnSpeaker(t)
                    \/ Playing(t) /\ StepsLeft(task'[t]) < StepsLeft(task[t])
  <1>1. TypeOK /\ [Next]_vars => [Kept]_vars
    <2> SUFFICES ASSUME TypeOK, Next, is_playing2 = 0,
                        ~\E t \in Task : EnterLoop(t)
                 PROVE  Kept
      OBVIOUS
    <2>1. ASSUME NEW t \in Task, TurnOnSpeaker(t) PROVE Kept
      BY <2>1 DEF TurnOnSpeaker, TypeOK
    <2>2. ASSUME NEW t \in Task, Playing(t) PROVE Kept
      <3>1. ~EnterLoop(t)
        OBVIOUS
      <3> QED BY <2>2, <3>1, StepsLeftFalls
    <2>3. CASE is_playing2' = 0 /\ task' = task
      BY <2>3
    <2>4. ASSUME NEW x \in Thread, StopPlay(x) \/ ClearQueue(x) PROVE Kept
      BY <2>3, <2>4 DEF StopPlay, ClearQueue, taskVars
    <2>5. ASSUME NEW r \in Receiver, VoiceReceived(r) \/ Receiving(r) PROVE Kept
      BY <2>3, <2>5 DEF VoiceReceived, Receiving, TestPlaying, AddToPlayQueue,
                        taskVars
    <2> QED BY <2>1, <2>2, <2>4, <2>5 DEF Next
  <1> QED BY <1>1, TypeCorrect, PTL DEF Spec, TasksRunOut

-----------------------------------------------------------------------------
(* A frame does not stay in audioPlayQueue, as far as it is a matter of    *)
(* safety.                                                                 *)

\* While is_playing2 is set some task is in its loop, and not about to leave it.
PlayingIsServed ==
    is_playing2 = 1 => \E t \in Task : task[t] \in {"loop", "poll", "play"}

\* A step leaves a frame where it is in the queue, or empties the queue, or is a
\* poll, which takes the first frame out and moves the others up.
FramesMoveUp ==
    \A i \in 1 .. Len(queue) :
        \/ queue' = <<>>
        \/ /\ i <= Len(queue') /\ queue'[i] = queue[i]
           /\ ~\E t \in Task : PollFrame(t)
        \/ \E t \in Task :
               /\ PollFrame(t)
               /\ i = 1 => held'[t] = queue[1]
               /\ i > 1 => i - 1 <= Len(queue') /\ queue'[i - 1] = queue[i]

\* A task that is in its loop stays there until is_playing2 is off.
LEMMA NextServed ==
  TypeOK /\ PlayingIsServed /\ [Next]_vars => PlayingIsServed'
  <1> SUFFICES ASSUME TypeOK, PlayingIsServed, [Next]_vars, is_playing2' = 1
               PROVE  \E t \in Task : task'[t] \in {"loop", "poll", "play"}
    BY DEF PlayingIsServed
  <1> DEFINE InLoop == {"loop", "poll", "play"}
  <1>1. CASE \E t \in Task : EnterLoop(t)
    BY <1>1, GoesType DEF EnterLoop, TaskStatus
  <1>2. CASE ~\E t \in Task : EnterLoop(t)
    <2>1. is_playing2 = 1
      <3>1. \A x \in Thread : ~StopPlay(x)
        BY DEF StopPlay
      <3>2. ASSUME NEW t \in Task, TurnOnSpeaker(t) \/ Playing(t)
            PROVE  UNCHANGED is_playing2
        BY <1>2, <3>2 DEF TurnOnSpeaker, Playing, OpenDevice, LoopTests,
           PollFrame, PlayFrame, Close
      <3>3. ASSUME NEW x \in Thread, ClearQueue(x) PROVE UNCHANGED is_playing2
        BY <3>3 DEF ClearQueue
      <3>4. ASSUME NEW r \in Receiver, VoiceReceived(r) \/ Receiving(r)
            PROVE  UNCHANGED is_playing2
        BY <3>4 DEF VoiceReceived, Receiving, TestPlaying, AddToPlayQueue
      <3>5. UNCHANGED is_playing2
        BY <3>1, <3>2, <3>3, <3>4 DEF Next, vars
      <3> QED BY <3>5
    <2>2. PICK t \in Task : task[t] \in InLoop
      BY <2>1 DEF PlayingIsServed
    <2>3. ASSUME task'[t] # task[t] PROVE task'[t] \in InLoop
      <3>1. CASE \E u \in Task : TurnOnSpeaker(u)
        BY <2>2, <2>3, <3>1 DEF TurnOnSpeaker, TypeOK
      <3>2. ASSUME NEW u \in Task, Playing(u) PROVE task'[t] \in InLoop
        <4>1. PICK from \in TaskStatus, to \in TaskStatus :
                 Goes(u, from, to) /\ (from \in InLoop => to \in InLoop)
          <5>1. ~EnterLoop(u)
            BY <1>2
          <5> QED BY <2>1, <3>2, <5>1 DEF Playing, OpenDevice, LoopTests, PollFrame,
               PlayFrame, Close, TaskStatus
        <4>2. u = t /\ task'[t] = to /\ task[t] = from
          BY <2>3, <4>1, GoesType DEF Goes
        <4> QED BY <2>2, <4>1, <4>2
      <3>3. CASE UNCHANGED task
        BY <2>3, <3>3
      <3> QED BY <3>1, <3>2, <3>3 DEF Next, StopPlay, ClearQueue, VoiceReceived,
           Receiving, TestPlaying, AddToPlayQueue, taskVars, vars
    <2> QED BY <2>2, <2>3
  <1> QED BY <1>1, <1>2

\* What becomes of the frames of a queue.
LEMMA QueueSteps ==
  ASSUME NEW q \in Seq(Frame), NEW f \in Frame, NEW i \in 1 .. Len(q)
  PROVE  /\ i <= Len(Append(q, f)) /\ Append(q, f)[i] = q[i]
         /\ i = 1 => Head(q) = q[1]
         /\ i > 1 => i - 1 <= Len(Tail(q)) /\ Tail(q)[i - 1] = q[i]
  OBVIOUS

\* Every step moves the frames up or leaves them.
LEMMA NextFramesMoveUp ==
  TypeOK /\ HeldFrames /\ [Next]_vars => FramesMoveUp
  <1> SUFFICES ASSUME TypeOK, HeldFrames, [Next]_vars, NEW i \in 1 .. Len(queue)
               PROVE  \/ queue' = <<>>
                      \/ /\ i <= Len(queue') /\ queue'[i] = queue[i]
                         /\ ~\E t \in Task : PollFrame(t)
                      \/ \E t \in Task :
                            /\ PollFrame(t)
                            /\ i = 1 => held'[t] = queue[1]
                            /\ i > 1 => i - 1 <= Len(queue') /\ queue'[i - 1] = queue[i]
    BY DEF FramesMoveUp
  <1>a. queue \in Seq(Frame) /\ queue # <<>>
    BY DEF TypeOK
  <1>1. ASSUME NEW t \in Task, PollFrame(t)
        PROVE  /\ i = 1 => held'[t] = queue[1]
               /\ i > 1 => i - 1 <= Len(queue') /\ queue'[i - 1] = queue[i]
    <2>1. queue' = Tail(queue) /\ held' = [held EXCEPT ![t] = Head(queue)]
      BY <1>1, <1>a DEF PollFrame
    <2>2. held'[t] = Head(queue)
      BY <2>1 DEF TypeOK
    <2>3. queue[i] \in Frame
      BY <1>a
    <2> QED BY <1>a, <2>1, <2>2, <2>3, QueueSteps
  <1>2. CASE \E t \in Task : PollFrame(t)
    BY <1>1, <1>2
  <1>3. CASE ~\E t \in Task : PollFrame(t)
    <2>1. CASE UNCHANGED queue
      BY <1>3, <2>1
    <2>2. ASSUME NEW r \in Receiver, AddToPlayQueue(r)
          PROVE  i <= Len(queue') /\ queue'[i] = queue[i]
      <3>1. [from |-> r, no |-> received[r]] \in Frame
        <4>1. received[r] \in 0 .. MaxFrames /\ received[r] > 0
          BY <2>2 DEF AddToPlayQueue, Moves, HeldFrames, TypeOK
        <4> QED BY <4>1, PlayAssumption DEF Frame
      <3>2. queue' = queue \/ queue' = Append(queue, [from |-> r, no |-> received[r]])
        BY <2>2 DEF AddToPlayQueue
      <3> QED BY <1>a, <3>1, <3>2, QueueSteps
    <2>3. ASSUME NEW x \in Thread, ClearQueue(x) PROVE queue' = <<>>
      BY <2>3 DEF ClearQueue
    <2> QED BY <1>3, <2>1, <2>2, <2>3 DEF Next, TurnOnSpeaker, Playing, OpenDevice,
         EnterLoop, LoopTests, PlayFrame, Close, StopPlay, VoiceReceived, Receiving,
         TestPlaying, vars
  <1> QED BY <1>2, <1>3

\* While is_playing2 is set there is a task that goes on polling, for any number of
\* tasks; and every poll brings each frame of the queue nearer to being played,
\* while no other step takes one out of its turn.  This is the safety part of
\* FramesLeaveQueue.
THEOREM FramesGetTheirTurn ==
  Spec => [](PlayingIsServed) /\ [][FramesMoveUp]_vars
  <1>1. Init => PlayingIsServed
    BY DEF Init, PlayingIsServed
  <1>2. TypeOK /\ HeldFrames /\ [Next]_vars => [FramesMoveUp]_vars
    BY NextFramesMoveUp
  <1> QED
    BY <1>1, <1>2, InitTypes, NextTypes, NextServed, PTL DEF Spec
================================================================================
