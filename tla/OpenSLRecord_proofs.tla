-------------------------- MODULE OpenSLRecord_proofs --------------------------
(***************************************************************************)
(* OpenSLRecord for every buffer size and every size of call: the caller   *)
(* never reads a buffer the recorder holds, what it reads is always one    *)
(* buffer late, and the stream implements AudioPipe.                       *)
(***************************************************************************)
EXTENDS OpenSLRecord, TLAPS

\* A queue of at most one buffer.
LEMMA QueueOfOne ==
  ASSUME NEW b \in {0, 1}
  PROVE  /\ Append(<<>>, b) = <<b>>
         /\ Head(<<b>>) = b /\ Tail(<<b>>) = <<>>
         /\ <<b>> # <<>> /\ <<b>> \in Seq({0, 1})
         /\ DOMAIN <<b>> = {1} /\ <<b>>[1] = b
  OBVIOUS

\* The empty queue is a queue of buffers.
LEMMA EmptyQueue == <<>> \in Seq({0, 1})
  OBVIOUS

\* What one sample copied into buffer b leaves in the two buffers.
LEMMA OneSampleWritten ==
  ASSUME NEW D, NEW f \in [{0, 1} -> [D -> Nat]], NEW b \in {0, 1}, NEW j \in D,
         NEW v \in Nat
  PROVE  LET g == [f EXCEPT ![b][j] = v]
         IN  /\ g \in [{0, 1} -> [D -> Nat]]
             /\ \A i \in D : /\ g[1 - b][i] = f[1 - b][i]
                            /\ g[b][i] = IF i = j THEN v ELSE f[b][i]
  <1> DEFINE h == [f[b] EXCEPT ![j] = v]
             g == [f EXCEPT ![b] = h]
  <1>1. f[b] \in [D -> Nat] /\ f[1 - b] \in [D -> Nat] /\ 1 - b \in {0, 1} /\ 1 - b # b
    OBVIOUS
  <1>2. h \in [D -> Nat] /\ \A i \in D : h[i] = IF i = j THEN v ELSE f[b][i]
    BY <1>1
  <1> HIDE DEF h
  <1>3. g \in [{0, 1} -> [D -> Nat]] /\ g[b] = h /\ g[1 - b] = f[1 - b]
    BY <1>1, <1>2
  <1>4. [f EXCEPT ![b][j] = v] = g
    BY DEF h
  <1> QED BY <1>2, <1>3, <1>4

\* The stream starts with the token in the lock and silence in both buffers.
LEMMA InitIInv == Init => IInv
  <1> SUFFICES ASSUME Init PROVE IInv
    OBVIOUS
  <1>1. TypeOK
    BY SizesAssumption, EmptyQueue DEF Init, LockInit, TypeOK, LockTypeOK
  <1>2. Progress /\ ConstantDelay /\ Token
    BY SizesAssumption DEF Init, LockInit, Progress, ConstantDelay, Token
  <1>3. Content
    BY SizesAssumption DEF Init, Content
  <1> QED BY <1>1, <1>2, <1>3 DEF Init, IInv

\* Every step keeps the inductive invariant.
LEMMA NextIInv == IInv /\ [Next]_vars => IInv'
  <1> SUFFICES ASSUME IInv, [Next]_vars PROVE IInv'
    OBVIOUS
  <1> USE SizesAssumption DEF lockVars, callerVars, deviceVars
  <1>a. TypeOK /\ Progress /\ ConstantDelay
    BY DEF IInv
  <1>b. CASE ~open
    <2>1. queue = <<>> /\ callbacks = 0 /\ pc = "idle" /\ ~asleep
      BY <1>a, <1>b DEF IInv, Progress
    <2>2. UNCHANGED vars
      BY <1>b, <2>1
         DEF Next, Caller, Driver, AudioIn, Read, Wait, Wake, Enqueue, Close,
             RecordSample, RecorderCallback, SpuriousWakeup, vars
    <2> QED BY <1>b, <2>1, <2>2, <1>a
            DEF vars, IInv, TypeOK, LockTypeOK, Progress, ConstantDelay
  <1>c. CASE open
    <2>a. Token /\ Content
      BY <1>c DEF IInv
    <2>1. ASSUME NEW size \in CallSizes, AudioIn(size) PROVE IInv'
      <3>1. TypeOK' /\ Progress' /\ ConstantDelay'
        <4>1. pc' = Looping(size, index) /\ left' = size /\ size > 0
          BY <2>1 DEF AudioIn
        <4>2. TypeOK'
          BY <1>a, <2>1, <4>1 DEF AudioIn, Looping, TypeOK, LockTypeOK
        <4>3. Progress'
          BY <1>a, <2>1, <4>1 DEF AudioIn, Looping, TypeOK, Progress
        <4> QED BY <1>a, <2>1, <4>2, <4>3 DEF AudioIn, ConstantDelay
      <3>2. Token' /\ Content'
        BY <2>a, <2>1 DEF AudioIn, Looping, Token, Content
      <3> QED BY <1>c, <3>1, <3>2, <2>1 DEF IInv, AudioIn
    <2>2. CASE Read
      <3>1. /\ pc = "read" /\ left > 0 /\ index < BufSamples
            /\ heard' = Sample(got) /\ heard' \in Nat
            /\ ~(got = 0 /\ index = BufSamples)
        <4>1. /\ pc = "read" /\ left > 0 /\ index \in 0 .. BufSamples - 1
              /\ got \in Nat
          BY <1>a, <2>2 DEF Read, TypeOK, Progress
        <4>2. heard' = buffer[current][index]
          BY <2>2 DEF Read
        <4>3. heard' = Sample((got - index) + index)
          BY <2>a, <4>1, <4>2 DEF Content
        <4> QED BY <4>1, <4>3 DEF Sample
      <3>2. TypeOK'
        BY <1>a, <2>2, <3>1 DEF Read, Looping, TypeOK, LockTypeOK
      <3>3. Progress' /\ ConstantDelay'
        BY <1>a, <2>2, <3>1
           DEF Read, Looping, TypeOK, Progress, ConstantDelay, Sample
      <3>4. Token'
        BY <2>a, <2>2, <3>1 DEF Read, Looping, Token
      <3>5. Content'
        <4>1. /\ got \in Nat /\ index \in Nat /\ BufSamples \in Nat
              /\ index' = index + 1 /\ got' = got + 1
              /\ got' - index' = got - index
              /\ UNCHANGED <<current, buffer, recorded, queue, pos>>
          BY <1>a, <2>2 DEF Read, TypeOK, deviceVars
        <4>2. index <= got
          BY <2>a, <3>1 DEF Content
        <4>3. index' <= got' /\ ~(got' = 0 /\ index' = BufSamples)
          BY <4>1, <4>2
        <4>4. \A i \in index' .. BufSamples - 1 : i \in index .. BufSamples - 1
          BY <4>1
        <4>5. \A i \in index' .. BufSamples - 1 :
                 buffer'[current'][i] = Sample((got' - index') + i)
          BY <2>a, <4>1, <4>4 DEF Content
        <4>6. /\ recorded' = IF queue' = <<>> THEN (got' - index') + BufSamples
                                              ELSE (got' - index') + pos'
              /\ \A i \in 0 .. BufSamples - 1 : queue' = <<>> \/ i < pos' =>
                     buffer'[1 - current'][i] = (got' - index') + i + 1
          BY <2>a, <3>1, <4>1 DEF Content
        <4> QED BY <4>3, <4>5, <4>6 DEF Content, Sample
      <3> QED BY <1>c, <2>2, <3>2, <3>3, <3>4, <3>5 DEF IInv, Read
    <2>3. CASE Wait
      <3>1. TypeOK' /\ Progress' /\ ConstantDelay'
        <4>1. LockTypeOK' /\ pc' \in {"wait", "enqueue"}
          BY <1>a, <2>3 DEF Wait, LockPasses, LockSleeps, TypeOK, LockTypeOK
        <4>2. TypeOK'
          BY <1>a, <2>3, <4>1 DEF Wait, TypeOK
        <4>3. Progress' /\ ConstantDelay'
          BY <1>a, <2>3, <4>1
             DEF Wait, LockPasses, LockSleeps, Progress, ConstantDelay
        <4> QED BY <4>2, <4>3
      <3>2. Token' /\ Content'
        BY <2>a, <2>3 DEF Wait, LockPasses, LockSleeps, Token, Content
      <3> QED BY <1>c, <2>3, <3>1, <3>2 DEF IInv, Wait
    <2>4. CASE Wake
      <3>1. TypeOK' /\ Progress' /\ ConstantDelay'
        BY <1>a, <2>4
           DEF Wake, SpuriousWakeup, TypeOK, LockTypeOK, Progress, ConstantDelay
      <3>2. Token' /\ Content'
        BY <2>a, <2>4 DEF Wake, SpuriousWakeup, Token, Content
      <3> QED BY <1>c, <2>4, <3>1, <3>2 DEF IInv, Wake
    <2>5. CASE Enqueue
      <3>1. /\ queue = <<>> /\ callbacks = 0 /\ s = 0 /\ pos = 0
            /\ index = BufSamples /\ left # 0
            /\ current \in {0, 1} /\ 1 - (1 - current) = current
        BY <1>a, <2>a, <2>5 DEF Enqueue, Token, Progress, TypeOK
      <3>2. queue' = <<current>> /\ queue' # <<>> /\ queue' \in Seq({0, 1})
        BY <2>5, <3>1, QueueOfOne DEF Enqueue
      <3>3. TypeOK' /\ Progress' /\ ConstantDelay'
        BY <1>a, <2>5, <3>1, <3>2
           DEF Enqueue, TypeOK, LockTypeOK, Progress, ConstantDelay
      <3>4. Token'
        BY <1>c, <2>5, <3>1, <3>2 DEF Enqueue, Token
      <3>5. Content'
        <4>1. got \in Nat /\ got' = got /\ index' = 0 /\ buffer' = buffer
          BY <1>a, <2>5 DEF Enqueue, TypeOK
        <4>2. \A i \in 0 .. BufSamples - 1 : buffer[1 - current][i] = Sample(got + i)
          <5>1. CASE got = 0
            BY <2>a, <3>1, <5>1 DEF Content, Sample
          <5>2. CASE got # 0
            <6>1. \A i \in 0 .. BufSamples - 1 :
                     buffer[1 - current][i] = (got - BufSamples) + i + 1
              BY <2>a, <3>1, <5>2 DEF Content
            <6>2. BufSamples <= got
              BY <2>a, <3>1, <5>2 DEF Content
            <6> QED BY <4>1, <6>1, <6>2 DEF Sample
          <5> QED BY <5>1, <5>2
        <4>3. recorded = got
          BY <2>a, <3>1, <4>1 DEF Content
        <4> QED BY <2>5, <3>1, <3>2, <4>1, <4>2, <4>3 DEF Enqueue, Content
      <3> QED BY <1>c, <2>5, <3>3, <3>4, <3>5 DEF IInv, Enqueue
    <2>6. CASE Close
      <3>1. LockTypeOK' /\ pos' \in 0 .. BufSamples - 1 /\ queue' \in Seq({0, 1})
        <4>1. queue' = <<>> /\ pos' = 0 /\ s' = 1 /\ asleep' = FALSE
          BY <2>6 DEF Close, Notify
        <4>2. 0 \in 0 .. BufSamples - 1
          OBVIOUS
        <4>3. LockTypeOK'
          BY <4>1 DEF LockTypeOK
        <4> QED BY <4>1, <4>2, <4>3, EmptyQueue
      <3>2. TypeOK'
        BY <1>a, <2>6, <3>1 DEF Close, TypeOK
      <3>3. Progress' /\ ConstantDelay'
        BY <1>a, <2>6 DEF Close, Notify, Progress, ConstantDelay
      <3> QED BY <2>6, <3>2, <3>3 DEF IInv, Close
    <2>7. CASE RecordSample
      <3>1. /\ queue = <<1 - current>> /\ callbacks = 0 /\ s = 0
            /\ pc # "enqueue" /\ 1 - current \in {0, 1}
            /\ 1 - (1 - current) = current
        BY <1>a, <2>a, <2>7 DEF RecordSample, Token, TypeOK
      <3>2. Head(queue) = 1 - current /\ Tail(queue) = <<>> /\ queue # <<>>
        BY <3>1, QueueOfOne
      <3>3. /\ recorded' = recorded + 1
            /\ recorded = (got - index) + pos
            /\ ~(got = 0 /\ index = BufSamples)
        BY <2>a, <2>7, <3>2 DEF RecordSample, Content
      <3>4. /\ recorded + 1 \in Nat /\ pos \in 0 .. BufSamples - 1
            /\ buffer \in [{0, 1} -> [0 .. BufSamples - 1 -> Nat]]
            /\ buffer' = [buffer EXCEPT ![1 - current][pos] = recorded + 1]
        <4>1. recorded \in Nat /\ pos \in 0 .. BufSamples - 1
              /\ buffer \in [{0, 1} -> [0 .. BufSamples - 1 -> Nat]]
          BY <1>a DEF TypeOK
        <4>2. buffer' = [buffer EXCEPT ![Head(queue)][pos] = recorded + 1]
          BY <2>7 DEF RecordSample
        <4>3. buffer' = [buffer EXCEPT ![1 - current][pos] = recorded + 1]
          BY <4>2, <3>2, Zenon
        <4> QED BY <4>1, <4>3
      <3>5. buffer' \in [{0, 1} -> [0 .. BufSamples - 1 -> Nat]]
        BY <3>1, <3>4, OneSampleWritten
      <3>6. \A i \in 0 .. BufSamples - 1 :
               /\ buffer'[1 - (1 - current)][i] = buffer[1 - (1 - current)][i]
               /\ buffer'[1 - current][i] = IF i = pos THEN recorded + 1
                                            ELSE buffer[1 - current][i]
        BY <3>1, <3>4, OneSampleWritten
      <3>7. \A i \in index .. BufSamples - 1 :
               buffer'[current][i] = Sample((got - index) + i)
        BY <1>a, <2>a, <3>1, <3>6 DEF Content, TypeOK
      <3>8. \A i \in 0 .. pos :
               buffer'[1 - current][i] = (got - index) + i + 1
        BY <2>a, <3>2, <3>3, <3>4, <3>6 DEF Content
      <3>9. CASE pos + 1 < BufSamples
        <4>1. pos' = pos + 1 /\ UNCHANGED <<queue, callbacks>>
          BY <2>7, <3>9 DEF RecordSample
        <4>2. TypeOK' /\ Progress' /\ ConstantDelay'
          BY <1>a, <2>7, <3>3, <3>4, <3>5, <3>9, <4>1
             DEF RecordSample, TypeOK, LockTypeOK, Progress, ConstantDelay
        <4>3. Token'
          BY <2>a, <2>7, <3>1, <3>2, <4>1 DEF RecordSample, Token
        <4>4. Content'
          BY <1>a, <2>a, <2>7, <3>2, <3>3, <3>7, <3>8, <4>1
             DEF RecordSample, Content, TypeOK
        <4> QED BY <1>c, <2>7, <4>2, <4>3, <4>4 DEF IInv, RecordSample
      <3>10. CASE ~(pos + 1 < BufSamples)
        <4>1. pos' = 0 /\ queue' = <<>> /\ callbacks' = 1 /\ pos + 1 = BufSamples
          BY <1>a, <2>7, <3>1, <3>2, <3>10 DEF RecordSample, TypeOK
        <4>2. TypeOK' /\ Progress' /\ ConstantDelay'
          BY <1>a, <2>7, <3>3, <3>4, <3>5, <4>1, EmptyQueue
             DEF RecordSample, TypeOK, LockTypeOK, Progress, ConstantDelay
        <4>3. Token'
          BY <2>a, <2>7, <3>1, <4>1 DEF RecordSample, Token
        <4>4. Content'
          BY <1>a, <2>a, <2>7, <3>3, <3>7, <3>8, <4>1
             DEF RecordSample, Content, TypeOK
        <4> QED BY <1>c, <2>7, <4>2, <4>3, <4>4 DEF IInv, RecordSample
      <3> QED BY <3>9, <3>10
    <2>8. CASE RecorderCallback
      <3>1. LockTypeOK'
        BY <2>8 DEF RecorderCallback, Notify, LockTypeOK
      <3>2. TypeOK'
        BY <1>a, <2>8, <3>1 DEF RecorderCallback, TypeOK
      <3>3. Progress' /\ ConstantDelay'
        BY <1>a, <2>8 DEF RecorderCallback, Notify, Progress, ConstantDelay
      <3>4. Token' /\ Content'
        BY <2>a, <2>8 DEF RecorderCallback, Notify, Token, Content
      <3> QED BY <1>c, <2>8, <3>2, <3>3, <3>4 DEF IInv, RecorderCallback
    <2>9. CASE UNCHANGED vars
      BY <2>9
         DEF vars, IInv, TypeOK, LockTypeOK, Progress, Token, Content,
             ConstantDelay
    <2> QED
      BY <2>1, <2>2, <2>3, <2>4, <2>5, <2>6, <2>7, <2>8, <2>9
         DEF Next, Caller, Driver
  <1> QED BY <1>b, <1>c

\* Every reachable state satisfies the inductive invariant.
LEMMA Inductive == Spec => []IInv
  BY InitIInv, NextIInv, PTL DEF Spec

\* Every reachable state has the types of TypeOK; in particular the index never
\* leaves the buffer, whatever the sizes of the calls.
THEOREM TypeCorrect == Spec => []TypeOK
  <1>1. IInv => TypeOK
    BY DEF IInv
  <1> QED BY <1>1, Inductive, PTL

\* The caller never reads a buffer the recorder holds, for any number of
\* samples in a buffer and in a call.
THEOREM RecorderBuffersAreSafe == Spec => []NoTornRead
  <1>1. IInv => NoTornRead
    <2> SUFFICES ASSUME IInv, pc = "read", NEW i \in DOMAIN queue
                 PROVE  queue[i] # current
      BY DEF NoTornRead
    <2>1. open /\ Token /\ current \in {0, 1}
      BY DEF IInv, TypeOK
    <2>2. queue = <<1 - current>>
      BY <2>1 DEF Token
    <2> QED BY <2>1, <2>2
  <1> QED BY <1>1, Inductive, PTL

\* What android_AudioIn returns is always one buffer late, and never later.
THEOREM DelayIsConstant == Spec => []ConstantDelay
  <1>1. IInv => ConstantDelay
    BY DEF IInv
  <1> QED BY <1>1, Inductive, PTL

\* A step of the stream is a step of AudioPipe, or none.
LEMMA StepIsPipeStep ==
  IInv /\ [Next]_vars => [Pipe!Next]_<<recorded, heard>>
  <1> SUFFICES ASSUME IInv, [Next]_vars PROVE [Pipe!Next]_<<recorded, heard>>
    OBVIOUS
  <1> USE DEF lockVars, callerVars, deviceVars
  <1>1. CASE Read
    <2>1. /\ open /\ Content /\ pc = "read" /\ index < BufSamples
          /\ UNCHANGED recorded /\ got' = got + 1 /\ pos \in Nat
          /\ got \in Nat /\ index \in Nat /\ BufSamples \in Nat
          /\ recorded \in Nat
      BY <1>1, SizesAssumption DEF Read, IInv, TypeOK, Progress
    <2>2. recorded >= got - index
      BY <2>1 DEF Content
    <2>3. ConstantDelay /\ ConstantDelay'
      BY NextIInv DEF IInv
    <2>4. CASE got + 1 <= BufSamples
      <3>1. heard' = heard
        BY <2>1, <2>3, <2>4 DEF ConstantDelay
      <3> QED BY <2>1, <3>1
    <2>5. CASE got + 1 > BufSamples
      <3>1. heard = got - BufSamples /\ heard' = heard + 1
        BY <2>1, <2>3, <2>5 DEF ConstantDelay
      <3>2. heard < recorded
        BY <2>1, <2>2, <3>1
      <3> QED BY <2>1, <3>1, <3>2 DEF Pipe!Next, Pipe!Get
    <2> QED BY <2>1, <2>4, <2>5
  <1>2. CASE RecordSample
    <2>1. /\ open /\ Content /\ queue # <<>> /\ UNCHANGED heard
          /\ recorded' = recorded + 1 /\ pos \in 0 .. BufSamples - 1
          /\ got \in Nat /\ index \in Nat /\ BufSamples \in Nat
          /\ ConstantDelay
      BY <1>2, SizesAssumption DEF RecordSample, IInv, TypeOK
    <2>2. recorded = (got - index) + pos
      BY <2>1 DEF Content
    <2>3. recorded - heard < 2 * BufSamples
      BY <2>1, <2>2 DEF ConstantDelay
    <2> QED BY <2>1, <2>3 DEF Pipe!Next, Pipe!Put
  <1>3. CASE ~Read /\ ~RecordSample
    <2>1. UNCHANGED <<recorded, heard>>
      BY <1>3 DEF Next, Caller, Driver, AudioIn, Wait, Enqueue, Wake, Close,
                  RecorderCallback, vars
    <2> QED BY <2>1
  <1> QED BY <1>1, <1>2, <1>3

\* The stream implements AudioPipe: what is read is what was recorded, in
\* order, each sample once, and never more than two buffers behind.
THEOREM RecordImplementsPipe == Spec => PipeSpec
  <1>1. Init => Pipe!Init
    BY DEF Init, Pipe!Init
  <1> QED BY <1>1, StepIsPipeStep, Inductive, PTL DEF Spec, PipeSpec, Pipe!Spec
-----------------------------------------------------------------------------
(* android_AudioIn returns, as far as it is a matter of safety. *)

\* The caller can go on, or the driver has to: it has a buffer, or a callback
\* to make.
CanGoOn ==
    \/ pc \in {"read", "enqueue"}
    \/ pc = "wait" /\ ~asleep
    \/ queue # <<>> \/ callbacks > 0

\* A thread sleeps only while the flag is not set and the driver still owes it
\* the callback that sets it.
SleeperIsOwed == asleep => s = 0 /\ (queue # <<>> \/ callbacks > 0)

\* What is left to do in the call, by the caller (a buffer costs it two steps
\* and a sleep) and by the driver (twice its steps, as a callback also wakes).
CallerWork ==
    IF pc = "wait" THEN 2 * BufSamples + (IF asleep THEN 5 ELSE 6)
    ELSE IF pc = "enqueue" THEN 2 * BufSamples + 4 ELSE 0

DeviceWork == IF queue = <<>> THEN 2 * callbacks ELSE 2 * (BufSamples - pos) + 2

Work == left * (2 * BufSamples + 7) + CallerWork + DeviceWork

\* The flag is not set while the caller sleeps.
LEMMA FlagWakes == Spec => [](asleep => s = 0)
  <1> DEFINE P == asleep => s = 0
  <1>1. Init => P
    BY DEF Init, LockInit
  <1>2. P /\ [Next]_vars => P'
    BY DEF Next, Caller, Driver, AudioIn, Read, Wait, Wake, Enqueue, Close,
           RecordSample, RecorderCallback, LockPasses, LockSleeps, SpuriousWakeup,
           Notify, vars, lockVars
  <1> QED BY <1>1, <1>2, PTL DEF Spec

\* No wake-up is lost, whatever the sizes: a caller that sleeps is owed a
\* callback, and while a call of android_AudioIn lasts there is always a step
\* for its thread or for the driver.
THEOREM NoWakeUpIsLost ==
  Spec => [](SleeperIsOwed /\ (pc # "idle" => CanGoOn))
  <1>1. IInv /\ (asleep => s = 0) => SleeperIsOwed /\ (pc # "idle" => CanGoOn)
    <2> SUFFICES ASSUME IInv, asleep => s = 0
                 PROVE  SleeperIsOwed /\ (pc # "idle" => CanGoOn)
      OBVIOUS
    <2>1. CASE ~open
      BY <2>1 DEF IInv, Progress, SleeperIsOwed
    <2>2. CASE open
      <3>1. Token /\ Progress /\ pc \in {"idle", "read", "wait", "enqueue"}
        BY <2>2 DEF IInv, TypeOK
      <3>2. <<1 - current>> # <<>> /\ 1 > 0
        OBVIOUS
      <3>3. asleep => pc = "wait" /\ s # 1
        BY <3>1 DEF Progress
      <3>4. asleep => queue # <<>> \/ callbacks > 0
        BY <3>1, <3>2, <3>3 DEF Token
      <3> QED BY <3>1, <3>3, <3>4 DEF SleeperIsOwed, CanGoOn
    <2> QED BY <2>1, <2>2
  <1> QED BY <1>1, Inductive, FlagWakes, PTL

\* One sample less to copy, and what that takes off the work.
LEMMA OneSampleLess ==
  ASSUME NEW n \in Nat, NEW m \in Nat, n > 0
  PROVE  n * m \in Nat /\ (n - 1) * m \in Nat /\ n * m = (n - 1) * m + m
  <1>1. n - 1 \in Nat /\ n = (n - 1) + 1
    OBVIOUS
  <1> QED BY <1>1, SMT

\* Sums that fall.
LEMMA LessToDo ==
  ASSUME NEW a \in Nat, NEW b \in Nat, NEW a1 \in Nat, NEW b1 \in Nat
  PROVE  /\ \A k \in Nat : a1 + b1 < a + b => k + a1 + b1 < k + a + b
         /\ a1 <= a + 1 /\ b = 2 /\ b1 = 0 => a1 + b1 < a + b
  OBVIOUS

\* The work is a number.
LEMMA WorkType == IInv => Work \in Nat
  <1> SUFFICES ASSUME IInv PROVE Work \in Nat
    OBVIOUS
  <1>1. TypeOK
    BY DEF IInv
  <1>2. CallerWork \in Nat
    BY <1>1, SizesAssumption DEF CallerWork, TypeOK
  <1>3. DeviceWork \in Nat
    BY <1>1, SizesAssumption DEF DeviceWork, TypeOK
  <1>4. left * (2 * BufSamples + 7) \in Nat
    <2>1. left \in Nat /\ 2 * BufSamples + 7 \in Nat
      BY <1>1, SizesAssumption DEF TypeOK
    <2> QED BY <2>1, SMT
  <1> HIDE DEF CallerWork
  <1> QED BY <1>2, <1>3, <1>4 DEF Work

\* While a call lasts, every step of the two threads leaves less to do.
LEMMA StepsWork ==
  ASSUME IInv, IInv', [Next]_vars, vars' # vars, pc # "idle", ~Wake
  PROVE  Work' < Work
  <1> USE SizesAssumption DEF lockVars, callerVars, deviceVars
  <1>1. TypeOK /\ Progress /\ TypeOK' /\ Progress'
    BY DEF IInv
  <1>2. open /\ Token
    BY DEF IInv
  <1> DEFINE B == 2 * BufSamples + 7
  <1>3. CASE Read
    <2>1. left > 0 /\ left' = left - 1
      BY <1>1, <1>3 DEF Read, Progress
    <2>2. left * B \in Nat /\ left' * B \in Nat /\ left * B = left' * B + B
      <3>1. left \in Nat /\ B \in Nat
        BY <1>1 DEF TypeOK
      <3> HIDE DEF B
      <3> QED BY <2>1, <3>1, OneSampleLess
    <2>3. DeviceWork' = DeviceWork
      BY <1>3 DEF Read, DeviceWork
    <2>4. DeviceWork \in Nat
      BY <1>1 DEF DeviceWork, TypeOK
    <2>5. CallerWork = 0 /\ CallerWork' \in Nat /\ CallerWork' < B
      BY <1>1, <1>3 DEF Read, CallerWork, Looping, Progress, TypeOK
    <2> HIDE DEF CallerWork, DeviceWork
    <2>6. B \in Nat
      BY DEF B
    <2> HIDE DEF B
    <2>7. /\ Work = left * B + CallerWork + DeviceWork
          /\ Work' = left' * B + CallerWork' + DeviceWork'
      BY DEF Work, B
    <2> QED BY <2>2, <2>3, <2>4, <2>5, <2>6, <2>7
  <1>4. CASE ~Read
    <2>1. left' = left
      BY <1>4 DEF Next, Caller, Driver, AudioIn, Wait, Wake, Enqueue, Close,
                  RecordSample, RecorderCallback, vars
    <2>2. left * B \in Nat
      <3>1. left \in Nat /\ B \in Nat
        BY <1>1 DEF TypeOK
      <3> HIDE DEF B
      <3> QED BY <3>1, SMT
    <2>3. /\ CallerWork' + DeviceWork' < CallerWork + DeviceWork
          /\ CallerWork \in Nat /\ CallerWork' \in Nat
          /\ DeviceWork \in Nat /\ DeviceWork' \in Nat
      <3>1. CASE Wait
        BY <1>1, <3>1 DEF Wait, LockPasses, LockSleeps, CallerWork, DeviceWork, TypeOK
      <3>2. CASE Enqueue
        <4>1. queue = <<>> /\ callbacks = 0 /\ pos = 0 /\ callbacks' = 0 /\ pos' = 0
          BY <1>2, <3>2 DEF Enqueue, Token
        <4>2. queue' # <<>>
          BY <3>2, <4>1, <1>1, QueueOfOne DEF Enqueue, TypeOK
        <4>3. DeviceWork = 0 /\ DeviceWork' = 2 * BufSamples + 2
          BY <4>1, <4>2 DEF DeviceWork
        <4>4. CallerWork = 2 * BufSamples + 4 /\ CallerWork' = 0
          BY <3>2 DEF Enqueue, Looping, CallerWork
        <4> QED BY <4>3, <4>4
      <3>3. CASE RecordSample
        <4>1. CallerWork' = CallerWork /\ CallerWork \in Nat
          BY <1>1, <3>3 DEF RecordSample, CallerWork, TypeOK
        <4>2. queue = <<1 - current>> /\ callbacks = 0 /\ 1 - current \in {0, 1}
          BY <1>1, <1>2, <3>3 DEF RecordSample, Token, TypeOK
        <4>3. Tail(queue) = <<>>
          BY <4>2, QueueOfOne
        <4>4. DeviceWork = 2 * (BufSamples - pos) + 2
          BY <4>2, <3>3 DEF RecordSample, DeviceWork
        <4>5. DeviceWork' = 2 * (BufSamples - pos)
          <5>1. CASE pos + 1 < BufSamples
            BY <1>1, <3>3, <5>1 DEF RecordSample, DeviceWork, TypeOK
          <5>2. CASE ~(pos + 1 < BufSamples)
            <6>1. queue' = <<>> /\ callbacks' = 1
              BY <3>3, <4>2, <4>3, <5>2 DEF RecordSample
            <6>2. BufSamples - pos = 1
              BY <1>1, <5>2 DEF TypeOK
            <6> QED BY <6>1, <6>2 DEF DeviceWork
          <5> QED BY <5>1, <5>2
        <4>6. BufSamples - pos \in Nat
          BY <1>1 DEF TypeOK
        <4> HIDE DEF CallerWork, DeviceWork
        <4> QED BY <4>1, <4>4, <4>5, <4>6
      <3>4. CASE RecorderCallback
        <4>1. queue = <<>> /\ callbacks = 1 /\ callbacks' = 0 /\ queue' = <<>>
          BY <1>2, <3>4 DEF RecorderCallback, Token
        <4>2. DeviceWork = 2 /\ DeviceWork' = 0
          BY <4>1 DEF DeviceWork
        <4>3. CallerWork' <= CallerWork + 1 /\ CallerWork \in Nat /\ CallerWork' \in Nat
          BY <1>1, <3>4 DEF RecorderCallback, Notify, CallerWork, TypeOK
        <4>4. DeviceWork \in Nat /\ DeviceWork' \in Nat
          BY <4>2
        <4> HIDE DEF CallerWork, DeviceWork
        <4> QED BY <4>2, <4>3, <4>4, LessToDo
      <3> QED BY <1>4, <3>1, <3>2, <3>3, <3>4
           DEF Next, Caller, Driver, AudioIn, Close
    <2> HIDE DEF CallerWork, DeviceWork
    <2>4. B \in Nat
      BY DEF B
    <2> HIDE DEF B
    <2>5. /\ Work = left * B + CallerWork + DeviceWork
          /\ Work' = left * B + CallerWork' + DeviceWork'
      BY <2>1 DEF Work, B
    <2> QED BY <2>2, <2>3, <2>5, LessToDo
  <1> QED BY <1>3, <1>4

\* A call of android_AudioIn is over after at most Work steps of its thread and
\* of the driver, whatever the sizes; only a wake-up that nobody asked for lets
\* it take a step more.
THEOREM CallsComeToAnEnd ==
  Spec => /\ [](Work \in Nat)
          /\ [][pc # "idle" => Work' < Work \/ Wake]_vars
  <1>1. IInv /\ IInv' /\ [Next]_vars => [pc # "idle" => Work' < Work \/ Wake]_vars
    BY StepsWork
  <1> QED BY <1>1, WorkType, Inductive, PTL DEF Spec
=============================================================================
