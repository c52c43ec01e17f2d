----------------------------- MODULE OpenSLRecord -----------------------------
(***************************************************************************)
(* A recording stream of opensl_io.c, from android_OpenAudioDevice in      *)
(* RECORD_MODE to android_CloseAudioDevice: android_AudioIn copies samples *)
(* out of one of two buffers while the OpenSL ES recorder fills the other, *)
(* which it was given in its buffer queue, and calls bqRecorderCallback    *)
(* when it is full.                                                        *)
(*                                                                         *)
(* Nothing is recorded before the first call.  That call asks for the      *)
(* first buffer and reads the other one, which nobody has filled: it gets  *)
(* the zeros of calloc.                                                    *)
(***************************************************************************)
EXTENDS ThreadLock, Sequences

CONSTANTS
    BufSamples,     \* inBufSamples
    CallSizes,      \* the sizes android_AudioIn is called with
    MaxSamples      \* a bound on the samples read

ASSUME SizesAssumption ==
    /\ BufSamples \in Nat \ {0}
    /\ CallSizes \subseteq Nat \ {0}
    /\ MaxSamples \in Nat

VARIABLES
    pc,         \* where the caller is in android_AudioIn
    left,       \* size - i
    current,    \* currentInputBuffer
    index,      \* currentInputIndex
    buffer,     \* inputBuffer[b][i]: the number of the sample it holds
    got,        \* how many samples were read
    heard,      \* the number of the sample read last, 0 for the zeros
    open,       \* the stream is not closed
    queue,      \* the recorder's buffer queue
    pos,        \* samples of the first queued buffer recorded so far
    callbacks,  \* buffers recorded whose callback has not run
    recorded    \* the number of samples recorded

callerVars == <<pc, left, current, index, got, heard, open>>
deviceVars == <<queue, pos, callbacks, recorded>>
vars == <<lockVars, callerVars, buffer, deviceVars>>

TypeOK ==
    /\ LockTypeOK
    /\ pc \in {"idle", "read", "wait", "enqueue"}
    /\ left \in Nat
    /\ current \in {0, 1}
    /\ index \in 0 .. BufSamples
    /\ buffer \in [{0, 1} -> [0 .. BufSamples - 1 -> Nat]]
    /\ got \in Nat /\ heard \in Nat
    /\ open \in BOOLEAN
    /\ queue \in Seq({0, 1})
    /\ pos \in 0 .. BufSamples - 1
    /\ callbacks \in Nat
    /\ recorded \in Nat

Init ==
    /\ LockInit
    /\ pc = "idle" /\ left = 0
    /\ current = 0 /\ index = BufSamples
    /\ buffer = [b \in {0, 1} |-> [i \in 0 .. BufSamples - 1 |-> 0]]
    /\ got = 0 /\ heard = 0
    /\ open = TRUE
    /\ queue = <<>> /\ pos = 0 /\ callbacks = 0
    /\ recorded = 0

-----------------------------------------------------------------------------
(* The caller. *)

\* The loop of android_AudioIn, n samples before its end, at index i.
Looping(n, i) ==
    IF n = 0 THEN "idle" ELSE IF i >= BufSamples THEN "wait" ELSE "read"

AudioIn(size) ==
    /\ pc = "idle" /\ open
    /\ got + size <= MaxSamples
    /\ left' = size
    /\ pc' = Looping(size, index)
    /\ UNCHANGED <<lockVars, current, index, got, heard, open, buffer,
                   deviceVars>>

Read ==
    /\ pc = "read"
    /\ heard' = buffer[current][index]
    /\ got' = got + 1
    /\ index' = index + 1
    /\ left' = left - 1
    /\ pc' = Looping(left - 1, index + 1)
    /\ UNCHANGED <<lockVars, current, open, buffer, deviceVars>>

Wait ==
    /\ pc = "wait"
    /\ \/ LockPasses /\ pc' = "enqueue"
       \/ LockSleeps /\ UNCHANGED pc
    /\ UNCHANGED <<left, current, index, got, heard, open, buffer, deviceVars>>

Wake ==
    /\ SpuriousWakeup
    /\ UNCHANGED <<callerVars, buffer, deviceVars>>

EnqueueOther ==     \* a mutant: the buffer about to be read is enqueued
    /\ pc = "enqueue"
    /\ current' = 1 - current
    /\ queue' = Append(queue, current')
    /\ index' = 0
    /\ pc' = "read"
    /\ UNCHANGED <<lockVars, left, got, heard, open, buffer, pos, callbacks,
                   recorded>>

EnqueueSameBuffer ==    \* a mutant: the halves are not exchanged
    /\ pc = "enqueue"
    /\ queue' = Append(queue, current)
    /\ index' = 0
    /\ pc' = "read"
    /\ UNCHANGED <<lockVars, left, current, got, heard, open, buffer, pos,
                   callbacks, recorded>>

\* The buffer that was read is given to the recorder, and the other one, which
\* is full, is read.
Enqueue ==
    /\ pc = "enqueue"
    /\ queue' = Append(queue, current)
    /\ current' = 1 - current
    /\ index' = 0
    /\ pc' = "read"
    /\ UNCHANGED <<lockVars, left, got, heard, open, buffer, pos, callbacks,
                   recorded>>

\* android_CloseAudioDevice, by the caller's thread.
Close ==
    /\ pc = "idle" /\ open
    /\ open' = FALSE
    /\ queue' = <<>> /\ pos' = 0 /\ callbacks' = 0
    /\ Notify
    /\ UNCHANGED <<pc, left, current, index, got, heard, buffer, recorded>>

-----------------------------------------------------------------------------
(* The OpenSL ES driver.  It drops the samples for which it has no buffer. *)

RecordSample ==
    /\ queue # <<>>
    /\ recorded' = recorded + 1
    /\ buffer' = [buffer EXCEPT ![Head(queue)][pos] = recorded + 1]
    /\ IF pos + 1 < BufSamples
       THEN pos' = pos + 1 /\ UNCHANGED <<queue, callbacks>>
       ELSE pos' = 0 /\ queue' = Tail(queue) /\ callbacks' = callbacks + 1
    /\ UNCHANGED <<lockVars, callerVars>>

\* bqRecorderCallback.
RecorderCallback ==
    /\ callbacks > 0
    /\ callbacks' = callbacks - 1
    /\ Notify
    /\ UNCHANGED <<callerVars, buffer, queue, pos, recorded>>

-----------------------------------------------------------------------------
Caller == Read \/ Wait \/ Enqueue
Driver == RecordSample \/ RecorderCallback

Next ==
    \/ \E size \in CallSizes : AudioIn(size)
    \/ Caller \/ Wake \/ Close
    \/ Driver

Spec == Init /\ [][Next]_vars

FairSpec == Spec /\ WF_vars(Caller) /\ WF_vars(Driver)

-----------------------------------------------------------------------------
\* The caller never reads a buffer the recorder is filling or will fill.
NoTornRead ==
    pc = "read" => \A i \in DOMAIN queue : queue[i] # current

\* The samples recorded are read as AudioPipe has it: in order, none twice,
\* none skipped; at most two buffers are on their way.
Pipe == INSTANCE AudioPipe
            WITH in <- recorded, out <- heard, Capacity <- 2 * BufSamples

PipeSpec == Pipe!Spec

\* What is read is silence for one buffer, and then always the sample recorded
\* one buffer earlier: the delay of the stream never grows.
ConstantDelay == heard = IF got <= BufSamples THEN 0 ELSE got - BufSamples

\* android_AudioIn returns.
AudioInReturns == pc # "idle" ~> pc = "idle"

-----------------------------------------------------------------------------
\* One token, as in OpenSLPlay; the first buffer is asked for by the first call.
Token ==
    /\ open
    /\ \/ s = 1 /\ pc # "enqueue" /\ queue = <<>> /\ callbacks = 0
       \/ s = 0 /\ pc = "enqueue" /\ queue = <<>> /\ callbacks = 0
       \/ s = 0 /\ pc # "enqueue" /\ queue = <<1 - current>> /\ callbacks = 0
       \/ s = 0 /\ pc # "enqueue" /\ queue = <<>> /\ callbacks = 1
    /\ queue = <<>> => pos = 0

\* Where the caller is tells how far it has come.
Progress ==
    /\ pc = "read" => index < BufSamples /\ left > 0
    /\ pc = "idle" <=> left = 0
    /\ pc \in {"wait", "enqueue"} => index = BufSamples
    /\ asleep => pc = "wait"

\* The number of the sample that is read after n others.
Sample(n) == IF n < BufSamples THEN 0 ELSE n + 1 - BufSamples

\* What the two buffers hold.  Before the first call both hold silence.
Content ==
    /\ (got = 0 /\ index = BufSamples) \/ index <= got
    /\ \A i \in index .. BufSamples - 1 :
           buffer[current][i] = Sample((got - index) + i)
    /\ IF got = 0 /\ index = BufSamples
       THEN recorded = 0 /\ queue = <<>> /\ \A i \in 0 .. BufSamples - 1 :
                buffer[1 - current][i] = 0
       ELSE /\ recorded = IF queue = <<>> THEN (got - index) + BufSamples
                                          ELSE (got - index) + pos
            /\ \A i \in 0 .. BufSamples - 1 : queue = <<>> \/ i < pos =>
                   buffer[1 - current][i] = (got - index) + i + 1

IInv ==
    /\ TypeOK /\ Progress /\ ConstantDelay
    /\ IF open THEN Token /\ Content
               ELSE queue = <<>> /\ callbacks = 0 /\ pc = "idle"
=============================================================================
