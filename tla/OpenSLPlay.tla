------------------------------ MODULE OpenSLPlay ------------------------------
(***************************************************************************)
(* A playing stream of opensl_io.c, from android_OpenAudioDevice in        *)
(* PLAY_MODE to android_CloseAudioDevice: android_AudioOut copies samples  *)
(* into one of two buffers and hands each full buffer to the queue of the  *)
(* OpenSL ES player, which reads it in place and calls bqPlayerCallback    *)
(* when it has played it.                                                  *)
(*                                                                         *)
(* Two threads: the caller of android_AudioOut, and the driver's.  All     *)
(* they have in common is the thread lock: it has to keep the caller out   *)
(* of the buffer the driver reads.                                         *)
(***************************************************************************)
EXTENDS ThreadLock, Sequences

CONSTANTS
    BufSamples,     \* outBufSamples
    CallSizes,      \* the sizes android_AudioOut is called with
    MaxSamples      \* a bound on the samples written

ASSUME SizesAssumption ==
    /\ BufSamples \in Nat \ {0}
    /\ CallSizes \subseteq Nat \ {0}
    /\ MaxSamples \in Nat

VARIABLES
    pc,         \* where the caller is in android_AudioOut
    left,       \* size - i
    current,    \* currentOutputBuffer
    index,      \* currentOutputIndex
    buffer,     \* outputBuffer[b][i]: the number of the sample it holds
    written,    \* the number of samples written so far
    open,       \* the stream is not closed
    queue,      \* the player's buffer queue
    pos,        \* samples of the first queued buffer played so far
    callbacks,  \* buffers played whose callback has not run
    played      \* the number of the sample played last

callerVars == <<pc, left, current, index, buffer, written, open>>
deviceVars == <<queue, pos, callbacks, played>>
vars == <<lockVars, callerVars, deviceVars>>

TypeOK ==
    /\ LockTypeOK
    /\ pc \in {"idle", "fill", "wait", "enqueue"}
    /\ left \in Nat
    /\ current \in {0, 1}
    /\ index \in 0 .. BufSamples
    /\ buffer \in [{0, 1} -> [0 .. BufSamples - 1 -> Nat]]
    /\ written \in Nat
    /\ open \in BOOLEAN
    /\ queue \in Seq({0, 1})
    /\ pos \in 0 .. BufSamples - 1
    /\ callbacks \in Nat
    /\ played \in Nat

Init ==
    /\ LockInit
    /\ pc = "idle" /\ left = 0
    /\ current = 0 /\ index = 0
    /\ buffer = [b \in {0, 1} |-> [i \in 0 .. BufSamples - 1 |-> 0]]
    /\ written = 0
    /\ open = TRUE
    /\ queue = <<>> /\ pos = 0 /\ callbacks = 0
    /\ played = 0

-----------------------------------------------------------------------------
(* The caller. *)

\* The loop of android_AudioOut goes on, or has written all it was given.
Looping(n) == IF n > 0 THEN "fill" ELSE "idle"

AudioOut(size) ==
    /\ pc = "idle" /\ open
    /\ written + size <= MaxSamples
    /\ pc' = "fill"
    /\ left' = size
    /\ UNCHANGED <<lockVars, current, index, buffer, written, open, deviceVars>>

\* One sample is copied; a full buffer has to be handed over first.
Fill ==
    /\ pc = "fill"
    /\ buffer' = [buffer EXCEPT ![current][index] = written + 1]
    /\ written' = written + 1
    /\ index' = index + 1
    /\ left' = left - 1
    /\ pc' = IF index + 1 >= BufSamples THEN "wait" ELSE Looping(left - 1)
    /\ UNCHANGED <<lockVars, current, open, deviceVars>>

Wait ==
    /\ pc = "wait"
    /\ \/ LockPasses /\ pc' = "enqueue"
       \/ LockSleeps /\ UNCHANGED pc
    /\ UNCHANGED <<left, current, index, buffer, written, open, deviceVars>>

Wake ==
    /\ SpuriousWakeup
    /\ UNCHANGED <<callerVars, deviceVars>>

EnqueueSameBuffer ==    \* a mutant: the halves are not exchanged
    /\ pc = "enqueue"
    /\ queue' = Append(queue, current)
    /\ index' = 0
    /\ pc' = Looping(left)
    /\ UNCHANGED <<lockVars, left, current, buffer, written, open, pos,
                   callbacks, played>>

EnqueueKeepsIndex ==    \* a mutant: index is not reset
    /\ pc = "enqueue"
    /\ queue' = Append(queue, current)
    /\ current' = 1 - current
    /\ pc' = Looping(left)
    /\ UNCHANGED <<lockVars, left, index, buffer, written, open, pos,
                   callbacks, played>>

Enqueue ==
    /\ pc = "enqueue"
    /\ queue' = Append(queue, current)
    /\ current' = 1 - current
    /\ index' = 0
    /\ pc' = Looping(left)
    /\ UNCHANGED <<lockVars, left, buffer, written, open, pos, callbacks,
                   played>>

\* android_CloseAudioDevice, by the caller's thread: the player is destroyed
\* first, with whatever it has not played, so no callback comes any more; then
\* the lock is notified and destroyed.
Close ==
    /\ pc = "idle" /\ open
    /\ open' = FALSE
    /\ queue' = <<>> /\ pos' = 0 /\ callbacks' = 0
    /\ Notify
    /\ UNCHANGED <<pc, left, current, index, buffer, written, played>>

-----------------------------------------------------------------------------
(* The OpenSL ES driver. *)

PlaySample ==
    /\ queue # <<>>
    /\ played' = buffer[Head(queue)][pos]
    /\ IF pos + 1 < BufSamples
       THEN pos' = pos + 1 /\ UNCHANGED <<queue, callbacks>>
       ELSE pos' = 0 /\ queue' = Tail(queue) /\ callbacks' = callbacks + 1
    /\ UNCHANGED <<lockVars, callerVars>>

\* bqPlayerCallback.
PlayerCallback ==
    /\ callbacks > 0
    /\ callbacks' = callbacks - 1
    /\ Notify
    /\ UNCHANGED <<callerVars, queue, pos, played>>

-----------------------------------------------------------------------------
Caller == Fill \/ Wait \/ Enqueue
Driver == PlaySample \/ PlayerCallback

Next ==
    \/ \E size \in CallSizes : AudioOut(size)
    \/ Caller \/ Wake \/ Close
    \/ Driver

Spec == Init /\ [][Next]_vars

\* The caller's thread runs, and a player that has a buffer plays it.  Nobody
\* has to call android_AudioOut, and no wake-up comes unasked.
FairSpec == Spec /\ WF_vars(Caller) /\ WF_vars(Driver)

-----------------------------------------------------------------------------
\* The caller never writes into a buffer the player is reading or will read.
NoOverwrite ==
    pc = "fill" => \A i \in DOMAIN queue : queue[i] # current

\* The samples are played as AudioPipe has it: in order, none twice, none
\* skipped; at most two buffers are on their way.
Pipe == INSTANCE AudioPipe
            WITH in <- written, out <- played, Capacity <- 2 * BufSamples

PipeSpec == Pipe!Spec

\* android_AudioOut returns: the wake-up of its thread is never lost.
AudioOutReturns == pc # "idle" ~> pc = "idle"

-----------------------------------------------------------------------------
\* One token, which the lock, the caller, the player and the callback hand on:
\* s is 1, or the caller is between its wait and its enqueue, or the other
\* buffer is queued, or its callback is due.
Token ==
    /\ open
    /\ \/ s = 1 /\ pc # "enqueue" /\ queue = <<>> /\ callbacks = 0
       \/ s = 0 /\ pc = "enqueue" /\ queue = <<>> /\ callbacks = 0
       \/ s = 0 /\ pc # "enqueue" /\ queue = <<1 - current>> /\ callbacks = 0
       \/ s = 0 /\ pc # "enqueue" /\ queue = <<>> /\ callbacks = 1
    /\ queue = <<>> => pos = 0

\* Where the caller is tells how far it has come.
Progress ==
    /\ pc = "fill" => index < BufSamples /\ left > 0
    /\ pc = "idle" => index < BufSamples /\ left = 0
    /\ pc \in {"wait", "enqueue"} => index = BufSamples
    /\ asleep => pc = "wait"

\* What the buffers hold, and which sample is played next.
Content ==
    /\ index <= written
    /\ \A i \in 0 .. index - 1 : buffer[current][i] = (written - index) + i + 1
    /\ queue = <<>> => played = written - index
    /\ queue # <<>> =>
         /\ BufSamples <= written - index
         /\ played = ((written - index) - BufSamples) + pos
         /\ \A i \in 0 .. BufSamples - 1 :
                buffer[1 - current][i] = ((written - index) - BufSamples) + i + 1

IInv ==
    /\ TypeOK
    /\ Progress
    /\ IF open THEN Token /\ Content ELSE queue = <<>> /\ callbacks = 0 /\ pc = "idle"
=============================================================================
