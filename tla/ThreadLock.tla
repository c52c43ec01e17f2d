------------------------------ MODULE ThreadLock ------------------------------
(***************************************************************************)
(* The thread lock of opensl_io.c: a flag s behind a mutex and a condition *)
(* variable.  One thread, the one that records or plays, waits; the audio  *)
(* driver's callback thread notifies.  Neither blocks while it holds the   *)
(* mutex (pthread_cond_wait gives it up as it falls asleep), so each       *)
(* critical section is one step.                                           *)
(***************************************************************************)
EXTENDS Naturals

VARIABLES
    s,          \* the flag: 1 when the next wait passes
    asleep      \* the waiting thread is inside pthread_cond_wait

lockVars == <<s, asleep>>

LockTypeOK == s \in {0, 1} /\ asleep \in BOOLEAN

\* createThreadLock, and then the notifyThreadLock at the end of
\* android_OpenAudioDevice, which finds the flag already set.
LockInit == s = 1 /\ asleep = FALSE

LockPassesUnchecked ==      \* a mutant: an if where the code has a while
    /\ ~asleep
    /\ s' = 0
    /\ UNCHANGED asleep

\* waitThreadLock with the mutex held: the flag is taken ...
LockPasses ==
    /\ ~asleep
    /\ s = 1
    /\ s' = 0
    /\ UNCHANGED asleep

\* ... or the thread sleeps.
LockSleeps ==
    /\ ~asleep
    /\ s = 0
    /\ asleep' = TRUE
    /\ UNCHANGED s

\* pthread_cond_wait may return without a signal.
SpuriousWakeup ==
    /\ asleep
    /\ asleep' = FALSE
    /\ UNCHANGED s

NotifyUnsignalled ==        \* a mutant: pthread_cond_signal is left out
    /\ s' = 1
    /\ UNCHANGED asleep

\* notifyThreadLock.
Notify ==
    /\ s' = 1
    /\ asleep' = FALSE
=============================================================================
