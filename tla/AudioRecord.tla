------------------------------ MODULE AudioRecord ------------------------------
(***************************************************************************)
(* The microphone of a phone: the switch in CommunicatingActivity, the     *)
(* tasks AudioUtils starts for it, their recording loop in native.cpp, and *)
(* the senders of CommunicateService that take what is recorded out of     *)
(* audioRecordQueue.                                                       *)
(*                                                                         *)
(* Three kinds of thread: main (the switch), one thread of AudioUtils's    *)
(* cached pool per recording task, and the one thread of sendService.  Two *)
(* flags say whether something is recorded: isRecording of NativeLib, set  *)
(* by the tasks and read by main and the senders, and is_recording2 of     *)
(* native.cpp, set by the tasks and reset by main.                         *)
(***************************************************************************)
EXTENDS Naturals, Sequences, FiniteSets

CONSTANTS
    Task,           \* recording tasks that can exist at a time
    Sender,         \* SendAudioFrameRunnables that can exist at a time
    Capacity,       \* RECORD_QUEUE_SIZE
    MaxFrames,      \* a bound on the frames recorded
    MaxCommands     \* a bound on the uses of the switch

ASSUME RecordAssumption ==
    /\ Capacity \in Nat \ {0}
    /\ MaxFrames \in Nat
    /\ MaxCommands \in Nat

VARIABLES
    isRecording,    \* NativeLib.isRecording
    is_recording2,  \* native.cpp's is_recording2
    task,           \* task[t]: where the task is in startRecording2
    sender,         \* sender[r]: where the runnable is in its run()
    held,           \* held[r]: the frame the runnable has polled
    queue,          \* audioRecordQueue; frames are numbered as onRecord gets them
    recorded,       \* the number of the frame recorded last
    sent,           \* the number of the frame sent last
    commands        \* uses of the switch so far

micVars == <<isRecording, is_recording2, task>>
senderVars == <<sender, held, sent>>
vars == <<micVars, senderVars, queue, recorded, commands>>

TaskStatus ==
    {"free", "queued", "flagged", "announced", "loop", "frame", "closing",
     "aborted"}

TypeOK ==
    /\ isRecording \in BOOLEAN
    /\ is_recording2 \in {0, 1}
    /\ task \in [Task -> TaskStatus]
    /\ sender \in [Sender -> {"free", "waiting", "test", "poll", "send"}]
    /\ held \in [Sender -> Nat]
    /\ queue \in Seq(Nat) /\ Len(queue) <= Capacity
    /\ recorded \in 0 .. MaxFrames
    /\ sent \in Nat
    /\ commands \in 0 .. MaxCommands

Init ==
    /\ isRecording = FALSE
    /\ is_recording2 = 0
    /\ task = [t \in Task |-> "free"]
    /\ sender = [r \in Sender |-> "free"]
    /\ held = [r \in Sender |-> 0]
    /\ queue = <<>>
    /\ recorded = 0
    /\ sent = 0
    /\ commands = 0

-----------------------------------------------------------------------------
(* The main thread. *)

Command == commands < MaxCommands /\ commands' = commands + 1

\* turnOnMic: startAudioRecord hands a task to the pool, unless isRecording; a
\* task that has not yet set the flag does not count.
TurnOnMic(t) ==
    /\ Command
    /\ ~isRecording
    /\ task[t] = "free"
    /\ task' = [task EXCEPT ![t] = "queued"]
    /\ UNCHANGED <<isRecording, is_recording2, senderVars, queue, recorded>>

\* turnOffMic: stopRecording.
TurnOffMic ==
    /\ Command
    /\ is_recording2' = 0
    /\ UNCHANGED <<isRecording, task, senderVars, queue, recorded>>

-----------------------------------------------------------------------------
(* A recording task: startRecording2. *)

Goes(t, from, to) == task[t] = from /\ task' = [task EXCEPT ![t] = to]

\* android_OpenAudioDevice returns NULL.
OpenFails(t) ==
    /\ Goes(t, "queued", "free")
    /\ isRecording' = FALSE
    /\ UNCHANGED <<is_recording2, senderVars, queue, recorded, commands>>

OpenSucceeds(t) ==
    /\ Goes(t, "queued", "flagged")
    /\ isRecording' = TRUE
    /\ UNCHANGED <<is_recording2, senderVars, queue, recorded, commands>>

\* onRecordStart: a runnable is handed to sendService.
OnRecordStart(t, r) ==
    /\ Goes(t, "flagged", "announced")
    /\ sender[r] = "free"
    /\ sender' = [sender EXCEPT ![r] = "waiting"]
    /\ UNCHANGED <<isRecording, is_recording2, held, sent, queue, recorded,
                   commands>>

\* is_recording2 is set, whatever main has done since; then the echo canceller
\* is set up, and when that fails the function returns at once.  (That there is
\* no preprocessor is found out too late, by the calls before the test: that
\* would be the end of the process, and is left out.)
EnterLoop(t) ==
    /\ Goes(t, "announced", "loop") \/ Goes(t, "announced", "aborted")
    /\ is_recording2' = 1
    /\ UNCHANGED <<isRecording, senderVars, queue, recorded, commands>>

LoopTestsOtherFlag(t) ==    \* a mutant: the loop looks at isRecording
    /\ \/ isRecording /\ Goes(t, "loop", "frame")
       \/ ~isRecording /\ Goes(t, "loop", "closing")
    /\ UNCHANGED <<isRecording, is_recording2, senderVars, queue, recorded,
                   commands>>

\* while (is_recording2).
LoopTests(t) ==
    /\ \/ is_recording2 = 1 /\ Goes(t, "loop", "frame")
       \/ is_recording2 = 0 /\ Goes(t, "loop", "closing")
    /\ UNCHANGED <<isRecording, is_recording2, senderVars, queue, recorded,
                   commands>>

RecordFrameUnbounded(t) ==  \* a mutant: the queue has no capacity
    /\ Goes(t, "frame", "loop")
    /\ IF recorded < MaxFrames
       THEN /\ recorded' = recorded + 1
            /\ queue' = Append(queue, recorded + 1)
       ELSE UNCHANGED <<recorded, queue>>
    /\ UNCHANGED <<isRecording, is_recording2, senderVars, commands>>

\* A frame is recorded and encoded; onRecord adds it to the queue, and loses it
\* when the queue is full.  (The bound: frames after MaxFrames leave no trace.)
RecordFrame(t) ==
    /\ Goes(t, "frame", "loop")
    /\ IF recorded < MaxFrames
       THEN /\ recorded' = recorded + 1
            /\ queue' = IF Len(queue) < Capacity
                        THEN Append(queue, recorded + 1) ELSE queue
       ELSE UNCHANGED <<recorded, queue>>
    /\ UNCHANGED <<isRecording, is_recording2, senderVars, commands>>

CloseKeepsFlag(t) ==        \* a mutant: isRecording is not reset
    /\ Goes(t, "closing", "free")
    /\ UNCHANGED <<isRecording, is_recording2, senderVars, queue, recorded,
                   commands>>

\* The device is closed and isRecording reset.
Close(t) ==
    /\ Goes(t, "closing", "free")
    /\ isRecording' = FALSE
    /\ UNCHANGED <<is_recording2, senderVars, queue, recorded, commands>>

-----------------------------------------------------------------------------
(* The thread of sendService: SendAudioFrameRunnable. *)

SenderGoes(r, from, to) ==
    sender[r] = from /\ sender' = [sender EXCEPT ![r] = to]

SenderStartsAtOnce(r) ==    \* a mutant: sendService has a thread for each
    /\ SenderGoes(r, "waiting", "test")
    /\ UNCHANGED <<micVars, held, sent, queue, recorded, commands>>

\* The one thread of the executor takes the next runnable.
SenderStarts(r) ==
    /\ \A x \in Sender : sender[x] \in {"free", "waiting"}
    /\ SenderGoes(r, "waiting", "test")
    /\ UNCHANGED <<micVars, held, sent, queue, recorded, commands>>

\* while (isRecording).
SenderTests(r) ==
    /\ \/ isRecording /\ SenderGoes(r, "test", "poll")
       \/ ~isRecording /\ SenderGoes(r, "test", "free")
    /\ UNCHANGED <<micVars, held, sent, queue, recorded, commands>>

\* poll returns a frame, or nothing after 3 s without one.
SenderPolls(r) ==
    /\ IF queue # <<>>
       THEN /\ SenderGoes(r, "poll", "send")
            /\ held' = [held EXCEPT ![r] = Head(queue)]
            /\ queue' = Tail(queue)
       ELSE /\ SenderGoes(r, "poll", "test")
            /\ UNCHANGED <<held, queue>>
    /\ UNCHANGED <<micVars, sent, recorded, commands>>

\* sendAudioMessage.
SenderSends(r) ==
    /\ SenderGoes(r, "send", "test")
    /\ sent' = held[r]
    /\ UNCHANGED <<micVars, held, queue, recorded, commands>>

-----------------------------------------------------------------------------
Main == TurnOffMic \/ \E t \in Task : TurnOnMic(t)

Recording(t) ==
    \/ OpenFails(t) \/ OpenSucceeds(t) \/ EnterLoop(t) \/ LoopTests(t)
    \/ RecordFrame(t) \/ Close(t)
    \/ \E r \in Sender : OnRecordStart(t, r)

Sending(r) ==
    SenderStarts(r) \/ SenderTests(r) \/ SenderPolls(r) \/ SenderSends(r)

Next ==
    \/ Main
    \/ \E t \in Task : Recording(t)
    \/ \E r \in Sender : Sending(r)

Spec == Init /\ [][Next]_vars

\* The pool and the executor run what they are given.
FairSpec ==
    /\ Spec
    /\ \A t \in Task : WF_vars(Recording(t))
    /\ WF_vars(\E r \in Sender : Sending(r))

-----------------------------------------------------------------------------
\* A task that has not begun to record, and may undo a turnOffMic.
Starting == \E t \in Task : task[t] \in {"queued", "flagged", "announced"}

\* isRecording is never left set by tasks that are gone, which would make the
\* switch dead: tasks overlap and each one resets the flag as it ends, so the
\* flag is only set on behalf of a task that will still reset it.  (A task
\* whose set-up failed never will.)
FlagHasOwner ==
    isRecording =>
        \E t \in Task : task[t] \notin {"free", "queued"}

\* Frames are sent in the order they were recorded, each of them at most once,
\* however often the microphone is switched off and on.
SentInOrder == [][sent' # sent => sent' > sent]_vars

\* Once the microphone is off and no task is starting, every recording loop ends
\* (or the switch is used again).
MicStops ==
    is_recording2 = 0 /\ ~Starting ~>
        \/ Starting
        \/ \A t \in Task : task[t] \in {"free", "aborted"}

-----------------------------------------------------------------------------
\* Why frames are sent in order: one runnable runs at a time, and between the
\* frame sent last and the one recorded last there are, in this order, the one
\* it holds and those of the queue.
OneSender ==
    \A r, x \in Sender :
        {sender[r], sender[x]} \cap {"free", "waiting"} = {} => r = x

InOrder ==
    /\ sent <= recorded
    /\ \A i \in 1 .. Len(queue) : sent < queue[i] /\ queue[i] <= recorded
    /\ \A i, j \in 1 .. Len(queue) : i < j => queue[i] < queue[j]
    /\ \A r \in Sender : sender[r] = "send" =>
         /\ sent < held[r] /\ held[r] <= recorded
         /\ \A i \in 1 .. Len(queue) : held[r] < queue[i]

IInv == TypeOK /\ FlagHasOwner /\ OneSender /\ InOrder
=============================================================================
