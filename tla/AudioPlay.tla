------------------------------- MODULE AudioPlay -------------------------------
(***************************************************************************)
(* The speaker of a phone: the switch in CommunicatingActivity, the        *)
(* playing tasks AudioUtils starts for it with their loop in native.cpp,   *)
(* and the sessions, whose I/O threads put the frames they receive into    *)
(* audioPlayQueue and turn the speaker off when they close.                *)
(*                                                                         *)
(* As for the microphone there are two flags: isPlaying of NativeLib, set  *)
(* by the tasks and read by main and the sessions, and is_playing2 of      *)
(* native.cpp, set by the tasks and reset by main and the sessions.        *)
(* The echo frame is the matter of EchoCancel.                             *)
(***************************************************************************)
EXTENDS Naturals, Sequences, SequencesExt

CONSTANTS
    Task,           \* playing tasks that can exist at a time
    Receiver,       \* sessions of the phone: as client, as server
    Main,           \* the main thread
    Capacity,       \* PLAY_QUEUE_SIZE
    MaxFrames,      \* a bound on the frames a session receives
    MaxCommands     \* a bound on the uses of the switch and closed sessions

ASSUME PlayAssumption ==
    /\ Main \notin Receiver
    /\ Capacity \in Nat \ {0}
    /\ MaxFrames \in Nat
    /\ MaxCommands \in Nat

VARIABLES
    isPlaying,      \* NativeLib.isPlaying
    is_playing2,    \* native.cpp's is_playing2
    task,           \* task[t]: where the task is in playRecording2
    opened,         \* opened[t]: android_OpenAudioDevice returned a stream
    held,           \* held[t]: the frame the task has polled
    pc,             \* pc[x]: where main or a session's I/O thread is
    queue,          \* audioPlayQueue
    received,       \* received[r]: the number of the frame received last
    played,         \* played[t][r]: the frame of r that t played last
    commands,       \* uses of the switch and closed sessions so far
    crashed         \* the process is gone

taskVars == <<task, opened, held, played>>
vars == <<isPlaying, is_playing2, taskVars, pc, queue, received, commands,
          crashed>>

Thread == {Main} \cup Receiver
Frame == [from : Receiver, no : 1 .. MaxFrames]

TaskStatus ==
    {"free", "queued", "flagged", "loop", "poll", "play", "closing"}
ThreadStatus == {"idle", "test", "add", "clear"}

TypeOK ==
    /\ isPlaying \in BOOLEAN
    /\ is_playing2 \in {0, 1}
    /\ task \in [Task -> TaskStatus]
    /\ opened \in [Task -> BOOLEAN]
    /\ held \in [Task -> Frame \cup {<<>>}]
    /\ pc \in [Thread -> ThreadStatus]
    /\ queue \in Seq(Frame) /\ Len(queue) <= Capacity
    /\ received \in [Receiver -> 0 .. MaxFrames]
    /\ played \in [Task -> [Receiver -> 0 .. MaxFrames]]
    /\ commands \in 0 .. MaxCommands
    /\ crashed \in BOOLEAN

Init ==
    /\ isPlaying = FALSE
    /\ is_playing2 = 0
    /\ task = [t \in Task |-> "free"]
    /\ opened = [t \in Task |-> FALSE]
    /\ held = [t \in Task |-> <<>>]
    /\ pc = [x \in Thread |-> "idle"]
    /\ queue = <<>>
    /\ received = [r \in Receiver |-> 0]
    /\ played = [t \in Task |-> [r \in Receiver |-> 0]]
    /\ commands = 0
    /\ crashed = FALSE

-----------------------------------------------------------------------------
(* The main thread and the I/O threads of the sessions. *)

Moves(x, from, to) == ~crashed /\ pc[x] = from /\ pc' = [pc EXCEPT ![x] = to]
Command == commands < MaxCommands /\ commands' = commands + 1

\* turnOnSpeaker: a task is handed to the pool, unless isPlaying; a task that
\* has not yet set the flag does not count.
TurnOnSpeaker(t) ==
    /\ Command
    /\ ~crashed /\ pc[Main] = "idle"
    /\ ~isPlaying
    /\ task[t] = "free"
    /\ task' = [task EXCEPT ![t] = "queued"]
    /\ UNCHANGED <<isPlaying, is_playing2, opened, held, pc, queue, received,
                   played, crashed>>

\* stopAudioPlay stops the loop and empties the queue.  Main calls it for the
\* switch, a session's thread when the session is closed.
StopPlay(x) ==
    /\ Command
    /\ Moves(x, "idle", "clear")
    /\ is_playing2' = 0
    /\ UNCHANGED <<isPlaying, taskVars, queue, received, crashed>>

ClearQueue(x) ==
    /\ Moves(x, "clear", "idle")
    /\ queue' = <<>>
    /\ UNCHANGED <<isPlaying, is_playing2, taskVars, received, commands,
                   crashed>>

\* COMMAND_SEND_VOICE: addToPlayQueue looks at isPlaying, ...
VoiceReceived(r) ==
    /\ received[r] < MaxFrames
    /\ Moves(r, "idle", "test")
    /\ received' = [received EXCEPT ![r] = @ + 1]
    /\ UNCHANGED <<isPlaying, is_playing2, taskVars, queue, commands, crashed>>

TestPlaying(r) ==
    /\ Moves(r, "test", IF isPlaying THEN "add" ELSE "idle")
    /\ UNCHANGED <<isPlaying, is_playing2, taskVars, queue, received, commands,
                   crashed>>

AddWaits(r) ==              \* a mutant: put() instead of add()
    /\ Len(queue) < Capacity
    /\ Moves(r, "add", "idle")
    /\ queue' = Append(queue, [from |-> r, no |-> received[r]])
    /\ UNCHANGED <<isPlaying, is_playing2, taskVars, received, commands,
                   crashed>>

AddUnbounded(r) ==          \* a mutant: the queue has no capacity
    /\ Moves(r, "add", "idle")
    /\ queue' = Append(queue, [from |-> r, no |-> received[r]])
    /\ UNCHANGED <<isPlaying, is_playing2, taskVars, received, commands,
                   crashed>>

\* ... and adds the frame, or drops it when the queue is full.
AddToPlayQueue(r) ==
    /\ Moves(r, "add", "idle")
    /\ queue' = IF Len(queue) < Capacity
                THEN Append(queue, [from |-> r, no |-> received[r]]) ELSE queue
    /\ UNCHANGED <<isPlaying, is_playing2, taskVars, received, commands,
                   crashed>>

-----------------------------------------------------------------------------
(* A playing task: playRecording2. *)

Goes(t, from, to) ==
    ~crashed /\ task[t] = from /\ task' = [task EXCEPT ![t] = to]

\* The stream is opened, or is NULL; nobody looks.  isPlaying is set.
OpenDevice(t) ==
    /\ Goes(t, "queued", "flagged")
    /\ \E ok \in BOOLEAN : opened' = [opened EXCEPT ![t] = ok]
    /\ isPlaying' = TRUE
    /\ UNCHANGED <<is_playing2, held, pc, queue, received, played, commands,
                   crashed>>

\* is_playing2 is set, whatever stopPlaying has done since.
EnterLoop(t) ==
    /\ Goes(t, "flagged", "loop")
    /\ is_playing2' = 1
    /\ UNCHANGED <<isPlaying, opened, held, pc, queue, received, played,
                   commands, crashed>>

LoopTestsOtherFlag(t) ==    \* a mutant: the loop looks at isPlaying
    /\ Goes(t, "loop", IF isPlaying THEN "poll" ELSE "closing")
    /\ UNCHANGED <<isPlaying, is_playing2, opened, held, pc, queue, received,
                   played, commands, crashed>>

\* while (is_playing2).
LoopTests(t) ==
    /\ Goes(t, "loop", IF is_playing2 = 1 THEN "poll" ELSE "closing")
    /\ UNCHANGED <<isPlaying, is_playing2, opened, held, pc, queue, received,
                   played, commands, crashed>>

PollsNewest(t) ==           \* a mutant: the latest frame first
    /\ Goes(t, "poll", IF queue = <<>> THEN "loop" ELSE "play")
    /\ IF queue = <<>> THEN UNCHANGED <<held, queue>>
       ELSE held' = [held EXCEPT ![t] = Last(queue)] /\ queue' = Front(queue)
    /\ UNCHANGED <<isPlaying, is_playing2, opened, pc, received, played,
                   commands, crashed>>

Peeks(t) ==                 \* a mutant: peek() instead of poll()
    /\ Goes(t, "poll", IF queue = <<>> THEN "loop" ELSE "play")
    /\ held' = IF queue = <<>> THEN held ELSE [held EXCEPT ![t] = Head(queue)]
    /\ UNCHANGED <<isPlaying, is_playing2, opened, pc, queue, received, played,
                   commands, crashed>>

\* getOneFrame does not wait for a frame: without one the loop starts again.
PollFrame(t) ==
    /\ Goes(t, "poll", IF queue = <<>> THEN "loop" ELSE "play")
    /\ IF queue = <<>> THEN UNCHANGED <<held, queue>>
       ELSE held' = [held EXCEPT ![t] = Head(queue)] /\ queue' = Tail(queue)
    /\ UNCHANGED <<isPlaying, is_playing2, opened, pc, received, played,
                   commands, crashed>>

\* The frame is decoded and handed to android_AudioOut, which reads the fields
\* of the stream before it looks whether it is NULL.
PlayFrame(t) ==
    /\ Goes(t, "play", "loop")
    /\ held' = [held EXCEPT ![t] = <<>>]
    /\ IF opened[t]
       THEN /\ played' = [played EXCEPT ![t][held[t].from] = held[t].no]
            /\ UNCHANGED crashed
       ELSE crashed' = TRUE /\ UNCHANGED played
    /\ UNCHANGED <<isPlaying, is_playing2, opened, pc, queue, received,
                   commands>>

CloseKeepsFlag(t) ==        \* a mutant: isPlaying is not reset
    /\ Goes(t, "closing", "free")
    /\ UNCHANGED <<isPlaying, is_playing2, opened, held, pc, queue, received,
                   played, commands, crashed>>

\* The device is closed and isPlaying reset.
Close(t) ==
    /\ Goes(t, "closing", "free")
    /\ opened' = [opened EXCEPT ![t] = FALSE]
    /\ isPlaying' = FALSE
    /\ UNCHANGED <<is_playing2, held, pc, queue, received, played, commands,
                   crashed>>

-----------------------------------------------------------------------------
Playing(t) ==
    OpenDevice(t) \/ EnterLoop(t) \/ LoopTests(t) \/ PollFrame(t)
    \/ PlayFrame(t) \/ Close(t)

Receiving(r) == TestPlaying(r) \/ AddToPlayQueue(r)

Next ==
    \/ \E t \in Task : TurnOnSpeaker(t) \/ Playing(t)
    \/ \E x \in Thread : StopPlay(x) \/ ClearQueue(x)
    \/ \E r \in Receiver : VoiceReceived(r) \/ Receiving(r)

Spec == Init /\ [][Next]_vars

\* Threads run, and the pool runs what it is given; frames need not come.
FairSpec ==
    /\ Spec
    /\ \A t \in Task : WF_vars(Playing(t))
    /\ \A x \in Thread : WF_vars(ClearQueue(x))
    /\ \A r \in Receiver : WF_vars(Receiving(r))

-----------------------------------------------------------------------------
\* A task that has not begun to play, and may undo a stopPlaying.
Starting == \E t \in Task : task[t] \in {"queued", "flagged"}

\* isPlaying is never left set by tasks that are gone, which would make the
\* switch dead: tasks overlap and each one resets the flag as it ends
\* (NativeLib.setIsPlaying), so it is only set for a task that will reset it.
PlayingHasTask ==
    isPlaying => \E t \in Task : task[t] \notin {"free", "queued"}

\* The frames of a session are played by a task in the order they came, also
\* when frames of an earlier use of the speaker were left in audioPlayQueue.
PlayedInOrder ==
    [][\A t \in Task, r \in Receiver :
         played'[t][r] # played[t][r] => played'[t][r] > played[t][r]]_vars

\* Once stopPlaying was called and no task is starting, every playing loop
\* ends (or the switch is used again).
SpeakerStops ==
    is_playing2 = 0 /\ ~Starting ~>
        Starting \/ crashed \/ \A t \in Task : task[t] = "free"

\* addToPlayQueue never holds up the I/O thread of a session, however full the
\* queue is and whether or not a task still takes frames out of it.
ReceiverReturns ==
    \A r \in Receiver :
        pc[r] \in {"test", "add"} ~> pc[r] \in {"idle", "clear"} \/ crashed

\* While a task plays, a frame in audioPlayQueue does not stay there.
FramesLeaveQueue ==
    \A f \in Frame :
        Contains(queue, f) /\ is_playing2 = 1 ~>
            ~Contains(queue, f) \/ is_playing2 = 0 \/ crashed

-----------------------------------------------------------------------------
\* Why frames are played in order: of each session, the frames that a task has
\* played, those held and those of the queue follow each other, and all of them
\* came before the one its I/O thread is about to add.
Latest ==
    [r \in Receiver |->
        IF pc[r] \in {"test", "add"} THEN received[r] - 1 ELSE received[r]]

HeldFrames ==
    /\ \A r \in Receiver : pc[r] \in {"test", "add"} => received[r] > 0
    /\ \A t \in Task : task[t] = "play" => held[t] \in Frame

QueueInOrder ==
    \A i \in 1 .. Len(queue) :
        /\ queue[i].no <= Latest[queue[i].from]
        /\ \A j \in 1 .. Len(queue) :
             i < j /\ queue[i].from = queue[j].from => queue[i].no < queue[j].no
        /\ \A t \in Task :
             /\ played[t][queue[i].from] < queue[i].no
             /\ task[t] = "play" /\ held[t].from = queue[i].from =>
                  held[t].no < queue[i].no

TasksInOrder ==
    \A t \in Task :
        /\ \A r \in Receiver : played[t][r] <= Latest[r]
        /\ task[t] = "play" => /\ held[t].no <= Latest[held[t].from]
                               /\ played[t][held[t].from] < held[t].no

IInv == TypeOK /\ PlayingHasTask /\ HeldFrames /\ QueueInOrder /\ TasksInOrder
=============================================================================
