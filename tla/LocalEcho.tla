------------------------------- MODULE LocalEcho -------------------------------
(***************************************************************************)
(* The local echo test: AudioUtils.recordAndPlayPCM hands a task to its    *)
(* pool, which opens a recording and a playing stream and plays what it    *)
(* records until stopRecordAndPlay (recordAndPlayPCM of native.cpp).       *)
(*                                                                         *)
(* isRecordAndPlay of NativeLib is read on main and set by the tasks;      *)
(* recording_playing of native.cpp, which is 1 when the loop has to end,   *)
(* is set on main and reset by the tasks.  Tasks may overlap.  What the    *)
(* echo canceller and the preprocessor make of the samples is left out.    *)
(***************************************************************************)
EXTENDS OpenSLDevice

CONSTANT MaxCommands    \* a bound on the uses of the buttons

ASSUME EchoAssumption == MaxCommands \in Nat

VARIABLES
    isRecordAndPlay,    \* NativeLib.isRecordAndPlay
    recording_playing,  \* native.cpp's recording_playing
    task,               \* task[t]: where the task is in recordAndPlayPCM
    commands            \* uses of the buttons so far

testVars == <<isRecordAndPlay, recording_playing, task, commands>>
vars == <<deviceVars, testVars>>

Rec(t) == <<t, RECORD_MODE>>
Play(t) == <<t, PLAY_MODE>>

TaskStatus ==
    {"free", "queued", "ready", "opensRecord", "opensPlay", "flagged", "loop",
     "in", "out", "closing", "closesRecord", "closesPlay", "left"}

TypeOK ==
    /\ DeviceTypeOK
    /\ isRecordAndPlay \in BOOLEAN
    /\ recording_playing \in {0, 1}
    /\ task \in [Task -> TaskStatus]
    /\ commands \in 0 .. MaxCommands

Init ==
    /\ DeviceInit
    /\ isRecordAndPlay = FALSE
    /\ recording_playing = 0
    /\ task = [t \in Task |-> "free"]
    /\ commands = 0

-----------------------------------------------------------------------------
(* The main thread. *)

Command == ~crashed /\ commands < MaxCommands /\ commands' = commands + 1

RecordAndPlay(t) ==
    /\ Command
    /\ ~isRecordAndPlay
    /\ task[t] = "free"
    /\ task' = [task EXCEPT ![t] = "queued"]
    /\ UNCHANGED <<deviceVars, isRecordAndPlay, recording_playing>>

StopRecordAndPlay ==
    /\ Command
    /\ isRecordAndPlay
    /\ recording_playing' = 1
    /\ UNCHANGED <<deviceVars, isRecordAndPlay, task>>

-----------------------------------------------------------------------------
(* A task. *)

Goes(t, from, to) ==
    ~crashed /\ task[t] = from /\ task' = [task EXCEPT ![t] = to]

\* The echo canceller and the preprocessor, either of which may have been left
\* out.  Without the first the function returns; a preprocessor that is NULL
\* is used before it is looked at.
SetUp(t) ==
    /\ \/ Goes(t, "queued", "ready") /\ UNCHANGED crashed
       \/ Goes(t, "queued", "free") /\ UNCHANGED crashed
       \/ Goes(t, "queued", "queued") /\ crashed' = TRUE
    /\ UNCHANGED <<at, done, held, token, isRecordAndPlay, recording_playing,
                   commands>>

OpenRecord(t) ==
    /\ Goes(t, "ready", "opensRecord")
    /\ Opens(Rec(t))
    /\ UNCHANGED <<isRecordAndPlay, recording_playing, commands>>

\* The second stream is opened whatever became of the first.
OpenPlay(t) ==
    /\ Goes(t, "opensRecord", "opensPlay")
    /\ at[Rec(t)] \in {"open", "none"}
    /\ Opens(Play(t))
    /\ UNCHANGED <<isRecordAndPlay, recording_playing, commands>>

BothOpen(t) == at[Rec(t)] = "open" /\ at[Play(t)] = "open"
NoneOpen(t) == at[Rec(t)] = "none" /\ at[Play(t)] = "none"

StartsWithOne(t) ==         \* a mutant: && in place of ||
    /\ at[Play(t)] \in {"open", "none"}
    /\ IF NoneOpen(t)
       THEN Goes(t, "opensPlay", "free") /\ isRecordAndPlay' = FALSE
       ELSE Goes(t, "opensPlay", "flagged") /\ isRecordAndPlay' = TRUE
    /\ UNCHANGED <<deviceVars, recording_playing, commands>>

\* With one stream missing the function returns, and leaves the other one open.
Starts(t) ==
    /\ at[Play(t)] \in {"open", "none"}
    /\ \/ BothOpen(t) /\ Goes(t, "opensPlay", "flagged")
       \/ NoneOpen(t) /\ Goes(t, "opensPlay", "free")
       \/ ~BothOpen(t) /\ ~NoneOpen(t) /\ Goes(t, "opensPlay", "left")
    /\ isRecordAndPlay' = BothOpen(t)
    /\ UNCHANGED <<deviceVars, recording_playing, commands>>

\* recording_playing is reset, whatever main has done since the flag was set.
EnterLoop(t) ==
    /\ Goes(t, "flagged", "loop")
    /\ recording_playing' = 0
    /\ UNCHANGED <<deviceVars, isRecordAndPlay, commands>>

LoopTestsOtherFlag(t) ==    \* a mutant: the loop looks at isRecordAndPlay
    /\ \/ isRecordAndPlay /\ Goes(t, "loop", "in")
       \/ ~isRecordAndPlay /\ Goes(t, "loop", "closing")
    /\ UNCHANGED <<deviceVars, isRecordAndPlay, recording_playing, commands>>

\* while (!recording_playing).
LoopTests(t) ==
    /\ \/ recording_playing = 0 /\ Goes(t, "loop", "in")
       \/ recording_playing = 1 /\ Goes(t, "loop", "closing")
    /\ UNCHANGED <<deviceVars, isRecordAndPlay, recording_playing, commands>>

AudioIn(t) ==
    /\ Goes(t, "in", "out")
    /\ Exchange(Rec(t))
    /\ UNCHANGED <<isRecordAndPlay, recording_playing, commands>>

AudioOut(t) ==
    /\ Goes(t, "out", "loop")
    /\ Exchange(Play(t))
    /\ UNCHANGED <<isRecordAndPlay, recording_playing, commands>>

CloseRecord(t) ==
    /\ Goes(t, "closing", "closesRecord")
    /\ Closes(Rec(t))
    /\ UNCHANGED <<isRecordAndPlay, recording_playing, commands>>

ClosePlay(t) ==
    /\ Goes(t, "closesRecord", "closesPlay")
    /\ at[Rec(t)] = "none"
    /\ Closes(Play(t))
    /\ UNCHANGED <<isRecordAndPlay, recording_playing, commands>>

Ends(t) ==
    /\ Goes(t, "closesPlay", "free")
    /\ at[Play(t)] = "none"
    /\ isRecordAndPlay' = FALSE
    /\ UNCHANGED <<deviceVars, recording_playing, commands>>

DeviceCall(x) == InCall(x) /\ UNCHANGED testVars
DriverRuns(x) == Driver(x) /\ UNCHANGED testVars

-----------------------------------------------------------------------------
Main == StopRecordAndPlay \/ \E t \in Task : RecordAndPlay(t)

Testing(t) ==
    \/ SetUp(t) \/ OpenRecord(t) \/ OpenPlay(t) \/ Starts(t) \/ EnterLoop(t)
    \/ LoopTests(t) \/ AudioIn(t) \/ AudioOut(t)
    \/ CloseRecord(t) \/ ClosePlay(t) \/ Ends(t)
    \/ \E x \in {Rec(t), Play(t)} : DeviceCall(x)

Next ==
    \/ Main
    \/ \E t \in Task : Testing(t)
    \/ \E x \in Stream : DriverRuns(x)

Spec == Init /\ [][Next]_vars

\* The pool runs its tasks, and the driver plays and fills what it is given.
FairSpec ==
    /\ Spec
    /\ \A t \in Task : WF_vars(Testing(t))
    /\ \A x \in Stream : WF_vars(DriverRuns(x))

-----------------------------------------------------------------------------
\* A task that has not begun its loop, and may undo a stopRecordAndPlay.
Starting ==
    \E t \in Task :
        task[t] \in {"queued", "ready", "opensRecord", "opensPlay", "flagged"}

\* android_AudioIn and android_AudioOut get streams that are open, which they do
\* not look at themselves; and a task that is over has left none open, unless
\* it found just one of them NULL.
StreamsBelongToTasks ==
    \A t \in Task :
        /\ task[t] \in {"flagged", "loop", "in", "out", "closing"} => BothOpen(t)
        /\ task[t] \in {"free", "queued", "ready"} => NoneOpen(t)

\* isRecordAndPlay is only set on behalf of a task that will reset it; otherwise
\* the test could never be started again.
FlagHasOwner ==
    isRecordAndPlay =>
        \E t \in Task :
            task[t] \in {"flagged", "loop", "in", "out", "closing",
                         "closesRecord", "closesPlay"}

\* Once stopRecordAndPlay was called and no task is starting, every test ends,
\* also from within android_AudioIn, and its streams are closed.
EchoTestEnds ==
    recording_playing = 1 /\ ~Starting ~>
        Starting \/ crashed \/ \A t \in Task : task[t] \in {"free", "left"}

-----------------------------------------------------------------------------
\* Why: how far a task is says how far its streams are.
TaskOK(t) ==
    /\ task[t] \in {"free", "queued", "ready"} => NoneOpen(t)
    /\ task[t] = "opensRecord" => at[Play(t)] = "none"
    /\ task[t] = "opensPlay" => at[Rec(t)] \in {"open", "none"}
    /\ task[t] \in {"flagged", "loop", "in", "out", "closing"} => BothOpen(t)
    /\ task[t] = "closesRecord" =>
         at[Rec(t)] \in {"closing", "none"} /\ at[Play(t)] = "open"
    /\ task[t] = "closesPlay" =>
         at[Rec(t)] = "none" /\ at[Play(t)] \in {"closing", "none"}
    /\ task[t] = "left" => {at[Rec(t)], at[Play(t)]} \subseteq {"open", "none"}

IInv ==
    /\ TypeOK
    /\ \A x \in Stream : StreamOK(x)
    /\ \A t \in Task : TaskOK(t)
    /\ FlagHasOwner
=============================================================================
