------------------------------- MODULE EchoCancel -------------------------------
(***************************************************************************)
(* The filters of the microphone: main switches noise_clear and            *)
(* echo_clear, the playing loop stores every frame it has played as        *)
(* echoAudioFrame of NativeLib, and the recording loop cancels that frame  *)
(* out of its own, reduces the noise and encodes the rest (the bodies of   *)
(* both loops in native.cpp).                                              *)
(*                                                                         *)
(* AudioRecord and AudioPlay model when these loops run.  Here a player    *)
(* starts and stops at will, and there is one recording loop: recorders    *)
(* read what is modelled here and change none of it.  A frame is its       *)
(* number, of a player or of the recorder, and what the filters make of a  *)
(* frame is still that frame.                                              *)
(***************************************************************************)
EXTENDS Naturals

CONSTANTS
    Player,         \* playing tasks, which may overlap
    MaxPlayed,      \* a bound on the frames of a player
    MaxRecorded,    \* a bound on the frames of the recorder
    MaxCommands     \* a bound on the uses of the switches

ASSUME CancelAssumption ==
    MaxPlayed \in Nat /\ MaxRecorded \in Nat /\ MaxCommands \in Nat

VARIABLES
    noise_clear, echo_clear,    \* the filters that are on
    is_playing2,    \* native.cpp's is_playing2
    player,         \* player[p]: where the task is in its loop
    played,         \* played[p]: the number of the frame in its output
    handed,         \* handed[p]: the number of the frame played last
    echoAudioFrame, \* the frame stored last, or NULL
    recorder,       \* where the recording loop is
    recorded,       \* the number of the frame in its buffer
    canceled,       \* the number of the one in echo_canceled_buf
    ptr,            \* where ptr points to
    encoded,        \* the number of the frame encoded last; 0 is garbage
    commands,       \* uses of the switches so far
    crashed,        \* the process died of a wild pointer
    seenOff,        \* filters off at some time since the frame was recorded
    steady          \* frames p has played since echo_clear was off: 0, 1, more

switchVars == <<noise_clear, echo_clear, commands>>
playerVars == <<player, played, handed, echoAudioFrame, steady>>
bufferVars == <<recorded, canceled, encoded>>
recorderVars == <<recorder, ptr, bufferVars>>
vars ==
    <<switchVars, is_playing2, playerVars, recorderVars, crashed, seenOff>>

NULL == [by |-> "nobody", no |-> 0]

TypeOK ==
    /\ noise_clear \in BOOLEAN /\ echo_clear \in BOOLEAN
    /\ is_playing2 \in {0, 1}
    /\ player \in [Player -> {"off", "loop", "out", "test", "store"}]
    /\ played \in [Player -> 0 .. MaxPlayed]
    /\ handed \in [Player -> 0 .. MaxPlayed]
    /\ echoAudioFrame \in {NULL} \cup [by : Player, no : 1 .. MaxPlayed]
    /\ recorder \in {"loop", "noiseOff", "noiseOrEcho", "echo", "playing",
                     "cancel", "noise", "encode"}
    /\ ptr \in {"buffer", "canceled", "wild"}
    /\ {recorded, canceled, encoded} \subseteq 0 .. MaxRecorded
    /\ commands \in 0 .. MaxCommands
    /\ crashed \in BOOLEAN
    /\ seenOff \subseteq {"noise", "echo"}
    /\ steady \in [Player -> 0 .. 2]

Init ==
    /\ noise_clear = TRUE /\ echo_clear = TRUE
    /\ is_playing2 = 0
    /\ player = [p \in Player |-> "off"]
    /\ played = [p \in Player |-> 0]
    /\ handed = [p \in Player |-> 0]
    /\ echoAudioFrame = NULL
    /\ recorder = "loop"
    /\ ptr = "wild"
    /\ recorded = 0 /\ canceled = 0 /\ encoded = 0
    /\ commands = 0
    /\ crashed = FALSE
    /\ seenOff = {}
    /\ steady = [p \in Player |-> 0]

-----------------------------------------------------------------------------
(* The main thread: the check boxes and the switch of the speaker. *)

Command == ~crashed /\ commands < MaxCommands /\ commands' = commands + 1

SetNoiseClear(enable) ==
    /\ Command
    /\ noise_clear' = enable
    /\ seenOff' = IF enable THEN seenOff ELSE seenOff \cup {"noise"}
    /\ UNCHANGED <<echo_clear, is_playing2, playerVars, recorderVars, crashed>>

SetEchoClear(enable) ==
    /\ Command
    /\ echo_clear' = enable
    /\ IF enable
       THEN UNCHANGED <<seenOff, steady>>
       ELSE /\ seenOff' = seenOff \cup {"echo"}
            /\ steady' = [p \in Player |-> 0]
    /\ UNCHANGED <<noise_clear, is_playing2, player, played, handed,
                   echoAudioFrame, recorderVars, crashed>>

StopPlaying ==
    /\ Command
    /\ is_playing2' = 0
    /\ UNCHANGED <<noise_clear, echo_clear, playerVars, recorderVars, crashed,
                   seenOff>>

-----------------------------------------------------------------------------
(* A player: playRecording2. *)

Plays(p, from, to) ==
    ~crashed /\ player[p] = from /\ player' = [player EXCEPT ![p] = to]

StartPlaying(p) ==
    /\ Command
    /\ Plays(p, "off", "loop")
    /\ is_playing2' = 1
    /\ UNCHANGED <<noise_clear, echo_clear, played, handed, echoAudioFrame,
                   steady, recorderVars, crashed, seenOff>>

DecodeStores(p) ==          \* a mutant: the frame is stored before it is played
    /\ is_playing2 = 1
    /\ played[p] < MaxPlayed
    /\ Plays(p, "loop", "out")
    /\ played' = [played EXCEPT ![p] = @ + 1]
    /\ echoAudioFrame' = IF echo_clear THEN [by |-> p, no |-> played[p] + 1]
                         ELSE echoAudioFrame
    /\ UNCHANGED <<switchVars, is_playing2, handed, steady, recorderVars,
                   crashed, seenOff>>

\* while (is_playing2), and getOneFrame has a frame, which is decoded.
Decode(p) ==
    /\ is_playing2 = 1
    /\ played[p] < MaxPlayed
    /\ Plays(p, "loop", "out")
    /\ played' = [played EXCEPT ![p] = @ + 1]
    /\ UNCHANGED <<switchVars, is_playing2, handed, echoAudioFrame, steady,
                   recorderVars, crashed, seenOff>>

LeaveLoop(p) ==
    /\ is_playing2 = 0
    /\ Plays(p, "loop", "off")
    /\ UNCHANGED <<switchVars, is_playing2, played, handed, echoAudioFrame,
                   steady, recorderVars, crashed, seenOff>>

AudioOut(p) ==
    /\ Plays(p, "out", "test")
    /\ handed' = [handed EXCEPT ![p] = played[p]]
    /\ steady' = IF echo_clear /\ steady[p] < 2
                 THEN [steady EXCEPT ![p] = @ + 1] ELSE steady
    /\ UNCHANGED <<switchVars, is_playing2, played, echoAudioFrame,
                   recorderVars, crashed, seenOff>>

StoresWhilePlaying(p) ==    \* a mutant: && is_playing2
    /\ Plays(p, "test", IF echo_clear /\ is_playing2 = 1 THEN "store" ELSE "loop")
    /\ UNCHANGED <<switchVars, is_playing2, played, handed, echoAudioFrame,
                   steady, recorderVars, crashed, seenOff>>

\* if (echo_clear).
TestEchoClear(p) ==
    /\ Plays(p, "test", IF echo_clear THEN "store" ELSE "loop")
    /\ UNCHANGED <<switchVars, is_playing2, played, handed, echoAudioFrame,
                   steady, recorderVars, crashed, seenOff>>

SetEchoAudioFrame(p) ==
    /\ Plays(p, "store", "loop")
    /\ echoAudioFrame' = [by |-> p, no |-> played[p]]
    /\ UNCHANGED <<switchVars, is_playing2, played, handed, steady,
                   recorderVars, crashed, seenOff>>

-----------------------------------------------------------------------------
(* The recorder: one turn of the loop of startRecording2. *)

Records(from, to) == ~crashed /\ recorder = from /\ recorder' = to

FiltersOff ==
    {f \in {"noise", "echo"} :
        \/ f = "noise" /\ ~noise_clear
        \/ f = "echo" /\ ~echo_clear}

\* A frame is in the buffer, and ptr is declared.
AudioIn ==
    /\ recorded < MaxRecorded
    /\ Records("loop", "noiseOff")
    /\ recorded' = recorded + 1
    /\ seenOff' = FiltersOff
    /\ UNCHANGED <<switchVars, is_playing2, playerVars, canceled, ptr, encoded,
                   crashed>>

PtrForNoiseOnly ==          \* a mutant: || echo_clear is missing
    /\ Records("noiseOff", "echo")
    /\ ptr' \in IF noise_clear THEN {"buffer"} ELSE {"buffer", "canceled", "wild"}
    /\ UNCHANGED <<switchVars, is_playing2, playerVars, bufferVars, crashed,
                   seenOff>>

\* if (noise_clear || echo_clear), which reads the one and then the other.
NoiseOrElse ==
    /\ \/ noise_clear /\ Records("noiseOff", "echo") /\ ptr' = "buffer"
       \/ ~noise_clear /\ Records("noiseOff", "noiseOrEcho") /\ UNCHANGED ptr
    /\ UNCHANGED <<switchVars, is_playing2, playerVars, bufferVars, crashed,
                   seenOff>>

\* If both are off ptr is not set: it points to anywhere, or where it did the
\* last time, if the compiler has given it the same place.
OrEcho ==
    /\ Records("noiseOrEcho", "echo")
    /\ ptr' \in IF echo_clear THEN {"buffer"} ELSE {"buffer", "canceled", "wild"}
    /\ UNCHANGED <<switchVars, is_playing2, playerVars, bufferVars, crashed,
                   seenOff>>

\* if (echo_clear && ...
TestEcho ==
    /\ Records("echo", IF echo_clear THEN "playing" ELSE "noise")
    /\ UNCHANGED <<switchVars, is_playing2, playerVars, ptr, bufferVars, crashed,
                   seenOff>>

\* ... is_playing2).
TestPlaying ==
    /\ Records("playing", IF is_playing2 = 1 THEN "cancel" ELSE "noise")
    /\ UNCHANGED <<switchVars, is_playing2, playerVars, ptr, bufferVars, crashed,
                   seenOff>>

At(p) == CASE p = "buffer" -> recorded [] p = "canceled" -> canceled [] OTHER -> 0

\* What reads or writes through a wild pointer may be the end of the process.
Wild == ptr = "wild" /\ crashed' = TRUE /\ UNCHANGED <<recorder, ptr, bufferVars>>

\* getEchoAudioFrame and, unless that is NULL, speex_echo_cancellation from ptr
\* to echo_canceled_buf.
Cancel ==
    /\ ~crashed /\ recorder = "cancel"
    /\ \/ /\ echoAudioFrame = NULL
          /\ Records("cancel", "noise")
          /\ UNCHANGED <<ptr, bufferVars, crashed>>
       \/ /\ echoAudioFrame # NULL
          /\ Records("cancel", "noise")
          /\ canceled' = At(ptr)
          /\ ptr' = "canceled"
          /\ UNCHANGED <<recorded, encoded, crashed>>
       \/ echoAudioFrame # NULL /\ Wild
    /\ UNCHANGED <<switchVars, is_playing2, playerVars, seenOff>>

\* if (noise_clear), speex_preprocess_run in place.
Preprocess ==
    /\ ~crashed /\ recorder = "noise"
    /\ \/ Records("noise", "encode") /\ UNCHANGED <<ptr, bufferVars, crashed>>
       \/ noise_clear /\ Wild
    /\ UNCHANGED <<switchVars, is_playing2, playerVars, seenOff>>

\* speex_encode_int and onRecord.
Encode ==
    /\ ~crashed /\ recorder = "encode"
    /\ \/ /\ Records("encode", "loop")
          /\ encoded' = At(ptr)
          /\ UNCHANGED <<ptr, recorded, canceled, crashed>>
       \/ Wild
    /\ UNCHANGED <<switchVars, is_playing2, playerVars, seenOff>>

-----------------------------------------------------------------------------
Main ==
    \/ \E enable \in BOOLEAN : SetNoiseClear(enable) \/ SetEchoClear(enable)
    \/ StopPlaying
    \/ \E p \in Player : StartPlaying(p)

Playing(p) ==
    \/ Decode(p) \/ LeaveLoop(p) \/ AudioOut(p) \/ TestEchoClear(p)
    \/ SetEchoAudioFrame(p)

Recording ==
    \/ AudioIn \/ NoiseOrElse \/ OrEcho \/ TestEcho \/ TestPlaying
    \/ Cancel \/ Preprocess \/ Encode

Next == Main \/ Recording \/ \E p \in Player : Playing(p)

Spec == Init /\ [][Next]_vars

-----------------------------------------------------------------------------
\* A frame is encoded from what was just recorded, however the filters are
\* switched while it is on its way, and the process does not crash on it,
\* unless each of the two has been off in the meantime: then ptr may have
\* been left unset, even if there never was a time without a filter.
EncodesThisFrame ==
    [][ seenOff # {"noise", "echo"} =>
          /\ ~crashed'
          /\ recorder = "encode" /\ recorder' = "loop" => encoded' = recorded
      ]_vars

\* The frame that the canceller compares with has already been played.
EchoWasPlayed ==
    echoAudioFrame # NULL => echoAudioFrame.no <= handed[echoAudioFrame.by]

\* When a player has played two frames and echo_clear was on all the while, the
\* frame to compare with is not older than these two, unless it is another
\* player's, also if the speaker was off for a time between them.
EchoIsRecent ==
    \A p \in Player : steady[p] = 2 =>
        /\ echoAudioFrame # NULL
        /\ echoAudioFrame.by = p => handed[p] <= echoAudioFrame.no + 1

-----------------------------------------------------------------------------
\* Why: a player hands over its frames one by one, and stores each of them while
\* echo_clear stays on; and the recorder's ptr is on its frame unless it has
\* seen both filters off.
PlayerOK(p) ==
    /\ handed[p] <= played[p]
    /\ player[p] = "out" => played[p] = handed[p] + 1
    /\ player[p] # "out" => played[p] = handed[p]
    /\ player[p] \in {"test", "store"} => handed[p] >= 1
    /\ steady[p] >= 1 => echo_clear
    /\ steady[p] >= 1 /\ player[p] \in {"off", "loop", "out"} =>
         /\ echoAudioFrame # NULL
         /\ echoAudioFrame.by = p => echoAudioFrame.no = handed[p]

OnThisFrame ==
    ptr = "buffer" \/ (ptr = "canceled" /\ canceled = recorded)

RecorderOK ==
    /\ FiltersOff \subseteq seenOff
    /\ recorder = "noiseOrEcho" => "noise" \in seenOff
    /\ seenOff # {"noise", "echo"} =>
         /\ ~crashed
         /\ recorder \in {"echo", "playing", "cancel"} => ptr = "buffer"
         /\ recorder \in {"noise", "encode"} => OnThisFrame

IInv ==
    /\ TypeOK
    /\ \A p \in Player : PlayerOK(p)
    /\ RecorderOK
    /\ EchoWasPlayed
    /\ EchoIsRecent
=============================================================================
