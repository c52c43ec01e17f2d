--------------------------- MODULE EchoCancel_proofs ---------------------------
(***************************************************************************)
(* EchoCancel for any set of players and any use of the switches: the      *)
(* types, which frame is encoded, and which frame it is compared with.     *)
(***************************************************************************)
EXTENDS EchoCancel, TLAPS

LEMMA InitInv == Init => IInv
  <1> SUFFICES ASSUME Init PROVE IInv
    OBVIOUS
  <1>1. TypeOK
    <2>1. noise_clear \in BOOLEAN /\ echo_clear \in BOOLEAN /\ crashed \in BOOLEAN
      BY Zenon DEF Init
    <2>2. player \in [Player -> {"off", "loop", "out", "test", "store"}]
      BY DEF Init
    <2>3. /\ played \in [Player -> 0 .. MaxPlayed]
          /\ handed \in [Player -> 0 .. MaxPlayed]
          /\ steady \in [Player -> 0 .. 2]
      BY CancelAssumption DEF Init
    <2>4. /\ {recorded, canceled, encoded} \subseteq 0 .. MaxRecorded
          /\ commands \in 0 .. MaxCommands
      BY CancelAssumption DEF Init
    <2> QED BY <2>1, <2>2, <2>3, <2>4 DEF Init, TypeOK
  <1>2. ASSUME NEW p \in Player PROVE PlayerOK(p)
    <2>1. /\ player[p] = "off" /\ played[p] = 0 /\ handed[p] = 0
          /\ steady[p] = 0
      BY DEF Init
    <2> QED BY <2>1 DEF PlayerOK
  <1>3. FiltersOff = {}
    BY DEF Init, FiltersOff
  <1>4. RecorderOK
    BY <1>3 DEF Init, RecorderOK
  <1>5. EchoWasPlayed /\ EchoIsRecent
    BY DEF Init, EchoWasPlayed, EchoIsRecent
  <1> QED BY <1>1, <1>2, <1>4, <1>5 DEF IInv

-----------------------------------------------------------------------------
(* The types. *)

LEMMA MainTypes == ASSUME TypeOK, Main PROVE TypeOK'
  <1> USE CancelAssumption DEF TypeOK, Command, switchVars, playerVars,
                               bufferVars, recorderVars
  <1>1. ASSUME NEW enable \in BOOLEAN, SetNoiseClear(enable) PROVE TypeOK'
    <2>1. seenOff' \subseteq {"noise", "echo"} /\ noise_clear' \in BOOLEAN
      BY <1>1, Zenon DEF SetNoiseClear
    <2> QED BY <1>1, <2>1 DEF SetNoiseClear
  <1>2. ASSUME NEW enable \in BOOLEAN, SetEchoClear(enable) PROVE TypeOK'
    <2>1. seenOff' \subseteq {"noise", "echo"} /\ echo_clear' \in BOOLEAN
      BY <1>2, Zenon DEF SetEchoClear
    <2>2. steady' \in [Player -> 0 .. 2]
      BY <1>2 DEF SetEchoClear
    <2> QED BY <1>2, <2>1, <2>2 DEF SetEchoClear
  <1>3. CASE StopPlaying
    BY <1>3 DEF StopPlaying
  <1>4. CASE \E p \in Player : StartPlaying(p)
    BY <1>4 DEF StartPlaying, Plays
  <1> QED BY <1>1, <1>2, <1>3, <1>4 DEF Main

LEMMA PlayingTypes ==
  ASSUME TypeOK, NEW p \in Player, PlayerOK(p), Playing(p)
  PROVE  TypeOK'
  <1> USE CancelAssumption DEF TypeOK, Plays, switchVars, playerVars,
                               bufferVars, recorderVars
  <1>1. CASE Decode(p)
    BY <1>1 DEF Decode
  <1>2. CASE LeaveLoop(p)
    BY <1>2 DEF LeaveLoop
  <1>3. CASE AudioOut(p)
    BY <1>3 DEF AudioOut
  <1>4. CASE TestEchoClear(p)
    BY <1>4 DEF TestEchoClear
  <1>5. CASE SetEchoAudioFrame(p)
    <2>1. played[p] \in 1 .. MaxPlayed
      BY <1>5 DEF SetEchoAudioFrame, PlayerOK
    <2>2. echoAudioFrame' \in [by : Player, no : 1 .. MaxPlayed]
      BY <1>5, <2>1 DEF SetEchoAudioFrame
    <2> QED BY <1>5, <2>2 DEF SetEchoAudioFrame
  <1> QED BY <1>1, <1>2, <1>3, <1>4, <1>5 DEF Playing

LEMMA RecordingTypes == ASSUME TypeOK, Recording PROVE TypeOK'
  <1> USE CancelAssumption DEF TypeOK, Records, switchVars, playerVars,
                               bufferVars, recorderVars
  <1>1. CASE AudioIn
    <2>1. FiltersOff \subseteq {"noise", "echo"}
      BY DEF FiltersOff
    <2> QED BY <1>1, <2>1 DEF AudioIn
  <1>2. CASE NoiseOrElse
    BY <1>2 DEF NoiseOrElse
  <1>3. CASE OrEcho
    BY <1>3 DEF OrEcho
  <1>4. CASE TestEcho
    BY <1>4 DEF TestEcho
  <1>5. CASE TestPlaying
    BY <1>5 DEF TestPlaying
  <1>6. At(ptr) \in 0 .. MaxRecorded
    BY DEF At
  <1>7. CASE Cancel
    BY <1>6, <1>7 DEF Cancel, Wild
  <1>8. CASE Preprocess
    BY <1>8 DEF Preprocess, Wild
  <1>9. CASE Encode
    BY <1>6, <1>9 DEF Encode, Wild
  <1> QED
    BY <1>1, <1>2, <1>3, <1>4, <1>5, <1>7, <1>8, <1>9 DEF Recording

LEMMA NextTypes == ASSUME IInv, [Next]_vars PROVE TypeOK'
  <1>1. TypeOK /\ \A p \in Player : PlayerOK(p)
    BY DEF IInv
  <1>2. CASE UNCHANGED vars
    BY <1>1, <1>2
    DEF vars, switchVars, playerVars, bufferVars, recorderVars, TypeOK
  <1> QED BY <1>1, <1>2, MainTypes, PlayingTypes, RecordingTypes DEF Next

-----------------------------------------------------------------------------
(* What the players store. *)

PlayersInv ==
    /\ \A p \in Player : PlayerOK(p)
    /\ EchoWasPlayed
    /\ EchoIsRecent

\* The recorder and the two switches that are not echo_clear touch none of it.
LEMMA PlayersKept ==
  ASSUME PlayersInv, UNCHANGED <<playerVars, echo_clear>>
  PROVE  PlayersInv'
  BY DEF PlayersInv, PlayerOK, EchoWasPlayed, EchoIsRecent, playerVars

LEMMA MainPlayers == ASSUME TypeOK, PlayersInv, Main PROVE PlayersInv'
  <1> USE DEF TypeOK, PlayersInv, switchVars, recorderVars
  <1>1. ASSUME NEW enable \in BOOLEAN, SetNoiseClear(enable) PROVE PlayersInv'
    BY <1>1, PlayersKept DEF SetNoiseClear
  <1>2. ASSUME NEW enable \in BOOLEAN, SetEchoClear(enable) PROVE PlayersInv'
    BY <1>2 DEF SetEchoClear, PlayerOK, EchoWasPlayed, EchoIsRecent
  <1>3. CASE StopPlaying
    BY <1>3, PlayersKept DEF StopPlaying
  <1>4. CASE \E p \in Player : StartPlaying(p)
    BY <1>4 DEF StartPlaying, Plays, PlayerOK, EchoWasPlayed, EchoIsRecent
  <1> QED BY <1>1, <1>2, <1>3, <1>4 DEF Main

LEMMA PlayingPlayers ==
  ASSUME TypeOK, PlayersInv, NEW p \in Player, Playing(p)
  PROVE  PlayersInv'
  <1> USE CancelAssumption
      DEF TypeOK, PlayersInv, Plays, switchVars, recorderVars, PlayerOK,
          EchoWasPlayed, EchoIsRecent
  <1>1. CASE Decode(p)
    BY <1>1 DEF Decode
  <1>2. CASE LeaveLoop(p)
    BY <1>2 DEF LeaveLoop
  <1>3. CASE AudioOut(p)
    BY <1>3 DEF AudioOut
  <1>4. CASE TestEchoClear(p)
    BY <1>4 DEF TestEchoClear
  <1>5. CASE SetEchoAudioFrame(p)
    BY <1>5 DEF SetEchoAudioFrame, NULL
  <1> QED BY <1>1, <1>2, <1>3, <1>4, <1>5 DEF Playing

-----------------------------------------------------------------------------
(* What the recorder encodes. *)

LEMMA MainRecorder == ASSUME TypeOK, RecorderOK, Main PROVE RecorderOK'
  <1> USE DEF TypeOK, RecorderOK, FiltersOff, OnThisFrame, Command, switchVars,
              playerVars, recorderVars, bufferVars
  <1>1. ASSUME NEW enable \in BOOLEAN, SetNoiseClear(enable) PROVE RecorderOK'
    BY <1>1 DEF SetNoiseClear
  <1>2. ASSUME NEW enable \in BOOLEAN, SetEchoClear(enable) PROVE RecorderOK'
    BY <1>2 DEF SetEchoClear
  <1>3. CASE StopPlaying
    BY <1>3 DEF StopPlaying
  <1>4. CASE \E p \in Player : StartPlaying(p)
    BY <1>4 DEF StartPlaying
  <1> QED BY <1>1, <1>2, <1>3, <1>4 DEF Main

LEMMA PlayingRecorder ==
  ASSUME RecorderOK, NEW p \in Player, Playing(p)
  PROVE  RecorderOK'
  BY DEF RecorderOK, FiltersOff, OnThisFrame, Playing, Decode, LeaveLoop, AudioOut,
         TestEchoClear, SetEchoAudioFrame, switchVars, recorderVars, bufferVars

LEMMA RecordingRecorder == ASSUME TypeOK, RecorderOK, Recording PROVE RecorderOK'
  <1> USE DEF TypeOK, RecorderOK, OnThisFrame, Records, switchVars, bufferVars
  <1>1. FiltersOff' = FiltersOff
    BY DEF Recording, FiltersOff, AudioIn, NoiseOrElse, OrEcho, TestEcho,
           TestPlaying, Cancel, Preprocess, Encode
  <1>2. /\ ~noise_clear => "noise" \in FiltersOff
        /\ ~echo_clear => "echo" \in FiltersOff
    BY DEF FiltersOff
  <1>3. CASE AudioIn
    BY <1>1, <1>3 DEF AudioIn
  <1>4. CASE NoiseOrElse
    BY <1>1, <1>2, <1>4 DEF NoiseOrElse
  <1>5. CASE OrEcho
    BY <1>1, <1>2, <1>5 DEF OrEcho
  <1>6. CASE TestEcho
    BY <1>1, <1>6 DEF TestEcho
  <1>7. CASE TestPlaying
    BY <1>1, <1>7 DEF TestPlaying
  <1>8. CASE Cancel
    BY <1>1, <1>8 DEF Cancel, Wild, At
  <1>9. CASE Preprocess
    BY <1>1, <1>9 DEF Preprocess, Wild
  <1>10. CASE Encode
    BY <1>1, <1>10 DEF Encode, Wild
  <1> QED
    BY <1>3, <1>4, <1>5, <1>6, <1>7, <1>8, <1>9, <1>10 DEF Recording

-----------------------------------------------------------------------------
LEMMA NextInv == IInv /\ [Next]_vars => IInv'
  <1> SUFFICES ASSUME IInv, [Next]_vars PROVE IInv'
    OBVIOUS
  <1>1. TypeOK /\ PlayersInv /\ RecorderOK
    BY DEF IInv, PlayersInv
  <1>2. TypeOK'
    BY NextTypes
  <1>3. PlayersInv'
    <2>1. CASE Recording \/ UNCHANGED vars
      <3>1. UNCHANGED <<playerVars, echo_clear>>
        BY <2>1
        DEF Recording, AudioIn, NoiseOrElse, OrEcho, TestEcho, TestPlaying, Cancel,
            Preprocess, Encode, switchVars, vars
      <3> QED BY <1>1, <3>1, PlayersKept
    <2> QED BY <1>1, <2>1, MainPlayers, PlayingPlayers DEF Next
  <1>4. RecorderOK'
    <2>1. CASE UNCHANGED vars
      BY <1>1, <2>1
      DEF vars, switchVars, recorderVars, bufferVars, RecorderOK, FiltersOff,
          OnThisFrame
    <2> QED
      BY <1>1, <2>1, MainRecorder, PlayingRecorder, RecordingRecorder DEF Next
  <1> QED BY <1>2, <1>3, <1>4 DEF IInv, PlayersInv

LEMMA Inductive == Spec => []IInv
  BY InitInv, NextInv, PTL DEF Spec

-----------------------------------------------------------------------------
\* Every reachable state has the types of TypeOK.
THEOREM TypeCorrect == Spec => []TypeOK
  <1>1. IInv => TypeOK
    BY DEF IInv
  <1> QED BY <1>1, Inductive, PTL

\* The frame that speex_echo_cancellation compares with has been handed to
\* android_AudioOut before, by whichever player it is.
THEOREM OnlyPlayedFramesAreCanceled == Spec => []EchoWasPlayed
  <1>1. IInv => EchoWasPlayed
    BY DEF IInv
  <1> QED BY <1>1, Inductive, PTL

\* With echo_clear on, no player's stored frame lags behind by more than one.
THEOREM StoredFrameIsRecent == Spec => []EchoIsRecent
  <1>1. IInv => EchoIsRecent
    BY DEF IInv
  <1> QED BY <1>1, Inductive, PTL

\* The recording loop encodes the frame it has just recorded, and never through
\* a wild pointer, unless it saw both filters off.
THEOREM RecorderEncodesItsFrame == Spec => EncodesThisFrame
  <1> DEFINE A == seenOff # {"noise", "echo"} =>
                    /\ ~crashed'
                    /\ recorder = "encode" /\ recorder' = "loop" => encoded' = recorded
  <1>1. IInv /\ [Next]_vars => [A]_vars
    <2> SUFFICES ASSUME IInv, Next, seenOff # {"noise", "echo"} PROVE A
      OBVIOUS
    <2>1. ~crashed
      BY DEF IInv, RecorderOK
    <2>2. ptr # "wild" \/ recorder \in {"loop", "noiseOff", "noiseOrEcho"}
      BY DEF IInv, TypeOK, RecorderOK, OnThisFrame
    <2>3. recorder = "encode" => At(ptr) = recorded
      BY DEF IInv, RecorderOK, OnThisFrame, At
    <2>4. CASE Recording
      BY <2>1, <2>2, <2>3, <2>4
      DEF Recording, AudioIn, NoiseOrElse, OrEcho, TestEcho, TestPlaying, Cancel,
          Preprocess, Encode, Wild, Records
    <2>5. CASE Main \/ \E p \in Player : Playing(p)
      BY <2>1, <2>5
      DEF Main, SetNoiseClear, SetEchoClear, StopPlaying, StartPlaying, Playing,
          Decode, LeaveLoop, AudioOut, TestEchoClear, SetEchoAudioFrame,
          recorderVars
    <2> QED BY <2>4, <2>5 DEF Next
  <1> QED BY <1>1, Inductive, PTL DEF Spec, EncodesThisFrame
=============================================================================
