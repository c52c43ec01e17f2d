---------------------------- MODULE LocalEcho_proofs ----------------------------
(***************************************************************************)
(* LocalEcho, and with it OpenSLDevice, for any number of tasks and any    *)
(* use of the buttons: the types, that nothing is destroyed while it is in *)
(* use, that nothing is left of a stream that is gone, and that the        *)
(* streams and the flag belong to tasks.                                   *)
(***************************************************************************)
EXTENDS LocalEcho, SequenceTheorems, TLAPS

-----------------------------------------------------------------------------
(* The two orders of opening, written out. *)

LEMMA Modes ==
  ASSUME NEW x \in Stream
  PROVE  x[2] = RECORD_MODE \/ x[2] = PLAY_MODE
  BY DEF Stream

Common == EngineSteps \o BufferSteps

LEMMA CommonOrder ==
  /\ Common \in Seq(Part) /\ Len(Common) = 6
  /\ Common[1] = "engineObject"
  /\ Common[2] = "engineRealized"
  /\ Common[3] = "engineEngine"
  /\ Common[4] = "lock"
  /\ Common[5] = "buffer0"
  /\ Common[6] = "buffer1"
  <1>1. EngineSteps \in Seq(Part) /\ Len(EngineSteps) = 3
    BY DEF EngineSteps, Part, PartsOf
  <1>2. BufferSteps \in Seq(Part) /\ Len(BufferSteps) = 3
    BY DEF BufferSteps, Part, PartsOf
  <1>3. /\ Common \in Seq(Part) /\ Len(Common) = 6
        /\ \A i \in 1 .. 3 : Common[i] = EngineSteps[i]
        /\ \A i \in 4 .. 6 : Common[i] = BufferSteps[i - 3]
    <2>1. /\ Common \in Seq(Part) /\ Len(Common) = Len(EngineSteps) + Len(BufferSteps)
          /\ \A i \in 1 .. Len(EngineSteps) + Len(BufferSteps) :
               Common[i] = IF i <= Len(EngineSteps) THEN EngineSteps[i]
                           ELSE BufferSteps[i - Len(EngineSteps)]
      BY <1>1, <1>2, ConcatProperties, Zenon DEF Common
    <2> QED BY <1>1, <1>2, <2>1
  <1> QED BY <1>3 DEF EngineSteps, BufferSteps

LEMMA RecordOrder ==
  ASSUME NEW x \in Stream, x[2] = RECORD_MODE
  PROVE  /\ OpenSteps(x) \in Seq(Part) /\ Len(OpenSteps(x)) = 12
         /\ \A i \in 1 .. 6 : OpenSteps(x)[i] = Common[i]
         /\ \A i \in 7 .. 12 : OpenSteps(x)[i] = RecSteps[i - 6]
  <1>1. RecSteps \in Seq(Part) /\ Len(RecSteps) = 6
    BY DEF RecSteps, Part, PartsOf
  <1>2. OpenSteps(x) = Common \o RecSteps
    BY DEF OpenSteps, Common
  <1>3. /\ Common \o RecSteps \in Seq(Part)
        /\ Len(Common \o RecSteps) = Len(Common) + Len(RecSteps)
        /\ \A i \in 1 .. Len(Common) + Len(RecSteps) :
             (Common \o RecSteps)[i] = IF i <= Len(Common) THEN Common[i]
                                   ELSE RecSteps[i - Len(Common)]
    BY <1>1, CommonOrder, ConcatProperties
  <1>4. /\ OpenSteps(x) \in Seq(Part) /\ Len(OpenSteps(x)) = Len(Common) + Len(RecSteps)
        /\ \A i \in 1 .. Len(Common) + Len(RecSteps) :
             OpenSteps(x)[i] = IF i <= Len(Common) THEN Common[i]
                               ELSE RecSteps[i - Len(Common)]
    BY <1>2, <1>3, Zenon
  <1> QED BY <1>1, <1>4, CommonOrder

LEMMA PlayOrder ==
  ASSUME NEW x \in Stream, x[2] = PLAY_MODE
  PROVE  /\ OpenSteps(x) \in Seq(Part) /\ Len(OpenSteps(x)) = 14
         /\ \A i \in 1 .. 6 : OpenSteps(x)[i] = Common[i]
         /\ \A i \in 7 .. 14 : OpenSteps(x)[i] = PlaySteps[i - 6]
  <1>1. PlaySteps \in Seq(Part) /\ Len(PlaySteps) = 8
    BY DEF PlaySteps, Part, PartsOf
  <1>2. OpenSteps(x) = Common \o PlaySteps
    BY DEF OpenSteps, Common, RECORD_MODE, PLAY_MODE
  <1>3. /\ Common \o PlaySteps \in Seq(Part)
        /\ Len(Common \o PlaySteps) = Len(Common) + Len(PlaySteps)
        /\ \A i \in 1 .. Len(Common) + Len(PlaySteps) :
             (Common \o PlaySteps)[i] = IF i <= Len(Common) THEN Common[i]
                                   ELSE PlaySteps[i - Len(Common)]
    BY <1>1, CommonOrder, ConcatProperties
  <1>4. /\ OpenSteps(x) \in Seq(Part) /\ Len(OpenSteps(x)) = Len(Common) + Len(PlaySteps)
        /\ \A i \in 1 .. Len(Common) + Len(PlaySteps) :
             OpenSteps(x)[i] = IF i <= Len(Common) THEN Common[i]
                               ELSE PlaySteps[i - Len(Common)]
    BY <1>2, <1>3, Zenon
  <1> QED BY <1>1, <1>4, CommonOrder

\* What matters of these orders: the engine is first, the lock and the buffers
\* are fourth to sixth, the mix comes before the player that needs it, and one
\* object that uses the buffers is among the steps.
LEMMA OpenFacts ==
  ASSUME NEW x \in Stream
  PROVE  /\ Len(OpenSteps(x)) \in 12 .. 14
         /\ \A i \in 1 .. Len(OpenSteps(x)) : OpenSteps(x)[i] \in Part
         /\ OpenSteps(x)[1] = "engineObject"
         /\ OpenSteps(x)[4] = "lock"
         /\ OpenSteps(x)[5] = "buffer0"
         /\ OpenSteps(x)[6] = "buffer1"
         /\ \A i \in 1 .. Len(OpenSteps(x)) :
              OpenSteps(x)[i] = "bqPlayerObject" =>
                i = 9 /\ OpenSteps(x)[7] = "outputMixObject"
         /\ \E i \in 7 .. 9 : OpenSteps(x)[i] \in {"bqPlayerObject", "recorderObject"}
  <1> DEFINE S == OpenSteps(x)
  <1>1. /\ S[1] = "engineObject" /\ S[2] = "engineRealized"
        /\ S[3] = "engineEngine" /\ S[4] = "lock"
        /\ S[5] = "buffer0" /\ S[6] = "buffer1"
    BY Modes, RecordOrder, PlayOrder, CommonOrder
  <1>2. CASE x[2] = RECORD_MODE
    <2>1. /\ Len(S) = 12 /\ S \in Seq(Part)
          /\ S[7] = "recorderObject" /\ S[8] = "recorderRealized"
          /\ S[9] = "recorderRecord" /\ S[10] = "recorderBufferQueue"
          /\ S[11] = "recorderCallback" /\ S[12] = "recording"
      BY <1>2, RecordOrder DEF RecSteps
    <2>2. \A i \in 1 .. 12 : S[i] # "bqPlayerObject"
      BY <1>1, <2>1
    <2>3. \A i \in 1 .. 12 : S[i] \in Part
      <3>1. S \in Seq(Part) /\ Len(S) = 12
        BY <1>2, RecordOrder
      <3> HIDE DEF S
      <3> QED BY <3>1, ElementOfSeq
    <2> QED BY <1>1, <2>1, <2>2, <2>3
  <1>3. CASE x[2] = PLAY_MODE
    <2>1. /\ Len(S) = 14 /\ S \in Seq(Part)
          /\ S[7] = "outputMixObject" /\ S[8] = "mixRealized"
          /\ S[9] = "bqPlayerObject" /\ S[10] = "playerRealized"
          /\ S[11] = "bqPlayerPlay" /\ S[12] = "bqPlayerBufferQueue"
          /\ S[13] = "playerCallback" /\ S[14] = "playing"
      BY <1>3, PlayOrder DEF PlaySteps
    <2>2. \A i \in 1 .. 14 : S[i] = "bqPlayerObject" => i = 9
      BY <1>1, <2>1
    <2>3. \A i \in 1 .. 14 : S[i] \in Part
      <3>1. S \in Seq(Part) /\ Len(S) = 14
        BY <1>3, PlayOrder
      <3> HIDE DEF S
      <3> QED BY <3>1, ElementOfSeq
    <2> QED BY <1>1, <2>1, <2>2, <2>3
  <1> QED BY <1>2, <1>3, Modes

\* What android_CloseAudioDevice gives back, and that this is everything.
LEMMA CloseFacts ==
  /\ Len(CloseSteps) = 8
  /\ CloseSteps[1] = PlayerParts
  /\ CloseSteps[2] = PartsOf(RecSteps)
  /\ CloseSteps[3] = MixParts
  /\ CloseSteps[4] = PartsOf(EngineSteps)
  /\ CloseSteps[5] = {"lock"}
  /\ CloseSteps[6] = {"buffer0"}
  /\ CloseSteps[7] = {"buffer1"}
  /\ CloseSteps[8] = {"stream"}
  BY DEF CloseSteps

LEMMA PartSets ==
  /\ PartsOf(EngineSteps) = {"engineObject", "engineRealized", "engineEngine"}
  /\ PartsOf(RecSteps) =
       {"recorderObject", "recorderRealized", "recorderRecord",
        "recorderBufferQueue", "recorderCallback", "recording"}
  /\ Part \subseteq {"stream", "lock", "buffer0", "buffer1"} \cup PlayerParts
        \cup MixParts \cup PartsOf(EngineSteps) \cup PartsOf(RecSteps)
  <1>1. DOMAIN EngineSteps = {1, 2, 3} /\ DOMAIN BufferSteps = {1, 2, 3}
    BY DEF EngineSteps, BufferSteps
  <1>2. DOMAIN RecSteps = {1, 2, 3, 4, 5, 6}
    BY DEF RecSteps
  <1>3. DOMAIN PlaySteps = {1, 2, 3, 4, 5, 6, 7, 8}
    BY DEF PlaySteps
  <1>4. PartsOf(EngineSteps) = {"engineObject", "engineRealized", "engineEngine"}
    BY <1>1 DEF PartsOf, EngineSteps
  <1>5. PartsOf(RecSteps) =
          {"recorderObject", "recorderRealized", "recorderRecord",
           "recorderBufferQueue", "recorderCallback", "recording"}
    BY <1>2 DEF PartsOf, RecSteps
  <1>6. PartsOf(BufferSteps) = {"lock", "buffer0", "buffer1"}
    BY <1>1 DEF PartsOf, BufferSteps
  <1>7. PartsOf(PlaySteps) = PlayerParts \cup MixParts
    BY <1>3 DEF PartsOf, PlaySteps, PlayerParts, MixParts
  <1> QED BY <1>4, <1>5, <1>6, <1>7 DEF Part

-----------------------------------------------------------------------------
(* The steps of the device: each is about one stream and keeps what holds of *)
(* it.                                                                       *)

Same(y) ==
    /\ at'[y] = at[y] /\ done'[y] = done[y]
    /\ held'[y] = held[y] /\ token'[y] = token[y]

OneStep(x) ==
    /\ DeviceTypeOK'
    /\ \A y \in Stream : y # x => Same(y)
    /\ StreamOK(x)'

LEMMA SameOK ==
  ASSUME NEW y, StreamOK(y), Same(y)
  PROVE  StreamOK(y)'
  <1>1. OpeningOK(y)'
    BY DEF StreamOK, Same, OpeningOK
  <1>2. ClosingOK(y)'
    BY DEF StreamOK, Same, ClosingOK
  <1>3. TokenOK(y)'
    BY DEF StreamOK, Same, TokenOK
  <1>4. PartsOK(y)'
    BY DEF StreamOK, Same, PartsOK
  <1> QED BY <1>1, <1>2, <1>3, <1>4 DEF StreamOK

LEMMA OpensOK ==
  ASSUME DeviceTypeOK, NEW x \in Stream, StreamOK(x), Opens(x)
  PROVE  OneStep(x) /\ at'[x] \in {"opening", "none"}
  <1>1. CASE crashed' = TRUE /\ UNCHANGED <<at, done, held, token>>
    <2>1. DeviceTypeOK'
      BY <1>1 DEF DeviceTypeOK
    <2>2. \A y : Same(y)
      BY <1>1 DEF Same
    <2>3. at'[x] = "none"
      BY <1>1 DEF Opens
    <2> QED BY <2>1, <2>2, <2>3, SameOK DEF OneStep
  <1>2. CASE /\ at' = [at EXCEPT ![x] = "opening"]
             /\ done' = [done EXCEPT ![x] = 0]
             /\ held' = [held EXCEPT ![x] = {"stream"}]
             /\ UNCHANGED <<token, crashed>>
    <2>1. DeviceTypeOK'
      <3>1. {"stream"} \in SUBSET Part
        BY DEF Part
      <3> QED BY <1>2, <3>1 DEF DeviceTypeOK
    <2>2. \A y \in Stream : y # x => Same(y)
      BY <1>2 DEF Same, DeviceTypeOK
    <2>3. /\ at'[x] = "opening" /\ done'[x] = 0 /\ held'[x] = {"stream"}
          /\ token'[x] = "none"
      BY <1>2 DEF DeviceTypeOK, Opens, StreamOK, TokenOK
    <2>4. StreamOK(x)'
      BY <2>3, OpenFacts DEF StreamOK, OpeningOK, ClosingOK, TokenOK, PartsOK
    <2> QED BY <2>1, <2>2, <2>3, <2>4 DEF OneStep
  <1> QED BY <1>1, <1>2 DEF Opens

\* A call succeeds: the part that it is about is there.
LEMMA ObtainsOK ==
  ASSUME DeviceTypeOK, NEW x \in Stream, StreamOK(x), at[x] = "opening",
         done[x] < Len(OpenSteps(x)), Obtains(x)
  PROVE  OneStep(x) /\ at'[x] = "opening"
  <1> DEFINE S == OpenSteps(x)
             d == done[x]
  <1>1. d \in 0 .. 14 /\ d + 1 \in 1 .. Len(S) /\ d + 1 \in 0 .. 14
    BY OpenFacts DEF DeviceTypeOK
  <1>2. NextPart(x) = S[d + 1] /\ NextPart(x) \in Part
    BY <1>1, OpenFacts DEF NextPart
  <1>3. DeviceTypeOK'
    BY <1>1, <1>2 DEF DeviceTypeOK, Obtains
  <1>4. \A y \in Stream : y # x => Same(y)
    BY DEF Same, DeviceTypeOK, Obtains
  <1>5. /\ at'[x] = "opening" /\ done'[x] = d + 1
        /\ held'[x] = held[x] \cup {S[d + 1]} /\ token'[x] = token[x]
    BY <1>2 DEF DeviceTypeOK, Obtains
  <1>6. OpeningOK(x)'
    BY <1>1, <1>5 DEF StreamOK, OpeningOK
  <1>7. ClosingOK(x)' /\ TokenOK(x)'
    BY <1>5 DEF StreamOK, ClosingOK, TokenOK
  <1>8. PartsOK(x)'
    <2>1. "stream" \in held'[x]
      BY <1>5 DEF StreamOK, OpeningOK
    <2>2. d >= 1 => "engineObject" \in held[x]
      BY <1>1, OpenFacts DEF StreamOK, OpeningOK, Unnoticed
    <2>3. d = 0 => S[d + 1] = "engineObject"
      BY OpenFacts
    <2>4. "engineObject" \in held'[x]
      BY <1>1, <1>5, <2>2, <2>3
    <2>5. S[d + 1] = "bqPlayerObject" => "outputMixObject" \in held[x]
      <3>1. S[d + 1] = "bqPlayerObject" => d = 8 /\ S[7] = "outputMixObject"
        BY <1>1, OpenFacts
      <3>2. d = 8 => S[7] \in held[x] \cup Unnoticed
        BY <1>1 DEF StreamOK, OpeningOK
      <3> QED BY <3>1, <3>2 DEF Unnoticed
    <2> QED BY <1>5, <2>1, <2>4, <2>5 DEF StreamOK, PartsOK
  <1> QED BY <1>3, <1>4, <1>5, <1>6, <1>7, <1>8 DEF OneStep, StreamOK

\* A call fails, and the stream is closed.
LEMMA GivesUpOK ==
  ASSUME DeviceTypeOK, NEW x \in Stream, StreamOK(x), at[x] = "opening",
         GivesUp(x)
  PROVE  OneStep(x) /\ at'[x] = "closing"
  <1>1. DeviceTypeOK'
    BY DEF DeviceTypeOK, GivesUp
  <1>2. \A y \in Stream : y # x => Same(y)
    BY DEF Same, DeviceTypeOK, GivesUp
  <1>3. /\ at'[x] = "closing" /\ done'[x] = 0
        /\ held'[x] = held[x] /\ token'[x] = token[x]
    BY DEF DeviceTypeOK, GivesUp
  <1>4. StreamOK(x)'
    BY <1>3, CloseFacts DEF StreamOK, OpeningOK, ClosingOK, TokenOK, PartsOK
  <1> QED BY <1>1, <1>2, <1>3, <1>4 DEF OneStep

\* A call fails, and nobody notices.
LEMMA GoesOnOK ==
  ASSUME DeviceTypeOK, NEW x \in Stream, StreamOK(x), at[x] = "opening",
         done[x] < Len(OpenSteps(x)), NextPart(x) \in Unnoticed, GoesOn(x)
  PROVE  OneStep(x) /\ at'[x] = "opening"
  <1>1. /\ done[x] \in 0 .. 14 /\ done[x] + 1 \in 1 .. Len(OpenSteps(x))
        /\ done[x] + 1 \in 0 .. 14
    BY OpenFacts DEF DeviceTypeOK
  <1>2. DeviceTypeOK'
    BY <1>1 DEF DeviceTypeOK, GoesOn
  <1>3. \A y \in Stream : y # x => Same(y)
    BY DEF Same, DeviceTypeOK, GoesOn
  <1>4. /\ at'[x] = "opening" /\ done'[x] = done[x] + 1
        /\ held'[x] = held[x] /\ token'[x] = token[x]
    BY DEF DeviceTypeOK, GoesOn
  <1>5. OpeningOK(x)'
    BY <1>1, <1>4 DEF StreamOK, OpeningOK, NextPart
  <1>6. ClosingOK(x)' /\ TokenOK(x)' /\ PartsOK(x)'
    BY <1>4 DEF StreamOK, ClosingOK, TokenOK, PartsOK
  <1> QED BY <1>2, <1>3, <1>4, <1>5, <1>6 DEF OneStep, StreamOK

\* A stream that has passed all its steps, and has a lock, has its buffers and
\* the object that uses them.
LEMMA OpenedOK ==
  ASSUME DeviceTypeOK, NEW x \in Stream, StreamOK(x), Opened(x)
  PROVE  OneStep(x) /\ at'[x] \in {"opening", "open"}
  <1>1. CASE "lock" \notin held[x]
    <2>1. crashed' = TRUE /\ UNCHANGED <<at, done, held, token>>
      BY <1>1 DEF Opened
    <2>2. DeviceTypeOK'
      BY <2>1 DEF DeviceTypeOK
    <2>3. (\A y : Same(y)) /\ at'[x] = "opening"
      BY <2>1 DEF Same, Opened
    <2> QED BY <2>2, <2>3, SameOK DEF OneStep
  <1>2. CASE "lock" \in held[x]
    <2>1. /\ at' = [at EXCEPT ![x] = "open"]
          /\ token' = [token EXCEPT ![x] = "lock"]
          /\ done' = done /\ held' = held /\ crashed' = crashed
      BY <1>2 DEF Opened
    <2>2. DeviceTypeOK'
      BY <2>1 DEF DeviceTypeOK
    <2>3. \A y \in Stream : y # x => Same(y)
      BY <2>1 DEF Same, DeviceTypeOK
    <2>4. /\ at'[x] = "open" /\ token'[x] = "lock" /\ held'[x] = held[x]
      BY <2>1 DEF DeviceTypeOK
    <2>5. Buffers \subseteq held[x]
      <3>1. \A i \in {5, 6} : OpenSteps(x)[i] \in held[x] \cup Unnoticed
        BY OpenFacts DEF Opened, StreamOK, OpeningOK
      <3>2. "buffer0" \in held[x] /\ "buffer1" \in held[x]
        BY <3>1, OpenFacts DEF Unnoticed
      <3>3. "stream" \in held[x]
        BY DEF Opened, StreamOK, OpeningOK
      <3> QED BY <1>2, <3>2, <3>3 DEF Buffers
    <2>6. held[x] \cap {"bqPlayerObject", "recorderObject"} # {}
      <3>1. PICK i \in 7 .. 9 : OpenSteps(x)[i] \in {"bqPlayerObject", "recorderObject"}
        BY OpenFacts
      <3>2. OpenSteps(x)[i] \in held[x] \cup Unnoticed
        BY OpenFacts DEF Opened, StreamOK, OpeningOK
      <3> QED BY <3>1, <3>2 DEF Unnoticed
    <2>7. StreamOK(x)'
      BY <2>4, <2>5, <2>6 DEF StreamOK, OpeningOK, ClosingOK, TokenOK, PartsOK, Buffers
    <2> QED BY <2>2, <2>3, <2>4, <2>7 DEF OneStep
  <1> QED BY <1>1, <1>2

\* The caller and the driver pass the token on.
LEMMA TokenPasses ==
  ASSUME DeviceTypeOK, NEW x \in Stream, StreamOK(x),
         Exchange(x) \/ DriverDone(x) \/ Callback(x)
  PROVE  OneStep(x) /\ at' = at
  <1>1. PICK k \in {"lock", "driver", "callback"} :
          token[x] # "none" /\ token' = [token EXCEPT ![x] = k]
    BY DEF Exchange, DriverDone, Callback
  <1>2. at' = at /\ done' = done /\ held' = held /\ crashed' = crashed
    BY DEF Exchange, DriverDone, Callback
  <1>3. DeviceTypeOK'
    BY <1>1, <1>2 DEF DeviceTypeOK
  <1>4. \A y \in Stream : y # x => Same(y)
    BY <1>1, <1>2 DEF Same, DeviceTypeOK
  <1>5. token'[x] = k
    BY <1>1 DEF DeviceTypeOK
  <1>6. OpeningOK(x)' /\ ClosingOK(x)' /\ PartsOK(x)'
    BY <1>2 DEF StreamOK, OpeningOK, ClosingOK, PartsOK
  <1>7. TokenOK(x)'
    BY <1>1, <1>2, <1>5 DEF StreamOK, TokenOK
  <1> QED BY <1>2, <1>3, <1>4, <1>6, <1>7 DEF OneStep, StreamOK

LEMMA ClosesOK ==
  ASSUME DeviceTypeOK, NEW x \in Stream, StreamOK(x), Closes(x)
  PROVE  OneStep(x) /\ at'[x] = "closing"
  <1>1. DeviceTypeOK'
    BY DEF DeviceTypeOK, Closes
  <1>2. \A y \in Stream : y # x => Same(y)
    BY DEF Same, DeviceTypeOK, Closes
  <1>3. /\ at'[x] = "closing" /\ done'[x] = 0 /\ at[x] = "open"
        /\ held'[x] = held[x] /\ token'[x] = token[x]
    BY DEF DeviceTypeOK, Closes
  <1>4. StreamOK(x)'
    BY <1>3, CloseFacts DEF StreamOK, OpeningOK, ClosingOK, TokenOK, PartsOK
  <1> QED BY <1>1, <1>2, <1>3, <1>4 DEF OneStep

\* The player and the recorder go first, and with them the token; only then goes
\* what they use.
LEMMA CloseStepOK ==
  ASSUME DeviceTypeOK, NEW x \in Stream, StreamOK(x), CloseStep(x)
  PROVE  OneStep(x) /\ at[x] = "closing" /\ at'[x] \in {"closing", "none"}
  <1> DEFINE d == done[x]
             gone == CloseSteps[d + 1]
  <1>1. d \in 0 .. 7 /\ at[x] = "closing"
    BY CloseFacts DEF DeviceTypeOK, CloseStep, StreamOK, ClosingOK
  <1>2. DeviceTypeOK'
    BY <1>1 DEF DeviceTypeOK, CloseStep
  <1>3. \A y \in Stream : y # x => Same(y)
    BY DEF Same, DeviceTypeOK, CloseStep
  <1>4. /\ done'[x] = d + 1 /\ held'[x] = held[x] \ gone
        /\ at'[x] = IF d = 7 THEN "none" ELSE "closing"
    BY <1>1, CloseFacts DEF DeviceTypeOK, CloseStep
  <1>5. token'[x] = IF Destroyed(x) # {} THEN "none" ELSE token[x]
    BY DEF DeviceTypeOK, CloseStep
  <1>6. \A i \in 1 .. d : CloseSteps[i] \cap held[x] = {}
    BY <1>1 DEF StreamOK, ClosingOK
  <1>7. Destroyed(x) = gone \cap held[x] \cap {"bqPlayerObject", "recorderObject"}
    BY DEF Destroyed
  \* What is gone is gone in the end.
  <1>8. ClosingOK(x)' /\ OpeningOK(x)'
    <2>1. \A i \in 1 .. d + 1 : CloseSteps[i] \cap held'[x] = {}
      BY <1>1, <1>4, <1>6
    <2> QED BY <1>1, <1>4, <2>1, CloseFacts DEF ClosingOK, OpeningOK
  <1>9. held[x] \subseteq Part
    BY DEF DeviceTypeOK
  <1>10. d = 7 => held'[x] = {}
    <2> SUFFICES ASSUME d = 7 PROVE held'[x] = {}
      OBVIOUS
    <2>1. \A i \in 1 .. 7 : CloseSteps[i] \cap held[x] = {}
      BY <1>6
    <2>2. /\ held[x] \cap PlayerParts = {}
          /\ held[x] \cap PartsOf(RecSteps) = {}
          /\ held[x] \cap MixParts = {}
          /\ held[x] \cap PartsOf(EngineSteps) = {}
          /\ {"lock", "buffer0", "buffer1"} \cap held[x] = {}
      BY <2>1, CloseFacts
    <2>3. held'[x] = held[x] \ {"stream"}
      BY <1>4, CloseFacts
    <2> QED BY <1>9, <2>2, <2>3, PartSets
  \* The player's and the recorder's objects are the first and the second.
  <1>11. /\ d >= 1 => "bqPlayerObject" \notin held[x]
         /\ d >= 2 => "recorderObject" \notin held[x]
         /\ d >= 3 => "outputMixObject" \notin held[x]
    <2>1. "bqPlayerObject" \in CloseSteps[1]
      BY CloseFacts DEF PlayerParts
    <2>2. "recorderObject" \in CloseSteps[2]
      BY CloseFacts, PartSets
    <2>3. "outputMixObject" \in CloseSteps[3]
      BY CloseFacts DEF MixParts
    <2> QED BY <1>1, <1>6, <2>1, <2>2, <2>3
  <1>12. TokenOK(x)'
    <2>1. ASSUME token'[x] # "none"
          PROVE  Buffers \subseteq held'[x]
                 /\ held'[x] \cap {"bqPlayerObject", "recorderObject"} # {}
      <3>1. Destroyed(x) = {} /\ token[x] # "none"
        BY <1>5, <2>1
      <3>2. /\ Buffers \subseteq held[x]
            /\ held[x] \cap {"bqPlayerObject", "recorderObject"} # {}
        BY <3>1 DEF StreamOK, TokenOK
      <3>3. d = 0 \/ d = 1
        BY <1>1, <1>11, <3>2
      <3>4. gone \cap Buffers = {}
        BY <3>3, CloseFacts, PartSets DEF PlayerParts, Buffers
      <3> QED BY <1>4, <1>7, <3>1, <3>2, <3>4
    <2>2. at'[x] = "none" => token'[x] = "none"
      <3>1. d = 7 => token[x] = "none"
        BY <1>11 DEF StreamOK, TokenOK
      <3> QED BY <1>4, <1>5, <3>1
    <2>3. at'[x] \in {"closing", "none"}
      BY <1>4
    <2> QED BY <2>1, <2>2, <2>3 DEF TokenOK
  <1>13. PartsOK(x)'
    <2>1. at'[x] = "none" => held'[x] = {}
      BY <1>4, <1>10
    <2>2. "bqPlayerObject" \in held'[x] => "outputMixObject" \in held'[x]
      <3>1. d = 0 => "outputMixObject" \notin gone
        BY CloseFacts DEF PlayerParts
      <3>2. "bqPlayerObject" \in held'[x] => d = 0 /\ "outputMixObject" \in held[x]
        BY <1>1, <1>4, <1>11 DEF StreamOK, PartsOK
      <3> QED BY <1>4, <3>1, <3>2
    <2>3. held'[x] \cap {"bqPlayerObject", "recorderObject", "outputMixObject"} # {}
            => "engineObject" \in held'[x]
      <3>1. d \in 0 .. 2 => "engineObject" \notin gone
        BY CloseFacts, PartSets DEF PlayerParts, MixParts
      <3>2. held'[x] \cap {"bqPlayerObject", "recorderObject", "outputMixObject"} # {}
              => d \in 0 .. 2 /\ "engineObject" \in held[x]
        BY <1>1, <1>4, <1>11 DEF StreamOK, PartsOK
      <3> QED BY <1>4, <3>1, <3>2
    <2>4. held'[x] # {} => "stream" \in held'[x]
      <3>1. d \in 0 .. 6 => "stream" \notin gone
        <4>1. d \in 0 .. 3 => "stream" \notin gone
          BY CloseFacts, PartSets DEF PlayerParts, MixParts
        <4>2. d \in 4 .. 6 => "stream" \notin gone
          BY CloseFacts
        <4> QED BY <4>1, <4>2
      <3>2. held'[x] # {} => d # 7 /\ "stream" \in held[x]
        BY <1>4, <1>10 DEF StreamOK, PartsOK
      <3> QED BY <1>1, <1>4, <3>1, <3>2
    <2> QED BY <2>1, <2>2, <2>3, <2>4 DEF PartsOK
  <1> QED BY <1>1, <1>2, <1>3, <1>4, <1>8, <1>12, <1>13 DEF OneStep, StreamOK

\* What goes on inside android_OpenAudioDevice and android_CloseAudioDevice.
LEMMA InCallOK ==
  ASSUME DeviceTypeOK, NEW x \in Stream, StreamOK(x), InCall(x)
  PROVE  /\ OneStep(x)
         /\ \/ at[x] = "opening" /\ at'[x] \in {"opening", "closing", "open"}
            \/ at[x] = "closing" /\ at'[x] \in {"closing", "none"}
  <1>1. CASE CreateEngine(x) \/ AllocBuffers(x) \/ RecOpen(x)
    <2>1. at[x] = "opening" /\ done[x] < Len(OpenSteps(x)) /\ (Obtains(x) \/ GivesUp(x))
      BY <1>1 DEF CreateEngine, AllocBuffers, RecOpen, About
    <2> QED BY <2>1, ObtainsOK, GivesUpOK
  <1>2. CASE CreateLock(x)
    <2>1. at[x] = "opening" /\ done[x] < Len(OpenSteps(x)) /\ (Obtains(x) \/ GoesOn(x))
      BY <1>2 DEF CreateLock, About
    <2>2. NextPart(x) \in Unnoticed
      BY <1>2 DEF CreateLock, About, PartsOf, Unnoticed
    <2> QED BY <2>1, <2>2, ObtainsOK, GoesOnOK
  <1>3. CASE PlayOpen(x)
    <2>1. at[x] = "opening" /\ done[x] < Len(OpenSteps(x))
      BY <1>3 DEF PlayOpen, About
    <2>2. \/ Obtains(x) \/ GivesUp(x)
          \/ NextPart(x) = "mixRealized" /\ GoesOn(x)
      BY <1>3 DEF PlayOpen
    <2>3. "mixRealized" \in Unnoticed
      BY DEF Unnoticed
    <2> QED BY <2>1, <2>2, <2>3, ObtainsOK, GivesUpOK, GoesOnOK
  <1>4. CASE Opened(x)
    BY <1>4, OpenedOK DEF Opened
  <1>5. CASE CloseStep(x)
    BY <1>5, CloseStepOK
  <1> QED BY <1>1, <1>2, <1>3, <1>4, <1>5 DEF InCall

DeviceInv == DeviceTypeOK /\ \A x \in Stream : StreamOK(x)

LEMMA DeviceSteps ==
  ASSUME DeviceInv, NEW x \in Stream, OneStep(x)
  PROVE  DeviceInv' /\ \A y \in Stream : y # x => at'[y] = at[y]
  <1>1. \A y \in Stream : y # x => Same(y) /\ StreamOK(y)'
    BY SameOK DEF OneStep, DeviceInv
  <1> QED BY <1>1 DEF OneStep, DeviceInv, Same

LEMMA DeviceStays ==
  ASSUME DeviceInv, UNCHANGED <<at, done, held, token>>, crashed' \in BOOLEAN
  PROVE  DeviceInv'
  <1>1. DeviceTypeOK'
    BY DEF DeviceInv, DeviceTypeOK
  <1>2. \A y \in Stream : StreamOK(y)'
    BY SameOK DEF Same, DeviceInv
  <1> QED BY <1>1, <1>2 DEF DeviceInv

-----------------------------------------------------------------------------
(* The tasks. *)

LEMMA Streams ==
  ASSUME NEW t \in Task
  PROVE  /\ Rec(t) \in Stream /\ Play(t) \in Stream /\ Rec(t) # Play(t)
         /\ \A s \in Task : s # t =>
              {Rec(s), Play(s)} \cap {Rec(t), Play(t)} = {}
  BY DEF Rec, Play, Stream, RECORD_MODE, PLAY_MODE

Owner ==
    {"flagged", "loop", "in", "out", "closing", "closesRecord", "closesPlay"}

TestTypeOK ==
    /\ isRecordAndPlay \in BOOLEAN
    /\ recording_playing \in {0, 1}
    /\ task \in [Task -> TaskStatus]
    /\ commands \in 0 .. MaxCommands

\* A task that neither moves nor has its streams moved.
LEMMA OtherTask ==
  ASSUME NEW s \in Task, TaskOK(s), task'[s] = task[s],
         at'[Rec(s)] = at[Rec(s)], at'[Play(s)] = at[Play(s)]
  PROVE  TaskOK(s)'
  BY DEF TaskOK, NoneOpen, BothOpen, Rec, Play

\* A step of one task, about its own streams.
LEMMA TaskStep ==
  ASSUME IInv, NEW t \in Task, NEW from, NEW to \in TaskStatus,
         Goes(t, from, to),
         \A y \in Stream : y \notin {Rec(t), Play(t)} => at'[y] = at[y],
         TaskOK(t)'
  PROVE  /\ \A s \in Task : TaskOK(s)'
         /\ task' \in [Task -> TaskStatus]
  <1>1. task' = [task EXCEPT ![t] = to] /\ task \in [Task -> TaskStatus]
    BY DEF Goes, IInv, TypeOK
  <1>2. ASSUME NEW s \in Task, s # t PROVE TaskOK(s)'
    <2>1. task'[s] = task[s]
      BY <1>1, <1>2
    <2>2. at'[Rec(s)] = at[Rec(s)] /\ at'[Play(s)] = at[Play(s)]
      BY <1>2, Streams
    <2> QED BY <2>1, <2>2, OtherTask DEF IInv
  <1> QED BY <1>1, <1>2

\* The flag keeps its owner.
LEMMA FlagStays ==
  ASSUME IInv, NEW t \in Task, NEW from, NEW to, Goes(t, from, to),
         from \in Owner => to \in Owner, isRecordAndPlay' = isRecordAndPlay
  PROVE  FlagHasOwner'
  <1> SUFFICES ASSUME isRecordAndPlay PROVE \E s \in Task : task'[s] \in Owner
    BY DEF FlagHasOwner, Owner
  <1>1. PICK s \in Task : task[s] \in Owner
    BY DEF IInv, FlagHasOwner, Owner
  <1>2. task' = [task EXCEPT ![t] = to] /\ task[t] = from /\ task \in [Task -> TaskStatus]
    BY DEF Goes, IInv, TypeOK
  <1>3. task'[s] \in Owner
    BY <1>1, <1>2
  <1> QED BY <1>3

LEMMA Conclude ==
  ASSUME DeviceInv', TestTypeOK', \A t \in Task : TaskOK(t)', FlagHasOwner'
  PROVE  IInv'
  BY DEF IInv, DeviceInv, TypeOK, TestTypeOK

LEMMA Has ==
  ASSUME IInv
  PROVE  DeviceInv /\ TestTypeOK /\ \A t \in Task : TaskOK(t)
  BY DEF IInv, DeviceInv, TypeOK, TestTypeOK

\* A task moves and touches neither its streams nor the flag.
LEMMA MovesOnly ==
  ASSUME IInv, NEW t \in Task, NEW from, NEW to \in TaskStatus,
         Goes(t, from, to), TaskOK(t)', from \in Owner => to \in Owner,
         UNCHANGED <<at, done, held, token, isRecordAndPlay>>,
         crashed' \in BOOLEAN, recording_playing' \in {0, 1},
         commands' \in 0 .. MaxCommands
  PROVE  IInv'
  <1>1. DeviceInv'
    BY Has, DeviceStays
  <1>2. /\ \A s \in Task : TaskOK(s)'
        /\ task' \in [Task -> TaskStatus]
    BY TaskStep
  <1>3. FlagHasOwner'
    BY FlagStays
  <1>4. TestTypeOK'
    BY <1>2, Has DEF TestTypeOK
  <1> QED BY <1>1, <1>2, <1>3, <1>4, Conclude

\* A task moves together with one of its streams.
LEMMA MovesWith ==
  ASSUME IInv, NEW t \in Task, NEW from, NEW to \in TaskStatus,
         Goes(t, from, to), NEW x \in {Rec(t), Play(t)}, OneStep(x),
         TaskOK(t)', from \in Owner => to \in Owner,
         UNCHANGED <<isRecordAndPlay, recording_playing, commands>>
  PROVE  IInv'
  <1>1. x \in Stream
    BY Streams
  <1>2. DeviceInv' /\ \A y \in Stream : y # x => at'[y] = at[y]
    BY <1>1, Has, DeviceSteps
  <1>3. /\ \A s \in Task : TaskOK(s)'
        /\ task' \in [Task -> TaskStatus]
    BY <1>2, TaskStep
  <1>4. FlagHasOwner'
    BY FlagStays
  <1>5. TestTypeOK'
    BY <1>3, Has DEF TestTypeOK
  <1> QED BY <1>2, <1>3, <1>4, <1>5, Conclude

LEMMA Arrives ==
  ASSUME IInv, NEW t \in Task, NEW from, NEW to, Goes(t, from, to)
  PROVE  task[t] = from /\ task'[t] = to /\ ~crashed
  BY DEF Goes, IInv, TypeOK

LEMMA AtType ==
  ASSUME IInv, NEW x \in Stream
  PROVE  at[x] \in {"none", "opening", "open", "closing"}
  BY DEF IInv, TypeOK, DeviceTypeOK

LEMMA InitInv == Init => IInv
  <1> SUFFICES ASSUME Init PROVE IInv
    OBVIOUS
  <1>1. DeviceTypeOK
    <2>1. {} \in SUBSET Part
      OBVIOUS
    <2>2. crashed \in BOOLEAN
      BY DEF Init, DeviceInit
    <2>3. /\ at = [x \in Stream |-> "none"] /\ done = [x \in Stream |-> 0]
          /\ held = [x \in Stream |-> {}] /\ token = [x \in Stream |-> "none"]
      BY DEF Init, DeviceInit
    <2> QED BY <2>1, <2>2, <2>3 DEF DeviceTypeOK
  <1>2. TypeOK
    <2>1. isRecordAndPlay \in BOOLEAN
      BY DEF Init
    <2>2. /\ recording_playing \in {0, 1} /\ commands \in 0 .. MaxCommands
          /\ task \in [Task -> TaskStatus]
      BY EchoAssumption DEF Init, TaskStatus
    <2> QED BY <1>1, <2>1, <2>2 DEF TypeOK
  <1>3. ASSUME NEW x \in Stream PROVE StreamOK(x)
    BY <1>3 DEF Init, DeviceInit, StreamOK, OpeningOK, ClosingOK, TokenOK, PartsOK
  <1>4. ASSUME NEW t \in Task PROVE TaskOK(t)
    BY <1>4, Streams DEF Init, DeviceInit, TaskOK, NoneOpen
  <1>5. FlagHasOwner
    BY DEF Init, FlagHasOwner
  <1> QED BY <1>2, <1>3, <1>4, <1>5 DEF IInv

-----------------------------------------------------------------------------
(* The buttons. *)

LEMMA CommandType ==
  ASSUME IInv, Command
  PROVE  commands' \in 0 .. MaxCommands
  BY EchoAssumption DEF IInv, TypeOK, Command

LEMMA RecordAndPlayStep ==
  ASSUME IInv, NEW t \in Task, RecordAndPlay(t)
  PROVE  IInv'
  <1>1. Goes(t, "free", "queued")
    BY DEF RecordAndPlay, Goes, Command
  <1>2. UNCHANGED <<at, done, held, token, crashed, isRecordAndPlay, recording_playing>>
    BY DEF RecordAndPlay, deviceVars
  <1>3. crashed' \in BOOLEAN /\ recording_playing' \in {0, 1}
    BY <1>2 DEF IInv, TypeOK, DeviceTypeOK
  <1>4. TaskOK(t)'
    BY <1>1, <1>2, Arrives DEF IInv, TaskOK, NoneOpen
  <1>5. commands' \in 0 .. MaxCommands
    BY CommandType DEF RecordAndPlay
  <1>6. "queued" \in TaskStatus /\ "free" \notin Owner
    BY DEF TaskStatus, Owner
  <1> QED BY <1>1, <1>2, <1>3, <1>4, <1>5, <1>6, MovesOnly

LEMMA StopStep == ASSUME IInv, StopRecordAndPlay PROVE IInv'
  <1>1. UNCHANGED <<at, done, held, token, crashed, isRecordAndPlay, task>>
    BY DEF StopRecordAndPlay, deviceVars
  <1>2. DeviceInv'
    <2>1. crashed' \in BOOLEAN
      BY <1>1 DEF IInv, TypeOK, DeviceTypeOK
    <2> QED BY <1>1, <2>1, Has, DeviceStays
  <1>3. TestTypeOK'
    <2>1. commands' \in 0 .. MaxCommands
      BY CommandType DEF StopRecordAndPlay
    <2>2. recording_playing' \in {0, 1}
      BY DEF StopRecordAndPlay
    <2> QED BY <1>1, <2>1, <2>2, Has DEF TestTypeOK
  <1>4. ASSUME NEW t \in Task PROVE TaskOK(t)'
    BY <1>1, OtherTask, Has
  <1>5. FlagHasOwner'
    BY <1>1 DEF IInv, FlagHasOwner
  <1> QED BY <1>2, <1>3, <1>4, <1>5, Conclude

-----------------------------------------------------------------------------
(* The steps of a task. *)

LEMMA SetUpStep == ASSUME IInv, NEW t \in Task, SetUp(t) PROVE IInv'
  <1>1. PICK to \in {"ready", "free", "queued"} : Goes(t, "queued", to)
    BY DEF SetUp
  <1>2. UNCHANGED <<at, done, held, token, isRecordAndPlay, recording_playing, commands>>
    BY DEF SetUp
  <1>3. crashed' \in BOOLEAN
    BY DEF SetUp, IInv, TypeOK, DeviceTypeOK
  <1>4. recording_playing' \in {0, 1} /\ commands' \in 0 .. MaxCommands
    BY <1>2 DEF IInv, TypeOK
  <1>5. TaskOK(t)'
    BY <1>1, <1>2, Arrives DEF IInv, TaskOK, NoneOpen
  <1>6. to \in TaskStatus /\ "queued" \notin Owner
    BY DEF TaskStatus, Owner
  <1> QED BY <1>1, <1>2, <1>3, <1>4, <1>5, <1>6, MovesOnly

\* The two calls of android_OpenAudioDevice and of android_CloseAudioDevice, and
\* the exchanges of buffers.
LEMMA OpenRecordStep == ASSUME IInv, NEW t \in Task, OpenRecord(t) PROVE IInv'
  <1>1. Goes(t, "ready", "opensRecord") /\ Opens(Rec(t))
    BY DEF OpenRecord
  <1>2. OneStep(Rec(t))
    BY <1>1, OpensOK, Streams, Has DEF DeviceInv
  <1>3. TaskOK(t)'
    <2>1. at'[Play(t)] = at[Play(t)] /\ at[Play(t)] = "none"
      BY <1>1, <1>2, Arrives, Streams, Has, DeviceSteps DEF TaskOK, NoneOpen
    <2> QED BY <1>1, <2>1, Arrives DEF TaskOK, Play
  <1>4. "opensRecord" \in TaskStatus /\ "ready" \notin Owner
    BY DEF TaskStatus, Owner
  <1> QED BY <1>1, <1>2, <1>3, <1>4, MovesWith DEF OpenRecord

LEMMA OpenPlayStep == ASSUME IInv, NEW t \in Task, OpenPlay(t) PROVE IInv'
  <1>1. Goes(t, "opensRecord", "opensPlay") /\ Opens(Play(t))
    BY DEF OpenPlay
  <1>2. OneStep(Play(t))
    BY <1>1, OpensOK, Streams, Has DEF DeviceInv
  <1>3. TaskOK(t)'
    <2>1. at'[Rec(t)] = at[Rec(t)] /\ at[Rec(t)] \in {"open", "none"}
      BY <1>2, Streams, Has, DeviceSteps DEF OpenPlay
    <2> QED BY <1>1, <2>1, Arrives DEF TaskOK, Rec
  <1>4. "opensPlay" \in TaskStatus /\ "opensRecord" \notin Owner
    BY DEF TaskStatus, Owner
  <1> QED BY <1>1, <1>2, <1>3, <1>4, MovesWith DEF OpenPlay

LEMMA AudioStep ==
  ASSUME IInv, NEW t \in Task, AudioIn(t) \/ AudioOut(t)
  PROVE  IInv'
  <1>1. PICK x \in {Rec(t), Play(t)}, from \in {"in", "out"}, to \in {"out", "loop"} :
          Goes(t, from, to) /\ Exchange(x)
    BY DEF AudioIn, AudioOut
  <1>2. OneStep(x) /\ at' = at
    BY <1>1, TokenPasses, Streams, Has DEF DeviceInv
  <1>3. TaskOK(t)'
    <2>1. BothOpen(t)
      BY <1>1, Arrives, Has DEF TaskOK
    <2> QED BY <1>1, <1>2, <2>1, Arrives DEF TaskOK, BothOpen
  <1>4. to \in TaskStatus /\ to \in Owner
    BY DEF TaskStatus, Owner
  <1> QED BY <1>1, <1>2, <1>3, <1>4, MovesWith DEF AudioIn, AudioOut

LEMMA CloseRecordStep == ASSUME IInv, NEW t \in Task, CloseRecord(t) PROVE IInv'
  <1>1. Goes(t, "closing", "closesRecord") /\ Closes(Rec(t))
    BY DEF CloseRecord
  <1>2. OneStep(Rec(t)) /\ at'[Rec(t)] = "closing"
    BY <1>1, ClosesOK, Streams, Has DEF DeviceInv
  <1>3. TaskOK(t)'
    <2>1. at'[Play(t)] = at[Play(t)] /\ at[Play(t)] = "open"
      BY <1>1, <1>2, Arrives, Streams, Has, DeviceSteps DEF TaskOK, BothOpen
    <2> QED BY <1>1, <1>2, <2>1, Arrives DEF TaskOK, Rec, Play
  <1>4. "closesRecord" \in TaskStatus /\ "closesRecord" \in Owner
    BY DEF TaskStatus, Owner
  <1> QED BY <1>1, <1>2, <1>3, <1>4, MovesWith DEF CloseRecord

LEMMA ClosePlayStep == ASSUME IInv, NEW t \in Task, ClosePlay(t) PROVE IInv'
  <1>1. Goes(t, "closesRecord", "closesPlay") /\ Closes(Play(t))
    BY DEF ClosePlay
  <1>2. OneStep(Play(t)) /\ at'[Play(t)] = "closing"
    BY <1>1, ClosesOK, Streams, Has DEF DeviceInv
  <1>3. TaskOK(t)'
    <2>1. at'[Rec(t)] = at[Rec(t)] /\ at[Rec(t)] = "none"
      BY <1>2, Streams, Has, DeviceSteps DEF ClosePlay
    <2> QED BY <1>1, <1>2, <2>1, Arrives DEF TaskOK, Rec, Play
  <1>4. "closesPlay" \in TaskStatus /\ "closesPlay" \in Owner
    BY DEF TaskStatus, Owner
  <1> QED BY <1>1, <1>2, <1>3, <1>4, MovesWith DEF ClosePlay

LEMMA LoopStep ==
  ASSUME IInv, NEW t \in Task, EnterLoop(t) \/ LoopTests(t)
  PROVE  IInv'
  <1>1. PICK from \in {"flagged", "loop"}, to \in {"loop", "in", "closing"} :
          Goes(t, from, to)
    BY DEF EnterLoop, LoopTests
  <1>2. UNCHANGED <<at, done, held, token, crashed, isRecordAndPlay, commands>>
    BY DEF EnterLoop, LoopTests, deviceVars
  <1>3. recording_playing' \in {0, 1}
    BY DEF EnterLoop, LoopTests, IInv, TypeOK
  <1>4. crashed' \in BOOLEAN
    BY <1>2 DEF IInv, TypeOK, DeviceTypeOK
  <1>5. commands' \in 0 .. MaxCommands
    BY <1>2 DEF IInv, TypeOK
  <1>6. TaskOK(t)'
    <2>1. BothOpen(t)
      BY <1>1, Arrives, Has DEF TaskOK
    <2> QED BY <1>1, <1>2, <2>1, Arrives DEF TaskOK, BothOpen
  <1>7. to \in TaskStatus /\ to \in Owner
    BY DEF TaskStatus, Owner
  <1> QED BY <1>1, <1>2, <1>3, <1>4, <1>5, <1>6, <1>7, MovesOnly

\* The flag is set with both streams open, or reset.
LEMMA StartsStep == ASSUME IInv, NEW t \in Task, Starts(t) PROVE IInv'
  <1>1. PICK to \in {"flagged", "free", "left"} : Goes(t, "opensPlay", to)
    BY DEF Starts
  <1>2. UNCHANGED <<at, done, held, token, crashed, recording_playing, commands>>
    BY DEF Starts, deviceVars
  <1>3. task'[t] = to /\ task[t] = "opensPlay"
    BY <1>1, Arrives
  <1>4. TaskOK(t)'
    <2>1. /\ to = "flagged" => BothOpen(t)
          /\ to = "free" => NoneOpen(t)
      <3>1. task'[t] \in {"flagged", "free", "left"}
        BY <1>3
      <3>2. /\ Goes(t, "opensPlay", "flagged") => task'[t] = "flagged"
            /\ Goes(t, "opensPlay", "free") => task'[t] = "free"
            /\ Goes(t, "opensPlay", "left") => task'[t] = "left"
        BY Arrives
      <3> QED BY <1>3, <3>1, <3>2 DEF Starts
    <2>2. at[Rec(t)] \in {"open", "none"} /\ at[Play(t)] \in {"open", "none"}
      BY <1>3, Has DEF Starts, TaskOK
    <2> QED BY <1>2, <1>3, <2>1, <2>2 DEF TaskOK, BothOpen, NoneOpen, Rec, Play
  <1>5. DeviceInv'
    <2>1. crashed' \in BOOLEAN
      BY <1>2 DEF IInv, TypeOK, DeviceTypeOK
    <2> QED BY <1>2, <2>1, Has, DeviceStays
  <1>6. /\ \A s \in Task : TaskOK(s)'
        /\ task' \in [Task -> TaskStatus]
    <2>1. to \in TaskStatus
      BY DEF TaskStatus
    <2> QED BY <1>1, <1>2, <1>4, <2>1, TaskStep
  <1>7. FlagHasOwner'
    <2>1. isRecordAndPlay' => BothOpen(t)
      BY DEF Starts
    <2>2. BothOpen(t) => Goes(t, "opensPlay", "flagged")
      BY DEF Starts, BothOpen, NoneOpen
    <2>3. isRecordAndPlay' => task'[t] = "flagged"
      BY <2>1, <2>2, Arrives
    <2> QED BY <2>3 DEF FlagHasOwner
  <1>8. TestTypeOK'
    <2>1. isRecordAndPlay' \in BOOLEAN
      BY DEF Starts, BothOpen
    <2> QED BY <1>2, <1>6, <2>1, Has DEF TestTypeOK
  <1> QED BY <1>5, <1>6, <1>7, <1>8, Conclude

LEMMA EndsStep == ASSUME IInv, NEW t \in Task, Ends(t) PROVE IInv'
  <1>1. /\ Goes(t, "closesPlay", "free")
        /\ UNCHANGED <<at, done, held, token, crashed, recording_playing, commands>>
    BY DEF Ends, deviceVars
  <1>2. task'[t] = "free" /\ task[t] = "closesPlay"
    BY <1>1, Arrives
  <1>3. TaskOK(t)'
    <2>1. NoneOpen(t)
      BY <1>2, Has DEF Ends, TaskOK, NoneOpen
    <2> QED BY <1>1, <1>2, <2>1 DEF TaskOK, NoneOpen, Rec, Play
  <1>4. DeviceInv'
    <2>1. crashed' \in BOOLEAN
      BY <1>1 DEF IInv, TypeOK, DeviceTypeOK
    <2> QED BY <1>1, <2>1, Has, DeviceStays
  <1>5. /\ \A s \in Task : TaskOK(s)'
        /\ task' \in [Task -> TaskStatus]
    <2>1. "free" \in TaskStatus
      BY DEF TaskStatus
    <2> QED BY <1>1, <1>3, <2>1, TaskStep
  <1>6. isRecordAndPlay' = FALSE
    BY DEF Ends
  <1>7. FlagHasOwner'
    BY <1>6 DEF FlagHasOwner
  <1>8. TestTypeOK'
    <2>1. isRecordAndPlay' \in BOOLEAN
      BY <1>6
    <2> QED BY <1>1, <1>5, <2>1, Has DEF TestTypeOK
  <1> QED BY <1>4, <1>5, <1>7, <1>8, Conclude

-----------------------------------------------------------------------------
(* The steps inside a call, and those of the driver. *)

LEMMA TasksStand ==
  ASSUME IInv, DeviceInv', UNCHANGED testVars, \A t \in Task : TaskOK(t)'
  PROVE  IInv'
  <1>1. TestTypeOK'
    BY Has DEF TestTypeOK, testVars
  <1>2. FlagHasOwner'
    BY DEF IInv, FlagHasOwner, testVars
  <1> QED BY <1>1, <1>2, Conclude

LEMMA DeviceCallStep ==
  ASSUME IInv, NEW t \in Task, NEW x \in {Rec(t), Play(t)}, DeviceCall(x)
  PROVE  IInv'
  <1>1. x \in Stream
    BY Streams
  <1>2. /\ OneStep(x)
        /\ \/ at[x] = "opening" /\ at'[x] \in {"opening", "closing", "open"}
           \/ at[x] = "closing" /\ at'[x] \in {"closing", "none"}
    BY <1>1, InCallOK, Has DEF DeviceCall, DeviceInv
  <1>3. DeviceInv' /\ \A y \in Stream : y # x => at'[y] = at[y]
    BY <1>1, <1>2, Has, DeviceSteps
  <1>4. task' = task
    BY DEF DeviceCall, testVars
  <1>5. ASSUME NEW s \in Task, s # t PROVE TaskOK(s)'
    <2>1. at'[Rec(s)] = at[Rec(s)] /\ at'[Play(s)] = at[Play(s)]
      BY <1>3, <1>5, Streams
    <2> QED BY <1>4, <2>1, OtherTask, Has
  <1>6. TaskOK(t)'
    <2>1. CASE x = Rec(t)
      <3>1. at'[Play(t)] = at[Play(t)]
        BY <1>3, <2>1, Streams
      <3>2. task[t] \in {"opensRecord", "closesRecord"}
        BY <1>2, <2>1, Has DEF TaskOK, NoneOpen, BothOpen, IInv, TypeOK, TaskStatus
      <3> QED BY <1>2, <1>4, <2>1, <3>1, <3>2, Has DEF TaskOK, Rec, Play
    <2>2. CASE x = Play(t)
      <3>1. at'[Rec(t)] = at[Rec(t)]
        BY <1>3, <2>2, Streams
      <3>2. task[t] \in {"opensPlay", "closesPlay"}
        BY <1>2, <2>2, Has DEF TaskOK, NoneOpen, BothOpen, IInv, TypeOK, TaskStatus
      <3> QED BY <1>2, <1>4, <2>2, <3>1, <3>2, Has DEF TaskOK, Rec, Play
    <2> QED BY <2>1, <2>2
  <1>7. \A s \in Task : TaskOK(s)'
    BY <1>5, <1>6
  <1> QED BY <1>3, <1>7, TasksStand DEF DeviceCall

LEMMA DriverStep ==
  ASSUME IInv, NEW x \in Stream, DriverRuns(x)
  PROVE  IInv'
  <1>1. OneStep(x) /\ at' = at
    BY TokenPasses, Has DEF DriverRuns, Driver, DeviceInv
  <1>2. DeviceInv'
    BY <1>1, Has, DeviceSteps
  <1>3. ASSUME NEW s \in Task PROVE TaskOK(s)'
    <2>1. task' = task
      BY DEF DriverRuns, testVars
    <2> QED BY <1>1, <2>1, OtherTask, Has
  <1> QED BY <1>2, <1>3, TasksStand DEF DriverRuns

LEMMA NextInv == IInv /\ [Next]_vars => IInv'
  <1> SUFFICES ASSUME IInv, [Next]_vars PROVE IInv'
    OBVIOUS
  <1>1. CASE Main
    BY <1>1, StopStep, RecordAndPlayStep DEF Main
  <1>2. ASSUME NEW t \in Task, Testing(t) PROVE IInv'
    BY <1>2, SetUpStep, OpenRecordStep, OpenPlayStep, StartsStep, LoopStep,
       AudioStep, CloseRecordStep, ClosePlayStep, EndsStep, DeviceCallStep
    DEF Testing
  <1>3. ASSUME NEW x \in Stream, DriverRuns(x) PROVE IInv'
    BY <1>3, DriverStep
  <1>4. CASE UNCHANGED vars
    <2>1. UNCHANGED <<at, done, held, token, crashed>> /\ UNCHANGED testVars
      BY <1>4 DEF vars, deviceVars
    <2>2. DeviceInv'
      <3>1. crashed' \in BOOLEAN
        BY <2>1 DEF IInv, TypeOK, DeviceTypeOK
      <3> QED BY <2>1, <3>1, Has, DeviceStays
    <2>3. ASSUME NEW s \in Task PROVE TaskOK(s)'
      BY <2>1, OtherTask, Has DEF testVars
    <2> QED BY <2>1, <2>2, <2>3, TasksStand
  <1> QED BY <1>1, <1>2, <1>3, <1>4 DEF Next

LEMMA Inductive == Spec => []IInv
  BY InitInv, NextInv, PTL DEF Spec

-----------------------------------------------------------------------------
\* Every reachable state has the types of TypeOK.
THEOREM TypeCorrect == Spec => []TypeOK
  <1>1. IInv => TypeOK
    BY DEF IInv
  <1> QED BY <1>1, Inductive, PTL

\* Whatever call fails, however the tasks overlap, and whenever the driver runs:
\* android_CloseAudioDevice destroys nothing that is still in use.
THEOREM CloseIsSafe == Spec => []NothingDestroyedInUse
  <1>1. IInv => NothingDestroyedInUse
    <2> SUFFICES ASSUME IInv, NEW x \in Stream
                 PROVE  /\ token[x] \in {"driver", "callback"} =>
                             {"stream", "lock", "buffer0", "buffer1"} \subseteq held[x]
                        /\ PartsOK(x)
      BY DEF NothingDestroyedInUse, PartsOK
    <2> QED BY DEF IInv, StreamOK, TokenOK, Buffers
  <1> QED BY <1>1, Inductive, PTL

\* A stream that was closed, or failed to open, has given everything back.
THEOREM CloseIsComplete == Spec => []NothingLeft
  <1>1. IInv => NothingLeft
    BY DEF IInv, NothingLeft, StreamOK, PartsOK
  <1> QED BY <1>1, Inductive, PTL

\* The loop of the echo test is only ever run with both streams open.
THEOREM LoopHasItsStreams == Spec => []StreamsBelongToTasks
  <1>1. IInv => StreamsBelongToTasks
    BY DEF IInv, StreamsBelongToTasks, TaskOK
  <1> QED BY <1>1, Inductive, PTL

\* isRecordAndPlay is set only for a task that will reset it.
THEOREM FlagIsNeverLeftBehind == Spec => []FlagHasOwner
  <1>1. IInv => FlagHasOwner
    BY DEF IInv
  <1> QED BY <1>1, Inductive, PTL
-----------------------------------------------------------------------------
(* A test that was stopped ends, as far as it is a matter of safety. *)

Ending == {"loop", "in", "out", "closing", "closesRecord", "closesPlay"}

\* What is left to do for a stream: the driver's two steps with a buffer, and
\* the steps of android_CloseAudioDevice.
TokenWork(x) ==
    IF token[x] = "driver" THEN 2 ELSE IF token[x] = "callback" THEN 1 ELSE 0

CloseWork(x) == IF at[x] = "closing" THEN Len(CloseSteps) - done[x] ELSE 0

\* What is left to do for a task, once recording_playing is 1, beside that: a
\* turn of the loop gives the driver two buffers, and then both streams are
\* closed.
TaskWork(status) ==
    CASE status = "in" -> 27
      [] status = "out" -> 24
      [] status = "loop" -> 21
      [] status = "closing" -> 20
      [] status = "closesRecord" -> 10
      [] status = "closesPlay" -> 1
      [] OTHER -> 0

StreamWork(x) == TokenWork(x) + CloseWork(x)
Work(t) == TaskWork(task[t]) + StreamWork(Rec(t)) + StreamWork(Play(t))

\* A step for the test of t, by the task or by the driver.
StepOf(t) == Testing(t) \/ DriverRuns(Rec(t)) \/ DriverRuns(Play(t))

\* While recording_playing is 1 only a task that enters its loop resets it, and
\* every step for a test in its loop or on its way out brings it nearer to its
\* end; the steps of main and for other tests take nothing back.
TestsRunOut ==
    [][recording_playing = 1 =>
         \/ \E t \in Task : EnterLoop(t)
         \/ /\ recording_playing' = 1
            /\ \A t \in Task : task[t] \in Ending =>
                 IF StepOf(t) THEN Work(t)' < Work(t) ELSE Work(t)' = Work(t)]_vars

\* A closing test waits for nothing but the driver, which then can go on: the
\* stream it wants to use has a token, the one it closes has a next step.
CanGoOn(t) ==
    /\ task[t] = "in" => token[Rec(t)] \in {"lock", "driver", "callback"}
    /\ task[t] = "out" => token[Play(t)] \in {"lock", "driver", "callback"}
    /\ task[t] = "closing" => at[Rec(t)] = "open"
    /\ task[t] = "closesRecord" =>
         \/ at[Rec(t)] = "none" /\ at[Play(t)] = "open"
         \/ at[Rec(t)] = "closing" /\ done[Rec(t)] < Len(CloseSteps)
    /\ task[t] = "closesPlay" =>
         \/ at[Play(t)] = "none"
         \/ at[Play(t)] = "closing" /\ done[Play(t)] < Len(CloseSteps)

\* The work is a number, and that for a stream nobody touches stays.
LEMMA StreamWorkType ==
  ASSUME IInv, NEW x \in Stream
  PROVE  TokenWork(x) \in 0 .. 2 /\ CloseWork(x) \in Nat /\ StreamWork(x) \in Nat
  <1>1. TokenWork(x) \in 0 .. 2
    BY DEF TokenWork
  <1>2. CloseWork(x) \in Nat
    <2>1. done[x] \in Nat /\ (at[x] = "closing" => done[x] < 8)
      BY CloseFacts DEF IInv, TypeOK, DeviceTypeOK, StreamOK, ClosingOK
    <2> QED BY <2>1, CloseFacts DEF CloseWork
  <1> QED BY <1>1, <1>2 DEF StreamWork

LEMMA StreamWorkNext ==
  ASSUME IInv', NEW x \in Stream
  PROVE  StreamWork(x)' \in Nat
  <1>1. TokenWork(x)' \in Nat
    BY DEF TokenWork
  <1>2. CloseWork(x)' \in Nat
    <2>1. done'[x] \in Nat /\ (at'[x] = "closing" => done'[x] < 8)
      BY CloseFacts DEF IInv, TypeOK, DeviceTypeOK, StreamOK, ClosingOK
    <2> QED BY <2>1, CloseFacts DEF CloseWork
  <1> QED BY <1>1, <1>2 DEF StreamWork

LEMMA SameWork ==
  ASSUME NEW x, Same(x)
  PROVE  StreamWork(x)' = StreamWork(x)
  BY DEF Same, StreamWork, TokenWork, CloseWork

\* A step of android_CloseAudioDevice.
LEMMA CloseStepWork ==
  ASSUME IInv, IInv', NEW x \in Stream, CloseStep(x)
  PROVE  StreamWork(x)' < StreamWork(x)
  <1>1. at[x] = "closing" /\ done'[x] = done[x] + 1 /\ done[x] \in Nat /\ done[x] < 8
    BY CloseFacts
       DEF CloseStep, IInv, TypeOK, DeviceTypeOK, StreamOK, ClosingOK
  <1>2. TokenWork(x)' <= TokenWork(x)
    <2>1. token'[x] = "none" \/ token'[x] = token[x]
      BY DEF CloseStep, IInv, TypeOK, DeviceTypeOK
    <2> QED BY <2>1 DEF TokenWork
  <1>3. CloseWork(x)' < CloseWork(x)
    <2>1. CloseWork(x) = 8 - done[x]
      BY <1>1, CloseFacts DEF CloseWork
    <2>2. CloseWork(x)' = 8 - (done[x] + 1) \/ CloseWork(x)' = 0
      BY <1>1, CloseFacts DEF CloseWork
    <2> QED BY <1>1, <2>1, <2>2
  <1>4. /\ TokenWork(x) \in Nat /\ CloseWork(x) \in Nat
        /\ TokenWork(x)' \in Nat /\ CloseWork(x)' \in Nat
    <2>1. TokenWork(x) \in 0 .. 2 /\ TokenWork(x)' \in 0 .. 2
      BY StreamWorkType DEF TokenWork
    <2>2. CloseWork(x) \in Nat /\ CloseWork(x)' \in Nat
      <3>1. CloseWork(x) = 8 - done[x]
        BY <1>1, CloseFacts DEF CloseWork
      <3>2. CloseWork(x)' = 8 - (done[x] + 1) \/ CloseWork(x)' = 0
        BY <1>1, CloseFacts DEF CloseWork
      <3> QED BY <1>1, <3>1, <3>2
    <2> QED BY <2>1, <2>2
  <1> QED BY <1>2, <1>3, <1>4 DEF StreamWork

\* Sums of which one part changes.
LEMMA Sums ==
  ASSUME NEW a \in Nat, NEW a1 \in Nat, NEW b \in Nat
  PROVE  /\ a = 0 /\ a1 = 2 => a1 + b = (a + b) + 2
         /\ a1 + 1 = a => a1 + b < a + b
         /\ b = 0 => a + 8 = (a + b) + 8
  OBVIOUS

\* A stream that is used, that the driver serves, or that is to be closed.
LEMMA UseWork ==
  ASSUME IInv, NEW x \in Stream
  PROVE  /\ Exchange(x) => StreamWork(x)' = StreamWork(x) + 2
         /\ Driver(x) => StreamWork(x)' < StreamWork(x)
         /\ Closes(x) => StreamWork(x)' = StreamWork(x) + 8
  <1>a. StreamWork(x) \in Nat /\ TokenWork(x) \in 0 .. 2 /\ CloseWork(x) \in Nat
    BY StreamWorkType
  <1>1. ASSUME Exchange(x) \/ Driver(x)
        PROVE  /\ CloseWork(x)' = CloseWork(x)
               /\ Exchange(x) => TokenWork(x) = 0 /\ TokenWork(x)' = 2
               /\ Driver(x) => TokenWork(x)' + 1 = TokenWork(x)
    BY <1>1 DEF Exchange, Driver, DriverDone, Callback, TokenWork, CloseWork,
                IInv, TypeOK, DeviceTypeOK
  <1>2. ASSUME Closes(x)
        PROVE  /\ CloseWork(x)' = 8 /\ CloseWork(x) = 0
               /\ TokenWork(x)' = TokenWork(x)
    BY <1>2, CloseFacts DEF Closes, TokenWork, CloseWork, IInv, TypeOK, DeviceTypeOK
  <1>3. /\ StreamWork(x) = TokenWork(x) + CloseWork(x)
        /\ StreamWork(x)' = TokenWork(x)' + CloseWork(x)'
    BY DEF StreamWork
  <1>4. ASSUME Exchange(x) PROVE StreamWork(x)' = StreamWork(x) + 2
    BY <1>a, <1>1, <1>3, <1>4, Sums
  <1>5. ASSUME Driver(x) PROVE StreamWork(x)' < StreamWork(x)
    <2>1. TokenWork(x)' \in Nat
      BY DEF TokenWork
    <2> QED BY <1>a, <1>1, <1>3, <1>5, <2>1, Sums
  <1>6. ASSUME Closes(x) PROVE StreamWork(x)' = StreamWork(x) + 8
    BY <1>a, <1>2, <1>3, <1>6, Sums
  <1> QED BY <1>4, <1>5, <1>6
\* What a test weighs together with its streams.
LEMMA WorkSum ==
  ASSUME NEW k \in Nat, NEW k1 \in Nat, NEW r \in Nat, NEW r1 \in Nat,
         NEW p \in Nat, NEW p1 \in Nat
  PROVE  /\ k1 + (r1 - r) + (p1 - p) < k => k1 + r1 + p1 < k + r + p
         /\ k1 + r1 + p1 \in Nat
  OBVIOUS

\* Where the streams are of a test in its loop or on its way out.
LEMMA EndingStreams ==
  ASSUME IInv, NEW t \in Task, task[t] \in Ending
  PROVE  at[Rec(t)] # "opening" /\ at[Play(t)] # "opening"
  BY Has DEF TaskOK, BothOpen, Ending

\* The steps of such a test by itself, and what they do to its two streams.
LEMMA TaskStepWork ==
  ASSUME IInv, IInv', recording_playing = 1, NEW t \in Task, task[t] \in Ending,
         Testing(t), ~EnterLoop(t)
  PROVE  Work(t)' < Work(t) /\ recording_playing' = 1
  <1> DEFINE r == StreamWork(Rec(t))
             p == StreamWork(Play(t))
  <1>a. r \in Nat /\ p \in Nat
    BY StreamWorkType, Streams
  <1>b. r' \in Nat /\ p' \in Nat
    BY StreamWorkNext, Streams DEF Rec, Play
  <1>c. /\ Work(t) = TaskWork(task[t]) + r + p
        /\ Work(t)' = TaskWork(task'[t]) + r' + p'
    BY DEF Work, Rec, Play
  <1>d. DeviceTypeOK /\ StreamOK(Rec(t)) /\ StreamOK(Play(t))
    BY Has, Streams DEF DeviceInv
  <1>1. ASSUME LoopTests(t) PROVE Work(t)' < Work(t) /\ recording_playing' = 1
    <2>1. task[t] = "loop" /\ task'[t] = "closing"
      BY <1>1, Arrives DEF LoopTests
    <2>2. r' = r /\ p' = p /\ recording_playing' = 1
      BY <1>1 DEF LoopTests, deviceVars, StreamWork, TokenWork, CloseWork, Rec, Play
    <2> HIDE DEF r, p
    <2>3. TaskWork("loop") = 21 /\ TaskWork("closing") = 20
      BY DEF TaskWork
    <2> QED BY <1>a, <1>c, <2>1, <2>2, <2>3, WorkSum
  <1>2. ASSUME AudioIn(t) PROVE Work(t)' < Work(t) /\ recording_playing' = 1
    <2>1. task[t] = "in" /\ task'[t] = "out" /\ recording_playing' = 1
      BY <1>2, Arrives DEF AudioIn
    <2>2. r' = r + 2
      BY <1>2, UseWork, Streams DEF AudioIn, Rec
    <2>3. p' = p
      BY <1>2, <1>d, TokenPasses, Streams, SameWork DEF AudioIn, OneStep, Play
    <2> HIDE DEF r, p
    <2>4. TaskWork("in") = 27 /\ TaskWork("out") = 24
      BY DEF TaskWork
    <2> QED BY <1>a, <1>b, <1>c, <2>1, <2>2, <2>3, <2>4, WorkSum
  <1>3. ASSUME AudioOut(t) PROVE Work(t)' < Work(t) /\ recording_playing' = 1
    <2>1. task[t] = "out" /\ task'[t] = "loop" /\ recording_playing' = 1
      BY <1>3, Arrives DEF AudioOut
    <2>2. p' = p + 2
      BY <1>3, UseWork, Streams DEF AudioOut, Play
    <2>3. r' = r
      BY <1>3, <1>d, TokenPasses, Streams, SameWork DEF AudioOut, OneStep, Rec
    <2> HIDE DEF r, p
    <2>4. TaskWork("out") = 24 /\ TaskWork("loop") = 21
      BY DEF TaskWork
    <2> QED BY <1>a, <1>b, <1>c, <2>1, <2>2, <2>3, <2>4, WorkSum
  <1>4. ASSUME CloseRecord(t) PROVE Work(t)' < Work(t) /\ recording_playing' = 1
    <2>1. task[t] = "closing" /\ task'[t] = "closesRecord" /\ recording_playing' = 1
      BY <1>4, Arrives DEF CloseRecord
    <2>2. r' = r + 8
      BY <1>4, UseWork, Streams DEF CloseRecord, Rec
    <2>3. p' = p
      BY <1>4, <1>d, ClosesOK, Streams, SameWork DEF CloseRecord, OneStep, Play
    <2> HIDE DEF r, p
    <2>4. TaskWork("closing") = 20 /\ TaskWork("closesRecord") = 10
      BY DEF TaskWork
    <2> QED BY <1>a, <1>b, <1>c, <2>1, <2>2, <2>3, <2>4, WorkSum
  <1>5. ASSUME ClosePlay(t) PROVE Work(t)' < Work(t) /\ recording_playing' = 1
    <2>1. task[t] = "closesRecord" /\ task'[t] = "closesPlay" /\ recording_playing' = 1
      BY <1>5, Arrives DEF ClosePlay
    <2>2. p' = p + 8
      BY <1>5, UseWork, Streams DEF ClosePlay, Play
    <2>3. r' = r
      BY <1>5, <1>d, ClosesOK, Streams, SameWork DEF ClosePlay, OneStep, Rec
    <2> HIDE DEF r, p
    <2>4. TaskWork("closesRecord") = 10 /\ TaskWork("closesPlay") = 1
      BY DEF TaskWork
    <2> QED BY <1>a, <1>b, <1>c, <2>1, <2>2, <2>3, <2>4, WorkSum
  <1>6. ASSUME Ends(t) PROVE Work(t)' < Work(t) /\ recording_playing' = 1
    <2>1. task[t] = "closesPlay" /\ task'[t] = "free" /\ recording_playing' = 1
      BY <1>6, Arrives DEF Ends
    <2>2. r' = r /\ p' = p
      BY <1>6 DEF Ends, deviceVars, StreamWork, TokenWork, CloseWork, Rec, Play
    <2> HIDE DEF r, p
    <2>3. TaskWork("closesPlay") = 1 /\ TaskWork("free") = 0
      BY DEF TaskWork
    <2> QED BY <1>a, <1>c, <2>1, <2>2, <2>3, WorkSum
  <1>7. ASSUME NEW x \in {Rec(t), Play(t)}, DeviceCall(x)
        PROVE  Work(t)' < Work(t) /\ recording_playing' = 1
    <2>1. task'[t] = task[t] /\ recording_playing' = 1 /\ InCall(x)
      BY <1>7 DEF DeviceCall, testVars
    <2>2. x \in Stream /\ at[x] # "opening"
      BY EndingStreams, Streams
    <2>3. CloseStep(x)
      BY <2>1, <2>2 DEF InCall, CreateEngine, CreateLock, AllocBuffers, RecOpen,
                        PlayOpen, Opened, About
    <2>4. StreamWork(x)' < StreamWork(x)
      BY <2>2, <2>3, CloseStepWork
    <2>5. \A y \in Stream : y # x => StreamWork(y)' = StreamWork(y)
      <3>1. OneStep(x)
        BY <2>1, <2>2, InCallOK, Has DEF DeviceInv
      <3> QED BY <3>1, SameWork DEF OneStep
    <2>6. TaskWork(task[t]) \in Nat
      BY DEF TaskWork, Ending
    <2>7. \/ r' < r /\ p' = p
          \/ r' = r /\ p' < p
      BY <2>4, <2>5, Streams DEF Rec, Play
    <2> HIDE DEF r, p
    <2> QED BY <1>a, <1>b, <1>c, <2>1, <2>6, <2>7, WorkSum
  <1>8. ~(SetUp(t) \/ OpenRecord(t) \/ OpenPlay(t) \/ Starts(t))
    BY DEF SetUp, OpenRecord, OpenPlay, Starts, Goes, Ending
  <1> QED BY <1>1, <1>2, <1>3, <1>4, <1>5, <1>6, <1>7, <1>8 DEF Testing
\* The driver's steps for such a test.
LEMMA DriverStepWork ==
  ASSUME IInv, IInv', NEW t \in Task, task[t] \in Ending,
         NEW x \in {Rec(t), Play(t)}, DriverRuns(x)
  PROVE  Work(t)' < Work(t)
  <1> DEFINE r == StreamWork(Rec(t))
             p == StreamWork(Play(t))
  <1>1. x \in Stream /\ Driver(x) /\ task'[t] = task[t]
    BY Streams DEF DriverRuns, testVars
  <1>2. StreamWork(x)' < StreamWork(x)
    BY <1>1, UseWork
  <1>3. \A y \in Stream : y # x => StreamWork(y)' = StreamWork(y)
    <2>1. OneStep(x)
      BY <1>1, TokenPasses, Has DEF Driver, DeviceInv
    <2> QED BY <2>1, SameWork DEF OneStep
  <1>4. TaskWork(task[t]) \in Nat
    BY DEF TaskWork, Ending
  <1>5. \/ r' < r /\ p' = p
        \/ r' = r /\ p' < p
    BY <1>2, <1>3, Streams DEF Rec, Play
  <1>6. r \in Nat /\ p \in Nat
    BY StreamWorkType, Streams
  <1>7. r' \in Nat /\ p' \in Nat
    BY StreamWorkNext, Streams DEF Rec, Play
  <1>8. /\ Work(t) = TaskWork(task[t]) + r + p
        /\ Work(t)' = TaskWork(task[t]) + r' + p'
    BY <1>1 DEF Work, Rec, Play
  <1> HIDE DEF r, p
  <1> QED BY <1>4, <1>5, <1>6, <1>7, <1>8, WorkSum

\* The steps of one task leave the streams of the others alone.
LEMMA OthersStreams ==
  ASSUME IInv, NEW s \in Task, Testing(s), NEW y \in Stream,
         y \notin {Rec(s), Play(s)}
  PROVE  Same(y)
  <1>a. DeviceTypeOK /\ StreamOK(Rec(s)) /\ StreamOK(Play(s))
        /\ Rec(s) \in Stream /\ Play(s) \in Stream
    BY Has, Streams DEF DeviceInv
  <1>1. CASE OneStep(Rec(s)) \/ OneStep(Play(s))
    BY <1>1 DEF OneStep
  <1>2. CASE UNCHANGED <<at, done, held, token>>
    BY <1>2 DEF Same
  <1>3. CASE SetUp(s) \/ Starts(s) \/ EnterLoop(s) \/ LoopTests(s) \/ Ends(s)
    BY <1>2, <1>3 DEF SetUp, Starts, EnterLoop, LoopTests, Ends, deviceVars
  <1>4. CASE OpenRecord(s) \/ OpenPlay(s)
    BY <1>a, <1>1, <1>4, OpensOK DEF OpenRecord, OpenPlay
  <1>5. CASE AudioIn(s) \/ AudioOut(s)
    BY <1>a, <1>1, <1>5, TokenPasses DEF AudioIn, AudioOut
  <1>6. CASE CloseRecord(s) \/ ClosePlay(s)
    BY <1>a, <1>1, <1>6, ClosesOK DEF CloseRecord, ClosePlay
  <1>7. ASSUME NEW x \in {Rec(s), Play(s)}, DeviceCall(x) PROVE Same(y)
    BY <1>a, <1>1, <1>7, InCallOK DEF DeviceCall
  <1> QED BY <1>3, <1>4, <1>5, <1>6, <1>7 DEF Testing

\* A step for no one or for another test.
LEMMA OthersWork ==
  ASSUME IInv, [Next]_vars, NEW t \in Task, task[t] \in Ending, ~StepOf(t)
  PROVE  Work(t)' = Work(t)
  <1> SUFFICES Same(Rec(t)) /\ Same(Play(t)) /\ task'[t] = task[t]
    <2> SUFFICES ASSUME Same(Rec(t)), Same(Play(t)), task'[t] = task[t]
                 PROVE  Work(t)' = Work(t)
      OBVIOUS
    <2>1. /\ StreamWork(Rec(t))' = StreamWork(Rec(t))
          /\ StreamWork(Play(t))' = StreamWork(Play(t))
      BY SameWork DEF Rec, Play
    <2> QED BY <2>1 DEF Work
  <1>1. CASE UNCHANGED <<at, done, held, token, task>>
    BY <1>1 DEF Same
  <1>2. CASE UNCHANGED vars \/ StopRecordAndPlay
    BY <1>1, <1>2 DEF vars, deviceVars, testVars, StopRecordAndPlay
  <1>3. ASSUME NEW s \in Task, RecordAndPlay(s)
        PROVE  Same(Rec(t)) /\ Same(Play(t)) /\ task'[t] = task[t]
    <2>1. task[s] = "free" /\ task' = [task EXCEPT ![s] = "queued"]
      BY <1>3 DEF RecordAndPlay
    <2>2. task[t] # "free"
      BY DEF Ending
    <2>3. task'[t] = task[t]
      BY <2>1, <2>2 DEF IInv, TypeOK
    <2> QED BY <1>3, <2>3 DEF RecordAndPlay, deviceVars, Same
  <1>4. ASSUME NEW s \in Task, Testing(s)
        PROVE  Same(Rec(t)) /\ Same(Play(t)) /\ task'[t] = task[t]
    <2>1. s # t
      BY <1>4 DEF StepOf
    <2>2. task' = task \/ \E from, to : Goes(s, from, to)
      BY <1>4 DEF Testing, SetUp, OpenRecord, OpenPlay, Starts, EnterLoop, LoopTests,
                  AudioIn, AudioOut, CloseRecord, ClosePlay, Ends, DeviceCall,
                  testVars
    <2>3. task'[t] = task[t]
      BY <2>1, <2>2 DEF Goes, IInv, TypeOK
    <2>4. Same(Rec(t)) /\ Same(Play(t))
      BY <1>4, <2>1, OthersStreams, Streams
    <2> QED BY <2>3, <2>4
  <1>5. ASSUME NEW x \in Stream, DriverRuns(x)
        PROVE  Same(Rec(t)) /\ Same(Play(t)) /\ task'[t] = task[t]
    <2>1. x # Rec(t) /\ x # Play(t)
      BY <1>5 DEF StepOf
    <2>2. OneStep(x)
      BY <1>5, TokenPasses, Has DEF DriverRuns, Driver, DeviceInv
    <2> QED BY <1>5, <2>1, <2>2, Streams DEF OneStep, DriverRuns, testVars
  <1> QED BY <1>2, <1>3, <1>4, <1>5 DEF Next, Main

\* No test has more to do than a turn of its loop and the closing of one stream
\* after the other.
LEMMA WorkIsBounded ==
  ASSUME IInv, NEW t \in Task, task[t] \in Ending
  PROVE  Work(t) \in 0 .. 31
  <1> DEFINE r == Rec(t)
             p == Play(t)
  <1>1. /\ r \in Stream /\ p \in Stream /\ TaskOK(t)
        /\ TokenWork(r) \in 0 .. 2 /\ TokenWork(p) \in 0 .. 2
    BY Has, Streams, StreamWorkType
  <1>2. CloseWork(r) \in 0 .. 8 /\ CloseWork(p) \in 0 .. 8
    <2>1. ASSUME NEW x \in Stream PROVE CloseWork(x) \in 0 .. 8
      <3>1. done[x] \in Nat /\ (at[x] = "closing" => done[x] < 8)
        BY CloseFacts DEF IInv, TypeOK, DeviceTypeOK, StreamOK, ClosingOK
      <3> QED BY <3>1, CloseFacts DEF CloseWork
    <2> QED BY <1>1, <2>1
  <1>3. CASE task[t] \in {"in", "out", "loop", "closing"}
    <2>1. CloseWork(r) = 0 /\ CloseWork(p) = 0
      BY <1>1, <1>3 DEF TaskOK, BothOpen, CloseWork
    <2>2. TaskWork(task[t]) \in 0 .. 27
      BY <1>3 DEF TaskWork
    <2> QED BY <1>1, <2>1, <2>2 DEF Work, StreamWork
  <1>4. CASE task[t] = "closesRecord"
    <2>1. CloseWork(p) = 0 /\ TaskWork(task[t]) = 10
      BY <1>1, <1>4 DEF TaskOK, CloseWork, TaskWork
    <2> QED BY <1>1, <1>2, <2>1 DEF Work, StreamWork
  <1>5. CASE task[t] = "closesPlay"
    <2>1. CloseWork(r) = 0 /\ TaskWork(task[t]) = 1
      BY <1>1, <1>5 DEF TaskOK, CloseWork, TaskWork
    <2> QED BY <1>1, <1>2, <2>1 DEF Work, StreamWork
  <1> QED BY <1>3, <1>4, <1>5 DEF Ending

\* Once stopRecordAndPlay has been called, and until another task enters its
\* loop, a test is over after at most 31 steps of its task and of the driver,
\* however many tests there are.
THEOREM StoppedTestsRunOut ==
  Spec => /\ [](\A t \in Task : task[t] \in Ending => Work(t) \in 0 .. 31)
          /\ TestsRunOut
  <1> DEFINE Kept ==
        recording_playing = 1 =>
          \/ \E t \in Task : EnterLoop(t)
          \/ /\ recording_playing' = 1
             /\ \A t \in Task : task[t] \in Ending =>
                  IF StepOf(t) THEN Work(t)' < Work(t) ELSE Work(t)' = Work(t)
  <1>1. IInv => \A t \in Task : task[t] \in Ending => Work(t) \in 0 .. 31
    BY WorkIsBounded
  <1>2. IInv /\ IInv' /\ [Next]_vars => [Kept]_vars
    <2> SUFFICES ASSUME IInv, IInv', Next, recording_playing = 1,
                        ~\E t \in Task : EnterLoop(t)
                 PROVE  Kept
      OBVIOUS
    <2>1. recording_playing' = 1
      <3>1. ASSUME NEW t \in Task, Testing(t) PROVE recording_playing' = 1
        BY <3>1 DEF Testing, SetUp, OpenRecord, OpenPlay, Starts, LoopTests,
                    AudioIn, AudioOut, CloseRecord, ClosePlay, Ends, DeviceCall,
                    testVars
      <3>2. CASE Main
        BY <3>2 DEF Main, StopRecordAndPlay, RecordAndPlay
      <3>3. ASSUME NEW x \in Stream, DriverRuns(x) PROVE recording_playing' = 1
        BY <3>3 DEF DriverRuns, testVars
      <3> QED BY <3>1, <3>2, <3>3 DEF Next
    <2>2. ASSUME NEW t \in Task, task[t] \in Ending, StepOf(t)
          PROVE  Work(t)' < Work(t)
      <3>1. ~EnterLoop(t)
        OBVIOUS
      <3> QED BY <2>2, <3>1, TaskStepWork, DriverStepWork DEF StepOf
    <2>3. ASSUME NEW t \in Task, task[t] \in Ending, ~StepOf(t)
          PROVE  Work(t)' = Work(t)
      BY <2>3, OthersWork
    <2> QED BY <2>1, <2>2, <2>3
  <1> QED BY <1>1, <1>2, Inductive, PTL DEF Spec, TestsRunOut

\* A test that is in a call or on its way out always finds its streams so that
\* it, or the driver it waits for, has a next step.
THEOREM TestsCanGoOn == Spec => [](\A t \in Task : CanGoOn(t))
  <1>1. IInv => \A t \in Task : CanGoOn(t)
    <2> SUFFICES ASSUME IInv, NEW t \in Task PROVE CanGoOn(t)
      OBVIOUS
    <2>1. TaskOK(t)
      BY Has
    <2>2. ASSUME NEW x \in Stream
          PROVE  /\ at[x] = "closing" => done[x] < Len(CloseSteps)
                 /\ at[x] = "open" => token[x] \in {"lock", "driver", "callback"}
      BY DEF IInv, TypeOK, DeviceTypeOK, StreamOK, ClosingOK, TokenOK
    <2> QED BY <2>1, <2>2, Streams DEF TaskOK, BothOpen, CanGoOn
  <1> QED BY <1>1, Inductive, PTL
=============================================================================
