----------------------------- MODULE OpenSLDevice -----------------------------
(***************************************************************************)
(* The life of the streams of opensl_io.c: what android_OpenAudioDevice    *)
(* obtains, in which order, what it does when one of these calls fails,    *)
(* and in which order android_CloseAudioDevice gives everything back while *)
(* the driver's thread may still play or fill a buffer.  (What is in the   *)
(* buffers is the matter of OpenSLPlay and OpenSLRecord.)                  *)
(*                                                                         *)
(* A stream is named by the thread that opens it and its mode.  The        *)
(* callers pass one or two channels, at least one frame and one of the two *)
(* modes, so the branches for none of them are left out.                   *)
(***************************************************************************)
EXTENDS Naturals, Sequences, FiniteSets

CONSTANTS
    Task,           \* the threads that open streams
    SampleRate      \* the rate they ask for

RECORD_MODE == 0
PLAY_MODE == 1
Stream == Task \X {RECORD_MODE, PLAY_MODE}

VARIABLES
    at,         \* at[x]: whether there is a stream, and how far it is
    done,       \* done[x]: steps of opening or closing that are behind it
    held,       \* held[x]: what it holds of the parts below
    token,      \* token[x]: who has the right to the buffers, see OpenSLPlay
    crashed     \* the process died of a null pointer

deviceVars == <<at, done, held, token, crashed>>

-----------------------------------------------------------------------------
(* The parts, in the order in which they are obtained.  An interface is a  *)
(* part, and so is each state that an object has been brought to.          *)

EngineSteps == <<"engineObject", "engineRealized", "engineEngine">>

BufferSteps == <<"lock", "buffer0", "buffer1">>

RecSteps ==
    <<"recorderObject", "recorderRealized", "recorderRecord",
      "recorderBufferQueue", "recorderCallback", "recording">>

PlaySteps ==
    <<"outputMixObject", "mixRealized", "bqPlayerObject", "playerRealized",
      "bqPlayerPlay", "bqPlayerBufferQueue", "playerCallback", "playing">>

OpenSteps(x) ==
    EngineSteps \o BufferSteps
        \o (IF x[2] = RECORD_MODE THEN RecSteps ELSE PlaySteps)

PartsOf(steps) == {steps[i] : i \in DOMAIN steps}

\* The fields of OPENSL_STREAM, and the memory it lies in.
Part ==
    {"stream"} \cup PartsOf(EngineSteps) \cup PartsOf(BufferSteps)
        \cup PartsOf(RecSteps) \cup PartsOf(PlaySteps)

PlayerParts ==
    {"bqPlayerObject", "playerRealized", "bqPlayerPlay", "bqPlayerBufferQueue",
     "playerCallback", "playing"}
MixParts == {"outputMixObject", "mixRealized"}

CloseStepsLockFirst ==      \* a mutant: the lock goes before the objects
    <<{"lock"}, PlayerParts, PartsOf(RecSteps), MixParts, PartsOf(EngineSteps),
      {"buffer0"}, {"buffer1"}, {"stream"}>>

\* What android_CloseAudioDevice gives back with each of its steps: Destroy
\* invalidates the interfaces of an object together with it.
CloseSteps ==
    <<PlayerParts, PartsOf(RecSteps), MixParts, PartsOf(EngineSteps),
      {"lock"}, {"buffer0"}, {"buffer1"}, {"stream"}>>

KnownRates ==
    {8000, 11025, 16000, 22050, 24000, 32000, 44100, 48000, 64000, 88200, 96000,
     192000}

\* The switch: OpenSL ES counts in mHz.  An unknown rate passes unchanged, since
\* its break leaves the switch before the return -1.
SlSamplingRate(sr) == IF sr \in KnownRates THEN 1000 * sr ELSE sr

DeviceTypeOK ==
    /\ at \in [Stream -> {"none", "opening", "open", "closing"}]
    /\ done \in [Stream -> 0 .. 14]
    /\ held \in [Stream -> SUBSET Part]
    /\ token \in [Stream -> {"none", "lock", "driver", "callback"}]
    /\ crashed \in BOOLEAN

DeviceInit ==
    /\ at = [x \in Stream |-> "none"]
    /\ done = [x \in Stream |-> 0]
    /\ held = [x \in Stream |-> {}]
    /\ token = [x \in Stream |-> "none"]
    /\ crashed = FALSE

-----------------------------------------------------------------------------
(* android_OpenAudioDevice. *)

\* The stream itself.  That calloc has returned NULL is not looked at.
Opens(x) ==
    /\ ~crashed
    /\ at[x] = "none"
    /\ \/ /\ at' = [at EXCEPT ![x] = "opening"]
          /\ done' = [done EXCEPT ![x] = 0]
          /\ held' = [held EXCEPT ![x] = {"stream"}]
          /\ UNCHANGED <<token, crashed>>
       \/ /\ crashed' = TRUE
          /\ UNCHANGED <<at, done, held, token>>

NextPart(x) == OpenSteps(x)[done[x] + 1]

\* The call that comes next belongs to these steps.
About(x, steps) ==
    /\ ~crashed
    /\ at[x] = "opening"
    /\ done[x] < Len(OpenSteps(x))
    /\ NextPart(x) \in PartsOf(steps)

Obtains(x) ==
    /\ done' = [done EXCEPT ![x] = @ + 1]
    /\ held' = [held EXCEPT ![x] = @ \cup {NextPart(x)}]
    /\ UNCHANGED <<at, token, crashed>>

GivesUpAtOnce(x) ==         \* a mutant: NULL is returned, nothing is closed
    /\ at' = [at EXCEPT ![x] = "none"]
    /\ UNCHANGED <<done, held, token, crashed>>

\* The call fails, and android_CloseAudioDevice is called.
GivesUp(x) ==
    /\ at' = [at EXCEPT ![x] = "closing"]
    /\ done' = [done EXCEPT ![x] = 0]
    /\ UNCHANGED <<held, token, crashed>>

\* The call fails, and nobody looks.
GoesOn(x) ==
    /\ done' = [done EXCEPT ![x] = @ + 1]
    /\ UNCHANGED <<at, held, token, crashed>>

CreateEngine(x) == About(x, EngineSteps) /\ (Obtains(x) \/ GivesUp(x))

\* createThreadLock may return NULL, which is not looked at.
CreateLock(x) == About(x, <<"lock">>) /\ (Obtains(x) \/ GoesOn(x))

AllocBuffers(x) ==
    About(x, <<"buffer0", "buffer1">>) /\ (Obtains(x) \/ GivesUp(x))

\* OpenSL ES refuses a rate it does not know, and a player whose output mix is
\* not realized.
Accepted(x) ==
    /\ NextPart(x) \in {"recorderObject", "bqPlayerObject"} =>
         SlSamplingRate(SampleRate) \in {1000 * r : r \in KnownRates}
    /\ NextPart(x) = "bqPlayerObject" => "mixRealized" \in held[x]

RecOpen(x) ==
    /\ About(x, RecSteps)
    /\ \/ Accepted(x) /\ Obtains(x)
       \/ GivesUp(x)

\* The result of realizing the output mix is overwritten by the next one.
PlayOpen(x) ==
    /\ About(x, PlaySteps)
    /\ \/ Accepted(x) /\ Obtains(x)
       \/ NextPart(x) # "mixRealized" /\ GivesUp(x)
       \/ NextPart(x) = "mixRealized" /\ GoesOn(x)

\* notifyThreadLock, which needs the lock; the stream is returned.
Opened(x) ==
    /\ ~crashed
    /\ at[x] = "opening"
    /\ done[x] = Len(OpenSteps(x))
    /\ IF "lock" \in held[x]
       THEN /\ at' = [at EXCEPT ![x] = "open"]
            /\ token' = [token EXCEPT ![x] = "lock"]
            /\ UNCHANGED crashed
       ELSE crashed' = TRUE /\ UNCHANGED <<at, token>>
    /\ UNCHANGED <<done, held>>

-----------------------------------------------------------------------------
(* An open stream, the driver, and android_CloseAudioDevice. *)

\* The caller waits for the lock and enqueues a buffer.
Exchange(x) ==
    /\ ~crashed
    /\ at[x] = "open"
    /\ token[x] = "lock"
    /\ token' = [token EXCEPT ![x] = "driver"]
    /\ UNCHANGED <<at, done, held, crashed>>

\* The driver is through with the buffer and enters the callback ...
DriverDone(x) ==
    /\ ~crashed
    /\ token[x] = "driver"
    /\ token' = [token EXCEPT ![x] = "callback"]
    /\ UNCHANGED <<at, done, held, crashed>>

\* ... which notifies the lock.
Callback(x) ==
    /\ ~crashed
    /\ token[x] = "callback"
    /\ token' = [token EXCEPT ![x] = "lock"]
    /\ UNCHANGED <<at, done, held, crashed>>

Closes(x) ==
    /\ ~crashed
    /\ at[x] = "open"
    /\ at' = [at EXCEPT ![x] = "closing"]
    /\ done' = [done EXCEPT ![x] = 0]
    /\ UNCHANGED <<held, token, crashed>>

\* The player or the recorder, if the step is about one that exists.
Destroyed(x) ==
    CloseSteps[done[x] + 1] \cap held[x] \cap {"bqPlayerObject", "recorderObject"}

\* One step of android_CloseAudioDevice.  Destroy waits for a callback that is
\* running, and the driver has done with the buffers when it returns.
CloseStep(x) ==
    /\ ~crashed
    /\ at[x] = "closing"
    /\ Destroyed(x) # {} => token[x] # "callback"
    /\ held' = [held EXCEPT ![x] = @ \ CloseSteps[done[x] + 1]]
    /\ token' = IF Destroyed(x) # {} THEN [token EXCEPT ![x] = "none"] ELSE token
    /\ done' = [done EXCEPT ![x] = @ + 1]
    /\ at' = IF done[x] + 1 = Len(CloseSteps)
             THEN [at EXCEPT ![x] = "none"] ELSE at
    /\ UNCHANGED crashed

\* What the thread that is inside one of the two calls does next.
InCall(x) ==
    \/ CreateEngine(x) \/ CreateLock(x) \/ AllocBuffers(x)
    \/ RecOpen(x) \/ PlayOpen(x) \/ Opened(x)
    \/ CloseStep(x)

Driver(x) == DriverDone(x) \/ Callback(x)

-----------------------------------------------------------------------------
\* Nothing is destroyed or freed while it is in use: the stream, its lock and its
\* buffers while the driver has a buffer or is in a callback, the output mix
\* while there is a player, the engine while there are other objects.
NothingDestroyedInUse ==
    \A x \in Stream :
        /\ token[x] \in {"driver", "callback"} =>
             {"stream", "lock", "buffer0", "buffer1"} \subseteq held[x]
        /\ "bqPlayerObject" \in held[x] => "outputMixObject" \in held[x]
        /\ held[x] \cap {"bqPlayerObject", "recorderObject", "outputMixObject"} # {} =>
             "engineObject" \in held[x]
        /\ held[x] # {} => "stream" \in held[x]

\* A stream that was closed, or could not be opened, holds nothing any more,
\* whichever of the calls of android_OpenAudioDevice failed.
NothingLeft == \A x \in Stream : at[x] = "none" => held[x] = {}

-----------------------------------------------------------------------------
\* Why: the parts are there that an opening stream has passed, but for the two
\* whose failure is not noticed; a closing one has lost those it has passed; and
\* where there is a token, there are the buffers and the object that uses them.
Unnoticed == {"lock", "mixRealized"}
Buffers == {"stream", "lock", "buffer0", "buffer1"}

OpeningOK(x) ==
    at[x] = "opening" =>
        /\ done[x] <= Len(OpenSteps(x))
        /\ "stream" \in held[x]
        /\ \A i \in 1 .. done[x] : OpenSteps(x)[i] \in held[x] \cup Unnoticed

ClosingOK(x) ==
    at[x] = "closing" =>
        /\ done[x] < Len(CloseSteps)
        /\ \A i \in 1 .. done[x] : CloseSteps[i] \cap held[x] = {}

TokenOK(x) ==
    /\ at[x] \in {"none", "opening"} => token[x] = "none"
    /\ at[x] = "open" => token[x] # "none"
    /\ token[x] # "none" =>
         /\ Buffers \subseteq held[x]
         /\ held[x] \cap {"bqPlayerObject", "recorderObject"} # {}

PartsOK(x) ==
    /\ at[x] = "none" => held[x] = {}
    /\ "bqPlayerObject" \in held[x] => "outputMixObject" \in held[x]
    /\ held[x] \cap {"bqPlayerObject", "recorderObject", "outputMixObject"} # {} =>
         "engineObject" \in held[x]
    /\ held[x] # {} => "stream" \in held[x]

StreamOK(x) == OpeningOK(x) /\ ClosingOK(x) /\ TokenOK(x) /\ PartsOK(x)
=============================================================================
