# CallMe in TLA+

CallMe makes voice calls between Android phones on one WLAN.  A phone finds the
other one by a UDP broadcast, the two make a TCP connection (Apache MINA), and
frames of Speex-encoded sound go both ways.  This directory models the parts of
it where threads, callbacks and messages can meet in an order nobody tried: the
making and ending of a call, the wire format, the microphone, the speaker, the
filters between them, the OpenSL ES streams below them, the local echo test and
the Speex file tools.  TLC checks small instances; TLAPS proves the
safety properties, and the safety part of the liveness properties, for all values of
the constants.

Paths below leave out `src/callme/src/main/java/dev/mars/callme/` and
`src/audio/src/main/` where no doubt is possible.

## 1. Inventory

| Component | State | Operations | Talks to |
|---|---|---|---|
| `service/CommunicateService` | `STATE` 0..4, `IS_COMMUNICATING`, two voice queues | commands of the screens; UDP messages; the handlers of `startSocketListen` and `startSocketConnect`; `endCall`; `responseAnswerCall` | both Mina sockets, UDP, EventBus, `AudioUtils` |
| `remote/mina/client` (`MinaSocketClient`, three session states) | state object, `session`, `connectFuture`, `destIP` | connect (in a pool), closeSession, closeConnection, send | MINA connector |
| `remote/mina/server/MinaSocketServer` | acceptor, `tcpSession` | bind (in a pool), unbind, closeSession, send, wrapped handler | MINA acceptor |
| `remote/mina/Base*`, `utils/BasicTypeConvertUtils` | decoder's buffer | encode, doDecode | MINA filter chain |
| `UDPUtils`, `UDPSocket` | socket, listening thread | broadcast, listen | main thread's handler |
| `audio/AudioUtils`, `NativeLib`, `jni/native.cpp`: microphone | `isRecording`, `is_recording2`, `audioRecordQueue` | turn on/off, recording loop, sending runnables | `opensl_io`, session |
| the same: speaker | `isPlaying`, `is_playing2`, `audioPlayQueue` | turn on/off, playing loop, `addToPlayQueue` | `opensl_io`, session |
| filters of a call (bodies of both loops in `native.cpp`) | `noise_clear`, `echo_clear`, `echoAudioFrame` of `NativeLib`, the recorder's `ptr` | two switches, storing a played frame, cancelling, preprocessing, encoding | microphone, speaker |
| `jni/opensl_io.c` | OpenSL objects, two double buffers, indexes, thread locks | open, close, `android_AudioIn`, `android_AudioOut`, two driver callbacks | OpenSL ES |
| local echo test: `AudioUtils.recordAndPlayPCM`, `native.cpp` | `isRecordAndPlay`, `recording_playing` | start, stop, the loop of a task | `opensl_io`, two streams at a time |
| Speex file tools: `SpeexUtils`, `encode` and `decode` of `native.cpp` | an executor with one thread, a PCM file, a Speex file | encode, decode | the file system |
| screens (`*Activity`), `RingtonePlayer` | what is shown | buttons, EventBus events | service |
| `KeepAliveFilter` | - | commented out of both filter chains | - |
| `video` module | - | an empty skeleton | - |

Threads of one phone: main; two cached pools (connect and bind tasks); one MINA
processor thread per session; the UDP thread; a pool of recording and playing
tasks; the single thread of `sendService`; the callback threads of OpenSL ES.
`STATE`, `IS_COMMUNICATING`, `tcpSession`, `session`, the flags of `NativeLib`
and of `native.cpp` are written by several of them without a lock.

Hard behaviour, and what has to be right (each point is a hazard of
`PROJECT.json`, with its line and its properties):

* *The call.*  Callbacks of an old session run under a new one; a bind or connect
  task finds a state that has moved on; hanging up meets an answer being written;
  `endCall` blocks in `unbind`, once on the very thread that would let it go on;
  both phones call at once.  `STATE` must not claim a connection that is gone, a
  call must have been answered, and hanging up must reach the other side.
* *The wire.*  TCP cuts messages anywhere and the length field is a signed short.
  Messages must arrive whole, in order, and without waiting for later ones.
* *Microphone and speaker.*  The Java flag is tested on main and set by a task
  later, the native flag is set after that and reset from elsewhere; tasks overlap;
  queues fill.  A flag must not stay set with nobody to reset it, frames must keep
  their order, loops must end, and I/O threads must not be held up.
* *The filters.*  The switches are read several times in a turn of the recording loop, and
  another thread stores the frame to compare with.  What is encoded must be the
  frame just recorded; what is cancelled must have been played, and lately.
* *The streams.*  One lock has to keep the caller out of the buffer the driver
  uses, and must not lose a wake-up.  Up to fourteen calls open a stream and each may
  fail; closing meets a driver that is still at work.
* *The echo test.*  Its two flags are set and reset by different threads, tests may
  overlap, and one stream may open where the other does not.
* *The files.*  A file may be missing, or end where the process was killed, in the
  middle of a record.

## 2. Modules

```
 MinaSession  (TCP and MINA, external)
   |      \
 MinaSocketClient  MinaSocketServer
        \         /
     CommunicateService --- CommunicateService_proofs
             |     implements CallPromise
     MCCommunicateService

 Codec ------+--- Formats_proofs         EchoCancel --- EchoCancel_proofs
 SpeexFiles -+
 MCCodec : Codec for TLC

 AudioRecord --- AudioRecord_proofs      AudioPlay --- AudioPlay_proofs

 OpenSLDevice --- LocalEcho --- LocalEcho_proofs

 ThreadLock --+-- OpenSLPlay --- OpenSLPlay_proofs
              +-- OpenSLRecord --- OpenSLRecord_proofs
 AudioPipe : what both streams implement
```

### The call: `CommunicateService` and what it extends

* `MinaSession` is the library MINA 2.0.16 as far as the program can see it: the
  life of each end of a connection, the connect future, the write queue, what is
  on the wire, `closeOnFlush`/`closeNow`, and the order in which MINA fires events
  for one end, on one thread.  It is external: `callme/libs` holds only its jar.
* `MinaSocketClient` and `MinaSocketServer` hold the fields of these classes,
  one per phone, and their methods as operators that the actions of the service
  are made of.  Each says which variables it sets.
* `CommunicateService` has one action per command of a screen (`StartCall`,
  `HangUp`, `Answer`, `AnswerRefused`), per UDP message (`OnFindOther`,
  `OnStartTcp`), per step of a pool task (`RunConnect`, `AttachListeners`,
  `RunBind`, `OnBindSucess`, `OnBindFailed`) and per handler or write callback
  (`ClientSessionOpened`, `ClientMessageReceived`, `ServerSessionOpened`,
  `ResponseSent`, `ResponseNotSent`, ...).  The steps between which another
  thread may come are separate actions: connecting and adding the listeners;
  `acceptor.bind` and the listener that sets `STATE`; the part of `endCall` before
  and after the wait in `unbind` (`MainResumes`, `ProcResumes`).

What it abstracts.  A handler body is one step apart from the wait in `unbind`;
`getSessionState().connect(...)` of a pool task is one step, and so are the two
`addListener` calls of `ClosedSessionState`.  No two sessions share a processor
thread.  The acceptor is active exactly while it is bound.  TEXT and VOICE are
left out here: they change neither `STATE` nor a session.  UDP messages to a phone
form a set: any may be lost, two equal ones that wait are one.  A UDP message is
decoded as it was sent (its JSON has well under 100 bytes, so the sign of the
length byte never matters).  A process that dies in `connector.setHandler` stays
dead, and its sockets are closed.  The screens are reduced to `ringing`: the
screen with the answer button was brought up and has not been left by hanging up.

`CallPromise` is the abstract specification: what the users see of a call.  A line
at each end of a connection opens and ends; a request makes the callee's phone ring;
its user answers; the callee joins the call when the answer leaves, the caller when
it arrives; a phone whose line ends is not in a call.  Messages may get lost and
phones may leave at any time.  `Promise == INSTANCE CallPromise WITH ...` maps a line
to the life of a session, what is on the way to `wire`, and the phones in a call to
those that live and have `IS_COMMUNICATING` set; `PromiseSpec` is the property.  STATE,
the state objects, the acceptor, the pools and the waits in `unbind` are below it: none
of them may show through.

### The wire: `Codec`

One direction of one connection, byte by byte: `Write` is `BaseEncoder`, `Read`
takes any number of the bytes on the wire, and `NeedsMore`, `SkipsBadHeader`,
`Fails` and `Decodes` are the four outcomes of one call of
`BaseDecoder.doDecode`; `CumulativeProtocolDecoder` (external) calls it again
while it returns true and keeps what is left.  `REQUEST_CALL` with null data and with
empty data are the same message; a session that closes for other reasons is
`CommunicateService`'s affair.  The module ends with its inductive invariant:
`Stream`, the bytes of the buffer and the wire, is cut by some `ends` into the encoded
messages that have not been handed over (`FramedBy`).

### Microphone and speaker: `AudioRecord`, `AudioPlay`

Each follows `startRecording2` / `playRecording2` of `native.cpp` from one access
of a shared variable to the next: the device is opened and the Java flag set, the
native flag is set, the loop tests it, a frame is read or taken out of the queue
and used, the device is closed and the Java flag reset.  `TurnOnMic` /
`TurnOnSpeaker` test the Java flag on main and hand a task to the pool.
`AudioRecord` has the runnables of `sendService`, one of which runs at a time;
`AudioPlay` has the sessions' I/O threads, which test `isPlaying`, add a frame, or
run `stopAudioPlay` when their session closes.  A frame is a number in the
order of recording or reception.  A frame dropped at a full queue is gone.  Left
out: the samples, Speex, and what happens to a frame inside one turn of a loop,
which is `EchoCancel`.

### The filters of a call: `EchoCancel`

The bodies of both loops between taking a frame and handing it on, one access of a
shared variable at a time.  `SetNoiseClear` and `SetEchoClear` are the check boxes.
A player takes a frame (`Decode`), plays it (`AudioOut`), tests the switch
(`TestEchoClear`) and stores the frame for the recorder (`SetEchoAudioFrame`).  The
recorder records (`AudioIn`), sets `ptr` if a filter is on (`NoiseOrElse` and
`OrEcho`: C reads the two switches one after the other), tests whether to cancel
(`TestEcho`, `TestPlaying`), cancels, preprocesses and encodes.  Where no filter is
on, `ptr` stays as it was declared, unset: it may point anywhere, or where it
pointed in the last turn, and using it may end the process.  `handed`, `seenOff` and
`steady` are history, read only by the properties.  Players start and stop at will
here, as `AudioPlay` is about when they do.

### The streams: `ThreadLock`, `OpenSLPlay`, `OpenSLRecord`, `AudioPipe`

`ThreadLock` is the flag, mutex and condition variable of `opensl_io.c`, with
spurious wake-ups.  `OpenSLPlay` and `OpenSLRecord` copy sample by sample, so the
driver may read or fill at any point of a copy.  The driver is external: it plays
the queued buffer in order and then calls back; it drops what is recorded while it
has no buffer; `Destroy` waits for a callback that is running.  Opening the
stream is one call here; what it consists of is `OpenSLDevice`.  `AudioPipe` is the
abstract specification: samples come out in the order they went in, each once,
and a bounded number are on their way.  `Pipe == INSTANCE AudioPipe WITH ...` is the
refinement mapping, `PipeSpec` the property.

### Opening and closing a stream: `OpenSLDevice`

`OpenSteps` is the sequence of parts that `android_OpenAudioDevice` obtains: the
engine, the lock and the buffers, and the recorder's or the player's objects and
interfaces.  Each is a step that `Obtains` it, `GivesUp` (the call failed, and
`android_CloseAudioDevice` takes back what there is), or `GoesOn` (the call failed
and nobody looked).  The last is so for two of them: a lock that `createThreadLock` could not
make, over which `Opened` then crashes, and the output mix, whose result the next
one overwrites, so that OpenSL ES refuses the player.  `CloseSteps` is what
`android_CloseAudioDevice` gives back, in its order, while `token` says whether the
driver has a buffer or is in a callback.  The engine's parts are those of one stream, as in
the code.  Two branches are left out because no caller reaches them: that of an unknown mode
(which leaks what was opened) and `return -1` for an unknown sample rate, which stands behind
the `break` that leaves the switch.

### The local echo test: `LocalEcho`

Two streams per task over `OpenSLDevice`, and the two flags: `isRecordAndPlay` is
read on main and set by tasks, `recording_playing` is set on main and reset by
tasks.  `SetUp` is the canceller and the preprocessor; without the first the task
returns, without the second the process dies.  `Starts` is the test of the two
streams: with one of them missing the task returns and leaves the other one open
(`left`).  `EnterLoop` resets `recording_playing` whatever main has done since.

### The Speex file tools: `SpeexFiles`

The executor takes one job at a time.  `EncodeFrame` and `DecodeFrame` are one turn of each
loop, a record is the size and the bytes of a frame, and a frame is its number in
the PCM file.  `encode` goes on with a file it could not open and dies, after it
has emptied the Speex file if the PCM file was the missing one (`EncodeCrashes`); `decode`
returns.  `Dies` kills the process between any two steps, and what was being
written ends anywhere.

## 3. Runs

Passing runs:

| Run | Instance | Question |
|---|---|---|
| `one_call_live` | 1 connection, 3 commands, fair | `CloseEndsCallAtPeer`, `UnbindReturns`, `AnswerGetsThrough` |
| `glare_live` | 2 connections, 2 commands, 1 failing read or write, fair | `RequestRings`, also when both phones call; types; do `tcpSession` and the client's `session` ever outlive their session (`TcpSessionIsLive`, `ConnectedHasSession`); do `STATE` or `IS_COMMUNICATING` ever claim what is gone (`ConnectedStateIsBacked`, `CommunicatingWasAnswered`); does a call begin and end as `CallPromise` says (`PromiseSpec`) |
| `codec` | 3 messages, bytes with 4 values, fair | `ArrivesIntact`, `NothingWaits`, `EverythingArrives` |
| `mic` | 2 tasks, 3 senders, queue of 2, 3 frames, 4 uses of the switch, fair | `FlagHasOwner`, `SentInOrder`, `MicStops` |
| `speaker` | 2 tasks, 2 sessions, queue of 2, 2 frames each, 3 commands, fair | `PlayingHasTask`, `PlayedInOrder`, `SpeakerStops`, `ReceiverReturns`, `FramesLeaveQueue` |
| `play`, `record` | buffers of 3 samples, calls of 2, 3 and 4, 16 samples, fair | `NoOverwrite` / `NoTornRead` and `ConstantDelay`, `PipeSpec`, and that the calls return |
| `echo_test` | 2 tasks, 8000 Hz, 3 commands, every call of opening failing or not, fair | `NothingDestroyedInUse`, `NothingLeft`, `StreamsBelongToTasks`, `EchoTestEnds` |
| `speex_files` | frames of 2 samples, files of 0 to 6, 4 jobs, 2 ends of the process | `DecodedIsPrefix`, `RoundTrip` |
| `echo_frames` | 2 players of 3 frames, 2 recorded frames, 5 commands | `EchoWasPlayed`, `EchoIsRecent`, `EncodesThisFrame` |

Why these bounds.  Two connections are the fewest with which an old session's
callbacks can run under a new one, with which both phones can call at once, and
with which one server can hold two sessions.  With one connection three commands
are a call, an answer and a hang-up; with two connections two commands are two
calls, a call and its answer, or a call and a hang-up.  One failing
read or write is enough for every handler of a failure to run, also beside a
second connection.  Longer histories and larger WLANs are what the proofs are for:
the invariants hold for any number of commands, errors, phones and connections
(section 4).  The liveness runs do without symmetry, which is not sound for
liveness, and with one connection or two commands.  Two
tasks overlap, three senders fill the queue of runnables behind a running one,
and a queue of 2 is both full and empty.  Buffers of 3 with calls of 2, 3 and 4 put
the index in every place a call can leave it, and 16 samples exchange the halves
five times.  With 4 values of a byte a short wraps at 8 and starts again at
16, so texts of 7, 15 and 17 bytes stand for 32767, 65535 and more; header bytes
may occur in a text.  Two echo tests and three commands are both tests and one stop,
or a test, a stop and the next test: all ways in which a flag set for the one can be
reset by the other.  Files of 0 to 6 samples in frames of 2 are empty, shorter than
a frame, whole frames, and whole frames with a rest; four jobs are an encode and a decode
before and after an end of the process.  Five switches are each filter off and on
around a player, or two players and the end of one.  `CHECK_DEADLOCK FALSE` is in every configuration since a
system in which nobody calls, a closed stream or a dead process may be silent for ever.

Fairness.  Weak fairness of each thread: Android's scheduler runs every runnable
thread, a cached pool gives every task a thread, and a connect attempt ends by the
connector's timeout.  Users, recorded frames, errors, lost broadcasts and spurious wake-ups
are never fair.  In `echo_test` the driver is fair too: it plays and fills the buffers it
was given.  A thread that waits in `unbind` is not enabled.  Where the
code can really wait for ever (a processor thread that waits in `unbind` for its own
session, a session that opens behind `unbind`'s back, a dead process), the
liveness property names the case, so that the run shows that there is no other.

Runs that show a disagreement between the code and what its comments say:

| Run | What happens |
|---|---|
| `server_connected_state` | A session opened between `acceptor.bind` and `onBindSucess`: `STATE` is set back to 1 and stays there with a live session. |
| `client_wait_ends` | A connect task that finds the client not CLOSED drops its listener: `STATE` stays 3 in spite of the 10 s timeout. |

The same models show other things a reader of the comments may not expect, which
no promise of the code stands against and no run is spent on: a server may hold a
second session beside `tcpSession`; an attempt left by `endCall` in `STATE` 3 may
open a session later, next to another one of the client; of two overlapping
recording tasks, the first to end resets the flag of the other.  A recording task that cannot
set up the echo canceller returns and leaves `isRecording` set (the way out of
`FlagHasOwner` that it names).  `android_AudioOut` reads its
stream before it tests it for NULL, so that a speaker that could not be opened is a
crash.  Of two overlapping echo tests, the first to end clears `isRecordAndPlay`, and
`stopRecordAndPlay` is refused while the other one runs on.  An echo test that gets
just one of its streams never closes it.  With both filters off the recorder encodes
through a pointer that was never set.  `encode` of a missing file empties the Speex
file before it dies.

Every property of a passing run has a mutant in `PROJECT.json`: a plausible bug
in a mapped definition under which TLC finds the property violated.  The mutated
forms stand before the definition they replace, marked "a mutant".

## 4. Proofs

All from the named assumptions on the constants alone (`NullAssumption`,
`BoundsAssumption`, `RecordAssumption`, `PlayAssumption`, `SizesAssumption`,
`EchoAssumption`, `FilesAssumption`, `CancelAssumption`, `CodecAssumption`);
sets of phones, connections, tasks, players, senders and sessions are arbitrary.

* `CommunicateService_proofs`.  `IInv` is the conjunction of `TypeOK`, the four
  safety properties and four facts they rest on: `FreshConn` (a connection is used
  once, and its accepting end does not precede its connecting end), `WaitingProc` (a
  processor thread waits only between a failed write and the `exceptionCaught` that
  follows), `ResponseWasGiven` (RESPONSE_CALL_OK travels only where there was an
  answer) and `DestKnown` (a connect task has an address).  None is inductive alone: that `tcpSession` is live needs that a
  waiting thread runs no handler; that `STATE` 2 is backed needs that
  `tcpSession` is live and whose thread waits; that a call was answered needs to
  know what is on the wire.  One lemma per conjunct takes Next apart, an action at a
  time.  Theorems: `TypeCorrect`, `ClientSessionIsReal`, `ServerSessionIsLive`,
  `StateIsBacked`, `CallsAreAnswered`, and `ServiceKeepsItsPromise`: every step of the
  service is a step of `CallPromise` or none (`StepIsPromiseStep`, again an action at
  a time).  An answer is given over an open line because `tcpSession` is live; the callee
  joins with an answer because of `ResponseWasGiven`; a connection is called once because
  of `FreshConn`.  `PromiseKeepsCallsAnswered` says that the promise is worth
  implementing: in every behaviour of `CallPromise` itself, a phone in a call has a line
  that is up and was answered.
  Three theorems are the safety parts of the liveness properties.
  `CallMessagesGetThrough` (of `RequestRings`, `AnswerGetsThrough`): one step takes a
  message from the answer to the write queue, from there to the wire, and from there
  to the ringing or the call; only a connection that is broken down loses it, and
  it stays broken down.  `SessionsRunDown` (of `CloseEndsCallAtPeer`,
  `UnbindReturns`): `EndWork(e)` counts the callbacks and writes a session still owes, is
  lowered by every step of the thread that serves it, and is raised only by a write
  on a session not told to close or a message from a peer that is there.  `SessionsGoOn`: where
  something is due, that thread has a step, but for a dead process or a thread that waits
  in `unbind`, and then exactly between a failed write and `exceptionCaught`.
* `OpenSLPlay_proofs`, `OpenSLRecord_proofs`.  The heart of `IInv` is `Token`:
  exactly one of the flag `s`, the caller between wait and enqueue, the queued
  buffer and the callback that is due exists at a time.  `Progress` ties the
  index to the program counter, and `Content` says which samples the two buffers
  hold.  From these: no buffer is written while it is played (`PlayerBuffersAreSafe`),
  none is read while it is filled (`RecorderBuffersAreSafe`), the delay of the
  recorder is constant (`DelayIsConstant`), and every step is a step of
  `AudioPipe` or a stutter (`PlayImplementsPipe`, `RecordImplementsPipe`), for every
  buffer size and every sequence of calls.  `TypeCorrect` is the type invariant
  of each.  For the return of calls: a caller that sleeps is owed a
  callback, and somebody always has a step (`NoWakeUpIsLost`), and every step but a spurious
  wake-up lowers `Work`, the samples still to be copied and the places to the next
  wait (`CallsComeToAnEnd`).
* `AudioRecord_proofs`.  `TypeCorrect`; `FlagIsNeverLeftBehind` (`FlagHasOwner` is
  inductive with `TypeOK`); `FramesAreSentInOrder` from `OneSender` and `InOrder`:
  the frame sent last, the held one, those of the queue and the one recorded last are
  in this order, which needs that only one runnable runs.  `TurnedOffMicRunsOut` (of
  `MicStops`): while `is_recording2` is off, only a task that enters its loop sets it, and each
  step of a task lowers the number of those it has left.
* `AudioPlay_proofs`.  `TypeCorrect` (with `HeldFrames`, since the played number is
  that of the held frame); `FlagIsNeverLeftBehind`; `FramesArePlayedInOrder` from
  `QueueInOrder` and `TasksInOrder`: of each session, what a task has played
  comes before what it holds, before what is in the queue, before what the I/O thread is about to
  add (`Latest`), although tasks share the queue and it is emptied at any time.
  `TurnedOffSpeakerRunsOut` is as for the microphone (of `SpeakerStops`); `FramesGetTheirTurn`
  (of `FramesLeaveQueue`): while `is_playing2` is on a task polls, each poll moves every
  frame up by one, and nothing else takes one out of its turn.
* `EchoCancel_proofs`.  `PlayersInv`: a player hands over its frames one by one
  (`handed` is `played`, or one behind while it plays), and while `steady` counts
  and it is not between playing and storing, the stored frame is its last one or another
  player's.  From it, `OnlyPlayedFramesAreCanceled` and `StoredFrameIsRecent`, for any
  number of players.  `RecorderOK`: as long as not both switches have been seen off,
  `ptr` is on the buffer until the cancelling and on this frame afterwards; from it
  `RecorderEncodesItsFrame`, for any number of switches at any moment.
* `LocalEcho_proofs`.  `IInv` is `TypeOK`, `StreamOK` of each stream, `TaskOK` of each task, and
  `FlagHasOwner`.  `StreamOK` says what an opening stream holds after `done` steps (all it
  passed but the two parts whose failure is not noticed), what a closing one no longer
  holds, that a token means that there are buffers, a lock and an object that uses
  them, and that no object outlives the one it was made from.  None of this
  is needed for the two streams of a task to belong to it (`TaskOK`), which in turn
  is what lets the steps on streams be the task's own.  Theorems: `TypeCorrect`,
  `CloseIsSafe`, `CloseIsComplete`, `LoopHasItsStreams`, `FlagIsNeverLeftBehind`, for
  every set of tasks and every sample rate.  Of `EchoTestEnds`: a test that is ending
  has at most 31 steps of its task and its driver left, each of which lowers their
  number (`StoppedTestsRunOut`), and it always has such a step (`TestsCanGoOn`).
* `Formats_proofs`, for both formats in which data follow their length.
  `Codec`: what a recursive parser of the stream would compute cannot be reasoned about
  without induction over the bytes, but that a *cut* of the stream exists can: `Aligned` asks
  for places `ends` at which the messages not yet handed over end, byte by byte those
  of `Encode`.  A write adds one place (`FramedWrite`), a read changes nothing, and handing a
  message over takes the first away (`FramedRest`), whatever the header bytes are and wherever
  TCP cut.  `Aligned` needs `NoneWraps`: a text of `Words` bytes or more has a length field that
  starts again, and then the stream is lost.  While it holds, `SkipsBadHeader` never
  happens, a text that does not `Fit` makes `doDecode` fail (`LengthField`: its length reads as
  zero or less) and no other does.  Theorems: `CodecTypeCorrect`, `MessagesArriveIntact`,
  `NoMessageWaits`, and of `EverythingArrives`, `SilentMeansDelivered` (if the texts
  fit, the session is open, and with nothing to read or decode all has been handed over) and
  `DecoderRunsDry` (each step of reading and decoding lowers `DecoderWork`, whatever the
  bytes), for any bytes, headers and messages.
  `SpeexFiles`: the records are the frames from the first on; an encode has written
  those of the samples it has read, a decode those of the records it has taken; a file that is not
  `broken` has them all.  With some arithmetic on whole frames this gives
  `FilesTypeCorrect`, `DecodedFilesAreFronts` and `AllFramesComeBack` for every frame size and
  length.

Each inductive invariant was first checked as an invariant with TLC.  Every safety and
action property the passing runs check is a theorem.  Only model-checked are the
twelve liveness properties: fairness and ENABLED are beyond the prover.  What is proved of eleven of them are
the facts above from which, with weak fairness of the threads, they follow: a step is
possible, and steps of that kind come to an end.  `ReceiverReturns` has no such theorem because
there is nothing but fairness in it: an I/O thread that adds a frame meets no guard but its own
place, which is what its mutant, a `put` that waits for room, changes.  The two runs that expect a
violation show behaviours and are not the subject of a proof.

## 5. Not modelled

* The screens and EventBus (planned), a peer that vanishes without closing TCP and
  the disabled `KeepAliveFilter` (planned).
* The ringtone (switched off by a constant), the `video` module (a camera preview
  with no connection to a call), Constants, logs and the build; the vendored headers
  of Speex under `jnilibs/speex_include`, which are most of the repository's C lines
  that no definition maps to.
* What Speex computes: samples, the state of the echo canceller and of the
  preprocessor.  What a filter makes of a frame is still that frame.
* Leaks that change nothing but memory: `GetByteArrayElements` without a release in
  the loops of `native.cpp`, the echo canceller of an echo test, the Speex file that `decode` leaves open.
* `START_STICKY`'s restart with a null intent (`CommunicateService.java:151`) is one
  call with one outcome.
* A full disk: neither file tool looks at what `fwrite` returns.

## 6. Plan

Done, in this order: the call with its sockets and sessions; its runs and proofs;
the streams with their refinement; the microphone; the speaker; the wire format;
opening and closing a stream; the local echo test; the file tools; the filters of a
call; `CallPromise` and the proof that the service implements it; the proof of `Codec`; the
safety parts of the liveness properties.

To come, most important first:

1. `CallScreens`: the activities, their registration with EventBus and the events that are
   lost between two screens, over the service.
2. A silent peer and the keep-alive: what changes if the filter is put back.
3. The microphone and the speaker composed with the session: voice frames of one call
   that are left in a queue for the next.
4. Proofs across those compositions, as they come: that a frame of one call is not played in
   the next unless it was left in `audioPlayQueue`, and that a lost event leaves a screen behind
   but never `STATE`.
