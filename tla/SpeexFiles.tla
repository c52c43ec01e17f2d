------------------------------- MODULE SpeexFiles -------------------------------
(***************************************************************************)
(* The file tools of SpeexUtils: encode turns a file of samples into a     *)
(* file of Speex records, decode turns that into samples again (native.cpp *)
(* lines 203-353).  SpeexUtils runs one job at a time, in the order they   *)
(* were asked for; the process may be killed at any moment, and is, when   *)
(* encode finds one of its files missing.                                  *)
(*                                                                         *)
(* A frame is its number in the PCM file.  A record is the size and the    *)
(* bytes of a frame; a file may end in the middle of one.  That a disk is  *)
(* full is left out, since neither tool looks at what fwrite returns.      *)
(***************************************************************************)
EXTENDS Naturals, Sequences

CONSTANTS
    FrameSize,      \* FRAME_SIZE
    PcmSizes,       \* how many samples the PCM file may have
    MaxJobs,        \* a bound on the jobs asked for
    MaxKills        \* a bound on the ends of the process

ASSUME FilesAssumption ==
    /\ FrameSize \in Nat \ {0}
    /\ PcmSizes \subseteq Nat
    /\ MaxJobs \in Nat
    /\ MaxKills \in Nat

VARIABLES
    pcm,        \* the samples of the file to encode
    jobs,       \* what waits in the executor
    encodeRuns, \* an encode job is running, ...
    read,       \* ... and has read so many samples
    decodeRuns, \* a decode job is running, ...
    taken,      \* ... and has read so many records
    speex,      \* the records of the Speex file
    cut,        \* part of another record follows them
    broken,     \* there is no such file, or the process died as it wrote it
    out,        \* the frames of the decoded file
    asked,      \* jobs so far
    kills       \* ends of the process so far

encodeVars == <<encodeRuns, read>>
decodeVars == <<decodeRuns, taken, out>>
fileVars == <<speex, cut, broken>>
filesVars == <<pcm, jobs, encodeVars, decodeVars, fileVars, asked, kills>>

FilesTypeOK ==
    /\ pcm \in Nat
    /\ jobs \in Seq({"encode", "decode"})
    /\ encodeRuns \in BOOLEAN /\ decodeRuns \in BOOLEAN
    /\ read \in Nat /\ taken \in Nat
    /\ speex \in Seq(Nat) /\ out \in Seq(Nat)
    /\ cut \in BOOLEAN /\ broken \in BOOLEAN
    /\ asked \in Nat /\ kills \in Nat

FilesInit ==
    /\ pcm \in PcmSizes
    /\ jobs = <<>>
    /\ encodeRuns = FALSE /\ read = 0
    /\ decodeRuns = FALSE /\ taken = 0
    /\ speex = <<>> /\ cut = FALSE /\ broken = TRUE
    /\ out = <<>>
    /\ asked = 0 /\ kills = 0

-----------------------------------------------------------------------------
\* SpeexUtils.encode and decode hand a job to the executor.
Ask(kind) ==
    /\ asked < MaxJobs
    /\ asked' = asked + 1
    /\ jobs' = Append(jobs, kind)
    /\ UNCHANGED <<pcm, encodeVars, decodeVars, fileVars, kills>>

\* The one thread of the executor takes the next job.
Due(kind) ==
    /\ ~encodeRuns /\ ~decodeRuns
    /\ jobs # <<>> /\ Head(jobs) = kind

\* What is on the disk of a file that was being written: it ends anywhere.
SomePrefix(old, new) == \E n \in 0 .. Len(old) : new = SubSeq(old, 1, n)

\* The process is gone, with its jobs.
Dies ==
    /\ kills < MaxKills
    /\ kills' = kills + 1
    /\ jobs' = <<>>
    /\ encodeRuns' = FALSE /\ decodeRuns' = FALSE
    /\ IF encodeRuns
       THEN SomePrefix(speex, speex') /\ cut' \in BOOLEAN /\ broken' = TRUE
       ELSE UNCHANGED fileVars
    /\ IF decodeRuns THEN SomePrefix(out, out') ELSE UNCHANGED out
    /\ UNCHANGED <<pcm, read, taken, asked>>

-----------------------------------------------------------------------------
\* encode: the Speex file is emptied as it is opened.
EncodeStarts ==
    /\ Due("encode")
    /\ jobs' = Tail(jobs)
    /\ encodeRuns' = TRUE /\ read' = 0
    /\ speex' = <<>> /\ cut' = FALSE /\ broken' = FALSE
    /\ UNCHANGED <<pcm, decodeVars, asked, kills>>

\* A file that cannot be opened is logged, and used all the same: the process
\* dies, with the Speex file emptied if it was the other one.
EncodeCrashes ==
    /\ kills < MaxKills
    /\ Due("encode")
    /\ kills' = kills + 1
    /\ jobs' = <<>>
    /\ \/ speex' = <<>> /\ cut' = FALSE /\ broken' = TRUE
       \/ UNCHANGED fileVars
    /\ UNCHANGED <<pcm, encodeVars, decodeVars, asked>>

WholeFrameEarly ==          \* a mutant: the end is noticed with the last frame
    read + FrameSize < pcm

\* fread gets a whole frame; feof is still false when these were the last samples.
WholeFrame == read + FrameSize <= pcm

\* A record is written; or what fread has got of a frame is dropped, and the
\* files are closed.
EncodeFrame ==
    /\ encodeRuns
    /\ IF WholeFrame
       THEN /\ read' = read + FrameSize
            /\ speex' = Append(speex, (read \div FrameSize) + 1)
            /\ UNCHANGED encodeRuns
       ELSE encodeRuns' = FALSE /\ UNCHANGED <<read, speex>>
    /\ UNCHANGED <<pcm, jobs, decodeVars, cut, broken, asked, kills>>

-----------------------------------------------------------------------------
\* decode, which returns when one of its files cannot be opened (and leaves the
\* Speex file open if it was the other one).
DecodeStarts ==
    /\ Due("decode")
    /\ jobs' = Tail(jobs)
    /\ \/ decodeRuns' = TRUE /\ taken' = 0 /\ out' = <<>>
       \/ UNCHANGED decodeVars
    /\ UNCHANGED <<pcm, encodeVars, fileVars, asked, kills>>

DecodeFrameUnchecked ==     \* a mutant: feof is tested after the decoding
    /\ decodeRuns
    /\ IF taken < Len(speex)
       THEN /\ taken' = taken + 1
            /\ out' = Append(out, speex[taken + 1])
            /\ UNCHANGED decodeRuns
       ELSE /\ decodeRuns' = FALSE
            /\ out' = IF cut /\ out # <<>> THEN Append(out, out[Len(out)]) ELSE out
            /\ UNCHANGED taken
    /\ UNCHANGED <<pcm, jobs, encodeVars, fileVars, asked, kills>>

\* A record is decoded; or the end is met, in a record that is cut or after the
\* last, and the files are closed.
DecodeFrame ==
    /\ decodeRuns
    /\ IF taken < Len(speex)
       THEN /\ taken' = taken + 1
            /\ out' = Append(out, speex[taken + 1])
            /\ UNCHANGED decodeRuns
       ELSE decodeRuns' = FALSE /\ UNCHANGED <<taken, out>>
    /\ UNCHANGED <<pcm, jobs, encodeVars, fileVars, asked, kills>>

-----------------------------------------------------------------------------
FilesNext ==
    \/ \E kind \in {"encode", "decode"} : Ask(kind)
    \/ EncodeStarts \/ EncodeCrashes \/ EncodeFrame
    \/ DecodeStarts \/ DecodeFrame
    \/ Dies

FilesSpec == FilesInit /\ [][FilesNext]_filesVars

-----------------------------------------------------------------------------
\* The whole frames of the PCM file, and sequences of them from the first on.
Frames == pcm \div FrameSize
InOrder(s) == Len(s) <= Frames /\ \A i \in 1 .. Len(s) : s[i] = i

\* Whatever was cut off by the end of a process, the decoded file has frames of
\* the PCM file from the first on, in order and without gaps.
DecodedIsPrefix == InOrder(out)

\* A decode that was asked for after an encode, and ran to its end, has all of
\* them, unless the process died in between.
RoundTrip ==
    [][decodeRuns /\ ~decodeRuns' /\ kills' = kills /\ ~broken
         => Len(out') = Frames]_filesVars

-----------------------------------------------------------------------------
\* Why: the records are the frames from the first on; an encode has written those
\* of the samples it has read, a decode those of the records it has taken.
FilesInv ==
    /\ FilesTypeOK
    /\ ~(encodeRuns /\ decodeRuns)
    /\ InOrder(speex)
    /\ encodeRuns => read = FrameSize * Len(speex)
    /\ ~encodeRuns /\ ~broken => Len(speex) = Frames
    /\ decodeRuns => Len(out) = taken /\ taken <= Len(speex)
    /\ DecodedIsPrefix
=============================================================================
