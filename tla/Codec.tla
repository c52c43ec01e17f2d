--------------------------------- MODULE Codec ---------------------------------
(***************************************************************************)
(* The messages of a TCP connection, one way: BaseEncoder writes each one  *)
(* as |HEADER1|HEADER2|bodylength|command|data|, TCP delivers the bytes in *)
(* pieces of any size, and BaseDecoder, which Mina calls again as long as  *)
(* it returns true, puts the messages together again.                      *)
(*                                                                         *)
(* A byte has Base values, 256 in the code; bodylength is a signed number  *)
(* of two of them.                                                         *)
(***************************************************************************)
EXTENDS Integers, Sequences, SequencesExt

CONSTANTS
    Base,               \* the number of values of a byte
    HEADER1, HEADER2,   \* SocketMessage.HEADER1, HEADER2
    Message,            \* what may be sent, records of a command and its data
    MaxMessages         \* a bound on the messages sent

Byte == 0 .. Base - 1

HEART_BEAT == 0
REQUEST_CALL == 2

\* The app sends no heartbeats, its KeepAliveFilter is commented out, and no
\* data with a request.
ASSUME CodecAssumption ==
    /\ Base \in Nat /\ Base % 2 = 0 /\ Base > REQUEST_CALL
    /\ {HEADER1, HEADER2} \subseteq Byte
    /\ Message \subseteq [command : Byte \ {HEART_BEAT}, data : Seq(Byte)]
    /\ \A m \in Message : m.command = REQUEST_CALL => m.data = <<>>
    /\ MaxMessages \in Nat

VARIABLES
    sent,       \* the messages encoded so far
    wire,       \* bytes written and not yet read
    buffer,     \* what CumulativeProtocolDecoder keeps for the session
    decoding,   \* the I/O thread is in the loop that calls doDecode
    got,        \* the messages handed to messageReceived
    open        \* the session is open

vars == <<sent, wire, buffer, decoding, got, open>>

TypeOK ==
    /\ sent \in Seq(Message)
    /\ wire \in Seq(Byte) /\ buffer \in Seq(Byte)
    /\ got \in Seq([command : Byte, data : Seq(Byte)])
    /\ decoding \in BOOLEAN /\ open \in BOOLEAN

Init ==
    /\ sent = <<>>
    /\ wire = <<>>
    /\ buffer = <<>>
    /\ decoding = FALSE
    /\ got = <<>>
    /\ open = TRUE

-----------------------------------------------------------------------------
(* BaseEncoder, BasicTypeConvertUtils. *)

Words == Base * Base

\* (short) n
ToShort(n) ==
    LET w == n % Words IN IF w < Words \div 2 THEN w ELSE w - Words

EncodeBare(m) ==            \* a mutant: bodylength is the length of the data
    LET n == Len(m.data) % Words
    IN <<HEADER1, HEADER2, n \div Base, n % Base, m.command>> \o m.data

\* bodylength counts the command and the data.
Encode(m) ==
    LET n == (1 + Len(m.data)) % Words
    IN <<HEADER1, HEADER2, n \div Base, n % Base, m.command>> \o m.data

\* byteToShort(header[2], header[3])
BodyLength(b) == ToShort(b[3] * Base + b[4])

Write(m) ==
    /\ open
    /\ Len(sent) < MaxMessages
    /\ sent' = Append(sent, m)
    /\ wire' = wire \o Encode(m)
    /\ UNCHANGED <<buffer, decoding, got, open>>

-----------------------------------------------------------------------------
(* The I/O thread of the session: Mina reads, and calls doDecode. *)

\* Some of the bytes have arrived; decoding starts with what is in the buffer.
Read ==
    /\ open /\ ~decoding
    /\ \E n \in 1 .. Len(wire) :
         /\ wire' = SubSeq(wire, n + 1, Len(wire))
         /\ buffer' = buffer \o SubSeq(wire, 1, n)
    /\ decoding' = TRUE
    /\ UNCHANGED <<sent, got, open>>

HeaderThere == Len(buffer) >= 4
HeaderGood == HeaderThere /\ buffer[1] = HEADER1 /\ buffer[2] = HEADER2
BodyThere == HeaderGood /\ Len(buffer) - 4 >= BodyLength(buffer)

Drops(n) == buffer' = SubSeq(buffer, n + 1, Len(buffer))

NeedsMoreUnmarked ==        \* a mutant: the buffer is not reset
    /\ decoding
    /\ ~HeaderThere \/ (HeaderGood /\ ~BodyThere)
    /\ IF HeaderThere THEN Drops(4) ELSE UNCHANGED buffer
    /\ decoding' = FALSE
    /\ UNCHANGED <<sent, wire, got, open>>

\* doDecode returns false: the header is not there yet, or its body is not, and
\* the buffer has been reset to its mark.
NeedsMore ==
    /\ decoding
    /\ ~HeaderThere \/ (HeaderGood /\ ~BodyThere)
    /\ decoding' = FALSE
    /\ UNCHANGED <<sent, wire, buffer, got, open>>

\* Four bytes that are no header are skipped, and doDecode returns false.
SkipsBadHeader ==
    /\ decoding
    /\ HeaderThere /\ ~HeaderGood
    /\ Drops(4)
    /\ decoding' = FALSE
    /\ UNCHANGED <<sent, wire, got, open>>

HasNoData(command) == command \in {HEART_BEAT, REQUEST_CALL}

\* No command to read, or an array of negative length: the exception ends the
\* session, in exceptionCaught of the client and of the server.
Fails ==
    /\ decoding
    /\ BodyThere
    /\ \/ Len(buffer) = 4
       \/ Len(buffer) > 4 /\ ~HasNoData(buffer[5]) /\ BodyLength(buffer) < 1
    /\ decoding' = FALSE
    /\ open' = FALSE
    /\ UNCHANGED <<sent, wire, buffer, got>>

\* A message is handed over, unless it is a heartbeat.
HandsOver ==
    LET command == buffer[5]
        size == IF HasNoData(command) THEN 1 ELSE BodyLength(buffer)
        data == SubSeq(buffer, 6, 4 + size)
    IN /\ got' = IF command = HEART_BEAT THEN got
                 ELSE Append(got, [command |-> command, data |-> data])
       /\ Drops(4 + size)

DecodesOnce ==              \* a mutant: doDecode returns false after a message
    /\ decoding
    /\ BodyThere /\ Len(buffer) > 4
    /\ HasNoData(buffer[5]) \/ BodyLength(buffer) >= 1
    /\ HandsOver
    /\ decoding' = FALSE
    /\ UNCHANGED <<sent, wire, open>>

\* doDecode returns true if anything is left after the message.
Decodes ==
    /\ decoding
    /\ BodyThere /\ Len(buffer) > 4
    /\ HasNoData(buffer[5]) \/ BodyLength(buffer) >= 1
    /\ HandsOver
    /\ decoding' = (buffer' # <<>>)
    /\ UNCHANGED <<sent, wire, open>>

DoDecode == NeedsMore \/ SkipsBadHeader \/ Fails \/ Decodes

Next == Read \/ DoDecode \/ \E m \in Message : Write(m)

Spec == Init /\ [][Next]_vars

\* What has been written arrives, and the I/O thread runs.
FairSpec == Spec /\ WF_vars(Read \/ DoDecode)

-----------------------------------------------------------------------------
\* Bodies whose length a short can tell, and those whose length does not start
\* again at 0.
Fits(m) == 1 + Len(m.data) < Words \div 2
AllFit == \A i \in 1 .. Len(sent) : Fits(sent[i])
NoneWraps == \A i \in 1 .. Len(sent) : Len(sent[i].data) < Words

\* What messageReceived is given is what was encoded, whole and in order, however
\* TCP cuts the stream.  A text too long for the length field (sendText does not
\* look) costs the session but is never taken for another message, unless it
\* is so long that the field starts again.
ArrivesIntact == NoneWraps => IsPrefix(got, sent)

\* doDecode leaves no message in the buffer that it could have handed over and
\* that would have to wait until the peer sends more.
NothingWaits == open /\ ~decoding /\ AllFit => ~BodyThere

\* Every message is handed over in the end, and no session is lost, as long as
\* the texts fit.
EverythingArrives == <>[](AllFit => open /\ got = sent)

-----------------------------------------------------------------------------
\* Why: the bytes in the buffer and on the wire are those of the messages that
\* have not been handed over, in their order, and the buffer starts with the
\* first byte of one.  ends[i] is the place where message i ends.
Stream == buffer \o wire

FramedBy(s, ends, k, ms) ==
    /\ ends \in [k .. Len(ms) -> Nat]
    /\ ends[k] = 0 /\ ends[Len(ms)] = Len(s)
    /\ \A i, j \in k .. Len(ms) : i <= j => ends[i] <= ends[j]
    /\ \A i \in k + 1 .. Len(ms) :
         /\ ends[i] = ends[i - 1] + Len(Encode(ms[i]))
         /\ \A p \in 1 .. Len(Encode(ms[i])) :
              s[ends[i - 1] + p] = Encode(ms[i])[p]

Aligned ==
    /\ Len(got) <= Len(sent)
    /\ \A i \in 1 .. Len(got) : got[i] = sent[i]
    /\ \E ends : FramedBy(Stream, ends, Len(got), sent)

IInv ==
    /\ TypeOK
    /\ decoding => buffer # <<>> /\ open
    /\ NoneWraps => Aligned
    /\ AllFit => open
    /\ NothingWaits
=============================================================================
