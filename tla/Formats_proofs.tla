----------------------------- MODULE Formats_proofs -----------------------------
(***************************************************************************)
(* The two formats in which something follows its length: messages on a    *)
(* connection (Codec) and frames in a file (SpeexFiles).                   *)
(*                                                                         *)
(* Codec, for any bytes and messages, however the stream is cut: what is   *)
(* handed over is what was sent, none waits for bytes it does not need,    *)
(* and texts that fit cost no session.                                     *)
(*                                                                         *)
(* SpeexFiles, for any frame size, any file, any number of jobs and of     *)
(* ends of the process: a decoded file has frames of the PCM file without  *)
(* gaps, and an encode and a decode give all of them.                      *)
(***************************************************************************)
EXTENDS Codec, SpeexFiles, SequenceTheorems, TLAPS

-----------------------------------------------------------------------------
(* Codec. *)

\* Two bytes tell a number below Words.
LEMMA TwoBytes ==
  ASSUME NEW b \in Nat, b > 0, NEW n \in Nat, n < b * b
  PROVE  /\ n \div b \in 0 .. b - 1 /\ n % b \in 0 .. b - 1
         /\ (n \div b) * b + (n % b) = n
  <1> DEFINE q == n \div b
  <1>1. /\ q \in Nat /\ n % b \in Nat /\ n % b < b
        /\ n = b * q + (n % b)
    BY Z3
  <1>3. q < b
    <2> SUFFICES ASSUME b <= q PROVE FALSE
      BY <1>1
    <2>1. b * b <= b * q
      BY <1>1, Z3
    <2> QED BY <1>1, <2>1, Z3
  <1> QED BY <1>1, <1>3, Z3

LEMMA WordsNat ==
  /\ Base \in Nat /\ Base > 0 /\ Words \in Nat /\ Words % 2 = 0
  /\ 2 * (Words \div 2) = Words /\ Words \div 2 \in Nat /\ Words \div 2 > 2
  <1>1. Base \in Nat /\ Base % 2 = 0 /\ Base > 2
    BY CodecAssumption DEF REQUEST_CALL
  <1>2. PICK h \in Nat : Base = 2 * h /\ h >= 2
    <2>1. Base = 2 * (Base \div 2) /\ Base \div 2 \in Nat /\ Base \div 2 >= 2
      BY <1>1, Z3
    <2> QED BY <2>1
  <1> DEFINE x == h * Base
  <1>3. x \in Nat /\ x >= 2 * Base /\ Words = 2 * x
    BY <1>1, <1>2, Z3 DEF Words
  <1>4. Words % 2 = 0 /\ Words \div 2 = x
    BY <1>3, Z3
  <1> QED BY <1>1, <1>3, <1>4

\* bodylength is told by two bytes, as a short.
LEMMA LengthField ==
  ASSUME NEW n \in Nat, 1 <= n, n <= Words
  PROVE  /\ (n % Words) \div Base \in Byte /\ (n % Words) % Base \in Byte
         /\ LET v == ToShort(((n % Words) \div Base) * Base + ((n % Words) % Base))
            IN  /\ n < Words \div 2 => v = n
                /\ ~(n < Words \div 2) => v <= 0
                /\ v \in Int
  <1> DEFINE w == n % Words
  <1>1. w \in Nat /\ w < Base * Base
    BY WordsNat DEF Words
  <1>2. /\ w \div Base \in Byte /\ w % Base \in Byte
        /\ (w \div Base) * Base + (w % Base) = w
    BY <1>1, TwoBytes, WordsNat DEF Byte
  <1>3. w = IF n = Words THEN 0 ELSE n
    BY WordsNat
  <1>4. w % Words = w
    BY <1>1, <1>3, WordsNat
  <1>5. ToShort(w) = IF w < Words \div 2 THEN w ELSE w - Words
    BY <1>4 DEF ToShort
  <1> QED BY <1>1, <1>2, <1>3, <1>5, WordsNat

LEMMA EncodeBytes ==
  ASSUME NEW m \in Message
  PROVE  /\ m.data \in Seq(Byte) /\ Len(m.data) \in Nat
         /\ m.command \in Byte /\ m.command # HEART_BEAT
         /\ m = [command |-> m.command, data |-> m.data]
         /\ m.command = REQUEST_CALL => m.data = <<>>
         /\ Encode(m) \in Seq(Byte)
         /\ Len(Encode(m)) = 5 + Len(m.data)
         /\ Encode(m)[1] = HEADER1 /\ Encode(m)[2] = HEADER2
         /\ Encode(m)[3] = ((1 + Len(m.data)) % Words) \div Base
         /\ Encode(m)[4] = ((1 + Len(m.data)) % Words) % Base
         /\ Encode(m)[5] = m.command
         /\ \A p \in 1 .. Len(m.data) : Encode(m)[5 + p] = m.data[p]
  <1>1. /\ m.data \in Seq(Byte) /\ Len(m.data) \in Nat
        /\ m.command \in Byte /\ m.command # HEART_BEAT
        /\ m = [command |-> m.command, data |-> m.data]
        /\ m.command = REQUEST_CALL => m.data = <<>>
    BY CodecAssumption
  <1> DEFINE n == (1 + Len(m.data)) % Words
             head == <<HEADER1, HEADER2, n \div Base, n % Base, m.command>>
  <1>2. n \div Base \in Byte /\ n % Base \in Byte
    <2>1. n \in Nat /\ n < Base * Base
      BY <1>1, WordsNat DEF Words
    <2> QED BY <2>1, TwoBytes, WordsNat DEF Byte
  <1> HIDE DEF n
  <1>3. head \in Seq(Byte) /\ Len(head) = 5
    BY <1>1, <1>2, CodecAssumption
  <1>4. Encode(m) = head \o m.data
    BY DEF Encode, n
  <1>5. /\ Encode(m) \in Seq(Byte)
        /\ Len(Encode(m)) = 5 + Len(m.data)
        /\ \A p \in 1 .. 5 + Len(m.data) :
             Encode(m)[p] = IF p <= 5 THEN head[p] ELSE m.data[p - 5]
    <2> HIDE DEF head
    <2>1. /\ head \o m.data \in Seq(Byte)
          /\ Len(head \o m.data) = Len(head) + Len(m.data)
          /\ \A p \in 1 .. Len(head) + Len(m.data) :
               (head \o m.data)[p] =
                 IF p <= Len(head) THEN head[p] ELSE m.data[p - Len(head)]
      BY <1>1, <1>3, ConcatProperties
    <2> QED BY <1>1, <1>3, <1>4, <2>1
  <1>6. /\ Encode(m)[1] = head[1] /\ Encode(m)[2] = head[2]
        /\ Encode(m)[3] = head[3] /\ Encode(m)[4] = head[4]
        /\ Encode(m)[5] = head[5]
    BY <1>1, <1>5
  <1>7. \A p \in 1 .. Len(m.data) : Encode(m)[5 + p] = m.data[p]
    BY <1>1, <1>5
  <1> QED BY <1>1, <1>5, <1>6, <1>7 DEF n

-----------------------------------------------------------------------------
\* Nothing is on its way.
LEMMA FramedNothing ==
  ASSUME NEW k \in Nat, NEW ms, Len(ms) = k
  PROVE  \E ends : FramedBy(<<>>, ends, k, ms)
  <1> DEFINE ends == [i \in k .. k |-> 0]
  <1>1. FramedBy(<<>>, ends, k, ms)
    BY DEF FramedBy
  <1> QED BY <1>1

\* One more message at the end.
LEMMA FramedWrite ==
  ASSUME NEW s \in Seq(Byte), NEW ends, NEW k \in Nat, NEW ms \in Seq(Message),
         k <= Len(ms), FramedBy(s, ends, k, ms), NEW m \in Message
  PROVE  \E e : FramedBy(s \o Encode(m), e, k, Append(ms, m))
  <1> DEFINE n == Len(ms)
             d == Len(Encode(m))
             e == [i \in k .. n + 1 |-> IF i <= n THEN ends[i] ELSE Len(s) + d]
             t == s \o Encode(m)
             msm == Append(ms, m)
  <1>1. /\ n \in Nat /\ d \in Nat /\ Len(s) \in Nat /\ Encode(m) \in Seq(Byte)
        /\ Len(msm) = n + 1 /\ msm[n + 1] = m
        /\ \A i \in 1 .. n : msm[i] = ms[i]
    BY EncodeBytes
  <1>2. /\ Len(t) = Len(s) + d
        /\ \A p \in 1 .. Len(s) : t[p] = s[p]
        /\ \A p \in 1 .. d : t[Len(s) + p] = Encode(m)[p]
    <2>1. /\ Len(t) = Len(s) + d
          /\ \A p \in 1 .. Len(s) + d :
               t[p] = IF p <= Len(s) THEN s[p] ELSE Encode(m)[p - Len(s)]
      BY <1>1, ConcatProperties
    <2>2. ASSUME NEW p \in 1 .. d PROVE t[Len(s) + p] = Encode(m)[p]
      BY <1>1, <2>1
    <2>3. ASSUME NEW p \in 1 .. Len(s) PROVE t[p] = s[p]
      BY <1>1, <2>1
    <2> QED BY <2>1, <2>2, <2>3
  <1>3. /\ ends \in [k .. n -> Nat] /\ ends[k] = 0 /\ ends[n] = Len(s)
        /\ \A i, j \in k .. n : i <= j => ends[i] <= ends[j]
        /\ \A i \in k + 1 .. n :
             /\ ends[i] = ends[i - 1] + Len(Encode(ms[i]))
             /\ \A p \in 1 .. Len(Encode(ms[i])) :
                  s[ends[i - 1] + p] = Encode(ms[i])[p]
    BY DEF FramedBy
  <1> HIDE DEF n, d, t, msm
  <1>4. e \in [k .. n + 1 -> Nat] /\ e[k] = 0 /\ e[n + 1] = Len(t)
    BY <1>1, <1>2, <1>3 DEF n
  <1>5. ASSUME NEW i \in k .. n + 1, NEW j \in k .. n + 1, i <= j
        PROVE  e[i] <= e[j]
    <2>1. CASE j <= n
      BY <1>1, <1>3, <1>5, <2>1
    <2>2. CASE j = n + 1 /\ i <= n
      BY <1>1, <1>3, <1>5, <2>2
    <2>3. CASE j = n + 1 /\ i = n + 1
      BY <1>1, <2>3
    <2> QED BY <1>1, <2>1, <2>2, <2>3
  <1>6. ASSUME NEW i \in k + 1 .. n + 1
        PROVE  /\ e[i] = e[i - 1] + Len(Encode(msm[i]))
               /\ \A p \in 1 .. Len(Encode(msm[i])) :
                    t[e[i - 1] + p] = Encode(msm[i])[p]
    <2>1. CASE i <= n
      <3>1. /\ i \in k + 1 .. n /\ i - 1 \in k .. n /\ i \in 1 .. n
            /\ msm[i] = ms[i] /\ e[i] = ends[i] /\ e[i - 1] = ends[i - 1]
            /\ ends[i - 1] \in Nat /\ ends[i] <= Len(s)
        <4>1. i \in k + 1 .. n /\ i - 1 \in k .. n /\ i \in 1 .. n /\ n \in k .. n
          BY <1>1, <2>1 DEF n
        <4>2. e[i] = ends[i] /\ e[i - 1] = ends[i - 1]
          BY <1>1, <4>1
        <4> QED BY <1>1, <1>3, <4>1, <4>2
      <3>2. Len(Encode(ms[i])) \in Nat
        BY <3>1, EncodeBytes DEF n
      <3>3. /\ ends[i] = ends[i - 1] + Len(Encode(ms[i]))
            /\ \A p \in 1 .. Len(Encode(ms[i])) :
                 s[ends[i - 1] + p] = Encode(ms[i])[p]
        BY <1>3, <3>1
      <3>4. ASSUME NEW p \in 1 .. Len(Encode(ms[i]))
            PROVE  t[ends[i - 1] + p] = Encode(ms[i])[p]
        <4>1. ends[i - 1] + p \in 1 .. Len(s)
          BY <1>1, <3>1, <3>2, <3>3
        <4> QED BY <1>2, <3>3, <4>1
      <3> QED BY <3>1, <3>3, <3>4
    <2>2. CASE i = n + 1
      <3>1. msm[i] = m /\ e[i] = Len(s) + d /\ e[i - 1] = Len(s)
        BY <1>1, <1>3, <2>2
      <3> QED BY <1>2, <3>1 DEF d
    <2>3. i <= n \/ i = n + 1
      BY <1>1
    <2> QED BY <2>1, <2>2, <2>3
  <1>7. FramedBy(t, e, k, msm)
    <2>1. Len(msm) = n + 1
      BY <1>1
    <2> HIDE DEF e
    <2> QED BY <1>4, <1>5, <1>6, <2>1 DEF FramedBy
  <1> QED BY <1>7 DEF t, msm

\* The message that is due is the front of the stream.
LEMMA FramedFront ==
  ASSUME NEW s \in Seq(Byte), NEW ends, NEW k \in Nat, NEW ms \in Seq(Message),
         k < Len(ms), FramedBy(s, ends, k, ms)
  PROVE  /\ ms[k + 1] \in Message
         /\ ends[k + 1] = Len(Encode(ms[k + 1]))
         /\ Len(Encode(ms[k + 1])) <= Len(s)
         /\ \A p \in 1 .. Len(Encode(ms[k + 1])) : s[p] = Encode(ms[k + 1])[p]
  <1>1. /\ Len(ms) \in Nat /\ k + 1 \in k + 1 .. Len(ms)
        /\ k + 1 \in k .. Len(ms) /\ Len(ms) \in k .. Len(ms)
        /\ ms[k + 1] \in Message
    OBVIOUS
  <1>2. Len(Encode(ms[k + 1])) \in Nat
    BY <1>1, EncodeBytes
  <1>3. (k + 1) - 1 = k
    OBVIOUS
  <1>4. /\ ends[k] = 0 /\ ends[Len(ms)] = Len(s)
        /\ ends[k + 1] <= ends[Len(ms)]
    BY <1>1 DEF FramedBy
  <1>5. /\ ends[k + 1] = ends[(k + 1) - 1] + Len(Encode(ms[k + 1]))
        /\ \A p \in 1 .. Len(Encode(ms[k + 1])) :
             s[ends[(k + 1) - 1] + p] = Encode(ms[k + 1])[p]
    <2> HIDE <1>2, <1>3, <1>4
    <2> QED BY <1>1 DEF FramedBy
  <1>6. /\ ends[k + 1] = Len(Encode(ms[k + 1]))
        /\ \A p \in 1 .. Len(Encode(ms[k + 1])) : s[p] = Encode(ms[k + 1])[p]
    <2>1. /\ ends[k + 1] = 0 + Len(Encode(ms[k + 1]))
          /\ \A p \in 1 .. Len(Encode(ms[k + 1])) :
               s[0 + p] = Encode(ms[k + 1])[p]
      BY <1>3, <1>4, <1>5
    <2> QED BY <1>2, <2>1
  <1> QED BY <1>1, <1>4, <1>6

\* The rest of the stream, when it has been handed over.
LEMMA FramedRest ==
  ASSUME NEW s \in Seq(Byte), NEW ends, NEW k \in Nat, NEW ms \in Seq(Message),
         k < Len(ms), FramedBy(s, ends, k, ms),
         NEW r \in Seq(Byte), Len(r) = Len(s) - ends[k + 1],
         \A p \in 1 .. Len(r) : r[p] = s[p + ends[k + 1]]
  PROVE  \E e : FramedBy(r, e, k + 1, ms)
  <1> DEFINE n == Len(ms)
             d == ends[k + 1]
             e == [i \in k + 1 .. n |-> ends[i] - d]
  <1>1. /\ n \in Nat /\ k + 1 \in k .. n /\ n \in k .. n
    OBVIOUS
  <1>2. /\ ends \in [k .. n -> Nat] /\ ends[n] = Len(s) /\ Len(s) \in Nat
        /\ \A i, j \in k .. n : i <= j => ends[i] <= ends[j]
        /\ \A i \in k + 1 .. n :
             /\ ends[i] = ends[i - 1] + Len(Encode(ms[i]))
             /\ \A p \in 1 .. Len(Encode(ms[i])) :
                  s[ends[i - 1] + p] = Encode(ms[i])[p]
    BY DEF FramedBy
  <1>3. d \in Nat /\ d <= Len(s) /\ Len(r) = Len(s) - d
    BY <1>1, <1>2
  <1>4. \A p \in 1 .. Len(r) : r[p] = s[p + d]
    OBVIOUS
  <1> HIDE DEF n, d
  <1>5. \A i \in k + 1 .. n : i \in k .. n /\ ends[i] \in Nat /\ d <= ends[i]
    BY <1>1, <1>2 DEF d
  <1>6. e \in [k + 1 .. n -> Nat] /\ e[k + 1] = 0 /\ e[n] = Len(r)
    <2>1. k + 1 \in k + 1 .. n /\ n \in k + 1 .. n
      BY <1>1
    <2>2. ends[k + 1] = d
      BY DEF d
    <2>3. \A i \in k + 1 .. n : ends[i] - d \in Nat
      BY <1>3, <1>5
    <2>4. e[k + 1] = ends[k + 1] - d /\ e[n] = ends[n] - d
      BY <2>1
    <2>5. e \in [k + 1 .. n -> Nat]
      BY <2>3
    <2> QED BY <1>2, <1>3, <2>2, <2>4, <2>5
  <1>7. ASSUME NEW i \in k + 1 .. n, NEW j \in k + 1 .. n, i <= j
        PROVE  e[i] <= e[j]
    <2>1. /\ e[i] = ends[i] - d /\ e[j] = ends[j] - d
          /\ ends[i] \in Nat /\ ends[j] \in Nat
      BY <1>5
    <2>2. ends[i] <= ends[j]
      BY <1>2, <1>5, <1>7
    <2> HIDE DEF e
    <2> QED BY <1>3, <2>1, <2>2
  <1>8. ASSUME NEW i \in (k + 1) + 1 .. n
        PROVE  /\ e[i] = e[i - 1] + Len(Encode(ms[i]))
               /\ \A p \in 1 .. Len(Encode(ms[i])) :
                    r[e[i - 1] + p] = Encode(ms[i])[p]
    <2>1. /\ i \in k + 1 .. n /\ i - 1 \in k + 1 .. n /\ i \in 1 .. n /\ i \in k .. n
      BY <1>1
    <2>2. /\ e[i] = ends[i] - d /\ e[i - 1] = ends[i - 1] - d
          /\ ends[i] \in Nat /\ ends[i - 1] \in Nat /\ d <= ends[i - 1]
          /\ ends[i] <= Len(s)
      BY <1>1, <1>2, <1>5, <2>1
    <2>3. Len(Encode(ms[i])) \in Nat
      BY <2>1, EncodeBytes DEF n
    <2>4. /\ ends[i] = ends[i - 1] + Len(Encode(ms[i]))
          /\ \A p \in 1 .. Len(Encode(ms[i])) :
               s[ends[i - 1] + p] = Encode(ms[i])[p]
      BY <1>2, <2>1
    <2>5. e[i] = e[i - 1] + Len(Encode(ms[i]))
      BY <1>3, <2>2, <2>3, <2>4
    <2>6. ASSUME NEW p \in 1 .. Len(Encode(ms[i]))
          PROVE  r[e[i - 1] + p] = Encode(ms[i])[p]
      <3>1. /\ e[i - 1] + p \in 1 .. Len(r)
            /\ (e[i - 1] + p) + d = ends[i - 1] + p
        <4> DEFINE x == e[i - 1]  y == ends[i - 1]  l == Len(Encode(ms[i]))
        <4>1. /\ x = y - d /\ y \in Nat /\ d <= y /\ l \in Nat
              /\ y + l <= Len(s) /\ p \in 1 .. l /\ Len(s) \in Nat
          BY <1>2, <2>2, <2>3, <2>4
        <4> HIDE DEF e, x, y, l
        <4>2. x + p \in 1 .. Len(r) /\ (x + p) + d = y + p
          BY <1>3, <4>1
        <4> QED BY <4>2 DEF x, y
      <3> QED BY <1>4, <2>4, <3>1
    <2> QED BY <2>5, <2>6
  <1>9. FramedBy(r, e, k + 1, ms)
    <2> HIDE DEF e
    <2> QED BY <1>6, <1>7, <1>8 DEF FramedBy, n
  <1> QED BY <1>9

-----------------------------------------------------------------------------
\* The bytes on their way are those of the buffer, then those of the wire.
LEMMA StreamBytes ==
  ASSUME TypeOK
  PROVE  /\ Stream \in Seq(Byte) /\ Len(Stream) = Len(buffer) + Len(wire)
         /\ Len(buffer) \in Nat /\ Len(wire) \in Nat
         /\ \A p \in 1 .. Len(buffer) : Stream[p] = buffer[p]
         /\ \A p \in 1 .. Len(wire) : Stream[Len(buffer) + p] = wire[p]
  <1>1. buffer \in Seq(Byte) /\ wire \in Seq(Byte)
    BY DEF TypeOK
  <1>2. Len(buffer) \in Nat /\ Len(wire) \in Nat
    BY <1>1
  <1>3. /\ Stream \in Seq(Byte) /\ Len(Stream) = Len(buffer) + Len(wire)
        /\ \A p \in 1 .. Len(buffer) + Len(wire) :
             Stream[p] = IF p <= Len(buffer) THEN buffer[p]
                         ELSE wire[p - Len(buffer)]
    BY <1>1, ConcatProperties DEF Stream
  <1>4. ASSUME NEW p \in 1 .. Len(buffer) PROVE Stream[p] = buffer[p]
    BY <1>2, <1>3
  <1>5. ASSUME NEW p \in 1 .. Len(wire) PROVE Stream[Len(buffer) + p] = wire[p]
    BY <1>2, <1>3
  <1> QED BY <1>2, <1>3, <1>4, <1>5

\* With nothing to hand over, nothing is on its way.
LEMMA AllHandedOver ==
  ASSUME TypeOK, Aligned, Len(got) = Len(sent)
  PROVE  Len(Stream) = 0
  BY DEF Aligned, FramedBy

\* As soon as there is a header it is that of the message that is due.
LEMMA DueMessage ==
  ASSUME TypeOK, NoneWraps, Aligned, Len(got) < Len(sent),
         NEW m, m = sent[Len(got) + 1]
  PROVE  /\ m \in Message /\ Len(m.data) < Words
         /\ 5 + Len(m.data) <= Len(Stream)
         /\ HeaderThere =>
              /\ HeaderGood
              /\ BodyLength(buffer) \in Int
              /\ Fits(m) => BodyLength(buffer) = 1 + Len(m.data)
              /\ ~Fits(m) => BodyLength(buffer) <= 0
         /\ Len(buffer) >= 5 => buffer[5] = m.command
         /\ \A p \in 1 .. Len(m.data) :
              5 + p <= Len(buffer) => buffer[5 + p] = m.data[p]
  <1> DEFINE n == Len(m.data)
  <1>1. /\ Len(got) \in Nat /\ sent \in Seq(Message) /\ Len(got) < Len(sent)
        /\ Len(got) + 1 \in 1 .. Len(sent)
    BY DEF TypeOK
  <1>2. PICK ends : FramedBy(Stream, ends, Len(got), sent)
    BY DEF Aligned
  <1>3. Stream \in Seq(Byte) /\ Len(Stream) \in Nat
    BY StreamBytes
  <1>4. /\ m \in Message /\ Len(Encode(m)) <= Len(Stream)
        /\ \A p \in 1 .. Len(Encode(m)) : Stream[p] = Encode(m)[p]
    BY <1>1, <1>2, <1>3, FramedFront
  <1>5. n < Words
    BY <1>1 DEF NoneWraps
  <1>6. /\ n \in Nat /\ Len(Encode(m)) = 5 + n /\ Words \in Nat
        /\ Words \div 2 \in Nat
    BY <1>4, EncodeBytes, WordsNat
  <1>7. ASSUME NEW p \in 1 .. 5 + n, p <= Len(buffer)
        PROVE  buffer[p] = Encode(m)[p]
    <2>1. p \in 1 .. Len(buffer)
      BY <1>6, <1>7, StreamBytes
    <2> QED BY <1>4, <1>6, <2>1, StreamBytes
  <1>8. ASSUME HeaderThere
        PROVE  /\ HeaderGood
               /\ BodyLength(buffer) \in Int
               /\ Fits(m) => BodyLength(buffer) = 1 + n
               /\ ~Fits(m) => BodyLength(buffer) <= 0
    <2>1. /\ buffer[1] = Encode(m)[1] /\ buffer[2] = Encode(m)[2]
          /\ buffer[3] = Encode(m)[3] /\ buffer[4] = Encode(m)[4]
      <3>1. \A p \in 1 .. 4 : p \in 1 .. 5 + n /\ p <= Len(buffer)
        BY <1>6, <1>8, StreamBytes DEF HeaderThere
      <3>2. \A p \in 1 .. 4 : buffer[p] = Encode(m)[p]
        BY <1>7, <3>1
      <3> QED BY <3>2
    <2>2. /\ buffer[1] = HEADER1 /\ buffer[2] = HEADER2
          /\ buffer[3] = ((1 + n) % Words) \div Base
          /\ buffer[4] = ((1 + n) % Words) % Base
      BY <1>4, <2>1, EncodeBytes
    <2>3. 1 + n \in Nat /\ 1 <= 1 + n /\ 1 + n <= Words
      BY <1>5, <1>6
    <2> HIDE DEF n
    <2>4. /\ 1 + n < Words \div 2 => BodyLength(buffer) = 1 + n
          /\ ~(1 + n < Words \div 2) => BodyLength(buffer) <= 0
          /\ BodyLength(buffer) \in Int
      BY <2>2, <2>3, LengthField DEF BodyLength
    <2> QED BY <1>8, <2>2, <2>4 DEF HeaderGood, Fits, n
  <1>9. Len(buffer) >= 5 => buffer[5] = m.command
    <2>1. 5 \in 1 .. 5 + n
      BY <1>6
    <2> QED BY <1>4, <1>7, <2>1, EncodeBytes
  <1>10. ASSUME NEW p \in 1 .. n, 5 + p <= Len(buffer)
         PROVE  buffer[5 + p] = m.data[p]
    <2>1. 5 + p \in 1 .. 5 + n
      BY <1>6
    <2> QED BY <1>4, <1>7, <1>10, <2>1, EncodeBytes
  <1>11. m \in Message /\ n < Words /\ 5 + n <= Len(Stream)
    BY <1>3, <1>4, <1>5, <1>6
  <1> QED BY <1>8, <1>9, <1>10, <1>11

LEMMA AllFitNoneWraps ==
  ASSUME TypeOK, AllFit
  PROVE  NoneWraps
  <1>1. ASSUME NEW i \in 1 .. Len(sent) PROVE Len(sent[i].data) < Words
    <2>1. sent[i] \in Message
      BY DEF TypeOK
    <2>2. Len(sent[i].data) \in Nat
      BY <2>1, EncodeBytes
    <2> QED BY <2>2, WordsNat DEF AllFit, Fits
  <1> QED BY <1>1 DEF NoneWraps

\* The bytes that are left when the first d of the buffer have been taken.
LEMMA DropBytes ==
  ASSUME NEW b \in Seq(Byte), NEW d \in 0 .. Len(b)
  PROVE  LET r == SubSeq(b, d + 1, Len(b))
         IN  /\ r \in Seq(Byte) /\ Len(r) = Len(b) - d
             /\ \A p \in 1 .. Len(r) : r[p] = b[p + d]
  <1> DEFINE r == SubSeq(b, d + 1, Len(b))
  <1>1. Len(b) \in Nat /\ d \in Nat /\ d <= Len(b)
    OBVIOUS
  <1>2. \A i \in d + 1 .. Len(b) : b[i] \in Byte
    BY <1>1
  <1>3. /\ r \in Seq(Byte)
        /\ Len(r) = IF d + 1 <= Len(b) THEN Len(b) - (d + 1) + 1 ELSE 0
        /\ \A i \in 1 .. Len(b) - (d + 1) + 1 : r[i] = b[(d + 1) + i - 1]
    BY <1>1, <1>2, SubSeqProperties
  <1> HIDE DEF r
  <1>4. Len(r) = Len(b) - d
    BY <1>1, <1>3
  <1>5. ASSUME NEW p \in 1 .. Len(r) PROVE r[p] = b[p + d]
    <2>1. p \in 1 .. Len(b) - (d + 1) + 1 /\ (d + 1) + p - 1 = p + d
      BY <1>1, <1>4
    <2> QED BY <1>3, <2>1
  <1> QED BY <1>3, <1>4, <1>5 DEF r

LEMMA DropStream ==
  ASSUME NEW b \in Seq(Byte), NEW w \in Seq(Byte), NEW d \in 0 .. Len(b)
  PROVE  LET r == SubSeq(b, d + 1, Len(b)) \o w
         IN  /\ r \in Seq(Byte) /\ Len(r) = Len(b \o w) - d
             /\ \A p \in 1 .. Len(r) : r[p] = (b \o w)[p + d]
  <1> DEFINE c == SubSeq(b, d + 1, Len(b))
             r == c \o w
             s == b \o w
  <1>1. /\ c \in Seq(Byte) /\ Len(c) = Len(b) - d
        /\ \A p \in 1 .. Len(c) : c[p] = b[p + d]
    BY DropBytes
  <1> HIDE DEF c
  <1>2. /\ r \in Seq(Byte) /\ Len(r) = Len(c) + Len(w)
        /\ \A p \in 1 .. Len(c) + Len(w) :
             r[p] = IF p <= Len(c) THEN c[p] ELSE w[p - Len(c)]
    BY <1>1, ConcatProperties
  <1>3. /\ Len(s) = Len(b) + Len(w)
        /\ \A p \in 1 .. Len(b) + Len(w) :
             s[p] = IF p <= Len(b) THEN b[p] ELSE w[p - Len(b)]
    BY ConcatProperties
  <1> HIDE DEF r, s
  <1>4. Len(b) \in Nat /\ Len(w) \in Nat /\ d \in Nat /\ d <= Len(b)
    OBVIOUS
  <1>5. ASSUME NEW p \in 1 .. Len(r) PROVE r[p] = s[p + d]
    <2>1. p \in 1 .. Len(c) + Len(w) /\ p + d \in 1 .. Len(b) + Len(w)
      BY <1>1, <1>2, <1>4
    <2>2. CASE p <= Len(c)
      <3>1. p \in 1 .. Len(c) /\ p + d <= Len(b)
        BY <1>1, <1>4, <2>1, <2>2
      <3>2. r[p] = c[p] /\ c[p] = b[p + d]
        BY <1>1, <1>2, <2>1, <3>1
      <3> QED BY <1>3, <2>1, <3>1, <3>2
    <2>3. CASE ~(p <= Len(c))
      <3>1. ~(p + d <= Len(b)) /\ (p + d) - Len(b) = p - Len(c)
        BY <1>1, <1>4, <2>1, <2>3
      <3>2. r[p] = w[p - Len(c)]
        BY <1>2, <2>1, <2>3
      <3> QED BY <1>3, <2>1, <3>1, <3>2
    <2> QED BY <2>2, <2>3
  <1> QED BY <1>1, <1>2, <1>3, <1>4, <1>5 DEF c, r, s

-----------------------------------------------------------------------------
LEMMA CodecInitInv == Init => IInv
  <1> SUFFICES ASSUME Init PROVE IInv
    OBVIOUS
  <1>1. TypeOK
    BY EmptySeq DEF Init, TypeOK
  <1>2. Stream = <<>>
    BY DEF Init, Stream
  <1>3. Len(sent) = 0 /\ Len(got) = 0
    BY DEF Init
  <1>4. Aligned
    <2>1. \E ends : FramedBy(<<>>, ends, 0, sent)
      BY <1>3, FramedNothing
    <2> QED BY <1>2, <1>3, <2>1 DEF Aligned
  <1>5. NothingWaits
    BY DEF Init, NothingWaits, BodyThere, HeaderGood, HeaderThere
  <1> QED BY <1>1, <1>4, <1>5 DEF Init, IInv

\* A message that is written follows what is on the wire.
LEMMA WriteStep ==
  ASSUME IInv, NEW m \in Message, Write(m)
  PROVE  IInv'
  <1>1. TypeOK /\ Encode(m) \in Seq(Byte)
    BY EncodeBytes DEF IInv
  <1>2. /\ sent' = Append(sent, m) /\ wire' = wire \o Encode(m)
        /\ buffer' = buffer /\ decoding' = decoding /\ got' = got /\ open' = open
        /\ open
    BY DEF Write
  <1>3. /\ sent \in Seq(Message) /\ Len(sent) \in Nat /\ Len(got) \in Nat
        /\ sent' \in Seq(Message) /\ Len(sent') = Len(sent) + 1
        /\ \A i \in 1 .. Len(sent) : sent'[i] = sent[i]
    BY <1>1, <1>2 DEF TypeOK
  <1>4. TypeOK'
    <2>1. wire' \in Seq(Byte)
      BY <1>1, <1>2 DEF TypeOK
    <2> QED BY <1>1, <1>2, <1>3, <2>1 DEF TypeOK
  <1>5. NoneWraps' => NoneWraps
    BY <1>3 DEF NoneWraps
  <1>6. AllFit' => AllFit
    BY <1>3 DEF AllFit
  <1>7. ASSUME Aligned PROVE Aligned'
    <2>1. PICK ends : FramedBy(Stream, ends, Len(got), sent)
      BY <1>7 DEF Aligned
    <2>2. Stream \in Seq(Byte)
      BY <1>1, StreamBytes
    <2>3. \E e : FramedBy(Stream \o Encode(m), e, Len(got), Append(sent, m))
      BY <1>3, <1>7, <2>1, <2>2, FramedWrite DEF Aligned
    <2>4. Stream' = Stream \o Encode(m)
      BY <1>1, <1>2, ConcatAssociative DEF Stream, TypeOK
    <2>5. /\ Len(got') <= Len(sent')
          /\ \A i \in 1 .. Len(got') : got'[i] = sent'[i]
      BY <1>2, <1>3, <1>7 DEF Aligned
    <2>6. \E e : FramedBy(Stream', e, Len(got'), sent')
      BY <1>2, <2>3, <2>4
    <2> QED BY <2>5, <2>6 DEF Aligned
  <1>8. NothingWaits'
    BY <1>2, <1>6
    DEF IInv, NothingWaits, BodyThere, HeaderGood, HeaderThere, BodyLength
  <1> QED BY <1>2, <1>4, <1>5, <1>6, <1>7, <1>8 DEF IInv

\* Reading moves bytes from the wire to the buffer: the stream is the same.
LEMMA ReadStep ==
  ASSUME IInv, Read
  PROVE  IInv'
  <1>1. TypeOK
    BY DEF IInv
  <1>2. PICK n \in 1 .. Len(wire) :
          /\ wire' = SubSeq(wire, n + 1, Len(wire))
          /\ buffer' = buffer \o SubSeq(wire, 1, n)
    BY DEF Read
  <1>3. /\ sent' = sent /\ got' = got /\ open' = open /\ decoding' = TRUE /\ open
    BY DEF Read
  <1> DEFINE a == SubSeq(wire, 1, n)
             z == SubSeq(wire, n + 1, Len(wire))
  <1>4. /\ wire \in Seq(Byte) /\ buffer \in Seq(Byte) /\ Len(wire) \in Nat
        /\ Len(buffer) \in Nat
    BY <1>1 DEF TypeOK
  <1>5. /\ a \in Seq(Byte) /\ Len(a) = n
        /\ z \in Seq(Byte)
    <2>1. \A i \in 1 .. n : wire[i] \in Byte
      BY <1>4
    <2>2. \A i \in n + 1 .. Len(wire) : wire[i] \in Byte
      BY <1>4
    <2> QED BY <1>4, <2>1, <2>2, SubSeqProperties
  <1>6. a \o z = wire
    BY <1>4, ConcatAdjacentSubSeq, SubSeqFull
  <1> HIDE DEF a, z
  <1>7. Stream' = Stream
    <2>1. Stream' = (buffer \o a) \o z
      BY <1>2 DEF Stream, a, z
    <2>2. (buffer \o a) \o z = buffer \o (a \o z)
      BY <1>4, <1>5, ConcatAssociative
    <2> QED BY <1>6, <2>1, <2>2 DEF Stream
  <1>8. buffer' \in Seq(Byte) /\ wire' \in Seq(Byte) /\ buffer' # <<>>
    <2>1. /\ buffer \o a \in Seq(Byte)
          /\ Len(buffer \o a) = Len(buffer) + Len(a)
      BY <1>4, <1>5, ConcatProperties
    <2>2. Len(buffer \o a) > 0
      BY <1>4, <1>5, <2>1
    <2>3. buffer \o a # <<>>
      BY <2>2
    <2> QED BY <1>2, <1>5, <2>1, <2>3 DEF a, z
  <1>9. TypeOK'
    BY <1>1, <1>3, <1>8 DEF TypeOK
  <1>10. Aligned => Aligned'
    BY <1>3, <1>7 DEF Aligned
  <1> QED
    BY <1>3, <1>8, <1>9, <1>10
    DEF IInv, NoneWraps, AllFit, NothingWaits

\* With NoneWraps, four bytes in the buffer are the header of a message.
LEMMA HeadersAreGood ==
  ASSUME IInv, NoneWraps, HeaderThere
  PROVE  Len(got) < Len(sent) /\ HeaderGood
  <1>1. TypeOK /\ Aligned
    BY DEF IInv
  <1>2. Len(got) \in Nat /\ Len(sent) \in Nat /\ Len(got) <= Len(sent)
    BY <1>1 DEF TypeOK, Aligned
  <1>3. Len(Stream) > 0
    BY <1>1, StreamBytes DEF HeaderThere
  <1>4. Len(got) < Len(sent)
    BY <1>1, <1>2, <1>3, AllHandedOver
  <1> QED BY <1>1, <1>4, DueMessage

\* What depends on the bytes and the messages alone.
LEMMA SameBytes ==
  ASSUME UNCHANGED <<sent, wire, buffer, got>>
  PROVE  /\ Aligned => Aligned'
         /\ NoneWraps' <=> NoneWraps
         /\ AllFit' <=> AllFit
         /\ BodyThere' <=> BodyThere
  <1>1. Stream' = Stream
    BY DEF Stream
  <1>2. Aligned => Aligned'
    BY <1>1 DEF Aligned
  <1>3. BodyThere' <=> BodyThere
    BY DEF BodyThere, HeaderGood, HeaderThere, BodyLength
  <1>4. (NoneWraps' <=> NoneWraps) /\ (AllFit' <=> AllFit)
    BY DEF NoneWraps, AllFit
  <1> QED BY <1>2, <1>3, <1>4

LEMMA NeedsMoreStep ==
  ASSUME IInv, NeedsMore
  PROVE  IInv'
  <1>1. /\ UNCHANGED <<sent, wire, buffer, got>> /\ open' = open
        /\ decoding' = FALSE /\ ~BodyThere
    BY DEF NeedsMore, BodyThere, HeaderGood
  <1>2. TypeOK'
    BY <1>1 DEF IInv, TypeOK
  <1> QED BY <1>1, <1>2, SameBytes DEF IInv, NothingWaits

\* Only a stream that has lost its alignment has a bad header.
LEMMA SkipsBadHeaderStep ==
  ASSUME IInv, SkipsBadHeader
  PROVE  IInv'
  <1>1. TypeOK /\ open
    BY DEF IInv, SkipsBadHeader
  <1>2. /\ UNCHANGED <<sent, wire, got, open>> /\ decoding' = FALSE
        /\ HeaderThere /\ ~HeaderGood
        /\ buffer' = SubSeq(buffer, 4 + 1, Len(buffer))
    BY DEF SkipsBadHeader, Drops
  <1>3. ~NoneWraps
    BY <1>2, HeadersAreGood
  <1>4. ~AllFit
    BY <1>1, <1>3, AllFitNoneWraps
  <1>5. ~NoneWraps' /\ ~AllFit'
    BY <1>2, <1>3, <1>4 DEF NoneWraps, AllFit
  <1>6. buffer' \in Seq(Byte)
    <2>1. buffer \in Seq(Byte) /\ 4 \in 0 .. Len(buffer)
      BY <1>1, <1>2 DEF TypeOK, HeaderThere
    <2> QED BY <1>2, <2>1, DropBytes
  <1>7. TypeOK'
    BY <1>1, <1>2, <1>6 DEF TypeOK
  <1> QED BY <1>1, <1>2, <1>5, <1>7 DEF IInv, NothingWaits

\* A body of a message that fits is at least a command, so the decoder does not
\* fail.
LEMMA FailsStep ==
  ASSUME IInv, Fails
  PROVE  IInv'
  <1>1. TypeOK
    BY DEF IInv
  <1>2. /\ UNCHANGED <<sent, wire, buffer, got>> /\ decoding' = FALSE
        /\ open' = FALSE
    BY DEF Fails
  <1>3. TypeOK' /\ (Aligned => Aligned') /\ (NoneWraps' => NoneWraps)
    BY <1>1, <1>2, SameBytes DEF TypeOK
  <1>4. ~AllFit
    <2> SUFFICES ASSUME AllFit PROVE FALSE
      OBVIOUS
    <2>1. NoneWraps /\ Aligned
      BY <1>1, AllFitNoneWraps DEF IInv
    <2>2. HeaderThere /\ BodyThere
      BY DEF Fails, BodyThere, HeaderGood
    <2>3. Len(got) < Len(sent)
      BY <2>1, <2>2, HeadersAreGood
    <2> DEFINE m == sent[Len(got) + 1]
    <2>4. Fits(m)
      BY <1>1, <2>3 DEF AllFit, TypeOK
    <2>5. m \in Message /\ BodyLength(buffer) = 1 + Len(m.data)
      BY <1>1, <2>1, <2>2, <2>3, <2>4, DueMessage
    <2>6. Len(m.data) \in Nat /\ Len(buffer) \in Nat
      BY <1>1, <2>5, EncodeBytes, StreamBytes
    <2> DEFINE size == BodyLength(buffer)
               n == Len(m.data)
    <2>7. size <= Len(buffer) - 4 /\ (Len(buffer) = 4 \/ size < 1)
      BY <2>2 DEF Fails, BodyThere
    <2>8. size = 1 + n /\ n \in Nat
      BY <2>5, <2>6
    <2> HIDE DEF size, n
    <2> QED BY <2>6, <2>7, <2>8
  <1>5. ~AllFit'
    BY <1>2, <1>4 DEF AllFit
  <1> QED BY <1>2, <1>3, <1>5 DEF IInv, NothingWaits

\* What is handed over is the message that was due, and the next one comes to
\* the front.
LEMMA DecodesAligned ==
  ASSUME IInv, NoneWraps, Decodes
  PROVE  Aligned'
  <1> DEFINE m == sent[Len(got) + 1]
             n == Len(m.data)
  <1>1. TypeOK /\ Aligned
    BY DEF IInv
  <1>2. HeaderThere /\ BodyThere /\ Len(buffer) > 4
    BY DEF Decodes, BodyThere, HeaderGood
  <1>3. Len(got) < Len(sent)
    BY <1>2, HeadersAreGood
  <1>4. /\ m \in Message /\ n < Words
        /\ 5 + n <= Len(Stream)
        /\ BodyLength(buffer) \in Int
        /\ Fits(m) => BodyLength(buffer) = 1 + n
        /\ ~Fits(m) => BodyLength(buffer) <= 0
        /\ Len(buffer) >= 5 => buffer[5] = m.command
        /\ \A p \in 1 .. n : 5 + p <= Len(buffer) => buffer[5 + p] = m.data[p]
    BY <1>1, <1>2, <1>3, DueMessage
  <1>5. /\ n \in Nat /\ Len(buffer) \in Nat /\ Len(buffer) >= 5
        /\ buffer[5] = m.command
        /\ m = [command |-> m.command, data |-> m.data]
        /\ m.data \in Seq(Byte) /\ m.command # HEART_BEAT
        /\ m.command = REQUEST_CALL => n = 0
    <2>1. Len(buffer) \in Nat /\ Len(buffer) >= 5
      BY <1>1, <1>2, StreamBytes
    <2> QED BY <1>4, <2>1, EncodeBytes
  <1>6. HasNoData(m.command) => n = 0
    BY <1>5 DEF HasNoData
  <1>7. Fits(m)
    <2>1. n = 0 => Fits(m)
      BY WordsNat DEF Fits
    <2>2. ~Fits(m) => ~(BodyLength(buffer) >= 1)
      BY <1>4
    <2>3. HasNoData(m.command) \/ BodyLength(buffer) >= 1
      BY <1>5 DEF Decodes
    <2> QED BY <1>6, <2>1, <2>2, <2>3
  <1>8. BodyLength(buffer) = 1 + n /\ 5 + n <= Len(buffer)
    BY <1>2, <1>4, <1>5, <1>7 DEF BodyThere
  <1>9. (IF HasNoData(buffer[5]) THEN 1 ELSE BodyLength(buffer)) = 1 + n
    BY <1>5, <1>6, <1>8
  <1> HIDE DEF n
  <1>10. SubSeq(buffer, 6, 5 + n) = m.data
    <2>1. \A i \in 6 .. 5 + n : buffer[i] \in Byte
      BY <1>1, <1>5, <1>8 DEF TypeOK
    <2> DEFINE t == SubSeq(buffer, 6, 5 + n)
    <2>2. /\ t \in Seq(Byte)
          /\ Len(t) = IF 6 <= 5 + n THEN (5 + n) - 6 + 1 ELSE 0
          /\ \A i \in 1 .. (5 + n) - 6 + 1 : t[i] = buffer[6 + i - 1]
      BY <1>5, <2>1, SubSeqProperties
    <2> HIDE DEF t
    <2>3. Len(t) = n
      BY <1>5, <2>2
    <2>4. ASSUME NEW i \in 1 .. n PROVE t[i] = m.data[i]
      <3>1. /\ i \in 1 .. (5 + n) - 6 + 1 /\ 6 + i - 1 = 5 + i
            /\ 5 + i <= Len(buffer)
        BY <1>5, <1>8
      <3>2. t[i] = buffer[5 + i]
        BY <2>2, <3>1
      <3> QED BY <1>4, <3>1, <3>2
    <2>5. t = m.data
      BY <1>5, <2>2, <2>3, <2>4, SeqEqual DEF n
    <2> QED BY <2>5 DEF t
  <1>11. /\ got' = Append(got, m)
         /\ buffer' = SubSeq(buffer, (5 + n) + 1, Len(buffer))
         /\ sent' = sent /\ wire' = wire
    <2>1. 4 + (1 + n) = 5 + n
      BY <1>5
    <2>2. HandsOver /\ sent' = sent /\ wire' = wire
      BY DEF Decodes
    <2>3. /\ got' = IF buffer[5] = HEART_BEAT THEN got
                    ELSE Append(got, [command |-> buffer[5],
                                      data |-> SubSeq(buffer, 6, 4 + (1 + n))])
          /\ buffer' = SubSeq(buffer, 4 + (1 + n) + 1, Len(buffer))
      BY <1>9, <2>2 DEF HandsOver, Drops
    <2> QED BY <1>5, <1>10, <2>1, <2>2, <2>3
  <1>12. \E e : FramedBy(Stream', e, Len(got) + 1, sent)
    <2>1. PICK ends : FramedBy(Stream, ends, Len(got), sent)
      BY <1>1 DEF Aligned
    <2>2. /\ Len(got) \in Nat /\ sent \in Seq(Message)
          /\ buffer \in Seq(Byte) /\ wire \in Seq(Byte) /\ Stream \in Seq(Byte)
      BY <1>1, StreamBytes DEF TypeOK
    <2>3. ends[Len(got) + 1] = 5 + n
      <3>1. ends[Len(got) + 1] = Len(Encode(m))
        BY <1>3, <2>1, <2>2, FramedFront
      <3> QED BY <1>4, <3>1, EncodeBytes DEF n
    <2>4. Stream' = SubSeq(buffer, (5 + n) + 1, Len(buffer)) \o wire
      BY <1>11 DEF Stream
    <2>5. 5 + n \in 0 .. Len(buffer)
      BY <1>5, <1>8
    <2>6. /\ Stream' \in Seq(Byte) /\ Len(Stream') = Len(Stream) - (5 + n)
          /\ \A p \in 1 .. Len(Stream') : Stream'[p] = Stream[p + (5 + n)]
      <3> DEFINE d == 5 + n
      <3> HIDE DEF d
      <3>1. /\ SubSeq(buffer, d + 1, Len(buffer)) \o wire \in Seq(Byte)
            /\ Len(SubSeq(buffer, d + 1, Len(buffer)) \o wire)
                 = Len(buffer \o wire) - d
            /\ \A p \in 1 .. Len(SubSeq(buffer, d + 1, Len(buffer)) \o wire) :
                 (SubSeq(buffer, d + 1, Len(buffer)) \o wire)[p]
                   = (buffer \o wire)[p + d]
        BY <2>2, <2>5, DropStream DEF d
      <3> QED BY <2>4, <3>1 DEF Stream, d
    <2> DEFINE r == Stream'
    <2>7. /\ r \in Seq(Byte) /\ Len(r) = Len(Stream) - ends[Len(got) + 1]
          /\ \A p \in 1 .. Len(r) : r[p] = Stream[p + ends[Len(got) + 1]]
      BY <2>3, <2>6
    <2> HIDE DEF r
    <2>8. \E e : FramedBy(r, e, Len(got) + 1, sent)
      BY <1>3, <2>1, <2>2, <2>7, FramedRest
    <2> QED BY <2>8 DEF r
  <1>13. /\ Len(got') = Len(got) + 1 /\ Len(got') <= Len(sent)
         /\ \A i \in 1 .. Len(got') : got'[i] = sent[i]
    <2>1. /\ got \in Seq([command : Byte, data : Seq(Byte)])
          /\ Len(sent) \in Nat /\ Len(got) \in Nat
          /\ \A i \in 1 .. Len(got) : got[i] = sent[i]
      BY <1>1 DEF TypeOK, Aligned
    <2> HIDE DEF m
    <2>2. /\ Len(got') = Len(got) + 1 /\ got'[Len(got) + 1] = m
          /\ \A i \in 1 .. Len(got) : got'[i] = got[i]
      BY <1>11, <2>1
    <2>3. ASSUME NEW i \in 1 .. Len(got') PROVE got'[i] = sent[i]
      <3>1. i \in 1 .. Len(got) \/ i = Len(got) + 1
        BY <2>1, <2>2
      <3> QED BY <2>1, <2>2, <3>1 DEF m
    <2> QED BY <1>3, <2>1, <2>2, <2>3
  <1> QED BY <1>11, <1>12, <1>13 DEF Aligned

\* What doDecode takes out of the buffer is there: the header, the command, and
\* as much data as the length tells.
LEMMA DecodedSize ==
  ASSUME TypeOK, Decodes,
         NEW size, size = IF HasNoData(buffer[5]) THEN 1 ELSE BodyLength(buffer)
  PROVE  size \in Nat /\ size >= 1 /\ 4 + size <= Len(buffer)
  <1>1. BodyThere /\ Len(buffer) > 4
    BY DEF Decodes
  <1>2. buffer \in Seq(Byte) /\ Len(buffer) \in Nat
    BY DEF TypeOK
  <1>3. BodyLength(buffer) \in Int
    <2>1. buffer[3] \in Int /\ buffer[4] \in Int /\ Base \in Nat
      BY <1>1, <1>2, WordsNat DEF Byte
    <2> DEFINE w == buffer[3] * Base + buffer[4]
    <2>2. w \in Int
      BY <2>1
    <2> HIDE DEF w
    <2>3. ToShort(w) \in Int
      <3>1. Words \in Nat /\ Words > 0
        BY WordsNat
      <3>2. w % Words \in Int
        BY <2>2, <3>1
      <3> QED BY <3>1, <3>2 DEF ToShort
    <2> QED BY <2>3 DEF BodyLength, w
  <1>4. CASE HasNoData(buffer[5])
    BY <1>1, <1>2, <1>4
  <1>5. CASE ~HasNoData(buffer[5])
    <2>1. BodyLength(buffer) >= 1 /\ Len(buffer) - 4 >= BodyLength(buffer)
      BY <1>5 DEF Decodes, BodyThere
    <2> QED BY <1>2, <1>3, <1>5, <2>1
  <1> QED BY <1>4, <1>5

LEMMA DecodesStep ==
  ASSUME IInv, Decodes
  PROVE  IInv'
  <1> DEFINE size == IF HasNoData(buffer[5]) THEN 1 ELSE BodyLength(buffer)
  <1>1. TypeOK /\ decoding /\ open
    BY DEF IInv, Decodes
  <1>2. /\ sent' = sent /\ wire' = wire /\ open' = open
        /\ decoding' = (buffer' # <<>>)
        /\ BodyThere /\ Len(buffer) > 4 /\ HandsOver
    BY DEF Decodes
  <1>3. buffer \in Seq(Byte) /\ Len(buffer) \in Nat
    BY <1>1 DEF TypeOK
  <1>5. size \in Nat /\ size >= 1 /\ 4 + size <= Len(buffer)
    BY <1>1, DecodedSize
  <1> HIDE DEF size
  <1>6. /\ got' = IF buffer[5] = HEART_BEAT THEN got
                  ELSE Append(got, [command |-> buffer[5],
                                    data |-> SubSeq(buffer, 6, 4 + size)])
        /\ buffer' = SubSeq(buffer, (4 + size) + 1, Len(buffer))
    BY <1>2 DEF HandsOver, Drops, size
  <1>7. buffer' \in Seq(Byte)
    <2>1. 4 + size \in 0 .. Len(buffer)
      BY <1>3, <1>5
    <2> DEFINE d == 4 + size
    <2> HIDE DEF d
    <2>2. SubSeq(buffer, d + 1, Len(buffer)) \in Seq(Byte)
      BY <1>3, <2>1, DropBytes DEF d
    <2> QED BY <1>6, <2>2 DEF d
  <1>8. got' \in Seq([command : Byte, data : Seq(Byte)])
    <2>1. buffer[5] \in Byte
      BY <1>2, <1>3
    <2>2. SubSeq(buffer, 6, 4 + size) \in Seq(Byte)
      <3>1. \A i \in 6 .. 4 + size : buffer[i] \in Byte
        BY <1>3, <1>5
      <3> QED BY <1>5, <3>1, SubSeqProperties
    <2> DEFINE G == [command : Byte, data : Seq(Byte)]
               g == [command |-> buffer[5], data |-> SubSeq(buffer, 6, 4 + size)]
    <2>3. g \in G /\ got \in Seq(G)
      BY <1>1, <2>1, <2>2 DEF TypeOK
    <2>4. got' = got \/ got' = Append(got, g)
      BY <1>6
    <2> HIDE DEF G, g
    <2>5. got' \in Seq(G)
      BY <2>3, <2>4
    <2> QED BY <2>5 DEF G
  <1>9. TypeOK'
    BY <1>1, <1>2, <1>7, <1>8 DEF TypeOK
  <1>10. NoneWraps' => Aligned'
    BY <1>2, DecodesAligned DEF NoneWraps
  <1>11. (AllFit => open) /\ (AllFit' <=> AllFit)
    BY <1>2 DEF IInv, AllFit
  <1>12. NothingWaits'
    <2>1. ~decoding' => buffer' = <<>>
      BY <1>2
    <2>2. buffer' = <<>> => ~HeaderThere'
      BY DEF HeaderThere
    <2> QED BY <2>1, <2>2 DEF NothingWaits, BodyThere, HeaderGood
  <1> QED BY <1>1, <1>2, <1>9, <1>10, <1>11, <1>12 DEF IInv

LEMMA CodecNextInv == IInv /\ [Next]_vars => IInv'
  <1> SUFFICES ASSUME IInv, [Next]_vars PROVE IInv'
    OBVIOUS
  <1>1. CASE UNCHANGED vars
    <2>1. /\ UNCHANGED <<sent, wire, buffer, got>>
          /\ open' = open /\ decoding' = decoding
      BY <1>1 DEF vars
    <2>2. TypeOK'
      BY <2>1 DEF IInv, TypeOK
    <2> QED BY <2>1, <2>2, SameBytes DEF IInv, NothingWaits
  <1> QED
    BY <1>1, WriteStep, ReadStep, NeedsMoreStep, SkipsBadHeaderStep, FailsStep,
       DecodesStep DEF Next, DoDecode

LEMMA CodecInductive == Spec => []IInv
  BY CodecInitInv, CodecNextInv, PTL DEF Spec

-----------------------------------------------------------------------------
\* Every reachable state has the types of TypeOK: what doDecode takes for bytes
\* of a body are always there.
THEOREM CodecTypeCorrect == Spec => []TypeOK
  <1>1. IInv => TypeOK
    BY DEF IInv
  <1> QED BY <1>1, CodecInductive, PTL

\* What messageReceived is given is what BaseEncoder was given, whole and in
\* order, for every way to cut the stream, as long as no length wraps.
THEOREM MessagesArriveIntact == Spec => []ArrivesIntact
  <1>1. IInv => ArrivesIntact
    <2> SUFFICES ASSUME IInv, NoneWraps PROVE IsPrefix(got, sent)
      BY DEF ArrivesIntact
    <2>1. /\ got \in Seq([command : Byte, data : Seq(Byte)])
          /\ sent \in Seq(Message)
          /\ Len(got) <= Len(sent) /\ Len(got) \in Nat /\ Len(sent) \in Nat
          /\ \A i \in 1 .. Len(got) : got[i] = sent[i]
      BY DEF IInv, TypeOK, Aligned
    <2>2. SubSeq(got, 1, Len(got)) = SubSeq(sent, 1, Len(got))
      BY <2>1
    <2> QED BY <2>1, <2>2 DEF IsPrefix
  <1> QED BY <1>1, CodecInductive, PTL

\* A message that has arrived whole has been handed over when doDecode returns
\* for the last time.
THEOREM NoMessageWaits == Spec => []NothingWaits
  <1>1. IInv => NothingWaits
    BY DEF IInv
  <1> QED BY <1>1, CodecInductive, PTL

\* No session is lost by texts that fit: the safety part of EverythingArrives,
\* whose other part is that a silent connection has delivered everything.
THEOREM SilentMeansDelivered ==
  Spec => [](AllFit => /\ open
                       /\ wire = <<>> /\ ~decoding => got = sent)
  <1>1. IInv /\ AllFit => open
    BY DEF IInv
  <1>2. IInv /\ AllFit /\ wire = <<>> /\ ~decoding => got = sent
    <2> SUFFICES ASSUME IInv, AllFit, wire = <<>>, ~decoding PROVE got = sent
      OBVIOUS
    <2>1. TypeOK /\ NoneWraps /\ Aligned /\ open /\ ~BodyThere
      BY AllFitNoneWraps DEF IInv, NothingWaits
    <2>2. /\ got \in Seq([command : Byte, data : Seq(Byte)])
          /\ sent \in Seq(Message)
          /\ Len(got) <= Len(sent) /\ Len(got) \in Nat /\ Len(sent) \in Nat
          /\ \A i \in 1 .. Len(got) : got[i] = sent[i]
      BY <2>1 DEF TypeOK, Aligned
    <2>3. ~(Len(got) < Len(sent))
      <3> SUFFICES ASSUME Len(got) < Len(sent) PROVE FALSE
        OBVIOUS
      <3> DEFINE m == sent[Len(got) + 1]
                 n == Len(m.data)
                 size == BodyLength(buffer)
      <3>1. m \in Message /\ 5 + n <= Len(Stream) /\ Fits(m)
        BY <2>1, <2>2, DueMessage DEF AllFit
      <3>2. n \in Nat /\ Len(buffer) \in Nat /\ Len(Stream) = Len(buffer)
        <4>1. Len(wire) = 0
          OBVIOUS
        <4> QED BY <2>1, <3>1, <4>1, EncodeBytes, StreamBytes
      <3>3. HeaderThere
        BY <3>1, <3>2 DEF HeaderThere
      <3>4. HeaderGood /\ size = 1 + n
        BY <2>1, <3>1, <3>3, DueMessage
      <3>5. ~(Len(buffer) - 4 >= size)
        BY <2>1, <3>4 DEF BodyThere
      <3> HIDE DEF n, size
      <3> QED BY <3>1, <3>2, <3>4, <3>5
    <2>4. Len(got) = Len(sent)
      BY <2>2, <2>3
    <2>5. sent \in Seq([command : Byte, data : Seq(Byte)])
      <3>1. Message \subseteq [command : Byte, data : Seq(Byte)]
        BY CodecAssumption
      <3> QED BY <2>2, <3>1, SeqMonotonic
    <2> QED BY <2>2, <2>4, <2>5, SeqEqual
  <1> QED BY <1>1, <1>2, CodecInductive, PTL

-----------------------------------------------------------------------------
\* What the I/O thread still has to do: each byte on the wire is read and taken
\* out of the buffer, and doDecode returns false in the end.
DecoderWork == 3 * Len(wire) + Len(buffer) + (IF decoding THEN 1 ELSE 0)

DecoderEnds == Read \/ DoDecode => DecoderWork' < DecoderWork

LEMMA WorkOfDecoder ==
  ASSUME TypeOK
  PROVE  DecoderWork \in Nat /\ Len(wire) \in Nat /\ Len(buffer) \in Nat
  <1>1. Len(wire) \in Nat /\ Len(buffer) \in Nat
    BY DEF TypeOK
  <1> QED BY <1>1 DEF DecoderWork

LEMMA ReadLowersWork ==
  ASSUME TypeOK, Read
  PROVE  DecoderWork' < DecoderWork
  <1>1. PICK n \in 1 .. Len(wire) :
          /\ wire' = SubSeq(wire, n + 1, Len(wire))
          /\ buffer' = buffer \o SubSeq(wire, 1, n)
    BY DEF Read
  <1>2. ~decoding /\ decoding'
    BY DEF Read
  <1>3. /\ wire \in Seq(Byte) /\ buffer \in Seq(Byte)
        /\ Len(wire) \in Nat /\ Len(buffer) \in Nat
    BY DEF TypeOK
  <1>4. Len(wire') = Len(wire) - n
    <2>1. n \in 0 .. Len(wire)
      BY <1>3
    <2> QED BY <1>1, <1>3, <2>1, DropBytes
  <1>5. Len(buffer') = Len(buffer) + n
    <2>1. \A i \in 1 .. n : wire[i] \in Byte
      BY <1>3
    <2>2. SubSeq(wire, 1, n) \in Seq(Byte) /\ Len(SubSeq(wire, 1, n)) = n
      BY <1>3, <2>1, SubSeqProperties
    <2> QED BY <1>1, <1>3, <2>2, ConcatProperties
  <1>6. DecoderWork = 3 * Len(wire) + Len(buffer)
    BY <1>2, <1>3 DEF DecoderWork
  <1>7. DecoderWork' = 3 * (Len(wire) - n) + (Len(buffer) + n) + 1
    BY <1>2, <1>4, <1>5 DEF DecoderWork
  <1> QED BY <1>3, <1>6, <1>7

LEMMA DoDecodeLowersWork ==
  ASSUME TypeOK, DoDecode
  PROVE  DecoderWork' < DecoderWork
  <1>1. /\ buffer \in Seq(Byte)
        /\ Len(wire) \in Nat /\ Len(buffer) \in Nat
    BY DEF TypeOK
  <1>2. decoding /\ wire' = wire
    BY DEF DoDecode, NeedsMore, SkipsBadHeader, Fails, Decodes
  <1>3. DecoderWork = 3 * Len(wire) + Len(buffer) + 1
    BY <1>2 DEF DecoderWork
  <1>4. CASE NeedsMore \/ Fails
    <2>1. buffer' = buffer /\ ~decoding'
      BY <1>4 DEF NeedsMore, Fails
    <2>2. DecoderWork' = 3 * Len(wire) + Len(buffer)
      BY <1>1, <1>2, <2>1 DEF DecoderWork
    <2> QED BY <1>1, <1>3, <2>2
  <1>5. ASSUME NEW d \in 1 .. Len(buffer), Drops(d)
        PROVE  DecoderWork' < DecoderWork
    <2>1. Len(buffer') = Len(buffer) - d
      BY <1>1, <1>5, DropBytes DEF Drops
    <2>2. DecoderWork' = 3 * Len(wire) + (Len(buffer) - d)
                           + (IF decoding' THEN 1 ELSE 0)
      BY <1>2, <2>1 DEF DecoderWork
    <2> QED BY <1>1, <1>3, <2>2
  <1>6. CASE SkipsBadHeader
    <2>1. 4 \in 1 .. Len(buffer) /\ Drops(4)
      BY <1>1, <1>6 DEF SkipsBadHeader, HeaderThere
    <2> QED BY <1>5, <2>1
  <1>7. CASE Decodes
    <2> DEFINE size == IF HasNoData(buffer[5]) THEN 1 ELSE BodyLength(buffer)
    <2>1. Drops(4 + size)
      BY <1>7 DEF Decodes, HandsOver
    <2>2. size \in Nat /\ size >= 1 /\ 4 + size <= Len(buffer)
      BY <1>7, DecodedSize
    <2> HIDE DEF size
    <2>3. 4 + size \in 1 .. Len(buffer)
      BY <1>1, <2>2
    <2> QED BY <1>5, <2>1, <2>3
  <1> QED BY <1>4, <1>6, <1>7 DEF DoDecode

\* However the stream is cut and whatever it holds, the I/O thread is done with
\* what has been written after a number of steps that is known beforehand: Mina's
\* loop around doDecode always ends.  With SilentMeansDelivered this is the safety
\* part of EverythingArrives.
THEOREM DecoderRunsDry == Spec => [](DecoderWork \in Nat) /\ [][DecoderEnds]_vars
  <1>1. IInv => TypeOK
    BY DEF IInv
  <1>2. IInv => DecoderWork \in Nat
    BY <1>1, WorkOfDecoder
  <1>3. IInv /\ [Next]_vars => [DecoderEnds]_vars
    BY <1>1, ReadLowersWork, DoDecodeLowersWork DEF DecoderEnds
  <1> QED BY <1>2, <1>3, CodecInductive, PTL DEF Spec

-----------------------------------------------------------------------------
(* SpeexFiles. *)

\* How many whole frames there are.
LEMMA WholeFrames ==
  ASSUME NEW size \in Nat \ {0}, NEW p \in Nat, NEW n \in Nat
  PROVE  /\ p \div size \in Nat
         /\ size * n + size <= p <=> n + 1 <= p \div size
         /\ (size * n) \div size = n
  <1> DEFINE q == p \div size
  <1>1. q \in Nat /\ size * q <= p /\ p < size * q + size
    BY Z3
  <1>2. (size * n) \div size = n
    BY Z3
  <1>3. ASSUME n + 1 <= q PROVE size * n + size <= p
    <2>1. size * (n + 1) <= size * q
      BY <1>1, <1>3, Z3
    <2> QED BY <1>1, <2>1, Z3
  <1>4. ASSUME q <= n PROVE ~(size * n + size <= p)
    <2>1. size * q <= size * n
      BY <1>1, <1>4, Z3
    <2> QED BY <1>1, <2>1, Z3
  <1> QED BY <1>1, <1>2, <1>3, <1>4

\* A part from the front is in order too, and so is one more frame at the end.
LEMMA PrefixInOrder ==
  ASSUME NEW s \in Seq(Nat), NEW t, SomePrefix(s, t), InOrder(s), Frames \in Nat
  PROVE  t \in Seq(Nat) /\ InOrder(t)
  <1>1. PICK n \in 0 .. Len(s) : t = SubSeq(s, 1, n)
    BY DEF SomePrefix
  <1>2. /\ t \in Seq(Nat) /\ Len(t) = n
        /\ \A i \in 1 .. n : t[i] = s[i]
    BY <1>1
  <1> QED BY <1>2 DEF InOrder

LEMMA OneMoreInOrder ==
  ASSUME NEW s \in Seq(Nat), InOrder(s), Frames \in Nat, Len(s) + 1 <= Frames
  PROVE  LET t == Append(s, Len(s) + 1)
         IN  t \in Seq(Nat) /\ Len(t) = Len(s) + 1 /\ InOrder(t)
  BY DEF InOrder

LEMMA JobsType ==
  ASSUME NEW q \in Seq({"encode", "decode"}), NEW kind \in {"encode", "decode"}
  PROVE  /\ Append(q, kind) \in Seq({"encode", "decode"})
         /\ q # <<>> => Tail(q) \in Seq({"encode", "decode"})
  OBVIOUS

LEMMA NoJobs == <<>> \in Seq({"encode", "decode"}) /\ <<>> \in Seq(Nat)
  OBVIOUS

LEMMA FramesInNat == ASSUME FilesTypeOK PROVE Frames \in Nat
  BY WholeFrames, FilesAssumption DEF FilesTypeOK, Frames

-----------------------------------------------------------------------------
LEMMA FilesInitInv == FilesInit => FilesInv
  <1> SUFFICES ASSUME FilesInit PROVE FilesInv
    OBVIOUS
  <1>1. FilesTypeOK
    <2>1. pcm \in Nat
      BY FilesAssumption DEF FilesInit
    <2> QED BY <2>1, NoJobs DEF FilesInit, FilesTypeOK
  <1>2. InOrder(<<>>)
    BY <1>1, FramesInNat DEF InOrder
  <1> QED BY <1>1, <1>2 DEF FilesInit, FilesInv, DecodedIsPrefix

\* The steps that leave the files alone.
LEMMA AskStep ==
  ASSUME FilesInv, NEW kind \in {"encode", "decode"}, Ask(kind)
  PROVE  FilesInv'
  <1>1. FilesTypeOK'
    BY JobsType DEF FilesInv, FilesTypeOK, Ask, encodeVars, decodeVars, fileVars
  <1>2. InOrder(speex)' /\ InOrder(out)'
    BY DEF FilesInv, Ask, decodeVars, fileVars, InOrder, Frames, DecodedIsPrefix
  <1> QED
    BY <1>1, <1>2
    DEF FilesInv, Ask, encodeVars, decodeVars, fileVars, Frames, DecodedIsPrefix

\* What a process leaves when it dies is in order, and broken if it was writing.
LEMMA DiesStep == ASSUME FilesInv, Dies PROVE FilesInv'
  <1> USE DEF encodeVars, decodeVars, fileVars
  <1>1. Frames \in Nat /\ Frames' = Frames
    BY FramesInNat DEF FilesInv, Dies, Frames
  <1>2. speex' \in Seq(Nat) /\ InOrder(speex')
    BY <1>1, PrefixInOrder DEF FilesInv, Dies, FilesTypeOK
  <1>3. out' \in Seq(Nat) /\ InOrder(out')
    BY <1>1, PrefixInOrder DEF FilesInv, Dies, FilesTypeOK, DecodedIsPrefix
  <1>4. FilesTypeOK'
    <2>1. cut' \in BOOLEAN /\ broken' \in BOOLEAN
      BY DEF FilesInv, Dies, FilesTypeOK
    <2>2. /\ pcm' \in Nat /\ read' \in Nat /\ taken' \in Nat
          /\ asked' \in Nat /\ kills' \in Nat
      BY DEF FilesInv, Dies, FilesTypeOK
    <2>3. jobs' \in Seq({"encode", "decode"})
      BY NoJobs DEF Dies
    <2> QED BY <1>2, <1>3, <2>1, <2>2, <2>3 DEF Dies, FilesTypeOK
  <1>5. InOrder(speex)' /\ InOrder(out)'
    BY <1>1, <1>2, <1>3 DEF InOrder
  <1>6. /\ ~encodeRuns' /\ ~decodeRuns'
        /\ ~broken' => ~broken /\ ~encodeRuns /\ speex' = speex
    BY DEF Dies
  <1> QED BY <1>1, <1>4, <1>5, <1>6 DEF FilesInv, DecodedIsPrefix

LEMMA EncodeStartsStep == ASSUME FilesInv, EncodeStarts PROVE FilesInv'
  <1> USE DEF encodeVars, decodeVars, fileVars
  <1>1. Frames \in Nat /\ Frames' = Frames
    BY FramesInNat DEF FilesInv, EncodeStarts, Frames
  <1>2. FilesTypeOK'
    <2>1. /\ pcm' \in Nat /\ read' \in Nat /\ taken' \in Nat
          /\ asked' \in Nat /\ kills' \in Nat
      BY DEF FilesInv, EncodeStarts, FilesTypeOK
    <2>2. speex' \in Seq(Nat) /\ out' \in Seq(Nat)
      BY NoJobs DEF FilesInv, EncodeStarts, FilesTypeOK
    <2>3. jobs' \in Seq({"encode", "decode"})
      BY JobsType, NoJobs DEF FilesInv, EncodeStarts, FilesTypeOK, Due
    <2>4. /\ encodeRuns' \in BOOLEAN /\ decodeRuns' \in BOOLEAN
          /\ cut' \in BOOLEAN /\ broken' \in BOOLEAN
      BY DEF FilesInv, EncodeStarts, FilesTypeOK
    <2> QED BY <2>1, <2>2, <2>3, <2>4 DEF FilesTypeOK
  <1>3. InOrder(speex)' /\ InOrder(out)'
    BY <1>1 DEF FilesInv, EncodeStarts, InOrder, DecodedIsPrefix
  <1>4. read' = FrameSize * Len(speex')
    BY FilesAssumption DEF EncodeStarts
  <1> QED BY <1>2, <1>3, <1>4 DEF FilesInv, EncodeStarts, Due, DecodedIsPrefix

LEMMA EncodeCrashesStep == ASSUME FilesInv, EncodeCrashes PROVE FilesInv'
  <1> USE DEF encodeVars, decodeVars, fileVars
  <1>1. Frames \in Nat /\ Frames' = Frames
    BY FramesInNat DEF FilesInv, EncodeCrashes, Frames
  <1>2. FilesTypeOK'
    <2>1. /\ pcm' \in Nat /\ read' \in Nat /\ taken' \in Nat
          /\ asked' \in Nat /\ kills' \in Nat
      BY DEF FilesInv, EncodeCrashes, FilesTypeOK
    <2>2. speex' \in Seq(Nat) /\ out' \in Seq(Nat)
      BY NoJobs DEF FilesInv, EncodeCrashes, FilesTypeOK
    <2>3. jobs' \in Seq({"encode", "decode"})
      BY JobsType, NoJobs DEF FilesInv, EncodeCrashes, FilesTypeOK, Due
    <2>4. /\ encodeRuns' \in BOOLEAN /\ decodeRuns' \in BOOLEAN
          /\ cut' \in BOOLEAN /\ broken' \in BOOLEAN
      BY DEF FilesInv, EncodeCrashes, FilesTypeOK
    <2> QED BY <2>1, <2>2, <2>3, <2>4 DEF FilesTypeOK
  <1>3. InOrder(speex)' /\ InOrder(out)'
    BY <1>1 DEF FilesInv, EncodeCrashes, InOrder, DecodedIsPrefix
  <1> QED
    BY <1>1, <1>2, <1>3 DEF FilesInv, EncodeCrashes, Due, DecodedIsPrefix

\* The record written is the next frame; without a whole frame left there are
\* as many records as frames.
LEMMA EncodeFrameStep == ASSUME FilesInv, EncodeFrame PROVE FilesInv'
  <1> USE DEF encodeVars, decodeVars, fileVars
  <1>1. Frames \in Nat /\ Frames' = Frames
    BY FramesInNat DEF FilesInv, EncodeFrame, Frames
  <1>2. /\ read = FrameSize * Len(speex)
        /\ read \div FrameSize = Len(speex)
        /\ WholeFrame <=> Len(speex) + 1 <= Frames
    <2>1. read = FrameSize * Len(speex) /\ Len(speex) \in Nat /\ pcm \in Nat
      BY DEF FilesInv, FilesTypeOK, EncodeFrame
    <2> QED BY <2>1, WholeFrames, FilesAssumption DEF WholeFrame, Frames
  <1>3. CASE WholeFrame
    <2>1. speex' = Append(speex, Len(speex) + 1) /\ read' = read + FrameSize
      BY <1>2, <1>3 DEF EncodeFrame
    <2>2. speex' \in Seq(Nat) /\ Len(speex') = Len(speex) + 1 /\ InOrder(speex')
      BY <1>1, <1>2, <1>3, <2>1, OneMoreInOrder DEF FilesInv, FilesTypeOK
    <2>3. read' = FrameSize * Len(speex') /\ read' \in Nat
      <3>1. FrameSize \in Nat /\ Len(speex) \in Nat
        BY FilesAssumption DEF FilesInv, FilesTypeOK
      <3> QED BY <1>2, <2>1, <2>2, <3>1, Z3
    <2>4. FilesTypeOK'
      BY <1>3, <2>2, <2>3 DEF FilesInv, FilesTypeOK, EncodeFrame
    <2>5. InOrder(speex)' /\ InOrder(out)'
      BY <1>1, <2>2 DEF FilesInv, EncodeFrame, InOrder, DecodedIsPrefix
    <2> QED
      BY <1>3, <2>3, <2>4, <2>5 DEF FilesInv, EncodeFrame, DecodedIsPrefix
  <1>4. CASE ~WholeFrame
    <2>1. Len(speex) = Frames
      BY <1>1, <1>2, <1>4 DEF FilesInv, FilesTypeOK, InOrder
    <2>2. FilesTypeOK'
      BY <1>4 DEF FilesInv, FilesTypeOK, EncodeFrame
    <2>3. InOrder(speex)' /\ InOrder(out)'
      BY <1>1, <1>4 DEF FilesInv, EncodeFrame, InOrder, DecodedIsPrefix
    <2> QED
      BY <1>1, <1>4, <2>1, <2>2, <2>3 DEF FilesInv, EncodeFrame, DecodedIsPrefix
  <1> QED BY <1>3, <1>4

LEMMA DecodeStartsStep == ASSUME FilesInv, DecodeStarts PROVE FilesInv'
  <1> USE DEF encodeVars, decodeVars, fileVars
  <1>1. Frames \in Nat /\ Frames' = Frames
    BY FramesInNat DEF FilesInv, DecodeStarts, Frames
  <1>2. FilesTypeOK'
    <2>1. /\ pcm' \in Nat /\ read' \in Nat /\ taken' \in Nat
          /\ asked' \in Nat /\ kills' \in Nat
      BY DEF FilesInv, DecodeStarts, FilesTypeOK
    <2>2. speex' \in Seq(Nat) /\ out' \in Seq(Nat)
      BY NoJobs DEF FilesInv, DecodeStarts, FilesTypeOK
    <2>3. jobs' \in Seq({"encode", "decode"})
      BY JobsType, NoJobs DEF FilesInv, DecodeStarts, FilesTypeOK, Due
    <2>4. /\ encodeRuns' \in BOOLEAN /\ decodeRuns' \in BOOLEAN
          /\ cut' \in BOOLEAN /\ broken' \in BOOLEAN
      BY DEF FilesInv, DecodeStarts, FilesTypeOK
    <2> QED BY <2>1, <2>2, <2>3, <2>4 DEF FilesTypeOK
  <1>3. InOrder(speex)' /\ InOrder(out)'
    BY <1>1 DEF FilesInv, DecodeStarts, InOrder, DecodedIsPrefix
  <1>4. Len(speex) \in Nat
    BY DEF FilesInv, FilesTypeOK
  <1> QED
    BY <1>1, <1>2, <1>3, <1>4 DEF FilesInv, DecodeStarts, Due, DecodedIsPrefix

LEMMA DecodeFrameStep == ASSUME FilesInv, DecodeFrame PROVE FilesInv'
  <1> USE DEF encodeVars, decodeVars, fileVars
  <1>1. Frames \in Nat /\ Frames' = Frames
    BY FramesInNat DEF FilesInv, DecodeFrame, Frames
  <1>2. CASE taken < Len(speex)
    <2>1. /\ taken \in Nat /\ Len(speex) \in Nat /\ taken = Len(out)
          /\ taken + 1 <= Frames /\ speex[taken + 1] = taken + 1
      BY <1>1, <1>2 DEF FilesInv, FilesTypeOK, DecodeFrame, InOrder
    <2>2. out' = Append(out, Len(out) + 1) /\ taken' = Len(out) + 1
      BY <1>2, <2>1 DEF DecodeFrame
    <2>3. out' \in Seq(Nat) /\ Len(out') = Len(out) + 1 /\ InOrder(out')
      BY <1>1, <2>1, <2>2, OneMoreInOrder DEF FilesInv, FilesTypeOK, DecodedIsPrefix
    <2>4. FilesTypeOK'
      BY <1>2, <2>1, <2>3 DEF FilesInv, FilesTypeOK, DecodeFrame
    <2>5. InOrder(speex)' /\ InOrder(out)'
      BY <1>1, <2>3 DEF FilesInv, DecodeFrame, InOrder
    <2> QED
      BY <1>1, <1>2, <2>1, <2>2, <2>3, <2>4, <2>5
      DEF FilesInv, DecodeFrame, DecodedIsPrefix
  <1>3. CASE ~(taken < Len(speex))
    <2>1. FilesTypeOK'
      BY <1>3 DEF FilesInv, FilesTypeOK, DecodeFrame
    <2>2. InOrder(speex)' /\ InOrder(out)'
      BY <1>1, <1>3 DEF FilesInv, DecodeFrame, InOrder, DecodedIsPrefix
    <2> QED
      BY <1>1, <1>3, <2>1, <2>2 DEF FilesInv, DecodeFrame, DecodedIsPrefix
  <1> QED BY <1>2, <1>3

LEMMA FilesNextInv == FilesInv /\ [FilesNext]_filesVars => FilesInv'
  <1> SUFFICES ASSUME FilesInv, [FilesNext]_filesVars PROVE FilesInv'
    OBVIOUS
  <1>1. CASE UNCHANGED filesVars
    BY <1>1
    DEF filesVars, encodeVars, decodeVars, fileVars, FilesInv, FilesTypeOK, InOrder,
        Frames, DecodedIsPrefix
  <1> QED
    BY <1>1, AskStep, DiesStep, EncodeStartsStep, EncodeCrashesStep,
       EncodeFrameStep, DecodeStartsStep, DecodeFrameStep DEF FilesNext

LEMMA FilesInductive == FilesSpec => []FilesInv
  BY FilesInitInv, FilesNextInv, PTL DEF FilesSpec

-----------------------------------------------------------------------------
\* Every reachable state has the types of FilesTypeOK.
THEOREM FilesTypeCorrect == FilesSpec => []FilesTypeOK
  <1>1. FilesInv => FilesTypeOK
    BY DEF FilesInv
  <1> QED BY <1>1, FilesInductive, PTL

\* Whatever is cut off, the decoded file is a front part of the PCM file.
THEOREM DecodedFilesAreFronts == FilesSpec => []DecodedIsPrefix
  <1>1. FilesInv => DecodedIsPrefix
    BY DEF FilesInv
  <1> QED BY <1>1, FilesInductive, PTL

\* A decode that ends by itself, on a Speex file that was written to its end,
\* gives every whole frame of the PCM file.
THEOREM AllFramesComeBack == FilesSpec => RoundTrip
  <1> DEFINE A == decodeRuns /\ ~decodeRuns' /\ kills' = kills /\ ~broken
                    => Len(out') = Frames
  <1>1. FilesInv /\ [FilesNext]_filesVars => [A]_filesVars
    <2> SUFFICES ASSUME FilesInv, FilesNext, decodeRuns, ~decodeRuns',
                        kills' = kills, ~broken
                 PROVE  Len(out') = Frames
      OBVIOUS
    <2>1. ~Dies
      <3>1. kills \in Nat
        BY DEF FilesInv, FilesTypeOK
      <3> QED BY <3>1 DEF Dies
    <2>2. /\ \A kind \in {"encode", "decode"} : ~Ask(kind)
          /\ ~EncodeStarts /\ ~EncodeCrashes /\ ~EncodeFrame /\ ~DecodeStarts
      BY DEF Ask, EncodeStarts, EncodeCrashes, EncodeFrame, DecodeStarts, Due,
             decodeVars
    <2>3. DecodeFrame
      BY <2>1, <2>2 DEF FilesNext
    <2>4. out' = out /\ ~(taken < Len(speex))
      BY <2>3 DEF DecodeFrame
    <2>5. /\ Len(out) = taken /\ taken <= Len(speex) /\ Len(speex) = Frames
          /\ taken \in Nat /\ Len(speex) \in Nat
      BY DEF FilesInv, FilesTypeOK
    <2> QED BY <2>4, <2>5
  <1> QED BY <1>1, FilesInductive, PTL DEF FilesSpec, RoundTrip
=============================================================================
