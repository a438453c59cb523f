------------------------- MODULE AmbeFramingProofs -------------------------
(***************************************************************************)
(* Theorems about AmbeFraming, for every number of values a byte can have, *)
(* every limit on the length and every set of packets.                     *)
(*                                                                         *)
(* A packet survives to_bytes and parsing (ParseBack).  As long as no      *)
(* stray byte looks like the start of a packet, what is unread is a line   *)
(* of packets (Line): those written and not returned, each at a known      *)
(* place, with bytes that start nothing between them, and what was broken  *)
(* off at the end; and a header that was read is the header of the first.  *)
(***************************************************************************)
EXTENDS AmbeFraming, TLAPS, SequenceTheorems

AllPackets == ControlPackets \cup ChannelPackets \cup SpeechPackets
HeaderOf(p) == [length |-> 1 + Len(Payload(p)), type |-> p.type]
Size(p) == 4 + Len(Payload(p))

\* Packet p, or what there is of it, is on the wire after the first a bytes; if
\* a < 0 its first -a bytes are read already.
Bytes(w, a, p) ==
    \A x \in 1..Len(w) : a < x /\ x <= a + Size(p) => w[x] = ToBytes(p)[x - a]

\* Each packet ps[i] is at its place at[i] in w, one after the other, up to cut,
\* and what lies between them starts nothing.
Places(w, ps, at, cut) ==
    /\ cut <= Len(w)
    /\ \A i \in DOMAIN at : Bytes(w, at[i], ps[i]) /\ at[i] + Size(ps[i]) <= cut
    /\ \A i, j \in DOMAIN at : i < j => at[i] + Size(ps[i]) <= at[j]
    /\ \A x \in 1..Len(w) : x <= cut /\ w[x] = StartByte =>
         \E i \in DOMAIN at : at[i] < x /\ x <= at[i] + Size(ps[i])

\* From cut on there is a part of a packet, without its end.
Broken(w, cut, hd) ==
    \E p \in Packets : /\ Bytes(w, cut, p) /\ Len(w) < cut + Size(p)
                       /\ cut < 0 => hd = HeaderOf(p)

\* The packets from the r-th of ps on are in w; after them there is nothing as
\* long as the writer is there.  If a header is read, it is the next packet's.
Line(w, r, ps, at, cut, hd, there) ==
    /\ Places(w, ps, at, cut)
    /\ IF there THEN cut = Len(w) ELSE Broken(w, cut, hd)
    /\ hd = NoHeader => cut >= 0 /\ \A i \in DOMAIN at : at[i] >= 0
    /\ hd # NoHeader =>
         \/ r \in DOMAIN at /\ at[r] = -4 /\ hd = HeaderOf(ps[r])
         \/ cut = -4 /\ ~there

\* The places of the packets in dom, after n bytes.
Moved(at, dom, n) == [i \in dom |-> at[i] - n]

OnLine(w, r, ps, hd, there) ==
    \E at \in [r..Len(ps) -> Int], cut \in Int : Line(w, r, ps, at, cut, hd, there)

\* What was returned is the first of what was written, and nothing went wrong.
Faithful == /\ errors = 0 /\ state # "failed"
            /\ Len(packets) <= Len(written)
            /\ \A i \in DOMAIN packets : packets[i] = written[i]

\* The others are in the line that is on the wire.
InLine == OnLine(wire, Len(packets) + 1, written, header, open)

StreamInv == ~misled => Faithful /\ (state = "reading" => InLine)

-----------------------------------------------------------------------------
(* Numbers and packets.                                                    *)

\* The constants are numbers.
LEMMA Numbers ==
    /\ Base \in Nat /\ Base > 2 /\ StartByte \in Nat /\ StartByte < Base
    /\ MaxLength \in Nat /\ MaxLength < Base * Base /\ MaxLength > 0
    /\ MaxPackets \in Nat /\ MaxStray \in Nat
    /\ Base * Base \in Nat /\ Base * Base > 0
<1>1. /\ Base \in Nat /\ Base > 2 /\ StartByte \in 0..(Base - 1)
      /\ MaxLength \in 1..(Base * Base - 1)
      /\ MaxPackets \in Nat /\ MaxStray \in Nat
  BY AmbeFramingAssumption DEF AmbeFramingAssumption, TypeSpeech, Byte
<1> QED
  BY <1>1

\* What BigEndian writes U16 reads, and both are in range.
LEMMA U16Back ==
    ASSUME NEW v \in Nat, v < Base * Base
    PROVE  /\ BigEndian(v) \in Seq(Byte) /\ Len(BigEndian(v)) = 2
           /\ BigEndian(v)[1] \in Byte /\ BigEndian(v)[2] \in Byte
           /\ U16(BigEndian(v)[1], BigEndian(v)[2]) = v
<1>1. v % (Base * Base) = v
  BY Numbers
<1>2. BigEndian(v) = <<v \div Base, v % Base>>
  BY <1>1 DEF BigEndian
<1>3. /\ v = Base * (v \div Base) + (v % Base)
      /\ v % Base \in 0..(Base - 1) /\ v \div Base \in Nat
  BY Numbers
<1>4. PICK q \in Nat, r \in 0..(Base - 1) : q = v \div Base /\ r = v % Base
  BY <1>3
<1>5. v = Base * q + r
  BY <1>3, <1>4
<1>6. q < Base
  BY <1>5, Numbers
<1>7. q \in Byte /\ r \in Byte
  BY <1>4, <1>6, Numbers DEF Byte
<1>8. q * Base + r = v
  BY <1>5, <1>4, Numbers
<1> QED
  BY <1>2, <1>4, <1>7, <1>8 DEF U16

\* A sample survives its two bytes, whatever its sign.
LEMMA I16Back ==
    ASSUME NEW v \in Samples
    PROVE  /\ Len(BigEndian(v)) = 2
           /\ BigEndian(v)[1] \in Byte /\ BigEndian(v)[2] \in Byte
           /\ I16(BigEndian(v)[1], BigEndian(v)[2]) = v
<1>1. PICK h \in Nat : h = (Base * Base) \div 2 /\ 2 * h <= Base * Base
  BY Numbers
<1>2. PICK m \in Nat : m = Base * Base /\ m > 0 /\ h < m
  BY <1>1, Numbers
<1>3. v \in Int /\ h - m <= v /\ v < h
  BY <1>1, <1>2 DEF Samples
<1>4. PICK u \in Nat : u = v % m /\ u < m
  BY <1>2, <1>3
<1>5. (v >= 0 => u = v) /\ (v < 0 => u = v + m)
  BY <1>1, <1>2, <1>3, <1>4
<1>6. v = IF u < h THEN u ELSE u - m
  BY <1>1, <1>2, <1>3, <1>4, <1>5
<1>7. BigEndian(v) = <<u \div Base, u % Base>>
  BY <1>2, <1>4 DEF BigEndian
<1>8. u % m = u
  BY <1>2, <1>4
<1>9. BigEndian(v) = BigEndian(u)
  BY <1>2, <1>7, <1>8 DEF BigEndian
<1>10. /\ Len(BigEndian(u)) = 2
       /\ BigEndian(u)[1] \in Byte /\ BigEndian(u)[2] \in Byte
       /\ U16(BigEndian(u)[1], BigEndian(u)[2]) = u
  BY <1>2, <1>4, U16Back
<1>11. I16(BigEndian(v)[1], BigEndian(v)[2]) = IF u < h THEN u ELSE u - m
  BY <1>1, <1>2, <1>9, <1>10 DEF I16
<1> QED
  BY <1>6, <1>9, <1>10, <1>11

\* Two bytes make a sample.
LEMMA I16Type ==
    ASSUME NEW hi \in Byte, NEW lo \in Byte
    PROVE  I16(hi, lo) \in Samples
<1>1. U16(hi, lo) \in Nat /\ U16(hi, lo) < Base * Base
  BY Numbers DEF U16, Byte
<1>2. PICK u \in Nat : u = U16(hi, lo)
  BY <1>1
<1>3. PICK m \in Nat : m = Base * Base /\ u < m
  BY <1>1, <1>2, Numbers
<1>4. PICK h \in Nat : h = m \div 2 /\ h <= m
  BY <1>3
<1>5. I16(hi, lo) = IF u < h THEN u ELSE u - m
  BY <1>2, <1>3, <1>4 DEF I16
<1>6. Samples = (h - m)..(h - 1)
  BY <1>3, <1>4 DEF Samples
<1> QED
  BY <1>3, <1>4, <1>5, <1>6

\* Two bytes make a length.
LEMMA U16Type ==
    ASSUME NEW hi \in Byte, NEW lo \in Byte
    PROVE  U16(hi, lo) \in Nat
  BY Numbers DEF U16, Byte

-----------------------------------------------------------------------------
(* to_bytes and the parsers.                                               *)

\* Packets read_packet accepts the length of.
ReadPackets == {p \in AllPackets : Len(Payload(p)) < MaxLength}

\* The samples on the wire, two bytes each.
SampleBytes(body) ==
    [j \in 1..(2 * Len(body)) |-> BigEndian(body[(j + 1) \div 2])[2 - (j % 2)]]

LEMMA SampleBytesIs ==
    ASSUME NEW body \in Seq(Samples)
    PROVE  /\ SampleBytes(body) \in Seq(Byte)
           /\ Len(SampleBytes(body)) = 2 * Len(body)
           /\ \A i \in 1..Len(body) :
                I16(SampleBytes(body)[2 * i - 1], SampleBytes(body)[2 * i]) = body[i]
<1> DEFINE n == Len(body)
           B == SampleBytes(body)
<1>1. n \in Nat /\ \A i \in 1..n : body[i] \in Samples
  OBVIOUS
<1>2. ASSUME NEW j \in 1..(2 * n) PROVE B[j] \in Byte
  <2>1. PICK i \in 1..n : i = (j + 1) \div 2
    BY <1>1
  <2>2. 2 - (j % 2) \in {1, 2}
    OBVIOUS
  <2>3. B[j] = BigEndian(body[i])[2 - (j % 2)]
    BY <1>1, <2>1 DEF SampleBytes
  <2>4. BigEndian(body[i])[1] \in Byte /\ BigEndian(body[i])[2] \in Byte
    BY <1>1, I16Back
  <2> QED
    BY <2>2, <2>3, <2>4
<1>3. B \in [1..(2 * n) -> Byte]
  BY <1>2 DEF SampleBytes
<1>4. B \in Seq(Byte) /\ Len(B) = 2 * n
  BY <1>1, <1>3
<1>5. ASSUME NEW i \in 1..n PROVE I16(B[2 * i - 1], B[2 * i]) = body[i]
  <2>1. /\ 2 * i - 1 \in 1..(2 * n) /\ 2 * i \in 1..(2 * n)
        /\ (2 * i - 1 + 1) \div 2 = i /\ (2 * i + 1) \div 2 = i
        /\ 2 - ((2 * i - 1) % 2) = 1 /\ 2 - ((2 * i) % 2) = 2
    BY <1>1
  <2>2. B[2 * i - 1] = BigEndian(body[i])[1] /\ B[2 * i] = BigEndian(body[i])[2]
    BY <2>1 DEF SampleBytes
  <2> QED
    BY <1>1, <2>2, I16Back
<1> QED
  BY <1>4, <1>5

\* Two bytes, and then the rest.
LEMMA TwoThen ==
    ASSUME NEW a \in Byte, NEW b \in Byte, NEW s \in Seq(Byte)
    PROVE  /\ <<a, b>> \o s \in Seq(Byte)
           /\ Len(<<a, b>> \o s) = 2 + Len(s)
           /\ (<<a, b>> \o s)[1] = a /\ (<<a, b>> \o s)[2] = b
           /\ \A j \in 1..Len(s) : (<<a, b>> \o s)[2 + j] = s[j]
  OBVIOUS

\* One sequence of bytes after another.
LEMMA Joined ==
    ASSUME NEW s \in Seq(Byte), NEW t \in Seq(Byte)
    PROVE  /\ s \o t \in Seq(Byte) /\ Len(s \o t) = Len(s) + Len(t)
           /\ \A j \in 1..Len(s) : (s \o t)[j] = s[j]
           /\ \A j \in 1..Len(t) : (s \o t)[Len(s) + j] = t[j]
           /\ \A j \in 1..(Len(s) + Len(t)) :
                (s \o t)[j] = IF j <= Len(s) THEN s[j] ELSE t[j - Len(s)]
  OBVIOUS

\* The bytes that are written down as numbers.
LEMMA SmallBytes ==
    /\ TypeControl \in Byte /\ TypeChannel \in Byte /\ TypeSpeech \in Byte
    /\ ChandTag \in Byte /\ SpeechdTag \in Byte /\ StartByte \in Byte
  BY Numbers DEF TypeControl, TypeChannel, TypeSpeech, ChandTag, SpeechdTag, Byte

\* The three kinds of packet, and what to_bytes makes of each.
LEMMA ControlIs ==
    ASSUME NEW p \in ControlPackets
    PROVE  p.type = TypeControl /\ p.body \in Seq(Byte) /\ Payload(p) = p.body
  BY DEF ControlPackets, Payload, TypeControl, TypeChannel, TypeSpeech

LEMMA ChannelIs ==
    ASSUME NEW p \in ChannelPackets
    PROVE  /\ p.type = TypeChannel /\ p.bits \in Byte /\ p.body \in Seq(Byte)
           /\ Len(p.body) = (p.bits + 7) \div 8
           /\ Payload(p) = <<ChandTag, p.bits>> \o p.body
           /\ Payload(p) \in Seq(Byte) /\ Len(Payload(p)) = 2 + Len(p.body)
<1>1. /\ p.type = TypeChannel /\ p.bits \in Byte /\ p.body \in Seq(Byte)
      /\ Len(p.body) = (p.bits + 7) \div 8
  BY DEF ChannelPackets
<1>2. Payload(p) = <<ChandTag, p.bits>> \o p.body
  BY <1>1 DEF Payload, TypeControl, TypeChannel, TypeSpeech
<1> QED
  BY <1>1, <1>2, SmallBytes, TwoThen

LEMMA SpeechIs ==
    ASSUME NEW p \in SpeechPackets
    PROVE  /\ p.type = TypeSpeech /\ p.body \in Seq(Samples)
           /\ Len(p.body) \in Byte
           /\ Payload(p) = <<SpeechdTag, Len(p.body)>> \o SampleBytes(p.body)
           /\ Payload(p) \in Seq(Byte) /\ Len(Payload(p)) = 2 + 2 * Len(p.body)
<1>1. p.type = TypeSpeech /\ p.body \in Seq(Samples) /\ Len(p.body) < Base
  BY DEF SpeechPackets
<1>2. PICK n \in Nat : n = Len(p.body)
  BY <1>1
<1>a. n < Base
  BY <1>1, <1>2
<1>3. n \in Byte /\ n % Base = n
  BY <1>a, Numbers DEF Byte
<1>4. Payload(p) = <<SpeechdTag, Len(p.body) % Base>> \o SampleBytes(p.body)
  BY <1>1 DEF Payload, TypeControl, TypeChannel, TypeSpeech, SampleBytes
<1> QED
  <2>1. SampleBytes(p.body) \in Seq(Byte) /\ Len(SampleBytes(p.body)) = 2 * n
    BY <1>1, <1>2, SampleBytesIs
  <2>2. Payload(p) = <<SpeechdTag, n>> \o SampleBytes(p.body)
    BY <1>2, <1>3, <1>4
  <2>3. /\ <<SpeechdTag, n>> \o SampleBytes(p.body) \in Seq(Byte)
        /\ Len(<<SpeechdTag, n>> \o SampleBytes(p.body)) = 2 + Len(SampleBytes(p.body))
    BY <1>3, <2>1, SmallBytes, TwoThen
  <2> QED
    BY <1>1, <1>2, <1>3, <2>1, <2>2, <2>3

\* A payload is bytes.
LEMMA PayloadIs ==
    ASSUME NEW p \in AllPackets
    PROVE  Payload(p) \in Seq(Byte) /\ p.type \in Byte
  BY ControlIs, ChannelIs, SpeechIs, SmallBytes DEF AllPackets

\* The parsers give back what to_bytes was given, for every packet.
THEOREM ParseBack ==
    ASSUME NEW p \in AllPackets
    PROVE  Parse(p.type, Payload(p)) = p
<1>1. CASE p \in ControlPackets
  <2>1. p.type = TypeControl /\ Payload(p) = p.body
    BY <1>1, ControlIs
  <2>2. Control(p.body) = p
    BY <1>1 DEF ControlPackets, Control
  <2> QED
    BY <2>1, <2>2 DEF Parse, TypeControl, TypeChannel, TypeSpeech
<1>2. CASE p \in ChannelPackets
  <2> DEFINE P == Payload(p)
             n == Len(p.body)
  <2>1. /\ p.type = TypeChannel /\ p.bits \in Byte /\ p.body \in Seq(Byte)
        /\ n = (p.bits + 7) \div 8
        /\ P = <<ChandTag, p.bits>> \o p.body
    BY <1>2, ChannelIs
  <2>4. /\ P \in Seq(Byte) /\ Len(P) = 2 + n /\ P[1] = ChandTag /\ P[2] = p.bits
        /\ \A j \in 1..n : P[2 + j] = p.body[j]
    BY <2>1, SmallBytes, TwoThen
  <2>5. SubSeq(P, 3, 2 + n) = p.body
    <3> HIDE DEF P
    <3>1. n \in Nat /\ Len(SubSeq(P, 3, 2 + n)) = n
      BY <2>1, <2>4
    <3>2. \A j \in 1..n : SubSeq(P, 3, 2 + n)[j] = p.body[j]
      BY <2>1, <2>4
    <3> QED
      BY <2>1, <2>4, <3>1, <3>2
  <2>6. Parse(p.type, P) = ParseChannel(P)
    BY <2>1 DEF Parse, TypeControl, TypeChannel, TypeSpeech
  <2>7. ParseChannel(P) = Channel(p.bits, p.body)
    <3> HIDE DEF P
    <3>1. ~(Len(P) < 2 \/ P[1] # ChandTag) /\ (P[2] + 7) \div 8 = n
      BY <2>1, <2>4
    <3>2. n \in Nat /\ ~(Len(P) - 2 < n)
      BY <2>1, <2>4
    <3> QED
      BY <2>4, <2>5, <3>1, <3>2 DEF ParseChannel
  <2>8. Channel(p.bits, p.body) = p
    BY <1>2 DEF ChannelPackets, Channel
  <2> QED
    BY <2>6, <2>7, <2>8
<1>3. CASE p \in SpeechPackets
  <2> DEFINE P == Payload(p)
             n == Len(p.body)
             B == SampleBytes(p.body)
  <2>1. /\ p.type = TypeSpeech /\ p.body \in Seq(Samples) /\ n \in Byte
        /\ P = <<SpeechdTag, n>> \o B
    BY <1>3, SpeechIs
  <2>2. p.body \in Seq(Samples) /\ n \in Nat
    BY <2>1
  <2>4. /\ B \in Seq(Byte) /\ Len(B) = 2 * n
        /\ \A i \in 1..n : I16(B[2 * i - 1], B[2 * i]) = p.body[i]
    BY <2>1, SampleBytesIs
  <2>5. /\ P \in Seq(Byte) /\ Len(P) = 2 + 2 * n /\ P[1] = SpeechdTag /\ P[2] = n
        /\ \A j \in 1..(2 * n) : P[2 + j] = B[j]
    <3> HIDE DEF B
    <3>1. /\ <<SpeechdTag, n>> \o B \in Seq(Byte)
          /\ Len(<<SpeechdTag, n>> \o B) = 2 + Len(B)
          /\ (<<SpeechdTag, n>> \o B)[1] = SpeechdTag
          /\ (<<SpeechdTag, n>> \o B)[2] = n
          /\ \A j \in 1..Len(B) : (<<SpeechdTag, n>> \o B)[2 + j] = B[j]
      BY <2>1, <2>4, SmallBytes, TwoThen
    <3> QED
      BY <2>1, <2>4, <3>1
  <2>6. Parse(p.type, P) = ParseSpeech(P)
    BY <2>1 DEF Parse, TypeChannel, TypeControl, TypeSpeech
  <2>7. [i \in 1..n |-> I16(P[2*i + 1], P[2*i + 2])] = p.body
    <3> HIDE DEF P, B
    <3>1. ASSUME NEW i \in 1..n PROVE I16(P[2*i + 1], P[2*i + 2]) = p.body[i]
      <4>1. /\ 2 * i - 1 \in 1..(2 * n) /\ 2 * i \in 1..(2 * n)
            /\ 2 + (2 * i - 1) = 2 * i + 1 /\ 2 + 2 * i = 2 * i + 2
        BY <2>2
      <4>2. P[2 * i + 1] = B[2 * i - 1] /\ P[2 * i + 2] = B[2 * i]
        BY <2>5, <4>1
      <4> QED
        BY <2>4, <4>2
    <3> QED
      BY <2>2, <3>1
  <2>8. ParseSpeech(P) = Speech([i \in 1..n |-> I16(P[2*i + 1], P[2*i + 2])])
    <3> HIDE DEF P, B
    <3> QED
      BY <2>2, <2>5 DEF ParseSpeech
  <2>9. Speech(p.body) = p
    BY <1>3 DEF SpeechPackets, Speech
  <2> QED
    BY <2>6, <2>7, <2>8, <2>9
<1> QED
  BY <1>1, <1>2, <1>3 DEF AllPackets

\* Whatever bytes follow a header, the parsers return a packet with no longer a
\* payload, or refuse.
LEMMA ParseType ==
    ASSUME NEW P \in Seq(Byte), NEW type \in Byte, Len(P) < MaxLength
    PROVE  Parse(type, P) \in ReadPackets \cup {Malformed}
<1>1. CASE type = TypeControl
  <2>1. Parse(type, P) = Control(P)
    BY <1>1 DEF Parse, TypeControl, TypeChannel, TypeSpeech
  <2>2. Control(P) \in ControlPackets /\ Control(P).body = P
    BY DEF Control, ControlPackets
  <2>3. Payload(Control(P)) = P
    BY <2>2, ControlIs
  <2> QED
    BY <2>1, <2>2, <2>3 DEF ReadPackets, AllPackets
<1>2. CASE type = TypeChannel
  <2>1. Parse(type, P) = ParseChannel(P)
    BY <1>2 DEF Parse, TypeControl, TypeChannel, TypeSpeech
  <2>2. CASE Len(P) < 2 \/ P[1] # ChandTag
    BY <2>1, <2>2 DEF ParseChannel
  <2>3. CASE ~(Len(P) < 2 \/ P[1] # ChandTag)
    <3>1. Len(P) >= 2 /\ P[2] \in Byte
      BY <2>3
    <3>2. PICK e \in Nat : e = (P[2] + 7) \div 8
      BY <3>1, Numbers DEF Byte
    <3>3. CASE Len(P) - 2 < e
      BY <2>1, <2>3, <3>2, <3>3 DEF ParseChannel
    <3>4. CASE ~(Len(P) - 2 < e)
      <4> DEFINE c == Channel(P[2], SubSeq(P, 3, 2 + e))
      <4>1. ParseChannel(P) = c
        BY <2>3, <3>2, <3>4 DEF ParseChannel
      <4>2. SubSeq(P, 3, 2 + e) \in Seq(Byte) /\ Len(SubSeq(P, 3, 2 + e)) = e
        BY <3>1, <3>2, <3>4
      <4>3. c \in ChannelPackets /\ c.body = SubSeq(P, 3, 2 + e)
        BY <3>1, <3>2, <4>2 DEF ChannelPackets, Channel
      <4>4. Len(Payload(c)) = 2 + e
        <5> HIDE DEF c
        <5> QED
          BY <4>2, <4>3, ChannelIs
      <4>5. Len(Payload(c)) < MaxLength
        BY <3>1, <3>2, <3>4, <4>4, Numbers
      <4> HIDE DEF c
      <4> QED
        BY <2>1, <4>1, <4>3, <4>5 DEF ReadPackets, AllPackets
    <3> QED
      BY <3>3, <3>4
  <2> QED
    BY <2>2, <2>3
<1>3. CASE type = TypeSpeech
  <2>1. Parse(type, P) = ParseSpeech(P)
    BY <1>3 DEF Parse, TypeControl, TypeChannel, TypeSpeech
  <2>2. CASE Len(P) < 2 \/ P[1] # SpeechdTag
    BY <2>1, <2>2 DEF ParseSpeech
  <2>3. CASE ~(Len(P) < 2 \/ P[1] # SpeechdTag)
    <3>1. Len(P) >= 2 /\ P[2] \in Byte
      BY <2>3
    <3>2. PICK n \in Nat : n = P[2] /\ n < Base
      BY <3>1, Numbers DEF Byte
    <3>3. CASE Len(P) - 2 < 2 * n
      BY <2>1, <2>3, <3>2, <3>3 DEF ParseSpeech
    <3>4. CASE ~(Len(P) - 2 < 2 * n)
      <4> DEFINE b == [i \in 1..n |-> I16(P[2*i + 1], P[2*i + 2])]
                 c == Speech(b)
      <4>1. ParseSpeech(P) = c
        BY <2>3, <3>2, <3>4 DEF ParseSpeech
      <4>2. ASSUME NEW i \in 1..n PROVE b[i] \in Samples
        <5>1. 2*i + 1 \in 1..Len(P) /\ 2*i + 2 \in 1..Len(P)
          BY <3>1, <3>2, <3>4
        <5>2. P[2*i + 1] \in Byte /\ P[2*i + 2] \in Byte
          BY <5>1
        <5> QED
          BY <5>2, I16Type
      <4>3. b \in [1..n -> Samples]
        BY <4>2
      <4>4. b \in Seq(Samples) /\ Len(b) = n
        <5> HIDE DEF b
        <5> QED
          BY <3>2, <4>3
      <4>5. c \in SpeechPackets /\ c.body = b
        <5> HIDE DEF b
        <5> QED
          BY <3>2, <4>4 DEF SpeechPackets, Speech
      <4>6. Len(Payload(c)) = 2 + 2 * n
        <5> HIDE DEF c
        <5> QED
          BY <4>4, <4>5, SpeechIs
      <4>7. Len(Payload(c)) < MaxLength
        BY <3>1, <3>2, <3>4, <4>6, Numbers
      <4> HIDE DEF c
      <4> QED
        BY <2>1, <4>1, <4>5, <4>7 DEF ReadPackets, AllPackets
    <3> QED
      BY <3>3, <3>4
  <2> QED
    BY <2>2, <2>3
<1>4. CASE type \notin {TypeControl, TypeChannel, TypeSpeech}
  BY <1>4 DEF Parse
<1> QED
  BY <1>1, <1>2, <1>3, <1>4

\* What may be written is a packet, and read_packet accepts its length.
LEMMA PacketsIs == Packets \subseteq ReadPackets
  BY AmbeFramingAssumption DEF AmbeFramingAssumption, ReadPackets, AllPackets

\* to_bytes: the start byte, the length, the type, the payload.
LEMMA BytesAre ==
    ASSUME NEW p \in ReadPackets
    PROVE  /\ ToBytes(p) \in Seq(Byte)
           /\ Len(Payload(p)) \in Nat /\ Len(ToBytes(p)) = Size(p)
           /\ ToBytes(p)[1] = StartByte
           /\ U16(ToBytes(p)[2], ToBytes(p)[3]) = 1 + Len(Payload(p))
           /\ ToBytes(p)[4] = p.type
           /\ \A j \in 1..Len(Payload(p)) : ToBytes(p)[4 + j] = Payload(p)[j]
           /\ HeaderOf(p) \in Headers /\ HeaderOf(p) # NoHeader
<1>1. PICK P \in Seq(Byte) : P = Payload(p) /\ Len(P) < MaxLength
  BY PayloadIs DEF ReadPackets
<1>2. PICK n \in Nat : n = 1 + Len(P)
  BY <1>1
<1>3. n < Base * Base
  BY <1>1, <1>2, Numbers
<1>4. /\ BigEndian(n) \in Seq(Byte) /\ Len(BigEndian(n)) = 2
      /\ U16(BigEndian(n)[1], BigEndian(n)[2]) = n
  BY <1>3, U16Back
<1>5. PICK L \in Seq(Byte) : L = BigEndian(n) /\ Len(L) = 2
  BY <1>4
<1>6. p.type \in Byte
  BY PayloadIs DEF ReadPackets
<1>7. ToBytes(p) = <<StartByte>> \o L \o <<p.type>> \o P
  BY <1>1, <1>2, <1>5 DEF ToBytes
<1> DEFINE S == <<StartByte>>
           T == <<p.type>>
           G == S \o L
           H == G \o T
<1>a. /\ S \in Seq(Byte) /\ Len(S) = 1 /\ S[1] = StartByte
      /\ T \in Seq(Byte) /\ Len(T) = 1 /\ T[1] = p.type
  BY <1>6, SmallBytes
<1>11. ToBytes(p) = H \o P
  BY <1>7
<1> HIDE DEF S, T, G, H
<1>8. /\ G \in Seq(Byte) /\ Len(G) = 3
      /\ G[1] = StartByte /\ G[2] = L[1] /\ G[3] = L[2]
  <2>1. /\ S \o L \in Seq(Byte) /\ Len(S \o L) = Len(S) + Len(L)
        /\ \A j \in 1..(Len(S) + Len(L)) :
             (S \o L)[j] = IF j <= Len(S) THEN S[j] ELSE L[j - Len(S)]
    BY <1>a, Joined
  <2>2. G \in Seq(Byte) /\ Len(G) = 3
        /\ \A j \in 1..3 : G[j] = IF j <= 1 THEN S[j] ELSE L[j - 1]
    BY <2>1, <1>5, <1>a DEF G
  <2> QED
    BY <2>2, <1>a
<1>9. /\ H \in Seq(Byte) /\ Len(H) = 4 /\ H[1] = StartByte
      /\ H[2] = L[1] /\ H[3] = L[2] /\ H[4] = p.type
  <2>1. /\ G \o T \in Seq(Byte) /\ Len(G \o T) = Len(G) + Len(T)
        /\ \A j \in 1..(Len(G) + Len(T)) :
             (G \o T)[j] = IF j <= Len(G) THEN G[j] ELSE T[j - Len(G)]
    BY <1>8, <1>a, Joined
  <2>2. H \in Seq(Byte) /\ Len(H) = 4
        /\ \A j \in 1..4 : H[j] = IF j <= 3 THEN G[j] ELSE T[j - 3]
    BY <2>1, <1>8, <1>a DEF H
  <2> QED
    BY <2>2, <1>8, <1>a
<1>10. /\ H \o P \in Seq(Byte) /\ Len(H \o P) = 4 + Len(P)
       /\ \A k \in 1..4 : (H \o P)[k] = H[k]
       /\ \A j \in 1..Len(P) : (H \o P)[4 + j] = P[j]
  <2>1. /\ H \o P \in Seq(Byte) /\ Len(H \o P) = Len(H) + Len(P)
        /\ \A j \in 1..Len(H) : (H \o P)[j] = H[j]
        /\ \A j \in 1..Len(P) : (H \o P)[Len(H) + j] = P[j]
    BY <1>9, Joined
  <2> QED
    BY <2>1, <1>9
<1>12. HeaderOf(p) \in Headers /\ HeaderOf(p) # NoHeader
  <2>1. HeaderOf(p) = [length |-> n, type |-> p.type]
    BY <1>1, <1>2 DEF HeaderOf
  <2>2. n \in 1..MaxLength
    BY <1>1, <1>2, Numbers
  <2>3. HeaderOf(p).length # NoHeader.length
    BY <2>1, <2>2 DEF NoHeader
  <2> QED
    BY <1>6, <2>1, <2>2, <2>3 DEF Headers
<1> QED
  BY <1>1, <1>2, <1>4, <1>5, <1>9, <1>10, <1>11, <1>12 DEF Size

-----------------------------------------------------------------------------
(* Types.                                                                  *)

TypeInv == TypeOK /\ packets \in Seq(ReadPackets)

\* What TypeOK says of the packets read.
LEMMA PacketsAreBytes ==
    ASSUME NEW ps \in Seq(ReadPackets)
    PROVE  \A i \in DOMAIN ps :
             /\ Len(Payload(ps[i])) < MaxLength
             /\ \A j \in DOMAIN Payload(ps[i]) : Payload(ps[i])[j] \in Byte
<1> SUFFICES ASSUME NEW i \in DOMAIN ps
             PROVE  /\ Len(Payload(ps[i])) < MaxLength
                    /\ \A j \in DOMAIN Payload(ps[i]) : Payload(ps[i])[j] \in Byte
  OBVIOUS
<1>1. PICK p \in ReadPackets : p = ps[i]
  OBVIOUS
<1>2. Payload(p) \in Seq(Byte) /\ Len(Payload(p)) < MaxLength
  BY PayloadIs DEF ReadPackets
<1> QED
  BY <1>1, <1>2

\* What is left after n bytes.
LEMMA Rest ==
    ASSUME NEW w \in Seq(Byte), NEW n \in Nat, n <= Len(w)
    PROVE  /\ SubSeq(w, n + 1, Len(w)) \in Seq(Byte)
           /\ Len(SubSeq(w, n + 1, Len(w))) = Len(w) - n
           /\ \A x \in 1..(Len(w) - n) : SubSeq(w, n + 1, Len(w))[x] = w[x + n]
  OBVIOUS

LEMMA TypesInit == Init => TypeInv
<1> SUFFICES ASSUME Init PROVE TypeInv
  OBVIOUS
<1>1. /\ <<>> \in Seq(Byte) /\ <<>> \in Seq(Packets) /\ <<>> \in Seq(ReadPackets)
      /\ Len(<<>>) = 0
  OBVIOUS
<1>2. packets = <<>> /\ packets \in Seq(ReadPackets)
  BY <1>1 DEF Init
<1>3. written \in Seq(Packets) /\ Len(written) <= MaxPackets
  BY <1>1, Numbers DEF Init
<1>4. 0 \in 0..MaxStray
  BY Numbers
<1>5. wire \in Seq(Byte)
  BY <1>1 DEF Init
<1> QED
  BY <1>2, <1>3, <1>4, <1>5, PacketsAreBytes DEF Init, TypeInv, TypeOK

LEMMA TypesWrite ==
    ASSUME TypeInv, NEW p \in Packets, WritePacket(p) \/ BreakOff(p)
    PROVE  TypeInv'
<1>1. PICK t \in Seq(Byte) : t = ToBytes(p)
  BY PacketsIs, BytesAre
<1>2. wire' \in Seq(Byte)
  <2>1. CASE WritePacket(p)
    BY <1>1, <2>1, Joined DEF TypeInv, TypeOK, WritePacket
  <2>2. CASE BreakOff(p)
    <3>1. PICK n \in 0..(Len(t) - 1) : wire' = wire \o SubSeq(t, 1, n)
      BY <1>1, <2>2 DEF BreakOff
    <3>2. SubSeq(t, 1, n) \in Seq(Byte)
      BY <3>1
    <3> QED
      BY <3>1, <3>2, Joined DEF TypeInv, TypeOK
  <2> QED
    BY <2>1, <2>2
<1>3. written' \in Seq(Packets) /\ Len(written') <= MaxPackets
  <2>1. CASE WritePacket(p)
    BY <2>1, Numbers DEF TypeInv, TypeOK, WritePacket
  <2>2. CASE BreakOff(p)
    BY <2>2 DEF TypeInv, TypeOK, BreakOff
  <2> QED
    BY <2>1, <2>2
<1>4. packets' = packets /\ packets' \in Seq(ReadPackets)
  BY DEF TypeInv, WritePacket, BreakOff
<1> QED
  BY <1>2, <1>3, <1>4, PacketsAreBytes
     DEF TypeInv, TypeOK, WritePacket, BreakOff

LEMMA TypesStray ==
    ASSUME TypeInv, NEW b \in Byte, StrayByte(b)
    PROVE  TypeInv'
<1>1. wire' \in Seq(Byte)
  BY DEF TypeInv, TypeOK, StrayByte
<1>2. stray' \in 0..MaxStray
  BY Numbers DEF TypeInv, TypeOK, StrayByte
<1>3. packets' = packets /\ packets' \in Seq(ReadPackets) /\ misled' \in BOOLEAN
  BY DEF TypeInv, TypeOK, StrayByte
<1> QED
  BY <1>1, <1>2, <1>3, PacketsAreBytes DEF TypeInv, TypeOK, StrayByte

\* The bytes a header takes.
LEMMA HeaderTypes ==
    ASSUME TypeInv, Len(wire) >= 4
    PROVE  /\ U16(wire[2], wire[3]) \in Nat /\ wire[4] \in Byte
           /\ GoodLength(U16(wire[2], wire[3])) =>
                [length |-> U16(wire[2], wire[3]), type |-> wire[4]] \in Headers
<1>1. wire[2] \in Byte /\ wire[3] \in Byte /\ wire[4] \in Byte
  BY DEF TypeInv, TypeOK
<1>2. PICK n \in Nat : n = U16(wire[2], wire[3])
  BY <1>1, U16Type
<1>3. GoodLength(n) => n \in 1..MaxLength
  BY Numbers DEF GoodLength
<1> QED
  BY <1>1, <1>2, <1>3 DEF Headers

LEMMA TypesRead ==
    ASSUME TypeInv, Reader
    PROVE  TypeInv'
<1>1. CASE Resync
  <2>1. wire' \in Seq(Byte)
    BY <1>1, Rest DEF TypeInv, TypeOK, Resync, CanRead, Consume
  <2>2. packets' = packets /\ packets' \in Seq(ReadPackets)
    BY <1>1 DEF TypeInv, Resync
  <2> QED
    BY <1>1, <2>1, <2>2, PacketsAreBytes
       DEF TypeInv, TypeOK, Resync, writerVars
<1>2. CASE ReadHeader \/ BadLength
  <2>1. wire' \in Seq(Byte) /\ Len(wire) >= 4
    BY <1>2, Rest
       DEF TypeInv, TypeOK, ReadHeader, BadLength, AtHeader, CanRead, Consume
  <2>2. packets' = packets /\ packets' \in Seq(ReadPackets)
    BY <1>2 DEF TypeInv, ReadHeader, BadLength, AtHeader
  <2>3. header' \in Headers \cup {NoHeader}
    BY <1>2, <2>1, HeaderTypes DEF ReadHeader, BadLength
  <2>4. state' \in {"reading", "eof", "failed"} /\ errors' \in Nat
    BY <1>2 DEF TypeInv, TypeOK, ReadHeader, BadLength, Fails
  <2> QED
    BY <1>2, <2>1, <2>2, <2>3, <2>4, PacketsAreBytes
       DEF TypeInv, TypeOK, ReadHeader, BadLength, AtHeader, writerVars
<1>3. CASE ReadPayload
  <2>1. /\ header.length \in 1..MaxLength /\ header.type \in Byte
        /\ Len(wire) >= header.length - 1
    BY <1>3 DEF TypeInv, TypeOK, ReadPayload, Headers, CanRead
  <2>2. PICK n \in Nat : n = header.length - 1 /\ n < MaxLength /\ n <= Len(wire)
    BY <2>1, Numbers DEF TypeInv, TypeOK
  <2>3. wire' \in Seq(Byte)
    BY <1>3, <2>2, Rest DEF TypeInv, TypeOK, ReadPayload, Consume
  <2>4. SubSeq(wire, 1, n) \in Seq(Byte) /\ Len(SubSeq(wire, 1, n)) = n
    BY <2>2 DEF TypeInv, TypeOK
  <2>5. PICK p : p = Parse(header.type, SubSeq(wire, 1, n))
    OBVIOUS
  <2>6. p \in ReadPackets \cup {Malformed}
    BY <2>1, <2>2, <2>4, <2>5, ParseType
  <2>7. IF p = Malformed THEN UNCHANGED packets /\ Fails
          ELSE packets' = Append(packets, p) /\ UNCHANGED <<state, errors>>
    BY <1>3, <2>2, <2>5 DEF ReadPayload
  <2>8. /\ packets' \in Seq(ReadPackets)
        /\ state' \in {"reading", "eof", "failed"} /\ errors' \in Nat
    <3>0. packets \in Seq(ReadPackets) /\ errors \in Nat
          /\ state \in {"reading", "eof", "failed"}
      BY DEF TypeInv, TypeOK
    <3>1. CASE p = Malformed
      BY <2>7, <3>0, <3>1 DEF Fails
    <3>2. CASE p # Malformed
      <4>1. p \in ReadPackets
        BY <2>6, <3>2
      <4> QED
        BY <2>7, <3>0, <3>2, <4>1
    <3> QED
      BY <3>1, <3>2
  <2> QED
    BY <1>3, <2>3, <2>8, PacketsAreBytes
       DEF TypeInv, TypeOK, ReadPayload, writerVars
<1>4. CASE EndOfFile
  <2>1. packets' = packets /\ packets' \in Seq(ReadPackets) /\ wire' \in Seq(Byte)
    BY <1>4 DEF TypeInv, EndOfFile
  <2> QED
    BY <1>4, <2>1, PacketsAreBytes DEF TypeInv, TypeOK, EndOfFile, writerVars
<1> QED
  BY <1>1, <1>2, <1>3, <1>4 DEF Reader

LEMMA TypesNext == TypeInv /\ [Next]_vars => TypeInv'
<1> SUFFICES ASSUME TypeInv, [Next]_vars PROVE TypeInv'
  OBVIOUS
<1>1. CASE UNCHANGED vars
  <2>1. packets' = packets /\ packets' \in Seq(ReadPackets)
    BY <1>1 DEF TypeInv, vars
  <2> QED
    BY <1>1, <2>1 DEF TypeInv, TypeOK, vars
<1> QED
  BY <1>1, TypesWrite, TypesStray, TypesRead DEF Next

\* Every byte is a byte and every length is in range, whatever was written; and
\* whatever read_packet returns could have been written.
THEOREM TypeCorrect == Spec => []TypeOK
<1>1. TypeInv => TypeOK
  BY DEF TypeInv
<1> QED
  BY <1>1, TypesInit, TypesNext, PTL DEF Spec

-----------------------------------------------------------------------------
(* The line of packets, and what the writer does to it.                    *)

LEMMA Sizes ==
    ASSUME NEW p \in ReadPackets
    PROVE  /\ Size(p) \in Nat /\ Size(p) >= 4
           /\ Len(Payload(p)) \in Nat /\ Size(p) = 4 + Len(Payload(p))
  BY BytesAre DEF Size

\* More bytes after what is there disturb no packet.
LEMMA BytesLonger ==
    ASSUME NEW w \in Seq(Byte), NEW t \in Seq(Byte), NEW a \in Int,
           NEW p \in ReadPackets, Bytes(w, a, p), a + Size(p) <= Len(w)
    PROVE  Bytes(w \o t, a, p)
<1> DEFINE v == w \o t
<1>1. /\ Len(v) = Len(w) + Len(t)
      /\ \A j \in 1..(Len(w) + Len(t)) :
           v[j] = IF j <= Len(w) THEN w[j] ELSE t[j - Len(w)]
  BY Joined
<1> HIDE DEF v
<1>2. ASSUME NEW x \in 1..Len(v), a < x /\ x <= a + Size(p)
      PROVE  v[x] = ToBytes(p)[x - a]
  <2>1. x \in 1..Len(w) /\ x <= Len(w) + Len(t)
    BY <1>1, <1>2, Sizes
  <2>2. v[x] = w[x]
    BY <1>1, <2>1
  <2> QED
    BY <1>2, <2>1, <2>2 DEF Bytes
<1>3. Bytes(v, a, p)
  BY <1>2 DEF Bytes
<1> QED
  BY <1>3 DEF v

\* What the writer appends is what it meant to.
LEMMA BytesAppended ==
    ASSUME NEW w \in Seq(Byte), NEW p \in ReadPackets, NEW t \in Seq(Byte),
           Len(t) <= Size(p), \A j \in 1..Len(t) : t[j] = ToBytes(p)[j]
    PROVE  Bytes(w \o t, Len(w), p)
<1> DEFINE v == w \o t
<1>1. /\ Len(v) = Len(w) + Len(t)
      /\ \A j \in 1..(Len(w) + Len(t)) :
           v[j] = IF j <= Len(w) THEN w[j] ELSE t[j - Len(w)]
  BY Joined
<1> HIDE DEF v
<1>2. ASSUME NEW x \in 1..Len(v), Len(w) < x
      PROVE  v[x] = ToBytes(p)[x - Len(w)]
  BY <1>1, <1>2
<1>3. Bytes(v, Len(w), p)
  BY <1>2 DEF Bytes
<1> QED
  BY <1>3 DEF v

LEMMA PlacesLonger ==
    ASSUME NEW w \in Seq(Byte), NEW t \in Seq(Byte), NEW ps \in Seq(ReadPackets),
           NEW r \in Nat, r > 0, NEW at \in [r..Len(ps) -> Int],
           Places(w, ps, at, Len(w))
    PROVE  /\ \A i \in r..Len(ps) : Bytes(w \o t, at[i], ps[i])
           /\ Places(w \o t, ps, at, Len(w))
<1>1. ASSUME NEW i \in r..Len(ps) PROVE Bytes(w \o t, at[i], ps[i])
  <2>1. ps[i] \in ReadPackets /\ at[i] \in Int
    OBVIOUS
  <2>2. Bytes(w, at[i], ps[i]) /\ at[i] + Size(ps[i]) <= Len(w)
    BY DEF Places
  <2> QED
    BY <2>1, <2>2, BytesLonger
<1>2. Len(w \o t) = Len(w) + Len(t) /\ \A j \in 1..Len(w) : (w \o t)[j] = w[j]
  BY Joined
<1>3. ASSUME NEW x \in 1..Len(w \o t), x <= Len(w), (w \o t)[x] = StartByte
      PROVE  \E i \in DOMAIN at : at[i] < x /\ x <= at[i] + Size(ps[i])
  <2>1. x \in 1..Len(w) /\ w[x] = StartByte
    BY <1>2, <1>3
  <2> QED
    BY <2>1 DEF Places
<1>4. Len(w) <= Len(w \o t)
  BY <1>2
<1> QED
  BY <1>1, <1>3, <1>4 DEF Places

\* A packet takes its place at the end.
LEMMA LineWrite ==
    ASSUME NEW w \in Seq(Byte), NEW ps \in Seq(ReadPackets),
           NEW r \in Nat, r > 0, r <= Len(ps) + 1,
           NEW at \in [r..Len(ps) -> Int], NEW hd,
           Line(w, r, ps, at, Len(w), hd, TRUE), NEW p \in ReadPackets
    PROVE  OnLine(w \o ToBytes(p), r, Append(ps, p), hd, TRUE)
<1> DEFINE qs == Append(ps, p)
           l == Len(ps) + 1
           at2 == [i \in r..Len(qs) |-> IF i = l THEN Len(w) ELSE at[i]]
<1>1. PICK t \in Seq(Byte) : t = ToBytes(p) /\ Len(t) = Size(p)
  BY BytesAre
<1> DEFINE v == w \o t
<1>2. v \in Seq(Byte) /\ Len(v) = Len(w) + Size(p)
      /\ \A j \in 1..Len(w) : v[j] = w[j]
  BY <1>1, Joined
<1>3. /\ qs \in Seq(ReadPackets) /\ Len(qs) = l /\ qs[l] = p
      /\ \A i \in r..Len(ps) : qs[i] = ps[i]
  OBVIOUS
<1>4. /\ at2 \in [r..l -> Int] /\ at2[l] = Len(w) /\ l \in r..l
      /\ \A i \in r..Len(ps) : at2[i] = at[i]
      /\ \A i \in r..l : i = l \/ i \in r..Len(ps)
  BY <1>3
<1>5. Places(w, ps, at, Len(w))
  BY DEF Line
<1>6. \A i \in r..Len(ps) : Bytes(v, at[i], ps[i])
  BY <1>1, <1>5, PlacesLonger
<1>7. Bytes(v, Len(w), p)
  BY <1>1, BytesAppended
<1>8. \A i \in r..Len(ps) : at[i] \in Int /\ ps[i] \in ReadPackets
  OBVIOUS
<1>9. Size(p) \in Nat /\ \A i \in r..Len(ps) : Size(ps[i]) \in Nat
  BY <1>8, Sizes
<1> HIDE DEF qs, at2, v
<1>10. Places(v, qs, at2, Len(v))
  <2>1. \A i \in DOMAIN at2 : Bytes(v, at2[i], qs[i]) /\ at2[i] + Size(qs[i]) <= Len(v)
    <3>1. \A i \in r..Len(ps) : at[i] + Size(ps[i]) <= Len(w)
      BY <1>5 DEF Places
    <3>2. \A i \in r..Len(ps) : at[i] + Size(ps[i]) <= Len(v)
      BY <1>2, <1>8, <1>9, <3>1
    <3> QED
      BY <1>2, <1>3, <1>4, <1>6, <1>7, <3>2
  <2>2. ASSUME NEW i \in DOMAIN at2, NEW j \in DOMAIN at2, i < j
        PROVE  at2[i] + Size(qs[i]) <= at2[j]
    <3>1. i \in r..Len(ps)
      BY <1>4, <2>2
    <3>2. CASE j = l
      BY <1>3, <1>4, <1>5, <3>1, <3>2 DEF Places
    <3>3. CASE j \in r..Len(ps)
      BY <1>3, <1>4, <1>5, <2>2, <3>1, <3>3 DEF Places
    <3> QED
      BY <1>4, <3>2, <3>3
  <2>3. ASSUME NEW x \in 1..Len(v), v[x] = StartByte
        PROVE  \E i \in DOMAIN at2 : at2[i] < x /\ x <= at2[i] + Size(qs[i])
    <3>1. CASE x <= Len(w)
      <4>1. x \in 1..Len(w) /\ w[x] = StartByte
        BY <1>2, <2>3, <3>1
      <4>2. PICK i \in r..Len(ps) : at[i] < x /\ x <= at[i] + Size(ps[i])
        BY <1>5, <4>1 DEF Places
      <4> QED
        BY <1>3, <1>4, <4>2
    <3>2. CASE x > Len(w)
      <4>1. l \in DOMAIN at2 /\ at2[l] = Len(w) /\ qs[l] = p
        BY <1>3, <1>4
      <4>2. Len(w) < x /\ x <= Len(w) + Size(p)
        BY <1>2, <3>2
      <4> QED
        BY <4>1, <4>2
    <3> QED
      BY <1>2, <3>1, <3>2
  <2> QED
    BY <1>2, <2>1, <2>2, <2>3 DEF Places
<1>11. hd = NoHeader => Len(v) >= 0 /\ \A i \in DOMAIN at2 : at2[i] >= 0
  <2>1. hd = NoHeader => \A i \in r..Len(ps) : at[i] >= 0
    BY DEF Line
  <2>2. Len(w) \in Nat /\ Len(v) \in Nat
    BY <1>2
  <2>3. ASSUME hd = NoHeader, NEW i \in r..l PROVE at2[i] >= 0
    <3>1. CASE i = l
      BY <1>4, <2>2, <3>1
    <3>2. CASE i \in r..Len(ps)
      BY <1>4, <2>1, <2>3, <3>2
    <3> QED
      BY <1>4, <3>1, <3>2
  <2>4. DOMAIN at2 = r..l
    BY <1>4
  <2> QED
    BY <2>2, <2>3, <2>4
<1>12. hd # NoHeader => r \in DOMAIN at2 /\ at2[r] = -4 /\ hd = HeaderOf(qs[r])
  BY <1>3, <1>4 DEF Line
<1>13. Line(v, r, qs, at2, Len(v), hd, TRUE)
  BY <1>10, <1>11, <1>12 DEF Line
<1>14. at2 \in [r..Len(qs) -> Int] /\ Len(v) \in Int
  BY <1>2, <1>3, <1>4
<1>15. OnLine(v, r, qs, hd, TRUE)
  BY <1>13, <1>14 DEF OnLine
<1> QED
  BY <1>1, <1>15 DEF qs, v

\* The writer goes away in the middle of a packet.
LEMMA LineBreak ==
    ASSUME NEW w \in Seq(Byte), NEW ps \in Seq(ReadPackets),
           NEW r \in Nat, r > 0,
           NEW at \in [r..Len(ps) -> Int], NEW hd,
           Line(w, r, ps, at, Len(w), hd, TRUE), NEW p \in Packets,
           NEW n \in 0..(Len(ToBytes(p)) - 1)
    PROVE  Line(w \o SubSeq(ToBytes(p), 1, n), r, ps, at, Len(w), hd, FALSE)
<1>1. PICK t \in Seq(Byte) : t = ToBytes(p) /\ Len(t) = Size(p) /\ p \in ReadPackets
  BY PacketsIs, BytesAre
<1> DEFINE u == SubSeq(t, 1, n)
           v == w \o u
<1>2. u \in Seq(Byte) /\ Len(u) = n /\ n < Size(p) /\ \A j \in 1..n : u[j] = t[j]
  BY <1>1
<1> HIDE DEF u
<1>3. v \in Seq(Byte) /\ Len(v) = Len(w) + n
  BY <1>2, Joined
<1>4. Places(v, ps, at, Len(w))
  BY <1>2, PlacesLonger DEF Line
<1>5. Bytes(v, Len(w), p)
  BY <1>1, <1>2, BytesAppended
<1>6. Broken(v, Len(w), hd)
  <2>1. Len(v) < Len(w) + Size(p) /\ ~(Len(w) < 0)
    BY <1>1, <1>2, <1>3, Sizes
  <2> QED
    BY <1>5, <2>1 DEF Broken
<1>7. Line(v, r, ps, at, Len(w), hd, FALSE)
  BY <1>4, <1>6 DEF Line
<1> QED
  BY <1>1, <1>7 DEF u

\* A byte that starts nothing lies between the packets.
LEMMA LineStray ==
    ASSUME NEW w \in Seq(Byte), NEW ps \in Seq(ReadPackets),
           NEW r \in Nat, r > 0,
           NEW at \in [r..Len(ps) -> Int], NEW hd,
           Line(w, r, ps, at, Len(w), hd, TRUE), NEW b \in Byte, b # StartByte
    PROVE  Line(Append(w, b), r, ps, at, Len(w) + 1, hd, TRUE)
<1> DEFINE v == Append(w, b)
<1>1. v = w \o <<b>> /\ <<b>> \in Seq(Byte)
  OBVIOUS
<1>2. v \in Seq(Byte) /\ Len(v) = Len(w) + 1 /\ v[Len(w) + 1] = b
  OBVIOUS
<1> HIDE DEF v
<1>3. /\ Places(v, ps, at, Len(w))
      /\ \A i \in r..Len(ps) : Bytes(v, at[i], ps[i])
  BY <1>1, <1>2, PlacesLonger DEF Line
<1>4. ASSUME NEW i \in r..Len(ps) PROVE at[i] + Size(ps[i]) \in Int
  <2>1. PICK q \in ReadPackets, a \in Int : q = ps[i] /\ a = at[i]
    OBVIOUS
  <2>2. Size(q) \in Nat
    BY Sizes
  <2> QED
    BY <2>1, <2>2
<1>5. \A i \in DOMAIN at : at[i] + Size(ps[i]) <= Len(v)
  <2>1. \A i \in r..Len(ps) : at[i] + Size(ps[i]) <= Len(w)
    BY <1>3 DEF Places
  <2> QED
    BY <1>2, <1>4, <2>1
<1>6. Places(v, ps, at, Len(v))
  <2>1. ASSUME NEW x \in 1..Len(v), v[x] = StartByte
        PROVE  \E i \in DOMAIN at : at[i] < x /\ x <= at[i] + Size(ps[i])
    <3>1. x <= Len(w)
      BY <1>2, <2>1
    <3> QED
      BY <1>3, <2>1, <3>1 DEF Places
  <2>2. \A i, j \in DOMAIN at : i < j => at[i] + Size(ps[i]) <= at[j]
    BY <1>3 DEF Places
  <2>3. Len(v) <= Len(v) /\ \A i \in DOMAIN at : Bytes(v, at[i], ps[i])
    BY <1>2, <1>3
  <2> QED
    BY <1>5, <2>1, <2>2, <2>3 DEF Places
<1>7. Line(v, r, ps, at, Len(v), hd, TRUE)
  BY <1>2, <1>6 DEF Line
<1> QED
  BY <1>2, <1>7 DEF v

-----------------------------------------------------------------------------
(* What the reader takes from the line.                                    *)

LEMMA BytesShift ==
    ASSUME NEW w \in Seq(Byte), NEW n \in Nat, n <= Len(w), NEW a \in Int,
           NEW p \in ReadPackets, Bytes(w, a, p)
    PROVE  Bytes(SubSeq(w, n + 1, Len(w)), a - n, p)
<1>1. PICK v \in Seq(Byte) : /\ v = SubSeq(w, n + 1, Len(w))
                             /\ Len(v) = Len(w) - n
                             /\ \A x \in 1..(Len(w) - n) : v[x] = w[x + n]
  BY Rest
<1>2. ASSUME NEW x \in 1..Len(v), a - n < x, x <= a - n + Size(p)
      PROVE  v[x] = ToBytes(p)[x - (a - n)]
  <2>1. Size(p) \in Nat
    BY Sizes
  <2>2. x + n \in 1..Len(w) /\ a < x + n /\ x + n <= a + Size(p)
        /\ (x + n) - a = x - (a - n)
    BY <1>1, <1>2, <2>1
  <2>3. w[x + n] = ToBytes(p)[(x + n) - a]
    BY <2>2 DEF Bytes
  <2> QED
    BY <1>1, <2>2, <2>3
<1> QED
  BY <1>1, <1>2 DEF Bytes

\* After n bytes, the packets from the q-th on have moved up; those before it
\* are read.
LEMMA PlacesShift ==
    ASSUME NEW w \in Seq(Byte), NEW n \in Nat, n <= Len(w),
           NEW ps \in Seq(ReadPackets), NEW r \in Nat, r > 0,
           NEW at \in [r..Len(ps) -> Int], NEW cut \in Int,
           Places(w, ps, at, cut), NEW q \in Nat, r <= q,
           \A i \in r..Len(ps) : i < q => at[i] + Size(ps[i]) <= n
    PROVE  Places(SubSeq(w, n + 1, Len(w)), ps, Moved(at, q..Len(ps), n), cut - n)
<1> DEFINE at2 == Moved(at, q..Len(ps), n)
<1>1. PICK v \in Seq(Byte) : /\ v = SubSeq(w, n + 1, Len(w))
                             /\ Len(v) = Len(w) - n
                             /\ \A x \in 1..(Len(w) - n) : v[x] = w[x + n]
  BY Rest
<1>2. ASSUME NEW i \in r..Len(ps)
      PROVE  at[i] \in Int /\ ps[i] \in ReadPackets /\ Size(ps[i]) \in Nat
  <2>1. at[i] \in Int /\ ps[i] \in ReadPackets
    OBVIOUS
  <2> QED
    BY <2>1, Sizes
<1>3. /\ DOMAIN at = r..Len(ps) /\ DOMAIN at2 = q..Len(ps)
      /\ \A i \in q..Len(ps) : i \in r..Len(ps) /\ at2[i] = at[i] - n
  BY DEF Moved
<1> HIDE DEF at2
<1>4. cut - n <= Len(v)
  BY <1>1 DEF Places
<1>5. ASSUME NEW i \in q..Len(ps)
      PROVE  Bytes(v, at2[i], ps[i]) /\ at2[i] + Size(ps[i]) <= cut - n
  <2>1. Bytes(w, at[i], ps[i]) /\ at[i] + Size(ps[i]) <= cut
    BY <1>3 DEF Places
  <2>2. at[i] \in Int /\ ps[i] \in ReadPackets /\ Size(ps[i]) \in Nat
    BY <1>2, <1>3
  <2>3. Bytes(v, at[i] - n, ps[i])
    BY <1>1, <2>1, <2>2, BytesShift
  <2> QED
    BY <1>3, <2>1, <2>2, <2>3
<1>6. ASSUME NEW i \in q..Len(ps), NEW j \in q..Len(ps), i < j
      PROVE  at2[i] + Size(ps[i]) <= at2[j]
  <2>1. at[i] + Size(ps[i]) <= at[j]
    BY <1>3, <1>6 DEF Places
  <2> QED
    BY <1>2, <1>3, <2>1
<1>7. ASSUME NEW x \in 1..Len(v), x <= cut - n, v[x] = StartByte
      PROVE  \E i \in q..Len(ps) : at2[i] < x /\ x <= at2[i] + Size(ps[i])
  <2>0. x \in 1..(Len(w) - n) /\ v[x] = w[x + n]
    BY <1>1
  <2>1. x + n \in 1..Len(w) /\ x + n <= cut /\ w[x + n] = StartByte
    BY <1>7, <2>0
  <2>2. PICK i \in r..Len(ps) : at[i] < x + n /\ x + n <= at[i] + Size(ps[i])
    BY <1>3, <2>1 DEF Places
  <2>3. at[i] \in Int /\ Size(ps[i]) \in Nat
    BY <1>2
  <2>4. ~(i < q)
    BY <2>2, <2>3
  <2>a. i \in q..Len(ps)
    BY <2>4
  <2>5. i \in q..Len(ps) /\ at2[i] = at[i] - n
    BY <1>3, <2>a
  <2>6. at2[i] < x /\ x <= at2[i] + Size(ps[i])
    BY <2>2, <2>3, <2>5
  <2> QED
    BY <2>a, <2>6
<1>8. Places(v, ps, at2, cut - n)
  BY <1>3, <1>4, <1>5, <1>6, <1>7 DEF Places
<1> QED
  BY <1>1, <1>8 DEF at2

\* What is broken off keeps its place, too.
LEMMA BrokenShift ==
    ASSUME NEW w \in Seq(Byte), NEW n \in Nat, n <= Len(w), NEW cut \in Int,
           NEW hd, Broken(w, cut, hd), cut >= n, NEW hd2
    PROVE  Broken(SubSeq(w, n + 1, Len(w)), cut - n, hd2)
<1>1. PICK p \in Packets : Bytes(w, cut, p) /\ Len(w) < cut + Size(p)
  BY DEF Broken
<1>2. p \in ReadPackets /\ Size(p) \in Nat
  BY PacketsIs, Sizes
<1>3. PICK v \in Seq(Byte) : v = SubSeq(w, n + 1, Len(w)) /\ Len(v) = Len(w) - n
  BY Rest
<1>4. Bytes(v, cut - n, p)
  BY <1>1, <1>2, <1>3, BytesShift
<1>5. Len(v) < cut - n + Size(p) /\ ~(cut - n < 0)
  BY <1>1, <1>2, <1>3
<1>6. Broken(v, cut - n, hd2)
  BY <1>4, <1>5 DEF Broken
<1> QED
  BY <1>3, <1>6

\* The first byte of what begins here is the start byte; with four bytes, the
\* header is the packet's.
LEMMA HeaderHere ==
    ASSUME NEW w \in Seq(Byte), NEW p \in ReadPackets, Bytes(w, 0, p)
    PROVE  /\ Len(w) >= 1 => w[1] = StartByte
           /\ Len(w) >= 4 =>
                [length |-> U16(w[2], w[3]), type |-> w[4]] = HeaderOf(p)
<1>1. Size(p) \in Nat /\ Size(p) >= 4
  BY Sizes
<1>2. \A x \in 1..4 : x <= Len(w) => w[x] = ToBytes(p)[x]
  BY <1>1 DEF Bytes
<1>3. Len(w) >= 1 => w[1] = StartByte
  BY <1>2, BytesAre
<1>4. ASSUME Len(w) >= 4
      PROVE  [length |-> U16(w[2], w[3]), type |-> w[4]] = HeaderOf(p)
  <2>1. w[2] = ToBytes(p)[2] /\ w[3] = ToBytes(p)[3] /\ w[4] = ToBytes(p)[4]
    BY <1>2, <1>4
  <2> QED
    BY <2>1, BytesAre DEF HeaderOf
<1> QED
  BY <1>3, <1>4

\* A start byte at the front is the next packet's, whole or broken off.
LEMMA Starts ==
    ASSUME NEW w \in Seq(Byte), Len(w) >= 1, w[1] = StartByte,
           NEW ps \in Seq(ReadPackets), NEW r \in Nat, r > 0,
           NEW at \in [r..Len(ps) -> Int], NEW cut \in Int, NEW there \in BOOLEAN,
           Line(w, r, ps, at, cut, NoHeader, there)
    PROVE  \/ r \in r..Len(ps) /\ at[r] = 0
           \/ cut = 0 /\ ~there
<1>1. cut >= 0 /\ \A i \in r..Len(ps) : at[i] >= 0
  BY DEF Line
<1>2. ASSUME NEW i \in r..Len(ps)
      PROVE  at[i] \in Int /\ Size(ps[i]) \in Nat /\ Size(ps[i]) >= 4
  <2>1. at[i] \in Int /\ ps[i] \in ReadPackets
    OBVIOUS
  <2> QED
    BY <2>1, Sizes
<1>3. CASE cut >= 1
  <2>1. PICK i \in r..Len(ps) : at[i] < 1 /\ 1 <= at[i] + Size(ps[i])
    BY <1>3 DEF Line, Places
  <2>2. at[i] = 0
    BY <1>1, <1>2, <2>1
  <2>3. r \in r..Len(ps)
    OBVIOUS
  <2>4. ~(r < i)
    <3>1. ASSUME r < i PROVE FALSE
      <4>1. at[r] + Size(ps[r]) <= at[i]
        BY <2>3, <3>1 DEF Line, Places
      <4> QED
        BY <1>1, <1>2, <2>2, <2>3, <4>1
    <3> QED
      BY <3>1
  <2> QED
    BY <2>2, <2>3, <2>4
<1>4. CASE cut = 0
  BY <1>4 DEF Line
<1> QED
  BY <1>1, <1>3, <1>4

\* A byte that starts nothing is skipped, and no packet with it.
LEMMA LineResync ==
    ASSUME NEW w \in Seq(Byte), Len(w) >= 1, w[1] # StartByte,
           NEW ps \in Seq(ReadPackets), NEW r \in Nat, r > 0,
           NEW at \in [r..Len(ps) -> Int], NEW cut \in Int, NEW there \in BOOLEAN,
           Line(w, r, ps, at, cut, NoHeader, there)
    PROVE  OnLine(SubSeq(w, 1 + 1, Len(w)), r, ps, NoHeader, there)
<1> DEFINE at2 == Moved(at, r..Len(ps), 1)
<1>1. cut >= 0 /\ \A i \in r..Len(ps) : at[i] >= 0
  BY DEF Line
<1>2. ASSUME NEW i \in r..Len(ps) PROVE at[i] >= 1 /\ at[i] \in Int
  <2>1. at[i] \in Int /\ ps[i] \in ReadPackets /\ Bytes(w, at[i], ps[i])
    BY DEF Line, Places
  <2>2. at[i] # 0
    BY <2>1, HeaderHere
  <2> QED
    BY <1>1, <2>1, <2>2
<1>3. cut >= 1
  <2>1. ASSUME cut = 0 PROVE FALSE
    <3>1. Broken(w, 0, NoHeader)
      BY <2>1 DEF Line
    <3>2. PICK p \in Packets : Bytes(w, 0, p)
      BY <3>1 DEF Broken
    <3> QED
      BY <3>2, PacketsIs, HeaderHere
  <2> QED
    BY <1>1, <2>1
<1>4. PICK v : v = SubSeq(w, 1 + 1, Len(w))
  OBVIOUS
<1>5. Len(v) = Len(w) - 1
  BY <1>4, Rest
<1>6. Places(v, ps, at2, cut - 1)
  <2>1. Places(w, ps, at, cut)
    BY DEF Line
  <2>2. \A i \in r..Len(ps) : i < r => at[i] + Size(ps[i]) <= 1
    OBVIOUS
  <2>3. 1 \in Nat /\ 1 <= Len(w) /\ r <= r
    OBVIOUS
  <2>4. Places(SubSeq(w, 1 + 1, Len(w)), ps, Moved(at, r..Len(ps), 1), cut - 1)
    BY <2>1, <2>2, <2>3, PlacesShift
  <2> QED
    BY <1>4, <2>4
<1>7. IF there THEN cut - 1 = Len(v) ELSE Broken(v, cut - 1, NoHeader)
  <2>1. CASE there
    BY <1>5, <2>1 DEF Line
  <2>2. CASE ~there
    <3>1. Broken(w, cut, NoHeader)
      BY <2>2 DEF Line
    <3> QED
      BY <1>3, <1>4, <2>2, <3>1, BrokenShift
  <2> QED
    BY <2>1, <2>2
<1>8. at2 \in [r..Len(ps) -> Int] /\ cut - 1 >= 0 /\ \A i \in r..Len(ps) : at2[i] >= 0
  BY <1>2, <1>3 DEF Moved
<1> HIDE DEF at2
<1>9. Line(v, r, ps, at2, cut - 1, NoHeader, there)
  BY <1>6, <1>7, <1>8 DEF Line
<1>10. cut - 1 \in Int
  OBVIOUS
<1> QED
  BY <1>4, <1>8, <1>9, <1>10 DEF OnLine

\* A header is the header of a packet that was written, or broken off.
LEMMA LineHeader ==
    ASSUME NEW w \in Seq(Byte), Len(w) >= 4, w[1] = StartByte,
           NEW ps \in Seq(ReadPackets), NEW r \in Nat, r > 0,
           NEW at \in [r..Len(ps) -> Int], NEW cut \in Int, NEW there \in BOOLEAN,
           Line(w, r, ps, at, cut, NoHeader, there)
    PROVE  \E p \in ReadPackets :
             /\ [length |-> U16(w[2], w[3]), type |-> w[4]] = HeaderOf(p)
             /\ OnLine(SubSeq(w, 4 + 1, Len(w)), r, ps, HeaderOf(p), there)
<1> DEFINE at2 == Moved(at, r..Len(ps), 4)
<1>1. PICK v : v = SubSeq(w, 4 + 1, Len(w))
  OBVIOUS
<1>2. Len(v) = Len(w) - 4
  BY <1>1, Rest
<1>3. Places(v, ps, at2, cut - 4)
  <2>1. Places(w, ps, at, cut)
    BY DEF Line
  <2>2. \A i \in r..Len(ps) : i < r => at[i] + Size(ps[i]) <= 4
    OBVIOUS
  <2>3. 4 \in Nat /\ 4 <= Len(w) /\ r <= r
    OBVIOUS
  <2>4. Places(SubSeq(w, 4 + 1, Len(w)), ps, Moved(at, r..Len(ps), 4), cut - 4)
    BY <2>1, <2>2, <2>3, PlacesShift
  <2> QED
    BY <1>1, <2>4
<1>4. at2 \in [r..Len(ps) -> Int] /\ \A i \in r..Len(ps) : at2[i] = at[i] - 4
  BY DEF Moved
<1> HIDE DEF at2
<1>5. CASE r \in r..Len(ps) /\ at[r] = 0
  <2>1. PICK p \in ReadPackets : p = ps[r]
    BY <1>5
  <2>2. Bytes(w, 0, p) /\ 0 + Size(p) <= cut
    BY <1>5, <2>1 DEF Line, Places
  <2>3. [length |-> U16(w[2], w[3]), type |-> w[4]] = HeaderOf(p)
    BY <2>2, HeaderHere
  <2>4. cut >= 4
    BY <2>2, Sizes
  <2>5. IF there THEN cut - 4 = Len(v) ELSE Broken(v, cut - 4, HeaderOf(p))
    <3>1. CASE there
      BY <1>2, <3>1 DEF Line
    <3>2. CASE ~there
      <4>1. Broken(w, cut, NoHeader)
        BY <3>2 DEF Line
      <4> QED
        BY <1>1, <2>4, <3>2, <4>1, BrokenShift
    <3> QED
      BY <3>1, <3>2
  <2>6. r \in DOMAIN at2 /\ at2[r] = -4 /\ HeaderOf(p) = HeaderOf(ps[r])
    BY <1>4, <1>5, <2>1
  <2>7. HeaderOf(p) # NoHeader
    BY BytesAre
  <2>8. Line(v, r, ps, at2, cut - 4, HeaderOf(p), there) /\ cut - 4 \in Int
    BY <1>3, <2>5, <2>6, <2>7 DEF Line
  <2>9. OnLine(v, r, ps, HeaderOf(p), there)
    BY <1>4, <2>8 DEF OnLine
  <2> QED
    BY <1>1, <2>3, <2>9
<1>6. CASE cut = 0 /\ ~there
  <2>1. Broken(w, 0, NoHeader)
    BY <1>6 DEF Line
  <2>2. PICK p \in Packets : Bytes(w, 0, p) /\ Len(w) < 0 + Size(p)
    BY <2>1 DEF Broken
  <2>3. p \in ReadPackets /\ Size(p) \in Nat
    BY PacketsIs, Sizes
  <2>4. [length |-> U16(w[2], w[3]), type |-> w[4]] = HeaderOf(p)
    BY <2>2, <2>3, HeaderHere
  <2>5. Bytes(v, -4, p)
    <3>1. Bytes(v, 0 - 4, p)
      BY <1>1, <2>2, <2>3, BytesShift
    <3>2. 0 - 4 = -4
      OBVIOUS
    <3> QED
      BY <3>1, <3>2
  <2>6. Len(v) < -4 + Size(p)
    BY <1>2, <2>2, <2>3
  <2>7. Broken(v, -4, HeaderOf(p))
    BY <2>5, <2>6 DEF Broken
  <2>8. HeaderOf(p) # NoHeader
    BY <2>3, BytesAre
  <2>9. Places(v, ps, at2, -4)
    BY <1>3, <1>6
  <2>10. Line(v, r, ps, at2, -4, HeaderOf(p), there)
    BY <1>6, <2>7, <2>8, <2>9 DEF Line
  <2>11. OnLine(v, r, ps, HeaderOf(p), there)
    <3>1. -4 \in Int
      OBVIOUS
    <3> QED
      BY <1>4, <2>10, <3>1 DEF OnLine
  <2> QED
    BY <1>1, <2>3, <2>4, <2>11
<1> QED
  <2>1. Len(w) >= 1
    OBVIOUS
  <2>2. (r \in r..Len(ps) /\ at[r] = 0) \/ (cut = 0 /\ ~there)
    BY <2>1, Starts
  <2> QED
    BY <1>5, <1>6, <2>2

\* The payload behind a header is the next packet's.
LEMMA LinePayload ==
    ASSUME NEW w \in Seq(Byte), NEW hd \in Headers, hd # NoHeader,
           NEW n \in Nat, n = hd.length - 1, n <= Len(w),
           NEW ps \in Seq(ReadPackets), NEW r \in Nat, r > 0,
           NEW at \in [r..Len(ps) -> Int], NEW cut \in Int, NEW there \in BOOLEAN,
           Line(w, r, ps, at, cut, hd, there)
    PROVE  /\ r <= Len(ps)
           /\ Parse(hd.type, SubSeq(w, 1, n)) = ps[r]
           /\ OnLine(SubSeq(w, n + 1, Len(w)), r + 1, ps, NoHeader, there)
<1>1. r \in r..Len(ps) /\ at[r] = -4 /\ hd = HeaderOf(ps[r])
  <2>1. ASSUME cut = -4, ~there PROVE FALSE
    <3>1. Broken(w, -4, hd)
      BY <2>1 DEF Line
    <3>2. PICK p \in Packets : Len(w) < -4 + Size(p) /\ hd = HeaderOf(p)
      BY <3>1 DEF Broken
    <3>3. p \in ReadPackets /\ Len(Payload(p)) \in Nat /\ Size(p) = 4 + Len(Payload(p))
      BY PacketsIs, Sizes
    <3>4. n = Len(Payload(p))
      BY <3>2, <3>3 DEF HeaderOf
    <3> QED
      BY <3>2, <3>3, <3>4
  <2>2. r \in DOMAIN at /\ at[r] = -4 /\ hd = HeaderOf(ps[r])
    BY <2>1 DEF Line
  <2> QED
    BY <2>2
<1>2. PICK p \in ReadPackets : p = ps[r]
  BY <1>1
<1>3. /\ Payload(p) \in Seq(Byte) /\ Len(Payload(p)) \in Nat
      /\ Size(p) = 4 + Len(Payload(p))
  BY Sizes, PayloadIs DEF ReadPackets
<1>4. hd.length = 1 + Len(Payload(p)) /\ hd.type = p.type /\ n = Len(Payload(p))
  BY <1>1, <1>2, <1>3 DEF HeaderOf
<1>5. Bytes(w, -4, p)
  BY <1>1, <1>2 DEF Line, Places
<1>6. SubSeq(w, 1, n) = Payload(p)
  <2>1. ASSUME NEW j \in 1..n PROVE w[j] = Payload(p)[j]
    <3>1. j \in 1..Len(w) /\ -4 < j /\ j <= -4 + Size(p) /\ j - (-4) = 4 + j
      BY <1>3, <1>4
    <3>2. w[j] = ToBytes(p)[j - (-4)]
      BY <1>5, <3>1 DEF Bytes
    <3>3. ToBytes(p)[4 + j] = Payload(p)[j]
      BY <1>4, BytesAre
    <3> QED
      BY <3>1, <3>2, <3>3
  <2>2. PICK P \in Seq(Byte) : P = Payload(p) /\ Len(P) = n
    BY <1>3, <1>4
  <2>3. \A j \in 1..n : SubSeq(w, 1, n)[j] = P[j]
    BY <2>1, <2>2
  <2>4. SubSeq(w, 1, n) \in Seq(Byte) /\ Len(SubSeq(w, 1, n)) = n
    OBVIOUS
  <2> QED
    BY <2>2, <2>3, <2>4
<1>7. Parse(hd.type, SubSeq(w, 1, n)) = ps[r]
  BY <1>2, <1>4, <1>6, ParseBack DEF ReadPackets
<1> DEFINE at2 == Moved(at, (r + 1)..Len(ps), n)
<1>8. at[r] + Size(ps[r]) = n
  BY <1>1, <1>2, <1>3, <1>4
<1>9. PICK v : v = SubSeq(w, n + 1, Len(w))
  OBVIOUS
<1>10. Len(v) = Len(w) - n
  BY <1>9, Rest
<1>11. Places(v, ps, at2, cut - n)
  <2>1. \A i \in r..Len(ps) : i < r + 1 => at[i] + Size(ps[i]) <= n
    BY <1>8
  <2>2. Places(w, ps, at, cut)
    BY DEF Line
  <2> QED
    <3>1. r + 1 \in Nat /\ r <= r + 1
      OBVIOUS
    <3>2. Places(SubSeq(w, n + 1, Len(w)), ps, Moved(at, (r + 1)..Len(ps), n), cut - n)
      BY <2>1, <2>2, <3>1, PlacesShift
    <3> QED
      BY <1>9, <3>2
<1>12. cut >= n
  BY <1>1, <1>8 DEF Line, Places
<1>13. ASSUME NEW i \in (r + 1)..Len(ps) PROVE at2[i] >= 0 /\ at2[i] \in Int
  <2>1. i \in r..Len(ps) /\ r < i /\ at[i] \in Int
    OBVIOUS
  <2>2. at[r] + Size(ps[r]) <= at[i]
    BY <1>1, <2>1 DEF Line, Places
  <2> QED
    BY <1>8, <2>1, <2>2 DEF Moved
<1>14. at2 \in [(r + 1)..Len(ps) -> Int]
  BY <1>13 DEF Moved
<1>15. IF there THEN cut - n = Len(v) ELSE Broken(v, cut - n, NoHeader)
  <2>1. CASE there
    BY <1>10, <2>1 DEF Line
  <2>2. CASE ~there
    <3>1. Broken(w, cut, hd)
      BY <2>2 DEF Line
    <3> QED
      BY <1>9, <1>12, <2>2, <3>1, BrokenShift
  <2> QED
    BY <2>1, <2>2
<1> HIDE DEF at2
<1>16. Line(v, r + 1, ps, at2, cut - n, NoHeader, there)
  BY <1>11, <1>12, <1>13, <1>14, <1>15 DEF Line
<1>17. cut - n \in Int /\ r <= Len(ps)
  BY <1>1
<1>18. OnLine(v, r + 1, ps, NoHeader, there)
  BY <1>14, <1>16, <1>17 DEF OnLine
<1> QED
  BY <1>7, <1>9, <1>17, <1>18

-----------------------------------------------------------------------------
(* The stream.                                                             *)

LEMMA StreamTypes ==
    ASSUME TypeInv
    PROVE  /\ wire \in Seq(Byte) /\ written \in Seq(ReadPackets)
           /\ packets \in Seq(ReadPackets) /\ open \in BOOLEAN
           /\ misled \in BOOLEAN /\ errors \in Nat
           /\ header \in Headers \cup {NoHeader}
           /\ Len(packets) + 1 \in Nat /\ Len(packets) + 1 > 0
  BY PacketsIs DEF TypeInv, TypeOK

LEMMA StreamInit == Init => StreamInv
<1> SUFFICES ASSUME Init PROVE Faithful /\ InLine
  BY DEF StreamInv
<1>1. /\ wire = <<>> /\ packets = <<>> /\ written = <<>>
      /\ header = NoHeader /\ open = TRUE /\ errors = 0 /\ state = "reading"
  BY DEF Init
<1>2. Faithful
  BY <1>1 DEF Faithful
<1> DEFINE at == [i \in 1..0 |-> 0]
<1>3. at \in [1..0 -> Int] /\ Places(<<>>, <<>>, at, 0)
  BY DEF Places
<1>4. Line(<<>>, 1, <<>>, at, 0, NoHeader, TRUE)
  BY <1>3 DEF Line
<1> HIDE DEF at
<1>5. Len(packets) + 1 = 1 /\ Len(written) = 0
  BY <1>1
<1>6. InLine
  <2>1. Line(wire, Len(packets) + 1, written, at, 0, header, open)
    BY <1>1, <1>4, <1>5
  <2>2. at \in [(Len(packets) + 1)..Len(written) -> Int] /\ 0 \in Int
    BY <1>3, <1>5
  <2> QED
    BY <2>1, <2>2, Zenon DEF InLine, OnLine
<1> QED
  BY <1>2, <1>6

\* A packet is written, whole or not.
LEMMA StreamWrite ==
    ASSUME TypeInv, Faithful, state = "reading" => InLine,
           NEW p \in Packets, WritePacket(p) \/ BreakOff(p)
    PROVE  Faithful' /\ (state' = "reading" => InLine')
<1>1. p \in ReadPackets
  BY PacketsIs
<1>2. CASE WritePacket(p)
  <2>1. /\ open = TRUE /\ open' = TRUE /\ packets' = packets /\ header' = header
        /\ state' = state /\ errors' = errors
        /\ written' = Append(written, p) /\ wire' = wire \o ToBytes(p)
    BY <1>2, StreamTypes DEF WritePacket
  <2>2. Faithful'
    <3>1. Len(written') = Len(written) + 1
          /\ \A i \in 1..Len(written) : written'[i] = written[i]
      BY <2>1, StreamTypes
    <3>2. Len(packets) \in Nat /\ Len(written) \in Nat /\ DOMAIN packets = 1..Len(packets)
      BY StreamTypes
    <3> QED
      BY <2>1, <3>1, <3>2 DEF Faithful
  <2>3. ASSUME state = "reading" PROVE InLine'
    <3>1. PICK at \in [(Len(packets) + 1)..Len(written) -> Int], cut \in Int :
            Line(wire, Len(packets) + 1, written, at, cut, header, TRUE)
      BY <2>1, <2>3 DEF InLine, OnLine
    <3>2. cut = Len(wire)
      BY <3>1 DEF Line
    <3>3. Len(packets) + 1 <= Len(written) + 1
      BY StreamTypes DEF Faithful
    <3>4. OnLine(wire \o ToBytes(p), Len(packets) + 1, Append(written, p),
                 header, TRUE)
      BY <1>1, <3>1, <3>2, <3>3, StreamTypes, LineWrite
    <3> QED
      BY <2>1, <3>4 DEF InLine
  <2> QED
    BY <2>1, <2>2, <2>3
<1>3. CASE BreakOff(p)
  <2>1. /\ open = TRUE /\ open' = FALSE /\ packets' = packets /\ header' = header
        /\ state' = state /\ errors' = errors /\ written' = written
    BY <1>3, StreamTypes DEF BreakOff
  <2>2. PICK n \in 0..(Len(ToBytes(p)) - 1) :
          wire' = wire \o SubSeq(ToBytes(p), 1, n)
    BY <1>3 DEF BreakOff
  <2>3. Faithful'
    BY <2>1 DEF Faithful
  <2>4. ASSUME state = "reading" PROVE InLine'
    <3>1. PICK at \in [(Len(packets) + 1)..Len(written) -> Int], cut \in Int :
            Line(wire, Len(packets) + 1, written, at, cut, header, TRUE)
      BY <2>1, <2>4 DEF InLine, OnLine
    <3>2. cut = Len(wire)
      BY <3>1 DEF Line
    <3>3. Line(wire \o SubSeq(ToBytes(p), 1, n), Len(packets) + 1, written,
               at, Len(wire), header, FALSE)
      BY <3>1, <3>2, StreamTypes, LineBreak
    <3>4. Line(wire', Len(packets') + 1, written', at, cut, header', open')
      BY <2>1, <2>2, <3>2, <3>3
    <3>5. at \in [(Len(packets') + 1)..Len(written') -> Int]
      BY <2>1
    <3> QED
      BY <3>4, <3>5 DEF InLine, OnLine
  <2> QED
    BY <2>1, <2>3, <2>4
<1> QED
  BY <1>2, <1>3

\* A stray byte that does not look like a start.
LEMMA StreamStray ==
    ASSUME TypeInv, Faithful, state = "reading" => InLine,
           NEW b \in Byte, b # StartByte, StrayByte(b)
    PROVE  Faithful' /\ (state' = "reading" => InLine')
<1>1. /\ open = TRUE /\ open' = TRUE /\ packets' = packets /\ header' = header
      /\ state' = state /\ errors' = errors /\ written' = written
      /\ wire' = Append(wire, b)
  BY StreamTypes DEF StrayByte
<1>2. Faithful'
  BY <1>1 DEF Faithful
<1>3. ASSUME state = "reading" PROVE InLine'
  <2>1. PICK at \in [(Len(packets) + 1)..Len(written) -> Int], cut \in Int :
          Line(wire, Len(packets) + 1, written, at, cut, header, TRUE)
    BY <1>1, <1>3 DEF InLine, OnLine
  <2>2. cut = Len(wire) /\ cut + 1 \in Int
    BY <2>1 DEF Line
  <2>3. Line(Append(wire, b), Len(packets) + 1, written, at, Len(wire) + 1, header, TRUE)
    BY <2>1, <2>2, StreamTypes, LineStray
  <2>4. Line(wire', Len(packets') + 1, written', at, cut + 1, header', open')
    BY <1>1, <2>2, <2>3
  <2>5. at \in [(Len(packets') + 1)..Len(written') -> Int]
    BY <1>1
  <2> QED
    BY <2>2, <2>4, <2>5 DEF InLine, OnLine
<1> QED
  BY <1>1, <1>2, <1>3

\* What the reader does with the first byte.
LEMMA StreamResync ==
    ASSUME TypeInv, Faithful, state = "reading" => InLine, Resync
    PROVE  Faithful' /\ (state' = "reading" => InLine')
<1>1. /\ header = NoHeader /\ header' = NoHeader /\ state = "reading"
      /\ Len(wire) >= 1 /\ wire[1] # StartByte
      /\ wire' = SubSeq(wire, 1 + 1, Len(wire))
      /\ open' = open /\ packets' = packets /\ state' = state /\ errors' = errors
      /\ written' = written
  BY StreamTypes DEF Resync, CanRead, Consume, writerVars
<1>2. Faithful'
  BY <1>1 DEF Faithful
<1>3. PICK at \in [(Len(packets) + 1)..Len(written) -> Int], cut \in Int :
        Line(wire, Len(packets) + 1, written, at, cut, NoHeader, open)
  BY <1>1 DEF InLine, OnLine
<1>4. OnLine(SubSeq(wire, 1 + 1, Len(wire)), Len(packets) + 1, written,
             NoHeader, open)
  BY <1>1, <1>3, StreamTypes, LineResync
<1>5. InLine'
  BY <1>1, <1>4 DEF InLine
<1> QED
  BY <1>2, <1>5

\* What it does with a header; a length it refuses is never met.
LEMMA StreamHeader ==
    ASSUME TypeInv, Faithful, state = "reading" => InLine, ReadHeader \/ BadLength
    PROVE  Faithful' /\ (state' = "reading" => InLine')
<1> DEFINE length == U16(wire[2], wire[3])
<1>1. /\ header = NoHeader /\ state = "reading"
      /\ Len(wire) >= 4 /\ wire[1] = StartByte
      /\ wire' = SubSeq(wire, 4 + 1, Len(wire))
      /\ open' = open /\ packets' = packets /\ written' = written
  BY StreamTypes DEF ReadHeader, BadLength, AtHeader, CanRead, Consume, writerVars
<1>2. PICK at \in [(Len(packets) + 1)..Len(written) -> Int], cut \in Int :
        Line(wire, Len(packets) + 1, written, at, cut, NoHeader, open)
  BY <1>1 DEF InLine, OnLine
<1>3. PICK p \in ReadPackets :
        /\ [length |-> length, type |-> wire[4]] = HeaderOf(p)
        /\ OnLine(SubSeq(wire, 4 + 1, Len(wire)), Len(packets) + 1, written,
                  HeaderOf(p), open)
  <2>1. Len(wire) >= 4 /\ wire[1] = StartByte
    BY <1>1
  <2> QED
    BY <1>2, <2>1, StreamTypes, LineHeader
<1>4. length \in 1..MaxLength
  BY <1>3, BytesAre DEF Headers
<1>5. ReadHeader
  BY <1>4, Numbers DEF BadLength, GoodLength
<1>6. header' = HeaderOf(p) /\ state' = state /\ errors' = errors
  BY <1>3, <1>5 DEF ReadHeader
<1>7. Faithful'
  BY <1>1, <1>6 DEF Faithful
<1>8. InLine'
  BY <1>1, <1>3, <1>6 DEF InLine
<1> QED
  BY <1>7, <1>8

\* What it does with a payload: the next packet is returned.
LEMMA StreamPayload ==
    ASSUME TypeInv, Faithful, state = "reading" => InLine, ReadPayload
    PROVE  Faithful' /\ (state' = "reading" => InLine')
<1>a. PICK r \in Nat : r = Len(packets) + 1 /\ r > 0
  BY StreamTypes
<1>b. wire \in Seq(Byte) /\ written \in Seq(ReadPackets) /\ open \in BOOLEAN
  BY StreamTypes
<1>1. /\ header # NoHeader /\ header \in Headers /\ state = "reading"
      /\ header' = NoHeader
      /\ open' = open /\ written' = written
  BY StreamTypes DEF ReadPayload, CanRead, writerVars
<1>2. PICK n \in Nat : n = header.length - 1
  BY <1>1, Numbers DEF Headers
<1>3. n <= Len(wire) /\ wire' = SubSeq(wire, n + 1, Len(wire))
  BY <1>2 DEF ReadPayload, CanRead, Consume
<1>4. PICK at \in [r..Len(written) -> Int], cut \in Int :
        Line(wire, r, written, at, cut, header, open)
  BY <1>1, <1>a DEF InLine, OnLine
<1>5. /\ r <= Len(written)
      /\ Parse(header.type, SubSeq(wire, 1, n)) = written[r]
      /\ OnLine(SubSeq(wire, n + 1, Len(wire)), r + 1, written, NoHeader, open)
  <2>1. header \in Headers /\ header # NoHeader /\ n <= Len(wire) /\ r > 0
    BY <1>1, <1>3, <1>a
  <2> QED
    BY <1>2, <1>4, <1>b, <2>1, LinePayload
<1>6. written[r] \in ReadPackets
  BY <1>5, <1>a, <1>b
<1>7. written[r] # Malformed
  <2>1. PICK p \in ReadPackets : p = written[r]
    BY <1>6
  <2>2. "body" \in DOMAIN p
    BY DEF ReadPackets, AllPackets, ControlPackets, ChannelPackets, SpeechPackets
  <2>3. "body" \notin DOMAIN Malformed
    BY DEF Malformed
  <2> QED
    BY <2>1, <2>2, <2>3
<1>8. packets' = Append(packets, written[r]) /\ state' = state /\ errors' = errors
  BY <1>2, <1>5, <1>7 DEF ReadPayload
<1>9. /\ Len(packets') = r /\ DOMAIN packets' = 1..r
      /\ \A i \in 1..r : packets'[i] = IF i = r THEN written[r] ELSE packets[i]
      /\ DOMAIN packets = 1..(r - 1)
  BY <1>8, <1>a, StreamTypes
<1>10. Faithful'
  BY <1>1, <1>5, <1>8, <1>9, <1>a DEF Faithful
<1>11. InLine'
  BY <1>1, <1>3, <1>5, <1>9 DEF InLine
<1> QED
  BY <1>10, <1>11

LEMMA StreamNext == TypeInv /\ StreamInv /\ [Next]_vars => StreamInv'
<1> SUFFICES ASSUME TypeInv, StreamInv, [Next]_vars, ~misled'
             PROVE  Faithful' /\ (state' = "reading" => InLine')
  BY DEF StreamInv
<1>1. ASSUME NEW b \in Byte, StrayByte(b)
      PROVE  Faithful' /\ (state' = "reading" => InLine')
  <2>1. ~misled /\ b # StartByte
    BY <1>1, StreamTypes DEF StrayByte
  <2> QED
    BY <1>1, <2>1, StreamStray DEF StreamInv
<1>2. ASSUME ~(\E b \in Byte : StrayByte(b)) PROVE misled' = misled
  BY <1>2 DEF Next, vars, WritePacket, BreakOff, Reader, Resync, ReadHeader,
              BadLength, AtHeader, ReadPayload, EndOfFile, writerVars
<1>3. CASE ~misled
  <2>1. Faithful /\ (state = "reading" => InLine)
    BY <1>3 DEF StreamInv
  <2>2. CASE UNCHANGED vars
    BY <2>1, <2>2 DEF vars, Faithful, InLine
  <2>3. ASSUME NEW p \in Packets, WritePacket(p) \/ BreakOff(p)
        PROVE  Faithful' /\ (state' = "reading" => InLine')
    BY <2>1, <2>3, StreamWrite
  <2>4. CASE Resync
    BY <2>1, <2>4, StreamResync
  <2>5. CASE ReadHeader \/ BadLength
    BY <2>1, <2>5, StreamHeader
  <2>6. CASE ReadPayload
    BY <2>1, <2>6, StreamPayload
  <2>7. CASE EndOfFile
    BY <2>1, <2>7 DEF EndOfFile, Faithful, writerVars
  <2> QED
    BY <1>1, <2>2, <2>3, <2>4, <2>5, <2>6, <2>7 DEF Next, Reader
<1> QED
  BY <1>1, <1>2, <1>3

\* The invariant holds, and with it the types.
LEMMA StreamHolds == Spec => [](TypeInv /\ StreamInv)
  BY TypesInit, TypesNext, StreamInit, StreamNext, PTL DEF Spec

\* What read_packet returns is what to_bytes was given, each packet once and in
\* order, and nothing is refused: whatever the payloads hold, wherever the
\* stream breaks off, and whatever bytes that are no start byte lie between.
THEOREM Transparent == Spec => []PacketsAreTransparent
<1>1. TypeInv /\ StreamInv => PacketsAreTransparent
  <2> SUFFICES ASSUME TypeInv, StreamInv, ~misled
               PROVE  IsPrefix(packets, written) /\ errors = 0
    BY DEF PacketsAreTransparent
  <2>1. Faithful
    BY DEF StreamInv
  <2>2. /\ Len(packets) <= Len(written)
        /\ DOMAIN packets = 1..Len(packets)
        /\ \A i \in 1..Len(packets) : packets[i] = written[i]
    BY <2>1, StreamTypes DEF Faithful
  <2>3. SubSeq(written, 1, Len(packets)) = packets
    BY <2>2, StreamTypes
  <2> QED
    BY <2>1, <2>2, <2>3 DEF Faithful, IsPrefix
<1> QED
  BY <1>1, StreamHolds, PTL

\* A reader that has to wait has returned all that was written: no length, no
\* rest and no stray byte holds a packet back.
THEOREM NothingHeld == Spec => []NothingIsHeldBack
<1>1. TypeInv /\ StreamInv => NothingIsHeldBack
  <2> SUFFICES ASSUME TypeInv, StreamInv, ~misled, state = "reading",
                      Len(wire) < Wanted, open
               PROVE  packets = written
    BY DEF NothingIsHeldBack
  <2> DEFINE r == Len(packets) + 1
  <2>1. Faithful /\ InLine
    BY DEF StreamInv
  <2>2. PICK at \in [r..Len(written) -> Int], cut \in Int :
          Line(wire, r, written, at, cut, header, open)
    BY <2>1 DEF InLine, OnLine
  <2>3. cut = Len(wire) /\ Len(wire) \in Nat
    BY <2>2, StreamTypes DEF Line
  <2>4. ASSUME r <= Len(written) PROVE FALSE
    <3>1. PICK p \in ReadPackets : p = written[r]
      BY <2>4, StreamTypes
    <3>2. Size(p) = 4 + Len(Payload(p)) /\ Len(Payload(p)) \in Nat
      BY Sizes
    <3>3. at[r] + Size(p) <= Len(wire) /\ at[r] \in Int
      BY <2>2, <2>3, <2>4, <3>1, StreamTypes DEF Line, Places
    <3>4. CASE header = NoHeader
      <4>1. at[r] >= 0
        BY <2>2, <2>4, <3>4, StreamTypes DEF Line
      <4>2. Wanted = 1 \/ Wanted = 4
        BY <3>4 DEF Wanted
      <4> QED
        BY <2>3, <3>2, <3>3, <4>1, <4>2
    <3>5. CASE header # NoHeader
      <4>1. at[r] = -4 /\ header = HeaderOf(p)
        BY <2>2, <3>1, <3>5 DEF Line
      <4>2. Wanted = Len(Payload(p))
        BY <3>2, <3>5, <4>1 DEF Wanted, HeaderOf
      <4> QED
        BY <2>3, <3>2, <3>3, <4>1, <4>2
    <3> QED
      BY <3>4, <3>5
  <2>5. Len(packets) = Len(written)
    BY <2>1, <2>4, StreamTypes DEF Faithful
  <2>6. \A i \in 1..Len(written) : packets[i] = written[i]
    BY <2>1, <2>5, StreamTypes DEF Faithful
  <2> QED
    BY <2>5, <2>6, StreamTypes
<1> QED
  BY <1>1, StreamHolds, PTL

=============================================================================
