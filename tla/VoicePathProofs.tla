-------------------------- MODULE VoicePathProofs --------------------------
(***************************************************************************)
(* The voice path carries every burst through every noise as VoicePath     *)
(* says: what TLC checks for some bursts and some noise follows here for   *)
(* all of them from four facts about the code.  The syndrome is linear, so *)
(* a block's is the one of its errors, and the table (TableAssumption:     *)
(* data, which TLC evaluates on every pattern of up to three errors) then  *)
(* names the wrong data bits; the interleaving tables put each bit of a    *)
(* frame in a cell of its own; C1 is descrambled with the corrected data   *)
(* of C0, which are the ones it was scrambled with; and both packings of   *)
(* the 49 bits are undone on the other side.                               *)
(***************************************************************************)
EXTENDS VoicePath, TLAPS, FiniteSetTheorems, FunctionTheorems, SequenceTheorems

-----------------------------------------------------------------------------
(* The Golay code.                                                         *)

\* Words are finite.
LEMMA Finite ==
    ASSUME NEW word, word \subseteq 0..23
    PROVE  IsFiniteSet(word) /\ Cardinality(word) \in Nat
<1>1. IsFiniteSet(0..23)
  <2>1. 0 \in Int /\ 23 \in Int
    OBVIOUS
  <2> QED
    BY <2>1, FS_Interval, Zenon
<1> QED
  BY <1>1, FS_Subset, FS_CardinalityType

\* The parity of a sum.
LEMMA OddSum ==
    ASSUME NEW A, NEW B, IsFiniteSet(A), IsFiniteSet(B)
    PROVE  Odd(SymDiff(A, B)) <=> (Odd(A) <=> ~Odd(B))
<1> DEFINE a == Cardinality(A)
           b == Cardinality(B)
           c == Cardinality(A \cap B)
<1>1. a \in Nat /\ b \in Nat /\ c \in Nat /\ B \cap A = A \cap B
  BY FS_CardinalityType, FS_Intersection
<1>2. /\ IsFiniteSet(A \ B) /\ Cardinality(A \ B) = a - c
      /\ IsFiniteSet(B \ A) /\ Cardinality(B \ A) = b - c
  <2>1. IsFiniteSet(A \ B) /\ Cardinality(A \ B) = a - c
    BY FS_Difference
  <2>2. IsFiniteSet(B \ A) /\ Cardinality(B \ A) = b - Cardinality(B \cap A)
    BY FS_Difference
  <2> QED
    BY <1>1, <2>1, <2>2
<1>3. Cardinality(SymDiff(A, B)) = (a - c) + (b - c)
  <2>1. (A \ B) \cap (B \ A) = {}
    OBVIOUS
  <2>2. Cardinality((A \ B) \cap (B \ A)) = 0
    BY <2>1, FS_EmptySet
  <2>3. Cardinality((A \ B) \cup (B \ A)) = (a - c) + (b - c) - 0
    BY <1>2, <2>2, FS_Union
  <2> QED
    BY <1>1, <2>3 DEF SymDiff
<1> HIDE DEF a, b, c
<1>4. ((a - c) + (b - c)) % 2 = 1 <=> (a % 2 = 1 <=> ~(b % 2 = 1))
  BY <1>1
<1> QED
  BY <1>3, <1>4 DEF Odd, a, b

\* The parity bits of a codeword do not show in the syndrome.
LEMMA SyndromeOfError ==
    ASSUME NEW data, data \subseteq 11..22, NEW e, e \subseteq 0..22
    PROVE  Syndrome(SymDiff(Codeword(data), e)) = Syndrome(e)
<1>1. ASSUME NEW p \in 0..10
      PROVE  Odd(SymDiff(Codeword(data), e) \cap ({p} \cup Covers[p]))
               <=> Odd(e \cap ({p} \cup Covers[p]))
  <2> DEFINE M == {p} \cup Covers[p]
             D == data \cap Covers[p]
             X == Codeword(data) \cap M
  <2>1. Covers[p] \subseteq 11..22
    BY DEF Covers
  <2>2. IsFiniteSet(D) /\ Cardinality(D) \in Nat /\ p \notin D
    <3>1. D \subseteq 0..23
      BY <2>1
    <3> QED
      BY <2>1, <3>1, Finite
  <2>3. X = IF Odd(D) THEN D \cup {p} ELSE D
    BY <2>1 DEF Codeword
  <2>4. IsFiniteSet(X) /\ ~Odd(X)
    <3>1. CASE Odd(D)
      <4>1. X = D \cup {p} /\ IsFiniteSet(X) /\ Cardinality(X) = Cardinality(D) + 1
        BY <2>2, <2>3, <3>1, FS_AddElement
      <4> QED
        BY <2>2, <3>1, <4>1 DEF Odd
    <3>2. CASE ~Odd(D)
      BY <2>2, <2>3, <3>2
    <3> QED
      BY <3>1, <3>2
  <2>5. IsFiniteSet(e \cap M)
    <3>1. e \subseteq 0..23
      OBVIOUS
    <3>2. e \cap M \subseteq 0..23
      BY <3>1, Zenon
    <3> QED
      BY <3>2, Finite
  <2>6. SymDiff(Codeword(data), e) \cap M = SymDiff(X, e \cap M)
    BY DEF SymDiff
  <2> QED
    BY <2>4, <2>5, <2>6, OddSum
<1> QED
  BY <1>1 DEF Syndrome

\* At most three positions.
LEMMA UpToThree ==
    ASSUME NEW e, e \subseteq 0..22, Cardinality(e) <= 3
    PROVE  e = {} \/ \E a, b, c \in 0..22 : e = {a, b, c}
<1>1. IsFiniteSet(e) /\ Cardinality(e) \in Nat
  <2>1. e \subseteq 0..23
    OBVIOUS
  <2> QED
    BY <2>1, Finite
<1>2. CASE e # {}
  <2>1. PICK a \in e : TRUE
    BY <1>2
  <2> DEFINE f == e \ {a}
  <2>2. IsFiniteSet(f) /\ Cardinality(f) = Cardinality(e) - 1
    BY <1>1, <2>1, FS_RemoveElement
  <2>3. CASE f = {}
    <3>1. a \in 0..22 /\ e = {a, a, a}
      BY <2>1, <2>3
    <3> QED
      BY <3>1
  <2>4. CASE f # {}
    <3>1. PICK b \in f : TRUE
      BY <2>4
    <3> DEFINE g == f \ {b}
    <3>2. IsFiniteSet(g) /\ Cardinality(g) = Cardinality(f) - 1
      BY <2>2, <3>1, FS_RemoveElement
    <3>3. CASE g = {}
      <4>1. /\ a \in 0..22 /\ b \in 0..22 /\ a \in e /\ b \in e
            /\ \A x \in e : x = a \/ x = b
        BY <2>1, <3>1, <3>3
      <4>2. e = {a, b, b}
        BY <4>1
      <4> QED
        BY <4>1, <4>2
    <3>4. CASE g # {}
      <4>1. PICK c \in g : TRUE
        BY <3>4
      <4>2. IsFiniteSet(g \ {c}) /\ Cardinality(g \ {c}) = Cardinality(g) - 1
            /\ Cardinality(g \ {c}) \in Nat
        BY <3>2, <4>1, FS_RemoveElement, FS_CardinalityType
      <4>3. Cardinality(g \ {c}) = 0
        BY <1>1, <2>2, <3>2, <4>2
      <4>4. g \ {c} = {}
        BY <4>2, <4>3, FS_EmptySet
      <4>5. /\ a \in 0..22 /\ b \in 0..22 /\ c \in 0..22
            /\ \A x \in e : x = a \/ x = b \/ x = c
        BY <2>1, <3>1, <4>1, <4>4
      <4>6. a \in e /\ b \in e /\ c \in e
        BY <2>1, <3>1, <4>1
      <4>7. e = {a, b, c}
        BY <4>5, <4>6
      <4> QED
        BY <4>5, <4>7
    <3> QED
      BY <3>3, <3>4
  <2> QED
    BY <2>3, <2>4
<1> QED
  BY <1>2

\* Whatever the data, up to three errors in a block are found, and those in the
\* data bits are flipped back.
LEMMA GolayCorrects ==
    ASSUME NEW data, data \subseteq 11..22, NEW e, e \subseteq 0..22, Cardinality(e) <= 3
    PROVE  Corrections(SymDiff(Codeword(data), e)) = e \cap (11..22)
<1>1. Corrections(SymDiff(Codeword(data), e)) = Corrections(e)
  BY SyndromeOfError DEF Corrections
<1>2. Corrections(e) = e \cap (11..22)
  <2>1. CASE e = {}
    BY <2>1, TableAssumption
  <2>2. CASE \E a, b, c \in 0..22 : e = {a, b, c}
    <3>1. PICK a \in 0..22, b \in 0..22, c \in 0..22 : e = {a, b, c}
      BY <2>2
    <3>2. Corrections({a, b, c}) = {a, b, c} \cap (11..22)
      BY TableAssumption
    <3> QED
      BY <3>1, <3>2, Zenon
  <2> QED
    BY <2>1, <2>2, UpToThree
<1> QED
  BY <1>1, <1>2

-----------------------------------------------------------------------------
(* The 49 bits between the programs.                                       *)

\* Voice bit i in a Channel packet, and in the daemon's frame but for the last.
Octet(i) == <<i \div 8, 7 - (i % 8)>>
Octet8(i) == <<(i \div 8) + 1, 7 - (i % 8)>>

\* The data of a Channel packet, and the daemon's frame, of some voice bits.
Packed(data, bits) ==
    /\ \A b \in data : \E i \in bits : b = Octet(i)
    /\ \A i \in bits : Octet(i) \in data

InFrame(b, bits) == (\E i \in bits : i < 48 /\ b = Octet8(i)) \/ (b = <<7, 0>> /\ 48 \in bits)

Framed(amb8, bits) ==
    /\ \A b \in amb8 : InFrame(b, bits)
    /\ \A i \in bits : i < 48 => Octet8(i) \in amb8
    /\ 48 \in bits => <<7, 0>> \in amb8

LEMMA Octets ==
    ASSUME NEW i \in 0..48
    PROVE  /\ Octet(i)[1] \in 0..6 /\ Octet(i)[2] \in 0..7
           /\ Octet8(i)[1] = Octet(i)[1] + 1 /\ Octet8(i)[2] = Octet(i)[2]
           /\ Octet8(i) = <<Octet(i)[1] + 1, Octet(i)[2]>>
           /\ Octet(i) = <<Octet8(i)[1] - 1, Octet8(i)[2]>>
           /\ i = 8 * Octet(i)[1] + (7 - Octet(i)[2])
           /\ i < 48 <=> Octet(i)[1] < 6
           /\ i < 48 => Octet8(i)[1] \in 1..6
           /\ i = 48 <=> Octet(i) = <<6, 7>>
<1>1. /\ i \div 8 \in 0..6 /\ i % 8 \in 0..7
      /\ i = 8 * (i \div 8) + (i % 8)
      /\ i < 48 <=> i \div 8 < 6
      /\ i = 48 <=> (i \div 8 = 6 /\ i % 8 = 0)
  OBVIOUS
<1>2. /\ Octet(i)[1] = i \div 8 /\ Octet(i)[2] = 7 - (i % 8)
      /\ Octet8(i)[1] = (i \div 8) + 1 /\ Octet8(i)[2] = 7 - (i % 8)
  BY DEF Octet, Octet8
<1>3. Octet8(i) = <<Octet(i)[1] + 1, Octet(i)[2]>>
  BY <1>2 DEF Octet8
<1>4. Octet(i) = <<Octet8(i)[1] - 1, Octet8(i)[2]>>
  BY <1>1, <1>2 DEF Octet
<1>5. i = 48 <=> Octet(i) = <<6, 7>>
  BY <1>1 DEF Octet
<1> QED
  BY <1>1, <1>2, <1>3, <1>4, <1>5

LEMMA PackedIs ==
    ASSUME NEW bits, bits \subseteq 0..48 PROVE Packed(PackVoiceBits(bits), bits)
BY DEF Packed, PackVoiceBits, Octet

LEMMA FramedIs ==
    ASSUME NEW bits, bits \subseteq 0..48 PROVE Framed(AmbeFrame(bits), bits)
<1>1. \A b : b \in AmbeFrame(bits) <=> \/ \E i \in bits \cap (0..47) : b = Octet8(i)
                                       \/ b = <<7, 0>> /\ 48 \in bits
  BY DEF AmbeFrame, Octet8
<1>2. \A i \in bits : i < 48 <=> i \in 0..47
  OBVIOUS
<1>3. ASSUME NEW i \in bits, i < 48 PROVE Octet8(i) \in AmbeFrame(bits)
  <2>1. i \in bits \cap (0..47)
    BY <1>2, <1>3
  <2> QED
    BY <1>1, <2>1, Zenon
<1>4. 48 \in bits => <<7, 0>> \in AmbeFrame(bits)
  BY <1>1, Zenon
<1>5. ASSUME NEW b \in AmbeFrame(bits) PROVE InFrame(b, bits)
  <2>1. CASE \E i \in bits \cap (0..47) : b = Octet8(i)
    <3>1. PICK i \in bits \cap (0..47) : b = Octet8(i)
      BY <2>1
    <3>2. i \in bits /\ i < 48
      BY <1>2
    <3> QED
      BY <3>1, <3>2 DEF InFrame
  <2>2. CASE b = <<7, 0>> /\ 48 \in bits
    BY <2>2 DEF InFrame
  <2> QED
    BY <1>1, <2>1, <2>2
<1> QED
  BY <1>3, <1>4, <1>5 DEF Framed

\* The daemon's frame of a packet's bits.
LEMMA FramedOfPacked ==
    ASSUME NEW bits, bits \subseteq 0..48, NEW data, Packed(data, bits)
    PROVE  Framed(Amb8FromChannel(data), bits)
<1>1. \A b : b \in Amb8FromChannel(data) <=>
               \/ \E x \in data : x[1] < 6 /\ b = <<x[1] + 1, x[2]>>
               \/ b = <<7, 0>> /\ <<6, 7>> \in data
  BY DEF Amb8FromChannel
<1>2. <<6, 7>> \in data <=> 48 \in bits
  BY Octets DEF Packed
<1>3. ASSUME NEW x \in data, x[1] < 6
      PROVE  \E i \in bits : i < 48 /\ <<x[1] + 1, x[2]>> = Octet8(i)
  <2>1. PICK i \in bits : x = Octet(i)
    BY DEF Packed
  <2> QED
    BY <1>3, <2>1, Octets
<1>4. ASSUME NEW i \in bits, i < 48
      PROVE  \E x \in data : x[1] < 6 /\ Octet8(i) = <<x[1] + 1, x[2]>>
  <2>1. Octet(i) \in data
    BY DEF Packed
  <2> QED
    BY <1>4, <2>1, Octets
<1>5. ASSUME NEW b \in Amb8FromChannel(data) PROVE InFrame(b, bits)
  <2>1. CASE \E x \in data : x[1] < 6 /\ b = <<x[1] + 1, x[2]>>
    BY <1>3, <2>1 DEF InFrame
  <2>2. CASE b = <<7, 0>> /\ <<6, 7>> \in data
    BY <1>2, <2>2 DEF InFrame
  <2> QED
    BY <1>1, <2>1, <2>2
<1>6. \A i \in bits : i < 48 => Octet8(i) \in Amb8FromChannel(data)
  BY <1>1, <1>4, Zenon
<1>7. 48 \in bits => <<7, 0>> \in Amb8FromChannel(data)
  BY <1>1, <1>2, Zenon
<1> QED
  BY <1>5, <1>6, <1>7 DEF Framed

\* The packet of a daemon's frame.
LEMMA PackedOfFramed ==
    ASSUME NEW bits, bits \subseteq 0..48, NEW amb8, Framed(amb8, bits)
    PROVE  Packed(BuildChannelFromAmb8(amb8), bits)
<1>1. \A b : b \in BuildChannelFromAmb8(amb8) <=>
               \/ \E x \in amb8 : x[1] \in 1..6 /\ b = <<x[1] - 1, x[2]>>
               \/ b = <<6, 7>> /\ <<7, 0>> \in amb8
  BY DEF BuildChannelFromAmb8
<1>2. <<7, 0>> \in amb8 <=> 48 \in bits
  <2>1. ASSUME NEW i \in bits, i < 48 PROVE Octet8(i)[1] # 7
    <3>1. i \in 0..48 /\ Octet8(i)[1] \in 1..6
      BY <2>1, Octets
    <3> QED
      BY <3>1
  <2>2. <<7, 0>>[1] = 7
    OBVIOUS
  <2> QED
    BY <2>1, <2>2 DEF Framed, InFrame
<1>3. ASSUME NEW x \in amb8, x[1] \in 1..6
      PROVE  \E i \in bits : i < 48 /\ <<x[1] - 1, x[2]>> = Octet(i)
  <2>1. x # <<7, 0>>
    BY <1>3
  <2>2. PICK i \in bits : i < 48 /\ x = Octet8(i)
    BY <2>1 DEF Framed, InFrame
  <2>3. i \in 0..48 /\ Octet(i) = <<Octet8(i)[1] - 1, Octet8(i)[2]>>
    BY Octets
  <2> QED
    BY <2>2, <2>3
<1>4. ASSUME NEW i \in bits, i < 48
      PROVE  \E x \in amb8 : x[1] \in 1..6 /\ Octet(i) = <<x[1] - 1, x[2]>>
  <2>1. Octet8(i) \in amb8
    BY <1>4 DEF Framed, InFrame
  <2>2. i \in 0..48 /\ Octet8(i)[1] \in 1..6
    BY <1>4, Octets
  <2> QED
    BY <2>1, <2>2, Octets
<1>5. Octet(48) = <<6, 7>> /\ \A i \in bits : i < 48 \/ i = 48
  BY Octets
<1> QED
  BY <1>1, <1>2, <1>3, <1>4, <1>5 DEF Packed

\* What the firmware finds of a frame.
LEMMA BufferOfFramed ==
    ASSUME NEW bits, bits \subseteq 0..48, NEW amb8, Framed(amb8, bits)
    PROVE  BitBuffer(amb8) = bits
<1>1. \A y : y \in BitBuffer(amb8) <=>
              \/ \E b \in amb8 : b[1] \in 1..6 /\ y = 8 * (b[1] - 1) + (7 - b[2])
              \/ y = 48 /\ <<7, 0>> \in amb8
  BY DEF BitBuffer
<1>2. \A i \in bits : /\ i < 48 => /\ Octet8(i)[1] \in 1..6
                                   /\ 8 * (Octet8(i)[1] - 1) + (7 - Octet8(i)[2]) = i
                      /\ i < 48 \/ i = 48
  BY Octets
<1>3. <<7, 0>>[1] = 7
  OBVIOUS
<1>4. ASSUME NEW b \in amb8, b[1] \in 1..6
      PROVE  8 * (b[1] - 1) + (7 - b[2]) \in bits
  BY <1>2, <1>3, <1>4 DEF Framed, InFrame
<1>5. <<7, 0>> \in amb8 => 48 \in bits
  <2>1. \A i \in bits : i < 48 => Octet8(i)[1] # 7
    BY <1>2
  <2> QED
    BY <1>3, <2>1 DEF Framed, InFrame
<1>6. ASSUME NEW i \in bits PROVE i \in BitBuffer(amb8)
  BY <1>1, <1>2 DEF Framed, InFrame
<1> QED
  BY <1>1, <1>4, <1>5, <1>6

\* Listener and daemon agree about the place of every bit, and so do the two
\* directions of the daemon.
LEMMA BitsArrive ==
    ASSUME NEW bits, bits \subseteq 0..48
    PROVE  /\ BitBuffer(Amb8FromChannel(PackVoiceBits(bits))) = bits
           /\ BitBuffer(Amb8FromChannel(BuildChannelFromAmb8(AmbeFrame(bits)))) = bits
BY PackedIs, FramedIs, FramedOfPacked, PackedOfFramed, BufferOfFramed

-----------------------------------------------------------------------------
(* The places of a burst's bits.                                           *)

\* The four tables, two dibits at a time: each bit of the two runs through a row
\* and on into the next one.
LEMMA Tables ==
    ASSUME NEW h \in 0..17
    PROVE  /\ RW[2 * h + 1] = 0 /\ RX[2 * h + 1] = 23 - h
           /\ RY[2 * h + 1] = IF h <= 5 THEN 0 ELSE 1
           /\ RZ[2 * h + 1] = IF h <= 5 THEN 5 - h ELSE 28 - h
           /\ RW[2 * h + 2] = IF h <= 10 THEN 1 ELSE 2
           /\ RX[2 * h + 2] = IF h <= 10 THEN 10 - h ELSE 21 - h
           /\ RY[2 * h + 2] = IF h <= 3 THEN 2 ELSE 3
           /\ RZ[2 * h + 2] = IF h <= 3 THEN 3 - h ELSE 17 - h
<1>1. \/ h = 0 \/ h = 1 \/ h = 2 \/ h = 3 \/ h = 4 \/ h = 5 \/ h = 6 \/ h = 7 \/ h = 8
      \/ h = 9 \/ h = 10 \/ h = 11 \/ h = 12 \/ h = 13 \/ h = 14 \/ h = 15 \/ h = 16
      \/ h = 17
  OBVIOUS
<1>2. RW[2 * h + 1] = 0
  BY <1>1 DEF RW
<1>3. RX[2 * h + 1] = 23 - h
  BY <1>1 DEF RX
<1>4. RY[2 * h + 1] = IF h <= 5 THEN 0 ELSE 1
  BY <1>1 DEF RY
<1>5. RZ[2 * h + 1] = IF h <= 5 THEN 5 - h ELSE 28 - h
  BY <1>1 DEF RZ
<1>6. RW[2 * h + 2] = IF h <= 10 THEN 1 ELSE 2
  BY <1>1 DEF RW
<1>7. RX[2 * h + 2] = IF h <= 10 THEN 10 - h ELSE 21 - h
  BY <1>1 DEF RX
<1>8. RY[2 * h + 2] = IF h <= 3 THEN 2 ELSE 3
  BY <1>1 DEF RY
<1>9. RZ[2 * h + 2] = IF h <= 3 THEN 3 - h ELSE 17 - h
  BY <1>1 DEF RZ
<1> QED
  BY <1>2, <1>3, <1>4, <1>5, <1>6, <1>7, <1>8, <1>9

\* Row and column of each bit of a frame.
LEMMA Placed ==
    ASSUME NEW h \in 0..17
    PROVE  /\ Place[4 * h] = <<0, 23 - h>>
           /\ Place[4 * h + 1] = IF h <= 5 THEN <<0, 5 - h>> ELSE <<1, 28 - h>>
           /\ Place[4 * h + 2] = IF h <= 10 THEN <<1, 10 - h>> ELSE <<2, 21 - h>>
           /\ Place[4 * h + 3] = IF h <= 3 THEN <<2, 3 - h>> ELSE <<3, 17 - h>>
<1>1. /\ 4 * h \in 0..71 /\ 4 * h + 1 \in 0..71
      /\ 4 * h + 2 \in 0..71 /\ 4 * h + 3 \in 0..71
      /\ (4 * h) \div 2 + 1 = 2 * h + 1 /\ (4 * h + 1) \div 2 + 1 = 2 * h + 1
      /\ (4 * h + 2) \div 2 + 1 = 2 * h + 2 /\ (4 * h + 3) \div 2 + 1 = 2 * h + 2
      /\ (4 * h) % 2 = 0 /\ (4 * h + 1) % 2 = 1
      /\ (4 * h + 2) % 2 = 0 /\ (4 * h + 3) % 2 = 1
  OBVIOUS
<1>2. \A i \in 0..71 : Place[i] = IF i % 2 = 0 THEN <<RW[i \div 2 + 1], RX[i \div 2 + 1]>>
                                  ELSE <<RY[i \div 2 + 1], RZ[i \div 2 + 1]>>
  BY DEF Place
<1>3. /\ Place[4 * h] = <<RW[2 * h + 1], RX[2 * h + 1]>>
      /\ Place[4 * h + 1] = <<RY[2 * h + 1], RZ[2 * h + 1]>>
      /\ Place[4 * h + 2] = <<RW[2 * h + 2], RX[2 * h + 2]>>
      /\ Place[4 * h + 3] = <<RY[2 * h + 2], RZ[2 * h + 2]>>
  BY <1>1, <1>2
<1> QED
  BY <1>3, Tables

\* The bits of an AmbeFr.
Cells == ({0} \X (0..23)) \cup ({1} \X (0..22))
           \cup ({2} \X (0..10)) \cup ({3} \X (0..13))

\* Which bit of a frame belongs into a cell.
BitOf(r, c) == IF r = 0 THEN IF c >= 6 THEN 4 * (23 - c) ELSE 4 * (5 - c) + 1
               ELSE IF r = 1 THEN IF c >= 11 THEN 4 * (28 - c) + 1 ELSE 4 * (10 - c) + 2
               ELSE IF r = 2 THEN IF c >= 4 THEN 4 * (21 - c) + 2 ELSE 4 * (3 - c) + 3
               ELSE 4 * (17 - c) + 3

\* Each bit of a frame has a cell of its own, and each cell a bit.
LEMMA PlaceBack ==
    ASSUME NEW i \in 0..71
    PROVE  Place[i] \in Cells /\ BitOf(Place[i][1], Place[i][2]) = i
<1>1. PICK h \in 0..17 : i = 4 * h \/ i = 4 * h + 1 \/ i = 4 * h + 2 \/ i = 4 * h + 3
  <2>1. i \div 4 \in 0..17 /\ i = 4 * (i \div 4) + (i % 4) /\ i % 4 \in 0..3
    OBVIOUS
  <2> QED
    BY <2>1
<1>2. CASE i = 4 * h
  <2>1. Place[i] = <<0, 23 - h>>
    BY <1>2, Placed
  <2> QED
    BY <1>2, <2>1 DEF Cells, BitOf
<1>3. CASE i = 4 * h + 1
  <2>1. CASE h <= 5
    <3>1. Place[i] = <<0, 5 - h>>
      BY <1>3, <2>1, Placed
    <3> QED
      BY <1>3, <2>1, <3>1 DEF Cells, BitOf
  <2>2. CASE h > 5
    <3>1. Place[i] = <<1, 28 - h>>
      BY <1>3, <2>2, Placed
    <3> QED
      BY <1>3, <2>2, <3>1 DEF Cells, BitOf
  <2> QED
    BY <2>1, <2>2
<1>4. CASE i = 4 * h + 2
  <2>1. CASE h <= 10
    <3>1. Place[i] = <<1, 10 - h>>
      BY <1>4, <2>1, Placed
    <3> QED
      BY <1>4, <2>1, <3>1 DEF Cells, BitOf
  <2>2. CASE h > 10
    <3>1. Place[i] = <<2, 21 - h>>
      BY <1>4, <2>2, Placed
    <3> QED
      BY <1>4, <2>2, <3>1 DEF Cells, BitOf
  <2> QED
    BY <2>1, <2>2
<1>5. CASE i = 4 * h + 3
  <2>1. CASE h <= 3
    <3>1. Place[i] = <<2, 3 - h>>
      BY <1>5, <2>1, Placed
    <3> QED
      BY <1>5, <2>1, <3>1 DEF Cells, BitOf
  <2>2. CASE h > 3
    <3>1. Place[i] = <<3, 17 - h>>
      BY <1>5, <2>2, Placed
    <3> QED
      BY <1>5, <2>2, <3>1 DEF Cells, BitOf
  <2> QED
    BY <2>1, <2>2
<1> QED
  BY <1>1, <1>2, <1>3, <1>4, <1>5

LEMMA CellHasBit ==
    ASSUME NEW x \in Cells
    PROVE  BitOf(x[1], x[2]) \in 0..71 /\ Place[BitOf(x[1], x[2])] = x
<1>1. CASE x \in {0} \X (0..23)
  <2>1. PICK c \in 0..23 : x = <<0, c>>
    BY <1>1
  <2>2. CASE c >= 6
    <3>1. Place[4 * (23 - c)] = <<0, 23 - (23 - c)>> /\ BitOf(0, c) = 4 * (23 - c)
      BY <2>2, Placed DEF BitOf
    <3> QED
      BY <2>1, <2>2, <3>1
  <2>3. CASE c < 6
    <3>1. Place[4 * (5 - c) + 1] = <<0, 5 - (5 - c)>> /\ BitOf(0, c) = 4 * (5 - c) + 1
      BY <2>3, Placed DEF BitOf
    <3> QED
      BY <2>1, <2>3, <3>1
  <2> QED
    BY <2>2, <2>3
<1>2. CASE x \in {1} \X (0..22)
  <2>1. PICK c \in 0..22 : x = <<1, c>>
    BY <1>2
  <2>2. CASE c >= 11
    <3>1. Place[4 * (28 - c) + 1] = <<1, 28 - (28 - c)>> /\ BitOf(1, c) = 4 * (28 - c) + 1
      BY <2>2, Placed DEF BitOf
    <3> QED
      BY <2>1, <2>2, <3>1
  <2>3. CASE c < 11
    <3>1. Place[4 * (10 - c) + 2] = <<1, 10 - (10 - c)>> /\ BitOf(1, c) = 4 * (10 - c) + 2
      BY <2>3, Placed DEF BitOf
    <3> QED
      BY <2>1, <2>3, <3>1
  <2> QED
    BY <2>2, <2>3
<1>3. CASE x \in {2} \X (0..10)
  <2>1. PICK c \in 0..10 : x = <<2, c>>
    BY <1>3
  <2>2. CASE c >= 4
    <3>1. Place[4 * (21 - c) + 2] = <<2, 21 - (21 - c)>> /\ BitOf(2, c) = 4 * (21 - c) + 2
      BY <2>2, Placed DEF BitOf
    <3> QED
      BY <2>1, <2>2, <3>1
  <2>3. CASE c < 4
    <3>1. Place[4 * (3 - c) + 3] = <<2, 3 - (3 - c)>> /\ BitOf(2, c) = 4 * (3 - c) + 3
      BY <2>3, Placed DEF BitOf
    <3> QED
      BY <2>1, <2>3, <3>1
  <2> QED
    BY <2>2, <2>3
<1>4. CASE x \in {3} \X (0..13)
  <2>1. PICK c \in 0..13 : x = <<3, c>>
    BY <1>4
  <2>2. Place[4 * (17 - c) + 3] = <<3, 17 - (17 - c)>> /\ BitOf(3, c) = 4 * (17 - c) + 3
    BY Placed DEF BitOf
  <2> QED
    BY <2>1, <2>2
<1> QED
  BY <1>1, <1>2, <1>3, <1>4 DEF Cells

\* Each bit of a frame has a place of its own in the burst.
LEMMA BurstBits ==
    ASSUME NEW f \in 1..3, NEW i \in 0..71
    PROVE  /\ BurstBit(f, i) \in 0..263
           /\ \A g \in 1..3, j \in 0..71 :
                BurstBit(f, i) = BurstBit(g, j) => f = g /\ i = j
BY DEF BurstBit

\* What a frame has in a cell.
LEMMA Extracted ==
    ASSUME NEW word, NEW f \in 1..3
    PROVE  /\ ExtractVoiceFrame(word, f) \subseteq Cells
           /\ \A x \in Cells : x \in ExtractVoiceFrame(word, f)
                                 <=> BurstBit(f, BitOf(x[1], x[2])) \in word
<1>1. \A x : x \in ExtractVoiceFrame(word, f)
                <=> \E i \in 0..71 : BurstBit(f, i) \in word /\ x = Place[i]
  BY DEF ExtractVoiceFrame
<1>2. ExtractVoiceFrame(word, f) \subseteq Cells
  BY <1>1, PlaceBack
<1>3. ASSUME NEW x \in Cells, NEW k, k = BitOf(x[1], x[2])
      PROVE  x \in ExtractVoiceFrame(word, f) <=> BurstBit(f, k) \in word
  <2>1. k \in 0..71 /\ Place[k] = x
    BY <1>3, CellHasBit
  <2>2. \A i \in 0..71 : x = Place[i] => i = k
    BY <1>3, PlaceBack
  <2> QED
    BY <1>1, <2>1, <2>2
<1> QED
  BY <1>2, <1>3

\* What is received in a cell is what was sent but for the noise.
LEMMA Interleaved ==
    ASSUME NEW v, NEW n, NEW f \in 1..3, NEW x \in Cells
    PROVE  x \in ExtractVoiceFrame(SymDiff(Transmitted(v), n), f)
             <=> (x \in Encoded(v[f]) <=> x \notin ExtractVoiceFrame(n, f))
<1> DEFINE i == BitOf(x[1], x[2])
<1>1. i \in 0..71 /\ Place[i] = x
  BY CellHasBit
<1> HIDE DEF i
<1>2. BurstBit(f, i) \in Transmitted(v) <=> x \in Encoded(v[f])
  <2> DEFINE S == {y \in (1..3) \X (0..71) : Place[y[2]] \in Encoded(v[y[1]])}
  <2>1. \A b : b \in Transmitted(v) <=> \E y \in S : b = BurstBit(y[1], y[2])
    BY DEF Transmitted
  <2>2. <<f, i>> \in S <=> x \in Encoded(v[f])
    BY <1>1
  <2>3. \A y \in S : /\ y[1] \in 1..3 /\ y[2] \in 0..71 /\ y = <<y[1], y[2]>>
    OBVIOUS
  <2>4. <<f, i>>[1] = f /\ <<f, i>>[2] = i
    OBVIOUS
  <2> HIDE DEF S
  <2>5. ASSUME NEW y \in S, BurstBit(f, i) = BurstBit(y[1], y[2]) PROVE y = <<f, i>>
    <3>1. \A g \in 1..3, j \in 0..71 : BurstBit(f, i) = BurstBit(g, j) => f = g /\ i = j
      BY <1>1, BurstBits
    <3>2. f = y[1] /\ i = y[2]
      BY <2>3, <2>5, <3>1
    <3> QED
      BY <2>3, <3>2
  <2> QED
    BY <2>1, <2>2, <2>4, <2>5
<1>3. BurstBit(f, i) \in SymDiff(Transmitted(v), n)
        <=> (BurstBit(f, i) \in Transmitted(v) <=> BurstBit(f, i) \notin n)
  BY DEF SymDiff
<1> QED
  BY <1>2, <1>3, Extracted DEF i

-----------------------------------------------------------------------------
(* The error correction of a frame.                                        *)

\* Where the voice bits are.
LEMMA Sources ==
    ASSUME NEW i \in 0..48
    PROVE  /\ Source[i] \in Cells
           /\ i < 12 => Source[i] = <<0, 23 - i>>
           /\ i \in 12..23 => Source[i] = <<1, 34 - i>>
           /\ i >= 24 => Source[i][1] \in {2, 3}
           /\ \A j \in 0..48 : Source[i] = Source[j] => i = j
<1>1. \A j \in 0..48 : Source[j] = IF j < 12 THEN <<0, 23 - j>>
                                   ELSE IF j < 24 THEN <<1, 22 - (j - 12)>>
                                   ELSE IF j < 35 THEN <<2, 10 - (j - 24)>>
                                   ELSE <<3, 13 - (j - 35)>>
  BY DEF Source
<1>2. CASE i < 12
  <2>1. Source[i] = <<0, 23 - i>>
    BY <1>1, <1>2
  <2> QED
    BY <1>1, <1>2, <2>1 DEF Cells
<1>3. CASE i \in 12..23
  <2>1. Source[i] = <<1, 22 - (i - 12)>> /\ 22 - (i - 12) = 34 - i
    BY <1>1, <1>3
  <2> QED
    BY <1>1, <1>3, <2>1 DEF Cells
<1>4. CASE i \in 24..34
  <2>1. Source[i] = <<2, 10 - (i - 24)>>
    BY <1>1, <1>4
  <2> QED
    BY <1>1, <1>4, <2>1 DEF Cells
<1>5. CASE i \in 35..48
  <2>1. Source[i] = <<3, 13 - (i - 35)>>
    BY <1>1, <1>5
  <2> QED
    BY <1>1, <1>5, <2>1 DEF Cells
<1> QED
  BY <1>2, <1>3, <1>4, <1>5

Plain(bits) == {Source[i] : i \in bits}

\* The data bits of C0 and C1 are the voice bits up to 23.
LEMMA PlainBits ==
    ASSUME NEW bits, bits \subseteq 0..48
    PROVE  /\ C0(Plain(bits)) \subseteq 11..22 /\ C1(Plain(bits)) \subseteq 11..22
           /\ \A i \in 0..11 : i \in bits <=> 22 - i \in C0(Plain(bits))
           /\ \A i \in 12..23 : i \in bits <=> 34 - i \in C1(Plain(bits))
           /\ \A i \in 24..48 : i \in bits <=> Source[i] \in Plain(bits)
<1>1. \A i \in 0..48 : i \in bits <=> Source[i] \in Plain(bits)
  BY Sources DEF Plain
<1>2. \A x \in Plain(bits) : \E i \in 0..48 : x = Source[i]
  BY DEF Plain
<1>3. ASSUME NEW c \in 0..22, <<0, c + 1>> \in Plain(bits) PROVE c \in 11..22
  <2>1. PICK i \in 0..48 : <<0, c + 1>> = Source[i]
    BY <1>2, <1>3
  <2>2. Source[i][1] = 0 /\ Source[i][2] = c + 1
    BY <2>1
  <2>3. i < 12
    <3>1. i \in 12..23 => Source[i][1] = 1
      BY Sources
    <3> QED
      BY <2>2, <3>1, Sources
  <2>4. Source[i][2] = 23 - i
    BY <2>3, Sources
  <2> QED
    BY <2>2, <2>3, <2>4
<1>4. ASSUME NEW c \in 0..22, <<1, c>> \in Plain(bits) PROVE c \in 11..22
  <2>1. PICK i \in 0..48 : <<1, c>> = Source[i]
    BY <1>2, <1>4
  <2>2. Source[i][1] = 1 /\ Source[i][2] = c
    BY <2>1
  <2>3. i \in 12..23
    <3>1. i < 12 => Source[i][1] = 0
      BY Sources
    <3> QED
      BY <2>2, <3>1, Sources
  <2>4. Source[i][2] = 34 - i
    BY <2>3, Sources
  <2> QED
    BY <2>2, <2>3, <2>4
<1>5. \A i \in 0..11 : i \in bits <=> 22 - i \in C0(Plain(bits))
  <2>1. \A i \in 0..11 : Source[i] = <<0, (22 - i) + 1>> /\ 22 - i \in 0..22
    BY Sources
  <2> QED
    BY <1>1, <2>1 DEF C0
<1>6. \A i \in 12..23 : i \in bits <=> 34 - i \in C1(Plain(bits))
  <2>1. \A i \in 12..23 : Source[i] = <<1, 34 - i>> /\ 34 - i \in 0..22
    BY Sources
  <2> QED
    BY <1>1, <2>1 DEF C1
<1>7. C0(Plain(bits)) \subseteq 11..22
  BY <1>3 DEF C0
<1>8. C1(Plain(bits)) \subseteq 11..22
  BY <1>4 DEF C1
<1>9. \A i \in 24..48 : i \in bits <=> Source[i] \in Plain(bits)
  BY <1>1
<1> QED
  BY <1>5, <1>6, <1>7, <1>8, <1>9

\* Words of 23 bits.
LEMMA Words ==
    /\ \A data : data \subseteq 11..22 => Codeword(data) \subseteq 0..22
                                          /\ Codeword(data) \cap (11..22) = data
    /\ \A seed : Scrambler(seed) \subseteq 0..22
    /\ \A block : Corrections(block) \subseteq 11..22
<1>1. ASSUME NEW data, data \subseteq 11..22
      PROVE  Codeword(data) \subseteq 0..22 /\ Codeword(data) \cap (11..22) = data
  <2> DEFINE parity == {p \in 0..10 : Odd(data \cap Covers[p])}
  <2>1. Codeword(data) = data \cup parity
    BY DEF Codeword
  <2>2. parity \subseteq 0..10
    OBVIOUS
  <2> HIDE DEF parity
  <2>3. \A p \in parity : p \in 0..22 /\ p \notin 11..22
    BY <2>2
  <2>4. data \subseteq 0..22
    BY <1>1
  <2> QED
    BY <1>1, <2>1, <2>3, <2>4
<1>2. ASSUME NEW seed PROVE Scrambler(seed) \subseteq 0..22
  BY DEF Scrambler
<1>3. ASSUME NEW block PROVE Corrections(block) \subseteq 11..22
  BY DEF Corrections, BitsOf
<1> QED
  BY <1>1, <1>2, <1>3

\* The coded frame, row by row.
LEMMA EncodedRows ==
    ASSUME NEW bits, bits \subseteq 0..48
    PROVE  /\ C0(Encoded(bits)) = Codeword(C0(Plain(bits)))
           /\ C1(Encoded(bits)) = SymDiff(Codeword(C1(Plain(bits))),
                                          Scrambler(C0(Plain(bits))))
           /\ \A i \in 24..48 : Source[i] \in Encoded(bits) <=> i \in bits
<1> DEFINE plain == Plain(bits)
           cw == Codeword(C0(plain))
           sc == SymDiff(Codeword(C1(plain)), Scrambler(C0(plain)))
           c0 == {<<0, j + 1>> : j \in cw}
           c1 == {<<1, j>> : j \in sc}
           par == IF Odd(c0) THEN {<<0, 0>>} ELSE {}
           rest == {x \in plain : x[1] > 1}
<1>1. Encoded(bits) = c0 \cup par \cup c1 \cup rest
  BY DEF Encoded, Plain
<1>2. cw \subseteq 0..22 /\ sc \subseteq 0..22
  BY PlainBits, Words DEF SymDiff
<1>3. \A x \in rest : x[1] \in {2, 3}
  <2>1. \A i \in bits : i < 12 \/ i \in 12..23 \/ i >= 24
    OBVIOUS
  <2>2. \A x \in plain : \E i \in bits : x = Source[i]
    BY DEF Plain
  <2>3. \A i \in bits : Source[i][1] \in {0, 1, 2, 3}
    BY <2>1, Sources
  <2> QED
    BY <2>2, <2>3
<1>4. \A x \in par : x = <<0, 0>>
  OBVIOUS
<1> HIDE DEF cw, sc, par, rest
<1>5. ASSUME NEW c \in 0..22 PROVE <<0, c + 1>> \in Encoded(bits) <=> c \in cw
  <2>1. <<0, c + 1>>[1] = 0 /\ <<0, c + 1>>[2] = c + 1 /\ c + 1 # 0
    OBVIOUS
  <2>2. <<0, c + 1>> \notin par /\ <<0, c + 1>> \notin rest
    BY <1>3, <1>4, <2>1
  <2>3. <<0, c + 1>> \notin c1
    OBVIOUS
  <2>4. <<0, c + 1>> \in c0 <=> c \in cw
    BY <1>2
  <2> QED
    BY <1>1, <2>2, <2>3, <2>4
<1>6. ASSUME NEW c \in 0..22 PROVE <<1, c>> \in Encoded(bits) <=> c \in sc
  <2>1. <<1, c>>[1] = 1 /\ <<1, c>> # <<0, 0>>
    OBVIOUS
  <2>2. <<1, c>> \notin par /\ <<1, c>> \notin rest
    BY <1>3, <1>4, <2>1
  <2>3. <<1, c>> \notin c0
    OBVIOUS
  <2>4. <<1, c>> \in c1 <=> c \in sc
    BY <1>2
  <2> QED
    BY <1>1, <2>2, <2>3, <2>4
<1>7. ASSUME NEW i \in 24..48 PROVE Source[i] \in Encoded(bits) <=> i \in bits
  <2>1. Source[i][1] \in {2, 3}
    BY Sources
  <2>2. Source[i] \notin c0 /\ Source[i] \notin c1 /\ Source[i] \notin par
    BY <1>4, <2>1
  <2>3. Source[i][1] > 1
    BY <2>1
  <2>4. Source[i] \in plain <=> i \in bits
    BY PlainBits
  <2>5. Source[i] \in rest <=> i \in bits
    BY <2>3, <2>4 DEF rest
  <2> QED
    BY <1>1, <2>2, <2>5
<1>8. C0(Encoded(bits)) = cw
  BY <1>2, <1>5 DEF C0
<1>9. C1(Encoded(bits)) = sc
  BY <1>2, <1>6 DEF C1
<1> QED
  BY <1>7, <1>8, <1>9 DEF cw, sc

\* C0 as strip_fec corrects it, and C1 as it descrambles it after that.
Corrected(fr) == SymDiff(C0(fr), Corrections(C0(fr)))
Descrambled(fr) == SymDiff(C1(fr), Scrambler(Corrected(fr) \cap (11..22)))

LEMMA EccC0Rows ==
    ASSUME NEW fr
    PROVE  /\ C0(EccC0(fr)) = Corrected(fr) /\ C1(EccC0(fr)) = C1(fr)
           /\ \A x : x[1] # 0 => (x \in EccC0(fr) <=> x \in fr)
<1> DEFINE flip == {<<0, j + 1>> : j \in Corrections(C0(fr))}
<1>1. \A x : x \in EccC0(fr) <=> (x \in fr <=> x \notin flip)
  BY DEF EccC0, SymDiff
<1>2. \A c \in 0..22 : <<0, c + 1>> \in flip <=> c \in Corrections(C0(fr))
  <2>1. Corrections(C0(fr)) \subseteq 11..22
    BY Words
  <2> QED
    BY <2>1
<1>3. \A x \in flip : x[1] = 0
  OBVIOUS
<1>4. \A c : <<1, c>>[1] = 1
  OBVIOUS
<1>5. Corrections(C0(fr)) \subseteq 0..22 /\ C0(fr) \subseteq 0..22
  BY Words DEF C0
<1> HIDE DEF flip
<1>6. C0(EccC0(fr)) = Corrected(fr)
  <2>1. ASSUME NEW c \in 0..22 PROVE c \in C0(EccC0(fr)) <=> c \in Corrected(fr)
    BY <1>1, <1>2 DEF C0, Corrected, SymDiff
  <2>2. C0(EccC0(fr)) \subseteq 0..22
    BY DEF C0
  <2>3. Corrected(fr) \subseteq 0..22
    BY <1>5 DEF Corrected, SymDiff
  <2> QED
    BY <2>1, <2>2, <2>3
<1>7. \A x : x[1] # 0 => (x \in EccC0(fr) <=> x \in fr)
  BY <1>1, <1>3
<1>8. C1(EccC0(fr)) = C1(fr)
  <2>1. \A c \in 0..22 : <<1, c>> \in EccC0(fr) <=> <<1, c>> \in fr
    BY <1>4, <1>7
  <2> QED
    BY <2>1 DEF C1
<1> QED
  BY <1>6, <1>7, <1>8

LEMMA DemodulateRows ==
    ASSUME NEW fr
    PROVE  /\ C0(Demodulate(fr)) = C0(fr)
           /\ C1(Demodulate(fr)) = SymDiff(C1(fr), Scrambler(C0(fr) \cap (11..22)))
           /\ \A x : x[1] # 1 => (x \in Demodulate(fr) <=> x \in fr)
<1> DEFINE seed == C0(fr) \cap (11..22)
           flip == {<<1, j>> : j \in Scrambler(seed)}
<1>1. \A x : x \in Demodulate(fr) <=> (x \in fr <=> x \notin flip)
  BY DEF Demodulate, SymDiff
<1>2. \A c \in 0..22 : <<1, c>> \in flip <=> c \in Scrambler(seed)
  OBVIOUS
<1>3. \A x \in flip : x[1] = 1
  OBVIOUS
<1>4. \A c : <<0, c>>[1] = 0
  OBVIOUS
<1>5. Scrambler(seed) \subseteq 0..22 /\ C1(fr) \subseteq 0..22
  BY Words DEF C1
<1> HIDE DEF flip, seed
<1>6. C1(Demodulate(fr)) = SymDiff(C1(fr), Scrambler(seed))
  <2>1. ASSUME NEW c \in 0..22
        PROVE  c \in C1(Demodulate(fr)) <=> c \in SymDiff(C1(fr), Scrambler(seed))
    BY <1>1, <1>2 DEF C1, SymDiff
  <2>2. C1(Demodulate(fr)) \subseteq 0..22
    BY DEF C1
  <2>3. SymDiff(C1(fr), Scrambler(seed)) \subseteq 0..22
    BY <1>5 DEF SymDiff
  <2> QED
    BY <2>1, <2>2, <2>3
<1>7. \A x : x[1] # 1 => (x \in Demodulate(fr) <=> x \in fr)
  BY <1>1, <1>3
<1>8. C0(Demodulate(fr)) = C0(fr)
  <2>1. \A c \in 0..22 : <<0, c + 1>> \in Demodulate(fr) <=> <<0, c + 1>> \in fr
    BY <1>4, <1>7
  <2> QED
    BY <2>1 DEF C0
<1> QED
  BY <1>6, <1>7, <1>8 DEF seed

LEMMA EccDataBits ==
    ASSUME NEW fr
    PROVE  /\ EccData(fr).bits \subseteq 0..48
           /\ \A i \in 0..11 : i \in EccData(fr).bits <=> 22 - i \in C0(fr)
           /\ \A i \in 12..23 : i \in EccData(fr).bits
                                  <=> 34 - i \in SymDiff(C1(fr), Corrections(C1(fr)))
           /\ \A i \in 24..48 : i \in EccData(fr).bits <=> Source[i] \in fr
           /\ EccData(fr).errs = Cardinality({<<1, j>> : j \in Corrections(C1(fr))})
<1> DEFINE flip == {<<1, j>> : j \in Corrections(C1(fr))}
           bits == {i \in 0..48 : Source[i] \in SymDiff(fr, flip)}
<1>1. EccData(fr).bits = bits /\ EccData(fr).errs = Cardinality(flip)
  BY DEF EccData
<1>2. \A i \in 0..48 : i \in bits <=> (Source[i] \in fr <=> Source[i] \notin flip)
  BY DEF SymDiff
<1>3. \A x \in flip : x[1] = 1
  OBVIOUS
<1>4. \A j \in 0..22 : <<1, j>> \in flip <=> j \in Corrections(C1(fr))
  OBVIOUS
<1>5. bits \subseteq 0..48
  OBVIOUS
<1> HIDE DEF flip, bits
<1>6. ASSUME NEW i \in 0..11 PROVE i \in bits <=> 22 - i \in C0(fr)
  <2>1. Source[i] = <<0, (22 - i) + 1>> /\ 22 - i \in 0..22
    BY Sources
  <2>2. Source[i][1] = 0
    BY <2>1
  <2>3. Source[i] \notin flip
    BY <1>3, <2>2
  <2> QED
    BY <1>2, <2>1, <2>3 DEF C0
<1>7. ASSUME NEW i \in 12..23
      PROVE  i \in bits <=> 34 - i \in SymDiff(C1(fr), Corrections(C1(fr)))
  <2>1. Source[i] = <<1, 34 - i>> /\ 34 - i \in 0..22
    BY Sources
  <2>2. 34 - i \in C1(fr) <=> Source[i] \in fr
    BY <2>1 DEF C1
  <2>3. Source[i] \in flip <=> 34 - i \in Corrections(C1(fr))
    BY <1>4, <2>1
  <2> QED
    BY <1>2, <2>2, <2>3 DEF SymDiff
<1>8. ASSUME NEW i \in 24..48 PROVE i \in bits <=> Source[i] \in fr
  <2>1. Source[i][1] \in {2, 3}
    BY Sources
  <2>2. Source[i] \notin flip
    BY <1>3, <2>1
  <2> QED
    BY <1>2, <2>2
<1> QED
  BY <1>1, <1>5, <1>6, <1>7, <1>8 DEF flip

\* What strip_fec makes of any frame.
LEMMA StripFecBits ==
    ASSUME NEW fr
    PROVE  /\ StripFec(fr).bits \subseteq 0..48
           /\ \A i \in 0..11 : i \in StripFec(fr).bits <=> 22 - i \in Corrected(fr)
           /\ \A i \in 12..23 : i \in StripFec(fr).bits
                <=> 34 - i \in SymDiff(Descrambled(fr), Corrections(Descrambled(fr)))
           /\ \A i \in 24..48 : i \in StripFec(fr).bits <=> Source[i] \in fr
           /\ StripFec(fr).errs =
                Cardinality({<<1, j>> : j \in Corrections(Descrambled(fr))})
                  + Cardinality(Corrections(C0(fr)))
<1> DEFINE a == EccC0(fr)
           b == Demodulate(a)
<1>1. /\ StripFec(fr).bits = EccData(b).bits
      /\ StripFec(fr).errs = EccData(b).errs + Cardinality(Corrections(C0(fr)))
  BY DEF StripFec
<1>2. C0(a) = Corrected(fr) /\ C1(a) = C1(fr)
  BY EccC0Rows
<1>3. C0(b) = Corrected(fr) /\ C1(b) = Descrambled(fr)
  BY <1>2, DemodulateRows DEF Descrambled
<1>4. ASSUME NEW i \in 24..48 PROVE Source[i] \in b <=> Source[i] \in fr
  <2>1. Source[i][1] # 0 /\ Source[i][1] # 1
    BY Sources
  <2>2. Source[i] \in a <=> Source[i] \in fr
    BY <2>1, EccC0Rows
  <2> QED
    BY <2>1, <2>2, DemodulateRows
<1> HIDE DEF a, b
<1>5. /\ EccData(b).bits \subseteq 0..48
      /\ \A i \in 0..11 : i \in EccData(b).bits <=> 22 - i \in C0(b)
      /\ \A i \in 12..23 : i \in EccData(b).bits
                             <=> 34 - i \in SymDiff(C1(b), Corrections(C1(b)))
      /\ \A i \in 24..48 : i \in EccData(b).bits <=> Source[i] \in b
      /\ EccData(b).errs = Cardinality({<<1, j>> : j \in Corrections(C1(b))})
  BY EccDataBits
<1> QED
  BY <1>1, <1>3, <1>4, <1>5

\* The frame of some voice bits with the places in wrong received wrong.
Received(fr, bits, wrong) ==
    \A x \in Cells : x \in fr <=> (x \in Encoded(bits) <=> x \notin wrong)

RowsAre(fr, bits, wrong) ==
    /\ C0(fr) = SymDiff(Codeword(C0(Plain(bits))), C0(wrong))
    /\ C1(fr) = SymDiff(SymDiff(Codeword(C1(Plain(bits))), Scrambler(C0(Plain(bits)))),
                        C1(wrong))
    /\ \A i \in 24..48 : Source[i] \in fr <=> (i \in bits <=> Source[i] \notin wrong)

LEMMA ReceivedRows ==
    ASSUME NEW bits, bits \subseteq 0..48, NEW wrong, NEW fr, Received(fr, bits, wrong)
    PROVE  RowsAre(fr, bits, wrong)
<1>1. C0(fr) = SymDiff(C0(Encoded(bits)), C0(wrong))
  <2>1. \A c \in 0..22 : <<0, c + 1>> \in Cells
    BY DEF Cells
  <2> QED
    BY <2>1 DEF Received, C0, SymDiff
<1>2. C1(fr) = SymDiff(C1(Encoded(bits)), C1(wrong))
  <2>1. \A c \in 0..22 : <<1, c>> \in Cells
    BY DEF Cells
  <2> QED
    BY <2>1 DEF Received, C1, SymDiff
<1>3. ASSUME NEW i \in 24..48
      PROVE  Source[i] \in fr <=> (i \in bits <=> Source[i] \notin wrong)
  <2>1. Source[i] \in Cells
    BY Sources
  <2>2. Source[i] \in Encoded(bits) <=> i \in bits
    BY EncodedRows
  <2> QED
    BY <2>1, <2>2 DEF Received
<1> QED
  BY <1>1, <1>2, <1>3, EncodedRows DEF RowsAre

\* A correctable frame: C0 first, which gives the seed that C1 was scrambled with.
LEMMA CorrectableFrame ==
    ASSUME NEW bits, bits \subseteq 0..48, NEW wrong, NEW fr, Received(fr, bits, wrong),
           Cardinality(C0(wrong)) <= 3, Cardinality(C1(wrong)) <= 3
    PROVE  /\ Corrections(C0(fr)) = C0(wrong) \cap (11..22)
           /\ Corrections(Descrambled(fr)) = C1(wrong) \cap (11..22)
           /\ \A i \in 0..23 : i \in StripFec(fr).bits <=> i \in bits
<1>0. RowsAre(fr, bits, wrong)
  BY ReceivedRows
<1> DEFINE d0 == C0(Plain(bits))
           d1 == C1(Plain(bits))
           e0 == C0(wrong)
           e1 == C1(wrong)
<1>1. d0 \subseteq 11..22 /\ d1 \subseteq 11..22
  BY PlainBits
<1>2. e0 \subseteq 0..22 /\ e1 \subseteq 0..22
  BY DEF C0, C1
<1>3. Cardinality(e0) <= 3 /\ Cardinality(e1) <= 3
  OBVIOUS
<1>4. C0(fr) = SymDiff(Codeword(d0), e0)
  BY <1>0 DEF RowsAre
<1>5. C1(fr) = SymDiff(SymDiff(Codeword(d1), Scrambler(d0)), e1)
  BY <1>0 DEF RowsAre
<1>6. Codeword(d0) \cap (11..22) = d0 /\ Codeword(d1) \cap (11..22) = d1
  BY <1>1, Words
<1> HIDE DEF d0, d1, e0, e1
<1>7. Corrections(C0(fr)) = e0 \cap (11..22)
  BY <1>1, <1>2, <1>3, <1>4, GolayCorrects
<1>8. Corrected(fr) \cap (11..22) = d0
  BY <1>4, <1>6, <1>7 DEF Corrected, SymDiff
<1>9. Descrambled(fr) = SymDiff(Codeword(d1), e1)
  BY <1>5, <1>8 DEF Descrambled, SymDiff
<1>10. Corrections(Descrambled(fr)) = e1 \cap (11..22)
  BY <1>1, <1>2, <1>3, <1>9, GolayCorrects
<1>11. SymDiff(Descrambled(fr), Corrections(Descrambled(fr))) \cap (11..22) = d1
  BY <1>6, <1>9, <1>10 DEF SymDiff
<1>12. ASSUME NEW i \in 0..23 PROVE i \in StripFec(fr).bits <=> i \in bits
  <2>1. CASE i \in 0..11
    <3>1. 22 - i \in 11..22
      BY <2>1
    <3>2. i \in StripFec(fr).bits <=> 22 - i \in Corrected(fr)
      BY <2>1, StripFecBits
    <3>3. i \in bits <=> 22 - i \in d0
      BY <2>1, PlainBits DEF d0
    <3> QED
      BY <1>8, <3>1, <3>2, <3>3
  <2>2. CASE i \in 12..23
    <3> DEFINE c1 == SymDiff(Descrambled(fr), Corrections(Descrambled(fr)))
    <3>1. 34 - i \in 11..22
      BY <2>2
    <3>2. i \in StripFec(fr).bits <=> 34 - i \in c1
      BY <2>2, StripFecBits
    <3>3. i \in bits <=> 34 - i \in d1
      BY <2>2, PlainBits DEF d1
    <3>4. c1 \cap (11..22) = d1
      BY <1>11
    <3> HIDE DEF c1
    <3> QED
      BY <3>1, <3>2, <3>3, <3>4
  <2> QED
    BY <2>1, <2>2
<1> QED
  BY <1>7, <1>10, <1>12 DEF e0, e1

-----------------------------------------------------------------------------
(* What the firmware gets.                                                 *)

LEMMA OneToOne ==
    ASSUME NEW B, B \subseteq 11..22, IsFiniteSet(B)
    PROVE  /\ IsFiniteSet({<<1, j>> : j \in B})
           /\ Cardinality({<<1, j>> : j \in B}) = Cardinality(B)
           /\ IsFiniteSet({23 + c : c \in B})
           /\ Cardinality({23 + c : c \in B}) = Cardinality(B)
<1>1. ASSUME NEW T, NEW g \in [B -> T], \A i, j \in B : g[i] = g[j] => i = j,
             \A t \in T : \E j \in B : g[j] = t
      PROVE  IsFiniteSet(T) /\ Cardinality(T) = Cardinality(B)
  <2>1. g \in Bijection(B, T)
    BY <1>1, Fun_IsBij, Zenon
  <2> QED
    BY <2>1, Fun_ExistsBij, FS_Bijection
<1>2. /\ IsFiniteSet({<<1, j>> : j \in B})
      /\ Cardinality({<<1, j>> : j \in B}) = Cardinality(B)
  <2> DEFINE T == {<<1, j>> : j \in B}
             g == [j \in B |-> <<1, j>>]
  <2>1. g \in [B -> T] /\ (\A i, j \in B : g[i] = g[j] => i = j)
    OBVIOUS
  <2>2. \A t \in T : \E j \in B : g[j] = t
    OBVIOUS
  <2> HIDE DEF T, g
  <2>3. IsFiniteSet(T) /\ Cardinality(T) = Cardinality(B)
    BY <1>1, <2>1, <2>2
  <2> QED
    BY <2>3 DEF T
<1>3. /\ IsFiniteSet({23 + c : c \in B})
      /\ Cardinality({23 + c : c \in B}) = Cardinality(B)
  <2> DEFINE T == {23 + c : c \in B}
             g == [c \in B |-> 23 + c]
  <2>1. g \in [B -> T] /\ (\A i, j \in B : g[i] = g[j] => i = j)
    OBVIOUS
  <2>2. \A t \in T : \E j \in B : g[j] = t
    OBVIOUS
  <2> HIDE DEF T, g
  <2>3. IsFiniteSet(T) /\ Cardinality(T) = Cardinality(B)
    BY <1>1, <2>1, <2>2
  <2> QED
    BY <2>3 DEF T
<1> QED
  BY <1>2, <1>3

\* The errors of a frame are counted once each.
LEMMA CountOnce ==
    ASSUME NEW A, A \subseteq 11..22, NEW B, B \subseteq 11..22
    PROVE  Cardinality({<<1, j>> : j \in B}) + Cardinality(A)
             = Cardinality(A \cup {23 + c : c \in B})
<1> DEFINE P == {<<1, j>> : j \in B}
           Q == {23 + c : c \in B}
<1>1. IsFiniteSet(A) /\ Cardinality(A) \in Nat /\ IsFiniteSet(B) /\ Cardinality(B) \in Nat
  <2>1. A \subseteq 0..23 /\ B \subseteq 0..23
    OBVIOUS
  <2> QED
    BY <2>1, Finite
<1>2. IsFiniteSet(P) /\ Cardinality(P) = Cardinality(B)
  BY <1>1, OneToOne
<1>3. IsFiniteSet(Q) /\ Cardinality(Q) = Cardinality(B)
  BY <1>1, OneToOne
<1>4. A \cap Q = {}
  OBVIOUS
<1> HIDE DEF P, Q
<1>5. Cardinality(A \cup Q) = Cardinality(A) + Cardinality(Q) - Cardinality(A \cap Q)
  BY <1>1, <1>3, FS_Union
<1>6. Cardinality({}) = 0
  BY FS_EmptySet
<1> QED
  BY <1>1, <1>2, <1>3, <1>4, <1>5, <1>6 DEF P, Q

\* A frame of the burst, decoded.
Decoded(f) == StripFec(ExtractVoiceFrame(payload, f))

\* The burst is what was sent but for the noise; the frames so far are what
\* strip_fec makes of it.
FrameInv ==
    /\ voice \in [1..3 -> SUBSET (0..48)] /\ noise \subseteq 0..263
    /\ payload = SymDiff(Transmitted(voice), noise)
    /\ heard \in Seq(SUBSET (0..48)) /\ errs \in Seq(Nat)
    /\ Len(heard) = Len(errs) /\ Len(heard) <= 3
    /\ \A f \in 1..Len(heard) : heard[f] = Decoded(f).bits /\ errs[f] = Decoded(f).errs

LEMMA FrameReceived ==
    ASSUME FrameInv, NEW f \in 1..3
    PROVE  /\ voice[f] \subseteq 0..48
           /\ Received(ExtractVoiceFrame(payload, f), voice[f], Wrong(f))
<1>1. voice \in [1..3 -> SUBSET (0..48)] /\ payload = SymDiff(Transmitted(voice), noise)
  BY DEF FrameInv
<1>2. ASSUME NEW x \in Cells
      PROVE  x \in ExtractVoiceFrame(payload, f)
               <=> (x \in Encoded(voice[f]) <=> x \notin Wrong(f))
  <2>1. x \in ExtractVoiceFrame(SymDiff(Transmitted(voice), noise), f)
          <=> (x \in Encoded(voice[f]) <=> x \notin ExtractVoiceFrame(noise, f))
    BY Interleaved
  <2> QED
    BY <1>1, <2>1 DEF Wrong
<1>3. voice[f] \subseteq 0..48
  BY <1>1
<1> QED
  BY <1>2, <1>3 DEF Received

LEMMA StripFecType ==
    ASSUME NEW fr PROVE StripFec(fr).bits \subseteq 0..48 /\ StripFec(fr).errs \in Nat
<1> DEFINE A == Corrections(C0(fr))
           B == Corrections(Descrambled(fr))
<1>1. A \subseteq 11..22 /\ B \subseteq 11..22
  BY Words
<1>2. A \subseteq 0..23 /\ B \subseteq 0..23
  BY <1>1
<1>3. IsFiniteSet(B) /\ Cardinality(A) \in Nat /\ Cardinality(B) \in Nat
  BY <1>2, Finite
<1>4. Cardinality({<<1, j>> : j \in B}) = Cardinality(B)
  BY <1>1, <1>3, OneToOne
<1>5. StripFec(fr).errs = Cardinality({<<1, j>> : j \in B}) + Cardinality(A)
  BY StripFecBits
<1>6. StripFec(fr).bits \subseteq 0..48
  BY StripFecBits
<1> HIDE DEF A, B
<1> QED
  BY <1>3, <1>4, <1>5, <1>6

LEMMA FrameInvariant == Spec => []FrameInv
<1>1. Init => FrameInv
  <2> SUFFICES ASSUME Init PROVE FrameInv
    OBVIOUS
  <2>1. voice \in [1..3 -> SUBSET (0..48)]
    BY VoiceAssumption DEF Init
  <2>2. payload = SymDiff(Transmitted(voice), noise)
    BY DEF Init, SymDiff
  <2>3. heard = <<>> /\ errs = <<>> /\ noise = {}
    BY DEF Init
  <2> QED
    BY <2>1, <2>2, <2>3 DEF FrameInv
<1>2. FrameInv /\ [Next]_vars => FrameInv'
  <2> SUFFICES ASSUME FrameInv, [Next]_vars PROVE FrameInv'
    OBVIOUS
  <2>1. CASE Fade
    <3>1. /\ noise' \subseteq 0..263 /\ noise = {} /\ heard = <<>>
          /\ payload' = SymDiff(payload, noise')
          /\ voice' = voice /\ heard' = heard /\ errs' = errs
      BY <2>1, VoiceAssumption DEF Fade
    <3>2. payload = Transmitted(voice)
      BY <3>1 DEF FrameInv, SymDiff
    <3>3. payload' = SymDiff(Transmitted(voice'), noise')
      BY <3>1, <3>2, Zenon
    <3>4. Len(heard) = 0
      BY <3>1
    <3>5. (/\ voice \in [1..3 -> SUBSET (0..48)]
           /\ heard \in Seq(SUBSET (0..48)) /\ errs \in Seq(Nat)
           /\ Len(heard) = Len(errs))'
      BY <3>1 DEF FrameInv
    <3>6. \A f \in 1..Len(heard') : FALSE
      BY <3>1, <3>4
    <3>7. Len(heard') <= 3
      BY <3>1, <3>4
    <3> QED
      BY <3>1, <3>3, <3>5, <3>6, <3>7 DEF FrameInv
  <2>2. CASE DecodeFrame
    <3> DEFINE n == Len(heard) + 1
               s == Decoded(n)
    <3>1. /\ Len(heard) < 3
          /\ heard' = Append(heard, BitBuffer(Amb8FromChannel(PackVoiceBits(s.bits))))
          /\ errs' = Append(errs, s.errs)
          /\ voice' = voice /\ noise' = noise /\ payload' = payload
      BY <2>2 DEF DecodeFrame, Decoded
    <3>2. s.bits \subseteq 0..48 /\ s.errs \in Nat
      BY StripFecType DEF Decoded
    <3>3. heard' = Append(heard, s.bits)
      BY <3>1, <3>2, BitsArrive
    <3>4. \A f : Decoded(f)' = Decoded(f)
      BY <3>1 DEF Decoded
    <3> HIDE DEF s
    <3>5. /\ heard' \in Seq(SUBSET (0..48)) /\ errs' \in Seq(Nat)
          /\ Len(heard') = n /\ Len(errs') = n /\ n \in 1..3
      BY <3>1, <3>2, <3>3 DEF FrameInv
    <3>6. ASSUME NEW f \in 1..n
          PROVE  heard'[f] = Decoded(f).bits /\ errs'[f] = Decoded(f).errs
      <4>1. CASE f = n
        BY <3>1, <3>3, <4>1 DEF FrameInv, s
      <4>2. CASE f # n
        <5>1. f \in 1..Len(heard)
          BY <4>2 DEF FrameInv
        <5>2. heard'[f] = heard[f] /\ errs'[f] = errs[f]
          BY <3>1, <3>3, <5>1 DEF FrameInv
        <5> QED
          BY <5>1, <5>2 DEF FrameInv
      <4> QED
        BY <4>1, <4>2
    <3> HIDE DEF n
    <3>7. \A f \in 1..Len(heard') : /\ heard'[f] = (Decoded(f).bits)'
                                    /\ errs'[f] = (Decoded(f).errs)'
      BY <3>4, <3>5, <3>6
    <3>8. (/\ voice \in [1..3 -> SUBSET (0..48)] /\ noise \subseteq 0..263
           /\ payload = SymDiff(Transmitted(voice), noise))'
      BY <3>1 DEF FrameInv
    <3> QED
      BY <3>5, <3>7, <3>8 DEF FrameInv
  <2>3. CASE UNCHANGED vars
    BY <2>3 DEF vars, FrameInv, Decoded
  <2> QED
    BY <2>1, <2>2, <2>3 DEF Next
<1> QED
  BY <1>1, <1>2, PTL DEF Spec

\* Every burst and any noise: a frame with up to three wrong bits in each Golay
\* block reaches the firmware as it was sent but for the wrong bits of C2 and C3,
\* and those are right in every frame.
THEOREM Survives == Spec => []VoiceSurvives
<1>1. FrameInv => VoiceSurvives
  <2> SUFFICES ASSUME FrameInv, NEW f \in DOMAIN heard
               PROVE  SymDiff(heard[f],
                              SymDiff(voice[f], {i \in 24..48 : Source[i] \in Wrong(f)}))
                        \subseteq IF Correctable(f) THEN {} ELSE 0..23
    BY DEF VoiceSurvives
  <2> DEFINE fr == ExtractVoiceFrame(payload, f)
             bits == voice[f]
             wrong == Wrong(f)
             out == StripFec(fr).bits
             uncoded == {i \in 24..48 : Source[i] \in wrong}
  <2>1. f \in 1..3 /\ heard[f] = out
    BY DEF FrameInv, Decoded
  <2>2. bits \subseteq 0..48 /\ Received(fr, bits, wrong)
    BY <2>1, FrameReceived
  <2>3. out \subseteq 0..48
    BY StripFecBits
  <2>4. \A i \in 24..48 : i \in out <=> (i \in bits <=> Source[i] \notin wrong)
    <3>1. \A i \in 24..48 : i \in out <=> Source[i] \in fr
      BY StripFecBits
    <3>2. \A i \in 24..48 : Source[i] \in fr <=> (i \in bits <=> Source[i] \notin wrong)
      BY <2>2, ReceivedRows DEF RowsAre
    <3> HIDE DEF fr, out, bits, wrong
    <3> QED
      BY <3>1, <3>2
  <2>5. ASSUME Correctable(f) PROVE \A i \in 0..23 : i \in out <=> i \in bits
    BY <2>2, <2>5, CorrectableFrame DEF Correctable
  <2> HIDE DEF fr, out, bits, wrong
  <2>6. \A i \in 24..48 : i \notin SymDiff(out, SymDiff(bits, uncoded))
    BY <2>4 DEF SymDiff
  <2>7. SymDiff(out, SymDiff(bits, uncoded)) \subseteq 0..48
    <3>1. uncoded \subseteq 0..48
      OBVIOUS
    <3>2. bits \subseteq 0..48 /\ out \subseteq 0..48
      BY <2>2, <2>3
    <3> HIDE DEF uncoded
    <3> QED
      BY <3>1, <3>2 DEF SymDiff
  <2>8. ASSUME Correctable(f), NEW i \in 0..23
        PROVE  i \notin SymDiff(out, SymDiff(bits, uncoded))
    BY <2>5, <2>8 DEF SymDiff
  <2>9. \A i \in 0..48 : i \in 0..23 \/ i \in 24..48
    OBVIOUS
  <2> HIDE DEF uncoded
  <2>10. SymDiff(out, SymDiff(bits, uncoded))
           \subseteq IF Correctable(f) THEN {} ELSE 0..23
    BY <2>6, <2>7, <2>8, <2>9
  <2> QED
    BY <2>1, <2>10 DEF bits, wrong, uncoded
<1> QED
  BY <1>1, FrameInvariant, PTL

\* Every burst and any noise: the count of a correctable frame's errors is the
\* number of the wrong data bits of C0 and C1.
THEOREM Counted == Spec => []ErrorsAreCounted
<1>1. FrameInv => ErrorsAreCounted
  <2> SUFFICES ASSUME FrameInv, NEW f \in DOMAIN errs, Correctable(f)
               PROVE  errs[f] =
                        Cardinality((C0(Wrong(f)) \cup {23 + c : c \in C1(Wrong(f))})
                                      \cap ((11..22) \cup (34..45)))
    BY DEF ErrorsAreCounted
  <2> DEFINE fr == ExtractVoiceFrame(payload, f)
             e0 == C0(Wrong(f))
             e1 == C1(Wrong(f))
             A == e0 \cap (11..22)
             B == e1 \cap (11..22)
  <2>1. f \in 1..3 /\ errs[f] = StripFec(fr).errs
    BY DEF FrameInv, Decoded
  <2>2. Corrections(C0(fr)) = A /\ Corrections(Descrambled(fr)) = B
    BY <2>1, FrameReceived, CorrectableFrame DEF Correctable
  <2>3. e0 \subseteq 0..22 /\ e1 \subseteq 0..22
    BY DEF C0, C1
  <2>4. StripFec(fr).errs = Cardinality({<<1, j>> : j \in B}) + Cardinality(A)
    BY <2>2, StripFecBits
  <2>5. StripFec(fr).errs = Cardinality(A \cup {23 + c : c \in B})
    BY <2>4, CountOnce
  <2> HIDE DEF fr, e0, e1
  <2>6. (e0 \cup {23 + c : c \in e1}) \cap ((11..22) \cup (34..45))
          = A \cup {23 + c : c \in B}
    BY <2>3
  <2> QED
    BY <2>1, <2>5, <2>6 DEF e0, e1
<1> QED
  BY <1>1, FrameInvariant, PTL

\* Every burst and any noise: a frame the daemon encodes is the same frame when
\* it comes back to be decoded.
THEOREM ComeBack == Spec => []FramesComeBack
<1>1. FrameInv => FramesComeBack
  <2> SUFFICES ASSUME FrameInv, NEW f \in DOMAIN heard
               PROVE  BitBuffer(Amb8FromChannel(BuildChannelFromAmb8(
                                  AmbeFrame(heard[f])))) = heard[f]
    BY DEF FramesComeBack
  <2>1. f \in 1..Len(heard)
    BY DEF FrameInv
  <2>2. heard[f] = Decoded(f).bits
    BY <2>1 DEF FrameInv
  <2>3. heard[f] \subseteq 0..48
    BY <2>2, StripFecType DEF Decoded
  <2> QED
    BY <2>3, BitsArrive
<1> QED
  BY <1>1, FrameInvariant, PTL
=============================================================================
