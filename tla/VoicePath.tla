------------------------------ MODULE VoicePath ------------------------------
(***************************************************************************)
(* The way of the voice bits from a DMR radio to the vocoder: mmdvm_sip    *)
(* takes the three AMBE+2 frames out of a burst (dmr/voice_burst.rs),      *)
(* strips their error correction (fec/ambe.rs, fec/golay.rs), packs the    *)
(* 49 bits of each into a Channel packet (dmr_listener.rs), and the daemon *)
(* unpacks them for the firmware (protocol.rs, codec.rs).  The radio that  *)
(* encodes and the noise on the air are external.                          *)
(*                                                                         *)
(* Data.  A word is the set of the positions at which its bits are 1, so   *)
(* XOR is the symmetric difference: voice bits are numbered 0..48, burst   *)
(* bits 0..263 in the order of the wire, the bits of a Golay block 22..0.  *)
(* An AmbeFr is the set of its <<row, column>>, a byte string the set of   *)
(* its <<byte, bit>>, bit 7 the MSB.                                       *)
(***************************************************************************)
EXTENDS Naturals, Sequences, FiniteSets, FiniteSetsExt, GolayMatrix

CONSTANTS Voices, \* bursts a radio sends: the voice bits of each of its frames
          Noises  \* sets of burst bits that are received wrong

ASSUME VoiceAssumption == /\ Voices \subseteq [1..3 -> SUBSET (0..48)]
                          /\ \A n \in Noises : n \subseteq 0..263

-----------------------------------------------------------------------------
(* The Golay(23,12) code: data bits 22..11, parity bits 10..0.             *)

BitsOf(n, width) == {i \in 0..(width - 1) : (n \div 2^i) % 2 = 1}

\* The number of which word is the low width bits.
Number(word, width) ==
    LET low[i \in 0..width] ==
          IF i = 0 THEN 0
          ELSE low[i - 1] + (IF (i - 1) \in word THEN 2^(i - 1) ELSE 0)
    IN  low[width]

Odd(word) == Cardinality(word) % 2 = 1

\* 0x63a, 0x31d, ...: entry i + 1 is the parity of data bit 22 - i.
GOLAY_GENERATOR == <<1594, 797, 1972, 986, 493, 1740, 870, 435, 1763, 1355, 1183, 1141>>

\* The data bits that parity bit p sums up.
Covers == [p \in 0..10 |-> {22 - i : i \in {j \in 0..11 :
                                           p \in BitsOf(GOLAY_GENERATOR[j + 1], 11)}}]

Syndrome(block) == {p \in 0..10 : Odd(block \cap ({p} \cup Covers[p]))}

\* check_golay_block: the data bits to flip.  golay_23_12 leaves the parity
\* bits as they came and counts what it flips.
Corrections(block) ==
    {11 + i : i \in BitsOf(GOLAY_MATRIX[1 + Number(Syndrome(block), 11)], 12)}

\* The table, which is data: of each pattern of up to three errors it corrects
\* those in data bits.
ASSUME TableAssumption ==
    /\ Corrections({}) = {}
    /\ \A a, b, c \in 0..22 : Corrections({a, b, c}) = {a, b, c} \cap (11..22)

-----------------------------------------------------------------------------
(* The FEC of a frame.  C0 is row 0, columns 23..1, and C1 row 1, columns  *)
(* 22..0.  C2 and C3 are not coded.                                        *)

C0(fr) == {c \in 0..22 : <<0, c + 1>> \in fr}
C1(fr) == {c \in 0..22 : <<1, c>> \in fr}

\* The scrambler's bits for C1, from the data bits of C0.
Scrambler(data) ==
    LET foo == Number({c - 11 : c \in data}, 12)
        pr[i \in 0..23] == IF i = 0 THEN 16 * foo
                           ELSE (173 * pr[i - 1] + 13849) % 65536
    IN  {j \in 0..22 : pr[23 - j] >= 32768}

EccC0(fr) == SymDiff(fr, {<<0, j + 1>> : j \in Corrections(C0(fr))})

Demodulate(fr) == SymDiff(fr, {<<1, j>> : j \in Scrambler(C0(fr) \cap (11..22))})

\* Where ecc_data takes voice bit i from.
Source == [i \in 0..48 |->
             IF i < 12 THEN <<0, 23 - i>>
             ELSE IF i < 24 THEN <<1, 22 - (i - 12)>>
             ELSE IF i < 35 THEN <<2, 10 - (i - 24)>>
             ELSE <<3, 13 - (i - 35)>>]

EccData(fr) ==
    LET c1 == {<<1, j>> : j \in Corrections(C1(fr))}
    IN  [bits |-> {i \in 0..48 : Source[i] \in SymDiff(fr, c1)},
         errs |-> Cardinality(c1)]

\* Slip: C1 is descrambled with the seed as it was received.
StripFec_SeedTooEarly(fr) ==
    LET data == EccData(EccC0(Demodulate(fr)))
    IN  [bits |-> data.bits, errs |-> data.errs + Cardinality(Corrections(C0(fr)))]

\* Slip: only the last of the two counts is returned.
StripFec_LastCount(fr) == EccData(Demodulate(EccC0(fr)))

\* The voice bits and the number of bits corrected.
StripFec(fr) ==
    LET data == EccData(Demodulate(EccC0(fr)))
    IN  [bits |-> data.bits, errs |-> data.errs + Cardinality(Corrections(C0(fr)))]

-----------------------------------------------------------------------------
(* The burst: three frames of 36 dibits, the second one around the sync.   *)

RW == <<0, 1, 0, 1, 0, 1, 0, 1, 0, 1, 0, 1, 0, 1, 0, 1, 0, 1,
        0, 1, 0, 1, 0, 2, 0, 2, 0, 2, 0, 2, 0, 2, 0, 2, 0, 2>>
RX == <<23, 10, 22, 9, 21, 8, 20, 7, 19, 6, 18, 5, 17, 4, 16, 3, 15, 2,
        14, 1, 13, 0, 12, 10, 11, 9, 10, 8, 9, 7, 8, 6, 7, 5, 6, 4>>
RY == <<0, 2, 0, 2, 0, 2, 0, 2, 0, 3, 0, 3, 1, 3, 1, 3, 1, 3,
        1, 3, 1, 3, 1, 3, 1, 3, 1, 3, 1, 3, 1, 3, 1, 3, 1, 3>>
RZ == <<5, 3, 4, 2, 3, 1, 2, 0, 1, 13, 0, 12, 22, 11, 21, 10, 20, 9,
        19, 8, 18, 7, 17, 6, 16, 5, 15, 4, 14, 3, 13, 2, 12, 1, 11, 0>>

\* deinterleave: where bit i of a frame belongs, the MSB of a dibit first.
Place == [i \in 0..71 |-> LET d == i \div 2 + 1
                          IN  IF i % 2 = 0 THEN <<RW[d], RX[d]>> ELSE <<RY[d], RZ[d]>>]

\* The burst bit that is bit i of frame f.
BurstBit(f, i) == IF f = 1 THEN i
                  ELSE IF f = 3 THEN 192 + i
                  ELSE IF i < 36 THEN 72 + i ELSE 156 + (i - 36)

ExtractVoiceFrame(payload, f) ==
    {Place[i] : i \in {j \in 0..71 : BurstBit(f, j) \in payload}}

-----------------------------------------------------------------------------
(* The 49 bits between the two programs.                                   *)

\* The listener's pack_voice_bits: 48 bits from the MSB on, the last one in the
\* MSB of byte 6.
PackVoiceBits(bits) == {<<i \div 8, 7 - (i % 8)>> : i \in bits}

\* The daemon's 8-byte frame has a status byte in front and the last bit in the
\* LSB of byte 7.
Amb8FromChannel(data) ==
    {<<b[1] + 1, b[2]>> : b \in {x \in data : x[1] < 6}}
      \cup (IF <<6, 7>> \in data THEN {<<7, 0>>} ELSE {})

\* Slip: the last bit stays where it is.
BuildChannelFromAmb8_LastBit(amb8) == {<<b[1] - 1, b[2]>> : b \in {x \in amb8 : x[1] > 0}}

BuildChannelFromAmb8(amb8) ==
    {<<b[1] - 1, b[2]>> : b \in {x \in amb8 : x[1] \in 1..6}}
      \cup (IF <<7, 0>> \in amb8 THEN {<<6, 7>>} ELSE {})

\* decode: what the firmware finds in its bit buffer.
BitBuffer(amb8) ==
    {8 * (b[1] - 1) + (7 - b[2]) : b \in {x \in amb8 : x[1] \in 1..6}}
      \cup (IF <<7, 0>> \in amb8 THEN {48} ELSE {})

\* encode: the frame made of the bits the firmware wrote.
AmbeFrame(bits) == {<<i \div 8 + 1, 7 - (i % 8)>> : i \in bits \cap (0..47)}
                     \cup (IF 48 \in bits THEN {<<7, 0>>} ELSE {})

-----------------------------------------------------------------------------
(* External: the radio.                                                    *)

Codeword(data) == data \cup {p \in 0..10 : Odd(data \cap Covers[p])}

\* The frame of 49 voice bits: C0 with a parity over all of it, C1 scrambled.
Encoded(bits) ==
    LET plain == {Source[i] : i \in bits}
        c0 == {<<0, j + 1>> : j \in Codeword(C0(plain))}
        c1 == {<<1, j>> : j \in SymDiff(Codeword(C1(plain)), Scrambler(C0(plain)))}
    IN  c0 \cup (IF Odd(c0) THEN {<<0, 0>>} ELSE {}) \cup c1
          \cup {x \in plain : x[1] > 1}

\* The burst of three frames; sync bits are 0.
Transmitted(voice) ==
    {BurstBit(x[1], x[2]) : x \in {y \in (1..3) \X (0..71) :
                                     Place[y[2]] \in Encoded(voice[y[1]])}}

-----------------------------------------------------------------------------
VARIABLES
    voice,   \* the voice bits sent, frame by frame
    noise,   \* the burst bits received wrong
    payload, \* the burst as received
    heard,   \* the bits the firmware gets, of the frames decoded so far
    errs     \* the errors counted in each of them

vars == <<voice, noise, payload, heard, errs>>

Init == /\ voice \in Voices /\ noise = {} /\ payload = Transmitted(voice)
        /\ heard = <<>> /\ errs = <<>>

\* External: the burst is received with some bits wrong.
Fade == /\ noise = {} /\ heard = <<>>
        /\ noise' \in Noises
        /\ payload' = SymDiff(payload, noise')
        /\ UNCHANGED <<voice, heard, errs>>

\* One round of decode_voice's loop, up to the firmware.
DecodeFrame ==
    /\ Len(heard) < 3
    /\ LET strip == StripFec(ExtractVoiceFrame(payload, Len(heard) + 1))
       IN  /\ heard' = Append(heard, BitBuffer(Amb8FromChannel(PackVoiceBits(strip.bits))))
           /\ errs' = Append(errs, strip.errs)
    /\ UNCHANGED <<voice, noise, payload>>

Next == Fade \/ DecodeFrame

Spec == Init /\ [][Next]_vars

-----------------------------------------------------------------------------
(* Properties.                                                             *)

\* The places of frame f that were received wrong.
Wrong(f) == ExtractVoiceFrame(noise, f)

\* At most three bits of each Golay block are wrong.
Correctable(f) == Cardinality(C0(Wrong(f))) <= 3 /\ Cardinality(C1(Wrong(f))) <= 3

\* A frame with up to three wrong bits in each Golay block, data or parity,
\* reaches the firmware as it was sent but for the wrong bits of C2 and C3,
\* which nothing protects.  (golay.rs:16-17 "Golay(23,12) can correct up to 3
\* errors in any of the 23 bit positions"; C1 needs C0's seed right first.)
\* With more wrong bits C0 and C1 may become anything, but C2, C3 and the other
\* frames of the burst do not suffer.
VoiceSurvives ==
    \A f \in DOMAIN heard :
      LET uncoded == {i \in 24..48 : Source[i] \in Wrong(f)}
          spoilt == SymDiff(heard[f], SymDiff(voice[f], uncoded))
      IN  spoilt \subseteq IF Correctable(f) THEN {} ELSE 0..23

\* The error count of a correctable frame is the number of its data bits in C0
\* and C1 that were wrong: none is counted twice, and none of C1 because of the
\* scrambler.  Wrong parity bits are not counted.
ErrorsAreCounted ==
    \A f \in DOMAIN errs :
      Correctable(f) =>
        errs[f] = Cardinality((C0(Wrong(f)) \cup {23 + c : c \in C1(Wrong(f))})
                                \cap ((11..22) \cup (34..45)))

\* A frame the daemon encodes is the same frame when it is sent back to be
\* decoded: both directions agree about the place of every bit, the 49th too.
FramesComeBack ==
    \A f \in DOMAIN heard :
      BitBuffer(Amb8FromChannel(BuildChannelFromAmb8(AmbeFrame(heard[f])))) = heard[f]

=============================================================================
