----------------------------- MODULE MCVoicePath -----------------------------
(* Small instances of VoicePath for TLC. *)
EXTENDS VoicePath

\* Speech, tones at either end, and silence.
SomeVoices ==
    { << {0, 2, 3, 11, 12, 17, 23, 24, 30, 34, 35, 41, 48},
         {1, 4, 5, 6, 10, 13, 14, 20, 25, 33, 36, 47, 48},
         {} >>,
      << 0..48, {}, {48} >> }

\* The places in the burst of frame 2's coded bits, block by block.
OfRow(row) == {BurstBit(2, i) : i \in {j \in 0..71 : Place[j][1] = row}}

\* Up to three of S.
UpTo3(S) == {{}} \cup {{a, b, c} : a, b, c \in S}

FirstThree(S) == {x \in S : Cardinality({y \in S : y < x}) < 3}

\* A burst of errors over the end of frame 1, the start of frame 3, the sync and
\* uncoded bits of frame 2, with four bits of C0.
Spread == {70, 71, 108, 155, 192, 193} \cup FirstThree(OfRow(2)) \cup FirstThree(OfRow(3))
            \cup FirstThree(OfRow(0) \ {72})

\* Every pattern of three in C0, and in C1, of frame 2, alone and together with
\* three in the other block; and what cannot be corrected, around it.
SomeNoises == UpTo3(OfRow(0)) \cup UpTo3(OfRow(1))
                \cup {FirstThree(OfRow(1)) \cup n : n \in UpTo3(OfRow(0))}
                \cup {FirstThree(OfRow(0)) \cup n : n \in UpTo3(OfRow(1))}
                \cup {Spread \cup {a, b} : a, b \in OfRow(0)}
=============================================================================
