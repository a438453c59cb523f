----------------------------- MODULE MCPcmWriter -----------------------------
(* Small instances of PcmWriter for TLC. *)
EXTENDS PcmWriter

\* Every stream from a radio of its own.
OwnTalker == [s \in Streams |-> s]
\* A radio that calls twice, and another.
RepeatTalker == [s \in Streams |-> IF s = "s3" THEN "other" ELSE "radio"]
\* One radio, keyed up again and again.
SameTalker == [s \in Streams |-> "radio"]
=============================================================================
