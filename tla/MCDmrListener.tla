---------------------------- MODULE MCDmrListener ----------------------------
(* Small instances of DmrListener for TLC. *)
EXTENDS DmrListener

\* One talker for each stream.
Talkers == [s \in Streams |-> s]
BothSlots == {1, 2}
=============================================================================
