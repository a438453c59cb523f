--------------------------- MODULE MCRegistration ---------------------------
(* Small instances of Registration for TLC: all constants are numbers. *)
EXTENDS Registration
=============================================================================
