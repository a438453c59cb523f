------------------------------ MODULE MCEchoDmr ------------------------------
(* Small instances of EchoDmr for TLC. *)
EXTENDS EchoDmr
=============================================================================
