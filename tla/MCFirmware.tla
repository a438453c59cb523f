------------------------------ MODULE MCFirmware ------------------------------
(* Small instances of Firmware for TLC. *)
EXTENDS Firmware, TLC

\* Something is mapped where the RAM core goes.
AtTheRam == {2}

ThreadSymmetry == Permutations(Threads)
=============================================================================
