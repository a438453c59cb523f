--------------------------- MODULE MCCodecServer ---------------------------
(* Small instances of CodecServer for TLC. *)
EXTENDS CodecServer

\* The kinds of packet that take different paths through the handler.
EveryPath == {"PRODID", "RESET", "speech", "channel", "misshapen"}
=============================================================================
