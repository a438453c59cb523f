---------------------------- MODULE MCAmbeFraming ----------------------------
(* Small instances of AmbeFraming for TLC: a byte has four values, 3 starts  *)
(* a packet.                                                                 *)
EXTENDS AmbeFraming

\* A query; a control packet that contains another one; a channel packet of
\* the start byte; a speech packet of two samples, of the greatest length.
SomePackets == { Control(<<1>>), Control(<<3, 0, 2, 0, 1>>), Channel(3, <<3>>),
                 Speech(<<-4, 7>>) }
==============================================================================
