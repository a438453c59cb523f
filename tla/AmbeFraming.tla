----------------------------- MODULE AmbeFraming -----------------------------
(***************************************************************************)
(* The AMBE-3000F packet stream: to_bytes and read_packet (protocol.rs) of *)
(* the daemon, and their twins send_packet and recv_packet                 *)
(* (ambe_codec_client.rs).  One end writes packets, now and then some      *)
(* other implementation's stray bytes before one, and goes away, maybe in  *)
(* the middle of a packet; the other end reads.                            *)
(*                                                                         *)
(* Data.  A byte has Base values.  A read_exact is one step, enabled when  *)
(* the stream has the bytes it wants or has ended without them.            *)
(***************************************************************************)
EXTENDS Integers, Sequences, SequencesExt

CONSTANTS Base,       \* values of a byte: 256 in the code
          StartByte,  \* START_BYTE: 0x61
          MaxLength,  \* the greatest length read_packet accepts: 4096
          Packets,    \* packets that may be written
          MaxPackets, \* bound: packets written
          MaxStray    \* bound: stray bytes

Byte == 0..(Base - 1)

TypeControl == 0
TypeChannel == 1
TypeSpeech  == 2
ChandTag    == 1
SpeechdTag  == 0

-----------------------------------------------------------------------------
(* Packets and bytes.                                                      *)

\* U16 and I16 of zerocopy, big endian.
BigEndian(v) == LET u == v % (Base * Base) IN <<u \div Base, u % Base>>
U16(hi, lo) == hi * Base + lo
I16(hi, lo) == LET u == U16(hi, lo)
               IN  IF u < (Base * Base) \div 2 THEN u ELSE u - Base * Base

Control(payload) == [type |-> TypeControl, body |-> payload]
Channel(bitCount, data) == [type |-> TypeChannel, bits |-> bitCount, body |-> data]
Speech(samples) == [type |-> TypeSpeech, body |-> samples]

\* What a Packet holds: bytes, 49 or so bits in as many bytes as they need, or
\* samples, which are i16.
Samples == LET half == (Base * Base) \div 2 IN (half - Base * Base)..(half - 1)

ControlPackets == [type : {TypeControl}, body : Seq(Byte)]
ChannelPackets == {p \in [type : {TypeChannel}, bits : Byte, body : Seq(Byte)] :
                     Len(p.body) = (p.bits + 7) \div 8}
SpeechPackets == {p \in [type : {TypeSpeech}, body : Seq(Samples)] : Len(p.body) < Base}

\* What follows the type byte.  The sample count is truncated to a byte.
Payload(p) ==
    CASE p.type = TypeControl -> p.body
      [] p.type = TypeChannel -> <<ChandTag, p.bits>> \o p.body
      [] p.type = TypeSpeech  -> <<SpeechdTag, Len(p.body) % Base>> \o
           [j \in 1..(2 * Len(p.body)) |-> BigEndian(p.body[(j + 1) \div 2])[2 - (j % 2)]]

\* to_bytes and build: length counts the type byte.
ToBytes(p) ==
    <<StartByte>> \o BigEndian(1 + Len(Payload(p))) \o <<p.type>> \o Payload(p)

Malformed == [type |-> "malformed"]

\* parse_channel and parse_speech take what the count announces and ignore
\* what follows it.
ParseChannel(payload) ==
    IF Len(payload) < 2 \/ payload[1] # ChandTag THEN Malformed
      ELSE LET expected == (payload[2] + 7) \div 8
           IN  IF Len(payload) - 2 < expected THEN Malformed
                 ELSE Channel(payload[2], SubSeq(payload, 3, 2 + expected))

\* Slip: the samples are little endian.
ParseSpeech_Swapped(payload) ==
    IF Len(payload) < 2 \/ payload[1] # SpeechdTag THEN Malformed
      ELSE LET n == payload[2]
           IN  IF Len(payload) - 2 < 2 * n THEN Malformed
                 ELSE Speech([i \in 1..n |-> I16(payload[2*i + 2], payload[2*i + 1])])

ParseSpeech(payload) ==
    IF Len(payload) < 2 \/ payload[1] # SpeechdTag THEN Malformed
      ELSE LET n == payload[2]
           IN  IF Len(payload) - 2 < 2 * n THEN Malformed
                 ELSE Speech([i \in 1..n |-> I16(payload[2*i + 1], payload[2*i + 2])])

Parse(type, payload) == CASE type = TypeControl -> Control(payload)
                          [] type = TypeChannel -> ParseChannel(payload)
                          [] type = TypeSpeech  -> ParseSpeech(payload)
                          [] OTHER -> Malformed

AmbeFramingAssumption ==
    /\ Base \in Nat /\ Base > TypeSpeech /\ StartByte \in Byte
    /\ MaxLength \in 1..(Base * Base - 1)
    /\ MaxPackets \in Nat /\ MaxStray \in Nat
    /\ Packets \subseteq ControlPackets \cup ChannelPackets \cup SpeechPackets
    /\ \A p \in Packets : Len(Payload(p)) < MaxLength

ASSUME AmbeFramingAssumption

-----------------------------------------------------------------------------
VARIABLES
    reader,   \* which end reads: the "daemon" or the "client"
    wire,     \* bytes written and not read yet
    open,     \* the writing end is there
    header,   \* read_packet has read this header, or NoHeader
    state,    \* of the reader: "reading", "eof", or "failed" for good
    written,  \* history: packets written whole
    packets,  \* history: packets read_packet returned
    errors,   \* history: errors other than end of file it returned
    stray,    \* history: stray bytes written
    misled    \* history: one of them was a start byte

vars == <<reader, wire, open, header, state, written, packets, errors, stray, misled>>
writerVars == <<open, written, stray, misled>>

NoHeader == [length |-> 0]
Headers == [length : 1..MaxLength, type : Byte]

TypeOK == /\ reader \in {"daemon", "client"}
          /\ wire \in Seq(Byte)
          /\ open \in BOOLEAN
          /\ header \in Headers \cup {NoHeader}
          /\ state \in {"reading", "eof", "failed"}
          /\ written \in Seq(Packets) /\ Len(written) <= MaxPackets
          /\ \A i \in DOMAIN packets :
               /\ Len(Payload(packets[i])) < MaxLength
               /\ \A j \in DOMAIN Payload(packets[i]) : Payload(packets[i])[j] \in Byte
          /\ errors \in Nat
          /\ stray \in 0..MaxStray /\ misled \in BOOLEAN

Init == /\ reader \in {"daemon", "client"}
        /\ wire = <<>> /\ open = TRUE /\ header = NoHeader /\ state = "reading"
        /\ written = <<>> /\ packets = <<>> /\ errors = 0
        /\ stray = 0 /\ misled = FALSE

-----------------------------------------------------------------------------
(* The end that writes.                                                    *)

WritePacket(p) == /\ open /\ Len(written) < MaxPackets
                  /\ wire' = wire \o ToBytes(p)
                  /\ written' = Append(written, p)
                  /\ UNCHANGED <<reader, open, header, state, packets, errors,
                                 stray, misled>>

\* It goes away, after the first n bytes of a packet.
BreakOff(p) == /\ open
               /\ \E n \in 0..(Len(ToBytes(p)) - 1) :
                    wire' = wire \o SubSeq(ToBytes(p), 1, n)
               /\ open' = FALSE
               /\ UNCHANGED <<reader, header, state, written, packets, errors,
                              stray, misled>>

\* A byte that belongs to no packet.
StrayByte(b) == /\ open /\ stray < MaxStray
                /\ wire' = Append(wire, b)
                /\ stray' = stray + 1
                /\ misled' = (misled \/ b = StartByte)
                /\ UNCHANGED <<reader, open, header, state, written, packets, errors>>

-----------------------------------------------------------------------------
(* read_packet, in the loop of its callers.                                *)

\* read_exact of n bytes.
CanRead(n) == state = "reading" /\ Len(wire) >= n
CutShort(n) == state = "reading" /\ Len(wire) < n /\ ~open

\* What the next read_exact wants: at least the byte that may be the start,
\* the header, or the payload.
Wanted == IF header # NoHeader THEN header.length - 1
            ELSE IF wire # <<>> /\ Head(wire) = StartByte THEN 4 ELSE 1

Consume(n) == wire' = SubSeq(wire, n + 1, Len(wire))

Resync == /\ header = NoHeader /\ CanRead(1) /\ Head(wire) # StartByte
          /\ Consume(1)
          /\ UNCHANGED <<reader, header, state, packets, errors, writerVars>>

\* The daemon's handler returns the error, which ends the connection.  The
\* client's decode returns it too, but the listener logs it and uses the
\* connection again.
Fails == /\ state' = IF reader = "daemon" THEN "failed" ELSE "reading"
         /\ errors' = errors + 1

AtHeader == /\ header = NoHeader /\ CanRead(4) /\ Head(wire) = StartByte
            /\ Consume(4)
            /\ UNCHANGED <<reader, packets, writerVars>>

\* Slip: only zero is refused.
GoodLength_Unbounded(length) == 0 < length

GoodLength(length) == 0 < length /\ length <= MaxLength

\* Slip: the type byte is taken for a part of the payload.
ReadHeader_TypeTwice ==
    /\ AtHeader /\ GoodLength(U16(wire[2], wire[3]))
    /\ header' = [length |-> U16(wire[2], wire[3]) + 1, type |-> wire[4]]
    /\ UNCHANGED <<state, errors>>

ReadHeader == /\ AtHeader /\ GoodLength(U16(wire[2], wire[3]))
              /\ header' = [length |-> U16(wire[2], wire[3]), type |-> wire[4]]
              /\ UNCHANGED <<state, errors>>

BadLength == /\ AtHeader /\ ~GoodLength(U16(wire[2], wire[3]))
             /\ header' = NoHeader
             /\ Fails

ReadPayload ==
    /\ header # NoHeader /\ CanRead(header.length - 1)
    /\ Consume(header.length - 1)
    /\ header' = NoHeader
    /\ LET p == Parse(header.type, SubSeq(wire, 1, header.length - 1))
       IN  IF p = Malformed THEN UNCHANGED packets /\ Fails
             ELSE packets' = Append(packets, p) /\ UNCHANGED <<state, errors>>
    /\ UNCHANGED <<reader, writerVars>>

\* Slip: the end of the stream is noticed between packets only.
EndOfFile_Clean == /\ CutShort(Wanted) /\ wire = <<>> /\ header = NoHeader
                   /\ state' = "eof"
                   /\ UNCHANGED <<reader, wire, header, packets, errors, writerVars>>

\* UnexpectedEof, wherever it comes: what was read of a packet is dropped.
EndOfFile == /\ CutShort(Wanted)
             /\ state' = "eof" /\ header' = NoHeader /\ wire' = <<>>
             /\ UNCHANGED <<reader, packets, errors, writerVars>>

Reader == Resync \/ ReadHeader \/ BadLength \/ ReadPayload \/ EndOfFile

Next == \/ \E p \in Packets : WritePacket(p) \/ BreakOff(p)
        \/ \E b \in Byte : StrayByte(b)
        \/ Reader

Spec == Init /\ [][Next]_vars

\* The task that reads runs.  Nothing obliges the other end.
FairSpec == Spec /\ WF_vars(Reader)

-----------------------------------------------------------------------------
(* Properties.                                                             *)

\* What is read is what was written, each packet once and in order, whatever
\* is in the payloads (start bytes, whole packets), wherever the stream breaks
\* off, and whatever stray bytes lie between the packets, as long as none of
\* them is the start byte (protocol.rs:186-196).
PacketsAreTransparent == ~misled => IsPrefix(packets, written) /\ errors = 0

\* The reader never waits for bytes of a packet that nobody owes it: when it
\* has to wait, it has returned all that was written.  A client that waits for
\* its answer before it sends again would otherwise wait for ever.
NothingIsHeldBack ==
    ~misled /\ state = "reading" /\ Len(wire) < Wanted /\ open => packets = written

\* However badly the stream was desynchronised, the reader ends when the stream
\* does: no length it believed in keeps the handler (server.rs:202-211).
StreamEnds == ~open ~> state # "reading"

=============================================================================
