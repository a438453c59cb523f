------------------------- MODULE DmrListenerProofs -------------------------
(***************************************************************************)
(* Theorems about DmrListener, for every set of calls, every size of the   *)
(* socket's buffer, and a connection that may break anywhere.              *)
(*                                                                         *)
(* The bursts of a call move in one line: from MMDVMHost through the       *)
(* socket's buffer and decode_voice to the recorder, numbered upwards      *)
(* (OrderInv).  What the server is asked for and what came back is, at     *)
(* every moment, the next frame of the burst being decoded (DecodeInv).    *)
(* The recorder is used as PcmWriter specifies it, so what PcmWriterProofs *)
(* proves of it holds here; and so is the server, as CodecService does.    *)
(***************************************************************************)
EXTENDS DmrListener, TLAPS, SequenceTheorems

Recorder == INSTANCE PcmWriterProofs

Results == [frame : Frames, pred : Frames \cup {None}]
Calls == [n : 1..MaxBursts, pcm : Seq(Results)]

Types == /\ buffer \in Seq(Bursts \cup {Other}) /\ Len(buffer) <= BufferCap
         /\ arrived \in [CallKeys -> 0..MaxBursts]
         /\ burst \in Bursts \cup {None}
         /\ pcm \in Seq(Results)
         /\ handed \in [CallKeys -> Seq(Calls)]
         /\ link \in {"up", "broken"}
         /\ context \in [{"decode"} -> Frames \cup {None}]
         /\ pending \in [{Self} -> Frames \cup {None}]
         /\ result \in [{Self} -> Results \cup {None}]
         /\ orphans \in SUBSET Frames

\* Before it listens the task decodes and records nothing.
GreetingInv == /\ phase \in {"greeting", "listening", "exited"}
               /\ phase = "listening" => controls = <<>> /\ owed = None
               /\ phase # "listening" => burst = None /\ active = [k \in {} |-> {}]

-----------------------------------------------------------------------------
(* Decoding.                                                               *)

FrameOf(b, p) == [conn |-> Self, dir |-> "decode", burst |-> b, part |-> p]

\* What came back for the frames of burst b, in order, each decoded after the
\* one before it.
PcmOK(b, s) == \A i \in DOMAIN s : /\ s[i].frame = FrameOf(b, i)
                                   /\ i > 1 => s[i].pred = FrameOf(b, i - 1)

\* The next part of burst b is asked for, coded, or still to be asked for; the
\* server's context is the part before it.
ExchangeOK(b, part, p, r, c) ==
    /\ p # None => r = None /\ part \in Parts /\ p = FrameOf(b, part)
    /\ r # None => /\ part \in Parts /\ r.frame = FrameOf(b, part) /\ c = FrameOf(b, part)
                   /\ part > 1 => r.pred = FrameOf(b, part - 1)
    /\ r = None /\ part > 1 => c = FrameOf(b, part - 1)

DecodeInv ==
    /\ Len(pcm) <= 3
    /\ burst = None => pcm = <<>> /\ pending[Self] = None /\ result[Self] = None
    /\ link = "broken" => pending[Self] = None /\ result[Self] = None
    /\ burst # None => PcmOK(burst, pcm)
    /\ link = "up" => orphans = {}
    /\ link = "up" /\ burst # None =>
         ExchangeOK(burst, Len(pcm) + 1, pending[Self], result[Self], context["decode"])

-----------------------------------------------------------------------------
(* The line of bursts.                                                     *)

\* Each burst is behind those that are handed over, the one being decoded and
\* those that came before it; and none has a number that did not arrive.
QueueOK(q, count) ==
    /\ \A i \in DOMAIN q : q[i] # Other => q[i].n <= count[q[i].call]
    /\ \A i, j \in DOMAIN q : i < j /\ q[i] # Other /\ q[j] # Other /\ q[i].call = q[j].call
         => q[i].n < q[j].n

HandedOK(k, s, count) ==
    \A i \in DOMAIN s : /\ i <= s[i].n /\ s[i].n <= count[k]
                        /\ Len(s[i].pcm) = 3
                        /\ PcmOK([call |-> k, n |-> s[i].n], s[i].pcm)
                        /\ \A j \in DOMAIN s : j < i => s[j].n < s[i].n

\* Burst b is behind all that was handed over.
Behind(b, done) == \A i \in DOMAIN done[b.call] : done[b.call][i].n < b.n

OrderInv ==
    /\ QueueOK(buffer, arrived)
    /\ \A i \in DOMAIN buffer : buffer[i] # Other => Behind(buffer[i], handed)
    /\ burst # None =>
         /\ burst.n <= arrived[burst.call] /\ Behind(burst, handed)
         /\ \A i \in DOMAIN buffer : buffer[i] # Other /\ buffer[i].call = burst.call
              => burst.n < buffer[i].n
    /\ \A k \in CallKeys : HandedOK(k, handed[k], arrived)

CountInv == \A k \in CallKeys : seen[k] = Len(handed[k]) /\ seen[k] <= arrived[k]

-----------------------------------------------------------------------------
(* Sequences, frames and the recorder.                                     *)

\* What is taken from the front.
LEMMA Taken ==
    ASSUME NEW S, NEW q \in Seq(S), q # <<>>
    PROVE  /\ Head(q) \in S /\ Head(q) = q[1] /\ 1 \in DOMAIN q
           /\ Tail(q) \in Seq(S) /\ Len(Tail(q)) <= Len(q)
           /\ \A i \in DOMAIN Tail(q) : /\ i \in Nat \ {0} /\ i + 1 \in DOMAIN q
                                        /\ Tail(q)[i] = q[i + 1]
           /\ \A i \in DOMAIN q : i = 1 \/ \E j \in DOMAIN Tail(q) : Tail(q)[j] = q[i]
<1>1. /\ Head(q) \in S /\ Tail(q) \in Seq(S) /\ Len(Tail(q)) = Len(q) - 1
      /\ \A i \in 1..Len(Tail(q)) : Tail(q)[i] = q[i + 1]
  BY HeadTailProperties
<1>2. /\ DOMAIN q = 1..Len(q) /\ Len(q) \in Nat \ {0} /\ Head(q) = q[1]
      /\ DOMAIN Tail(q) = 1..Len(Tail(q))
  BY <1>1, LenProperties, EmptySeq
<1>3. \A i \in DOMAIN q : i = 1 \/ (i - 1 \in DOMAIN Tail(q) /\ Tail(q)[i - 1] = q[i])
  BY <1>1, <1>2
<1>4. \A i \in DOMAIN Tail(q) : i \in Nat \ {0} /\ i + 1 \in DOMAIN q
                                  /\ Tail(q)[i] = q[i + 1]
  BY <1>1, <1>2
<1>5. 1 \in DOMAIN q /\ Len(Tail(q)) <= Len(q)
  BY <1>1, <1>2
<1> QED
  BY <1>1, <1>2, <1>3, <1>4, <1>5

\* What is put at the end.
LEMMA Put ==
    ASSUME NEW S, NEW q \in Seq(S), NEW m \in S
    PROVE  /\ Append(q, m) \in Seq(S)
           /\ DOMAIN q = 1..Len(q) /\ Len(q) \in Nat
           /\ Len(Append(q, m)) = Len(q) + 1
           /\ DOMAIN Append(q, m) = 1..(Len(q) + 1)
           /\ \A i \in DOMAIN Append(q, m) : i \in DOMAIN q \/ i = Len(q) + 1
           /\ \A i \in DOMAIN q : i \in DOMAIN Append(q, m) /\ Append(q, m)[i] = q[i]
                                  /\ i < Len(q) + 1
           /\ Len(q) + 1 \in DOMAIN Append(q, m) /\ Append(q, m)[Len(q) + 1] = m
<1>1. DOMAIN q = 1..Len(q) /\ Len(q) \in Nat
  BY LenProperties
<1>2. /\ DOMAIN Append(q, m) = 1..(Len(q) + 1) /\ Append(q, m)[Len(q) + 1] = m
      /\ \A i \in 1..Len(q) : Append(q, m)[i] = q[i]
  BY <1>1
<1>3. \A i \in 1..(Len(q) + 1) : i \in 1..Len(q) \/ i = Len(q) + 1
  BY <1>1
<1>4. Len(q) + 1 \in 1..(Len(q) + 1) /\ \A i \in 1..Len(q) : i \in 1..(Len(q) + 1)
                                                                /\ i < Len(q) + 1
  BY <1>1
<1>5. Append(q, m) \in Seq(S) /\ Len(Append(q, m)) = Len(q) + 1
  BY <1>1
<1> QED
  BY <1>1, <1>2, <1>3, <1>4, <1>5

\* The numbers are numbers.
LEMMA Numbers == BufferCap \in Nat /\ MaxBursts \in Nat
BY SizeAssumption, RecorderAssumption DEF Writer!TimeAssumption

\* A burst has a call and a number; other datagrams have none.
LEMMA BurstIs ==
    /\ Other \notin Bursts /\ None \notin Bursts
    /\ \A b \in Bursts : /\ b.call \in CallKeys /\ b.n \in 1..MaxBursts /\ b.n \in Nat
                         /\ b = [call |-> b.call, n |-> b.n]
<1>1. Other \notin Bursts
  BY NoneAssumption DEF Other, Bursts
<1> QED
  BY <1>1, NoneAssumption, Numbers DEF Bursts

\* The frames of a burst.
LEMMA FrameIs ==
    ASSUME NEW b \in Bursts, NEW p \in Parts
    PROVE  /\ FrameOf(b, p) \in Frames /\ FrameOf(b, p) # None
           /\ FrameOf(b, p).dir = "decode" /\ FrameOf(b, p).conn = Self
<1>1. FrameOf(b, p) \in Frames
  BY DEF FrameOf, Frames
<1> QED
  BY <1>1, NoneAssumption DEF FrameOf

\* A result is a frame and the one before it.
LEMMA ResultIs ==
    /\ None \notin Results /\ None \notin Frames
    /\ \A f \in Frames : f.dir = "decode"
    /\ \A f \in Frames, g \in Frames \cup {None} :
         /\ [frame |-> f, pred |-> g] \in Results
         /\ [frame |-> f, pred |-> g].frame = f /\ [frame |-> f, pred |-> g].pred = g
BY NoneAssumption DEF Results, Frames

\* The recorder's assumptions are met.
LEMMA Assumed ==
    /\ Recorder!TimeAssumption /\ Recorder!TalkerAssumption /\ Recorder!TimeoutCoversSecond
BY RecorderAssumption
   DEF Writer!TimeAssumption, Writer!TalkerAssumption, Writer!TimeoutCoversSecond,
       Recorder!TimeAssumption, Recorder!TalkerAssumption, Recorder!TimeoutCoversSecond

\* The module PcmWriterProofs is about is the one the listener uses.
LEMMA SameRecorder ==
    /\ Writer!TypeOK <=> Recorder!TypeOK
    /\ Writer!Init <=> Recorder!Init
    /\ \A k : Writer!HandleBurst(k) <=> Recorder!HandleBurst(k)
    /\ Writer!FlushIdle <=> Recorder!FlushIdle
    /\ Writer!Exit <=> Recorder!Exit
    /\ Writer!Tick <=> Recorder!Tick
<1>1. Writer!TypeOK <=> Recorder!TypeOK
  BY DEF Writer!TypeOK, Recorder!TypeOK, Writer!CallKeys, Recorder!CallKeys,
         Writer!CallMeta, Recorder!CallMeta, Writer!Paths, Recorder!Paths,
         Writer!Bursts, Recorder!Bursts, Writer!Hole, Recorder!Hole,
         Writer!Range, Recorder!Range
<1>2. Writer!Init <=> Recorder!Init
  BY DEF Writer!Init, Recorder!Init, Writer!CallKeys, Recorder!CallKeys
<1>3. ASSUME NEW k PROVE Writer!HandleBurst(k) <=> Recorder!HandleBurst(k)
  BY DEF Writer!HandleBurst, Recorder!HandleBurst, Writer!NextBurst, Recorder!NextBurst,
         Writer!FirstBurst, Recorder!FirstBurst, Writer!CreateFails, Recorder!CreateFails,
         Writer!RefusedBurst, Recorder!RefusedBurst, Writer!Handle, Recorder!Handle,
         Writer!WriteAll, Recorder!WriteAll, Writer!Overwritten, Recorder!Overwritten,
         Writer!Opened, Recorder!Opened, Writer!Created, Recorder!Created,
         Writer!PathFor, Recorder!PathFor, Writer!Burst, Recorder!Burst,
         Writer!Hole, Recorder!Hole, Writer!Flushed, Recorder!Flushed,
         Writer!Stale, Recorder!Stale, Writer!Restrict, Recorder!Restrict
<1>4. Writer!FlushIdle <=> Recorder!FlushIdle
  BY DEF Writer!FlushIdle, Recorder!FlushIdle, Writer!Flushed, Recorder!Flushed,
         Writer!Stale, Recorder!Stale, Writer!Restrict, Recorder!Restrict
<1>5. Writer!Exit <=> Recorder!Exit
  BY DEF Writer!Exit, Recorder!Exit, Writer!InFlight, Recorder!InFlight,
         Writer!Front, Recorder!Front
<1>6. Writer!Tick <=> Recorder!Tick
  BY DEF Writer!Tick, Recorder!Tick
<1> QED
  BY <1>1, <1>2, <1>3, <1>4, <1>5, <1>6

-----------------------------------------------------------------------------
(* The recorder and the server are used as they are specified.             *)

\* What a step of the listener is to the recorder: a call of it, or nothing.
LEMMA RecorderStep ==
    ASSUME [Next]_vars, burst \in Bursts \cup {None}
    PROVE  [Recorder!Next]_(Recorder!vars)
<1>1. CASE Record
  <2>1. Writer!HandleBurst(burst.call) /\ burst.call \in CallKeys
    BY <1>1, BurstIs DEF Record
  <2> QED
    BY <2>1, SameRecorder DEF Recorder!Next, Recorder!CallKeys, CallKeys
<1>2. CASE IdleTick
  BY <1>2, SameRecorder DEF IdleTick, Recorder!Next
<1>3. CASE Tick
  BY <1>3, SameRecorder DEF Tick, Recorder!Next
<1>4. CASE RecvFails
  BY <1>4, SameRecorder DEF RecvFails, Recorder!Next
<1>5. CASE UNCHANGED writerVars
  BY <1>5 DEF writerVars, Recorder!vars
<1> QED
  BY <1>1, <1>2, <1>3, <1>4, <1>5
     DEF Next, Task, SendControl, RecvAck, StartFails, WriterFails, RecvOther, RecvVoice, SendFrame,
         RecvPcm, DecodeFails, Serve, LinkBreaks, ArriveOther, Arrive, TheRestUnchanged, vars

\* The vocoder codes the pending frame against its context.
LEMMA ServeIs ==
    ASSUME Types, Codec!Serve(Self)
    PROVE  /\ pending[Self] # None /\ pending[Self] \in Frames
           /\ pending' = [pending EXCEPT ![Self] = None] /\ pending'[Self] = None
           /\ result' = [result EXCEPT ![Self] = [frame |-> pending[Self],
                                                  pred |-> context["decode"]]]
           /\ result'[Self] \in Results
           /\ result'[Self].frame = pending[Self] /\ result'[Self].pred = context["decode"]
           /\ context' = [context EXCEPT !["decode"] = pending[Self]]
           /\ context'["decode"] = pending[Self]
           /\ orphans' = orphans
<1>1. pending[Self] # None /\ pending[Self] \in Frames /\ context["decode"] \in Frames \cup {None}
  BY DEF Codec!Serve, Types
<1>2. pending[Self].dir = "decode"
  BY <1>1, ResultIs
<1>3. /\ pending' = [pending EXCEPT ![Self] = None]
      /\ result' = [result EXCEPT ![Self] = [frame |-> pending[Self],
                                             pred |-> context["decode"]]]
      /\ context' = [context EXCEPT !["decode"] = pending[Self]]
      /\ orphans' = orphans
  BY <1>2 DEF Codec!Serve, Codec!Coded
<1>4. pending'[Self] = None /\ context'["decode"] = pending[Self]
      /\ result'[Self] = [frame |-> pending[Self], pred |-> context["decode"]]
  BY <1>3 DEF Types
<1> QED
  BY <1>1, <1>3, <1>4, ResultIs

\* What the listener asks for.
LEMMA AskIs ==
    ASSUME Types, SendFrame
    PROVE  /\ burst \in Bursts /\ link = "up" /\ Len(pcm) + 1 \in Parts
           /\ pending[Self] = None /\ result[Self] = None
           /\ pending' = [pending EXCEPT ![Self] = FrameOf(burst, Len(pcm) + 1)]
           /\ pending'[Self] = FrameOf(burst, Len(pcm) + 1)
           /\ FrameOf(burst, Len(pcm) + 1) \in Frames
           /\ UNCHANGED <<context, result, orphans, buffer, arrivalVars, taskVars, link,
                          writerVars>>
<1>1. burst \in Bursts /\ link = "up" /\ Len(pcm) + 1 \in Parts
  BY LenProperties DEF SendFrame, Types, Parts
<1>2. Frame(Len(pcm) + 1) = FrameOf(burst, Len(pcm) + 1)
  BY DEF Frame, FrameOf
<1>3. /\ pending[Self] = None /\ result[Self] = None
      /\ pending' = [pending EXCEPT ![Self] = FrameOf(burst, Len(pcm) + 1)]
      /\ UNCHANGED <<context, result, orphans, buffer, arrivalVars, taskVars, link, writerVars>>
  BY <1>2 DEF SendFrame, Codec!Ask
<1>4. FrameOf(burst, Len(pcm) + 1) \in Frames
  BY <1>1, FrameIs
<1> QED
  BY <1>1, <1>3, <1>4 DEF Types

\* Record hands over the burst with its PCM.
LEMMA RecordIs ==
    ASSUME Types, Record
    PROVE  /\ burst \in Bursts /\ burst.call \in CallKeys /\ burst.n \in 1..MaxBursts
           /\ Len(pcm) = 3 /\ Writer!HandleBurst(burst.call)
           /\ [n |-> burst.n, pcm |-> pcm] \in Calls
           /\ handed' = [handed EXCEPT ![burst.call] =
                           Append(handed[burst.call], [n |-> burst.n, pcm |-> pcm])]
           /\ burst' = None /\ pcm' = <<>>
           /\ UNCHANGED <<greetingVars, buffer, arrivalVars, link, codecVars>>
<1>1. burst \in Bursts
  BY DEF Record, Types
<1>2. burst.call \in CallKeys /\ burst.n \in 1..MaxBursts
  BY <1>1, BurstIs
<1>3. [n |-> burst.n, pcm |-> pcm] \in Calls
  BY <1>2 DEF Calls, Types
<1> QED
  BY <1>1, <1>2, <1>3 DEF Record

LEMMA TypesNext == Types /\ [Next]_vars => Types'
<1> SUFFICES ASSUME Types, [Next]_vars PROVE Types'
  OBVIOUS
<1> USE DEF arrivalVars, greetingVars, taskVars, codecVars
<1>1. CASE SendControl \/ RecvAck \/ StartFails \/ WriterFails \/ RecvFails
  BY <1>1 DEF SendControl, RecvAck, StartFails, WriterFails, RecvFails, TheRestUnchanged,
              Types
<1>2. CASE RecvOther
  <2>1. Tail(buffer) \in Seq(Bursts \cup {Other}) /\ Len(Tail(buffer)) <= Len(buffer)
    BY <1>2, Taken DEF RecvOther, Types
  <2> QED
    BY <1>2, <2>1, LenProperties, Numbers DEF RecvOther, Types
<1>3. CASE RecvVoice
  <2>1. Tail(buffer) \in Seq(Bursts \cup {Other}) /\ Len(Tail(buffer)) <= Len(buffer)
        /\ Head(buffer) \in Bursts
    BY <1>3, Taken DEF RecvVoice, Received, Types
  <2>2. Len(Tail(buffer)) <= BufferCap
    BY <2>1, LenProperties, Numbers DEF Types
  <2> QED
    BY <1>3, <2>1, <2>2 DEF RecvVoice, Received, Types
<1>4. CASE SendFrame
  BY <1>4, AskIs DEF Types
<1>5. CASE RecvPcm
  <2>1. result[Self] \in Results /\ result' = [result EXCEPT ![Self] = None]
        /\ UNCHANGED <<context, pending, orphans>> /\ pcm' = Append(pcm, result[Self])
    BY <1>5 DEF RecvPcm, Codec!Take, Types
  <2>2. Append(pcm, result[Self]) \in Seq(Results)
    BY <2>1, Put DEF Types
  <2> QED
    BY <1>5, <2>1, <2>2 DEF RecvPcm, Types
<1>6. CASE DecodeFails
  BY <1>6 DEF DecodeFails, Types
<1>7. CASE Record
  <2>1. handed[burst.call] \in Seq(Calls)
    BY <1>7, RecordIs DEF Types
  <2>2. Append(handed[burst.call], [n |-> burst.n, pcm |-> pcm]) \in Seq(Calls)
    BY <1>7, <2>1, RecordIs, Put
  <2>3. /\ handed' = [handed EXCEPT ![burst.call] =
                         Append(handed[burst.call], [n |-> burst.n, pcm |-> pcm])]
        /\ burst' = None /\ pcm' = <<>>
        /\ UNCHANGED <<buffer, arrived, link, context, pending, result, orphans>>
    BY <1>7, RecordIs
  <2>4. handed' \in [CallKeys -> Seq(Calls)]
    BY <2>2, <2>3 DEF Types
  <2> QED
    BY <2>3, <2>4 DEF Types
<1>8. CASE IdleTick \/ Tick
  BY <1>8 DEF IdleTick, Tick, Types
<1>9. CASE Serve
  <2>1. CASE Codec!Serve(Self)
    BY <1>9, <2>1, ServeIs DEF Serve, Types
  <2>2. ASSUME NEW f \in orphans, Codec!ServeOrphan(f) PROVE Types'
    <3>1. f \in Frames /\ f.dir = "decode"
      BY ResultIs DEF Types
    <3> QED
      BY <1>9, <2>2, <3>1 DEF Serve, Codec!ServeOrphan, Types
  <2> QED
    BY <1>9, <2>1, <2>2 DEF Serve
<1>10. CASE LinkBreaks
  <2>1. \/ pending' = [pending EXCEPT ![Self] = None] /\ pending[Self] # None
           /\ orphans' \in {orphans, orphans \cup {pending[Self]}}
           /\ UNCHANGED <<context, result>>
        \/ result' = [result EXCEPT ![Self] = None] /\ UNCHANGED <<context, pending, orphans>>
        \/ UNCHANGED codecVars
    BY <1>10 DEF LinkBreaks, Codec!Abandon, Codec!Take
  <2> QED
    BY <1>10, <2>1 DEF LinkBreaks, Types
<1>11. CASE ArriveOther
  <2>1. Append(buffer, Other) \in Seq(Bursts \cup {Other})
        /\ Len(Append(buffer, Other)) = Len(buffer) + 1
    BY Put DEF Types
  <2>2. Len(buffer) \in Nat /\ Len(buffer) < BufferCap /\ buffer' = Append(buffer, Other)
    BY <1>11, LenProperties DEF ArriveOther, ToBuffer, Types
  <2>3. Len(buffer') <= BufferCap
    BY <2>1, <2>2, Numbers
  <2> QED
    BY <1>11, <2>1, <2>2, <2>3 DEF ArriveOther, Types
<1>12. ASSUME NEW k \in CallKeys, Arrive(k) PROVE Types'
  <2>1. [call |-> k, n |-> arrived[k] + 1] \in Bursts
    BY <1>12, Numbers DEF Arrive, Types, Bursts
  <2>2. arrived' \in [CallKeys -> 0..MaxBursts]
    BY <1>12, Numbers DEF Arrive, Types
  <2>3. PICK m \in Bursts : m = [call |-> k, n |-> arrived[k] + 1]
    BY <2>1
  <2>4. buffer' = buffer \/ (Len(buffer) < BufferCap /\ buffer' = Append(buffer, m))
    BY <1>12, <2>3 DEF Arrive, ToBuffer
  <2>5. Append(buffer, m) \in Seq(Bursts \cup {Other}) /\ Len(Append(buffer, m)) = Len(buffer) + 1
    BY Put DEF Types
  <2>6. buffer' \in Seq(Bursts \cup {Other}) /\ Len(buffer') <= BufferCap
    <3>1. Len(buffer) < BufferCap => Len(Append(buffer, m)) <= BufferCap
      BY <2>5, LenProperties, Numbers DEF Types
    <3>2. buffer \in Seq(Bursts \cup {Other}) /\ Len(buffer) <= BufferCap
      BY DEF Types
    <3> QED
      BY <2>4, <2>5, <3>1, <3>2
  <2> QED
    BY <1>12, <2>2, <2>6 DEF Arrive, Types
<1>13. CASE UNCHANGED vars
  BY <1>13 DEF vars, Types
<1> QED
  BY <1>1, <1>2, <1>3, <1>4, <1>5, <1>6, <1>7, <1>8, <1>9, <1>10, <1>11, <1>12, <1>13
     DEF Next, Task

LEMMA TypesInit == Init => Types
<1> SUFFICES ASSUME Init PROVE Types
  OBVIOUS
<1>1. <<>> \in Seq(Bursts \cup {Other}) /\ Len(<<>>) = 0 /\ <<>> \in Seq(Results)
      /\ <<>> \in Seq(Calls)
  OBVIOUS
<1>2. buffer = <<>> /\ pcm = <<>> /\ burst = None /\ link = "up"
      /\ arrived = [k \in CallKeys |-> 0] /\ handed = [k \in CallKeys |-> <<>>]
  BY DEF Init
<1>3. /\ context = [d \in {"decode"} |-> None] /\ pending = [c \in {Self} |-> None]
      /\ result = [c \in {Self} |-> None] /\ orphans = {}
  BY DEF Init, Codec!Init
<1> QED
  BY <1>1, <1>2, <1>3, Numbers DEF Types

\* The listener is a legal user of the recorder: what happens to its calls and
\* files is a behaviour of PcmWriter (dmr_listener.rs:77-92, 158-160).
THEOREM UsesRecorder == Spec => Recorder!Spec
<1>1. Init => Recorder!Init
  BY SameRecorder DEF Init
<1>2. Types /\ [Next]_vars => [Recorder!Next]_(Recorder!vars)
  BY RecorderStep DEF Types
<1> QED
  BY <1>1, <1>2, TypesInit, TypesNext, PTL DEF Spec, Recorder!Spec

\* So a recording that is closed is final (PcmWriterProofs).
THEOREM ClosedRecordings == Spec => Recorder!ClosedFilesAreFinal
<1>1. Recorder!Spec => Recorder!ClosedFilesAreFinal
  BY Assumed, Recorder!ClosedAreFinal
<1> QED
  BY <1>1, UsesRecorder

\* And as long as no radio starts two calls on a slot within a second, the
\* recordings of the listener are whole, lose no more than the disk's faults and
\* the end of the program account for, and are split where a call fell silent.
THEOREM RecordingsAreKept ==
    Spec /\ [][Recorder!StartsApart]_vars => /\ []Recorder!RecordingsAreIntact
                                             /\ []Recorder!LossIsBounded
                                             /\ []Recorder!FilesSplitAtSilence
<1>1. Recorder!SpecApart => []Recorder!RecordingsAreIntact
  BY Assumed, Recorder!Intact
<1>2. Recorder!SpecApart => []Recorder!LossIsBounded
  BY Assumed, Recorder!LossBounded
<1>3. Recorder!SpecApart => []Recorder!FilesSplitAtSilence
  BY Assumed, Recorder!SplitAtSilence
<1>4. Init => Recorder!Init
  BY SameRecorder DEF Init
<1>5. Types /\ [Next]_vars /\ [Recorder!StartsApart]_vars
        => [Recorder!Next /\ Recorder!StartsApart]_(Recorder!vars)
  <2> SUFFICES ASSUME Types, [Next]_vars, [Recorder!StartsApart]_vars
               PROVE  [Recorder!Next /\ Recorder!StartsApart]_(Recorder!vars)
    OBVIOUS
  <2>1. [Recorder!Next]_(Recorder!vars)
    BY RecorderStep DEF Types
  <2>2. Recorder!StartsApart \/ UNCHANGED Recorder!vars
    BY DEF vars, writerVars, Recorder!vars
  <2> QED
    BY <2>1, <2>2
<1>6. Spec /\ [][Recorder!StartsApart]_vars => Recorder!SpecApart
  BY <1>4, <1>5, TypesInit, TypesNext, PTL DEF Spec, Recorder!SpecApart
<1> QED
  BY <1>1, <1>2, <1>3, <1>6

\* The listener is a legal client of the AMBE server: one frame outstanding, the
\* next one only when the one before it is answered (ambe_codec_client.rs:104-121).
THEOREM UsesServer == Spec => Codec!Spec
<1>1. Init => Codec!Init
  BY DEF Init
<1>2. Types /\ [Next]_vars => [Codec!Next]_(Codec!vars)
  <2> SUFFICES ASSUME Types, [Next]_vars PROVE [Codec!Next]_(Codec!vars)
    OBVIOUS
  <2>1. CASE SendFrame
    <3>1. Codec!Ask(Self, Frame(Len(pcm) + 1)) /\ Frame(Len(pcm) + 1) \in Frames
      <4>1. Frame(Len(pcm) + 1) = FrameOf(burst, Len(pcm) + 1)
        BY DEF Frame, FrameOf
      <4> QED
        BY <2>1, <4>1, AskIs DEF SendFrame
    <3> QED
      BY <3>1 DEF Codec!Next
  <2>2. CASE RecvPcm
    BY <2>2 DEF RecvPcm, Codec!Next
  <2>3. CASE Serve
    BY <2>3 DEF Serve, Codec!Next
  <2>4. CASE LinkBreaks
    BY <2>4 DEF LinkBreaks, Codec!Next, Codec!vars, codecVars
  <2>5. CASE UNCHANGED codecVars
    BY <2>5 DEF codecVars, Codec!vars
  <2> QED
    BY <2>1, <2>2, <2>3, <2>4, <2>5
       DEF Next, Task, SendControl, RecvAck, StartFails, WriterFails, RecvFails, RecvOther,
           RecvVoice, DecodeFails, Record, IdleTick, Tick, ArriveOther, Arrive, TheRestUnchanged, vars
<1> QED
  BY <1>1, <1>2, TypesInit, TypesNext, PTL DEF Spec, Codec!Spec

-----------------------------------------------------------------------------
(* Decoding.                                                               *)

LEMMA GreetingNext == GreetingInv /\ [Next]_vars => GreetingInv'
<1> SUFFICES ASSUME GreetingInv, [Next]_vars PROVE GreetingInv'
  OBVIOUS
<1>1. CASE SendControl
  BY <1>1 DEF SendControl, TheRestUnchanged, writerVars, GreetingInv
<1>2. CASE RecvAck
  BY <1>2 DEF RecvAck, TheRestUnchanged, writerVars, GreetingInv
<1>3. CASE StartFails \/ WriterFails
  BY <1>3 DEF StartFails, WriterFails, TheRestUnchanged, writerVars, GreetingInv
<1>4. CASE RecvVoice \/ IdleTick
  BY <1>4 DEF RecvVoice, IdleTick, Selecting, taskVars, greetingVars, GreetingInv
<1>5. CASE Record \/ DecodeFails
  BY <1>5 DEF Record, DecodeFails, greetingVars, GreetingInv
<1>6. CASE RecvFails
  BY <1>6 DEF RecvFails, Selecting, Writer!Exit, GreetingInv
<1>7. CASE /\ UNCHANGED <<phase, controls, owed, burst>>
           /\ UNCHANGED active
  BY <1>7 DEF GreetingInv
<1>8. UNCHANGED <<phase, controls, owed, burst, active>>
        \/ SendControl \/ RecvAck \/ StartFails \/ WriterFails \/ RecvFails \/ RecvVoice
        \/ IdleTick \/ Record \/ DecodeFails
  BY DEF Next, Task, RecvOther, SendFrame, RecvPcm, Serve, LinkBreaks, Tick, Writer!Tick,
         ArriveOther, Arrive, taskVars, greetingVars, writerVars, vars
<1> QED
  BY <1>1, <1>2, <1>3, <1>4, <1>5, <1>6, <1>7, <1>8

LEMMA DecodeNext == Types /\ DecodeInv /\ [Next]_vars => DecodeInv'
<1> SUFFICES ASSUME Types, DecodeInv, [Next]_vars PROVE DecodeInv'
  OBVIOUS
<1>1. ASSUME UNCHANGED <<burst, pcm, link, codecVars>> PROVE DecodeInv'
  BY <1>1 DEF codecVars, DecodeInv
<1>2. CASE SendControl \/ RecvAck \/ StartFails \/ WriterFails \/ RecvFails
           \/ RecvOther \/ IdleTick \/ Tick \/ ArriveOther
           \/ (\E k \in CallKeys : Arrive(k)) \/ UNCHANGED vars
  BY <1>1, <1>2 DEF SendControl, RecvAck, StartFails, WriterFails, RecvFails,
                    RecvOther, IdleTick, Tick, ArriveOther, Arrive, TheRestUnchanged, taskVars, vars
<1>3. CASE RecvVoice
  <2>1. /\ burst = None /\ burst' # Other /\ pcm' = <<>> /\ link' = link
        /\ UNCHANGED codecVars /\ burst' = Head(buffer)
    BY <1>3 DEF RecvVoice, Selecting, Received
  <2>2. pending[Self] = None /\ result[Self] = None
    BY <2>1 DEF DecodeInv
  <2>3. ExchangeOK(burst', 1, None, None, context["decode"])
    BY DEF ExchangeOK
  <2>4. Len(<<>>) = 0 /\ 0 + 1 = 1 /\ DOMAIN <<>> = {}
    OBVIOUS
  <2>5. PcmOK(burst', <<>>)
    BY <2>4 DEF PcmOK
  <2> QED
    BY <2>1, <2>2, <2>3, <2>4, <2>5 DEF codecVars, DecodeInv
<1>4. CASE SendFrame
  <2>1. PICK b \in Bursts : b = burst
    BY <1>4, AskIs
  <2>2. PICK p \in Parts : p = Len(pcm) + 1
    BY <1>4, AskIs
  <2>3. /\ pending[Self] = None /\ result[Self] = None /\ pending'[Self] = FrameOf(b, p)
        /\ UNCHANGED <<context, result, orphans, burst, pcm, link>> /\ link = "up"
    BY <1>4, <2>1, <2>2, AskIs DEF taskVars
  <2>4. ExchangeOK(b, p, None, None, context["decode"])
    BY <2>1, <2>2, <2>3, BurstIs DEF DecodeInv
  <2>5. ExchangeOK(b, p, FrameOf(b, p), None, context["decode"])
    BY <2>4 DEF ExchangeOK
  <2>6. /\ b # None /\ Len(pcm) <= 3 /\ PcmOK(b, pcm) /\ orphans = {}
    BY <2>1, <2>3, BurstIs DEF DecodeInv
  <2> QED
    BY <2>1, <2>2, <2>3, <2>5, <2>6 DEF DecodeInv
<1>5. CASE RecvPcm
  <2>1. /\ result[Self] # None /\ result[Self] \in Results /\ result'[Self] = None
        /\ UNCHANGED <<context, pending, orphans, burst, link>>
        /\ pcm' = Append(pcm, result[Self])
    BY <1>5 DEF RecvPcm, Codec!Take, Types
  <2>2. link = "up" /\ burst # None
    BY <2>1 DEF DecodeInv, Types
  <2>3. PICK b \in Bursts : b = burst
    BY <2>2 DEF Types
  <2>4. PICK l \in Nat : l = Len(pcm)
    BY LenProperties DEF Types
  <2>5. PICK p \in Nat : p = l + 1
    OBVIOUS
  <2>6. PICK r \in Results : r = result[Self]
    BY <2>1
  <2>7. ExchangeOK(b, p, pending[Self], r, context["decode"])
    BY <2>2, <2>3, <2>4, <2>5, <2>6 DEF DecodeInv
  <2>8. r # None
    BY <2>1, <2>6
  <2>9. /\ p \in Parts /\ r.frame = FrameOf(b, p) /\ context["decode"] = FrameOf(b, p)
        /\ p > 1 => r.pred = FrameOf(b, p - 1)
        /\ pending[Self] = None
    BY <2>7, <2>8 DEF ExchangeOK
  <2>10. /\ Len(Append(pcm, r)) = p /\ DOMAIN pcm = 1..l
         /\ \A i \in DOMAIN Append(pcm, r) : i \in DOMAIN pcm \/ i = p
         /\ \A i \in DOMAIN pcm : Append(pcm, r)[i] = pcm[i]
         /\ Append(pcm, r)[p] = r
    BY <2>4, <2>5, Put DEF Types
  <2>11. PcmOK(b, pcm)
    BY <2>2, <2>3 DEF DecodeInv
  <2>12. PcmOK(b, Append(pcm, r))
    BY <2>9, <2>10, <2>11 DEF PcmOK
  <2>13. PICK q \in Nat : q = p + 1
    BY <2>5
  <2>14. q - 1 = p
    BY <2>5, <2>13
  <2>15. ExchangeOK(b, q, None, None, context["decode"])
    BY <2>9, <2>14 DEF ExchangeOK
  <2>16. p <= 3
    BY <2>9 DEF Parts
  <2>17. pcm' = Append(pcm, r) /\ burst' = b /\ Len(pcm') = p
    BY <2>1, <2>3, <2>6, <2>10
  <2>18. Len(pcm') + 1 = q
    BY <2>13, <2>17
  <2> QED
    BY <2>1, <2>2, <2>3, <2>9, <2>12, <2>15, <2>16, <2>17, <2>18, BurstIs DEF DecodeInv
<1>6. CASE DecodeFails
  <2>1. link = "broken" /\ link' = link /\ burst' = None /\ pcm' = <<>> /\ UNCHANGED codecVars
    BY <1>6 DEF DecodeFails
  <2> QED
    BY <2>1, Len(<<>>) = 0 DEF codecVars, DecodeInv
<1>7. CASE Record
  <2>1. /\ burst # None /\ burst \in Bursts /\ Len(pcm) = 3 /\ link' = link
        /\ burst' = None /\ pcm' = <<>> /\ UNCHANGED codecVars
    BY <1>7, RecordIs, BurstIs
  <2>2. pending[Self] = None /\ result[Self] = None
    <3>1. Len(pcm) + 1 \notin Parts
      BY <2>1 DEF Parts
    <3> QED
      BY <2>1, <3>1 DEF DecodeInv, ExchangeOK, Types
  <2> QED
    BY <2>1, <2>2, Len(<<>>) = 0 DEF codecVars, DecodeInv
<1>8. CASE Serve
  <2>1. UNCHANGED <<burst, pcm, link>>
    BY <1>8 DEF Serve, taskVars
  <2>2. CASE Codec!Serve(Self)
    <3>1. /\ pending[Self] # None /\ pending[Self] \in Frames
          /\ pending'[Self] = None
          /\ result'[Self] \in Results
          /\ result'[Self].frame = pending[Self] /\ result'[Self].pred = context["decode"]
          /\ context'["decode"] = pending[Self]
          /\ orphans' = orphans
      BY <2>2, ServeIs
    <3>2. link = "up" /\ burst # None
      BY <3>1 DEF DecodeInv, Types
    <3>3. PICK b \in Bursts : b = burst
      BY <3>2 DEF Types
    <3>4. PICK p : p = Len(pcm) + 1
      OBVIOUS
    <3>5. PICK c : c = context["decode"]
      OBVIOUS
    <3>6. ExchangeOK(b, p, pending[Self], result[Self], c)
      BY <3>2, <3>3, <3>4, <3>5 DEF DecodeInv
    <3>7. /\ p \in Parts /\ pending[Self] = FrameOf(b, p)
          /\ p > 1 => c = FrameOf(b, p - 1)
      BY <3>1, <3>6 DEF ExchangeOK
    <3>8. ExchangeOK(b, p, None, result'[Self], context'["decode"])
      BY <3>1, <3>5, <3>7, ResultIs DEF ExchangeOK
    <3> QED
      BY <2>1, <3>1, <3>2, <3>3, <3>4, <3>8 DEF DecodeInv
  <2>3. ASSUME NEW f \in orphans, Codec!ServeOrphan(f) PROVE DecodeInv'
    <3>1. link = "broken"
      BY <2>3 DEF DecodeInv, Types
    <3>2. UNCHANGED <<pending, result>>
      BY <2>3 DEF Codec!ServeOrphan
    <3> QED
      BY <2>1, <3>1, <3>2 DEF DecodeInv
  <2> QED
    BY <1>8, <2>2, <2>3 DEF Serve
<1>9. CASE LinkBreaks
  <2>1. link = "up" /\ link' = "broken" /\ UNCHANGED <<burst, pcm>>
    BY <1>9 DEF LinkBreaks, taskVars
  <2>2. pending[Self] # None => result[Self] = None
    BY <2>1 DEF DecodeInv, ExchangeOK
  <2>3. result[Self] # None => pending[Self] = None
    BY <2>2
  <2>4. pending'[Self] = None /\ result'[Self] = None
    BY <1>9, <2>2, <2>3 DEF LinkBreaks, Codec!Abandon, Codec!Take, codecVars, Types
  <2> QED
    BY <2>1, <2>4 DEF DecodeInv
<1> QED
  BY <1>2, <1>3, <1>4, <1>5, <1>6, <1>7, <1>8, <1>9 DEF Next, Task

-----------------------------------------------------------------------------
(* The line of bursts.                                                     *)

\* What is in a queue of datagrams.
LEMMA QueueIs ==
    ASSUME NEW q \in Seq(Bursts \cup {Other}), NEW i \in DOMAIN q
    PROVE  /\ i \in Nat /\ q[i] \in Bursts \cup {Other}
           /\ q[i] # Other => q[i] \in Bursts /\ q[i].call \in CallKeys /\ q[i].n \in Nat
BY ElementOfSeq, LenProperties, BurstIs

\* Taking a datagram leaves the line in order.
LEMMA OrderTaken ==
    ASSUME Types, OrderInv, buffer # <<>>
    PROVE  /\ QueueOK(Tail(buffer), arrived)
           /\ \A i \in DOMAIN Tail(buffer) : Tail(buffer)[i] # Other =>
                Behind(Tail(buffer)[i], handed)
           /\ \A b : (\A i \in DOMAIN buffer : buffer[i] # Other /\ buffer[i].call = b.call
                                                => b.n < buffer[i].n)
                => \A i \in DOMAIN Tail(buffer) :
                     Tail(buffer)[i] # Other /\ Tail(buffer)[i].call = b.call
                       => b.n < Tail(buffer)[i].n
           /\ Head(buffer) # Other =>
                /\ Head(buffer).n <= arrived[Head(buffer).call]
                /\ Behind(Head(buffer), handed)
                /\ \A i \in DOMAIN Tail(buffer) :
                     Tail(buffer)[i] # Other /\ Tail(buffer)[i].call = Head(buffer).call
                       => Head(buffer).n < Tail(buffer)[i].n
<1> DEFINE t == Tail(buffer)
<1>1. QueueOK(buffer, arrived) /\ (\A i \in DOMAIN buffer : buffer[i] # Other =>
                                                              Behind(buffer[i], handed))
  BY DEF OrderInv
<1>2. /\ Head(buffer) = buffer[1] /\ 1 \in DOMAIN buffer
      /\ \A i \in DOMAIN t : i \in Nat \ {0} /\ i + 1 \in DOMAIN buffer /\ t[i] = buffer[i + 1]
  BY Taken DEF Types
<1>3. \A i, j \in DOMAIN t : i < j => i + 1 < j + 1
  BY <1>2
<1>4. \A i \in DOMAIN t : 1 < i + 1
  BY <1>2
<1> HIDE DEF t
<1>5. \A i, j \in DOMAIN t : i < j /\ t[i] # Other /\ t[j] # Other /\ t[i].call = t[j].call
        => t[i].n < t[j].n
  BY <1>1, <1>2, <1>3 DEF QueueOK
<1>6. \A i \in DOMAIN t : t[i] # Other => t[i].n <= arrived[t[i].call] /\ Behind(t[i], handed)
  BY <1>1, <1>2 DEF QueueOK
<1>7. Head(buffer) # Other =>
        /\ Head(buffer).n <= arrived[Head(buffer).call]
        /\ Behind(Head(buffer), handed)
        /\ \A i \in DOMAIN t : t[i] # Other /\ t[i].call = Head(buffer).call
             => Head(buffer).n < t[i].n
  BY <1>1, <1>2, <1>4 DEF QueueOK
<1>8. QueueOK(t, arrived)
  BY <1>5, <1>6 DEF QueueOK
<1> QED
  BY <1>2, <1>6, <1>7, <1>8 DEF t

\* The burst that is handed over becomes the last of its call.
LEMMA OrderRecorded ==
    ASSUME Types, DecodeInv, OrderInv, Record
    PROVE  /\ \A k \in CallKeys : HandedOK(k, handed'[k], arrived)
           /\ \A i \in DOMAIN buffer : buffer[i] # Other => Behind(buffer[i], handed')
<1>1. PICK b \in Bursts : b = burst
  BY RecordIs
<1>2. PICK k \in CallKeys : k = b.call
  BY BurstIs
<1>3. PICK x \in Calls : x = [n |-> burst.n, pcm |-> pcm]
  BY RecordIs
<1>4. PICK s \in Seq(Calls) : s = handed[k]
  BY DEF Types
<1>5. PICK l \in Nat : l = Len(s)
  BY LenProperties
<1>6. PICK z \in Nat : z = l + 1
  OBVIOUS
<1>7. handed' = [handed EXCEPT ![k] = Append(s, x)] /\ Len(pcm) = 3
  BY <1>1, <1>2, <1>3, <1>4, RecordIs
<1>8. /\ DOMAIN s = 1..l
      /\ \A i \in DOMAIN Append(s, x) : i \in DOMAIN s \/ i = z
      /\ \A i \in DOMAIN s : Append(s, x)[i] = s[i] /\ i < z
      /\ Append(s, x)[z] = x
  BY <1>5, <1>6, Put
<1>9. handed'[k] = Append(s, x) /\ \A j \in CallKeys : j # k => handed'[j] = handed[j]
  BY <1>7 DEF Types
<1>10. x.n = b.n /\ x.pcm = pcm /\ b.n \in Nat /\ b = [call |-> k, n |-> b.n]
  BY <1>1, <1>2, <1>3, BurstIs
<1>11. /\ b.n <= arrived[k] /\ Behind(b, handed) /\ PcmOK(b, pcm) /\ b # None
       /\ \A i \in DOMAIN buffer : buffer[i] # Other /\ buffer[i].call = k => b.n < buffer[i].n
  BY <1>1, <1>2, BurstIs DEF OrderInv, DecodeInv
<1>12. HandedOK(k, s, arrived)
  BY <1>4 DEF OrderInv
<1>13. \A i \in DOMAIN s : s[i].n < b.n
  BY <1>2, <1>4, <1>11 DEF Behind
<1>14. \A i \in DOMAIN s : s[i].n \in Nat
  <2>1. \A i \in DOMAIN s : s[i] \in Calls
    BY ElementOfSeq, LenProperties
  <2>2. \A c \in Calls : c.n \in Nat
    BY Numbers DEF Calls
  <2> QED
    BY <2>1, <2>2
<1>15. z <= b.n
  <2>1. CASE l = 0
    <3>1. b.n \in 1..MaxBursts
      BY BurstIs
    <3> QED
      BY <1>6, <1>10, <2>1, <3>1, Numbers
  <2>2. CASE l # 0
    <3>1. l \in DOMAIN s
      BY <1>8, <2>2
    <3>2. l <= s[l].n /\ s[l].n < b.n /\ s[l].n \in Nat
      BY <1>12, <1>13, <1>14, <3>1 DEF HandedOK
    <3> QED
      BY <1>6, <1>10, <3>2
  <2> QED
    BY <2>1, <2>2
<1>16. HandedOK(k, Append(s, x), arrived)
  <2> SUFFICES ASSUME NEW i \in DOMAIN Append(s, x)
               PROVE  /\ i <= Append(s, x)[i].n /\ Append(s, x)[i].n <= arrived[k]
                      /\ Len(Append(s, x)[i].pcm) = 3
                      /\ PcmOK([call |-> k, n |-> Append(s, x)[i].n], Append(s, x)[i].pcm)
                      /\ \A j \in DOMAIN Append(s, x) : j < i =>
                           Append(s, x)[j].n < Append(s, x)[i].n
    BY DEF HandedOK
  <2>1. CASE i = z
    <3>1. \A j \in DOMAIN Append(s, x) : j < z => j \in DOMAIN s
      BY <1>8
    <3>2. Append(s, x)[i] = x
      BY <1>8, <2>1
    <3> QED
      BY <1>7, <1>8, <1>10, <1>11, <1>13, <1>15, <2>1, <3>1, <3>2
  <2>2. CASE i \in DOMAIN s
    <3>1. i < z /\ Append(s, x)[i] = s[i] /\ z \notin DOMAIN s /\ i \in Nat
      BY <1>6, <1>8, <2>2
    <3>2. \A j \in DOMAIN Append(s, x) : j < i => j \in DOMAIN s /\ Append(s, x)[j] = s[j]
      BY <1>8, <3>1
    <3> QED
      BY <1>12, <2>2, <3>1, <3>2 DEF HandedOK
  <2> QED
    BY <1>8, <2>1, <2>2
<1>17. \A j \in CallKeys : HandedOK(j, handed'[j], arrived)
  BY <1>9, <1>16 DEF OrderInv
<1>18. ASSUME NEW i \in DOMAIN buffer, buffer[i] # Other PROVE Behind(buffer[i], handed')
  <2>1. buffer[i].call \in CallKeys /\ Behind(buffer[i], handed)
    BY <1>18, QueueIs DEF OrderInv, Types
  <2>2. CASE buffer[i].call = k
    BY <1>4, <1>8, <1>9, <1>10, <1>11, <1>18, <2>1, <2>2, SMTT(30) DEF Behind
  <2>3. CASE buffer[i].call # k
    BY <1>9, <2>1, <2>3 DEF Behind
  <2> QED
    BY <2>2, <2>3
<1> QED
  BY <1>17, <1>18

\* More may have arrived.
LEMMA MoreArrived ==
    ASSUME Types, OrderInv, NEW more \in [CallKeys -> Nat],
           \A k \in CallKeys : arrived[k] <= more[k]
    PROVE  /\ QueueOK(buffer, more)
           /\ burst # None => burst.n <= more[burst.call]
           /\ \A k \in CallKeys : HandedOK(k, handed[k], more)
<1>1. \A k \in CallKeys : arrived[k] \in Nat
  BY Numbers DEF Types
<1>2. \A k \in CallKeys, n \in Nat : n <= arrived[k] => n <= more[k]
  BY <1>1
<1>3. QueueOK(buffer, more)
  <2>1. \A i \in DOMAIN buffer : buffer[i] # Other =>
          /\ buffer[i].n \in Nat /\ buffer[i].call \in CallKeys
          /\ buffer[i].n <= arrived[buffer[i].call]
    BY QueueIs DEF Types, OrderInv, QueueOK
  <2>2. \A i \in DOMAIN buffer : buffer[i] # Other => buffer[i].n <= more[buffer[i].call]
    BY <1>2, <2>1
  <2> QED
    BY <2>2 DEF OrderInv, QueueOK
<1>4. burst # None => burst.n <= more[burst.call]
  <2>1. burst # None => /\ burst.n \in Nat /\ burst.call \in CallKeys
                        /\ burst.n <= arrived[burst.call]
    BY BurstIs DEF Types, OrderInv
  <2> QED
    BY <1>2, <2>1
<1>5. ASSUME NEW k \in CallKeys PROVE HandedOK(k, handed[k], more)
  <2>1. \A i \in DOMAIN handed[k] : handed[k][i] \in Calls
    BY ElementOfSeq, LenProperties DEF Types
  <2>2. \A c \in Calls : c.n \in Nat
    BY Numbers DEF Calls
  <2> QED
    BY <1>2, <2>1, <2>2 DEF OrderInv, HandedOK
<1> QED
  BY <1>3, <1>4, <1>5

\* A burst that arrives has a number no burst of its call has had.
LEMMA OrderArrive ==
    ASSUME Types, OrderInv, NEW k \in CallKeys, Arrive(k)
    PROVE  OrderInv'
<1>1. PICK m \in Bursts : m = [call |-> k, n |-> arrived[k] + 1]
  <2>1. arrived[k] < MaxBursts /\ arrived[k] \in 0..MaxBursts
    BY DEF Arrive, Types
  <2>2. [call |-> k, n |-> arrived[k] + 1] \in Bursts
    BY <2>1, Numbers DEF Bursts
  <2> QED
    BY <2>2
<1>2. PICK more \in [CallKeys -> Nat] : more = [arrived EXCEPT ![k] = @ + 1]
  <2>1. [arrived EXCEPT ![k] = @ + 1] \in [CallKeys -> Nat]
    BY Numbers DEF Types
  <2> QED
    BY <2>1
<1>3. arrived[k] \in Nat /\ more[k] = arrived[k] + 1 /\ m.call = k /\ m.n = more[k]
      /\ m.n \in Nat /\ arrived[k] < m.n
  BY <1>1, <1>2, Numbers DEF Types
<1>4. \A j \in CallKeys : arrived[j] \in Nat /\ arrived[j] <= more[j]
  BY <1>2, <1>3, Numbers DEF Types
<1>5. /\ QueueOK(buffer, more)
      /\ burst # None => burst.n <= more[burst.call]
      /\ \A j \in CallKeys : HandedOK(j, handed[j], more)
  BY <1>4, MoreArrived
<1>6. /\ arrived' = more /\ UNCHANGED <<burst, handed>>
      /\ buffer' = buffer \/ buffer' = Append(buffer, m)
  BY <1>1, <1>2 DEF Arrive, ToBuffer, taskVars
<1>7. CASE buffer' = buffer
  BY <1>5, <1>6, <1>7 DEF OrderInv
<1>8. CASE buffer' = Append(buffer, m)
  <2>1. PICK q \in Seq(Bursts \cup {Other}) : q = Append(buffer, m)
    BY Put DEF Types
  <2>2. PICK z \in Nat : z = Len(buffer) + 1
    BY LenProperties DEF Types
  <2>3. /\ DOMAIN buffer = 1..Len(buffer)
        /\ \A i \in DOMAIN q : i \in Nat /\ (i \in DOMAIN buffer \/ i = z)
        /\ \A i \in DOMAIN buffer : i \in DOMAIN q /\ q[i] = buffer[i] /\ i < z
        /\ q[z] = m
    BY <2>1, <2>2, Put, LenProperties DEF Types
  <2>4. \A i \in DOMAIN buffer : buffer[i] # Other =>
          /\ buffer[i].n \in Nat /\ buffer[i].call \in CallKeys
          /\ buffer[i].call = k => buffer[i].n < m.n
    <3>1. \A i \in DOMAIN buffer : buffer[i] # Other =>
            /\ buffer[i].n \in Nat /\ buffer[i].call \in CallKeys
            /\ buffer[i].n <= arrived[buffer[i].call]
      BY QueueIs DEF Types, OrderInv, QueueOK
    <3> QED
      BY <1>3, <3>1
  <2>5. QueueOK(q, more)
    <3>1. \A i \in DOMAIN q : q[i] # Other => q[i].n <= more[q[i].call]
      BY <1>3, <1>5, <2>3 DEF QueueOK
    <3>2. ASSUME NEW i \in DOMAIN q, NEW j \in DOMAIN q, i < j, q[i] # Other, q[j] # Other,
                 q[i].call = q[j].call
          PROVE  q[i].n < q[j].n
      <4>1. i \in DOMAIN buffer /\ q[i] = buffer[i]
        BY <2>2, <2>3, <3>2
      <4>2. CASE j \in DOMAIN buffer
        BY <1>5, <2>3, <3>2, <4>1, <4>2 DEF QueueOK
      <4>3. CASE j = z
        BY <1>3, <2>3, <2>4, <3>2, <4>1, <4>3
      <4> QED
        BY <2>3, <4>2, <4>3
    <3> QED
      BY <3>1, <3>2 DEF QueueOK
  <2>6. Behind(m, handed)
    <3>1. \A i \in DOMAIN handed[k] : handed[k][i].n <= arrived[k] /\ handed[k][i].n \in Nat
      <4>1. \A i \in DOMAIN handed[k] : handed[k][i] \in Calls
        BY ElementOfSeq, LenProperties DEF Types
      <4>2. \A c \in Calls : c.n \in Nat
        BY Numbers DEF Calls
      <4> QED
        BY <4>1, <4>2 DEF OrderInv, HandedOK
    <3> QED
      BY <1>3, <3>1 DEF Behind
  <2>7. \A i \in DOMAIN q : q[i] # Other => Behind(q[i], handed)
    BY <2>3, <2>6 DEF OrderInv
  <2>8. burst # None => /\ burst.n <= more[burst.call] /\ Behind(burst, handed)
                        /\ \A i \in DOMAIN q : q[i] # Other /\ q[i].call = burst.call
                             => burst.n < q[i].n
    <3>1. SUFFICES ASSUME burst # None
                   PROVE  \A i \in DOMAIN q : q[i] # Other /\ q[i].call = burst.call
                            => burst.n < q[i].n
      BY <1>5 DEF OrderInv
    <3>2. burst \in Bursts /\ burst.n \in Nat /\ burst.call \in CallKeys
          /\ burst.n <= arrived[burst.call]
      BY <3>1, BurstIs DEF OrderInv, Types
    <3>3. burst.call = k => burst.n < m.n
      BY <1>3, <3>2
    <3> QED
      BY <1>3, <2>3, <3>1, <3>3 DEF OrderInv
  <2>9. buffer' = q
    BY <1>8, <2>1
  <2> QED
    BY <1>5, <1>6, <2>5, <2>7, <2>8, <2>9 DEF OrderInv
<1> QED
  BY <1>6, <1>7, <1>8

LEMMA OrderNext == Types /\ DecodeInv /\ OrderInv /\ [Next]_vars => OrderInv'
<1> SUFFICES ASSUME Types, DecodeInv, OrderInv, [Next]_vars PROVE OrderInv'
  OBVIOUS
<1>1. ASSUME UNCHANGED <<buffer, arrived, burst, handed>> PROVE OrderInv'
  BY <1>1 DEF OrderInv
<1>2. CASE SendControl \/ RecvAck \/ StartFails \/ WriterFails \/ RecvFails
           \/ SendFrame \/ RecvPcm \/ IdleTick \/ Tick
           \/ Serve \/ LinkBreaks \/ UNCHANGED vars
  BY <1>1, <1>2 DEF SendControl, RecvAck, StartFails, WriterFails, RecvFails,
                    SendFrame, RecvPcm, IdleTick, Tick,
                    Serve, LinkBreaks, TheRestUnchanged, taskVars, arrivalVars, vars
<1>3. CASE RecvOther
  <2>1. buffer # <<>> /\ buffer' = Tail(buffer) /\ UNCHANGED <<arrived, burst, handed>>
    BY <1>3 DEF RecvOther, arrivalVars, taskVars
  <2> QED
    BY <2>1, OrderTaken DEF OrderInv
<1>4. CASE RecvVoice
  <2>1. /\ buffer # <<>> /\ buffer' = Tail(buffer) /\ UNCHANGED <<arrived, handed>>
        /\ Head(buffer) # Other /\ burst' = Head(buffer)
    BY <1>4 DEF RecvVoice, Received, arrivalVars
  <2> QED
    BY <2>1, OrderTaken DEF OrderInv
<1>5. CASE DecodeFails
  BY <1>5 DEF DecodeFails, OrderInv, arrivalVars
<1>6. CASE Record
  <2>1. burst' = None /\ UNCHANGED <<buffer, arrived>>
    BY <1>6, RecordIs DEF arrivalVars
  <2>2. /\ \A k \in CallKeys : HandedOK(k, handed'[k], arrived)
        /\ \A i \in DOMAIN buffer : buffer[i] # Other => Behind(buffer[i], handed')
    BY <1>6, OrderRecorded
  <2> QED
    BY <2>1, <2>2 DEF OrderInv
<1>7. ASSUME NEW k \in CallKeys, Arrive(k) PROVE OrderInv'
  BY <1>7, OrderArrive
<1>8. CASE ArriveOther
  <2>1. PICK q : q = Append(buffer, Other)
    OBVIOUS
  <2>2. buffer' = q /\ UNCHANGED <<arrived, burst, handed>>
    BY <1>8, <2>1 DEF ArriveOther, ToBuffer, taskVars
  <2>3. \A i \in DOMAIN q : q[i] # Other => i \in DOMAIN buffer /\ q[i] = buffer[i]
    BY <2>1, Put DEF Types
  <2> QED
    BY <2>2, <2>3 DEF OrderInv, QueueOK
<1> QED
  BY <1>2, <1>3, <1>4, <1>5, <1>6, <1>7, <1>8 DEF Next, Task

-----------------------------------------------------------------------------
(* What the recorder is called with.                                       *)

LEMMA InvInit == Init => GreetingInv /\ DecodeInv /\ OrderInv /\ CountInv
<1> SUFFICES ASSUME Init PROVE GreetingInv /\ DecodeInv /\ OrderInv /\ CountInv
  OBVIOUS
<1>1. /\ phase = "greeting" /\ active = [k \in {} |-> {}]
      /\ buffer = <<>> /\ burst = None /\ pcm = <<>> /\ link = "up"
      /\ arrived = [k \in CallKeys |-> 0] /\ handed = [k \in CallKeys |-> <<>>]
      /\ pending[Self] = None /\ result[Self] = None /\ orphans = {}
  BY DEF Init, Writer!Init, Codec!Init
<1>2. DOMAIN <<>> = {} /\ Len(<<>>) = 0
  OBVIOUS
<1>3. seen = [k \in CallKeys |-> 0]
  BY DEF Init, Writer!Init, Writer!CallKeys, CallKeys
<1>4. GreetingInv
  BY <1>1 DEF GreetingInv
<1>5. DecodeInv
  BY <1>1, <1>2 DEF DecodeInv
<1>6. OrderInv
  BY <1>1, <1>2 DEF OrderInv, QueueOK, HandedOK
<1>7. CountInv
  BY <1>1, <1>2, <1>3 DEF CountInv
<1> QED
  BY <1>4, <1>5, <1>6, <1>7

LEMMA LineAlways == Spec => [](Types /\ DecodeInv /\ OrderInv)
<1>1. Init => Types /\ DecodeInv /\ OrderInv
  BY TypesInit, InvInit
<1>2. Types /\ DecodeInv /\ OrderInv /\ [Next]_vars => (Types /\ DecodeInv /\ OrderInv)'
  BY TypesNext, DecodeNext, OrderNext
<1> QED
  BY <1>1, <1>2, PTL DEF Spec

\* What the elements of handed are.
LEMMA HandedIs ==
    ASSUME Types, NEW k \in CallKeys, NEW i \in DOMAIN handed[k]
    PROVE  /\ i \in Nat \ {0} /\ handed[k] \in Seq(Calls) /\ handed[k][i] \in Calls
           /\ handed[k][i].n \in Nat /\ handed[k][i].pcm \in Seq(Results)
<1>1. handed[k] \in Seq(Calls)
  BY DEF Types
<1>2. handed[k][i] \in Calls /\ i \in Nat \ {0}
  BY <1>1, ElementOfSeq, LenProperties
<1>3. \A c \in Calls : c.n \in Nat /\ c.pcm \in Seq(Results)
  BY Numbers DEF Calls
<1> QED
  BY <1>1, <1>2, <1>3

\* The recorder is called with the PCM of a burst's three frames, in order and
\* each decoded after the one before it, and with the bursts of a call in their
\* order, wherever the link breaks (dmr_listener.rs:137-160).
THEOREM WholeBursts == Spec => []BurstsAreWhole
<1>1. Types /\ OrderInv => BurstsAreWhole
  <2> SUFFICES ASSUME Types, OrderInv, NEW k \in CallKeys, NEW i \in DOMAIN handed[k]
               PROVE  /\ Len(handed[k][i].pcm) = 3
                      /\ [p \in Parts |-> handed[k][i].pcm[p].frame] =
                           [p \in Parts |-> [conn |-> Self, dir |-> "decode", part |-> p,
                                             burst |-> [call |-> k, n |-> handed[k][i].n]]]
                      /\ \A p \in 2..3 : handed[k][i].pcm[p].pred
                                           = handed[k][i].pcm[p - 1].frame
                      /\ \A j \in 1..(i - 1) : handed[k][j].n < handed[k][i].n
    BY DEF BurstsAreWhole
  <2>1. PICK x : x = handed[k][i]
    OBVIOUS
  <2>2. PICK b : b = [call |-> k, n |-> x.n]
    OBVIOUS
  <2>3. /\ Len(x.pcm) = 3 /\ PcmOK(b, x.pcm)
        /\ \A j \in DOMAIN handed[k] : j < i => handed[k][j].n < x.n
    BY <2>1, <2>2 DEF OrderInv, HandedOK
  <2>4. DOMAIN x.pcm = 1..3
    BY <2>1, <2>3, HandedIs, LenProperties
  <2>5. \A p \in Parts : x.pcm[p].frame = FrameOf(b, p)
                         /\ (p > 1 => x.pcm[p].pred = FrameOf(b, p - 1))
    BY <2>3, <2>4 DEF PcmOK, Parts
  <2>6. \A p \in Parts : FrameOf(b, p) = [conn |-> Self, dir |-> "decode", part |-> p,
                                          burst |-> b]
    BY DEF FrameOf
  <2>7. \A p \in 2..3 : p \in Parts /\ p > 1 /\ p - 1 \in Parts
    BY DEF Parts
  <2>8. \A p \in 2..3 : x.pcm[p].pred = x.pcm[p - 1].frame
    BY <2>5, <2>7
  <2>9. \A j \in 1..(i - 1) : j \in DOMAIN handed[k] /\ j < i
    BY HandedIs, LenProperties
  <2> QED
    BY <2>1, <2>2, <2>3, <2>5, <2>6, <2>8, <2>9
<1> QED
  BY <1>1, LineAlways, PTL

-----------------------------------------------------------------------------
(* No burst is missed.                                                     *)

\* Where a burst that arrived can be.
Kept(m) == \/ m \in lost
           \/ burst = m
           \/ \E i \in DOMAIN buffer : buffer[i] = m
           \/ \E i \in DOMAIN handed[m.call] : handed[m.call][i].n = m.n

\* While the link is up a burst moves on and is not lost from sight.
LEMMA KeptNext ==
    ASSUME Types, [Next]_vars, link' = "up", NEW m \in Bursts, Kept(m)
    PROVE  Kept(m)'
<1>1. ASSUME UNCHANGED <<lost, burst, buffer, handed>> PROVE Kept(m)'
  BY <1>1 DEF Kept
<1>2. CASE SendControl \/ RecvAck \/ StartFails \/ WriterFails \/ RecvFails
           \/ SendFrame \/ RecvPcm \/ IdleTick \/ Tick
           \/ Serve \/ UNCHANGED vars
  BY <1>1, <1>2 DEF SendControl, RecvAck, StartFails, WriterFails, RecvFails,
                    SendFrame, RecvPcm, IdleTick, Tick,
                    Serve, TheRestUnchanged, taskVars, arrivalVars, vars
<1>3. CASE RecvOther \/ RecvVoice
  <2>1. /\ buffer # <<>> /\ buffer' = Tail(buffer) /\ UNCHANGED <<lost, handed>>
        /\ burst = None
        /\ Head(buffer) # Other => burst' = Head(buffer)
    BY <1>3 DEF RecvOther, RecvVoice, Received, Selecting, arrivalVars, taskVars
  <2>2. PICK t : t = Tail(buffer)
    OBVIOUS
  <2>3. /\ Head(buffer) = buffer[1]
        /\ \A i \in DOMAIN buffer : i = 1 \/ \E j \in DOMAIN t : t[j] = buffer[i]
    BY <2>1, <2>2, Taken DEF Types
  <2>4. m # Other /\ m # None
    BY BurstIs
  <2>5. CASE \E i \in DOMAIN buffer : buffer[i] = m
    <3>1. Head(buffer) = m \/ \E j \in DOMAIN t : t[j] = m
      BY <2>3, <2>5
    <3> QED
      BY <2>1, <2>2, <2>4, <3>1 DEF Kept
  <2>6. CASE m \in lost \/ \E i \in DOMAIN handed[m.call] : handed[m.call][i].n = m.n
    BY <2>1, <2>6 DEF Kept
  <2> QED
    BY <2>1, <2>4, <2>5, <2>6 DEF Kept
<1>4. CASE DecodeFails \/ LinkBreaks
  BY <1>4 DEF DecodeFails, LinkBreaks
<1>5. CASE Record
  <2>1. PICK b \in Bursts : b = burst
    BY <1>5, RecordIs
  <2>2. PICK k \in CallKeys : k = b.call
    BY BurstIs
  <2>3. PICK x \in Calls : x = [n |-> burst.n, pcm |-> pcm]
    BY <1>5, RecordIs
  <2>4. PICK s \in Seq(Calls) : s = handed[k]
    BY DEF Types
  <2>5. /\ handed' = [handed EXCEPT ![k] = Append(s, x)] /\ UNCHANGED <<buffer, lost>>
    BY <1>5, <2>1, <2>2, <2>3, <2>4, RecordIs DEF arrivalVars
  <2>6. handed'[k] = Append(s, x) /\ \A j \in CallKeys : j # k => handed'[j] = handed[j]
    BY <2>5 DEF Types
  <2>7. PICK z : z = Len(s) + 1
    OBVIOUS
  <2>8. /\ \A i \in DOMAIN s : i \in DOMAIN Append(s, x) /\ Append(s, x)[i] = s[i]
        /\ z \in DOMAIN Append(s, x) /\ Append(s, x)[z] = x
    BY <2>7, Put
  <2>9. m.call \in CallKeys /\ x.n = b.n
    BY <2>1, <2>3, BurstIs
  <2>10. ASSUME burst = m
         PROVE  \E i \in DOMAIN handed'[m.call] : handed'[m.call][i].n = m.n
    BY <2>1, <2>2, <2>6, <2>8, <2>9, <2>10
  <2>11. ASSUME NEW i \in DOMAIN handed[m.call], handed[m.call][i].n = m.n
         PROVE  \E j \in DOMAIN handed'[m.call] : handed'[m.call][j].n = m.n
    <3>1. i \in DOMAIN handed'[m.call] /\ handed'[m.call][i] = handed[m.call][i]
      BY <2>4, <2>6, <2>8, <2>9
    <3> QED
      BY <2>11, <3>1
  <2> QED
    BY <2>5, <2>10, <2>11 DEF Kept
<1>6. ASSUME UNCHANGED <<burst, handed>>, lost \subseteq lost',
             NEW x \in Bursts \cup {Other}, buffer' = buffer \/ buffer' = Append(buffer, x)
      PROVE  Kept(m)'
  <2>1. \A i \in DOMAIN buffer : i \in DOMAIN buffer' /\ buffer'[i] = buffer[i]
    BY <1>6, Put DEF Types
  <2> QED
    BY <1>6, <2>1 DEF Kept
<1>7. CASE ArriveOther
  BY <1>6, <1>7 DEF ArriveOther, ToBuffer, taskVars
<1>8. ASSUME NEW k \in CallKeys, Arrive(k) PROVE Kept(m)'
  <2>1. arrived[k] < MaxBursts /\ arrived[k] \in 0..MaxBursts
    BY <1>8 DEF Arrive, Types
  <2>2. [call |-> k, n |-> arrived[k] + 1] \in Bursts
    BY <2>1, Numbers DEF Bursts
  <2>3. PICK x \in Bursts : x = [call |-> k, n |-> arrived[k] + 1]
    BY <2>2
  <2>4. /\ UNCHANGED <<burst, handed>> /\ lost \subseteq lost'
        /\ buffer' = buffer \/ buffer' = Append(buffer, x)
    BY <1>8, <2>3 DEF Arrive, ToBuffer, taskVars
  <2> QED
    BY <1>6, <2>4
<1> QED
  BY <1>2, <1>3, <1>4, <1>5, <1>7, <1>8 DEF Next, Task

KeptInv == link = "up" => \A k \in CallKeys : \A n \in 1..arrived[k] :
                            Kept([call |-> k, n |-> n])

\* What arrives is put in the buffer, or lost.
LEMMA ArrivalIsKept ==
    ASSUME Types, NEW k \in CallKeys, Arrive(k), NEW c \in Nat, c = arrived[k]
    PROVE  /\ \A n \in 1..arrived'[k] : n \in 1..arrived[k] \/ n = c + 1
           /\ \A j \in CallKeys : j # k => arrived'[j] = arrived[j]
           /\ Kept([call |-> k, n |-> c + 1])'
<1>1. PICK m : m = [call |-> k, n |-> c + 1]
  OBVIOUS
<1>2. arrived' = [arrived EXCEPT ![k] = c + 1]
  BY DEF Arrive
<1>3. arrived'[k] = c + 1 /\ \A j \in CallKeys : j # k => arrived'[j] = arrived[j]
  BY <1>2 DEF Types
<1>4. \A n \in 1..(c + 1) : n \in 1..c \/ n = c + 1
  OBVIOUS
<1>5. buffer' = Append(buffer, m) \/ m \in lost'
  BY <1>1 DEF Arrive, ToBuffer
<1>6. ASSUME buffer' = Append(buffer, m) PROVE \E i \in DOMAIN buffer' : buffer'[i] = m
  <2>1. buffer \in Seq(Bursts \cup {Other} \cup {m})
    BY DEF Types
  <2>2. Len(buffer) + 1 \in DOMAIN Append(buffer, m) /\ Append(buffer, m)[Len(buffer) + 1] = m
    BY <2>1, Put
  <2> QED
    BY <1>6, <2>2
<1>7. Kept(m)'
  BY <1>5, <1>6 DEF Kept
<1> QED
  BY <1>1, <1>3, <1>4, <1>7

\* While the link is up no burst is missed but for those the socket had no room
\* for: it waits, is being decoded, or was handed to the recorder
\* (dmr_listener.rs:84-95, 137-160).
THEOREM NoneMissed == Spec => []NoBurstIsMissed
<1>1. Init => KeptInv
  <2> SUFFICES ASSUME Init, NEW k \in CallKeys, NEW n \in 1..arrived[k]
               PROVE  FALSE
    BY DEF KeptInv
  <2>1. arrived[k] = 0
    BY DEF Init
  <2> QED
    BY <2>1
<1>2. Types /\ KeptInv /\ [Next]_vars => KeptInv'
  <2> SUFFICES ASSUME Types, KeptInv, [Next]_vars, link' = "up",
                      NEW k \in CallKeys, NEW n \in 1..arrived'[k]
               PROVE  Kept([call |-> k, n |-> n])'
    BY DEF KeptInv
  <2>1. link = "up"
    BY DEF Next, Task, SendControl, RecvAck, StartFails, WriterFails, RecvFails, RecvOther, RecvVoice, SendFrame,
           RecvPcm, DecodeFails, Record, IdleTick, Serve, LinkBreaks, Tick, ArriveOther,
           Arrive, TheRestUnchanged, vars
  <2>2. PICK m : m = [call |-> k, n |-> n]
    OBVIOUS
  <2>3. m \in Bursts
    <3>1. Types'
      BY TypesNext
    <3>2. n \in 1..MaxBursts
      BY <3>1, Numbers DEF Types
    <3> QED
      BY <2>2, <3>2 DEF Bursts
  <2>4. CASE n \in 1..arrived[k]
    <3>1. Kept(m)
      BY <2>1, <2>2, <2>4 DEF KeptInv
    <3>2. Kept(m)'
      BY <2>3, <3>1, KeptNext
    <3> QED
      BY <2>2, <3>2
  <2>5. ASSUME NEW j \in CallKeys, Arrive(j), n \notin 1..arrived[k]
        PROVE  Kept([call |-> k, n |-> n])'
    <3>1. PICK c \in Nat : c = arrived[j]
      BY Numbers DEF Types
    <3>2. /\ \A i \in 1..arrived'[j] : i \in 1..arrived[j] \/ i = c + 1
          /\ \A i \in CallKeys : i # j => arrived'[i] = arrived[i]
          /\ Kept([call |-> j, n |-> c + 1])'
      BY <2>5, <3>1, ArrivalIsKept
    <3>3. j = k /\ n = c + 1
      BY <2>5, <3>2
    <3> QED
      BY <3>2, <3>3
  <2>6. arrived' = arrived \/ \E j \in CallKeys : Arrive(j)
    BY DEF Next, Task, SendControl, RecvAck, StartFails, WriterFails, RecvFails, RecvOther, RecvVoice, SendFrame,
           RecvPcm, DecodeFails, Record, IdleTick, Serve, LinkBreaks, Tick, ArriveOther,
           TheRestUnchanged, arrivalVars, vars
  <2> QED
    BY <2>4, <2>5, <2>6
<1>3. Types /\ KeptInv => NoBurstIsMissed
  <2> SUFFICES ASSUME KeptInv, link = "up", NEW k \in CallKeys, NEW n \in 1..arrived[k]
               PROVE  LET m == [call |-> k, n |-> n]
                      IN  \/ m \in lost
                          \/ burst = m
                          \/ \E i \in DOMAIN buffer : buffer[i] = m
                          \/ \E i \in DOMAIN handed[k] : handed[k][i].n = n
    BY DEF NoBurstIsMissed
  <2>1. Kept([call |-> k, n |-> n])
    BY DEF KeptInv
  <2> QED
    BY <2>1 DEF Kept
<1> QED
  BY <1>1, <1>2, <1>3, TypesInit, TypesNext, PTL DEF Spec

-----------------------------------------------------------------------------
(* Types.                                                                  *)

\* A burst is counted where it is handed over.
LEMMA CountNext ==
    Types /\ Writer!TypeOK /\ OrderInv' /\ Types' /\ CountInv /\ [Next]_vars => CountInv'
<1> SUFFICES ASSUME Types, Writer!TypeOK, OrderInv', Types', CountInv, [Next]_vars,
                    NEW k \in CallKeys
             PROVE  seen'[k] = Len(handed'[k]) /\ seen'[k] <= arrived'[k]
  BY DEF CountInv
<1>1. seen'[k] = Len(handed'[k])
  <2>1. CASE Record
    <3>1. PICK j \in CallKeys : j = burst.call
      BY <2>1, RecordIs
    <3>2. PICK x \in Calls : x = [n |-> burst.n, pcm |-> pcm]
      BY <2>1, RecordIs
    <3>3. PICK s \in Seq(Calls) : s = handed[j]
      BY DEF Types
    <3>4. handed' = [handed EXCEPT ![j] = Append(s, x)]
      BY <2>1, <3>1, <3>2, <3>3, RecordIs
    <3>5. Len(Append(s, x)) = Len(s) + 1
      BY Put
    <3>6. seen' = [seen EXCEPT ![j] = @ + 1]
      <4>1. Writer!Handle(j)
        BY <2>1, <3>1, RecordIs DEF Writer!HandleBurst, Writer!NextBurst, Writer!FirstBurst,
                                    Writer!CreateFails, Writer!RefusedBurst
      <4> QED
        BY <4>1 DEF Writer!Handle
    <3>7. DOMAIN seen = CallKeys
      BY DEF Writer!TypeOK, Writer!CallKeys, CallKeys
    <3> QED
      BY <3>3, <3>4, <3>5, <3>6, <3>7 DEF Types, CountInv
  <2>2. CASE ~Record
    <3>1. seen' = seen /\ handed' = handed
      BY <2>2 DEF Next, Task, SendControl, RecvAck, StartFails, WriterFails, RecvFails,
                  Writer!Exit, RecvOther, RecvVoice, SendFrame, RecvPcm, DecodeFails, IdleTick, Writer!FlushIdle, Serve,
                  LinkBreaks, Tick, Writer!Tick, ArriveOther, Arrive, TheRestUnchanged,
                  taskVars, writerVars, vars
    <3> QED
      BY <3>1 DEF CountInv
  <2> QED
    BY <2>1, <2>2
<1>2. Len(handed'[k]) <= arrived'[k]
  <2>1. PICK s \in Seq(Calls) : s = handed'[k]
    BY DEF Types
  <2>2. PICK c \in Nat : c = arrived'[k]
    BY Numbers DEF Types
  <2>3. \A i \in DOMAIN s : i <= s[i].n /\ s[i].n <= c
    BY <2>1, <2>2 DEF OrderInv, HandedOK
  <2>4. \A i \in DOMAIN s : i \in Nat /\ s[i].n \in Nat
    <3>1. \A i \in DOMAIN s : i \in Nat /\ s[i] \in Calls
      BY ElementOfSeq, LenProperties
    <3>2. \A x \in Calls : x.n \in Nat
      BY Numbers DEF Calls
    <3> QED
      BY <3>1, <3>2
  <2>5. Len(s) \in Nat /\ (Len(s) # 0 => Len(s) \in DOMAIN s)
    BY LenProperties
  <2>6. Len(s) <= c
    BY <2>3, <2>4, <2>5
  <2> QED
    BY <2>1, <2>2, <2>6
<1> QED
  BY <1>1, <1>2

\* The types of the listener's and the recorder's state, and what the handshake
\* and the counts keep to.
THEOREM TypeCorrect == Spec => []TypeOK
<1>1. Spec => []Writer!TypeOK
  <2>1. Recorder!Spec => []Recorder!TypeOK
    BY Assumed, Recorder!TypeCorrect
  <2>2. Writer!TypeOK <=> Recorder!TypeOK
    BY SameRecorder
  <2> QED
    BY <2>1, <2>2, UsesRecorder, PTL
<1>2. Types /\ GreetingInv /\ DecodeInv /\ CountInv /\ Writer!TypeOK => TypeOK
  <2> SUFFICES ASSUME Types, GreetingInv, DecodeInv, CountInv, Writer!TypeOK PROVE TypeOK
    OBVIOUS
  <2>1. \A i \in DOMAIN buffer : buffer[i] = Other \/ buffer[i] \in Bursts
    BY QueueIs DEF Types
  <2> QED
    BY <2>1 DEF Types, GreetingInv, DecodeInv, CountInv, TypeOK
<1> DEFINE Inv == Types /\ GreetingInv /\ DecodeInv /\ OrderInv /\ CountInv
<1>3. Init => Inv
  BY TypesInit, InvInit
<1>4. Inv /\ Writer!TypeOK /\ [Next]_vars => Inv'
  BY TypesNext, GreetingNext, DecodeNext, OrderNext, CountNext
<1>5. Inv /\ Writer!TypeOK => TypeOK
  BY <1>2
<1> HIDE DEF Inv
<1> QED
  BY <1>1, <1>3, <1>4, <1>5, PTL DEF Spec

=============================================================================
