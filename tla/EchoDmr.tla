------------------------------- MODULE EchoDmr -------------------------------
(***************************************************************************)
(* The parrot of mmdvm_sip (command/echo_dmr.rs): one task records the     *)
(* DMRD bursts of a call and, when the call has been silent for idle_ms,   *)
(* waits delay_ms and sends them back.  While it waits and sends it does   *)
(* not receive: what arrives meanwhile stays in the socket's buffer.       *)
(*                                                                         *)
(* Data.  A tick is 100 ms, the period of idle_tick; the 60 ms between two *)
(* bursts sent are one tick too.  A burst is its stream, its number in the *)
(* stream and, for the properties, how long each stream had been silent    *)
(* when it arrived.  A datagram that is not a DMRD burst has no stream.    *)
(* The stream id a replay is sent under is random, so fresh: a replay is   *)
(* its position in echoes.                                                 *)
(***************************************************************************)
EXTENDS Naturals, Sequences, Functions

CONSTANTS Streams,   \* DMR stream ids
          NoStream,  \* current_stream = None; the stream of other datagrams
          Idle,      \* idle_ms, in ticks
          Delay,     \* delay_ms, in ticks
          BufferCap, \* datagrams the socket's buffer holds
          MaxBursts, \* bound: bursts of a stream
          MaxOther,  \* bound: datagrams that are no bursts
          MaxFaults  \* bound: calls of the socket that fail

ASSUME EchoAssumption ==
    /\ NoStream \notin Streams
    /\ {Idle, Delay, BufferCap, MaxBursts, MaxOther, MaxFaults} \subseteq Nat

Period == 1   \* of idle_tick
Cadence == 1  \* between two bursts sent

\* Times are told apart up to the longest the properties speak of.
Long == Idle + Period + 1
Later(t) == IF t < Long THEN t + 1 ELSE Long

Bursts == [stream : Streams, n : 1..MaxBursts, gap : [Streams -> 0..Long]]
Other == [stream |-> NoStream]

VARIABLES
    phase,     \* "listening" in select!, "waiting", "replaying", or "ended"
    timer,     \* ticks until the sleep or the next send is due
    tickIn,    \* ticks until idle_tick is due
    quiet,     \* last_burst.elapsed()
    record,    \* the bursts recorded
    current,   \* current_stream
    outgoing,  \* the bursts of the replay not sent yet
    buffer,    \* the socket's receive buffer
    silence,   \* silence[s]: time since a burst of s arrived
    heard,     \* heard[s]: bursts of s that arrived
    others,    \* datagrams of other kinds that arrived
    faults,    \* calls of the socket that failed
    echoes,    \* history: the bursts sent, replay by replay
    listened,  \* history: ticks since the task is back in select!
    discarded, \* history: bursts dropped for another stream, with the silence of
               \* their own when its burst arrived, and listened when it was taken
    lost       \* history: bursts lost to a full buffer or a failed call

taskVars == <<phase, timer, tickIn, quiet, record, current, outgoing>>
arrivalVars == <<silence, heard, others>>
vars == <<taskVars, buffer, arrivalVars, faults, echoes, listened, discarded, lost>>

TypeOK ==
    /\ phase \in {"listening", "waiting", "replaying", "ended"}
    /\ timer \in 0..(Delay + Cadence) /\ tickIn \in 0..Period
    /\ quiet \in 0..Long
    /\ record \in Seq(Bursts) /\ outgoing \in Seq(Bursts)
    /\ current \in Streams \cup {NoStream}
    /\ current = NoStream <=> record = <<>>
    /\ phase \in {"listening", "ended"} <=> outgoing = <<>>
    /\ buffer \in Seq(Bursts \cup {Other}) /\ Len(buffer) <= BufferCap
    /\ silence \in [Streams -> 0..Long]
    /\ heard \in [Streams -> 0..MaxBursts]
    /\ others \in 0..MaxOther /\ faults \in 0..MaxFaults
    /\ echoes \in Seq(Seq(Bursts))
    /\ listened \in 0..Long
    /\ discarded \subseteq [burst : Bursts, silent : 0..Long, listened : 0..Long]
    /\ lost \subseteq Bursts

Init == /\ phase = "listening" /\ timer = 0 /\ tickIn = 0 /\ quiet = 0
        /\ record = <<>> /\ current = NoStream /\ outgoing = <<>>
        /\ buffer = <<>>
        /\ silence = [s \in Streams |-> Long]
        /\ heard = [s \in Streams |-> 0] /\ others = 0 /\ faults = 0
        /\ echoes = <<>> /\ listened = 0 /\ discarded = {} /\ lost = {}

-----------------------------------------------------------------------------
(* The task: select! between idle_tick and the socket.                     *)

\* Slip: a call is over when the idle window is reached.
CallEnded_Early == record # <<>> /\ quiet >= Idle

\* Slip: a single burst is no call.
CallEnded_NotShort == Len(record) > 1 /\ quiet > Idle

CallEnded == record # <<>> /\ quiet > Idle

\* Slip: current_stream is not reset.
StartEcho_KeepsStream ==
    /\ phase = "listening" /\ tickIn = 0 /\ CallEnded
    /\ tickIn' = Period
    /\ outgoing' = record /\ record' = <<>>
    /\ phase' = "waiting" /\ timer' = Delay
    /\ echoes' = Append(echoes, <<>>) /\ listened' = 0
    /\ UNCHANGED <<quiet, current, buffer, arrivalVars, faults, discarded, lost>>

\* The tick comes first and the call has ended: take the record, sleep.
StartEcho == /\ phase = "listening" /\ tickIn = 0 /\ CallEnded
             /\ tickIn' = Period
             /\ outgoing' = record /\ record' = <<>> /\ current' = NoStream
             /\ phase' = "waiting" /\ timer' = Delay
             /\ echoes' = Append(echoes, <<>>) /\ listened' = 0
             /\ UNCHANGED <<quiet, buffer, arrivalVars, faults, discarded, lost>>

NothingEnded == /\ phase = "listening" /\ tickIn = 0 /\ ~CallEnded
                /\ tickIn' = Period
                /\ UNCHANGED <<phase, timer, quiet, record, current, outgoing, buffer,
                               arrivalVars, faults, echoes, listened, discarded, lost>>

Received == Head(buffer)

\* Slip: the old call's bursts stay in the record.
Recorded_Mixed(b) == Append(record, b)

\* The record after burst b, which of another stream replaces it.
Recorded(b) == IF current \in {NoStream, b.stream} THEN Append(record, b)
                                                   ELSE <<b>>

Dropped(b) == IF current \in {NoStream, b.stream} THEN {}
              ELSE {[burst |-> r, silent |-> b.gap[current], listened |-> listened] :
                 r \in Range(record)}

RecvBurst == /\ phase = "listening" /\ buffer # <<>> /\ Received # Other
             /\ record' = Recorded(Received)
             /\ discarded' = discarded \cup Dropped(Received)
             /\ current' = Received.stream
             /\ quiet' = 0
             /\ buffer' = Tail(buffer)
             /\ UNCHANGED <<phase, timer, tickIn, outgoing, arrivalVars, faults,
                            echoes, listened, lost>>

\* Config, GPS, alias and unknown datagrams: they do not keep a call alive.
RecvOther == /\ phase = "listening" /\ buffer # <<>> /\ Received = Other
             /\ buffer' = Tail(buffer)
             /\ UNCHANGED <<taskVars, arrivalVars, faults, echoes, listened,
                            discarded, lost>>

\* recv_from fails: run returns, and the record and what waits are lost.
RecvFails == /\ phase = "listening"
             /\ faults < MaxFaults /\ faults' = faults + 1
             /\ lost' = lost \cup Range(record) \cup (Range(buffer) \ {Other})
             /\ record' = <<>> /\ current' = NoStream /\ buffer' = <<>>
             /\ phase' = "ended"
             /\ UNCHANGED <<timer, tickIn, quiet, outgoing, arrivalVars, echoes,
                            listened, discarded>>

\* The delay is over; the first tick of the cadence is immediate.
StartSending == /\ phase = "waiting" /\ timer = 0
                /\ phase' = "replaying"
                /\ UNCHANGED <<timer, tickIn, quiet, record, current, outgoing,
                               buffer, arrivalVars, faults, echoes, listened, discarded,
                               lost>>

\* echo_call sends the next burst, and returns after the last.
SendBurst == /\ phase = "replaying" /\ timer = 0
             /\ echoes' = [echoes EXCEPT ![Len(echoes)] = Append(@, Head(outgoing))]
             /\ outgoing' = Tail(outgoing)
             /\ phase' = IF outgoing' = <<>> THEN "listening" ELSE "replaying"
             /\ timer' = IF outgoing' = <<>> THEN 0 ELSE Cadence
             /\ UNCHANGED <<tickIn, quiet, record, current, buffer, arrivalVars,
                            faults, listened, discarded, lost>>

\* Slip: the replay is tried again from its first burst.
SendFails_Restarts ==
    /\ phase = "replaying" /\ timer = 0
    /\ faults < MaxFaults /\ faults' = faults + 1
    /\ outgoing' = echoes[Len(echoes)] \o outgoing
    /\ UNCHANGED <<phase, timer, tickIn, quiet, record, current, buffer,
                   arrivalVars, echoes, listened, discarded, lost>>

\* A send that fails ends the replay.
SendFails == /\ phase = "replaying" /\ timer = 0
             /\ faults < MaxFaults /\ faults' = faults + 1
             /\ lost' = lost \cup Range(outgoing)
             /\ outgoing' = <<>> /\ phase' = "listening"
             /\ UNCHANGED <<timer, tickIn, quiet, record, current, buffer,
                            arrivalVars, echoes, listened, discarded>>

Task == \/ StartEcho \/ NothingEnded \/ RecvBurst \/ RecvOther
        \/ StartSending \/ SendBurst \/ SendFails

-----------------------------------------------------------------------------
(* External: MMDVMHost, the kernel's buffer, and time.                     *)

Arriving(s) == [stream |-> s, n |-> heard[s] + 1, gap |-> silence]

Arrive(s) == /\ phase # "ended" /\ heard[s] < MaxBursts
             /\ heard' = [heard EXCEPT ![s] = @ + 1]
             /\ silence' = [silence EXCEPT ![s] = 0]
             /\ \/ /\ Len(buffer) < BufferCap
                   /\ buffer' = Append(buffer, Arriving(s))
                   /\ UNCHANGED lost
                \/ /\ Len(buffer) = BufferCap
                   /\ lost' = lost \cup {Arriving(s)}
                   /\ UNCHANGED buffer
             /\ UNCHANGED <<taskVars, others, faults, echoes, listened, discarded>>

ArriveOther == /\ phase # "ended"
               /\ others < MaxOther /\ Len(buffer) < BufferCap
               /\ others' = others + 1
               /\ buffer' = Append(buffer, Other)
               /\ UNCHANGED <<taskVars, silence, heard, faults, echoes, listened,
                              discarded, lost>>

\* Nothing the task waits for is there.
Blocked == /\ phase = "listening" => tickIn > 0 /\ buffer = <<>>
           /\ phase \in {"waiting", "replaying"} => timer > 0

Earlier(t) == IF t = 0 THEN 0 ELSE t - 1

\* Time passes while the task is blocked: it is scheduled promptly.
Tick == /\ Blocked
        /\ timer' = Earlier(timer) /\ tickIn' = Earlier(tickIn)
        /\ quiet' = Later(quiet)
        /\ silence' = [s \in Streams |-> Later(silence[s])]
        /\ listened' = IF phase = "listening" THEN Later(listened) ELSE listened
        /\ UNCHANGED <<phase, record, current, outgoing, buffer, heard, others,
                       faults, echoes, discarded, lost>>

Next == Task \/ RecvFails \/ (\E s \in Streams : Arrive(s)) \/ ArriveOther \/ Tick

Spec == Init /\ [][Next]_vars

\* The task runs and time passes; nobody has to send anything.
FairSpec == Spec /\ WF_vars(Task) /\ WF_vars(Tick)

-----------------------------------------------------------------------------
(* Properties.                                                             *)

\* Burst n of stream s, and the places where it is.
Is(b, s, n) == b.stream = s /\ b.n = n

Indices(seq, s, n) == {i \in DOMAIN seq : Is(seq[i], s, n)}

Places(s, n) ==
    {<<"buffer", i>> : i \in Indices(buffer, s, n)}
    \cup {<<"record", i>> : i \in Indices(record, s, n)}
    \cup {<<"outgoing", i>> : i \in Indices(outgoing, s, n)}
    \cup (UNION {{<<"sent", i, e>> : i \in Indices(echoes[e], s, n)} :
                   e \in DOMAIN echoes})
    \cup {<<"discarded", d>> : d \in {c \in discarded : Is(c.burst, s, n)}}
    \cup {<<"lost", l>> : l \in {k \in lost : Is(k, s, n)}}

\* Every burst that arrived is in one place: on its way, recorded, sent once,
\* dropped for another stream, or lost to a full buffer or a failed send.  No
\* interleaving of calls and replays sends a burst twice or loses one silently.
EachBurstOnce ==
    \A s \in Streams : \A n \in 1..heard[s] :
      \E p \in Places(s, n) : Places(s, n) = {p}

\* A replay is one call: bursts of a single stream, in the order they came, and
\* none left out but those that were lost.
EchoIsOneCall ==
    \A e \in DOMAIN echoes : \A i, j \in DOMAIN echoes[e] : i < j =>
      LET a == echoes[e][i]  b == echoes[e][j]
      IN  /\ a.stream = b.stream /\ a.n < b.n
          /\ \A n \in (a.n + 1)..(b.n - 1) :
               \/ \E k \in (i + 1)..(j - 1) : echoes[e][k].n = n
               \/ \E l \in lost : l.stream = a.stream /\ l.n = n

\* A call is not cut in two: bursts of a stream that are replayed separately did
\* arrive further apart than the idle window, whatever the parrot was doing.
CallsAreNotSplit ==
    \A d, e \in DOMAIN echoes : d # e =>
      \A a \in Range(echoes[d]), b \in Range(echoes[e]) :
        a.stream = b.stream /\ b.n = a.n + 1 => b.gap[b.stream] > Idle

\* While the parrot listens a call is dropped for another one only if it goes
\* on: one whose stream had been silent for the idle window and a period of the
\* tick, when the burst of the other stream arrived, has been replayed.  Only
\* after a replay there is as long a time in which it has not.
SilentCallIsSafe ==
    \A d \in discarded : \/ d.silent <= Idle + Period
                         \/ d.listened <= Idle + Period


\* Every record is settled in the end and every replay ends.
RecordIsSettled == /\ record # <<>> ~> record = <<>>
                   /\ outgoing # <<>> ~> outgoing = <<>>

=============================================================================
