--------------------------- MODULE EchoDmrProofs ---------------------------
(***************************************************************************)
(* Theorems about EchoDmr, for every set of streams, every timing, buffer  *)
(* and number of faults.                                                   *)
(*                                                                         *)
(* What waits is in order and complete (QueueInv): of a stream, the record *)
(* and then the buffer hold every burst from the first they hold up to the *)
(* last that arrived, those lost aside.  A call is what is sent of a replay*)
(* and what is still outgoing; it was the record once.                     *)
(* Of what was dropped or lost there is nothing elsewhere (OnceInv), and   *)
(* nothing that arrived is nowhere (AllInv).                               *)
(***************************************************************************)
EXTENDS EchoDmr, TLAPS, SequenceTheorems

Buffered == Range(buffer) \ {Other}
Waiting == Range(record) \cup Buffered

\* Of each stream, the bursts of seq came in this order.
Sorted(seq) == \A i, j \in DOMAIN seq : i < j =>
                 \/ seq[i] = Other \/ seq[j] = Other
                 \/ seq[i].stream # seq[j].stream \/ seq[i].n < seq[j].n

Lost(s, n) == \E l \in lost : l.stream = s /\ l.n = n

QueueInv ==
    /\ Sorted(record) /\ Sorted(buffer)
    /\ \A r \in Range(record) : r.stream = current
    /\ \A r \in Range(record), b \in Buffered : r.stream = b.stream => r.n < b.n
    /\ \A b \in Waiting : b.n <= heard[b.stream]
    /\ \A b \in Waiting : \A n \in (b.n + 1)..heard[b.stream] :
         \/ \E y \in Waiting : y.stream = b.stream /\ y.n = n
         \/ Lost(b.stream, n)

\* While nothing is received nothing is recorded; a call that is over is noticed
\* with the next idle_tick.
SilenceInv == /\ phase # "listening" => record = <<>>
              /\ record # <<>> => quiet <= IF tickIn = 0 THEN Idle + Period ELSE Idle

\* While the parrot listens it has no older news of a stream than its socket:
\* unless it has not been back from a replay for as long as nothing was taken,
\* the current stream was silent no longer than that, when a burst that waits
\* arrived and now; and what waits arrived without time passing.
FreshInv ==
    /\ phase \in {"waiting", "replaying"} => listened = 0
    /\ phase = "listening" /\ record # <<>> /\ listened > quiet =>
         /\ silence[current] <= quiet
         /\ \A b \in Buffered : b.gap[current] <= quiet
    /\ phase = "listening" /\ listened > 0 =>
         \A i \in DOMAIN buffer : buffer[i] # Other =>
           /\ silence[buffer[i].stream] = 0
           /\ \A j \in DOMAIN buffer : i < j /\ buffer[j] # Other =>
                buffer[j].gap[buffer[i].stream] = 0

\* The calls that were replayed or are being replayed.
Call(e) == IF e = Len(echoes) THEN echoes[e] \o outgoing ELSE echoes[e]

\* One call, whole but for what was lost.
Whole(seq) == \A i, j \in DOMAIN seq : i < j =>
                /\ seq[i].stream = seq[j].stream /\ seq[i].n < seq[j].n
                /\ \A n \in (seq[i].n + 1)..(seq[j].n - 1) :
                     \/ \E k \in (i + 1)..(j - 1) : seq[k].n = n
                     \/ Lost(seq[i].stream, n)

CallInv == /\ outgoing # <<>> => echoes # <<>>
           /\ \A e \in DOMAIN echoes : Whole(Call(e))

\* Burst b belongs to a later call than a.
Apart(a, b) == a.stream = b.stream =>
                 a.n < b.n /\ (b.n = a.n + 1 => b.gap[b.stream] > Idle)

\* The stream has been silent since r at least as long as nothing was received.
QuietInv ==
    \A r \in Range(record) :
      /\ heard[r.stream] = r.n => silence[r.stream] >= quiet
      /\ \A b \in Buffered : b.stream = r.stream /\ b.n = r.n + 1 =>
           b.gap[b.stream] >= quiet

ApartInv ==
    /\ \A e \in DOMAIN echoes : \A a \in Range(Call(e)) :
         /\ a.n <= heard[a.stream]
         /\ heard[a.stream] = a.n => silence[a.stream] > Idle
         /\ \A b \in Waiting : Apart(a, b)
    /\ \A d, e \in DOMAIN echoes : d < e =>
         \A a \in Range(Call(d)), b \in Range(Call(e)) : Apart(a, b)

-----------------------------------------------------------------------------
(* Sequences.                                                              *)

\* What is taken from the front.
LEMMA Taken ==
    ASSUME NEW S, NEW q \in Seq(S), q # <<>>
    PROVE  /\ Head(q) \in S /\ Head(q) = q[1] /\ 1 \in DOMAIN q
           /\ Tail(q) \in Seq(S) /\ Len(Tail(q)) = Len(q) - 1
           /\ \A i \in DOMAIN Tail(q) : /\ i \in Nat \ {0} /\ i + 1 \in DOMAIN q
                                        /\ Tail(q)[i] = q[i + 1]
           /\ Range(q) = {Head(q)} \cup Range(Tail(q))
<1>1. /\ Head(q) \in S /\ Tail(q) \in Seq(S) /\ Len(Tail(q)) = Len(q) - 1
      /\ \A i \in 1..Len(Tail(q)) : Tail(q)[i] = q[i + 1]
  BY HeadTailProperties
<1>2. /\ DOMAIN q = 1..Len(q) /\ Len(q) \in Nat \ {0} /\ Head(q) = q[1]
      /\ DOMAIN Tail(q) = 1..Len(Tail(q))
  BY <1>1, LenProperties, EmptySeq
<1>3. \A i \in DOMAIN q : i = 1 \/ (i - 1 \in DOMAIN Tail(q) /\ Tail(q)[i - 1] = q[i])
  BY <1>1, <1>2
<1>4. \A i \in DOMAIN Tail(q) : i \in Nat \ {0} /\ i + 1 \in DOMAIN q
                                  /\ Tail(q)[i] = q[i + 1]
  BY <1>1, <1>2
<1>5. Range(q) = {Head(q)} \cup Range(Tail(q))
  BY <1>2, <1>3, <1>4 DEF Range
<1> QED
  BY <1>1, <1>2, <1>4, <1>5

\* What is put at the end.
LEMMA Put ==
    ASSUME NEW S, NEW q \in Seq(S), NEW m \in S
    PROVE  /\ Append(q, m) \in Seq(S) /\ Append(q, m) # <<>>
           /\ Len(Append(q, m)) = Len(q) + 1
           /\ \A i \in DOMAIN Append(q, m) :
                \/ i \in DOMAIN q /\ Append(q, m)[i] = q[i]
                \/ i = Len(q) + 1 /\ Append(q, m)[i] = m
           /\ Range(Append(q, m)) = Range(q) \cup {m}
<1>1. DOMAIN q = 1..Len(q) /\ Len(q) \in Nat
  BY LenProperties
<1>2. /\ DOMAIN Append(q, m) = 1..(Len(q) + 1) /\ Append(q, m)[Len(q) + 1] = m
      /\ \A i \in 1..Len(q) : Append(q, m)[i] = q[i]
  BY <1>1
<1>3. \A i \in 1..(Len(q) + 1) : i \in 1..Len(q) \/ i = Len(q) + 1
  BY <1>1
<1>4. Len(q) + 1 \in 1..(Len(q) + 1) /\ 1..Len(q) \subseteq 1..(Len(q) + 1)
  BY <1>1
<1>5. Range(Append(q, m)) = Range(q) \cup {m}
  BY <1>1, <1>2, <1>3, <1>4 DEF Range
<1>6. \A i \in DOMAIN Append(q, m) :
        \/ i \in DOMAIN q /\ Append(q, m)[i] = q[i]
        \/ i = Len(q) + 1 /\ Append(q, m)[i] = m
  BY <1>1, <1>2, <1>3
<1>7. Append(q, m) \in Seq(S) /\ Append(q, m) # <<>> /\ Len(Append(q, m)) = Len(q) + 1
  BY <1>1
<1> QED
  BY <1>5, <1>6, <1>7

\* What a sequence holds is what is at its places.
LEMMA Holds ==
    ASSUME NEW S, NEW q \in Seq(S)
    PROVE  /\ DOMAIN q = 1..Len(q) /\ Len(q) \in Nat
           /\ Range(q) \subseteq S
           /\ \A i \in DOMAIN q : q[i] \in S /\ q[i] \in Range(q)
           /\ \A x \in Range(q) : \E i \in DOMAIN q : q[i] = x
BY LenProperties, ElementOfSeq DEF Range

LEMMA Empty == Range(<<>>) = {} /\ DOMAIN <<>> = {}
BY DEF Range

-----------------------------------------------------------------------------
(* Type correctness.                                                       *)

LEMMA Bounds ==
    /\ Idle \in Nat /\ Delay \in Nat /\ BufferCap \in Nat /\ MaxBursts \in Nat
    /\ MaxOther \in Nat /\ MaxFaults \in Nat
    /\ Long \in Nat /\ Long > Idle
BY EchoAssumption DEF Long, Period

\* Time that passes.
LEMMA Passing ==
    /\ \A t \in 0..Long : Later(t) \in 0..Long /\ t <= Later(t) /\ Later(t) <= t + 1
    /\ \A t, u \in 0..Long : t <= u => Later(t) <= Later(u)
BY Bounds DEF Later

\* A burst has a stream, other datagrams have none.
LEMMA NoBurst == /\ Other \notin Bursts
                 /\ \A b \in Bursts : /\ b.stream \in Streams /\ b.n \in Nat
                                      /\ b.n \in 1..MaxBursts
                                      /\ b.gap[b.stream] \in 0..Long
BY EchoAssumption, Bounds DEF Other, Bursts

\* The task's steps.
LEMMA TypeTask == ASSUME TypeOK, Task PROVE TypeOK'
<1> USE DEF Period, Cadence
<1>1. CASE StartEcho
  <2>1. echoes' \in Seq(Seq(Bursts))
    BY <1>1, Put DEF StartEcho, TypeOK
  <2> QED
    BY <1>1, <2>1, Bounds DEF StartEcho, TypeOK, CallEnded, arrivalVars
<1>2. CASE NothingEnded
  BY <1>2 DEF NothingEnded, TypeOK, arrivalVars
<1>3. CASE RecvBurst
  <2>1. Received \in Bursts /\ Tail(buffer) \in Seq(Bursts \cup {Other})
        /\ Len(Tail(buffer)) <= BufferCap
    <3>1. /\ Head(buffer) \in Bursts \cup {Other} /\ Len(buffer) \in Nat
          /\ Tail(buffer) \in Seq(Bursts \cup {Other})
          /\ Len(Tail(buffer)) = Len(buffer) - 1
      BY <1>3, Taken, Holds DEF RecvBurst, TypeOK
    <3> QED
      BY <1>3, <3>1, Bounds DEF RecvBurst, TypeOK, Received
  <2>2. record' \in Seq(Bursts) /\ record' # <<>>
    <3>1. Append(record, Received) \in Seq(Bursts) /\ Append(record, Received) # <<>>
      BY <2>1, Put DEF TypeOK
    <3>2. <<Received>> \in Seq(Bursts) /\ <<Received>> # <<>>
      BY <2>1
    <3> QED
      BY <1>3, <3>1, <3>2 DEF RecvBurst, Recorded
  <2>3. Dropped(Received) \subseteq [burst : Bursts, silent : 0..Long, listened : 0..Long]
    <3>1. Range(record) \subseteq Bursts /\ listened \in 0..Long
      BY Holds DEF TypeOK
    <3>2. current \in Streams => Received.gap[current] \in 0..Long
      BY <2>1 DEF Bursts
    <3>3. current \notin {NoStream, Received.stream} => current \in Streams
      BY DEF TypeOK
    <3> QED
      BY <3>1, <3>2, <3>3 DEF Dropped
  <2>4. current' \in Streams
    BY <1>3, <2>1, NoBurst DEF RecvBurst
  <2>5. quiet' \in 0..Long
    BY <1>3, Bounds DEF RecvBurst
  <2> QED
    BY <1>3, <2>1, <2>2, <2>3, <2>4, <2>5, EchoAssumption
       DEF RecvBurst, TypeOK, arrivalVars
<1>4. CASE RecvOther
  <2>1. /\ Tail(buffer) \in Seq(Bursts \cup {Other}) /\ Len(buffer) \in Nat
        /\ Len(Tail(buffer)) = Len(buffer) - 1
    BY <1>4, Taken, Holds DEF RecvOther, TypeOK
  <2>2. Len(Tail(buffer)) <= BufferCap
    BY <2>1, Bounds DEF TypeOK
  <2> QED
    BY <1>4, <2>1, <2>2 DEF RecvOther, TypeOK, taskVars, arrivalVars
<1>5. CASE StartSending
  BY <1>5 DEF StartSending, TypeOK, arrivalVars
<1>6. CASE SendBurst
  <2>1. Head(outgoing) \in Bursts /\ Tail(outgoing) \in Seq(Bursts)
    BY <1>6, Taken DEF SendBurst, TypeOK
  <2>2. echoes' \in Seq(Seq(Bursts))
    <3>1. \A e \in DOMAIN echoes : Append(echoes[e], Head(outgoing)) \in Seq(Bursts)
      BY <2>1, Put, Holds DEF TypeOK
    <3>2. Len(echoes) \in Nat /\ echoes \in [1..Len(echoes) -> Seq(Bursts)]
      BY Holds, LenProperties DEF TypeOK
    <3>3. echoes' \in [1..Len(echoes) -> Seq(Bursts)]
      BY <1>6, <3>1, <3>2 DEF SendBurst
    <3> QED
      BY <3>2, <3>3, SeqDef
  <2>3. timer' \in 0..(Delay + Cadence)
    <3>1. timer' \in {0, 1}
      BY <1>6, Zenon DEF SendBurst
    <3> QED
      BY <3>1, Bounds
  <2> QED
    BY <1>6, <2>1, <2>2, <2>3 DEF SendBurst, TypeOK, arrivalVars
<1>7. CASE SendFails
  <2>1. Range(outgoing) \subseteq Bursts
    BY Holds DEF TypeOK
  <2> QED
    BY <1>7, <2>1, Bounds DEF SendFails, TypeOK, arrivalVars
<1> QED
  BY <1>1, <1>2, <1>3, <1>4, <1>5, <1>6, <1>7 DEF Task

\* Every step.
LEMMA TypeNext == TypeOK /\ [Next]_vars => TypeOK'
<1> SUFFICES ASSUME TypeOK, [Next]_vars PROVE TypeOK'
  OBVIOUS
<1>1. CASE Task
  BY <1>1, TypeTask
<1>2. ASSUME NEW s \in Streams, Arrive(s) PROVE TypeOK'
  <2>1. Arriving(s) \in Bursts
    <3>1. heard[s] \in Nat /\ heard[s] + 1 \in 1..MaxBursts
      BY <1>2, Bounds DEF Arrive, TypeOK
    <3> QED
      BY <3>1 DEF Arriving, Bursts, TypeOK
  <2>2. heard' \in [Streams -> 0..MaxBursts] /\ silence' \in [Streams -> 0..Long]
    <3>1. heard[s] + 1 \in 0..MaxBursts /\ 0 \in 0..Long
      BY <1>2, Bounds DEF Arrive, TypeOK
    <3> QED
      BY <1>2, <3>1 DEF Arrive, TypeOK
  <2>3. buffer' \in Seq(Bursts \cup {Other}) /\ Len(buffer') <= BufferCap
    <3>1. Len(buffer) \in Nat
      BY Holds DEF TypeOK
    <3>2. /\ Append(buffer, Arriving(s)) \in Seq(Bursts \cup {Other})
          /\ Len(Append(buffer, Arriving(s))) = Len(buffer) + 1
      BY <2>1, Put DEF TypeOK
    <3>3. CASE buffer' = buffer
      BY <3>3 DEF TypeOK
    <3>4. CASE Len(buffer) < BufferCap /\ buffer' = Append(buffer, Arriving(s))
      BY <3>1, <3>2, <3>4, Bounds
    <3> QED
      BY <1>2, <3>3, <3>4 DEF Arrive
  <2>4. lost' \subseteq Bursts
    BY <1>2, <2>1 DEF Arrive, TypeOK
  <2> QED
    BY <1>2, <2>2, <2>3, <2>4 DEF Arrive, TypeOK, taskVars
<1>3. CASE ArriveOther
  <2>1. Len(buffer) \in Nat
    BY Holds DEF TypeOK
  <2>2. /\ Append(buffer, Other) \in Seq(Bursts \cup {Other})
        /\ Len(Append(buffer, Other)) = Len(buffer) + 1
    BY Put DEF TypeOK
  <2> QED
    BY <1>3, <2>1, <2>2, Bounds DEF ArriveOther, TypeOK, taskVars
<1>4. CASE Tick
  <2>1. timer' \in 0..(Delay + Cadence) /\ tickIn' \in 0..Period
    BY <1>4, Bounds DEF Tick, Earlier, TypeOK, Period, Cadence
  <2>2. quiet' \in 0..Long /\ silence' \in [Streams -> 0..Long]
    BY <1>4, Passing DEF Tick, TypeOK
  <2>3. listened' \in 0..Long
    BY <1>4, Passing DEF Tick, TypeOK
  <2> QED
    BY <1>4, <2>1, <2>2, <2>3 DEF Tick, TypeOK
<1>5. CASE UNCHANGED vars
  BY <1>5 DEF TypeOK, vars, taskVars, arrivalVars
<1>6. CASE RecvFails
  <2>1. lost' \subseteq Bursts
    <3>1. Range(record) \subseteq Bursts /\ Range(buffer) \subseteq Bursts \cup {Other}
      BY Holds DEF TypeOK
    <3> QED
      BY <1>6, <3>1 DEF RecvFails, TypeOK
  <2>2. record' \in Seq(Bursts) /\ buffer' \in Seq(Bursts \cup {Other})
        /\ Len(buffer') <= BufferCap
    BY <1>6, Bounds DEF RecvFails
  <2>3. faults' \in 0..MaxFaults
    BY <1>6, Bounds DEF RecvFails, TypeOK
  <2> QED
    BY <1>6, <2>1, <2>2, <2>3 DEF RecvFails, TypeOK, arrivalVars
<1> QED
  BY <1>1, <1>2, <1>3, <1>4, <1>5, <1>6 DEF Next

\* The initial state.
LEMMA TypeInit == Init => TypeOK
<1> SUFFICES ASSUME Init PROVE TypeOK
  OBVIOUS
<1>1. /\ <<>> \in Seq(Bursts) /\ <<>> \in Seq(Seq(Bursts))
      /\ <<>> \in Seq(Bursts \cup {Other}) /\ Len(<<>>) = 0
  OBVIOUS
<1> QED
  BY <1>1, Bounds, EchoAssumption DEF Init, TypeOK, Period, Cadence

\* Type correctness: in particular a stream is current exactly while a record is
\* kept, the replay is under way exactly while bursts are outgoing, and the
\* socket's buffer stays within its capacity.
THEOREM TypeCorrect == Spec => []TypeOK
BY TypeInit, TypeNext, PTL DEF Spec

-----------------------------------------------------------------------------
(* A silent call is safe.                                                  *)

LEMMA SilenceNext == TypeOK /\ SilenceInv /\ [Next]_vars => SilenceInv'
<1> SUFFICES ASSUME TypeOK, SilenceInv, [Next]_vars PROVE SilenceInv'
  OBVIOUS
<1> USE DEF Period, SilenceInv
<1>1. quiet \in Nat /\ quiet \in 0..Long /\ tickIn \in {0, 1} /\ Idle \in Nat
  BY Bounds DEF TypeOK
<1>2. CASE StartEcho
  BY <1>2 DEF StartEcho
<1>3. CASE NothingEnded
  BY <1>1, <1>3 DEF NothingEnded, CallEnded
<1>4. CASE RecvBurst
  BY <1>1, <1>4 DEF RecvBurst
<1>5. CASE RecvOther
  BY <1>5 DEF RecvOther, taskVars
<1>6. CASE StartSending
  BY <1>6, Zenon DEF StartSending, TypeOK
<1>7. CASE SendBurst
  BY <1>7 DEF SendBurst
<1>8. CASE SendFails
  BY <1>8 DEF SendFails
<1>9. CASE (\E s \in Streams : Arrive(s)) \/ ArriveOther \/ UNCHANGED vars
  BY <1>9 DEF Arrive, ArriveOther, vars, taskVars
<1>10. CASE Tick
  <2>1. phase # "listening" \/ tickIn > 0
    BY <1>10 DEF Tick, Blocked
  <2>2. /\ phase' = phase /\ record' = record /\ quiet' <= quiet + 1 /\ quiet' \in Nat
        /\ tickIn' = IF tickIn = 0 THEN 0 ELSE tickIn - 1
    BY <1>1, <1>10, Passing DEF Tick, Earlier
  <2>3. ASSUME record # <<>> PROVE tickIn' = 0 /\ quiet' <= Idle + 1
    BY <1>1, <2>1, <2>2, <2>3
  <2> QED
    BY <2>2, <2>3
<1>11. CASE RecvFails
  BY <1>11 DEF RecvFails
<1> QED
  BY <1>2, <1>3, <1>4, <1>5, <1>6, <1>7, <1>8, <1>9, <1>10, <1>11 DEF Next, Task

\* The burst that is taken from the buffer.
LEMMA BufferTaken0 ==
    ASSUME TypeOK, buffer # <<>>
    PROVE  /\ Received = buffer[1] /\ 1 \in DOMAIN buffer
           /\ Received \in Bursts \cup {Other}
           /\ Received # Other => Received \in Buffered /\ Received \in Bursts
           /\ \A i \in DOMAIN Tail(buffer) : /\ i \in Nat \ {0} /\ i + 1 \in DOMAIN buffer
                                              /\ Tail(buffer)[i] = buffer[i + 1]
BY Taken DEF TypeOK, Received, Buffered

\* A burst is taken from the buffer: what came after it heard its stream.
LEMMA FreshRecv ==
    ASSUME TypeOK, FreshInv, RecvBurst PROVE FreshInv'
<1>1. /\ phase = "listening" /\ phase' = phase /\ listened' = listened
      /\ silence' = silence /\ quiet' = 0 /\ current' = Received.stream
      /\ buffer # <<>> /\ buffer' = Tail(buffer) /\ Received # Other
      /\ listened \in Nat
  BY Bounds DEF RecvBurst, arrivalVars, TypeOK
<1>2. /\ Received = buffer[1] /\ 1 \in DOMAIN buffer
      /\ \A i \in DOMAIN buffer' : /\ i \in Nat \ {0} /\ i + 1 \in DOMAIN buffer
                                    /\ buffer'[i] = buffer[i + 1]
  BY <1>1, BufferTaken0
<1>3. ASSUME listened > 0
      PROVE  /\ silence[Received.stream] = 0
             /\ \A i \in DOMAIN buffer' : buffer'[i] # Other =>
                  buffer'[i].gap[Received.stream] = 0
  <2>1. silence[Received.stream] = 0
    BY <1>1, <1>2, <1>3 DEF FreshInv
  <2>2. ASSUME NEW i \in DOMAIN buffer', buffer'[i] # Other
        PROVE  buffer'[i].gap[Received.stream] = 0
    <3>1. i + 1 \in DOMAIN buffer /\ 1 < i + 1 /\ buffer'[i] = buffer[i + 1]
      BY <1>2
    <3> QED
      BY <1>1, <1>2, <1>3, <2>2, <3>1 DEF FreshInv
  <2> QED
    BY <2>1, <2>2
<1>4. ASSUME listened > 0, NEW b \in Buffered' PROVE b.gap[Received.stream] = 0
  <2>1. PICK i \in DOMAIN buffer' : buffer'[i] = b /\ b # Other
    BY DEF Buffered, Range
  <2> QED
    BY <1>3, <1>4, <2>1
<1>5. ASSUME listened > 0, NEW i \in DOMAIN buffer', buffer'[i] # Other
      PROVE  /\ silence[buffer'[i].stream] = 0
             /\ \A j \in DOMAIN buffer' : i < j /\ buffer'[j] # Other =>
                  buffer'[j].gap[buffer'[i].stream] = 0
  <2>1. i + 1 \in DOMAIN buffer /\ i \in Nat /\ buffer'[i] = buffer[i + 1]
    BY <1>2
  <2>2. silence[buffer'[i].stream] = 0
    BY <1>1, <1>5, <2>1 DEF FreshInv
  <2>3. ASSUME NEW j \in DOMAIN buffer', i < j, buffer'[j] # Other
        PROVE  buffer'[j].gap[buffer'[i].stream] = 0
    <3>1. j + 1 \in DOMAIN buffer /\ i + 1 < j + 1 /\ buffer'[j] = buffer[j + 1]
      BY <1>2, <2>1, <2>3
    <3> QED
      BY <1>1, <1>5, <2>1, <2>3, <3>1 DEF FreshInv
  <2> QED
    BY <2>2, <2>3
<1>6. phase' = "listening" /\ record' # <<>> /\ listened' > quiet' =>
        /\ silence'[current'] <= quiet'
        /\ \A b \in Buffered' : b.gap[current'] <= quiet'
  BY <1>1, <1>3, <1>4
<1>7. phase' = "listening" /\ listened' > 0 =>
        \A i \in DOMAIN buffer' : buffer'[i] # Other =>
          /\ silence'[buffer'[i].stream] = 0
          /\ \A j \in DOMAIN buffer' : i < j /\ buffer'[j] # Other =>
               buffer'[j].gap[buffer'[i].stream] = 0
  BY <1>1, <1>5
<1>8. phase' \in {"waiting", "replaying"} => listened' = 0
  BY <1>1
<1> QED
  BY <1>6, <1>7, <1>8, Zenon DEF FreshInv

\* A burst arrives after as long a silence of the current stream as is known, and
\* of each stream that waits it heard the last.
LEMMA FreshArrive ==
    ASSUME TypeOK, FreshInv, NEW s \in Streams, Arrive(s) PROVE FreshInv'
<1>1. /\ UNCHANGED <<phase, listened, quiet, record, current>>
      /\ silence' = [silence EXCEPT ![s] = 0]
      /\ quiet \in Nat /\ listened \in Nat
      /\ \A t \in Streams : silence'[t] \in {0, silence[t]}
      /\ silence'[s] = 0
      /\ record # <<>> => current \in Streams
  BY Bounds DEF Arrive, taskVars, TypeOK
<1>2. PICK m : m = Arriving(s)
  OBVIOUS
<1>3. m.stream = s /\ m.gap = silence /\ m \in Bursts
  <2>1. heard[s] + 1 \in 1..MaxBursts
    BY Bounds DEF Arrive, TypeOK
  <2> QED
    BY <1>2, <2>1 DEF Arriving, Bursts, TypeOK
<1>4. buffer' = buffer \/ buffer' = Append(buffer, m)
  BY <1>2 DEF Arrive
<1>5. /\ \A i \in DOMAIN buffer' :
           \/ i \in DOMAIN buffer /\ buffer'[i] = buffer[i]
           \/ i = Len(buffer) + 1 /\ buffer'[i] = m
      /\ Range(buffer') \subseteq Range(buffer) \cup {m}
      /\ \A i \in DOMAIN buffer : i <= Len(buffer) /\ i \in Nat
      /\ Len(buffer) \in Nat
      /\ \A i \in DOMAIN buffer : buffer[i] # Other => buffer[i].stream \in Streams
  <2>1. buffer \in Seq(Bursts \cup {Other}) /\ m \in Bursts \cup {Other}
    BY <1>3 DEF TypeOK
  <2>2. /\ DOMAIN buffer = 1..Len(buffer) /\ Len(buffer) \in Nat
        /\ \A i \in DOMAIN buffer : buffer[i] \in Bursts \cup {Other}
    BY <2>1, Holds
  <2>3. \A i \in DOMAIN buffer : buffer[i] # Other => buffer[i].stream \in Streams
    BY <2>2, NoBurst
  <2>4. /\ \A i \in DOMAIN Append(buffer, m) :
             \/ i \in DOMAIN buffer /\ Append(buffer, m)[i] = buffer[i]
             \/ i = Len(buffer) + 1 /\ Append(buffer, m)[i] = m
        /\ Range(Append(buffer, m)) = Range(buffer) \cup {m}
    BY <2>1, Put
  <2>5. \A i \in DOMAIN buffer : i <= Len(buffer) /\ i \in Nat
    BY <2>2
  <2> QED
    BY <1>4, <2>2, <2>3, <2>4, <2>5
<1>6. ASSUME phase = "listening", record # <<>>, listened > quiet
      PROVE  /\ silence'[current] <= quiet
             /\ \A b \in Buffered' : b.gap[current] <= quiet
  <2>1. /\ silence[current] <= quiet
        /\ \A b \in Buffered : b.gap[current] <= quiet
    BY <1>6 DEF FreshInv
  <2>2. Buffered' \subseteq Buffered \cup {m}
    BY <1>5 DEF Buffered
  <2>3. silence'[current] \in {0, silence[current]}
    BY <1>1, <1>6
  <2> QED
    BY <1>1, <1>3, <2>1, <2>2, <2>3
<1>7. ASSUME phase = "listening", listened > 0, NEW i \in DOMAIN buffer',
             buffer'[i] # Other
      PROVE  /\ silence'[buffer'[i].stream] = 0
             /\ \A j \in DOMAIN buffer' : i < j /\ buffer'[j] # Other =>
                  buffer'[j].gap[buffer'[i].stream] = 0
  <2>1. CASE i = Len(buffer) + 1 /\ buffer'[i] = m
    <3>1. ~\E j \in DOMAIN buffer' : i < j
      BY <1>5, <2>1
    <3> QED
      BY <1>1, <1>3, <2>1, <3>1
  <2>2. CASE i \in DOMAIN buffer /\ buffer'[i] = buffer[i]
    <3>1. /\ silence[buffer[i].stream] = 0 /\ buffer[i].stream \in Streams
          /\ \A j \in DOMAIN buffer : i < j /\ buffer[j] # Other =>
               buffer[j].gap[buffer[i].stream] = 0
      BY <1>5, <1>7, <2>2 DEF FreshInv
    <3>2. silence'[buffer[i].stream] = 0
      BY <1>1, <3>1
    <3>3. m.gap[buffer[i].stream] = 0
      BY <1>3, <3>1
    <3> QED
      BY <1>5, <2>2, <3>1, <3>2, <3>3
  <2> QED
    BY <1>5, <2>1, <2>2
<1>8. phase' = "listening" /\ record' # <<>> /\ listened' > quiet' =>
        /\ silence'[current'] <= quiet'
        /\ \A b \in Buffered' : b.gap[current'] <= quiet'
  BY <1>1, <1>6
<1>9. phase' = "listening" /\ listened' > 0 =>
        \A i \in DOMAIN buffer' : buffer'[i] # Other =>
          /\ silence'[buffer'[i].stream] = 0
          /\ \A j \in DOMAIN buffer' : i < j /\ buffer'[j] # Other =>
               buffer'[j].gap[buffer'[i].stream] = 0
  BY <1>1, <1>7
<1>10. phase' \in {"waiting", "replaying"} => listened' = 0
  BY <1>1 DEF FreshInv
<1> QED
  BY <1>8, <1>9, <1>10, Zenon DEF FreshInv

\* Other datagrams come and go.
LEMMA FreshOther ==
    ASSUME TypeOK, FreshInv, RecvOther \/ ArriveOther PROVE FreshInv'
<1>1. UNCHANGED <<phase, listened, quiet, record, current, silence>>
  BY DEF RecvOther, ArriveOther, taskVars, arrivalVars
<1>2. /\ Buffered' \subseteq Buffered
      /\ \A i, j \in DOMAIN buffer' :
           buffer'[i] # Other /\ buffer'[j] # Other /\ i < j =>
             \E k, l \in DOMAIN buffer :
               k < l /\ buffer[k] = buffer'[i] /\ buffer[l] = buffer'[j]
      /\ \A i \in DOMAIN buffer' : buffer'[i] # Other =>
           \E k \in DOMAIN buffer : buffer[k] = buffer'[i]
  <2>1. CASE RecvOther
    <3>1. /\ buffer' = Tail(buffer) /\ buffer # <<>>
          /\ \A i \in DOMAIN buffer' : /\ i \in Nat \ {0} /\ i + 1 \in DOMAIN buffer
                                        /\ buffer'[i] = buffer[i + 1]
      BY <2>1, BufferTaken0 DEF RecvOther
    <3>2. \A i, j \in DOMAIN buffer' : i < j => i + 1 < j + 1
      BY <3>1
    <3>3. Range(buffer') \subseteq Range(buffer)
      BY <3>1 DEF Range
    <3> QED
      BY <3>1, <3>2, <3>3 DEF Buffered
  <2>2. CASE ArriveOther
    <3>1. buffer \in Seq(Bursts \cup {Other}) /\ Other \in Bursts \cup {Other}
      BY DEF TypeOK
    <3>2. /\ \A i \in DOMAIN buffer' :
                 (i \in DOMAIN buffer /\ buffer'[i] = buffer[i]) \/ buffer'[i] = Other
          /\ Range(buffer') = Range(buffer) \cup {Other}
      BY <2>2, <3>1, Put DEF ArriveOther
    <3> QED
      BY <3>2 DEF Buffered
  <2> QED
    BY <2>1, <2>2
<1>3. phase' = "listening" /\ record' # <<>> /\ listened' > quiet' =>
        /\ silence'[current'] <= quiet'
        /\ \A b \in Buffered' : b.gap[current'] <= quiet'
  BY <1>1, <1>2 DEF FreshInv
<1>4. ASSUME phase = "listening", listened > 0, NEW i \in DOMAIN buffer',
             buffer'[i] # Other
      PROVE  /\ silence[buffer'[i].stream] = 0
             /\ \A j \in DOMAIN buffer' : i < j /\ buffer'[j] # Other =>
                  buffer'[j].gap[buffer'[i].stream] = 0
  <2>1. silence[buffer'[i].stream] = 0
    <3>1. PICK k \in DOMAIN buffer : buffer[k] = buffer'[i]
      BY <1>2, <1>4
    <3> QED
      BY <1>4, <3>1 DEF FreshInv
  <2>2. ASSUME NEW j \in DOMAIN buffer', i < j, buffer'[j] # Other
        PROVE  buffer'[j].gap[buffer'[i].stream] = 0
    <3>1. PICK k \in DOMAIN buffer, l \in DOMAIN buffer :
            k < l /\ buffer[k] = buffer'[i] /\ buffer[l] = buffer'[j]
      BY <1>2, <1>4, <2>2
    <3> QED
      BY <1>4, <2>2, <3>1 DEF FreshInv
  <2> QED
    BY <2>1, <2>2
<1>5. phase' = "listening" /\ listened' > 0 =>
        \A i \in DOMAIN buffer' : buffer'[i] # Other =>
          /\ silence'[buffer'[i].stream] = 0
          /\ \A j \in DOMAIN buffer' : i < j /\ buffer'[j] # Other =>
               buffer'[j].gap[buffer'[i].stream] = 0
  BY <1>1, <1>4
<1>6. phase' \in {"waiting", "replaying"} => listened' = 0
  BY <1>1 DEF FreshInv
<1> QED
  BY <1>3, <1>5, <1>6, Zenon DEF FreshInv

\* Time passes only when nothing waits.
LEMMA FreshTick == ASSUME TypeOK, FreshInv, Tick PROVE FreshInv'
<1>1. CASE phase # "listening"
  BY <1>1 DEF Tick, FreshInv
<1>2. CASE phase = "listening"
  <2>1. /\ phase' = phase /\ buffer = <<>> /\ buffer' = <<>>
        /\ UNCHANGED <<record, current>>
        /\ quiet' = Later(quiet) /\ listened' = Later(listened)
        /\ quiet \in 0..Long /\ listened \in 0..Long
        /\ record # <<>> => current \in Streams
    BY <1>2 DEF Tick, Blocked, TypeOK
  <2>2. Buffered' = {} /\ DOMAIN buffer' = {}
    BY <2>1, Empty DEF Buffered
  <2>3. ASSUME record # <<>>, listened' > quiet'
        PROVE  silence'[current] <= quiet'
    <3>1. silence'[current] = Later(silence[current]) /\ silence[current] \in 0..Long
      BY <2>1, <2>3 DEF Tick, TypeOK
    <3>2. ~(listened <= quiet)
      BY <2>1, <2>3, Passing, Bounds
    <3>3. silence[current] <= quiet
      <4>1. listened > quiet
        BY <2>1, <3>2, Bounds
      <4> QED
        BY <1>2, <2>3, <4>1 DEF FreshInv
    <3> QED
      BY <2>1, <3>1, <3>3, Passing
  <2> QED
    BY <1>2, <2>1, <2>2, <2>3 DEF FreshInv
<1> QED
  BY <1>1, <1>2

\* Every step.
LEMMA FreshNext == TypeOK /\ SilenceInv /\ FreshInv /\ [Next]_vars => FreshInv'
<1> SUFFICES ASSUME TypeOK, SilenceInv, FreshInv, [Next]_vars PROVE FreshInv'
  OBVIOUS
<1>1. CASE StartEcho
  BY <1>1 DEF StartEcho, FreshInv
<1>2. CASE NothingEnded
  BY <1>2 DEF NothingEnded, FreshInv, Buffered, arrivalVars
<1>3. CASE RecvBurst
  BY <1>3, FreshRecv
<1>4. CASE RecvOther \/ ArriveOther
  BY <1>4, FreshOther
<1>5. CASE StartSending
  BY <1>5 DEF StartSending, FreshInv
<1>6. CASE SendBurst \/ SendFails
  <2>1. /\ phase = "replaying" /\ UNCHANGED <<record, listened>> /\ record = <<>>
    BY <1>6 DEF SendBurst, SendFails, SilenceInv
  <2> QED
    BY <2>1 DEF FreshInv
<1>7. CASE RecvFails
  BY <1>7 DEF RecvFails, FreshInv
<1>8. ASSUME NEW s \in Streams, Arrive(s) PROVE FreshInv'
  BY <1>8, FreshArrive
<1>9. CASE Tick
  BY <1>9, FreshTick
<1>10. CASE UNCHANGED vars
  BY <1>10 DEF FreshInv, Buffered, vars, taskVars, arrivalVars
<1> QED
  BY <1>1, <1>2, <1>3, <1>4, <1>5, <1>6, <1>7, <1>8, <1>9, <1>10 DEF Next, Task

\* What is dropped for another call had not been silent for long.
LEMMA SafeNext ==
    TypeOK /\ SilenceInv /\ FreshInv /\ SilentCallIsSafe /\ [Next]_vars
      => SilentCallIsSafe'
<1> SUFFICES ASSUME TypeOK, SilenceInv, FreshInv, SilentCallIsSafe, [Next]_vars
             PROVE  SilentCallIsSafe'
  OBVIOUS
<1>1. CASE RecvBurst
  <2>1. ASSUME NEW d \in Dropped(Received)
        PROVE  d.silent <= Idle + Period \/ d.listened <= Idle + Period
    <3>1. /\ d.silent = Received.gap[current] /\ d.listened = listened
          /\ record # <<>> /\ current \in Streams
      BY <2>1 DEF Dropped, Range, TypeOK
    <3>2. quiet \in Nat /\ quiet <= Idle + Period /\ Idle + Period \in Nat
      BY <3>1, Bounds DEF SilenceInv, TypeOK, Period
    <3>3. /\ phase = "listening" /\ Received \in Buffered /\ listened \in Nat
          /\ Received \in Bursts
      BY <1>1, BufferTaken0, Bounds DEF RecvBurst, TypeOK
    <3>4. Received.gap[current] \in Nat
      BY <3>1, <3>3, Bounds DEF Bursts
    <3>5. listened <= quiet \/ Received.gap[current] <= quiet
      BY <3>1, <3>2, <3>3 DEF FreshInv
    <3> QED
      BY ONLY <3>1, <3>2, <3>3, <3>4, <3>5
  <2> QED
    BY <1>1, <2>1 DEF RecvBurst, SilentCallIsSafe
<1>2. CASE UNCHANGED discarded
  BY <1>2 DEF SilentCallIsSafe
<1> QED
  BY <1>1, <1>2 DEF Next, Task, StartEcho, NothingEnded, RecvOther, StartSending,
     SendBurst, SendFails, RecvFails, Arrive, ArriveOther, Tick, vars

\* While the parrot listens, a call whose stream has been silent for the idle
\* window and a period of idle_tick is replayed: a burst of another stream that
\* arrives after as long a silence does not drop it.  The silence is that between
\* the arrivals; what came during a replay is the exception, for as long a time
\* after it.
THEOREM SilentCalls == Spec => []SilentCallIsSafe
<1>1. Init => SilenceInv /\ FreshInv /\ SilentCallIsSafe
  BY Empty DEF Init, SilenceInv, FreshInv, SilentCallIsSafe
<1> QED
  BY <1>1, TypeInit, TypeNext, SilenceNext, FreshNext, SafeNext, PTL DEF Spec

-----------------------------------------------------------------------------
(* What waits is in order and complete.                                    *)

\* Bursts are numbered by naturals.
LEMMA Numbered ==
    ASSUME TypeOK
    PROVE  /\ Range(record) \subseteq Bursts /\ Range(outgoing) \subseteq Bursts
           /\ Buffered \subseteq Bursts /\ Waiting \subseteq Bursts
           /\ \A s \in Streams : heard[s] \in Nat /\ silence[s] \in 0..Long
           /\ \A b \in Bursts : b.n \in Nat /\ b.stream \in Streams
<1>1. /\ Range(record) \subseteq Bursts /\ Range(outgoing) \subseteq Bursts
      /\ Range(buffer) \subseteq Bursts \cup {Other}
  BY Holds DEF TypeOK
<1>2. \A s \in Streams : heard[s] \in Nat /\ silence[s] \in 0..Long
  BY Bounds DEF TypeOK
<1> QED
  BY <1>1, <1>2, NoBurst DEF Buffered, Waiting

\* Nothing that waits changes; more may be lost.
LEMMA QueueSame ==
    ASSUME QueueInv, UNCHANGED <<record, current, buffer, heard>>, lost \subseteq lost'
    PROVE  QueueInv'
<1>1. \A s, n : Lost(s, n) => Lost(s, n)'
  BY DEF Lost
<1>2. Waiting' = Waiting /\ Buffered' = Buffered
  BY DEF Waiting, Buffered
<1> QED
  BY <1>1, <1>2 DEF QueueInv, Sorted

\* What waits no more came before all that still waits.
LEMMA QueueTaken ==
    ASSUME TypeOK, QueueInv, UNCHANGED <<heard, lost>>,
           Waiting' \subseteq Waiting,
           \A y \in Waiting \ Waiting' : \A x \in Waiting' :
             y.stream = x.stream => y.n < x.n
    PROVE  /\ \A b \in Waiting' : b.n <= heard'[b.stream]
           /\ \A b \in Waiting' : \A n \in (b.n + 1)..heard'[b.stream] :
                \/ \E y \in Waiting' : y.stream = b.stream /\ y.n = n
                \/ Lost(b.stream, n)'
<1>1. SUFFICES ASSUME NEW b \in Waiting', NEW n \in (b.n + 1)..heard[b.stream]
               PROVE  \/ \E y \in Waiting' : y.stream = b.stream /\ y.n = n
                      \/ Lost(b.stream, n)'
  BY DEF QueueInv
<1>2. b \in Waiting /\ b.n \in Nat /\ heard[b.stream] \in Nat
  BY Numbered
<1>3. CASE Lost(b.stream, n)
  BY <1>3 DEF Lost
<1>4. CASE \E y \in Waiting : y.stream = b.stream /\ y.n = n
  <2>1. PICK y \in Waiting : y.stream = b.stream /\ y.n = n
    BY <1>4
  <2>2. ~(n < b.n)
    BY <1>2
  <2> QED
    BY <2>1, <2>2
<1> QED
  BY <1>2, <1>3, <1>4 DEF QueueInv

\* What is left of the buffer is in order, after what was taken.
LEMMA BufferTaken ==
    ASSUME TypeOK, QueueInv, buffer # <<>>, buffer' = Tail(buffer)
    PROVE  /\ Sorted(buffer')
           /\ Received \in Bursts \cup {Other}
           /\ Range(buffer) = {Received} \cup Range(buffer')
           /\ Received # Other => \A b \in Buffered' :
                Received.stream = b.stream => Received.n < b.n
<1>1. /\ Received = buffer[1] /\ 1 \in DOMAIN buffer
      /\ Received \in Bursts \cup {Other}
      /\ Range(buffer) = {Received} \cup Range(buffer')
      /\ \A i \in DOMAIN Tail(buffer) : /\ i \in Nat \ {0} /\ i + 1 \in DOMAIN buffer
                                         /\ Tail(buffer)[i] = buffer[i + 1]
  BY Taken DEF TypeOK, Received
<1>2. Sorted(buffer')
  BY <1>1 DEF QueueInv, Sorted
<1>3. ASSUME Received # Other, NEW b \in Buffered', Received.stream = b.stream
      PROVE  Received.n < b.n
  <2>1. PICK i \in DOMAIN Tail(buffer) : Tail(buffer)[i] = b
    BY DEF Buffered, Range
  <2>2. buffer[i + 1] = b /\ b # Other /\ i + 1 \in DOMAIN buffer /\ 1 < i + 1
    BY <1>1, <2>1 DEF Buffered
  <2> QED
    BY <1>1, <1>3, <2>2 DEF QueueInv, Sorted
<1> QED
  BY <1>1, <1>2, <1>3

\* A record that starts with a burst, or takes one more.
LEMMA Recording ==
    ASSUME TypeOK, QueueInv, RecvBurst
    PROVE  /\ Received \in Bursts /\ Received \in Buffered
           /\ Sorted(record')
           /\ \A r \in Range(record') : r.stream = current'
           /\ \/ Range(record') = Range(record) \cup {Received}
              \/ Range(record') = {Received}
           /\ Waiting' \subseteq Waiting
           /\ Waiting \ Waiting' \subseteq Range(record)
<1>1. /\ Received \in Bursts /\ Received \in Buffered
      /\ Range(buffer) = {Received} \cup Range(buffer')
  BY BufferTaken DEF RecvBurst, Buffered
<1>2. CASE record' = Append(record, Received) /\ current \in {NoStream, Received.stream}
  <2>1. /\ \A i \in DOMAIN record' :
             \/ i \in DOMAIN record /\ record'[i] = record[i]
             \/ i = Len(record) + 1 /\ record'[i] = Received
        /\ Range(record') = Range(record) \cup {Received}
    BY <1>1, <1>2, Put DEF TypeOK
  <2>2. \A r \in Range(record) : r.stream = Received.stream /\ r.n < Received.n
    BY <1>1, <1>2, Numbered, EchoAssumption DEF QueueInv
  <2>3. Sorted(record')
    <3>1. \A i \in DOMAIN record : record[i] \in Range(record) /\ i \in 1..Len(record)
      BY Holds DEF TypeOK
    <3>2. Len(record) \in Nat
      BY Holds DEF TypeOK
    <3> QED
      BY <2>1, <2>2, <3>1, <3>2 DEF QueueInv, Sorted
  <2>4. current' = Received.stream
    BY DEF RecvBurst
  <2> QED
    BY <1>1, <2>1, <2>2, <2>3, <2>4 DEF Waiting, Buffered
<1>3. CASE record' = <<Received>>
  <2>1. DOMAIN record' = {1} /\ record'[1] = Received
    BY <1>3
  <2>2. Range(record') = {Received} /\ Sorted(record')
    BY <2>1 DEF Range, Sorted
  <2>3. current' = Received.stream
    BY DEF RecvBurst
  <2> QED
    BY <1>1, <2>2, <2>3 DEF Waiting, Buffered
<1> QED
  BY <1>2, <1>3 DEF RecvBurst, Recorded

\* A burst arrives.
LEMMA QueueArrive ==
    ASSUME TypeOK, QueueInv, NEW s \in Streams, Arrive(s) PROVE QueueInv'
<1> DEFINE m == Arriving(s)
<1>1. m.stream = s /\ m.n = heard[s] + 1 /\ m \in Bursts
  <2>1. heard[s] \in Nat /\ heard[s] + 1 \in 1..MaxBursts
    BY Bounds DEF Arrive, TypeOK
  <2> QED
    BY <2>1 DEF Arriving, Bursts, TypeOK
<1> HIDE DEF m
<1>2. PICK k \in Nat : k = heard[s] + 1
  BY Bounds DEF TypeOK
<1>3. /\ record' = record /\ current' = current /\ lost \subseteq lost'
      /\ \A t \in Streams : heard'[t] = IF t = s THEN heard[s] + 1 ELSE heard[t]
  BY DEF Arrive, taskVars, TypeOK
<1>4. \A t, n : Lost(t, n) => Lost(t, n)'
  BY <1>3 DEF Lost
<1>5. /\ Sorted(buffer')
      /\ \/ Waiting' = Waiting \cup {m} /\ Buffered' = Buffered \cup {m}
         \/ Waiting' = Waiting /\ Buffered' = Buffered /\ Lost(s, k)'
  <2>1. CASE buffer' = Append(buffer, m)
    <3>1. m \in Bursts \cup {Other} /\ m # Other
      BY <1>1, NoBurst
    <3>2. /\ \A i \in DOMAIN buffer' :
               \/ i \in DOMAIN buffer /\ buffer'[i] = buffer[i]
               \/ i = Len(buffer) + 1 /\ buffer'[i] = m
          /\ Range(buffer') = Range(buffer) \cup {m}
      <4>1. buffer \in Seq(Bursts \cup {Other}) /\ m \in Bursts \cup {Other}
        BY <3>1 DEF TypeOK
      <4> QED
        BY <2>1, <4>1, Put
    <3>3. Buffered' = Buffered \cup {m} /\ Waiting' = Waiting \cup {m}
      BY <1>3, <3>1, <3>2 DEF Buffered, Waiting
    <3>4. /\ Len(buffer) \in Nat
          /\ \A i \in DOMAIN buffer : /\ buffer[i] \in Range(buffer)
                                      /\ i \in 1..Len(buffer)
      BY Holds DEF TypeOK
    <3>5. \A b \in Buffered : b.stream = s => b.n < m.n
      BY <1>1, Numbered DEF QueueInv, Waiting
    <3>6. Sorted(buffer')
      BY <1>1, <3>2, <3>4, <3>5 DEF QueueInv, Sorted, Buffered
    <3> QED
      BY <3>3, <3>6
  <2>2. CASE buffer' = buffer /\ lost' = lost \cup {m}
    <3>1. Buffered' = Buffered /\ Waiting' = Waiting /\ Sorted(buffer')
      BY <1>3, <2>2 DEF Buffered, Waiting, QueueInv, Sorted
    <3>2. Lost(s, k)'
      BY <1>2, <1>1, <2>2 DEF Lost
    <3> QED
      BY <3>1, <3>2
  <2> QED
    BY <2>1, <2>2 DEF Arrive, m
<1>6. \A b \in Waiting' : b.n <= heard'[b.stream]
  <2>1. \A b \in Waiting : b.n <= heard'[b.stream]
    <3>1. \A b \in Waiting : /\ b.stream \in Streams /\ b.n \in Nat
                             /\ heard[b.stream] \in Nat /\ b.n <= heard[b.stream]
      BY Numbered DEF QueueInv
    <3>2. \A t \in Streams : heard[t] \in Nat => heard[t] <= heard'[t] /\ heard'[t] \in Nat
      BY <1>3
    <3> QED
      BY <3>1, <3>2
  <2>2. m.n <= heard'[m.stream]
    BY <1>2, <1>1, <1>3
  <2> QED
    BY <1>5, <2>1, <2>2
<1>7. ASSUME NEW b \in Waiting', NEW n \in (b.n + 1)..heard'[b.stream]
      PROVE  \/ \E y \in Waiting' : y.stream = b.stream /\ y.n = n
             \/ Lost(b.stream, n)'
  <2>1. CASE b \in Waiting /\ n \in (b.n + 1)..heard[b.stream]
    <3>1. \/ \E y \in Waiting : y.stream = b.stream /\ y.n = n
          \/ Lost(b.stream, n)
      BY <2>1 DEF QueueInv
    <3> QED
      BY <1>4, <1>5, <3>1
  <2>2. CASE b.stream = s /\ n = heard[s] + 1
    BY <1>2, <1>1, <1>5, <2>2
  <2>3. b \in Bursts /\ b.n \in Nat /\ heard[b.stream] \in Nat /\ b.stream \in Streams
    BY <1>1, <1>5, Numbered
  <2>4. b \in Waiting \/ (b = m /\ b.stream = s /\ b.n = heard[s] + 1)
    BY <1>1, <1>5
  <2>5. n \in (b.n + 1)..heard[b.stream] \/ (b.stream = s /\ n = heard[s] + 1)
    BY <1>3, <2>3
  <2> QED
    BY <2>1, <2>2, <2>3, <2>4, <2>5
<1>8. \A r \in Range(record'), b \in Buffered' : r.stream = b.stream => r.n < b.n
  <2>1. \A r \in Range(record) : r.stream = s => r.n < m.n
    BY <1>1, Numbered DEF QueueInv, Waiting
  <2> QED
    BY <1>1, <1>3, <1>5, <2>1 DEF QueueInv
<1> QED
  BY <1>3, <1>5, <1>6, <1>7, <1>8 DEF QueueInv, Sorted

\* Every step.
LEMMA QueueNext == TypeOK /\ QueueInv /\ [Next]_vars => QueueInv'
<1> SUFFICES ASSUME TypeOK, QueueInv, [Next]_vars PROVE QueueInv'
  OBVIOUS
<1>1. CASE StartEcho
  <2>1. Range(record') = {} /\ Buffered' = Buffered /\ Waiting' = Buffered
        /\ Sorted(record')
    BY <1>1, Empty DEF StartEcho, Buffered, Waiting, Sorted
  <2>2. \A y \in Waiting \ Waiting' : y \in Range(record)
    BY <2>1 DEF Waiting
  <2>3. Waiting' \subseteq Waiting /\ Sorted(buffer') /\ UNCHANGED <<heard, lost>>
    BY <1>1, <2>1 DEF StartEcho, Waiting, arrivalVars, QueueInv, Sorted
  <2>4. \A y \in Waiting \ Waiting' : \A x \in Waiting' :
          y.stream = x.stream => y.n < x.n
    BY <2>1, <2>2 DEF QueueInv
  <2> QED
    BY <2>1, <2>3, <2>4, QueueTaken DEF QueueInv
<1>2. CASE RecvBurst
  <2>1. UNCHANGED <<heard, lost>> /\ buffer # <<>> /\ buffer' = Tail(buffer)
    BY <1>2 DEF RecvBurst, arrivalVars
  <2>2. /\ Sorted(buffer') /\ Range(buffer) = {Received} \cup Range(buffer')
        /\ \A b \in Buffered' : Received.stream = b.stream => Received.n < b.n
    BY <1>2, <2>1, BufferTaken DEF RecvBurst
  <2>3. Buffered' \subseteq Buffered
    BY <2>2 DEF Buffered
  <2>4. \A r \in Range(record'), b \in Buffered' : r.stream = b.stream => r.n < b.n
    BY <1>2, <2>2, <2>3, Recording DEF QueueInv
  <2>5. \A y \in Waiting \ Waiting' : \A x \in Waiting' :
          y.stream = x.stream => y.n < x.n
    <3>1. CASE Range(record') = Range(record) \cup {Received}
      BY <1>2, <3>1, Recording DEF Waiting
    <3>2. CASE Range(record') = {Received}
      BY <1>2, <2>3, <3>2, Recording DEF Waiting, QueueInv
    <3> QED
      BY <1>2, <3>1, <3>2, Recording
  <2> QED
    BY <1>2, <2>1, <2>2, <2>4, <2>5, Recording, QueueTaken DEF QueueInv
<1>3. CASE RecvOther
  <2>1. UNCHANGED <<record, current, heard, lost>>
        /\ buffer # <<>> /\ buffer' = Tail(buffer) /\ Received = Other
    BY <1>3 DEF RecvOther, arrivalVars, taskVars
  <2>2. Sorted(buffer') /\ Range(buffer) = {Received} \cup Range(buffer')
    BY <2>1, BufferTaken
  <2>3. Buffered' = Buffered /\ Waiting' = Waiting
    BY <2>1, <2>2 DEF Buffered, Waiting
  <2> QED
    BY <2>1, <2>2, <2>3, QueueTaken DEF QueueInv, Sorted
<1>4. ASSUME NEW s \in Streams, Arrive(s) PROVE QueueInv'
  BY <1>4, QueueArrive
<1>5. CASE ArriveOther
  <2>1. UNCHANGED <<record, current, heard, lost>> /\ buffer' = Append(buffer, Other)
    BY <1>5 DEF ArriveOther, taskVars
  <2>2. /\ \A i \in DOMAIN buffer' :
             (i \in DOMAIN buffer /\ buffer'[i] = buffer[i]) \/ buffer'[i] = Other
        /\ Range(buffer') = Range(buffer) \cup {Other}
    <3>1. buffer \in Seq(Bursts \cup {Other}) /\ Other \in Bursts \cup {Other}
      BY DEF TypeOK
    <3> QED
      BY <2>1, <3>1, Put
  <2>3. Sorted(buffer')
    BY <2>2 DEF QueueInv, Sorted
  <2>4. Buffered' = Buffered /\ Waiting' = Waiting
    BY <2>1, <2>2 DEF Buffered, Waiting
  <2> QED
    BY <2>1, <2>3, <2>4, QueueTaken DEF QueueInv, Sorted
<1>6. CASE NothingEnded \/ StartSending \/ SendBurst \/ SendFails \/ Tick \/ UNCHANGED vars
  <2>1. UNCHANGED <<record, current, buffer, heard>> /\ lost \subseteq lost'
    BY <1>6 DEF NothingEnded, StartSending, SendBurst, SendFails, Tick, vars, taskVars,
                arrivalVars
  <2> QED
    BY <2>1, QueueSame
<1>7. CASE RecvFails
  <2>1. Range(record') = {} /\ DOMAIN record' = {} /\ Buffered' = {} /\ DOMAIN buffer' = {}
    BY <1>7, Empty DEF RecvFails, Buffered
  <2> QED
    BY <2>1 DEF QueueInv, Sorted, Waiting
<1> QED
  BY <1>1, <1>2, <1>3, <1>4, <1>5, <1>6, <1>7 DEF Next, Task

\* What waits is in order, and of each stream nothing is missing but what was
\* lost.
LEMMA QueueKept == Spec => [](TypeOK /\ QueueInv)
<1>1. Init => QueueInv
  BY Empty DEF Init, QueueInv, Sorted, Waiting, Buffered
<1> QED
  BY <1>1, TypeInit, TypeNext, QueueNext, PTL DEF Spec

-----------------------------------------------------------------------------
(* A replay is one call.                                                   *)

\* The next burst goes from what is outgoing to what was sent.
LEMMA HeadMoves ==
    ASSUME NEW S, NEW a \in Seq(S), NEW q \in Seq(S), q # <<>>
    PROVE  Append(a, Head(q)) \o Tail(q) = a \o q
<1>1. /\ Len(a) \in Nat /\ Len(q) \in Nat \ {0} /\ Head(q) = q[1] /\ Head(q) \in S
      /\ Tail(q) \in Seq(S) /\ Len(Tail(q)) = Len(q) - 1
      /\ \A i \in 1..Len(Tail(q)) : Tail(q)[i] = q[i + 1]
  BY Taken, LenProperties, EmptySeq, HeadTailProperties
<1>2. /\ Append(a, Head(q)) \in Seq(S) /\ Len(Append(a, Head(q))) = Len(a) + 1
      /\ Append(a, Head(q))[Len(a) + 1] = q[1]
      /\ \A i \in 1..Len(a) : Append(a, Head(q))[i] = a[i]
  BY <1>1, AppendProperties
<1>3. /\ a \o q \in Seq(S) /\ Len(a \o q) = Len(a) + Len(q)
      /\ \A i \in 1..(Len(a) + Len(q)) :
           (a \o q)[i] = IF i <= Len(a) THEN a[i] ELSE q[i - Len(a)]
  BY ConcatProperties
<1> DEFINE l == Append(a, Head(q)) \o Tail(q)
<1>4. /\ l \in Seq(S) /\ Len(l) = Len(a) + 1 + (Len(q) - 1)
      /\ \A i \in 1..(Len(a) + 1 + (Len(q) - 1)) :
           l[i] = IF i <= Len(a) + 1 THEN Append(a, Head(q))[i]
                                     ELSE Tail(q)[i - (Len(a) + 1)]
  BY <1>1, <1>2, ConcatProperties
<1> HIDE DEF l
<1>5. ASSUME NEW i \in 1..Len(l) PROVE l[i] = (a \o q)[i]
  <2>1. CASE i <= Len(a)
    BY <1>1, <1>2, <1>3, <1>4, <2>1
  <2>2. CASE i = Len(a) + 1
    BY <1>1, <1>2, <1>3, <1>4, <2>2
  <2>3. CASE i > Len(a) + 1
    <3>1. i - (Len(a) + 1) \in 1..Len(Tail(q)) /\ i - (Len(a) + 1) + 1 = i - Len(a)
      BY <1>1, <1>4, <2>3
    <3>2. Tail(q)[i - (Len(a) + 1)] = q[i - Len(a)]
      BY <1>1, <3>1
    <3>3. /\ i \in 1..(Len(a) + Len(q)) /\ i \in 1..(Len(a) + 1 + (Len(q) - 1))
          /\ ~(i <= Len(a)) /\ ~(i <= Len(a) + 1)
      BY <1>1, <1>4, <2>3
    <3>4. l[i] = Tail(q)[i - (Len(a) + 1)] /\ (a \o q)[i] = q[i - Len(a)]
      BY <1>3, <1>4, <3>3
    <3> QED
      BY <3>2, <3>4
  <2> QED
    BY <1>1, <1>4, <2>1, <2>2, <2>3
<1>6. Len(l) = Len(a \o q)
  BY <1>1, <1>3, <1>4
<1> QED
  BY <1>3, <1>4, <1>5, <1>6, SeqEqual DEF l

\* What was sent is a part of the call.
LEMMA Prefix ==
    ASSUME NEW a \in Seq(Bursts), NEW q \in Seq(Bursts)
    PROVE  /\ a \o q \in Seq(Bursts) /\ a \o <<>> = a /\ <<>> \o q = q
           /\ \A i \in DOMAIN a : i \in DOMAIN (a \o q) /\ (a \o q)[i] = a[i]
           /\ Range(a) \subseteq Range(a \o q) /\ Range(q) \subseteq Range(a \o q)
           /\ Whole(a \o q) => Whole(a)
<1>1. /\ Len(a) \in Nat /\ DOMAIN a = 1..Len(a) /\ Len(q) \in Nat /\ DOMAIN q = 1..Len(q)
  BY LenProperties
<1>2. /\ a \o q \in Seq(Bursts) /\ DOMAIN (a \o q) = 1..(Len(a) + Len(q))
      /\ \A i \in 1..(Len(a) + Len(q)) :
           (a \o q)[i] = IF i <= Len(a) THEN a[i] ELSE q[i - Len(a)]
  BY <1>1, ConcatProperties, LenProperties
<1>3. \A i \in DOMAIN a : i \in DOMAIN (a \o q) /\ (a \o q)[i] = a[i]
  BY <1>1, <1>2
<1>4. \A i \in DOMAIN q : i + Len(a) \in DOMAIN (a \o q) /\ (a \o q)[i + Len(a)] = q[i]
  BY <1>1, <1>2
<1>5. Range(a) \subseteq Range(a \o q) /\ Range(q) \subseteq Range(a \o q)
  BY <1>3, <1>4 DEF Range
<1>6. ASSUME Whole(a \o q) PROVE Whole(a)
  <2>1. \A i, j \in DOMAIN a : \A k \in (i + 1)..(j - 1) : k \in DOMAIN a
    BY <1>1
  <2> QED
    BY <1>3, <1>6, <2>1 DEF Whole
<1>7. a \o <<>> = a /\ <<>> \o q = q
  BY ConcatEmptySeq
<1> QED
  BY <1>2, <1>3, <1>5, <1>6, <1>7

\* The calls are calls.
LEMMA CallType ==
    ASSUME TypeOK
    PROVE  /\ DOMAIN echoes = 1..Len(echoes) /\ Len(echoes) \in Nat
           /\ \A e \in DOMAIN echoes :
                /\ echoes[e] \in Seq(Bursts) /\ Call(e) \in Seq(Bursts)
                /\ Range(echoes[e]) \subseteq Range(Call(e))
                /\ Range(Call(e)) \subseteq Bursts
<1>1. /\ DOMAIN echoes = 1..Len(echoes) /\ Len(echoes) \in Nat
      /\ \A e \in DOMAIN echoes : echoes[e] \in Seq(Bursts)
  BY LenProperties, ElementOfSeq DEF TypeOK
<1>2. \A e \in DOMAIN echoes :
        /\ Call(e) \in Seq(Bursts) /\ Range(echoes[e]) \subseteq Range(Call(e))
  BY <1>1, Prefix DEF TypeOK, Call
<1> QED
  BY <1>1, <1>2, Holds

\* A call that is over becomes a replay.
LEMMA CallStarts ==
    ASSUME TypeOK, StartEcho, NEW L, L = Len(echoes)
    PROVE  /\ DOMAIN echoes' = 1..(L + 1) /\ Len(echoes') = L + 1
           /\ \A e \in 1..L : Call(e)' = Call(e)
           /\ Call(L + 1)' = record
<1>1. /\ L \in Nat /\ DOMAIN echoes = 1..L
      /\ \A e \in DOMAIN echoes : echoes[e] \in Seq(Bursts)
  BY CallType
<1>2. /\ DOMAIN echoes' = 1..(L + 1) /\ Len(echoes') = L + 1
      /\ echoes'[L + 1] = <<>> /\ \A e \in 1..L : echoes'[e] = echoes[e]
  BY <1>1, AppendProperties DEF StartEcho, TypeOK
<1>3. outgoing = <<>> /\ outgoing' = record /\ record \in Seq(Bursts)
  BY DEF StartEcho, TypeOK
<1>4. \A e \in 1..L : e # L + 1 /\ Call(e) = echoes[e]
  BY <1>1, <1>3, Prefix DEF Call
<1>5. Call(L + 1)' = record
  BY <1>2, <1>3, Prefix DEF Call
<1> QED
  BY <1>2, <1>4, <1>5 DEF Call

\* No other step adds a call, or a burst to one.
LEMMA CallsKept ==
    ASSUME TypeOK, [Next]_vars, ~StartEcho
    PROVE  /\ Len(echoes') = Len(echoes) /\ DOMAIN echoes' = DOMAIN echoes
           /\ lost \subseteq lost'
           /\ outgoing # <<>> \/ outgoing' = <<>>
           /\ \A e \in DOMAIN echoes :
                \/ Call(e)' = Call(e)
                \/ /\ SendFails
                   /\ Call(e)' = echoes[e] /\ Call(e) = echoes[e] \o outgoing
<1>1. CASE SendBurst
  <2>1. PICK L \in Nat : /\ L = Len(echoes) /\ DOMAIN echoes = 1..L
    BY CallType
  <2>2. Len(echoes') = L /\ DOMAIN echoes' = 1..L
    BY <1>1, <2>1 DEF SendBurst, TypeOK
  <2>3. outgoing # <<>> /\ outgoing' = Tail(outgoing) /\ lost' = lost
    BY <1>1, Zenon DEF SendBurst, TypeOK
  <2>4. ASSUME L \in DOMAIN echoes PROVE Call(L)' = Call(L)
    <3>1. echoes'[L] = Append(echoes[L], Head(outgoing)) /\ echoes[L] \in Seq(Bursts)
      BY <1>1, <2>1, <2>4, CallType DEF SendBurst
    <3>2. Append(echoes[L], Head(outgoing)) \o Tail(outgoing) = echoes[L] \o outgoing
      BY <2>3, <3>1, HeadMoves DEF TypeOK
    <3> QED
      BY <2>1, <2>2, <2>3, <3>1, <3>2 DEF Call
  <2>5. \A e \in DOMAIN echoes : e # L => Call(e)' = Call(e)
    BY <1>1, <2>1, <2>2 DEF SendBurst, Call
  <2> QED
    BY <2>1, <2>2, <2>3, <2>4, <2>5
<1>2. CASE SendFails
  <2>1. outgoing' = <<>> /\ echoes' = echoes /\ lost \subseteq lost'
    BY <1>2 DEF SendFails
  <2>2. \A e \in DOMAIN echoes : echoes[e] \o <<>> = echoes[e]
    BY CallType, Prefix
  <2> QED
    BY <1>2, <2>1, <2>2 DEF Call
<1>3. CASE ~SendBurst /\ ~SendFails
  <2>1. UNCHANGED <<echoes, outgoing>> /\ lost \subseteq lost'
    BY <1>3 DEF Next, Task, NothingEnded, RecvBurst, RecvOther, StartSending,
                RecvFails, Arrive, ArriveOther, Tick, vars, taskVars
  <2> QED
    BY <2>1 DEF Call
<1> QED
  BY <1>1, <1>2, <1>3

\* The record is one call.
LEMMA RecordIsWhole == TypeOK /\ QueueInv => Whole(record)
<1> SUFFICES ASSUME TypeOK, QueueInv, NEW i \in DOMAIN record, NEW j \in DOMAIN record,
                    i < j
             PROVE  /\ record[i].stream = record[j].stream /\ record[i].n < record[j].n
                    /\ \A n \in (record[i].n + 1)..(record[j].n - 1) :
                         \/ \E k \in (i + 1)..(j - 1) : record[k].n = n
                         \/ Lost(record[i].stream, n)
  BY DEF Whole
<1>1. /\ DOMAIN record = 1..Len(record) /\ Len(record) \in Nat
      /\ \A k \in DOMAIN record : /\ record[k] \in Range(record) /\ record[k] \in Bursts
                                  /\ record[k].n \in Nat /\ record[k] # Other
                                  /\ record[k].stream = current /\ record[k] \in Waiting
                                  /\ record[k].n <= heard[current]
  BY Holds, Numbered, NoBurst, SMTT(30) DEF TypeOK, QueueInv, Waiting
<1>2. \A k, l \in DOMAIN record : k < l => record[k].n < record[l].n
  BY <1>1 DEF QueueInv, Sorted
<1>3. ASSUME NEW n \in (record[i].n + 1)..(record[j].n - 1), ~Lost(current, n)
      PROVE  \E k \in (i + 1)..(j - 1) : record[k].n = n
  <2>1. heard[current] \in Nat /\ record[i].n < n /\ n < record[j].n
    BY <1>1, Numbered
  <2>2. n \in (record[i].n + 1)..heard[record[i].stream]
    BY <1>1, <2>1
  <2>3. PICK y \in Waiting : y.stream = current /\ y.n = n
    BY <1>1, <1>3, <2>2 DEF QueueInv
  <2>4. y \in Range(record)
    BY <1>1, <2>1, <2>3 DEF QueueInv, Waiting
  <2>5. PICK k \in DOMAIN record : record[k] = y
    BY <2>4 DEF Range
  <2>6. i < k /\ k < j
    BY <1>1, <1>2, <2>1, <2>3, <2>5
  <2> QED
    BY <1>1, <2>3, <2>5, <2>6
<1> QED
  BY <1>1, <1>2, <1>3

\* Every step.
LEMMA CallNext == TypeOK /\ QueueInv /\ CallInv /\ [Next]_vars => CallInv'
<1> SUFFICES ASSUME TypeOK, QueueInv, CallInv, [Next]_vars PROVE CallInv'
  OBVIOUS
<1>1. ASSUME NEW seq, Whole(seq), lost \subseteq lost' PROVE Whole(seq)'
  BY <1>1 DEF Whole, Lost
<1>2. CASE StartEcho
  <2>1. PICK L \in Nat : L = Len(echoes) /\ DOMAIN echoes = 1..L
    BY CallType
  <2>2. /\ DOMAIN echoes' = 1..(L + 1) /\ Len(echoes') = L + 1
        /\ \A e \in 1..L : Call(e)' = Call(e)
        /\ Call(L + 1)' = record
    BY <1>2, <2>1, CallStarts
  <2>3. lost' = lost
    BY <1>2 DEF StartEcho
  <2>4. ASSUME NEW e \in DOMAIN echoes' PROVE Whole(Call(e))'
    <3>1. PICK seq : seq = Call(e)' /\ Whole(seq)
      <4>1. e \in 1..L \/ e = L + 1
        BY <2>1, <2>2
      <4> QED
        BY <2>1, <2>2, <4>1, RecordIsWhole DEF CallInv
    <3> QED
      BY <1>1, <2>3, <3>1
  <2>5. echoes' # <<>>
    BY <2>1, <2>2
  <2> QED
    BY <2>4, <2>5 DEF CallInv
<1>3. CASE ~StartEcho
  <2>1. ASSUME NEW e \in DOMAIN echoes' PROVE Whole(Call(e))'
    <3>1. PICK seq : seq = Call(e)' /\ Whole(seq)
      <4>1. e \in DOMAIN echoes /\ outgoing \in Seq(Bursts) /\ echoes[e] \in Seq(Bursts)
        BY <1>3, CallsKept, CallType DEF TypeOK
      <4>2. Whole(Call(e))
        BY <4>1 DEF CallInv
      <4>3. Call(e)' = Call(e) \/ (Call(e)' = echoes[e] /\ Call(e) = echoes[e] \o outgoing)
        BY <1>3, <4>1, CallsKept
      <4>4. Call(e) = echoes[e] \o outgoing => Whole(echoes[e])
        BY <4>1, <4>2, Prefix
      <4> QED
        BY <4>2, <4>3, <4>4
    <3> QED
      BY <1>1, <1>3, <3>1, CallsKept
  <2>2. outgoing' # <<>> => echoes' # <<>>
    <3>1. outgoing' # <<>> => echoes # <<>>
      BY <1>3, CallsKept DEF CallInv
    <3>2. echoes # <<>> => Len(echoes) # 0
      BY EmptySeq DEF TypeOK
    <3>3. echoes' = <<>> => Len(echoes') = 0
      OBVIOUS
    <3> QED
      BY <1>3, <3>1, <3>2, <3>3, CallsKept
  <2> QED
    BY <2>1, <2>2 DEF CallInv
<1> QED
  BY <1>2, <1>3

\* Every replay is one call: of one stream, in the order the bursts came, and
\* none left out but those lost to a full buffer or a failed send.
THEOREM OneCall == Spec => []EchoIsOneCall
<1>1. Init => QueueInv /\ CallInv
  BY Empty DEF Init, QueueInv, Sorted, Waiting, Buffered, CallInv
<1>2. TypeOK /\ CallInv => EchoIsOneCall
  <2> SUFFICES ASSUME TypeOK, CallInv, NEW e \in DOMAIN echoes
               PROVE  Whole(echoes[e])
    BY DEF EchoIsOneCall, Whole, Lost
  <2>1. /\ echoes[e] \in Seq(Bursts) /\ outgoing \in Seq(Bursts)
        /\ Whole(Call(e))
    BY CallType DEF TypeOK, CallInv
  <2> QED
    BY <2>1, Prefix DEF Call
<1> QED
  BY <1>1, <1>2, TypeInit, TypeNext, QueueNext, CallNext, PTL DEF Spec

-----------------------------------------------------------------------------
(* Calls are not split.                                                    *)

\* What an arrival adds to the buffer.
LEMMA Arrives ==
    ASSUME TypeOK, NEW s \in Streams, Arrive(s)
    PROVE  /\ record' = record
           /\ \E m : /\ m.stream = s /\ m.n = heard[s] + 1 /\ m.gap = silence
                     /\ Buffered' \subseteq Buffered \cup {m}
<1>1. Arriving(s) \in Bursts \cup {Other} /\ buffer \in Seq(Bursts \cup {Other})
  <2>1. heard[s] + 1 \in 1..MaxBursts
    BY Bounds DEF Arrive, TypeOK
  <2> QED
    BY <2>1 DEF Arriving, Bursts, TypeOK
<1>2. Range(Append(buffer, Arriving(s))) = Range(buffer) \cup {Arriving(s)}
  BY <1>1, Put
<1>3. Buffered' \subseteq Buffered \cup {Arriving(s)} /\ record' = record
  BY <1>2 DEF Arrive, Buffered, taskVars
<1>4. /\ Arriving(s).stream = s /\ Arriving(s).n = heard[s] + 1
      /\ Arriving(s).gap = silence
  BY DEF Arriving
<1> QED
  BY <1>3, <1>4

\* A burst of the stream that waits was silent long enough.
LEMMA QuietNext == TypeOK /\ SilenceInv /\ QueueInv /\ QuietInv /\ [Next]_vars => QuietInv'
<1> SUFFICES ASSUME TypeOK, SilenceInv, QueueInv, QuietInv, [Next]_vars PROVE QuietInv'
  OBVIOUS
<1>1. CASE StartEcho
  BY <1>1, Empty DEF StartEcho, QuietInv
<1>2. CASE RecvBurst
  <2>1. quiet' = 0 /\ silence' = silence /\ TypeOK'
    BY <1>2, TypeNext DEF RecvBurst, arrivalVars
  <2>2. /\ \A r \in Range(record)' : silence'[r.stream] >= 0
        /\ \A b \in Buffered' : b.gap[b.stream] >= 0
    <3>1. \A r \in Range(record)' : r.stream \in Streams
      BY <2>1, Holds, NoBurst DEF TypeOK
    <3>2. \A b \in Buffered' : b \in Bursts
      BY <1>2, BufferTaken, Numbered DEF RecvBurst, Buffered
    <3>3. \A s \in Streams : silence'[s] \in 0..Long
      BY <2>1, Numbered
    <3> QED
      BY <3>1, <3>2, <3>3, NoBurst, Bounds
  <2> QED
    BY <2>1, <2>2 DEF QuietInv
<1>3. CASE RecvOther
  <2>1. UNCHANGED <<record, quiet, heard, silence>> /\ Buffered' \subseteq Buffered
    BY <1>3, BufferTaken DEF RecvOther, taskVars, arrivalVars, Buffered
  <2> QED
    BY <2>1 DEF QuietInv
<1>4. ASSUME NEW s \in Streams, Arrive(s) PROVE QuietInv'
  <2>1. /\ record' = record /\ quiet' = quiet
        /\ \A t \in Streams : t # s => heard'[t] = heard[t] /\ silence'[t] = silence[t]
        /\ heard'[s] = heard[s] + 1
    BY <1>4 DEF Arrive, taskVars, TypeOK
  <2>2. PICK m : /\ m.stream = s /\ m.n = heard[s] + 1 /\ m.gap = silence
                 /\ Buffered' \subseteq Buffered \cup {m}
    BY <1>4, Arrives
  <2>3. \A r \in Range(record) : /\ r.stream \in Streams /\ r.n \in Nat
                                 /\ r.n <= heard[r.stream] /\ heard[s] \in Nat
    BY Numbered DEF QueueInv, Waiting
  <2>4. \A r \in Range(record) : r.stream = s => heard'[s] # r.n
    BY <2>1, <2>3
  <2>5. \A r \in Range(record) : m.stream = r.stream /\ m.n = r.n + 1 =>
          m.gap[m.stream] >= quiet
    BY <2>2, <2>3 DEF QuietInv
  <2> QED
    BY <2>1, <2>2, <2>3, <2>4, <2>5 DEF QuietInv
<1>5. CASE Tick
  <2>1. CASE record = <<>>
    BY <1>5, <2>1, Empty DEF Tick, QuietInv
  <2>2. CASE record # <<>>
    <3>1. phase = "listening" /\ buffer = <<>> /\ Buffered' = {}
      BY <1>5, <2>2, Empty DEF Tick, Blocked, SilenceInv, Buffered
    <3>2. /\ UNCHANGED <<record, heard>> /\ quiet' = Later(quiet) /\ quiet \in 0..Long
          /\ \A s \in Streams : silence'[s] = Later(silence[s]) /\ silence[s] \in 0..Long
      BY <1>5 DEF Tick, TypeOK
    <3>3. \A r \in Range(record) : r.stream \in Streams
      BY Numbered
    <3>4. \A s \in Streams : silence[s] >= quiet => silence'[s] >= quiet'
      BY <3>2, Passing, Bounds
    <3> QED
      BY <3>1, <3>2, <3>3, <3>4 DEF QuietInv
  <2> QED
    BY <2>1, <2>2
<1>6. CASE ArriveOther
  <2>1. UNCHANGED <<record, quiet, heard, silence>> /\ Buffered' = Buffered
    <3>1. buffer \in Seq(Bursts \cup {Other}) /\ Other \in Bursts \cup {Other}
      BY DEF TypeOK
    <3> QED
      BY <1>6, <3>1, Put DEF ArriveOther, taskVars, Buffered
  <2> QED
    BY <2>1 DEF QuietInv
<1>7. CASE NothingEnded \/ StartSending \/ SendBurst \/ SendFails \/ UNCHANGED vars
  <2>1. UNCHANGED <<record, quiet, heard, silence, buffer>>
    BY <1>7 DEF NothingEnded, StartSending, SendBurst, SendFails, vars, taskVars,
                arrivalVars
  <2> QED
    BY <2>1 DEF QuietInv, Buffered
<1>8. CASE RecvFails
  BY <1>8, Empty DEF RecvFails, QuietInv
<1> QED
  BY <1>1, <1>2, <1>3, <1>4, <1>5, <1>6, <1>7, <1>8 DEF Next, Task

\* The bursts of calls are bursts.
LEMMA CallBursts ==
    ASSUME TypeOK, NEW e \in DOMAIN echoes, NEW a \in Range(Call(e))
    PROVE  a \in Bursts /\ a.n \in Nat /\ a.stream \in Streams
BY CallType, NoBurst

\* The call that ends is apart from what came before and from what is to come.
LEMMA ApartStart ==
    ASSUME TypeOK, QueueInv, QuietInv, ApartInv, StartEcho PROVE ApartInv'
<1>1. PICK L \in Nat : L = Len(echoes) /\ DOMAIN echoes = 1..L
  BY CallType
<1>2. /\ DOMAIN echoes' = 1..(L + 1) /\ \A e \in 1..L : Call(e)' = Call(e)
      /\ Call(L + 1)' = record
  BY <1>1, CallStarts
<1>3. /\ UNCHANGED <<heard, silence>> /\ Waiting' = Buffered /\ quiet > Idle
  BY Empty DEF StartEcho, CallEnded, arrivalVars, Waiting, Buffered
<1>4. \A r \in Range(record) : r.stream \in Streams /\ r.n \in Nat
  BY Numbered
<1>5. ASSUME NEW a \in Range(record)
      PROVE  /\ a.n <= heard[a.stream]
             /\ heard[a.stream] = a.n => silence[a.stream] > Idle
             /\ \A b \in Buffered : Apart(a, b)
  <2>1. quiet \in Nat /\ Idle \in Nat /\ silence[a.stream] \in Nat
    BY <1>4, Bounds, Numbered DEF TypeOK
  <2>2. a.n <= heard[a.stream] /\ (heard[a.stream] = a.n => silence[a.stream] > Idle)
    BY <1>3, <2>1 DEF QueueInv, QuietInv, Waiting
  <2>3. ASSUME NEW b \in Buffered, a.stream = b.stream
        PROVE  a.n < b.n /\ (b.n = a.n + 1 => b.gap[b.stream] > Idle)
    <3>1. b.gap[b.stream] \in Nat
      BY Numbered, NoBurst, Bounds
    <3> QED
      BY <1>3, <2>1, <2>3, <3>1 DEF QueueInv, QuietInv
  <2> QED
    BY <2>2, <2>3 DEF Apart
<1>6. ASSUME NEW e \in 1..(L + 1), NEW a \in Range(Call(e)')
      PROVE  /\ a.n <= heard'[a.stream]
             /\ heard'[a.stream] = a.n => silence'[a.stream] > Idle
             /\ \A b \in Waiting' : Apart(a, b)
  <2>1. CASE e \in 1..L
    BY <1>1, <1>2, <1>3, <2>1 DEF ApartInv, Waiting
  <2>2. CASE e = L + 1
    BY <1>2, <1>3, <1>5, <2>2
  <2> QED
    BY <2>1, <2>2
<1>7. ASSUME NEW d \in 1..(L + 1), NEW e \in 1..(L + 1), d < e,
             NEW a \in Range(Call(d)'), NEW b \in Range(Call(e)')
      PROVE  Apart(a, b)
  <2>1. d \in 1..L /\ Call(d)' = Call(d)
    BY <1>2, <1>7
  <2>2. CASE e \in 1..L
    BY <1>1, <1>2, <1>7, <2>1, <2>2 DEF ApartInv
  <2>3. CASE e = L + 1
    BY <1>1, <1>2, <2>1, <2>3 DEF ApartInv, Waiting
  <2> QED
    BY <2>2, <2>3
<1> QED
  BY <1>2, <1>6, <1>7 DEF ApartInv

\* Every step.
LEMMA ApartNext ==
    TypeOK /\ QueueInv /\ QuietInv /\ ApartInv /\ [Next]_vars => ApartInv'
<1> SUFFICES ASSUME TypeOK, QueueInv, QuietInv, ApartInv, [Next]_vars PROVE ApartInv'
  OBVIOUS
<1>1. CASE StartEcho
  BY <1>1, ApartStart
<1>2. CASE ~StartEcho
  <2>1. /\ DOMAIN echoes' = DOMAIN echoes
        /\ \A e \in DOMAIN echoes : Range(Call(e)') \subseteq Range(Call(e))
    <3>1. \A e \in DOMAIN echoes : Range(echoes[e]) \subseteq Range(Call(e))
      BY CallType
    <3> QED
      BY <1>2, <3>1, CallsKept
  <2>2. ASSUME NEW e \in DOMAIN echoes, NEW a \in Range(Call(e))
        PROVE  /\ a.n <= heard'[a.stream]
               /\ heard'[a.stream] = a.n => silence'[a.stream] > Idle
               /\ \A b \in Waiting' : Apart(a, b)
    <3>1. /\ a.n \in Nat /\ a.stream \in Streams /\ a.n <= heard[a.stream]
          /\ heard[a.stream] = a.n => silence[a.stream] > Idle
          /\ \A b \in Waiting : Apart(a, b)
          /\ heard[a.stream] \in Nat /\ silence[a.stream] \in 0..Long
      BY CallBursts, Numbered DEF ApartInv
    <3>2. ASSUME NEW s \in Streams, Arrive(s)
          PROVE  /\ a.n <= heard'[a.stream]
                 /\ heard'[a.stream] = a.n => silence'[a.stream] > Idle
                 /\ \A b \in Waiting' : Apart(a, b)
      <4>1. /\ \A t \in Streams : t # s => heard'[t] = heard[t] /\ silence'[t] = silence[t]
            /\ heard'[s] = heard[s] + 1
        BY <3>2 DEF Arrive, TypeOK
      <4>2. PICK m : /\ m.stream = s /\ m.n = heard[s] + 1 /\ m.gap = silence
                     /\ Waiting' \subseteq Waiting \cup {m}
        BY <3>2, Arrives DEF Waiting
      <4>3. Apart(a, m)
        BY <3>1, <4>2 DEF Apart
      <4>4. /\ a.n <= heard'[a.stream]
            /\ heard'[a.stream] = a.n => silence'[a.stream] > Idle
        BY <3>1, <4>1
      <4> QED
        BY <3>1, <4>2, <4>3, <4>4
    <3>3. CASE RecvBurst \/ RecvOther
      <4>1. UNCHANGED <<heard, silence>>
        BY <3>3 DEF RecvBurst, RecvOther, arrivalVars
      <4>2. Waiting' \subseteq Waiting
        <5>1. CASE RecvBurst
          BY <5>1, Recording
        <5>2. CASE RecvOther
          BY <5>2, BufferTaken DEF RecvOther, taskVars, Waiting, Buffered
        <5> QED
          BY <3>3, <5>1, <5>2
      <4> QED
        BY <3>1, <4>1, <4>2
    <3>4. CASE ArriveOther
      <4>1. buffer \in Seq(Bursts \cup {Other}) /\ Other \in Bursts \cup {Other}
        BY DEF TypeOK
      <4>2. UNCHANGED <<heard, silence>> /\ Waiting' = Waiting
        BY <3>4, <4>1, Put DEF ArriveOther, taskVars, Buffered, Waiting
      <4> QED
        BY <3>1, <4>2
    <3>5. CASE Tick
      <4>1. UNCHANGED heard /\ Waiting' = Waiting
        BY <3>5 DEF Tick, Buffered, Waiting
      <4>2. silence'[a.stream] = Later(silence[a.stream])
        BY <3>1, <3>5 DEF Tick
      <4>3. silence[a.stream] > Idle => silence'[a.stream] > Idle
        BY <3>1, <4>2, Passing, Bounds
      <4> QED
        BY <3>1, <4>1, <4>3
    <3>6. CASE NothingEnded \/ StartSending \/ SendBurst \/ SendFails \/ UNCHANGED vars
      <4>1. UNCHANGED <<record, heard, silence, buffer>>
        BY <3>6 DEF NothingEnded, StartSending, SendBurst, SendFails, vars, taskVars,
                    arrivalVars
      <4> QED
        BY <3>1, <4>1 DEF Buffered, Waiting
    <3>7. CASE RecvFails
      <4>1. UNCHANGED <<heard, silence>> /\ Waiting' = {}
        BY <3>7, Empty DEF RecvFails, arrivalVars, Buffered, Waiting
      <4> QED
        BY <3>1, <4>1
    <3> QED
      BY <1>2, <3>2, <3>3, <3>4, <3>5, <3>6, <3>7 DEF Next, Task
  <2> QED
    BY <2>1, <2>2 DEF ApartInv
<1> QED
  BY <1>1, <1>2

\* A call is not cut in two: bursts of a stream in separate replays arrived
\* further apart than the idle window, however long the parrot was busy replaying
\* when the second one came.
THEOREM NoCallIsSplit == Spec => []CallsAreNotSplit
<1>1. Init => SilenceInv /\ QueueInv /\ QuietInv /\ ApartInv
  BY Empty DEF Init, SilenceInv, QueueInv, Sorted, Waiting, Buffered, QuietInv, ApartInv
<1>2. TypeOK /\ ApartInv => CallsAreNotSplit
  <2> SUFFICES ASSUME TypeOK, ApartInv,
                      NEW d \in DOMAIN echoes, NEW e \in DOMAIN echoes, d # e,
                      NEW a \in Range(echoes[d]), NEW b \in Range(echoes[e]),
                      a.stream = b.stream, b.n = a.n + 1
               PROVE  b.gap[b.stream] > Idle
    BY DEF CallsAreNotSplit
  <2>1. /\ a \in Range(Call(d)) /\ b \in Range(Call(e))
        /\ d \in Nat /\ e \in Nat /\ a.n \in Nat /\ b.n \in Nat
    BY CallType, NoBurst
  <2>2. ~(b.n < a.n)
    BY <2>1
  <2>3. d < e
    BY <2>1, <2>2 DEF ApartInv, Apart
  <2> QED
    BY <2>1, <2>3 DEF ApartInv, Apart
<1> QED
  BY <1>1, <1>2, TypeInit, TypeNext, SilenceNext, QueueNext, QuietNext, ApartNext, PTL
     DEF Spec

-----------------------------------------------------------------------------
(* Every burst is in one place.                                            *)

InCall == UNION {Range(Call(e)) : e \in DOMAIN echoes}
Gone == {d.burst : d \in discarded}
Anywhere == Waiting \cup InCall \cup Gone \cup lost

Same(a, b) == a.stream = b.stream /\ a.n = b.n
Differ(S, T) == \A a \in S, b \in T : ~Same(a, b)

\* Nothing that arrived is nowhere.
AllInv == \A s \in Streams : \A n \in 1..heard[s] : \E b \in Anywhere : Is(b, s, n)

\* What was dropped came before all that waits; of what was dropped or lost
\* there is nothing elsewhere, and nothing twice.
OnceInv ==
    /\ \A b \in Gone \cup lost : b.n <= heard[b.stream]
    /\ \A a \in Gone, b \in Waiting : a.stream = b.stream => a.n < b.n
    /\ \A c, d \in discarded : Same(c.burst, d.burst) => c = d
    /\ \A k, l \in lost : Same(k, l) => k = l
    /\ Differ(Gone, InCall) /\ Differ(lost, Waiting) /\ Differ(lost, InCall)
    /\ Differ(lost, Gone)

\* Of a call no burst is there twice, neither sent nor outgoing.
LEMMA CallOnce ==
    ASSUME NEW a \in Seq(Bursts), NEW q \in Seq(Bursts), Whole(a \o q)
    PROVE  /\ \A i, j \in DOMAIN a : Same(a[i], a[j]) => i = j
           /\ \A i, j \in DOMAIN q : Same(q[i], q[j]) => i = j
           /\ \A x \in Range(a), y \in Range(q) : ~Same(x, y)
<1>1. /\ Len(a) \in Nat /\ DOMAIN a = 1..Len(a) /\ Len(q) \in Nat /\ DOMAIN q = 1..Len(q)
      /\ \A i \in DOMAIN a : a[i].n \in Nat
      /\ \A i \in DOMAIN q : q[i].n \in Nat
  BY Holds, NoBurst
<1>2. /\ DOMAIN (a \o q) = 1..(Len(a) + Len(q))
      /\ \A i \in 1..(Len(a) + Len(q)) :
           (a \o q)[i] = IF i <= Len(a) THEN a[i] ELSE q[i - Len(a)]
  BY <1>1, ConcatProperties, LenProperties
<1>3. \A i \in DOMAIN a : i \in DOMAIN (a \o q) /\ (a \o q)[i] = a[i]
  BY <1>1, <1>2
<1>4. \A i \in DOMAIN q : /\ i + Len(a) \in DOMAIN (a \o q)
                          /\ (a \o q)[i + Len(a)] = q[i]
  BY <1>1, <1>2
<1>5. \A i, j \in DOMAIN (a \o q) : i < j => (a \o q)[i].n < (a \o q)[j].n
  BY DEF Whole
<1>6. \A i, j \in DOMAIN a : i < j => a[i].n < a[j].n
  BY <1>3, <1>5
<1>7. \A i, j \in DOMAIN q : i < j => q[i].n < q[j].n
  <2>1. \A i, j \in DOMAIN q : i < j => i + Len(a) < j + Len(a)
    BY <1>1
  <2> QED
    BY <1>4, <1>5, <2>1
<1>8. \A i \in DOMAIN a, j \in DOMAIN q : a[i].n < q[j].n
  <2>1. \A i \in DOMAIN a, j \in DOMAIN q : i < j + Len(a)
    BY <1>1
  <2> QED
    BY <1>3, <1>4, <1>5, <2>1
<1>9. /\ \A i, j \in DOMAIN a : Same(a[i], a[j]) => i = j
      /\ \A i, j \in DOMAIN q : Same(q[i], q[j]) => i = j
  <2>1. /\ \A i, j \in DOMAIN a : i = j \/ i < j \/ j < i
        /\ \A i, j \in DOMAIN q : i = j \/ i < j \/ j < i
    BY <1>1
  <2> QED
    BY <1>1, <1>6, <1>7, <2>1 DEF Same
<1>10. \A x \in Range(a), y \in Range(q) : ~Same(x, y)
  BY <1>1, <1>8 DEF Same, Range
<1> QED
  BY <1>9, <1>10

\* Where bursts are.
LEMMA PlacesType ==
    ASSUME TypeOK
    PROVE  /\ Waiting \subseteq Bursts /\ InCall \subseteq Bursts
           /\ Gone \subseteq Bursts /\ lost \subseteq Bursts
           /\ Anywhere \subseteq Bursts
           /\ \A s \in Streams : heard[s] \in Nat
           /\ \A b \in Bursts : b.n \in Nat /\ b.stream \in Streams
<1>1. InCall \subseteq Bursts
  BY CallType DEF InCall
<1>2. Gone \subseteq Bursts /\ lost \subseteq Bursts
  BY DEF Gone, TypeOK
<1> QED
  BY <1>1, <1>2, Numbered DEF Anywhere

\* A waiting burst is in no call, and what is in a call has arrived.
LEMMA CallApart ==
    ASSUME TypeOK, ApartInv
    PROVE  /\ \A a \in InCall : a.n <= heard[a.stream]
           /\ \A a \in InCall, b \in Waiting : a.stream = b.stream => a.n < b.n
BY DEF ApartInv, Apart, InCall

\* The record becomes a call.
LEMMA OnceStart ==
    ASSUME TypeOK, ApartInv, OnceInv, StartEcho
    PROVE  OnceInv' /\ Anywhere \subseteq Anywhere' /\ heard' = heard
<1>1. UNCHANGED <<heard, discarded, lost>> /\ Gone' = Gone
  BY DEF StartEcho, arrivalVars, Gone
<1>2. Waiting = Range(record) \cup Waiting'
  BY Empty DEF StartEcho, Waiting, Buffered
<1>3. InCall' = InCall \cup Range(record)
  <2>1. PICK L \in Nat : L = Len(echoes) /\ DOMAIN echoes = 1..L
    BY CallType
  <2>2. /\ DOMAIN echoes' = 1..(L + 1)
        /\ \A e \in 1..L : Call(e)' = Call(e)
        /\ Call(L + 1)' = record
    BY <2>1, CallStarts
  <2>3. \A e \in 1..(L + 1) : e \in 1..L \/ e = L + 1
    BY <2>1
  <2>4. 1..L \subseteq 1..(L + 1) /\ L + 1 \in 1..(L + 1)
    BY <2>1
  <2>5. InCall' = UNION {Range(Call(e)') : e \in 1..(L + 1)}
    BY <2>2 DEF InCall
  <2>6. InCall = UNION {Range(Call(e)) : e \in 1..L}
    BY <2>1 DEF InCall
  <2> QED
    BY <2>2, <2>3, <2>4, <2>5, <2>6
<1>4. Differ(Gone, Range(record)) /\ Differ(lost, Range(record))
  <2>1. \A a \in Gone : a.n \in Nat
    BY PlacesType
  <2> QED
    BY <1>2, <2>1 DEF OnceInv, Differ, Same
<1> QED
  BY <1>1, <1>2, <1>3, <1>4 DEF OnceInv, Differ, Anywhere

\* A burst is recorded; of another stream, it drops the record.
LEMMA OnceRecv ==
    ASSUME TypeOK, QueueInv, ApartInv, OnceInv, RecvBurst
    PROVE  OnceInv' /\ Anywhere \subseteq Anywhere' /\ heard' = heard
<1>1. UNCHANGED <<heard, lost, echoes, outgoing>>
  BY DEF RecvBurst, arrivalVars
<1>2. InCall' = InCall
  BY <1>1 DEF InCall, Call
<1>3. Waiting' \subseteq Waiting /\ Waiting \ Waiting' \subseteq Range(record)
  BY Recording
<1>4. CASE current \in {NoStream, Received.stream}
  <2>1. discarded' = discarded /\ Gone' = Gone /\ record' = Append(record, Received)
    BY <1>4 DEF RecvBurst, Dropped, Recorded, Gone
  <2>2. Range(record') = Range(record) \cup {Received}
    BY <2>1, Recording, Put DEF TypeOK
  <2>3. Waiting' = Waiting
    BY <1>3, <2>2 DEF Waiting
  <2> QED
    BY <1>1, <1>2, <2>1, <2>3 DEF OnceInv, Anywhere
<1>5. CASE current \notin {NoStream, Received.stream}
  <2>1. PICK g : g = Received.gap[current]
    OBVIOUS
  <2>2. /\ discarded' = discarded \cup
                        {[burst |-> r, silent |-> g, listened |-> listened] :
                           r \in Range(record)}
        /\ record' = <<Received>>
    BY <1>5, <2>1 DEF RecvBurst, Dropped, Recorded
  <2>3. Gone' = Gone \cup Range(record)
    <3>1. \A d \in discarded' : d.burst \in Gone \cup Range(record)
      BY <2>2 DEF Gone
    <3>2. \A d \in discarded : d \in discarded'
      BY <2>2
    <3>3. ASSUME NEW r \in Range(record) PROVE \E d \in discarded' : d.burst = r
      <4>1. [burst |-> r, silent |-> g, listened |-> listened] \in discarded'
        BY <2>2, <3>3
      <4> QED
        BY <4>1
    <3>4. \A x : x \in Gone' <=> \E d \in discarded' : d.burst = x
      BY DEF Gone
    <3>5. \A x : x \in Gone <=> \E d \in discarded : d.burst = x
      BY DEF Gone
    <3> QED
      BY <3>1, <3>2, <3>3, <3>4, <3>5
  <2>4. \A r \in Range(record) : /\ r \in Waiting /\ r.n \in Nat
                                 /\ r.n <= heard[r.stream]
    BY PlacesType DEF Waiting, QueueInv
  <2>5. \A r \in Range(record), b \in Waiting' : r.stream = b.stream => r.n < b.n
    <3>1. Range(record') = {Received} /\ Received \in Buffered
      BY <2>2, Recording DEF Range
    <3>2. Range(buffer') \subseteq Range(buffer)
      BY BufferTaken DEF RecvBurst
    <3>3. Waiting' \subseteq Buffered
      BY <3>1, <3>2 DEF Waiting, Buffered
    <3> QED
      BY <3>3 DEF QueueInv
  <2>6. \A q, r \in Range(record) : Same(q, r) => q = r
    <3>1. /\ \A i \in DOMAIN record : record[i] \in Range(record) /\ i \in Nat
          /\ \A r \in Range(record) : \E i \in DOMAIN record : record[i] = r
      BY Holds DEF TypeOK
    <3>2. \A r \in Range(record) : r.n \in Nat /\ r # Other
      BY Numbered, NoBurst
    <3>3. \A i, j \in DOMAIN record : i < j => ~Same(record[i], record[j])
      BY <3>1, <3>2 DEF QueueInv, Sorted, Same
    <3> QED
      BY <3>1, <3>3 DEF Same
  <2>7. \A a \in Gone, r \in Range(record) : ~Same(a, r)
    BY <2>4 DEF OnceInv, Same
  <2>8. \A c, d \in discarded' : Same(c.burst, d.burst) => c = d
    <3>1. \A c \in discarded : c.burst \in Gone
      BY DEF Gone
    <3>2. \A c \in discarded' :
            \/ c \in discarded
            \/ \E r \in Range(record) : 
                 c = [burst |-> r, silent |-> g, listened |-> listened]
      BY <2>2
    <3>3. \A c \in discarded' \ discarded : /\ c.burst \in Range(record)
                                            /\ c = [burst |-> c.burst, silent |-> g,
                                                  listened |-> listened]
      BY <3>2
    <3>4. \A c \in discarded, d \in discarded' \ discarded :
            ~Same(c.burst, d.burst) /\ ~Same(d.burst, c.burst)
      BY <2>7, <3>1, <3>3 DEF Same
    <3>5. \A c, d \in discarded' \ discarded : Same(c.burst, d.burst) => c = d
      BY <2>6, <3>3
    <3> QED
      BY <3>4, <3>5 DEF OnceInv
  <2>9. \A r \in Range(record), a \in InCall : ~Same(r, a)
    BY <2>4, CallApart DEF Same
  <2>10. \A r \in Range(record), l \in lost : ~Same(l, r)
    BY <2>4 DEF OnceInv, Differ
  <2>11. Anywhere \subseteq Anywhere'
    BY <1>1, <1>2, <1>3, <2>3 DEF Anywhere
  <2>12. /\ \A b \in Gone' \cup lost' : b.n <= heard'[b.stream]
         /\ \A a \in Gone', b \in Waiting' : a.stream = b.stream => a.n < b.n
    BY <1>1, <1>3, <2>3, <2>4, <2>5 DEF OnceInv
  <2>13. /\ Differ(Gone', InCall') /\ Differ(lost', Waiting') /\ Differ(lost', InCall')
         /\ Differ(lost', Gone')
    BY <1>1, <1>2, <1>3, <2>3, <2>9, <2>10 DEF OnceInv, Differ
  <2> QED
    BY <1>1, <2>8, <2>11, <2>12, <2>13 DEF OnceInv
<1> QED
  BY <1>4, <1>5

\* A failed send: what is outgoing is lost, and in no call any more.
LEMMA OnceFails ==
    ASSUME TypeOK, CallInv, ApartInv, OnceInv, SendFails
    PROVE  OnceInv' /\ Anywhere \subseteq Anywhere' /\ heard' = heard
<1> DEFINE out == Range(outgoing)
<1>1. /\ UNCHANGED <<heard, record, buffer, discarded, echoes>>
      /\ lost' = lost \cup out /\ outgoing' = <<>>
      /\ Waiting' = Waiting /\ Gone' = Gone
  BY DEF SendFails, arrivalVars, Waiting, Buffered, Gone
<1>2. PICK L \in Nat : L = Len(echoes) /\ DOMAIN echoes = 1..L /\ L \in DOMAIN echoes
  <2>1. Len(echoes) \in Nat /\ DOMAIN echoes = 1..Len(echoes)
    BY CallType
  <2>2. outgoing # <<>>
    BY Zenon DEF SendFails, TypeOK
  <2>3. Len(echoes) # 0
    BY <2>2, EmptySeq DEF CallInv, TypeOK
  <2>4. Len(echoes) \in 1..Len(echoes)
    BY <2>1, <2>3
  <2> QED
    BY <2>1, <2>4
<1>3. /\ Call(L) = echoes[L] \o outgoing /\ Call(L)' = echoes[L]
      /\ \A e \in DOMAIN echoes : e # L => Call(e)' = Call(e)
  <2>1. echoes[L] \o <<>> = echoes[L]
    BY <1>2, CallType, Prefix
  <2> QED
    BY <1>1, <1>2, <2>1 DEF Call
<1>4. /\ Range(Call(L)) = Range(echoes[L]) \cup out
      /\ \A i, j \in DOMAIN outgoing : Same(outgoing[i], outgoing[j]) => i = j
      /\ \A x \in Range(echoes[L]), y \in out : ~Same(x, y)
  <2>1. echoes[L] \in Seq(Bursts) /\ outgoing \in Seq(Bursts)
    BY <1>2, CallType DEF TypeOK
  <2>2. Whole(echoes[L] \o outgoing)
    BY <1>2, <1>3 DEF CallInv
  <2>3. Range(echoes[L] \o outgoing) = Range(echoes[L]) \cup out
    BY <2>1, RangeConcatenation
  <2> QED
    BY <1>3, <2>1, <2>2, <2>3, CallOnce
<1>5. out \subseteq InCall /\ InCall' \subseteq InCall /\ InCall \subseteq InCall' \cup out
  <2>1. InCall' = UNION {Range(Call(e)') : e \in DOMAIN echoes}
    BY <1>1 DEF InCall
  <2> QED
    BY <1>2, <1>3, <1>4, <2>1 DEF InCall
<1>6. Differ(out, InCall')
  <2>1. ASSUME NEW y \in out, NEW x \in InCall' PROVE ~Same(y, x)
    <3>1. PICK e \in DOMAIN echoes : x \in Range(Call(e)')
      BY <1>1 DEF InCall
    <3>2. CASE e = L
      BY <1>3, <1>4, <3>1, <3>2 DEF Same
    <3>3. CASE e # L
      <4>1. x \in Range(Call(e)) /\ e < L /\ y \in Range(Call(L))
        BY <1>2, <1>3, <1>4, <3>1, <3>3
      <4>2. x.stream = y.stream => x.n < y.n
        BY <1>2, <4>1 DEF ApartInv, Apart
      <4>3. x.n \in Nat /\ y.n \in Nat
        BY <1>2, <4>1, CallBursts
      <4> QED
        BY <4>2, <4>3 DEF Same
    <3> QED
      BY <3>2, <3>3
  <2> QED
    BY <2>1 DEF Differ
<1>7. \A x, y \in out : Same(x, y) => x = y
  BY <1>4 DEF Same, Range
<1>8. \A y \in out : y.n <= heard[y.stream] /\ y.n \in Nat
  BY <1>5, CallApart, PlacesType
<1>9. Differ(out, Waiting)
  BY <1>5, <1>8, CallApart DEF Differ, Same
<1> HIDE DEF out
<1>10. Anywhere \subseteq Anywhere'
  BY <1>1, <1>5 DEF Anywhere
<1>11. \A k, l \in lost' : Same(k, l) => k = l
  <2>1. \A k \in lost, l \in out : ~Same(k, l) /\ ~Same(l, k)
    BY <1>5 DEF OnceInv, Differ, Same
  <2> QED
    BY <1>1, <1>7, <2>1 DEF OnceInv
<1>12. /\ Differ(Gone', InCall') /\ Differ(lost', Waiting')
       /\ Differ(lost', InCall') /\ Differ(lost', Gone')
  <2>1. \A k \in out, l \in Gone : ~Same(k, l)
    BY <1>5 DEF OnceInv, Differ, Same
  <2> QED
    BY <1>1, <1>5, <1>6, <1>9, <2>1 DEF OnceInv, Differ
<1>13. /\ \A b \in Gone' \cup lost' : b.n <= heard'[b.stream]
       /\ \A a \in Gone', b \in Waiting' : a.stream = b.stream => a.n < b.n
       /\ \A c, d \in discarded' : Same(c.burst, d.burst) => c = d
  BY <1>1, <1>8 DEF OnceInv
<1> QED
  BY <1>1, <1>10, <1>11, <1>12, <1>13 DEF OnceInv

\* Nothing in the record or the buffer is there twice.
LEMMA OnceWaiting ==
    ASSUME TypeOK, QueueInv
    PROVE  \A x, y \in Waiting : Same(x, y) => x = y
<1>1. \A q \in Seq(Bursts \cup {Other}) : Sorted(q) =>
        \A x, y \in Range(q) \ {Other} : Same(x, y) => x = y
  <2> SUFFICES ASSUME NEW q \in Seq(Bursts \cup {Other}), Sorted(q),
                      NEW x \in Range(q) \ {Other}, NEW y \in Range(q) \ {Other},
                      Same(x, y)
               PROVE  x = y
    OBVIOUS
  <2>1. PICK i \in DOMAIN q, j \in DOMAIN q : q[i] = x /\ q[j] = y
    BY Holds
  <2>2. i \in Nat /\ j \in Nat /\ x.n \in Nat /\ y.n \in Nat
    BY Holds, NoBurst
  <2>3. ~(i < j) /\ ~(j < i)
    BY <2>1, <2>2 DEF Sorted, Same
  <2> QED
    BY <2>1, <2>2, <2>3
<1>2. record \in Seq(Bursts \cup {Other}) /\ buffer \in Seq(Bursts \cup {Other})
  BY DEF TypeOK
<1>3. /\ \A x, y \in Buffered : Same(x, y) => x = y
      /\ \A x, y \in Range(record) : Same(x, y) => x = y
  BY <1>1, <1>2, Numbered, NoBurst DEF QueueInv, Buffered
<1>4. \A x \in Range(record), y \in Buffered : ~Same(x, y) /\ ~Same(y, x)
  BY Numbered DEF QueueInv, Same
<1> QED
  BY <1>3, <1>4 DEF Waiting

\* A failed recv_from: what waits is lost.
LEMMA OnceRecvFails ==
    ASSUME TypeOK, QueueInv, ApartInv, OnceInv, RecvFails
    PROVE  OnceInv' /\ Anywhere \subseteq Anywhere' /\ heard' = heard
<1>1. /\ UNCHANGED <<heard, discarded, echoes, outgoing>>
      /\ lost' = lost \cup Waiting /\ Waiting' = {} /\ Gone' = Gone /\ InCall' = InCall
  BY Empty DEF RecvFails, arrivalVars, Waiting, Buffered, Gone, InCall, Call
<1>2. \A b \in Waiting : b.n \in Nat /\ b.n <= heard[b.stream]
  BY PlacesType DEF QueueInv
<1>3. \A k, l \in lost \cup Waiting : Same(k, l) => k = l
  BY OnceWaiting DEF OnceInv, Differ, Same
<1>4. /\ \A b \in Waiting, a \in Gone : ~Same(b, a)
      /\ \A b \in Waiting, a \in InCall : ~Same(b, a)
  BY <1>2, CallApart DEF OnceInv, Same
<1> QED
  BY <1>1, <1>2, <1>3, <1>4 DEF OnceInv, Differ, Anywhere

\* A burst arrives: it is the first of its number, and waits or is lost.
LEMMA OnceArrive ==
    ASSUME TypeOK, QueueInv, ApartInv, OnceInv, AllInv, NEW s \in Streams, Arrive(s)
    PROVE  OnceInv' /\ AllInv'
<1> DEFINE m == Arriving(s)
<1>1. PICK k \in Nat : k = heard[s] + 1 /\ k \in 1..MaxBursts
  BY Bounds DEF Arrive, TypeOK
<1>2. m.stream = s /\ m.n = k /\ m \in Bursts /\ m # Other
  <2>1. m \in Bursts
    BY <1>1 DEF Arriving, Bursts, TypeOK
  <2> QED
    BY <1>1, <2>1, NoBurst DEF Arriving
<1>3. /\ UNCHANGED <<record, discarded, echoes, outgoing>>
      /\ Gone' = Gone /\ InCall' = InCall
      /\ \A t \in Streams : heard'[t] = IF t = s THEN k ELSE heard[t]
  BY <1>1 DEF Arrive, taskVars, Gone, InCall, Call, TypeOK
<1> HIDE DEF m
<1>4. \/ Waiting' = Waiting \cup {m} /\ lost' = lost
      \/ Waiting' = Waiting /\ lost' = lost \cup {m}
  <2>1. CASE buffer' = Append(buffer, m) /\ lost' = lost
    <3>1. buffer \in Seq(Bursts \cup {Other}) /\ m \in Bursts \cup {Other}
      BY <1>2 DEF TypeOK
    <3>2. Range(buffer') = Range(buffer) \cup {m}
      BY <2>1, <3>1, Put
    <3> QED
      BY <1>2, <1>3, <2>1, <3>2 DEF Waiting, Buffered
  <2>2. CASE buffer' = buffer /\ lost' = lost \cup {m}
    BY <1>3, <2>2 DEF Waiting, Buffered
  <2> QED
    BY <2>1, <2>2 DEF Arrive, m
<1>5. \A b \in Anywhere : /\ b.stream \in Streams /\ b.n \in Nat
                          /\ b.n <= heard[b.stream] /\ heard[b.stream] \in Nat
  BY PlacesType, CallApart DEF Anywhere, QueueInv, OnceInv
<1>6. \A b \in Anywhere : /\ b.stream = s => b.n < k
                          /\ ~Same(b, m) /\ ~Same(m, b)
                          /\ b.n <= heard'[b.stream]
  BY <1>1, <1>2, <1>3, <1>5 DEF Same
<1>7. Anywhere' = Anywhere \cup {m}
  BY <1>3, <1>4 DEF Anywhere
<1>8. m.n <= heard'[m.stream]
  BY <1>1, <1>2, <1>3
<1>9. AllInv'
  <2>1. ASSUME NEW t \in Streams, NEW n \in 1..heard'[t]
        PROVE  \E b \in Anywhere \cup {m} : Is(b, t, n)
    <3>1. n \in 1..heard[t] \/ (t = s /\ n = k)
      <4>1. heard[t] \in Nat
        BY PlacesType
      <4>2. CASE t = s
        BY <1>1, <1>3, <4>1, <4>2
      <4>3. CASE t # s
        BY <1>3, <4>3
      <4> QED
        BY <4>2, <4>3
    <3> QED
      BY <1>2, <3>1 DEF AllInv, Is
  <2> QED
    BY <1>7, <2>1 DEF AllInv
<1>10. /\ \A b \in Gone \cup lost \cup {m} : b.n <= heard'[b.stream]
       /\ \A a \in Gone, b \in Waiting \cup {m} : a.stream = b.stream => a.n < b.n
       /\ \A j, l \in lost \cup {m} : Same(j, l) => j = l
       /\ \A b \in Gone \cup lost \cup InCall \cup Waiting : ~Same(b, m) /\ ~Same(m, b)
  BY <1>2, <1>6, <1>8 DEF OnceInv, Anywhere
<1>11. OnceInv'
  BY <1>3, <1>4, <1>10 DEF OnceInv, Differ
<1> QED
  BY <1>9, <1>11

\* Every step.
LEMMA OnceNext ==
    TypeOK /\ QueueInv /\ CallInv /\ ApartInv /\ OnceInv /\ AllInv /\ [Next]_vars
      => OnceInv' /\ AllInv'
<1> SUFFICES ASSUME TypeOK, QueueInv, CallInv, ApartInv, OnceInv, AllInv, [Next]_vars
             PROVE  OnceInv' /\ AllInv'
  OBVIOUS
<1>1. ASSUME OnceInv', Anywhere \subseteq Anywhere', heard' = heard
      PROVE  OnceInv' /\ AllInv'
  BY <1>1 DEF AllInv
<1>2. CASE StartEcho
  BY <1>1, <1>2, OnceStart
<1>3. CASE RecvBurst
  BY <1>1, <1>3, OnceRecv
<1>4. CASE SendFails
  BY <1>1, <1>4, OnceFails
<1>5. ASSUME NEW s \in Streams, Arrive(s) PROVE OnceInv' /\ AllInv'
  BY <1>5, OnceArrive
<1>6. CASE RecvFails
  BY <1>1, <1>6, OnceRecvFails
<1>7. CASE /\ ~StartEcho /\ ~RecvBurst /\ ~SendFails /\ ~RecvFails
           /\ ~\E s \in Streams : Arrive(s)
  <2>1. UNCHANGED <<record, heard, discarded, lost>>
    BY <1>7 DEF Next, Task, NothingEnded, RecvOther, StartSending, SendBurst,
                ArriveOther, Tick, vars, taskVars, arrivalVars
  <2>2. Buffered' = Buffered
    <3>1. CASE RecvOther
      BY <3>1, BufferTaken DEF RecvOther, Buffered
    <3>2. CASE ArriveOther
      <4>1. buffer \in Seq(Bursts \cup {Other}) /\ Other \in Bursts \cup {Other}
        BY DEF TypeOK
      <4> QED
        BY <3>2, <4>1, Put DEF ArriveOther, Buffered
    <3>3. CASE UNCHANGED buffer
      BY <3>3 DEF Buffered
    <3> QED
      BY <1>7, <3>1, <3>2, <3>3 DEF Next, Task, NothingEnded, StartSending, SendBurst,
                                    Tick, vars
  <2>3. InCall' = InCall
    <3>1. /\ DOMAIN echoes' = DOMAIN echoes
          /\ \A e \in DOMAIN echoes : Call(e)' = Call(e)
      BY <1>7, CallsKept
    <3> QED
      BY <3>1 DEF InCall
  <2>4. Waiting' = Waiting /\ Gone' = Gone /\ Anywhere' = Anywhere
    BY <2>1, <2>2, <2>3 DEF Waiting, Gone, Anywhere
  <2> QED
    BY <1>1, <2>1, <2>3, <2>4 DEF OnceInv
<1> QED
  BY <1>2, <1>3, <1>4, <1>5, <1>7, <1>6

\* A replay, and with what is outgoing the last one, has no burst twice.
LEMMA OneInCall ==
    ASSUME TypeOK, CallInv, NEW e \in DOMAIN echoes
    PROVE  /\ \A i, j \in DOMAIN echoes[e] : Same(echoes[e][i], echoes[e][j]) => i = j
           /\ Range(echoes[e]) \subseteq Range(Call(e))
           /\ e = Len(echoes) =>
                /\ \A x \in Range(echoes[e]), y \in Range(outgoing) : ~Same(x, y)
                /\ \A i, j \in DOMAIN outgoing : Same(outgoing[i], outgoing[j]) => i = j
                /\ Range(outgoing) \subseteq Range(Call(e))
<1>1. /\ echoes[e] \in Seq(Bursts) /\ outgoing \in Seq(Bursts) /\ <<>> \in Seq(Bursts)
      /\ Whole(Call(e))
  BY CallType DEF TypeOK, CallInv
<1>2. CASE e = Len(echoes)
  <2>1. Call(e) = echoes[e] \o outgoing
    BY <1>2 DEF Call
  <2> QED
    BY <1>1, <2>1, CallOnce, Prefix
<1>3. CASE e # Len(echoes)
  <2>1. Call(e) = echoes[e] /\ echoes[e] \o <<>> = echoes[e]
    BY <1>1, <1>3, Prefix DEF Call
  <2>2. Whole(echoes[e] \o <<>>)
    BY <1>1, <2>1
  <2> QED
    BY <1>1, <1>3, <2>1, <2>2, CallOnce
<1> QED
  BY <1>2, <1>3

\* At most one index of a sequence in order.
LEMMA SortedOnce ==
    ASSUME NEW q \in Seq(Bursts \cup {Other}), Sorted(q), NEW s \in Streams, NEW n \in Nat,
           NEW i \in Indices(q, s, n), NEW j \in Indices(q, s, n)
    PROVE  i = j
<1>1. /\ i \in DOMAIN q /\ j \in DOMAIN q /\ i \in Nat /\ j \in Nat
      /\ Is(q[i], s, n) /\ Is(q[j], s, n)
  BY Holds DEF Indices
<1>2. q[i] # Other /\ q[j] # Other
  BY <1>1, EchoAssumption DEF Is, Other
<1>3. ~(i < j) /\ ~(j < i)
  BY <1>1, <1>2 DEF Sorted, Is
<1> QED
  BY <1>1, <1>3

\* With the invariants, the places of a burst that arrived are one place.
LEMMA OnePlace ==
    TypeOK /\ QueueInv /\ CallInv /\ ApartInv /\ OnceInv /\ AllInv => EachBurstOnce
<1> SUFFICES ASSUME TypeOK, QueueInv, CallInv, ApartInv, OnceInv, AllInv,
                    NEW s \in Streams, NEW n \in 1..heard[s]
             PROVE  \E p \in Places(s, n) : Places(s, n) = {p}
  BY DEF EachBurstOnce
<1> DEFINE B == {<<"buffer", i>> : i \in Indices(buffer, s, n)}
           R == {<<"record", i>> : i \in Indices(record, s, n)}
           O == {<<"outgoing", i>> : i \in Indices(outgoing, s, n)}
           S == UNION {{<<"sent", i, e>> : i \in Indices(echoes[e], s, n)} :
                         e \in DOMAIN echoes}
           D == {<<"discarded", d>> : d \in {c \in discarded : Is(c.burst, s, n)}}
           L == {<<"lost", l>> : l \in {k \in lost : Is(k, s, n)}}
           In(T) == \E b \in T : Is(b, s, n)
<1>1. n \in Nat /\ \A b, c : Is(b, s, n) /\ Is(c, s, n) => Same(b, c) /\ ~(b.n < c.n)
  BY PlacesType DEF Is, Same
<1>2. /\ buffer \in Seq(Bursts \cup {Other}) /\ record \in Seq(Bursts \cup {Other})
      /\ outgoing \in Seq(Bursts)
      /\ \A e \in DOMAIN echoes : echoes[e] \in Seq(Bursts)
  BY CallType DEF TypeOK
<1>3. \A q : \A i \in Indices(q, s, n) : /\ i \in DOMAIN q /\ Is(q[i], s, n)
                                       /\ q[i] \in Range(q)
  BY DEF Indices, Range
<1>4. \A b : Is(b, s, n) => b # Other
  BY EchoAssumption DEF Is, Other
<1>5. \A e \in DOMAIN echoes :
        /\ \A i, j \in DOMAIN echoes[e] : Same(echoes[e][i], echoes[e][j]) => i = j
        /\ Range(echoes[e]) \subseteq Range(Call(e))
        /\ e = Len(echoes) =>
             /\ \A x \in Range(echoes[e]), y \in Range(outgoing) : ~Same(x, y)
             /\ \A i, j \in DOMAIN outgoing : Same(outgoing[i], outgoing[j]) => i = j
             /\ Range(outgoing) \subseteq Range(Call(e))
  BY OneInCall
<1>6. outgoing # <<>> => Len(echoes) \in DOMAIN echoes
  <2>1. DOMAIN echoes = 1..Len(echoes) /\ Len(echoes) \in Nat
    BY CallType
  <2>2. outgoing # <<>> => Len(echoes) # 0
    BY EmptySeq DEF CallInv, TypeOK
  <2> QED
    BY <2>1, <2>2
<1>7. \A i \in DOMAIN outgoing : outgoing # <<>>
  BY Empty
<1>8. \A e \in DOMAIN echoes : Range(echoes[e]) \subseteq InCall
  BY <1>5 DEF InCall
<1>9. Range(outgoing) \subseteq InCall
  <2>1. Range(outgoing) # {} => outgoing # <<>>
    BY Empty
  <2> QED
    BY <1>5, <1>6, <2>1 DEF InCall
\* A place of a kind is one.
<1>10. \A p, q \in B : p = q
  <2>1. \A i, j \in Indices(buffer, s, n) : i = j
    BY <1>1, <1>2, SortedOnce DEF QueueInv
  <2> QED
    BY <2>1
<1>11. \A p, q \in R : p = q
  <2>1. \A i, j \in Indices(record, s, n) : i = j
    BY <1>1, <1>2, SortedOnce DEF QueueInv
  <2> QED
    BY <2>1
<1>12. \A p, q \in O : p = q
  <2>1. \A i, j \in Indices(outgoing, s, n) : i = j
    BY <1>1, <1>3, <1>5, <1>6, <1>7
  <2> QED
    BY <2>1
<1>13. \A p, q \in S : p = q
  <2>1. \A d, e \in DOMAIN echoes :
          \A i \in Indices(echoes[d], s, n), j \in Indices(echoes[e], s, n) :
            d = e /\ i = j
    <3> SUFFICES ASSUME NEW d \in DOMAIN echoes, NEW e \in DOMAIN echoes,
                        NEW i \in Indices(echoes[d], s, n),
                        NEW j \in Indices(echoes[e], s, n)
                 PROVE  d = e /\ i = j
      OBVIOUS
    <3>1. /\ Is(echoes[d][i], s, n) /\ Is(echoes[e][j], s, n)
          /\ echoes[d][i] \in Range(Call(d)) /\ echoes[e][j] \in Range(Call(e))
          /\ i \in DOMAIN echoes[d] /\ j \in DOMAIN echoes[e]
      BY <1>3, <1>5
    <3>2. ~(d < e) /\ ~(e < d)
      BY <1>1, <3>1 DEF ApartInv, Apart, Same
    <3>3. d = e
      BY <3>2, CallType
    <3> QED
      BY <1>1, <1>5, <3>1, <3>3
  <2>2. \A p \in S : \E e \in DOMAIN echoes : \E i \in Indices(echoes[e], s, n) :
          p = <<"sent", i, e>>
    OBVIOUS
  <2> QED
    BY <2>1, <2>2
<1>14. \A p, q \in D : p = q
  <2>1. \A c, d \in discarded : Is(c.burst, s, n) /\ Is(d.burst, s, n) => c = d
    BY <1>1 DEF OnceInv
  <2> QED
    BY <2>1
<1>15. \A p, q \in L : p = q
  BY <1>1 DEF OnceInv
\* What holds the burst, of the kinds of places.
<1>16. /\ B # {} => In(Buffered)
       /\ R # {} => In(Range(record))
       /\ O # {} => In(Range(outgoing)) /\ outgoing # <<>>
       /\ S # {} => \E e \in DOMAIN echoes : In(Range(echoes[e]))
       /\ D # {} => In(Gone)
       /\ L # {} => In(lost)
  BY <1>3, <1>4, <1>7 DEF Buffered, Gone
<1>17. ~(In(Buffered) /\ In(Range(record)))
  BY <1>1 DEF QueueInv, Same
<1>18. ~(/\ In(Range(outgoing)) /\ outgoing # <<>>
         /\ \E e \in DOMAIN echoes : In(Range(echoes[e])))
  <2> SUFFICES ASSUME NEW e \in DOMAIN echoes, NEW x \in Range(echoes[e]),
                      NEW y \in Range(outgoing), Is(x, s, n), Is(y, s, n),
                      outgoing # <<>>
               PROVE  FALSE
    OBVIOUS
  <2>1. CASE e = Len(echoes)
    BY <1>1, <1>5, <2>1
  <2>2. CASE e # Len(echoes)
    <3>1. e < Len(echoes) /\ Len(echoes) \in DOMAIN echoes
      BY <1>6, <2>2, CallType
    <3>2. x \in Range(Call(e)) /\ y \in Range(Call(Len(echoes)))
      BY <1>5, <3>1
    <3> QED
      BY <1>1, <3>1, <3>2 DEF ApartInv, Apart, Same
  <2> QED
    BY <2>1, <2>2
<1>19. /\ In(Buffered) \/ In(Range(record)) => In(Waiting)
       /\ In(Range(outgoing)) => In(InCall)
       /\ (\E e \in DOMAIN echoes : In(Range(echoes[e]))) => In(InCall)
  BY <1>8, <1>9 DEF Waiting
<1>20. /\ ~(In(Waiting) /\ In(InCall)) /\ ~(In(Waiting) /\ In(Gone))
       /\ ~(In(Waiting) /\ In(lost)) /\ ~(In(InCall) /\ In(Gone))
       /\ ~(In(InCall) /\ In(lost)) /\ ~(In(Gone) /\ In(lost))
  BY <1>1, CallApart DEF OnceInv, Differ, Same
<1>21. In(Waiting) \/ In(InCall) \/ In(Gone) \/ In(lost)
  BY DEF AllInv, Anywhere
<1>22. /\ In(Buffered) => B # {}
       /\ In(Range(record)) => R # {}
       /\ In(Range(outgoing)) => O # {}
       /\ \A e \in DOMAIN echoes : In(Range(echoes[e])) => S # {}
       /\ In(Gone) => D # {}
       /\ In(lost) => L # {}
  <2>1. \A q : In(Range(q)) => \E i : i \in Indices(q, s, n)
    BY DEF Indices, Range
  <2>2. In(Buffered) => In(Range(buffer))
    BY DEF Buffered
  <2>3. In(Buffered) => B # {}
    <3>1. ASSUME NEW i \in Indices(buffer, s, n) PROVE B # {}
      BY <3>1
    <3> QED
      BY <2>1, <2>2, <3>1
  <2>4. In(Range(record)) => R # {}
    <3>1. ASSUME NEW i \in Indices(record, s, n) PROVE R # {}
      BY <3>1
    <3> QED
      BY <2>1, <3>1
  <2>5. In(Range(outgoing)) => O # {}
    <3>1. ASSUME NEW i \in Indices(outgoing, s, n) PROVE O # {}
      BY <3>1
    <3> QED
      BY <2>1, <3>1
  <2>6. ASSUME NEW e \in DOMAIN echoes, In(Range(echoes[e])) PROVE S # {}
    <3>1. PICK i : i \in Indices(echoes[e], s, n)
      BY <2>1, <2>6
    <3>2. <<"sent", i, e>> \in S
      BY <3>1
    <3> QED
      BY <3>2
  <2>7. In(Gone) => D # {}
    BY DEF Gone
  <2>8. In(lost) => L # {}
    OBVIOUS
  <2> QED
    BY <2>3, <2>4, <2>5, <2>6, <2>7, <2>8
<1>23. /\ In(Waiting) => In(Buffered) \/ In(Range(record))
       /\ In(InCall) => \/ In(Range(outgoing))
                        \/ \E e \in DOMAIN echoes : In(Range(echoes[e]))
  <2>1. \A e \in DOMAIN echoes :
          Range(Call(e)) \subseteq Range(echoes[e]) \cup Range(outgoing)
    BY <1>2, RangeConcatenation DEF Call
  <2> QED
    BY <2>1 DEF Waiting, InCall
<1>24. Places(s, n) = B \cup R \cup O \cup S \cup D \cup L
  BY DEF Places
<1> HIDE DEF B, R, O, S, D, L, In
<1>25. Places(s, n) # {}
  BY <1>21, <1>22, <1>23, <1>24
<1>26. \A p, q \in Places(s, n) : p = q
  <2>1. /\ B = {} \/ R = {}
        /\ O = {} \/ S = {}
        /\ B \cup R = {} \/ O \cup S = {}
        /\ B \cup R = {} \/ D = {}
        /\ B \cup R = {} \/ L = {}
        /\ O \cup S = {} \/ D = {}
        /\ O \cup S = {} \/ L = {}
        /\ D = {} \/ L = {}
    BY <1>16, <1>17, <1>18, <1>19, <1>20
  <2> QED
    BY <1>10, <1>11, <1>12, <1>13, <1>14, <1>15, <1>24, <2>1
<1> QED
  BY <1>25, <1>26

\* Every burst that arrived is in one place: waiting, recorded, outgoing, sent,
\* dropped for another stream or lost.  Whatever calls and replays, full buffers
\* and failed sends meet, none is sent twice and none vanishes silently.
THEOREM BurstsOnce == Spec => []EachBurstOnce
<1>1. Init => /\ QueueInv /\ QuietInv /\ CallInv /\ ApartInv /\ SilenceInv
              /\ OnceInv /\ AllInv
  <2> SUFFICES ASSUME Init
               PROVE  /\ QueueInv /\ QuietInv /\ CallInv /\ ApartInv /\ SilenceInv
                      /\ OnceInv /\ AllInv
    OBVIOUS
  <2>1. QueueInv /\ QuietInv /\ CallInv /\ ApartInv /\ SilenceInv
    BY Empty DEF Init, SilenceInv, QueueInv, Sorted, Waiting, Buffered, QuietInv,
                 CallInv, ApartInv
  <2>2. Gone = {} /\ lost = {} /\ discarded = {}
    BY DEF Init, Gone
  <2>3. AllInv
    BY DEF Init, AllInv
  <2> QED
    BY <2>1, <2>2, <2>3 DEF OnceInv, Differ
<1> QED
  BY <1>1, TypeInit, TypeNext, SilenceNext, QueueNext, QuietNext, CallNext, ApartNext,
     OnceNext, OnePlace, PTL DEF Spec

=============================================================================
