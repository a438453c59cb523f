-------------------------- MODULE PcmWriterProofs --------------------------
(***************************************************************************)
(* Theorems about PcmWriter, for every set of calls, every idle timeout    *)
(* that covers a second of the file names, and any number of faults.       *)
(*                                                                         *)
(* A name cannot come back: the second it says is over before its call can *)
(* be closed (TimeOK).  If no radio starts two calls on a slot within a    *)
(* second (StartsApart), a file that is created is new, a handle is the    *)
(* only one of its file and stands at its end (FilesOK).  What is lost is  *)
(* then counted fault by fault (LossInv), and the last burst of a call     *)
(* tells when it fell silent (LastInv).                                    *)
(***************************************************************************)
EXTENDS PcmWriter, TLAPS, SequenceTheorems, FiniteSetTheorems

\* No file is named for a second that is yet to come, and those named for this
\* second are still being written.
TimeOK(calls, files, t) ==
    /\ \A p \in DOMAIN files : p.second <= t \div Second
    /\ \A k \in DOMAIN calls : /\ calls[k].path.second <= calls[k].last \div Second
                               /\ calls[k].last <= t
    /\ \A p \in DOMAIN files : p.second = t \div Second =>
         \E k \in DOMAIN calls : calls[k].path = p

TimeInv == TypeOK /\ (running => TimeOK(active, disk, now))

\* The path may be the file of a call with key k.
Names(p, k) == p.talker = Talker[k.stream] /\ p.slot = k.slot

\* A file holds bursts of one call, in order, and none that was not handled.
FileOK(file, count) ==
    /\ file \in Seq(Bursts)
    /\ \A i \in DOMAIN file : file[i].n <= count[file[i].call]
    /\ \A i, j \in DOMAIN file : /\ file[i].call = file[j].call
                                 /\ i < j => file[i].n < file[j].n

\* The file of an open call has no bursts of another call and no other handle;
\* no burst is in two files.

FilesOK(calls, files, count) ==
    /\ \A k \in DOMAIN calls : /\ calls[k].path \in DOMAIN files
                               /\ Names(calls[k].path, k)
                               /\ calls[k].offset = Len(files[calls[k].path])
                               /\ \A b \in Range(files[calls[k].path]) : b.call = k
    /\ \A j, k \in DOMAIN calls : calls[j].path = calls[k].path => j = k
    /\ \A p \in DOMAIN files : FileOK(files[p], count)
    /\ \A p, q \in DOMAIN files :
         \A b \in Range(files[p]), c \in Range(files[q]) :
           b.call = c.call /\ b.n = c.n => p = q

FilesInv == TimeInv /\ FilesOK(active, disk, seen)

\* The bursts that the faults so far account for: the next one of a call whose
\* write failed is lost already.
Owed(k) == IF k \in DOMAIN active THEN (IF active[k].failed THEN 1 ELSE 0) ELSE 0

LossOK(handled, owed, kept, faulted, killed) ==
    handled + owed <= kept + 2 * faulted + killed

LossInv == \A k \in CallKeys :
             /\ IsFiniteSet(OnDisk(k))
             /\ LossOK(seen[k], Owed(k), Cardinality(OnDisk(k)), faults,
                       IF running THEN 0 ELSE 1)

\* Where the last burst of each call is, and how long ago it came.
LastInv ==
    running /\ faults = 0 =>
      /\ \A k \in DOMAIN active : ~active[k].failed
      /\ \A k \in CallKeys : \A b \in OnDisk(k) : b.n = seen[k] =>
           IF k \in DOMAIN active
           THEN b \in Range(disk[active[k].path]) /\ b.at = active[k].last
           ELSE b.at + IdleTimeout < now

-----------------------------------------------------------------------------
(* The clock and the sequences.                                            *)

\* The numbers are numbers.
LEMMA Numbers == /\ IdleTimeout \in Nat /\ Second \in Nat /\ Second > 0
                 /\ MaxTime \in Nat /\ MaxBursts \in Nat /\ MaxFaults \in Nat
                 /\ IdleTimeout >= Second
BY TimeAssumption, TimeoutCoversSecond

\* An instant is in its second.
LEMMA InSecond ==
    ASSUME NEW t \in Nat
    PROVE  /\ t \div Second \in Nat
           /\ (t \div Second) * Second <= t
           /\ t < (t \div Second) * Second + Second
BY Numbers

\* Seconds follow each other, and the next one has begun a second later.
LEMMA Seconds ==
    ASSUME NEW t \in Nat, NEW u \in Nat
    PROVE  /\ t <= u => t \div Second <= u \div Second
           /\ t + Second <= u => t \div Second < u \div Second
<1> DEFINE a == t \div Second
           b == u \div Second
<1>1. /\ a \in Nat /\ b \in Nat /\ a * Second <= t /\ t < a * Second + Second
      /\ b * Second <= u /\ u < b * Second + Second
  BY InSecond
<1> HIDE DEF a, b
<1>2. ASSUME b < a PROVE b * Second + Second <= a * Second
  <2>1. PICK c \in Nat : a = b + 1 + c
    BY <1>1, <1>2
  <2>2. (b + 1 + c) * Second = b * Second + Second + c * Second /\ c * Second \in Nat
    BY <1>1, <2>1, Numbers
  <2> QED
    BY <1>1, <2>1, <2>2, Numbers
<1>3. t <= u => a <= b
  BY <1>1, <1>2, Numbers
<1>4. t + Second <= u => a # b
  BY <1>1, Numbers
<1> QED
  BY <1>1, <1>3, <1>4, Numbers DEF a, b

\* The front of a file.
LEMMA Fronts ==
    ASSUME NEW S, NEW f \in Seq(S)
    PROVE  /\ Front(f) \in Seq(S)
           /\ \A i \in DOMAIN Front(f) : i \in DOMAIN f /\ Front(f)[i] = f[i]
           /\ \A i \in DOMAIN f : i \in DOMAIN Front(f) \/ i = Len(f)
<1>1. PICK l \in Nat : l = Len(f)
  BY LenProperties
<1>2. PICK n \in Int : n = l - 1
  OBVIOUS
<1>3. DOMAIN f = 1..l /\ \A i \in DOMAIN f : f[i] \in S
  BY <1>1, LenProperties, ElementOfSeq
<1>4. 1..n \subseteq 1..l /\ (\A i \in 1..l : i \in 1..n \/ i = l) /\ 1..(n - 1 + 1) = 1..n
  BY <1>2
<1>5. \A i \in 1..n : f[i] \in S
  BY <1>3, <1>4
<1>6. /\ SubSeq(f, 1, n) \in Seq(S)
      /\ Len(SubSeq(f, 1, n)) = IF 1 <= n THEN n - 1 + 1 ELSE 0
      /\ \A i \in 1..(n - 1 + 1) : SubSeq(f, 1, n)[i] = f[1 + i - 1]
  BY <1>5, SubSeqProperties
<1>7. Front(f) = SubSeq(f, 1, n)
  BY <1>1, <1>2 DEF Front
<1>8. \A i \in 1..n : 1 + i - 1 = i
  OBVIOUS
<1>9. \A i \in 1..n : Front(f)[i] = f[i]
  BY <1>4, <1>6, <1>7, <1>8
<1>10. PICK m \in Nat : m = Len(Front(f)) /\ DOMAIN Front(f) = 1..m
  BY <1>6, <1>7, LenProperties
<1>11. m = IF 1 <= n THEN n - 1 + 1 ELSE 0
  BY <1>6, <1>7, <1>10
<1>12. 1..m = 1..n
  BY <1>11
<1> QED
  BY <1>1, <1>3, <1>4, <1>6, <1>7, <1>9, <1>10, <1>12

\* A file stays one when a burst is written to it.
LEMMA Writing ==
    ASSUME NEW f \in Seq(Bursts \cup {Hole}), NEW offset \in Nat, NEW b \in Bursts
    PROVE  Overwritten(f, offset, b) \in Seq(Bursts \cup {Hole})
<1>1. PICK l \in Nat : l = Len(f)
  BY LenProperties
<1>2. PICK n \in Nat : n = IF offset < l THEN l ELSE offset + 1
  OBVIOUS
<1>3. DOMAIN f = 1..l /\ \A i \in 1..l : f[i] \in Bursts \cup {Hole}
  BY <1>1, LenProperties, ElementOfSeq
<1>4. Overwritten(f, offset, b) = [i \in 1..n |-> IF i = offset + 1 THEN b
                                                 ELSE IF i <= l THEN f[i] ELSE Hole]
  BY <1>1, <1>2 DEF Overwritten
<1>5. \A i \in 1..n : i <= l => i \in 1..l
  OBVIOUS
<1>6. Overwritten(f, offset, b) \in [1..n -> Bursts \cup {Hole}]
  BY <1>3, <1>4, <1>5
<1> QED
  BY <1>6, SeqDef

\* A burst written at the end of a file is appended.
LEMMA Appending ==
    ASSUME NEW f \in Seq(Bursts), NEW b \in Bursts
    PROVE  /\ Overwritten(f, Len(f), b) \in Seq(Bursts)
           /\ Len(Overwritten(f, Len(f), b)) = Len(f) + 1
           /\ DOMAIN Overwritten(f, Len(f), b) = 1..(Len(f) + 1)
           /\ DOMAIN f = 1..Len(f)
           /\ \A i \in 1..Len(f) : Overwritten(f, Len(f), b)[i] = f[i]
           /\ Overwritten(f, Len(f), b)[Len(f) + 1] = b
           /\ Range(Overwritten(f, Len(f), b)) = Range(f) \cup {b}
<1>1. PICK l \in Nat : l = Len(f)
  BY LenProperties
<1>2. DOMAIN f = 1..l /\ \A i \in 1..l : f[i] \in Bursts
  BY <1>1, LenProperties, ElementOfSeq
<1>3. PICK g : g = Overwritten(f, Len(f), b)
  OBVIOUS
<1>4. (IF l < l THEN l ELSE l + 1) = l + 1
  BY <1>1
<1>5. g = [i \in 1..(l + 1) |-> IF i = l + 1 THEN b
                               ELSE IF i <= l THEN f[i] ELSE Hole]
  BY <1>1, <1>3, <1>4 DEF Overwritten
<1>6. /\ \A i \in 1..l : i \in 1..(l + 1) /\ i # l + 1 /\ i <= l
      /\ l + 1 \in 1..(l + 1)
      /\ \A i \in 1..(l + 1) : i \in 1..l \/ i = l + 1
  OBVIOUS
<1>7. DOMAIN g = 1..(l + 1) /\ g[l + 1] = b /\ \A i \in 1..l : g[i] = f[i]
  BY <1>5, <1>6
<1>8. Range(g) = Range(f) \cup {b}
  BY <1>2, <1>6, <1>7 DEF Range
<1>9. g \in [1..(l + 1) -> Bursts]
  BY <1>2, <1>5, <1>6, <1>7
<1>10. g \in Seq(Bursts)
  BY <1>9, SeqDef
<1>11. Len(g) = l + 1
  BY <1>7, <1>10, LenProperties
<1> QED
  BY <1>1, <1>2, <1>3, <1>7, <1>8, <1>10, <1>11

-----------------------------------------------------------------------------
(* The steps of handle_burst.                                              *)

\* What flush_idle leaves.
LEMMA FlushedIs ==
    /\ DOMAIN Flushed = DOMAIN active \ Stale
    /\ \A k \in DOMAIN Flushed : k \in DOMAIN active /\ Flushed[k] = active[k]
    /\ \A k \in DOMAIN active : k \in Stale <=> now - active[k].last > IdleTimeout
BY DEF Flushed, Restrict, Stale

\* What File::create adds.
LEMMA OpenedIs ==
    ASSUME NEW k
    PROVE  /\ DOMAIN Opened(k) = DOMAIN Flushed \cup {k}
           /\ Opened(k)[k] = [path |-> PathFor(k), last |-> now, offset |-> 0,
                              failed |-> FALSE]
           /\ Opened(k)[k].path = PathFor(k) /\ Opened(k)[k].last = now
           /\ Opened(k)[k].offset = 0 /\ Opened(k)[k].failed = FALSE
           /\ \A j \in DOMAIN Flushed : j # k => Opened(k)[j] = Flushed[j]
           /\ DOMAIN Created(k) = DOMAIN disk \cup {PathFor(k)}
           /\ Created(k)[PathFor(k)] = <<>>
           /\ \A p \in DOMAIN disk : p # PathFor(k) => Created(k)[p] = disk[p]
<1> DEFINE opened == [path |-> PathFor(k), last |-> now, offset |-> 0, failed |-> FALSE]
<1>1. opened.path = PathFor(k) /\ opened.last = now /\ opened.offset = 0
      /\ opened.failed = FALSE
  OBVIOUS
<1>2. DOMAIN Opened(k) = DOMAIN Flushed \cup {k} /\ Opened(k)[k] = opened
      /\ \A j \in DOMAIN Flushed : j # k => Opened(k)[j] = Flushed[j]
  BY DEF Opened
<1>3. /\ DOMAIN Created(k) = DOMAIN disk \cup {PathFor(k)}
      /\ Created(k)[PathFor(k)] = <<>>
      /\ \A p \in DOMAIN disk : p # PathFor(k) => Created(k)[p] = disk[p]
  BY DEF Created
<1> QED
  BY <1>1, <1>2, <1>3

\* The name of a new file is a name.
LEMMA PathIs ==
    ASSUME TypeOK, NEW k \in CallKeys
    PROVE  /\ PathFor(k) \in Paths /\ Names(PathFor(k), k)
           /\ PathFor(k).second = now \div Second
           /\ Burst(k).call = k /\ Burst(k).n = seen[k] + 1 /\ Burst(k).at = now
           /\ seen[k] < MaxBursts => Burst(k) \in Bursts
<1>1. now \div Second \in 0..(MaxTime \div Second)
  <2>1. now \in Nat /\ now <= MaxTime /\ MaxTime \in Nat
    BY Numbers DEF TypeOK
  <2>2. now \div Second \in Nat /\ MaxTime \div Second \in Nat
        /\ now \div Second <= MaxTime \div Second
    BY <2>1, InSecond, Seconds
  <2> QED
    BY <2>2
<1>2. Talker[k.stream] \in Range(Talker) /\ k.slot \in Slots
  BY TalkerAssumption DEF CallKeys, Range
<1>3. seen[k] < MaxBursts => seen[k] + 1 \in 1..MaxBursts
  BY Numbers DEF TypeOK
<1> QED
  BY <1>1, <1>2, <1>3 DEF PathFor, Paths, Names, Burst, Bursts, TypeOK

\* write_all, whichever way it goes: the handle notes the time, and no other
\* file or handle is touched.
LEMMA WriteKeeps ==
    ASSUME NEW calls, NEW files, NEW k \in DOMAIN calls, WriteAll(calls, files, k)
    PROVE  /\ DOMAIN active' = DOMAIN calls /\ DOMAIN disk' = DOMAIN files
           /\ \A j \in DOMAIN calls : j # k => active'[j] = calls[j]
           /\ active'[k].path = calls[k].path /\ active'[k].last = now
           /\ \A p \in DOMAIN files : p # calls[k].path => disk'[p] = files[p]
<1> DEFINE wrote == [path |-> calls[k].path, last |-> now, offset |-> calls[k].offset + 1,
                     failed |-> calls[k].failed]
           refused == [path |-> calls[k].path, last |-> now, offset |-> calls[k].offset,
                       failed |-> TRUE]
<1>1. wrote.path = calls[k].path /\ wrote.last = now
      /\ refused.path = calls[k].path /\ refused.last = now
  OBVIOUS
<1>2. \/ /\ active' = [calls EXCEPT ![k] = wrote]
         /\ disk' = [files EXCEPT ![calls[k].path] =
                       Overwritten(@, calls[k].offset, Burst(k))]
      \/ active' = [calls EXCEPT ![k] = refused] /\ disk' = files
  BY DEF WriteAll
<1> HIDE DEF wrote, refused
<1> QED
  BY <1>1, <1>2

\* Either the burst is written or the handle remembers the fault.
LEMMA WriteIs ==
    ASSUME NEW calls, NEW files, NEW k \in DOMAIN calls, WriteAll(calls, files, k)
    PROVE  \/ /\ active'[k] = [path |-> calls[k].path, last |-> now,
                                offset |-> calls[k].offset + 1,
                                failed |-> calls[k].failed]
              /\ \A p \in DOMAIN files : disk'[p] =
                   IF p = calls[k].path
                   THEN Overwritten(files[p], calls[k].offset, Burst(k)) ELSE files[p]
              /\ faults' = faults
           \/ /\ active'[k] = [path |-> calls[k].path, last |-> now,
                                offset |-> calls[k].offset, failed |-> TRUE]
              /\ disk' = files
              /\ faults < MaxFaults /\ faults' = faults + 1
BY DEF WriteAll

-----------------------------------------------------------------------------
(* Type correctness.                                                       *)

CallsOK(calls) == /\ DOMAIN calls \subseteq CallKeys
                  /\ \A k \in DOMAIN calls : calls[k] \in CallMeta

DiskOK(files) == /\ DOMAIN files \subseteq Paths
                 /\ \A p \in DOMAIN files : files[p] \in Seq(Bursts \cup {Hole})

\* The calls and files that handle_burst writes to.
LEMMA TypeOpened ==
    ASSUME TypeOK, NEW k \in CallKeys
    PROVE  CallsOK(Flushed) /\ CallsOK(Opened(k)) /\ DiskOK(disk) /\ DiskOK(Created(k))
<1>1. CallsOK(Flushed) /\ DiskOK(disk)
  BY FlushedIs DEF TypeOK, CallsOK, DiskOK
<1>2. [path |-> PathFor(k), last |-> now, offset |-> 0, failed |-> FALSE] \in CallMeta
  BY PathIs DEF TypeOK, CallMeta
<1>3. CallsOK(Opened(k))
  <2>1. /\ DOMAIN Opened(k) = DOMAIN Flushed \cup {k}
        /\ Opened(k)[k] \in CallMeta
        /\ \A j \in DOMAIN Flushed : j # k => Opened(k)[j] = Flushed[j]
    BY <1>2, OpenedIs
  <2> QED
    BY <1>1, <2>1 DEF CallsOK
<1>4. DiskOK(Created(k))
  <2>1. <<>> \in Seq(Bursts \cup {Hole})
    OBVIOUS
  <2>2. /\ DOMAIN Created(k) = DOMAIN disk \cup {PathFor(k)}
        /\ Created(k)[PathFor(k)] = <<>>
        /\ \A p \in DOMAIN disk : p # PathFor(k) => Created(k)[p] = disk[p]
    BY OpenedIs
  <2>3. PathFor(k) \in Paths
    BY PathIs
  <2> QED
    BY <1>1, <2>1, <2>2, <2>3 DEF DiskOK
<1> QED
  BY <1>1, <1>3, <1>4

LEMMA TypeWrite ==
    ASSUME TypeOK, NEW k \in CallKeys, seen[k] < MaxBursts,
           NEW calls, NEW files, CallsOK(calls), DiskOK(files), k \in DOMAIN calls,
           WriteAll(calls, files, k)
    PROVE  CallsOK(active') /\ DiskOK(disk') /\ faults' \in 0..MaxFaults
<1>1. calls[k] \in CallMeta /\ Burst(k) \in Bursts /\ now \in 0..MaxTime
  BY PathIs DEF CallsOK, TypeOK
<1>2. calls[k].offset \in Nat /\ calls[k].offset + 1 \in Nat /\ calls[k].path \in Paths
      /\ calls[k].failed \in BOOLEAN
  BY <1>1 DEF CallMeta
<1> DEFINE wrote == [path |-> calls[k].path, last |-> now, offset |-> calls[k].offset + 1,
                     failed |-> calls[k].failed]
           refused == [path |-> calls[k].path, last |-> now, offset |-> calls[k].offset,
                       failed |-> TRUE]
<1>3. /\ DOMAIN active' = DOMAIN calls /\ DOMAIN disk' = DOMAIN files
      /\ \A j \in DOMAIN calls : j # k => active'[j] = calls[j]
  BY WriteKeeps
<1>4. \/ /\ active'[k] = wrote
         /\ \A p \in DOMAIN files : disk'[p] =
              IF p = calls[k].path
              THEN Overwritten(files[p], calls[k].offset, Burst(k)) ELSE files[p]
         /\ faults' = faults
      \/ /\ active'[k] = refused
         /\ disk' = files
         /\ faults < MaxFaults /\ faults' = faults + 1
  BY WriteIs
<1>5. wrote \in CallMeta /\ refused \in CallMeta
  BY <1>1, <1>2 DEF CallMeta
<1> HIDE DEF wrote, refused
<1>6. CallsOK(active')
  BY <1>3, <1>4, <1>5 DEF CallsOK
<1>7. \A p \in DOMAIN files :
        Overwritten(files[p], calls[k].offset, Burst(k)) \in Seq(Bursts \cup {Hole})
  BY <1>1, <1>2, Writing DEF DiskOK
<1>8. DiskOK(disk')
  BY <1>3, <1>4, <1>7 DEF DiskOK
<1>9. faults' \in 0..MaxFaults
  BY <1>4, Numbers DEF TypeOK
<1> QED
  BY <1>6, <1>8, <1>9

LEMMA TypeNext == TypeOK /\ [Next]_vars => TypeOK'
<1> SUFFICES ASSUME TypeOK, [Next]_vars PROVE TypeOK'
  OBVIOUS
<1>1. ASSUME NEW k \in CallKeys, HandleBurst(k) PROVE TypeOK'
  <2>1. /\ now' = now /\ running' = running /\ seen[k] < MaxBursts
        /\ seen' \in [CallKeys -> 0..MaxBursts]
    <3>1. /\ now' = now /\ running' = running /\ seen[k] < MaxBursts
          /\ seen' = [seen EXCEPT ![k] = @ + 1]
      BY <1>1 DEF HandleBurst, NextBurst, FirstBurst, CreateFails, RefusedBurst, Handle
    <3>2. seen[k] + 1 \in 0..MaxBursts
      BY <3>1, Numbers DEF TypeOK
    <3> QED
      BY <3>1, <3>2 DEF TypeOK
  <2>2. CallsOK(active') /\ DiskOK(disk') /\ faults' \in 0..MaxFaults
    <3>1. CASE NextBurst(k)
      BY <2>1, <3>1, TypeOpened, TypeWrite DEF NextBurst
    <3>2. CASE FirstBurst(k)
      BY <2>1, <3>2, TypeOpened, TypeWrite, OpenedIs DEF FirstBurst
    <3>3. CASE CreateFails(k)
      BY <3>3, TypeOpened, Numbers DEF CreateFails, TypeOK
    <3>4. CASE RefusedBurst(k)
      <4>1. CallsOK(Flushed) /\ DiskOK(disk)
        BY TypeOpened
      <4>2. CallsOK(active')
        BY <3>4, <4>1 DEF RefusedBurst, CallsOK, CallMeta
      <4> QED
        BY <3>4, <4>1, <4>2 DEF RefusedBurst, TypeOK
    <3> QED
      BY <1>1, <3>1, <3>2, <3>3, <3>4 DEF HandleBurst
  <2> QED
    BY <2>1, <2>2 DEF TypeOK, CallsOK, DiskOK
<1>2. CASE FlushIdle
  BY <1>2, FlushedIs DEF FlushIdle, TypeOK
<1>3. CASE Exit
  <2>1. PICK gone \in SUBSET InFlight :
          disk' = [p \in DOMAIN disk |-> IF \E k \in gone : active[k].path = p
                                        THEN Front(disk[p]) ELSE disk[p]]
    BY <1>3 DEF Exit
  <2> QED
    BY <1>3, <2>1, Fronts DEF Exit, TypeOK
<1>4. CASE Tick
  BY <1>4, Numbers DEF Tick, TypeOK
<1>5. CASE UNCHANGED vars
  BY <1>5 DEF vars, TypeOK
<1> QED
  BY <1>1, <1>2, <1>3, <1>4, <1>5 DEF Next

\* Whatever happens, the state keeps its types: a recording is a sequence of
\* bursts and holes, a handle is one of the map's (pcm_writer.rs:37-57).
THEOREM TypeCorrect == Spec => []TypeOK
<1>1. Init => TypeOK
  BY Numbers DEF Init, TypeOK
<1> QED
  BY <1>1, TypeNext, PTL DEF Spec

-----------------------------------------------------------------------------
(* Names do not come back.                                                 *)

\* A call that is closed was named for a second that is over.
LEMMA TimeFlushed ==
    ASSUME TypeOK, TimeOK(active, disk, now)
    PROVE  TimeOK(Flushed, disk, now)
<1>1. ASSUME NEW p \in DOMAIN disk, p.second = now \div Second
      PROVE  \E k \in DOMAIN Flushed : Flushed[k].path = p
  <2>1. PICK k \in DOMAIN active : active[k].path = p
    BY <1>1 DEF TimeOK
  <2>2. PICK last \in Nat : last = active[k].last
    BY Numbers DEF TypeOK, CallMeta
  <2>3. now \in Nat /\ p.second <= last \div Second
    BY <2>1, <2>2 DEF TypeOK, TimeOK
  <2>4. last \div Second \in Nat /\ now \div Second \in Nat
    BY <2>2, <2>3, InSecond
  <2>5. last + Second <= now => last \div Second < now \div Second
    BY <2>2, <2>3, Seconds
  <2>6. ~(now - last > IdleTimeout)
    BY <1>1, <2>2, <2>3, <2>4, <2>5, Numbers
  <2> QED
    BY <2>1, <2>2, <2>6, FlushedIs
<1> QED
  BY <1>1, FlushedIs DEF TimeOK

\* A file that is created is named for this second.
LEMMA TimeOpened ==
    ASSUME TypeOK, TimeOK(active, disk, now), NEW k \in CallKeys, k \notin DOMAIN Flushed
    PROVE  TimeOK(Opened(k), Created(k), now)
<1> DEFINE path == PathFor(k)
<1>1. TimeOK(Flushed, disk, now)
  BY TimeFlushed
<1>2. /\ DOMAIN Opened(k) = DOMAIN Flushed \cup {k}
      /\ Opened(k)[k].path = path /\ Opened(k)[k].last = now
      /\ \A j \in DOMAIN Flushed : Opened(k)[j] = Flushed[j]
      /\ DOMAIN Created(k) = DOMAIN disk \cup {path}
  BY OpenedIs
<1>3. path.second = now \div Second /\ now \div Second \in Nat /\ now \in Nat
  <2>1. now \in Nat
    BY Numbers DEF TypeOK
  <2>2. now \div Second \in Nat
    BY <2>1, InSecond
  <2> QED
    BY <2>1, <2>2, PathIs
<1> HIDE DEF path
<1> QED
  BY <1>1, <1>2, <1>3 DEF TimeOK

\* write_all renames nothing.
LEMMA TimeWrite ==
    ASSUME TypeOK, NEW calls, NEW files, NEW k \in DOMAIN calls, CallsOK(calls),
           TimeOK(calls, files, now), WriteAll(calls, files, k), now' = now
    PROVE  TimeOK(active, disk, now)'
<1>1. calls[k] \in CallMeta /\ now \in Nat
  BY DEF CallsOK, TypeOK
<1>2. /\ DOMAIN active' = DOMAIN calls /\ DOMAIN disk' = DOMAIN files
      /\ \A j \in DOMAIN calls : j # k => active'[j] = calls[j]
      /\ active'[k].path = calls[k].path /\ active'[k].last = now
  BY WriteKeeps
<1>3. PICK last \in Nat : last = calls[k].last
  BY <1>1, Numbers DEF CallMeta
<1>4. PICK second \in Nat : second = calls[k].path.second
  BY <1>1 DEF CallMeta, Paths
<1>5. second <= last \div Second /\ last <= now
  BY <1>3, <1>4 DEF TimeOK
<1>6. last \div Second \in Nat /\ now \div Second \in Nat
      /\ last \div Second <= now \div Second
  BY <1>1, <1>3, <1>5, InSecond, Seconds
<1>7. second <= now \div Second
  BY <1>5, <1>6
<1>8. active'[k].path.second <= active'[k].last \div Second /\ active'[k].last <= now
  BY <1>1, <1>2, <1>4, <1>7
<1> QED
  BY <1>2, <1>8 DEF TimeOK

\* A burst of call k, whichever way it goes: it is written, or nothing is.
LEMMA BurstIs ==
    ASSUME TypeOK, NEW k \in CallKeys, HandleBurst(k)
    PROVE  /\ running /\ running' = running /\ now' = now /\ seen[k] < MaxBursts
           /\ seen' = [seen EXCEPT ![k] = @ + 1]
           /\ \/ k \in DOMAIN Flushed /\ ~active[k].failed /\ WriteAll(Flushed, disk, k)
              \/ k \notin DOMAIN Flushed /\ WriteAll(Opened(k), Created(k), k)
              \/ /\ disk' = disk /\ DOMAIN active' = DOMAIN Flushed
                 /\ \A j \in DOMAIN Flushed : /\ active'[j].path = Flushed[j].path
                                              /\ active'[j].last = Flushed[j].last
                                              /\ active'[j].offset = Flushed[j].offset
                                              /\ active'[j].failed => Flushed[j].failed
                 /\ \A j \in DOMAIN Flushed : j # k => active'[j] = Flushed[j]
                 /\ \/ /\ k \notin DOMAIN Flushed
                       /\ faults < MaxFaults /\ faults' = faults + 1
                    \/ /\ k \in DOMAIN Flushed /\ active[k].failed
                       /\ ~active'[k].failed /\ faults' = faults
<1>1. /\ running /\ running' = running /\ now' = now /\ seen[k] < MaxBursts
      /\ seen' = [seen EXCEPT ![k] = @ + 1]
  BY DEF HandleBurst, NextBurst, FirstBurst, CreateFails, RefusedBurst, Handle
<1>2. CASE NextBurst(k)
  BY <1>1, <1>2 DEF NextBurst
<1>3. CASE FirstBurst(k)
  BY <1>1, <1>3 DEF FirstBurst
<1>4. CASE CreateFails(k)
  BY <1>1, <1>4 DEF CreateFails
<1>5. CASE RefusedBurst(k)
  <2>1. Flushed[k] \in CallMeta /\ k \in DOMAIN Flushed /\ active[k].failed
    BY <1>5, TypeOpened DEF RefusedBurst, CallsOK
  <2>2. active' = [Flushed EXCEPT ![k] = [Flushed[k] EXCEPT !.failed = FALSE]]
    BY <1>5 DEF RefusedBurst
  <2>3. /\ [Flushed[k] EXCEPT !.failed = FALSE].path = Flushed[k].path
        /\ [Flushed[k] EXCEPT !.failed = FALSE].last = Flushed[k].last
        /\ [Flushed[k] EXCEPT !.failed = FALSE].offset = Flushed[k].offset
        /\ [Flushed[k] EXCEPT !.failed = FALSE].failed = FALSE
    BY <2>1 DEF CallMeta
  <2>4. disk' = disk /\ faults' = faults
    BY <1>5 DEF RefusedBurst
  <2> QED
    BY <1>1, <2>1, <2>2, <2>3, <2>4
<1> QED
  BY <1>2, <1>3, <1>4, <1>5 DEF HandleBurst

LEMMA TimeNext == TimeInv /\ [Next]_vars => TimeInv'
<1> SUFFICES ASSUME TimeInv, [Next]_vars, running' PROVE TimeOK(active, disk, now)'
  BY TypeNext DEF TimeInv
<1>1. TypeOK /\ (running => TimeOK(active, disk, now))
  BY DEF TimeInv
<1>2. ASSUME NEW k \in CallKeys, HandleBurst(k) PROVE TimeOK(active, disk, now)'
  <2>1. running /\ now' = now
    BY <1>1, <1>2, BurstIs
  <2>2. /\ CallsOK(Flushed) /\ CallsOK(Opened(k)) /\ k \in DOMAIN Opened(k)
        /\ TimeOK(Flushed, disk, now)
        /\ k \notin DOMAIN Flushed => TimeOK(Opened(k), Created(k), now)
    BY <1>1, <2>1, TypeOpened, TimeFlushed, TimeOpened, OpenedIs
  <2>3. CASE k \in DOMAIN Flushed /\ WriteAll(Flushed, disk, k)
    BY <1>1, <2>1, <2>2, <2>3, TimeWrite
  <2>4. CASE k \notin DOMAIN Flushed /\ WriteAll(Opened(k), Created(k), k)
    BY <1>1, <2>1, <2>2, <2>4, TimeWrite
  <2>5. CASE /\ disk' = disk /\ DOMAIN active' = DOMAIN Flushed
             /\ \A j \in DOMAIN Flushed : /\ active'[j].path = Flushed[j].path
                                          /\ active'[j].last = Flushed[j].last
    BY <2>1, <2>2, <2>5 DEF TimeOK
  <2> QED
    BY <1>1, <1>2, <2>3, <2>4, <2>5, BurstIs
<1>3. CASE FlushIdle
  BY <1>1, <1>3, TimeFlushed DEF FlushIdle
<1>4. CASE Exit
  BY <1>4 DEF Exit
<1>5. CASE Tick
  <2>1. running /\ now' = now + 1 /\ active' = active /\ disk' = disk /\ now \in Nat
    BY <1>1, <1>5 DEF Tick, TypeOK
  <2>2. PICK a \in Nat : a = now \div Second
    BY <2>1, InSecond
  <2>3. PICK b \in Nat : b = now' \div Second
    BY <2>1, InSecond
  <2>4. a <= b
    BY <2>1, <2>2, <2>3, Seconds
  <2>5. \A p \in DOMAIN disk : p.second \in Nat /\ p.second <= a
    BY <1>1, <2>1, <2>2 DEF TimeOK, TypeOK, Paths
  <2>6. \A p \in DOMAIN disk : p.second <= b /\ (p.second = b => p.second = a)
    BY <2>2, <2>3, <2>4, <2>5
  <2>7. \A k \in DOMAIN active : /\ active[k].path.second <= active[k].last \div Second
                                 /\ active[k].last \in Nat /\ active[k].last <= now
    BY <1>1, <2>1, Numbers DEF TimeOK, TypeOK, CallMeta
  <2>8. \A p \in DOMAIN disk : p.second = a => \E k \in DOMAIN active : active[k].path = p
    BY <1>1, <2>1, <2>2 DEF TimeOK
  <2>9. \A k \in DOMAIN active : active[k].last <= now'
    BY <2>1, <2>7
  <2> QED
    BY <2>1, <2>3, <2>6, <2>7, <2>8, <2>9 DEF TimeOK
<1>6. CASE UNCHANGED vars
  BY <1>1, <1>6 DEF vars, TimeOK
<1> QED
  BY <1>2, <1>3, <1>4, <1>5, <1>6 DEF Next

\* Once a call is closed its file is final: its name says a second that is over,
\* so no call that starts later can truncate it (pcm_writer.rs:64, 90, 133, 177-184).
THEOREM ClosedAreFinal == Spec => ClosedFilesAreFinal
<1>1. Init => TimeInv
  <2>1. ASSUME Init PROVE TypeOK
    BY <2>1, TypeCorrect, Numbers DEF Init, TypeOK
  <2> QED
    BY <2>1 DEF TimeInv, TimeOK, Init
<1>2. TimeInv /\ [Next]_vars =>
        [\A p \in DOMAIN disk :
           (\A k \in DOMAIN active : active[k].path # p) => disk'[p] = disk[p]]_vars
  <2> SUFFICES ASSUME TimeInv, Next, NEW p \in DOMAIN disk,
                      \A k \in DOMAIN active : active[k].path # p
               PROVE  disk'[p] = disk[p]
    OBVIOUS
  <2>1. TypeOK /\ (running => TimeOK(active, disk, now))
    BY DEF TimeInv
  <2>2. ASSUME NEW k \in CallKeys, HandleBurst(k) PROVE disk'[p] = disk[p]
    <3>1. running
      BY <2>1, <2>2, BurstIs
    <3>2. CASE k \in DOMAIN Flushed /\ WriteAll(Flushed, disk, k)
      <4>1. Flushed[k].path # p
        BY <3>2, FlushedIs
      <4>2. \A q \in DOMAIN disk : q # Flushed[k].path => disk'[q] = disk[q]
        BY <3>2, WriteKeeps
      <4> QED
        BY <4>1, <4>2
    <3>3. CASE k \notin DOMAIN Flushed /\ WriteAll(Opened(k), Created(k), k)
      <4>1. p.second # now \div Second
        BY <2>1, <3>1 DEF TimeOK
      <4>2. PathFor(k) # p
        BY <2>1, <4>1, PathIs
      <4>3. k \in DOMAIN Opened(k) /\ p \in DOMAIN Created(k) /\ Created(k)[p] = disk[p]
        BY <4>2, OpenedIs
      <4>4. Opened(k)[k].path # p
        BY <4>2, OpenedIs
      <4>5. \A q \in DOMAIN Created(k) : q # Opened(k)[k].path => disk'[q] = Created(k)[q]
        BY <3>3, <4>3, WriteKeeps
      <4> QED
        BY <4>3, <4>4, <4>5
    <3> QED
      BY <2>1, <2>2, <3>2, <3>3, BurstIs
  <2>3. CASE FlushIdle
    BY <2>3 DEF FlushIdle
  <2>4. CASE Exit
    BY <2>4 DEF Exit, InFlight
  <2>5. CASE Tick
    BY <2>5 DEF Tick
  <2> QED
    BY <2>2, <2>3, <2>4, <2>5 DEF Next
<1> QED
  BY <1>1, <1>2, TimeNext, PTL DEF Spec, ClosedFilesAreFinal

-----------------------------------------------------------------------------
(* A file is the recording of one call.                                    *)

LEMMA FilesFlushed ==
    ASSUME FilesOK(active, disk, seen)
    PROVE  FilesOK(Flushed, disk, seen)
BY FlushedIs DEF FilesOK

\* The name of a file that is created is new.
LEMMA NewName ==
    ASSUME TypeOK, TimeOK(active, disk, now), FilesOK(active, disk, seen),
           NEW k \in CallKeys, k \notin DOMAIN Flushed, StartsAlone(k)
    PROVE  /\ PathFor(k) \notin DOMAIN disk
           /\ \A j \in DOMAIN Flushed : Flushed[j].path # PathFor(k)
<1>1. Names(PathFor(k), k) /\ PathFor(k).second = now \div Second
  BY PathIs
<1>2. \A j \in DOMAIN Flushed : /\ j \in DOMAIN active \ {k} /\ Flushed[j] = active[j]
                                /\ Names(Flushed[j].path, j)
  BY FilesFlushed, FlushedIs DEF FilesOK
<1>3. ASSUME NEW j \in DOMAIN Flushed, Flushed[j].path = PathFor(k) PROVE FALSE
  <2>1. j \in DOMAIN active \ {k} /\ active[j].path.second = now \div Second
    BY <1>1, <1>2, <1>3
  <2>2. Talker[j.stream] = Talker[k.stream] /\ j.slot = k.slot
    BY <1>1, <1>2, <1>3 DEF Names
  <2> QED
    BY <2>1, <2>2 DEF StartsAlone
<1>4. PathFor(k) \notin DOMAIN disk
  BY <1>1, <1>3, TimeFlushed DEF TimeOK
<1> QED
  BY <1>3, <1>4

LEMMA FilesOpened ==
    ASSUME TypeOK, TimeOK(active, disk, now), FilesOK(active, disk, seen),
           NEW k \in CallKeys, k \notin DOMAIN Flushed, StartsAlone(k)
    PROVE  FilesOK(Opened(k), Created(k), seen)
<1> DEFINE path == PathFor(k)
<1>1. FilesOK(Flushed, disk, seen)
  BY FilesFlushed
<1>2. /\ path \notin DOMAIN disk /\ Names(path, k)
      /\ \A j \in DOMAIN Flushed : Flushed[j].path # path
  BY NewName, PathIs
<1>3. /\ DOMAIN Opened(k) = DOMAIN Flushed \cup {k}
      /\ Opened(k)[k].path = path /\ Opened(k)[k].offset = 0
      /\ \A j \in DOMAIN Flushed : Opened(k)[j] = Flushed[j]
      /\ DOMAIN Created(k) = DOMAIN disk \cup {path}
      /\ Created(k)[path] = <<>>
      /\ \A p \in DOMAIN disk : Created(k)[p] = disk[p]
  BY <1>2, OpenedIs
<1>4. /\ <<>> \in Seq(Bursts) /\ DOMAIN <<>> = {} /\ Len(<<>>) = 0 /\ Range(<<>>) = {}
      /\ FileOK(<<>>, seen)
  BY DEF FileOK, Range
<1> HIDE DEF path
<1>5. \A j \in DOMAIN Opened(k) : /\ Opened(k)[j].path \in DOMAIN Created(k)
                                  /\ Names(Opened(k)[j].path, j)
                                  /\ Opened(k)[j].offset = Len(Created(k)[Opened(k)[j].path])
                                  /\ \A b \in Range(Created(k)[Opened(k)[j].path]) :
                                       b.call = j
  BY <1>1, <1>2, <1>3, <1>4 DEF FilesOK
<1>6. \A i, j \in DOMAIN Opened(k) : Opened(k)[i].path = Opened(k)[j].path => i = j
  BY <1>1, <1>2, <1>3 DEF FilesOK
<1>7. \A p \in DOMAIN Created(k) : FileOK(Created(k)[p], seen)
  BY <1>1, <1>3, <1>4 DEF FilesOK
<1>8. \A p, q \in DOMAIN Created(k) :
        \A b \in Range(Created(k)[p]), c \in Range(Created(k)[q]) :
          b.call = c.call /\ b.n = c.n => p = q
  BY <1>1, <1>3, <1>4 DEF FilesOK
<1> QED
  BY <1>5, <1>6, <1>7, <1>8 DEF FilesOK

\* More bursts may be handled.
LEMMA FileGrows ==
    ASSUME NEW count \in [CallKeys -> Nat], NEW more \in [CallKeys -> Nat],
           \A k \in CallKeys : count[k] <= more[k],
           NEW file, FileOK(file, count)
    PROVE  FileOK(file, more)
<1>1. ASSUME NEW i \in DOMAIN file PROVE file[i].n <= more[file[i].call]
  <2>1. file[i] \in Bursts
    BY <1>1, ElementOfSeq, LenProperties DEF FileOK
  <2>2. file[i].call \in CallKeys /\ file[i].n \in Nat
    BY <2>1, Numbers DEF Bursts
  <2> QED
    BY <1>1, <2>2 DEF FileOK
<1> QED
  BY <1>1 DEF FileOK

\* A burst that write_all writes goes to the end of its file.
LEMMA FilesWrite ==
    ASSUME TypeOK, NEW k \in CallKeys, seen[k] < MaxBursts,
           NEW calls, NEW files, CallsOK(calls), DiskOK(files), k \in DOMAIN calls,
           FilesOK(calls, files, seen), WriteAll(calls, files, k),
           seen' = [seen EXCEPT ![k] = @ + 1]
    PROVE  /\ FilesOK(active, disk, seen)'
           /\ \A p \in DOMAIN files : p # calls[k].path => disk'[p] = files[p]
           /\ \/ disk' = files /\ active'[k].failed /\ faults' = faults + 1
              \/ /\ Range(disk'[calls[k].path]) = Range(files[calls[k].path]) \cup {Burst(k)}
                 /\ active'[k].failed = calls[k].failed /\ faults' = faults
<1> DEFINE path == calls[k].path
           offset == calls[k].offset
           b == Burst(k)
           wrote == [path |-> path, last |-> now, offset |-> offset + 1,
                     failed |-> calls[k].failed]
           refused == [path |-> path, last |-> now, offset |-> offset, failed |-> TRUE]
<1>1. /\ DOMAIN active' = DOMAIN calls /\ DOMAIN disk' = DOMAIN files
      /\ \A j \in DOMAIN calls : j # k => active'[j] = calls[j]
      /\ active'[k].path = path
      /\ \A p \in DOMAIN files : p # path => disk'[p] = files[p]
  BY WriteKeeps
<1>2. \/ /\ active'[k] = wrote
         /\ \A p \in DOMAIN files : disk'[p] =
              IF p = path THEN Overwritten(files[p], offset, b) ELSE files[p]
         /\ faults' = faults
      \/ /\ active'[k] = refused
         /\ disk' = files
         /\ faults' = faults + 1
  BY WriteIs
<1>3. /\ wrote.offset = offset + 1 /\ wrote.failed = calls[k].failed
      /\ refused.offset = offset /\ refused.failed = TRUE
  OBVIOUS
<1>4. /\ path \in DOMAIN files /\ Names(path, k) /\ offset = Len(files[path])
      /\ FileOK(files[path], seen) /\ \A c \in Range(files[path]) : c.call = k
  BY DEF FilesOK
<1>5. /\ calls[k] \in CallMeta /\ offset \in Nat
      /\ files[path] \in Seq(Bursts \cup {Hole}) /\ files[path] \in Seq(Bursts)
  BY <1>4 DEF CallsOK, CallMeta, DiskOK, FileOK
<1>6. b \in Bursts /\ b.call = k /\ b.n = seen[k] + 1
  BY PathIs
<1>7. /\ seen \in [CallKeys -> Nat] /\ seen' \in [CallKeys -> Nat]
      /\ \A j \in CallKeys : seen[j] <= seen'[j]
      /\ seen'[k] = seen[k] + 1
  BY Numbers DEF TypeOK
<1> HIDE DEF wrote, refused, path, offset, b
<1>8. \A j \in DOMAIN calls : j # k => calls[j].path # path
  BY DEF FilesOK, path
<1>9. \A i, j \in DOMAIN active' : active'[i].path = active'[j].path => i = j
  BY <1>1, <1>8 DEF FilesOK
<1>10. \A p \in DOMAIN files : FileOK(files[p], seen')
  BY <1>7, FileGrows DEF FilesOK
<1>11. CASE /\ active'[k] = refused
            /\ disk' = files
            /\ faults' = faults + 1
  <2>1. active'[k].path = path /\ active'[k].offset = offset
    BY <1>1, <1>3, <1>11
  <2>2. \A j \in DOMAIN active' : /\ active'[j].path \in DOMAIN disk'
                                  /\ Names(active'[j].path, j)
                                  /\ active'[j].offset = Len(disk'[active'[j].path])
                                  /\ \A c \in Range(disk'[active'[j].path]) : c.call = j
    BY <1>1, <1>4, <1>11, <2>1 DEF FilesOK
  <2>3. \A p \in DOMAIN disk' : FileOK(disk'[p], seen')
    BY <1>10, <1>11
  <2>4. \A p, q \in DOMAIN disk' :
          \A c \in Range(disk'[p]), d \in Range(disk'[q]) :
            c.call = d.call /\ c.n = d.n => p = q
    BY <1>11 DEF FilesOK
  <2>5. FilesOK(active', disk', seen')
    BY <1>9, <2>2, <2>3, <2>4 DEF FilesOK
  <2> QED
    BY <1>1, <1>3, <1>11, <2>5 DEF path
<1>12. CASE /\ active'[k] = wrote
            /\ \A p \in DOMAIN files : disk'[p] =
                 IF p = path THEN Overwritten(files[p], offset, b) ELSE files[p]
            /\ faults' = faults
  <2>1. PICK f : f = files[path]
    OBVIOUS
  <2>2. PICK g : g = Overwritten(f, offset, b)
    OBVIOUS
  <2>3. disk'[path] = g
    BY <1>4, <1>12, <2>1, <2>2
  <2>4. /\ Len(g) = offset + 1 /\ DOMAIN g = 1..(offset + 1) /\ DOMAIN f = 1..offset
        /\ \A i \in 1..offset : g[i] = f[i]
        /\ g[offset + 1] = b
        /\ Range(g) = Range(f) \cup {b}
        /\ g \in Seq(Bursts)
    <3>1. f \in Seq(Bursts) /\ b \in Bursts /\ g = Overwritten(f, Len(f), b) /\ offset = Len(f)
      BY <1>4, <1>5, <1>6, <2>1, <2>2
    <3> QED
      BY <3>1, Appending
  <2>5. \A i \in 1..offset : /\ f[i] \in Bursts /\ f[i] \in Range(f)
                             /\ f[i].n <= seen[f[i].call]
    BY <1>4, <1>5, <2>1, <2>4, ElementOfSeq, LenProperties DEF FileOK, Range
  <2>6. \A i \in 1..offset : f[i].call = k /\ f[i].n \in Nat /\ f[i].n <= seen[k]
    BY <1>4, <2>1, <2>5, Numbers DEF Bursts
  <2>7. /\ \A i \in 1..(offset + 1) : i \in 1..offset \/ i = offset + 1
        /\ \A i, j \in 1..(offset + 1) : i < j => i \in 1..offset
    BY <1>5
  <2>8. FileOK(g, seen')
    <3>1. \A i \in DOMAIN g : g[i].call = k /\ g[i].n <= seen'[g[i].call]
      BY <1>4, <1>6, <1>7, <2>4, <2>6, <2>7
    <3>2. ASSUME NEW i \in DOMAIN g, NEW j \in DOMAIN g, i < j PROVE g[i].n < g[j].n
      <4>1. i \in 1..offset /\ g[i] = f[i]
        BY <2>4, <2>7, <3>2
      <4>2. CASE j \in 1..offset
        BY <1>4, <2>1, <2>4, <3>2, <4>1, <4>2 DEF FileOK
      <4>3. CASE j = offset + 1
        BY <1>6, <1>7, <2>4, <2>6, <4>1, <4>3
      <4> QED
        BY <2>4, <2>7, <4>2, <4>3
    <3> QED
      BY <2>4, <3>1, <3>2 DEF FileOK
  <2>9. \A p \in DOMAIN disk' : FileOK(disk'[p], seen')
    BY <1>1, <1>10, <2>3, <2>8
  <2>10. \A p \in DOMAIN files : \A c \in Range(files[p]) : c # b /\ ~(c.call = k /\ c.n = b.n)
    <3> SUFFICES ASSUME NEW p \in DOMAIN files, NEW c \in Range(files[p]), c.call = k
                 PROVE  c.n # b.n
      BY <1>6
    <3>1. PICK i \in DOMAIN files[p] : c = files[p][i]
      BY DEF Range
    <3>2. c \in Bursts /\ c.n <= seen[c.call]
      BY <3>1, ElementOfSeq, LenProperties DEF FilesOK, FileOK
    <3>3. c.n \in Nat
      BY <3>2 DEF Bursts
    <3> QED
      BY <1>6, <1>7, <3>2, <3>3
  <2>11. \A p \in DOMAIN files : \A c \in Range(disk'[p]) :
           c \in Range(files[p]) \/ (p = path /\ c = b)
    BY <1>1, <2>1, <2>3, <2>4
  <2>12. \A p, q \in DOMAIN disk' :
           \A c \in Range(disk'[p]), d \in Range(disk'[q]) :
             c.call = d.call /\ c.n = d.n => p = q
    BY <1>1, <1>6, <2>10, <2>11 DEF FilesOK
  <2>13. \A j \in DOMAIN active' : /\ active'[j].path \in DOMAIN disk'
                                   /\ Names(active'[j].path, j)
                                   /\ active'[j].offset = Len(disk'[active'[j].path])
                                   /\ \A c \in Range(disk'[active'[j].path]) : c.call = j
    <3>1. active'[k].offset = Len(disk'[path])
      BY <1>3, <1>12, <2>3, <2>4
    <3>2. \A c \in Range(disk'[path]) : c.call = k
      BY <1>4, <1>6, <2>1, <2>3, <2>4
    <3> QED
      BY <1>1, <1>4, <1>8, <3>1, <3>2 DEF FilesOK
  <2>14. FilesOK(active', disk', seen')
    BY <1>9, <2>9, <2>12, <2>13 DEF FilesOK
  <2> QED
    BY <1>1, <1>3, <1>12, <2>1, <2>3, <2>4, <2>14 DEF path, b
<1> QED
  BY <1>2, <1>11, <1>12

\* The bursts of a call in a set of files.
Recorded(files, k) == {b \in Bursts : b.call = k /\ \E p \in DOMAIN files : b \in Range(files[p])}

\* What a burst that is written changes.
Written(k) ==
    /\ k \in DOMAIN active' /\ ~active'[k].failed /\ active'[k].last = now /\ faults' = faults
    /\ IF k \in DOMAIN Flushed THEN active'[k].path = active[k].path
                               ELSE active'[k].path \notin DOMAIN disk
    /\ DOMAIN disk' = DOMAIN disk \cup {active'[k].path}
    /\ \A p \in DOMAIN disk : p # active'[k].path => disk'[p] = disk[p]
    /\ Range(disk'[active'[k].path]) =
         {Burst(k)} \cup (IF k \in DOMAIN Flushed THEN Range(disk[active[k].path]) ELSE {})

\* What a burst that is not changes: its write failed, or an earlier one did.
Dropped(k) ==
    /\ \A j \in CallKeys : Recorded(disk', j) = Recorded(disk, j)
    /\ \/ faults' = faults + 1
       \/ /\ faults' = faults
          /\ k \in DOMAIN active /\ active[k].failed
          /\ k \in DOMAIN active' /\ ~active'[k].failed

LEMMA BurstFiles ==
    ASSUME StartsApart, FilesInv, NEW k \in CallKeys, HandleBurst(k)
    PROVE  /\ FilesOK(active, disk, seen)'
           /\ \A j \in CallKeys : j # k => (j \in DOMAIN active' <=> j \in DOMAIN Flushed)
           /\ \A j \in DOMAIN Flushed : j # k => active'[j] = active[j]
           /\ Written(k) \/ Dropped(k)
<1>1. TypeOK /\ running /\ TimeOK(active, disk, now) /\ FilesOK(active, disk, seen)
  BY BurstIs DEF FilesInv, TimeInv
<1>2. seen[k] < MaxBursts /\ seen' = [seen EXCEPT ![k] = @ + 1]
  BY <1>1, BurstIs
<1>3. /\ CallsOK(Flushed) /\ CallsOK(Opened(k)) /\ DiskOK(disk) /\ DiskOK(Created(k))
      /\ FilesOK(Flushed, disk, seen)
      /\ k \in DOMAIN Opened(k)
  BY <1>1, TypeOpened, FilesFlushed, OpenedIs
<1>4. CASE k \in DOMAIN Flushed /\ ~active[k].failed /\ WriteAll(Flushed, disk, k)
  <2>1. PICK path : path = Flushed[k].path
    OBVIOUS
  <2>2. /\ DOMAIN active' = DOMAIN Flushed /\ DOMAIN disk' = DOMAIN disk
        /\ \A j \in DOMAIN Flushed : j # k => active'[j] = Flushed[j]
        /\ active'[k].path = path /\ active'[k].last = now
    BY <1>4, <2>1, WriteKeeps
  <2>3. /\ FilesOK(active, disk, seen)'
        /\ \A p \in DOMAIN disk : p # path => disk'[p] = disk[p]
        /\ \/ disk' = disk /\ active'[k].failed /\ faults' = faults + 1
           \/ /\ Range(disk'[path]) = Range(disk[path]) \cup {Burst(k)}
              /\ active'[k].failed = Flushed[k].failed /\ faults' = faults
    <3>1. /\ FilesOK(active, disk, seen)'
          /\ \A p \in DOMAIN disk : p # Flushed[k].path => disk'[p] = disk[p]
          /\ \/ disk' = disk /\ active'[k].failed /\ faults' = faults + 1
             \/ /\ Range(disk'[Flushed[k].path])
                     = Range(disk[Flushed[k].path]) \cup {Burst(k)}
                /\ active'[k].failed = Flushed[k].failed /\ faults' = faults
      BY <1>1, <1>2, <1>3, <1>4, FilesWrite
    <3> QED
      BY <2>1, <3>1
  <2>4. /\ Flushed[k] = active[k] /\ path = active[k].path /\ path \in DOMAIN disk
        /\ \A j \in DOMAIN Flushed : Flushed[j] = active[j]
    BY <1>1, <1>4, <2>1, FlushedIs DEF FilesOK
  <2>5. ASSUME disk' = disk, faults' = faults + 1 PROVE Dropped(k)
    BY <2>5 DEF Dropped
  <2>6. ASSUME Range(disk'[path]) = Range(disk[path]) \cup {Burst(k)},
               active'[k].failed = Flushed[k].failed, faults' = faults
        PROVE  Written(k)
    <3>1. ~active'[k].failed
      BY <1>4, <2>4, <2>6, Zenon
    <3>2. DOMAIN disk' = DOMAIN disk \cup {path}
      BY <2>2, <2>4
    <3>3. Range(disk'[path]) = {Burst(k)} \cup Range(disk[path])
      BY <2>6
    <3> QED
      BY <1>4, <2>2, <2>3, <2>4, <2>6, <3>1, <3>2, <3>3, Zenon DEF Written
  <2>7. Written(k) \/ Dropped(k)
    BY <2>3, <2>5, <2>6
  <2> QED
    BY <2>2, <2>3, <2>4, <2>7
<1>5. CASE k \notin DOMAIN Flushed /\ WriteAll(Opened(k), Created(k), k)
  <2>1. PICK path : path = PathFor(k)
    OBVIOUS
  <2>2. /\ DOMAIN Opened(k) = DOMAIN Flushed \cup {k}
        /\ Opened(k)[k].path = path /\ Opened(k)[k].failed = FALSE
        /\ \A j \in DOMAIN Flushed : Opened(k)[j] = Flushed[j]
        /\ DOMAIN Created(k) = DOMAIN disk \cup {path}
        /\ Created(k)[path] = <<>>
        /\ \A p \in DOMAIN disk : p # path => Created(k)[p] = disk[p]
    BY <1>5, <2>1, OpenedIs
  <2>3. /\ DOMAIN active' = DOMAIN Opened(k) /\ DOMAIN disk' = DOMAIN Created(k)
        /\ \A j \in DOMAIN Opened(k) : j # k => active'[j] = Opened(k)[j]
        /\ active'[k].path = path /\ active'[k].last = now
    BY <1>3, <1>5, <2>2, WriteKeeps
  <2>4. StartsAlone(k)
    <3>1. FirstBurst(k)
      BY <1>5 DEF HandleBurst, NextBurst, FirstBurst, CreateFails, RefusedBurst
    <3> QED
      BY <3>1 DEF StartsApart
  <2>5. FilesOK(Opened(k), Created(k), seen)
    BY <1>1, <1>5, <2>4, FilesOpened
  <2>6. /\ FilesOK(active, disk, seen)'
        /\ \A p \in DOMAIN Created(k) : p # Opened(k)[k].path => disk'[p] = Created(k)[p]
        /\ \/ disk' = Created(k) /\ active'[k].failed /\ faults' = faults + 1
           \/ /\ Range(disk'[Opened(k)[k].path])
                   = Range(Created(k)[Opened(k)[k].path]) \cup {Burst(k)}
              /\ active'[k].failed = Opened(k)[k].failed /\ faults' = faults
    BY <1>1, <1>2, <1>3, <1>5, <2>5, FilesWrite
  <2>7. path \notin DOMAIN disk
    BY <1>1, <1>5, <2>1, <2>4, NewName
  <2>8. Range(<<>>) = {}
    BY DEF Range
  <2>9. \A j \in DOMAIN Flushed : Flushed[j] = active[j]
    BY FlushedIs
  <2>10. ASSUME disk' = Created(k), faults' = faults + 1 PROVE Dropped(k)
    <3>1. \A j \in CallKeys : Recorded(disk', j) = Recorded(disk, j)
      <4>1. DOMAIN disk' = DOMAIN disk \cup {path} /\ Range(disk'[path]) = {}
            /\ \A p \in DOMAIN disk : disk'[p] = disk[p]
        BY <2>2, <2>7, <2>8, <2>10
      <4> QED
        BY <4>1 DEF Recorded
    <3> QED
      BY <2>10, <3>1 DEF Dropped
  <2>11. ASSUME Range(disk'[path]) = Range(<<>>) \cup {Burst(k)},
               active'[k].failed = FALSE, faults' = faults
        PROVE  Written(k)
    <3>1. \A p \in DOMAIN disk : p # path => disk'[p] = disk[p]
      BY <2>2, <2>6
    <3>2. ~active'[k].failed /\ k \in DOMAIN active' /\ DOMAIN disk' = DOMAIN disk \cup {path}
      BY <2>2, <2>3, <2>11
    <3>3. Range(disk'[path]) = {Burst(k)} \cup {}
      BY <2>8, <2>11
    <3> QED
      BY <1>5, <2>3, <2>7, <2>11, <3>1, <3>2, <3>3, Zenon DEF Written
  <2>12. Written(k) \/ Dropped(k)
    BY <2>2, <2>6, <2>10, <2>11
  <2> QED
    BY <1>5, <2>2, <2>3, <2>6, <2>9, <2>12
<1>6. ASSUME disk' = disk, DOMAIN active' = DOMAIN Flushed,
             \A j \in DOMAIN Flushed : /\ active'[j].path = Flushed[j].path
                                       /\ active'[j].offset = Flushed[j].offset,
             \A j \in DOMAIN Flushed : j # k => active'[j] = Flushed[j],
             \/ faults' = faults + 1
             \/ /\ k \in DOMAIN Flushed /\ active[k].failed
                /\ ~active'[k].failed /\ faults' = faults
      PROVE  /\ FilesOK(active, disk, seen)'
             /\ \A j \in CallKeys : j # k => (j \in DOMAIN active' <=> j \in DOMAIN Flushed)
             /\ \A j \in DOMAIN Flushed : j # k => active'[j] = active[j]
             /\ Written(k) \/ Dropped(k)
  <2>1. seen \in [CallKeys -> Nat] /\ seen' \in [CallKeys -> Nat]
        /\ \A j \in CallKeys : seen[j] <= seen'[j]
    BY <1>1, <1>2, Numbers DEF TypeOK
  <2>2. \A p \in DOMAIN disk : FileOK(disk[p], seen')
    BY <1>1, <2>1, FileGrows DEF FilesOK
  <2>3. FilesOK(active, disk, seen)'
    BY <1>3, <1>6, <2>2 DEF FilesOK
  <2>4. Dropped(k)
    BY <1>6, FlushedIs DEF Dropped
  <2> QED
    BY <1>6, <2>3, <2>4, FlushedIs
<1> QED
  BY <1>1, <1>4, <1>5, <1>6, BurstIs

\* When the process is killed, a file loses its end at most.
LEMMA FrontOK ==
    ASSUME NEW f, NEW count, FileOK(f, count)
    PROVE  FileOK(Front(f), count) /\ Range(Front(f)) \subseteq Range(f)
<1>1. f \in Seq(Bursts)
  BY DEF FileOK
<1>2. /\ Front(f) \in Seq(Bursts)
      /\ \A i \in DOMAIN Front(f) : i \in DOMAIN f /\ Front(f)[i] = f[i]
  BY <1>1, Fronts
<1> QED
  BY <1>2 DEF FileOK, Range

LEMMA FilesNext == FilesInv /\ [Next /\ StartsApart]_vars => FilesInv'
<1> SUFFICES ASSUME FilesInv, [Next /\ StartsApart]_vars
             PROVE  FilesOK(active, disk, seen)'
  BY TimeNext DEF FilesInv
<1>1. FilesOK(active, disk, seen)
  BY DEF FilesInv
<1>2. CASE StartsApart /\ \E k \in CallKeys : HandleBurst(k)
  BY <1>2, BurstFiles
<1>3. CASE FlushIdle
  BY <1>1, <1>3, FilesFlushed DEF FlushIdle
<1>4. CASE Exit
  <2>1. PICK gone \in SUBSET InFlight :
          disk' = [p \in DOMAIN disk |-> IF \E k \in gone : active[k].path = p
                                        THEN Front(disk[p]) ELSE disk[p]]
    BY <1>4 DEF Exit
  <2>2. DOMAIN active' = {} /\ seen' = seen
    BY <1>4 DEF Exit
  <2>3. \A p \in DOMAIN disk : FileOK(disk[p], seen) /\ FileOK(Front(disk[p]), seen)
                               /\ Range(Front(disk[p])) \subseteq Range(disk[p])
    BY <1>1, FrontOK DEF FilesOK
  <2>4. DOMAIN disk' = DOMAIN disk
        /\ \A p \in DOMAIN disk : FileOK(disk'[p], seen)
                                  /\ Range(disk'[p]) \subseteq Range(disk[p])
    BY <2>1, <2>3
  <2>5. \A p, q \in DOMAIN disk : \A b \in Range(disk'[p]), c \in Range(disk'[q]) :
          b.call = c.call /\ b.n = c.n => p = q
    BY <1>1, <2>4 DEF FilesOK
  <2> QED
    BY <2>2, <2>4, <2>5 DEF FilesOK
<1>5. CASE Tick
  BY <1>1, <1>5 DEF Tick
<1>6. CASE UNCHANGED vars
  BY <1>1, <1>6 DEF vars
<1> QED
  BY <1>2, <1>3, <1>4, <1>5, <1>6 DEF Next

LEMMA FilesInit == Init => FilesInv
<1>1. Init => TypeOK
  BY Numbers DEF Init, TypeOK
<1> QED
  BY <1>1 DEF Init, FilesInv, TimeInv, TimeOK, FilesOK

\* As long as no radio starts two calls on a slot within a second, however often
\* it calls, files stay recordings of one call each, in order and without a hole:
\* File::create truncates nothing, and the one handle of a file stands at its end
\* (pcm_writer.rs:88-111, 177-184).
THEOREM Intact == SpecApart => []RecordingsAreIntact
<1>1. FilesInv => RecordingsAreIntact
  <2> SUFFICES ASSUME FilesInv, NEW p \in DOMAIN disk,
                      NEW i \in DOMAIN disk[p], NEW j \in DOMAIN disk[p]
               PROVE  /\ disk[p][i] # Hole
                      /\ i < j => /\ disk[p][i].call = disk[p][j].call
                                  /\ disk[p][i].n < disk[p][j].n
    BY DEF RecordingsAreIntact
  <2>1. FileOK(disk[p], seen)
    BY DEF FilesInv, FilesOK
  <2>2. disk[p][i] \in Bursts /\ disk[p][j] \in Bursts
    BY <2>1, ElementOfSeq, LenProperties DEF FileOK
  <2>3. Hole \notin Bursts
    BY DEF Hole, Bursts
  <2>4. disk[p][i].call = disk[p][j].call
    BY <2>1 DEF FileOK
  <2> QED
    BY <2>1, <2>2, <2>3, <2>4 DEF FileOK
<1> QED
  BY <1>1, FilesInit, FilesNext, PTL DEF SpecApart

-----------------------------------------------------------------------------
(* What is lost.                                                           *)

\* A burst that is handled is on no file yet.
LEMMA NewBurst ==
    ASSUME FilesInv, NEW k \in CallKeys, seen[k] < MaxBursts
    PROVE  /\ Burst(k) \in Bursts /\ Burst(k).call = k /\ Burst(k).n = seen[k] + 1
           /\ \A b \in OnDisk(k) : b.n \in Nat /\ b.n <= seen[k]
           /\ Burst(k) \notin OnDisk(k)
<1>1. TypeOK /\ FilesOK(active, disk, seen)
  BY DEF FilesInv, TimeInv
<1>2. Burst(k) \in Bursts /\ Burst(k).call = k /\ Burst(k).n = seen[k] + 1
  BY <1>1, PathIs
<1>3. ASSUME NEW b \in OnDisk(k) PROVE b.n \in Nat /\ b.n <= seen[k]
  <2>1. PICK p \in DOMAIN disk : b \in Range(disk[p])
    BY <1>3 DEF OnDisk
  <2>2. PICK i \in DOMAIN disk[p] : b = disk[p][i]
    BY <2>1 DEF Range
  <2>3. b \in Bursts /\ b.call = k
    BY <1>3 DEF OnDisk
  <2> QED
    BY <1>1, <2>2, <2>3 DEF FilesOK, FileOK, Bursts
<1>4. seen[k] \in Nat
  BY <1>1, Numbers DEF TypeOK
<1> QED
  BY <1>2, <1>3, <1>4

\* What a burst changes on disk.
LEMMA BurstRecords ==
    ASSUME StartsApart, FilesInv, NEW k \in CallKeys, HandleBurst(k)
    PROVE  /\ \A j \in CallKeys : j # k => OnDisk(j)' = OnDisk(j)
           /\ Written(k) => OnDisk(k)' = OnDisk(k) \cup {Burst(k)}
           /\ Dropped(k) => OnDisk(k)' = OnDisk(k)
<1>1. TypeOK /\ running /\ FilesOK(active, disk, seen) /\ seen[k] < MaxBursts
  BY BurstIs DEF FilesInv, TimeInv
<1>2. Burst(k) \in Bursts /\ Burst(k).call = k
  BY <1>1, NewBurst
<1>3. ASSUME Dropped(k), NEW j \in CallKeys PROVE OnDisk(j)' = OnDisk(j)
  BY <1>3 DEF Dropped, Recorded, OnDisk
<1>4. ASSUME Written(k), NEW j \in CallKeys
      PROVE  OnDisk(j)' = {b \in Bursts : b.call = j /\ (b \in OnDisk(j) \/ b = Burst(k))}
  <2>1. PICK path : path = active'[k].path
    OBVIOUS
  <2>2. /\ DOMAIN disk' = DOMAIN disk \cup {path}
        /\ \A p \in DOMAIN disk : p # path => disk'[p] = disk[p]
    BY <1>4, <2>1 DEF Written
  <2>3. CASE k \in DOMAIN Flushed
    <3>1. path = active[k].path /\ path \in DOMAIN disk
      BY <1>1, <1>4, <2>1, <2>3, FlushedIs DEF Written, FilesOK
    <3>2. Range(disk'[path]) = {Burst(k)} \cup Range(disk[path])
      BY <1>4, <2>1, <2>3, <3>1 DEF Written
    <3> QED
      BY <2>2, <3>1, <3>2 DEF OnDisk
  <2>4. CASE k \notin DOMAIN Flushed
    <3>1. path \notin DOMAIN disk /\ Range(disk'[path]) = {Burst(k)}
      BY <1>4, <2>1, <2>4 DEF Written
    <3> QED
      BY <2>2, <3>1 DEF OnDisk
  <2> QED
    BY <2>3, <2>4
<1>5. \A j \in CallKeys : OnDisk(j) \subseteq {b \in Bursts : b.call = j}
  BY DEF OnDisk
<1>6. ASSUME Written(k) PROVE OnDisk(k)' = OnDisk(k) \cup {Burst(k)}
  BY <1>2, <1>4, <1>5, <1>6
<1>7. ASSUME NEW j \in CallKeys, j # k PROVE OnDisk(j)' = OnDisk(j)
  <2>1. CASE Written(k)
    <3>1. OnDisk(j)' = {b \in Bursts : b.call = j /\ (b \in OnDisk(j) \/ b = Burst(k))}
      BY <1>4, <2>1
    <3>2. \A b \in OnDisk(j) : b \in Bursts /\ b.call = j
      BY DEF OnDisk
    <3> QED
      BY <1>2, <1>7, <3>1, <3>2
  <2> QED
    BY <1>3, <2>1, BurstFiles
<1> QED
  BY <1>3, <1>6, <1>7

\* When the process is killed, a call loses the burst at its handle at most.
LEMMA ExitRecords ==
    ASSUME FilesInv, Exit, NEW k \in CallKeys
    PROVE  /\ OnDisk(k)' \subseteq OnDisk(k)
           /\ \E b : OnDisk(k) \ {b} \subseteq OnDisk(k)'
<1>1. FilesOK(active, disk, seen) /\ DOMAIN active \subseteq CallKeys
  BY DEF FilesInv, TimeInv, TypeOK
<1>2. PICK gone \in SUBSET InFlight :
        disk' = [p \in DOMAIN disk |-> IF \E j \in gone : active[j].path = p
                                      THEN Front(disk[p]) ELSE disk[p]]
  BY DEF Exit
<1>3. DOMAIN disk' = DOMAIN disk
      /\ \A p \in DOMAIN disk : Range(disk'[p]) \subseteq Range(disk[p])
  BY <1>1, <1>2, FrontOK DEF FilesOK
<1>4. OnDisk(k)' \subseteq OnDisk(k)
  BY <1>3 DEF OnDisk
<1>5. PICK b : b = disk[active[k].path][Len(disk[active[k].path])]
  OBVIOUS
<1>6. ASSUME NEW c \in OnDisk(k), c # b PROVE c \in OnDisk(k)'
  <2>1. PICK p \in DOMAIN disk : c \in Range(disk[p])
    BY <1>6 DEF OnDisk
  <2>2. PICK i \in DOMAIN disk[p] : c = disk[p][i]
    BY <2>1 DEF Range
  <2>3. disk[p] \in Seq(Bursts) /\ c \in Bursts /\ c.call = k
    BY <1>1, <1>6, <2>2 DEF FilesOK, FileOK, OnDisk
  <2>4. CASE \E j \in gone : active[j].path = p
    <3>1. PICK j \in gone : active[j].path = p
      BY <2>4
    <3>2. j \in DOMAIN active
      BY <3>1 DEF InFlight
    <3>3. j = k
      BY <1>1, <2>1, <2>3, <3>1, <3>2 DEF FilesOK
    <3>4. i # Len(disk[p])
      BY <1>5, <1>6, <2>2, <3>1, <3>3
    <3>5. i \in DOMAIN Front(disk[p]) /\ Front(disk[p])[i] = c
      BY <2>2, <2>3, <3>4, Fronts
    <3>6. disk'[p] = Front(disk[p])
      BY <1>2, <2>4
    <3>7. c \in Range(disk'[p])
      BY <3>5, <3>6 DEF Range
    <3> QED
      BY <1>3, <2>3, <3>7 DEF OnDisk
  <2>5. CASE ~ \E j \in gone : active[j].path = p
    <3>1. disk'[p] = disk[p]
      BY <1>2, <2>5
    <3> QED
      BY <1>3, <2>1, <2>3, <3>1 DEF OnDisk
  <2> QED
    BY <2>4, <2>5
<1> QED
  BY <1>4, <1>6

\* Owed is a number, and flush_idle only forgets it.
LEMMA OwedIs ==
    ASSUME NEW k
    PROVE  /\ Owed(k) \in {0, 1} /\ Owed(k)' \in {0, 1}
           /\ (k \in DOMAIN active' => k \in DOMAIN Flushed /\ active'[k] = active[k])
                => Owed(k)' <= Owed(k)
<1>1. Owed(k) \in {0, 1} /\ Owed(k)' \in {0, 1}
  BY DEF Owed
<1>2. ASSUME k \in DOMAIN active' => k \in DOMAIN Flushed /\ active'[k] = active[k]
      PROVE  Owed(k)' = 0 \/ Owed(k)' = Owed(k)
  BY <1>2, FlushedIs, Zenon DEF Owed
<1> QED
  BY <1>1, <1>2

\* A loss is accounted for by its fault, or by the process's end.
LEMMA LossNext == FilesInv /\ LossInv /\ [Next /\ StartsApart]_vars => LossInv'
<1> SUFFICES ASSUME FilesInv, LossInv, [Next /\ StartsApart]_vars, NEW j \in CallKeys
             PROVE  /\ IsFiniteSet(OnDisk(j)')
                    /\ LossOK(seen'[j], Owed(j)', Cardinality(OnDisk(j)'), faults',
                              IF running' THEN 0 ELSE 1)
  BY DEF LossInv
<1>1. PICK h \in Nat : h = seen[j]
  BY Numbers DEF FilesInv, TimeInv, TypeOK
<1>2. PICK f \in Nat : f = faults
  BY Numbers DEF FilesInv, TimeInv, TypeOK
<1>3. PICK S : S = OnDisk(j)
  OBVIOUS
<1>4. PICK T : T = OnDisk(j)'
  OBVIOUS
<1>5. IsFiniteSet(S) /\ Cardinality(S) \in Nat
  BY <1>3, FS_CardinalityType DEF LossInv
<1>6. PICK o \in {0, 1} : o = Owed(j)
  BY OwedIs
<1>7. PICK o2 \in {0, 1} : o2 = Owed(j)'
  BY OwedIs
<1>8. PICK x \in {0, 1} : x = IF running THEN 0 ELSE 1
  OBVIOUS
<1>9. LossOK(h, o, Cardinality(S), f, x)
  BY <1>1, <1>2, <1>3, <1>6, <1>8 DEF LossInv
<1>10. PICK c \in Nat : c = Cardinality(S)
  BY <1>5
<1>11. LossOK(h, o, c, f, x)
  BY <1>9, <1>10
<1>12. /\ o2 <= o => LossOK(h, o2, c, f, x) /\ LossOK(h, o2, c, f + 1, x)
       /\ LossOK(h + 1, 0, c + 1, f, x)
       /\ LossOK(h + 1, o2, c, f + 1, x)
       /\ o = 1 => LossOK(h + 1, 0, c, f, x)
       /\ \A d \in Nat : d + 1 >= c /\ x = 0 => LossOK(h, 0, d, f, 1)
  BY <1>11, SMTT(30) DEF LossOK
<1>13. ASSUME StartsApart, NEW k \in CallKeys, HandleBurst(k)
       PROVE  IsFiniteSet(T) /\ LossOK(seen'[j], o2, Cardinality(T), faults',
                                       IF running' THEN 0 ELSE 1)
  <2>1. /\ running /\ running' = running /\ seen[k] < MaxBursts
        /\ seen' = [seen EXCEPT ![k] = @ + 1] /\ seen \in [CallKeys -> 0..MaxBursts]
    BY <1>13, BurstIs DEF FilesInv, TimeInv, TypeOK
  <2>2. (IF running' THEN 0 ELSE 1) = x
    BY <1>8, <2>1
  <2>3. CASE j # k
    <3>1. T = S
      BY <1>3, <1>4, <1>13, <2>3, BurstRecords
    <3>2. j \in DOMAIN active' => j \in DOMAIN Flushed /\ active'[j] = active[j]
      BY <1>13, <2>3, BurstFiles
    <3>3. o2 <= o
      BY <1>6, <1>7, <3>2, OwedIs
    <3>4. seen'[j] = h
      BY <1>1, <2>1, <2>3
    <3>5. faults' = f \/ faults' = f + 1
      BY <1>2, <1>13, BurstFiles DEF Written, Dropped
    <3>6. LossOK(h, o2, Cardinality(S), f, x) /\ LossOK(h, o2, Cardinality(S), f + 1, x)
      BY <1>10, <1>12, <3>3
    <3> QED
      BY <1>5, <2>2, <3>1, <3>4, <3>5, <3>6
  <2>4. CASE j = k
    <3>1. seen'[j] = h + 1
      BY <1>1, <2>1, <2>4
    <3>2. CASE Written(k)
      <4>1. PICK b : b = Burst(k)
        OBVIOUS
      <4>2. T = S \cup {b} /\ b \notin S
        BY <1>3, <1>4, <1>13, <2>1, <2>4, <3>2, <4>1, BurstRecords, NewBurst
      <4>3. IsFiniteSet(T) /\ Cardinality(T) = Cardinality(S) + 1
        BY <1>5, <4>2, FS_AddElement
      <4>4. o2 = 0
        BY <1>7, <2>4, <3>2 DEF Written, Owed
      <4>5. faults' = f
        BY <1>2, <3>2 DEF Written
      <4>6. LossOK(h + 1, 0, Cardinality(S) + 1, f, x)
        BY <1>10, <1>12
      <4> QED
        BY <2>2, <3>1, <4>3, <4>4, <4>5, <4>6
    <3>3. CASE Dropped(k)
      <4>1. T = S
        BY <1>3, <1>4, <1>13, <2>4, <3>3, BurstRecords
      <4>2. CASE faults' = faults + 1
        <5>1. LossOK(h + 1, o2, Cardinality(S), f + 1, x)
          BY <1>10, <1>12
        <5> QED
          BY <1>2, <1>5, <2>2, <3>1, <4>1, <4>2, <5>1
      <4>3. CASE /\ faults' = faults
                 /\ k \in DOMAIN active /\ active[k].failed
                 /\ k \in DOMAIN active' /\ ~active'[k].failed
        <5>1. o = 1
          BY <1>6, <2>4, <4>3 DEF Owed
        <5>2. o2 = 0
          BY <1>7, <2>4, <4>3 DEF Owed
        <5>3. LossOK(h + 1, 0, Cardinality(S), f, x)
          BY <1>10, <1>12, <5>1
        <5> QED
          BY <1>2, <1>5, <2>2, <3>1, <4>1, <4>3, <5>2, <5>3
      <4> QED
        BY <3>3, <4>2, <4>3 DEF Dropped
    <3> QED
      BY <1>13, <3>2, <3>3, BurstFiles
  <2> QED
    BY <2>3, <2>4
<1>14. ASSUME FlushIdle \/ Tick \/ UNCHANGED vars
       PROVE  IsFiniteSet(T) /\ LossOK(seen'[j], o2, Cardinality(T), faults',
                                       IF running' THEN 0 ELSE 1)
  <2>1. disk' = disk /\ seen' = seen /\ faults' = faults /\ running' = running
        /\ (active' = Flushed \/ active' = active)
    BY <1>14 DEF FlushIdle, Tick, vars
  <2>2. T = S
    BY <1>3, <1>4, <2>1 DEF OnDisk
  <2>3. o2 <= o
    <3>1. CASE active' = Flushed
      BY <1>6, <1>7, <3>1, OwedIs, FlushedIs
    <3>2. CASE active' = active
      BY <1>6, <1>7, <3>2 DEF Owed
    <3> QED
      BY <2>1, <3>1, <3>2
  <2>4. LossOK(h, o2, Cardinality(S), f, x)
    BY <1>10, <1>12, <2>3
  <2> QED
    BY <1>1, <1>2, <1>5, <1>8, <2>1, <2>2, <2>4
<1>15. ASSUME Exit
       PROVE  IsFiniteSet(T) /\ LossOK(seen'[j], o2, Cardinality(T), faults',
                                       IF running' THEN 0 ELSE 1)
  <2>1. running /\ ~running' /\ seen' = seen /\ faults' = faults /\ DOMAIN active' = {}
    BY <1>15 DEF Exit
  <2>2. o2 = 0 /\ x = 0
    BY <1>7, <1>8, <2>1 DEF Owed
  <2>3. T \subseteq S /\ \E b : S \ {b} \subseteq T
    BY <1>3, <1>4, <1>15, ExitRecords
  <2>4. PICK b : S \ {b} \subseteq T
    BY <2>3
  <2>5. IsFiniteSet(S \ {b}) /\ Cardinality(S \ {b}) + 1 >= Cardinality(S)
    <3>1. Cardinality(S \ {b}) = IF b \in S THEN Cardinality(S) - 1 ELSE Cardinality(S)
      BY <1>5, FS_RemoveElement
    <3> QED
      BY <1>5, <3>1, FS_RemoveElement
  <2>6. IsFiniteSet(T) /\ Cardinality(S \ {b}) <= Cardinality(T)
    BY <1>5, <2>3, <2>4, FS_Subset
  <2>7. PICK d \in Nat : d = Cardinality(T)
    BY <2>6, FS_CardinalityType
  <2>8. d + 1 >= Cardinality(S)
    BY <1>5, <2>5, <2>6, <2>7, FS_CardinalityType
  <2>9. LossOK(h, 0, d, f, 1)
    BY <1>10, <1>12, <2>2, <2>8
  <2> QED
    BY <1>1, <1>2, <2>1, <2>2, <2>6, <2>7, <2>9
<1>16. \/ StartsApart /\ \E k \in CallKeys : HandleBurst(k)
       \/ FlushIdle \/ Exit \/ Tick \/ UNCHANGED vars
  BY DEF Next
<1>17. /\ IsFiniteSet(T)
       /\ LossOK(seen'[j], o2, Cardinality(T), faults', IF running' THEN 0 ELSE 1)
  <2>1. CASE StartsApart /\ \E k \in CallKeys : HandleBurst(k)
    BY <1>13, <2>1
  <2>2. CASE FlushIdle \/ Tick \/ UNCHANGED vars
    BY <1>14, <2>2
  <2>3. CASE Exit
    BY <1>15, <2>3
  <2> QED
    BY <1>16, <2>1, <2>2, <2>3
<1> QED
  BY <1>4, <1>7, <1>17

\* Under the same condition, what the disk lacks of a call its faults account
\* for: two bursts for each fault, and one for the kill (pcm_writer.rs:118,
\* 142-150).
THEOREM LossBounded == SpecApart => []LossIsBounded
<1>1. Init => LossInv
  <2> SUFFICES ASSUME Init, NEW k \in CallKeys
               PROVE  /\ IsFiniteSet(OnDisk(k))
                      /\ LossOK(seen[k], Owed(k), Cardinality(OnDisk(k)), faults,
                                IF running THEN 0 ELSE 1)
    BY DEF LossInv
  <2>1. OnDisk(k) = {} /\ seen[k] = 0 /\ Owed(k) = 0 /\ faults = 0 /\ running
    BY DEF Init, OnDisk, Owed
  <2>2. IsFiniteSet({}) /\ Cardinality({}) = 0
    BY FS_EmptySet
  <2> QED
    BY <2>1, <2>2 DEF LossOK
<1>2. FilesInv /\ LossInv => LossIsBounded
  <2> SUFFICES ASSUME FilesInv, LossInv, NEW k \in CallKeys
               PROVE  seen[k] - Cardinality(OnDisk(k))
                        <= 2 * faults + (IF running THEN 0 ELSE 1)
    BY DEF LossIsBounded
  <2>1. IsFiniteSet(OnDisk(k)) /\ LossOK(seen[k], Owed(k), Cardinality(OnDisk(k)), faults,
                                         IF running THEN 0 ELSE 1)
    BY DEF LossInv
  <2>2. /\ seen[k] \in Nat /\ faults \in Nat /\ Cardinality(OnDisk(k)) \in Nat
        /\ Owed(k) \in {0, 1}
    BY <2>1, Numbers, OwedIs, FS_CardinalityType DEF FilesInv, TimeInv, TypeOK
  <2> QED
    BY <2>1, <2>2 DEF LossOK
<1> QED
  BY <1>1, <1>2, FilesInit, FilesNext, LossNext, PTL DEF SpecApart

-----------------------------------------------------------------------------
(* Where a recording is split.                                             *)

\* Two bursts are in one file.
Together(files, b, c) == \E p \in DOMAIN files : {b, c} \subseteq Range(files[p])

\* While the disk works, a burst that is handled is written.
LEMMA NoFault ==
    ASSUME StartsApart, FilesInv, LastInv, NEW k \in CallKeys, HandleBurst(k), faults' = 0
    PROVE  Written(k) /\ faults = 0 /\ running
<1>1. running /\ running' = running /\ faults \in Nat
  BY BurstIs, Numbers DEF FilesInv, TimeInv, TypeOK
<1>2. faults' # faults + 1
  BY <1>1
<1>3. CASE Written(k)
  BY <1>1, <1>3 DEF Written
<1>4. CASE Dropped(k)
  <2>1. faults = 0 /\ k \in DOMAIN active /\ active[k].failed
    BY <1>2, <1>4 DEF Dropped
  <2> QED
    BY <1>1, <2>1 DEF LastInv
<1> QED
  BY <1>3, <1>4, BurstFiles

\* The last burst of a call.
LEMMA LastIs ==
    ASSUME FilesInv, LastInv, running, faults = 0,
           NEW k \in CallKeys, NEW b \in OnDisk(k), b.n = seen[k]
    PROVE  /\ b.at \in Nat
           /\ k \in DOMAIN active => b \in Range(disk[active[k].path]) /\ b.at = active[k].last
           /\ k \notin DOMAIN Flushed => b.at + IdleTimeout < now
<1>1. now \in Nat /\ b.at \in Nat
  BY Numbers DEF FilesInv, TimeInv, TypeOK, OnDisk, Bursts
<1>2. IF k \in DOMAIN active
      THEN b \in Range(disk[active[k].path]) /\ b.at = active[k].last
      ELSE b.at + IdleTimeout < now
  BY DEF LastInv
<1>3. ASSUME k \in DOMAIN active, k \notin DOMAIN Flushed
      PROVE  b.at + IdleTimeout < now
  <2>1. now - active[k].last > IdleTimeout /\ active[k].last = b.at
    BY <1>2, <1>3, FlushedIs
  <2> QED
    BY <1>1, <2>1, Numbers
<1> QED
  BY <1>1, <1>2, <1>3, FlushedIs

LEMMA LastNext == FilesInv /\ LastInv /\ [Next /\ StartsApart]_vars => LastInv'
<1> SUFFICES ASSUME FilesInv, LastInv, [Next /\ StartsApart]_vars, running', faults' = 0
             PROVE  /\ \A k \in DOMAIN active' : ~active'[k].failed
                    /\ \A k \in CallKeys : \A b \in OnDisk(k)' : b.n = seen'[k] =>
                         IF k \in DOMAIN active'
                         THEN b \in Range(disk'[active'[k].path]) /\ b.at = active'[k].last
                         ELSE b.at + IdleTimeout < now'
  BY DEF LastInv
<1>1. /\ now \in Nat /\ DOMAIN active \subseteq CallKeys /\ FilesOK(active, disk, seen)
      /\ \A k \in DOMAIN active : active[k].last \in Nat
  BY Numbers DEF FilesInv, TimeInv, TypeOK, CallMeta
<1>2. ASSUME running, faults = 0, NEW k \in CallKeys, NEW b \in OnDisk(k), b.n = seen[k]
      PROVE  /\ b.at \in Nat
             /\ k \in DOMAIN active => b \in Range(disk[active[k].path]) /\ b.at = active[k].last
             /\ k \notin DOMAIN Flushed => b.at + IdleTimeout < now
  BY <1>2, LastIs
<1>3. ASSUME StartsApart, NEW k \in CallKeys, HandleBurst(k) PROVE LastInv'
  <2>1. Written(k) /\ faults = 0 /\ running /\ now' = now
    BY <1>3, NoFault, BurstIs DEF FilesInv, TimeInv
  <2>2. seen' = [seen EXCEPT ![k] = @ + 1] /\ seen \in [CallKeys -> Nat]
        /\ seen[k] < MaxBursts
    <3>1. TypeOK
      BY DEF FilesInv, TimeInv
    <3>2. seen' = [seen EXCEPT ![k] = @ + 1] /\ seen[k] < MaxBursts
      BY <1>3, <3>1, BurstIs
    <3>3. seen \in [CallKeys -> Nat]
      BY <3>1, Numbers DEF TypeOK
    <3> QED
      BY <3>2, <3>3
  <2>3. PICK c : c = Burst(k)
    OBVIOUS
  <2>4. /\ \A j \in CallKeys : j # k => (j \in DOMAIN active' <=> j \in DOMAIN Flushed)
        /\ \A j \in DOMAIN Flushed : j # k => active'[j] = active[j]
        /\ FilesOK(active', disk', seen')
    BY <1>3, BurstFiles
  <2>5. /\ k \in DOMAIN active' /\ ~active'[k].failed /\ active'[k].last = now
        /\ c \in Range(disk'[active'[k].path])
    BY <2>1, <2>3 DEF Written
  <2>6. c.at = now
    BY <2>3 DEF Burst
  <2>7. ASSUME NEW j \in DOMAIN active' PROVE ~active'[j].failed
    <3>1. \A i \in DOMAIN active : ~active[i].failed
      BY <2>1 DEF LastInv
    <3>2. j \in CallKeys
      BY <2>7, TypeNext DEF FilesInv, TimeInv, TypeOK
    <3> QED
      BY <2>4, <2>5, <3>1, <3>2, FlushedIs
  <2>8. ASSUME NEW b \in OnDisk(k)', b.n = seen'[k] PROVE b = c
    <3>1. seen'[k] = seen[k] + 1 /\ seen[k] \in Nat
      BY <2>2
    <3>2. b \notin OnDisk(k)
      BY <2>2, <2>8, <3>1, NewBurst
    <3> QED
      BY <1>3, <2>1, <2>3, <2>8, <3>2, BurstRecords
  <2>9. ASSUME NEW j \in CallKeys, j # k, NEW b \in OnDisk(j)', b.n = seen'[j]
        PROVE  IF j \in DOMAIN active'
               THEN b \in Range(disk'[active'[j].path]) /\ b.at = active'[j].last
               ELSE b.at + IdleTimeout < now'
    <3>1. b \in OnDisk(j) /\ b.n = seen[j]
      BY <1>3, <2>2, <2>9, BurstRecords
    <3>2. CASE j \in DOMAIN Flushed
      <4>1. j \in DOMAIN active' /\ active'[j] = active[j] /\ j \in DOMAIN active
        BY <2>4, <2>9, <3>2, FlushedIs
      <4>2. b \in Range(disk[active[j].path]) /\ b.at = active[j].last
        BY <1>2, <2>1, <3>1, <4>1
      <4>3. active[j].path \in DOMAIN disk /\ active[j].path # active'[k].path
        <5>1. active'[j].path # active'[k].path
          BY <2>4, <2>5, <2>9, <4>1 DEF FilesOK
        <5> QED
          BY <1>1, <4>1, <5>1 DEF FilesOK
      <4>4. disk'[active[j].path] = disk[active[j].path]
        BY <2>1, <4>3 DEF Written
      <4> QED
        BY <4>1, <4>2, <4>4
    <3>3. CASE j \notin DOMAIN Flushed
      BY <1>2, <2>1, <2>4, <2>9, <3>1, <3>3
    <3> QED
      BY <3>2, <3>3
  <2> QED
    BY <2>1, <2>5, <2>6, <2>7, <2>8, <2>9 DEF LastInv
<1>4. ASSUME FlushIdle PROVE LastInv'
  <2>1. /\ running /\ faults = 0 /\ active' = Flushed /\ disk' = disk /\ seen' = seen
        /\ now' = now
    BY <1>4 DEF FlushIdle
  <2>2. \A k \in CallKeys : OnDisk(k)' = OnDisk(k)
    BY <2>1 DEF OnDisk
  <2>3. \A k \in DOMAIN active' : ~active'[k].failed
    BY <2>1, FlushedIs DEF LastInv
  <2>4. ASSUME NEW k \in CallKeys, NEW b \in OnDisk(k), b.n = seen[k]
        PROVE  IF k \in DOMAIN active'
               THEN b \in Range(disk'[active'[k].path]) /\ b.at = active'[k].last
               ELSE b.at + IdleTimeout < now'
    BY <1>2, <2>1, <2>4, FlushedIs
  <2> QED
    BY <2>1, <2>2, <2>3, <2>4 DEF LastInv
<1>5. ASSUME Tick PROVE LastInv'
  <2>1. /\ running /\ faults = 0 /\ active' = active /\ disk' = disk /\ seen' = seen
        /\ now' = now + 1
    BY <1>5 DEF Tick
  <2>2. \A k \in CallKeys : OnDisk(k)' = OnDisk(k)
    BY <2>1 DEF OnDisk
  <2>3. \A k \in DOMAIN active' : ~active'[k].failed
    BY <2>1 DEF LastInv
  <2>4. ASSUME NEW k \in CallKeys, NEW b \in OnDisk(k), b.n = seen[k]
        PROVE  IF k \in DOMAIN active'
               THEN b \in Range(disk'[active'[k].path]) /\ b.at = active'[k].last
               ELSE b.at + IdleTimeout < now'
    <3>1. PICK n \in Nat : n = now + 1
      BY <1>1
    <3>2. k \notin DOMAIN active => b.at + IdleTimeout < n
      BY <1>1, <1>2, <2>1, <2>4, <3>1, Numbers, FlushedIs
    <3> QED
      BY <1>2, <2>1, <2>4, <3>1, <3>2
  <2> QED
    BY <2>1, <2>2, <2>3, <2>4 DEF LastInv
<1>6. CASE UNCHANGED vars
  BY <1>6 DEF vars, LastInv, OnDisk
<1>7. CASE Exit
  BY <1>7 DEF Exit
<1> QED
  BY <1>3, <1>4, <1>5, <1>6, <1>7 DEF Next, LastInv

\* A burst that is written joins the burst before it exactly if the call has not
\* idled out since.
LEMMA SplitWrite ==
    ASSUME StartsApart, FilesInv, LastInv, FilesSplitAtSilence, faults' = 0,
           NEW j \in CallKeys, HandleBurst(j),
           NEW k \in CallKeys, NEW b \in OnDisk(k)', NEW c \in OnDisk(k)', c.n = b.n + 1
    PROVE  c.at - b.at <= IdleTimeout <=> Together(disk', b, c)
<1>1. Written(j) /\ faults = 0 /\ running
  BY NoFault
<1>2. TypeOK /\ now \in Nat /\ FilesOK(active, disk, seen)
  BY DEF FilesInv, TimeInv, TypeOK
<1>3. seen[j] < MaxBursts /\ seen[j] \in Nat
  BY <1>2, BurstIs, Numbers DEF TypeOK
<1>4. PICK e : e = Burst(j)
  OBVIOUS
<1>5. /\ e.call = j /\ e.n = seen[j] + 1 /\ e.at = now /\ e \notin OnDisk(j)
      /\ \A x \in OnDisk(j) : x.n \in Nat /\ x.n <= seen[j]
  BY <1>3, <1>4, NewBurst DEF Burst
<1>6. PICK path : path = active'[j].path
  OBVIOUS
<1>7. /\ DOMAIN disk' = DOMAIN disk \cup {path}
      /\ \A p \in DOMAIN disk : p # path => disk'[p] = disk[p]
      /\ Range(disk'[path]) =
           {e} \cup (IF j \in DOMAIN Flushed THEN Range(disk[active[j].path]) ELSE {})
      /\ IF j \in DOMAIN Flushed THEN path = active[j].path ELSE path \notin DOMAIN disk
  BY <1>1, <1>4, <1>6 DEF Written
<1>8. ASSUME b # e, c # e, b \in OnDisk(k), c \in OnDisk(k)
      PROVE  c.at - b.at <= IdleTimeout <=> Together(disk', b, c)
  <2>1. \A p \in DOMAIN disk' : \A x : x # e =>
          (x \in Range(disk'[p]) <=> p \in DOMAIN disk /\ x \in Range(disk[p]))
    <3> SUFFICES ASSUME NEW p \in DOMAIN disk', NEW x, x # e
                 PROVE  x \in Range(disk'[p]) <=> p \in DOMAIN disk /\ x \in Range(disk[p])
      OBVIOUS
    <3>1. CASE p # path
      <4>1. p \in DOMAIN disk /\ disk'[p] = disk[p]
        BY <1>7, <3>1
      <4> QED
        BY <4>1
    <3>2. CASE p = path /\ j \in DOMAIN Flushed
      <4>1. path = active[j].path /\ path \in DOMAIN disk
            /\ Range(disk'[path]) = {e} \cup Range(disk[active[j].path])
        BY <1>2, <1>7, <3>2, FlushedIs DEF FilesOK
      <4> QED
        BY <3>2, <4>1
    <3>3. CASE p = path /\ j \notin DOMAIN Flushed
      <4>1. path \notin DOMAIN disk /\ Range(disk'[path]) = {e} \cup {}
        BY <1>7, <3>3
      <4> QED
        BY <3>3, <4>1
    <3> QED
      BY <3>1, <3>2, <3>3
  <2>2. Together(disk', b, c) <=> Together(disk, b, c)
    <3>1. ASSUME NEW p \in DOMAIN disk', {b, c} \subseteq Range(disk'[p])
          PROVE  p \in DOMAIN disk /\ {b, c} \subseteq Range(disk[p])
      <4>1. b \in Range(disk'[p]) /\ c \in Range(disk'[p])
        BY <3>1
      <4>2. p \in DOMAIN disk /\ b \in Range(disk[p]) /\ c \in Range(disk[p])
        BY <1>8, <2>1, <4>1
      <4> QED
        BY <4>2
    <3>2. ASSUME NEW p \in DOMAIN disk, {b, c} \subseteq Range(disk[p])
          PROVE  p \in DOMAIN disk' /\ {b, c} \subseteq Range(disk'[p])
      <4>1. p \in DOMAIN disk' /\ b \in Range(disk[p]) /\ c \in Range(disk[p])
        BY <1>7, <3>2
      <4>2. b \in Range(disk'[p]) /\ c \in Range(disk'[p])
        BY <1>8, <2>1, <4>1
      <4> QED
        BY <4>1, <4>2
    <3> QED
      BY <3>1, <3>2 DEF Together
  <2>3. c.at - b.at <= IdleTimeout <=> Together(disk, b, c)
    BY <1>1, <1>8 DEF FilesSplitAtSilence, Together
  <2> QED
    BY <2>2, <2>3
<1>9. CASE k # j
  <2>1. b \in OnDisk(k) /\ c \in OnDisk(k)
    BY <1>9, BurstRecords
  <2>2. b # e /\ c # e
    BY <1>5, <1>9, <2>1 DEF OnDisk
  <2> QED
    BY <1>8, <2>1, <2>2
<1>10. CASE k = j
  <2>1. OnDisk(k)' = OnDisk(k) \cup {e}
    BY <1>1, <1>4, <1>10, BurstRecords
  <2>2. CASE b = e
    <3>1. c.n = seen[j] + 1 + 1
      BY <1>5, <2>2
    <3>2. c \in OnDisk(j) \/ c = e
      BY <1>10, <2>1
    <3>3. c.n \in Nat /\ c.n <= seen[j] + 1
      BY <1>3, <1>5, <3>2
    <3> QED
      BY <1>3, <3>1, <3>3
  <2>3. CASE b # e /\ c = e
    <3>1. b \in OnDisk(k) /\ b.n = seen[k]
      BY <1>3, <1>5, <1>10, <2>1, <2>3
    <3>2. /\ b.at \in Nat
          /\ k \in DOMAIN active => b \in Range(disk[active[k].path]) /\ b.at = active[k].last
          /\ k \notin DOMAIN Flushed => b.at + IdleTimeout < now
      BY <1>1, <3>1, LastIs
    <3>3. CASE k \in DOMAIN Flushed
      <4>1. k \in DOMAIN active /\ ~(now - active[k].last > IdleTimeout)
        BY <3>3, FlushedIs
      <4>2. c.at - b.at <= IdleTimeout
        BY <1>2, <1>5, <2>3, <3>2, <4>1, Numbers
      <4>3. {b, c} \subseteq Range(disk'[path])
        BY <1>7, <1>10, <2>3, <3>2, <3>3, <4>1
      <4> QED
        BY <1>7, <4>2, <4>3 DEF Together
    <3>4. CASE k \notin DOMAIN Flushed
      <4>1. ~(c.at - b.at <= IdleTimeout)
        BY <1>2, <1>5, <2>3, <3>2, <3>4, Numbers
      <4>2. ASSUME NEW p \in DOMAIN disk', {b, c} \subseteq Range(disk'[p]) PROVE FALSE
        <5>1. CASE p = path
          BY <1>7, <1>10, <2>3, <3>4, <4>2, <5>1
        <5>2. CASE p # path
          <6>1. p \in DOMAIN disk /\ e \in Range(disk[p])
            BY <1>7, <2>3, <4>2, <5>2
          <6>2. e \in OnDisk(j)
            BY <1>3, <1>4, <1>5, <6>1, NewBurst DEF OnDisk
          <6> QED
            BY <1>5, <6>2
        <5> QED
          BY <5>1, <5>2
      <4> QED
        BY <4>1, <4>2 DEF Together
    <3> QED
      BY <3>3, <3>4
  <2> QED
    BY <1>8, <2>1, <2>2, <2>3
<1> QED
  BY <1>9, <1>10

LEMMA SplitNext ==
    FilesInv /\ LastInv /\ FilesSplitAtSilence /\ [Next /\ StartsApart]_vars
      => FilesSplitAtSilence'
<1> SUFFICES ASSUME FilesInv, LastInv, FilesSplitAtSilence, [Next /\ StartsApart]_vars,
                    faults' = 0, NEW k \in CallKeys, NEW b \in OnDisk(k)', NEW c \in OnDisk(k)',
                    c.n = b.n + 1
             PROVE  c.at - b.at <= IdleTimeout <=> Together(disk', b, c)
  BY DEF FilesSplitAtSilence, Together
<1>1. ASSUME StartsApart, NEW j \in CallKeys, HandleBurst(j)
      PROVE  c.at - b.at <= IdleTimeout <=> Together(disk', b, c)
  BY <1>1, SplitWrite
<1>2. ASSUME disk' = disk, faults' = faults
      PROVE  c.at - b.at <= IdleTimeout <=> Together(disk', b, c)
  BY <1>2 DEF FilesSplitAtSilence, Together, OnDisk
<1>3. CASE FlushIdle \/ Tick \/ UNCHANGED vars
  BY <1>2, <1>3 DEF FlushIdle, Tick, vars
<1>4. CASE Exit
  <2>1. PICK gone \in SUBSET InFlight :
          disk' = [p \in DOMAIN disk |-> IF \E j \in gone : active[j].path = p
                                        THEN Front(disk[p]) ELSE disk[p]]
    BY <1>4 DEF Exit
  <2>2. DOMAIN disk' = DOMAIN disk
        /\ \A p \in DOMAIN disk : Range(disk'[p]) \subseteq Range(disk[p])
    BY <2>1, FrontOK DEF FilesInv, FilesOK
  <2>3. b \in OnDisk(k) /\ c \in OnDisk(k)
    BY <1>4, ExitRecords
  <2>4. c.at - b.at <= IdleTimeout <=> Together(disk, b, c)
    BY <1>4, <2>3 DEF Exit, FilesSplitAtSilence, Together
  <2>5. \A x \in OnDisk(k)' : \A p \in DOMAIN disk :
          x \in Range(disk[p]) => x \in Range(disk'[p])
    <3>1. SUFFICES ASSUME NEW x \in OnDisk(k)', NEW p \in DOMAIN disk, x \in Range(disk[p])
                   PROVE  x \in Range(disk'[p])
      OBVIOUS
    <3>2. PICK q \in DOMAIN disk' : x \in Range(disk'[q])
      BY DEF OnDisk
    <3>3. p = q
      BY <2>2, <3>1, <3>2 DEF FilesInv, FilesOK
    <3> QED
      BY <3>2, <3>3
  <2>6. Together(disk', b, c) <=> Together(disk, b, c)
    BY <2>2, <2>5 DEF Together
  <2> QED
    BY <2>4, <2>6
<1> QED
  BY <1>1, <1>3, <1>4 DEF Next

\* Under the same condition, while the disk works, a recording is split exactly
\* where its call fell silent for longer than the idle timeout, whoever noticed
\* (pcm_writer.rs:86, 124-140).
THEOREM SplitAtSilence == SpecApart => []FilesSplitAtSilence
<1>1. Init => LastInv /\ FilesSplitAtSilence
  <2> SUFFICES ASSUME Init PROVE LastInv /\ FilesSplitAtSilence
    OBVIOUS
  <2>1. \A k \in CallKeys : OnDisk(k) = {}
    BY DEF Init, OnDisk
  <2>2. DOMAIN active = {}
    BY DEF Init
  <2> QED
    BY <2>1, <2>2 DEF LastInv, FilesSplitAtSilence
<1> QED
  BY <1>1, FilesInit, FilesNext, LastNext, SplitNext, PTL DEF SpecApart

=============================================================================
