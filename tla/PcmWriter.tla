------------------------------ MODULE PcmWriter ------------------------------
(***************************************************************************)
(* The per-call recorder of mmdvm_sip (pcm_writer.rs): a map of open calls *)
(* and the files they write.  The listener calls handle_burst once per     *)
(* decoded voice burst and flush_idle from its 500 ms tick; both run on    *)
(* one task, so a call is one step.                                        *)
(*                                                                         *)
(* Data.  A burst is its call, its number in the call and the instant it   *)
(* is handled at.  A path is what its name is made of: the UTC second, the *)
(* source and destination (one "talker" here) and the slot.  A file is a   *)
(* sequence of bursts; a handle writes at its own offset, so a file can    *)
(* have a hole.                                                            *)
(*                                                                         *)
(* tokio's File::write_all returns once the write is queued; if the write  *)
(* fails, the next operation on the handle reports it and does nothing     *)
(* else.  A handle therefore remembers a failed write.                     *)
(***************************************************************************)
EXTENDS Naturals, Sequences, FiniteSets, Functions, SequencesExt

CONSTANTS Streams,     \* DMR stream ids
          Slots,       \* DMR timeslots
          Talker,      \* Talker[s]: the source and destination of stream s
          IdleTimeout, \* idle_timeout, in ticks
          Second,      \* ticks in a second of the file names
          MaxTime,     \* bound: ticks of the clock
          MaxBursts,   \* bound: bursts in a call
          MaxFaults    \* bound: disk operations that fail

ASSUME TimeAssumption == /\ IdleTimeout \in Nat /\ Second \in Nat \ {0}
                         /\ MaxTime \in Nat /\ MaxBursts \in Nat
                         /\ MaxFaults \in Nat

ASSUME TalkerAssumption == DOMAIN Talker = Streams

\* The file name has a resolution of one second and calls idle out after one
\* second: idle_timeout is never set to less.
ASSUME TimeoutCoversSecond == IdleTimeout >= Second

CallKeys == [stream : Streams, slot : Slots]
Bursts == [call : CallKeys, n : 1..MaxBursts, at : 0..MaxTime]
Hole == [call |-> [stream |-> "none", slot |-> 0], n |-> 0, at |-> 0]

VARIABLES now,    \* the clock, Instant::now and SystemTime alike: the system's
                  \* time is not set back while the program runs
          active, \* active[k]: the open call of key k
          disk,   \* disk[p]: the file at path p
          running, \* the process has not been killed
          seen,   \* history: seen[k], the bursts handled for key k
          faults  \* history: disk operations that failed

vars == <<now, active, disk, running, seen, faults>>

Paths == [second : 0..(MaxTime \div Second), talker : Range(Talker), slot : Slots]

CallMeta == [path : Paths, last : 0..MaxTime, offset : Nat, failed : BOOLEAN]

TypeOK == /\ now \in 0..MaxTime
          /\ DOMAIN active \subseteq CallKeys
          /\ \A k \in DOMAIN active : active[k] \in CallMeta
          /\ DOMAIN disk \subseteq Paths
          /\ \A p \in DOMAIN disk : disk[p] \in Seq(Bursts \cup {Hole})
          /\ running \in BOOLEAN
          /\ seen \in [CallKeys -> 0..MaxBursts]
          /\ faults \in 0..MaxFaults

Init == /\ now = 0
        /\ active = [k \in {} |-> {}]
        /\ disk = [p \in {} |-> {}]
        /\ running = TRUE
        /\ seen = [k \in CallKeys |-> 0]
        /\ faults = 0

-----------------------------------------------------------------------------
(* Helpers, each one step of handle_burst.                                 *)

\* Slip: a call is idle as soon as the timeout is reached.
Stale_Early == {k \in DOMAIN active : now - active[k].last >= IdleTimeout}

\* flush_idle, then close_call: calls whose last burst is too old are removed;
\* a write error still pending is only logged.
Stale == {k \in DOMAIN active : now - active[k].last > IdleTimeout}

Flushed == Restrict(active, DOMAIN active \ Stale)

\* Slip: the name does not say who is talking.
PathFor_NoTalker(k) == [second |-> now \div Second,
                        talker |-> CHOOSE t \in Range(Talker) : TRUE,
                        slot |-> k.slot]

\* Slip: the name does not say when.
PathFor_NoSecond(k) == [second |-> 0, talker |-> Talker[k.stream],
                        slot |-> k.slot]

\* path_for: the stream id is not part of the name.  The second is the system's
\* time, which the model takes from the same clock as the timeout: a clock that
\* is set back could make a name come again, and is left out.
PathFor(k) == [second |-> now \div Second, talker |-> Talker[k.stream],
               slot |-> k.slot]

\* File::create: the file is empty, whatever it held before.
Created(k) == [p \in DOMAIN disk \cup {PathFor(k)} |->
                 IF p = PathFor(k) THEN <<>> ELSE disk[p]]

Opened(k) == [j \in DOMAIN Flushed \cup {k} |->
                IF j = k THEN [path |-> PathFor(k), last |-> now,
                               offset |-> 0, failed |-> FALSE]
                         ELSE Flushed[j]]

\* Burst b written to a file at a handle's offset.
Overwritten(file, offset, b) ==
    [i \in 1..(IF offset < Len(file) THEN Len(file) ELSE offset + 1) |->
       IF i = offset + 1 THEN b
       ELSE IF i <= Len(file) THEN file[i] ELSE Hole]

\* The burst of call k being handled.
Burst(k) == [call |-> k, n |-> seen[k] + 1, at |-> now]

\* write_all queues the burst; on disk it succeeds or it fails.
WriteAll(calls, files, k) ==
    \/ /\ active' = [calls EXCEPT ![k] =
                        [path |-> calls[k].path, last |-> now,
                         offset |-> calls[k].offset + 1, failed |-> calls[k].failed]]
       /\ disk' = [files EXCEPT ![calls[k].path] =
                     Overwritten(@, calls[k].offset, Burst(k))]
       /\ faults' = faults
    \/ /\ faults < MaxFaults
       /\ active' = [calls EXCEPT ![k] =
                        [path |-> calls[k].path, last |-> now,
                         offset |-> calls[k].offset, failed |-> TRUE]]
       /\ disk' = files
       /\ faults' = faults + 1

Handle(k) == /\ running /\ seen[k] < MaxBursts
             /\ seen' = [seen EXCEPT ![k] = @ + 1]
             /\ UNCHANGED <<now, running>>

-----------------------------------------------------------------------------
(* handle_burst, by how it goes; and the clock.                            *)

\* The burst of a call that is open.
NextBurst(k) == /\ Handle(k)
                /\ k \in DOMAIN Flushed /\ ~active[k].failed
                /\ WriteAll(Flushed, disk, k)

\* The burst of a call that is not: its file is created first.
FirstBurst(k) == /\ Handle(k)
                 /\ k \notin DOMAIN Flushed
                 /\ WriteAll(Opened(k), Created(k), k)

\* File::create fails: the burst is dropped and the call not opened.
CreateFails(k) == /\ Handle(k)
                  /\ k \notin DOMAIN Flushed
                  /\ faults < MaxFaults
                  /\ faults' = faults + 1
                  /\ active' = Flushed
                  /\ UNCHANGED disk

\* write_all reports the failure of the write before it: the burst is dropped.
RefusedBurst(k) == /\ Handle(k)
                   /\ k \in DOMAIN Flushed /\ active[k].failed
                   /\ active' = [Flushed EXCEPT ![k].failed = FALSE]
                   /\ UNCHANGED <<disk, faults>>

\* The listener's tick.
FlushIdle == /\ running
             /\ active' = Flushed
             /\ UNCHANGED <<now, disk, running, seen, faults>>

\* The calls whose last write may still be queued: it returned in this instant.
\* (One into the middle of a file that two calls write is taken to be done.)
InFlight == {k \in DOMAIN active : /\ active[k].last = now /\ ~active[k].failed
                                   /\ active[k].offset = Len(disk[active[k].path])}

\* Slip: what is written becomes visible only when the call is closed.
Exit_Buffered == /\ running
                 /\ disk' = [p \in DOMAIN disk |->
                               IF \E k \in DOMAIN active : active[k].path = p
                               THEN <<>> ELSE disk[p]]
                 /\ running' = FALSE /\ active' = [k \in {} |-> {}]
                 /\ UNCHANGED <<now, seen, faults>>

\* The process is killed: it has no shutdown path, and nothing calls close_all.
\* Writes that are queued may not reach the disk.
Exit == /\ running
        /\ \E gone \in SUBSET InFlight :
             disk' = [p \in DOMAIN disk |->
                        IF \E k \in gone : active[k].path = p THEN Front(disk[p])
                                                             ELSE disk[p]]
        /\ running' = FALSE /\ active' = [k \in {} |-> {}]
        /\ UNCHANGED <<now, seen, faults>>

\* External: time passes.
Tick == /\ running /\ now < MaxTime
        /\ now' = now + 1
        /\ UNCHANGED <<active, disk, running, seen, faults>>

HandleBurst(k) == \/ NextBurst(k) \/ FirstBurst(k)
                  \/ CreateFails(k) \/ RefusedBurst(k)

Next == (\E k \in CallKeys : HandleBurst(k)) \/ FlushIdle \/ Exit \/ Tick

Spec == Init /\ [][Next]_vars

\* No open call of the same radio and slot was opened in this second.
StartsAlone(k) ==
    \A j \in DOMAIN active \ {k} :
      ~ /\ Talker[j.stream] = Talker[k.stream] /\ j.slot = k.slot
        /\ active[j].path.second = now \div Second

\* External: no radio starts two calls on a slot within a second.  A radio may
\* call again and again, and two calls of one may be open at a time.
StartsApart == \A k \in CallKeys : FirstBurst(k) => StartsAlone(k)

SpecApart == Init /\ [][Next /\ StartsApart]_vars

-----------------------------------------------------------------------------
(* Properties.                                                             *)

OnDisk(k) == {b \in Bursts : b.call = k /\ \E p \in DOMAIN disk : b \in Range(disk[p])}

\* A file is the recording of one call: only its bursts, in order, with no hole
\* and none twice.  It rests on StartsApart: File::create truncates and two
\* handles may share a file.
RecordingsAreIntact ==
    \A p \in DOMAIN disk : \A i, j \in DOMAIN disk[p] :
      /\ disk[p][i] # Hole
      /\ i < j => /\ disk[p][i].call = disk[p][j].call
                  /\ disk[p][i].n < disk[p][j].n

\* Nothing handled is lost but for disk faults: a failed write costs its burst
\* and the one that is told about it, a failed create costs one.  When the
\* process is killed, a call loses its last burst at most.
LossIsBounded ==
    \A k \in CallKeys :
      seen[k] - Cardinality(OnDisk(k)) <= 2 * faults + (IF running THEN 0 ELSE 1)

\* While the disk works, consecutive bursts of a call share a file exactly if
\* no more than the idle timeout lies between them, whether it is the tick or
\* the next burst that notices.
FilesSplitAtSilence ==
    faults = 0 =>
      \A k \in CallKeys : \A b, c \in OnDisk(k) : c.n = b.n + 1 =>
        ( c.at - b.at <= IdleTimeout
          <=> \E p \in DOMAIN disk : {b, c} \subseteq Range(disk[p]) )

\* Once a call is closed its file is final: a file that no open call writes
\* never changes again, however the calls overlap.
ClosedFilesAreFinal ==
    [][\A p \in DOMAIN disk :
         (\A k \in DOMAIN active : active[k].path # p) => disk'[p] = disk[p]]_vars

\* listen_dmr.rs:22-23: "One file per `(stream_id, slot)`".  While the disk
\* works, every call that was handled has a file that is its own.
OneFilePerCall ==
    running /\ faults = 0 =>
      \A k \in CallKeys : seen[k] > 0 =>
        \E p \in DOMAIN disk : /\ disk[p] # <<>>
                               /\ \A i \in DOMAIN disk[p] : disk[p][i].call = k

=============================================================================
