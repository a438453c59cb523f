---------------------------- MODULE FirmwareProofs ----------------------------
(***************************************************************************)
(* Proofs about Firmware, for any number of threads, any number of failing *)
(* system calls and any regions occupied at the start.                     *)
(***************************************************************************)
EXTENDS Firmware, TLAPS

\* The stages a thread goes through, with where it can be in each.
AtOK == \A t \in Threads :
          /\ pc[t] = "none" => at[t] = 1
          /\ pc[t] = "mapping" => at[t] \in 1..4
          /\ pc[t] = "undoing" => at[t] \in 0..3
          /\ pc[t] = "unmapping" => at[t] \in 1..4

SlotInv == TypeOK /\ AtOK /\ AtMostOneFirmware

-----------------------------------------------------------------------------

LEMMA InitSlot == Init => SlotInv
<1> SUFFICES ASSUME Init PROVE SlotInv
  OBVIOUS
<1> USE FirmwareAssumption DEF Init
<1>1. TypeOK
  <2>1. loaded \in BOOLEAN
    BY Zenon
  <2> QED
    BY <2>1 DEF TypeOK, Stages, Regions
<1>2. AtOK
  BY DEF AtOK
<1>3. AtMostOneFirmware
  <2>1. \A t \in Threads : ~Claimed(t)
    BY DEF Claimed
  <2> QED
    BY ONLY <2>1, loaded = FALSE, Zenon DEF AtMostOneFirmware
<1> QED
  BY <1>1, <1>2, <1>3 DEF SlotInv

LEMMA StepSlot == SlotInv /\ [Next]_vars => SlotInv'
<1> SUFFICES ASSUME SlotInv, [Next]_vars PROVE SlotInv'
  OBVIOUS
<1> USE FirmwareAssumption
    DEF SlotInv, TypeOK, AtOK, AtMostOneFirmware, Claimed, Stages, Regions, Go, Put
<1>1. ASSUME NEW t \in Threads, Claim(t) PROVE SlotInv'
  BY <1>1 DEF Claim
<1>2. ASSUME NEW t \in Threads, AlreadyLoaded(t) PROVE SlotInv'
  BY <1>2 DEF AlreadyLoaded, vars
<1>3. ASSUME NEW t \in Threads, Map(t) PROVE SlotInv'
  BY <1>3 DEF Map
<1>4. ASSUME NEW t \in Threads, MapFails(t) PROVE SlotInv'
  BY <1>4 DEF MapFails
<1>5. ASSUME NEW t \in Threads, Undo(t) PROVE SlotInv'
  BY <1>5 DEF Undo
<1>6. ASSUME NEW t \in Threads, Release(t) PROVE SlotInv'
  <2>1. /\ pc' = [pc EXCEPT ![t] = pc'[t]]
        /\ Claimed(t) /\ ~Claimed(t)' /\ loaded' = FALSE
    BY <1>6 DEF Release
  <2>2. \A u \in Threads : ~Claimed(u)'
    BY <2>1
  <2>3. AtMostOneFirmware'
    BY ONLY <2>1, <2>2, Zenon DEF AtMostOneFirmware
  <2>4. loaded' \in BOOLEAN
    BY ONLY <2>1, Zenon
  <2>5. TypeOK' /\ AtOK'
    BY <1>6, <2>4 DEF Release
  <2> QED
    BY <2>3, <2>5
<1>7. ASSUME NEW t \in Threads, Loaded(t) PROVE SlotInv'
  BY <1>7 DEF Loaded
<1>8. ASSUME NEW t \in Threads, Drop(t) PROVE SlotInv'
  <2>1. /\ pc' = [pc EXCEPT ![t] = pc'[t]]
        /\ Claimed(t) /\ ~Claimed(t)' /\ loaded' = FALSE
    BY <1>8 DEF Drop
  <2>2. \A u \in Threads : ~Claimed(u)'
    BY <2>1
  <2>3. AtMostOneFirmware'
    BY ONLY <2>1, <2>2, Zenon DEF AtMostOneFirmware
  <2>4. loaded' \in BOOLEAN
    BY ONLY <2>1, Zenon
  <2>5. TypeOK' /\ AtOK'
    BY <1>8, <2>4 DEF Drop
  <2> QED
    BY <2>3, <2>5
<1>9. ASSUME NEW t \in Threads, Unmap(t) PROVE SlotInv'
  BY <1>9 DEF Unmap
<1>10. ASSUME NEW t \in Threads, Gone(t) PROVE SlotInv'
  BY <1>10 DEF Gone
<1>11. CASE UNCHANGED vars
  BY <1>11 DEF vars
<1> QED
  BY <1>1, <1>2, <1>3, <1>4, <1>5, <1>6, <1>7, <1>8, <1>9, <1>10, <1>11
     DEF Next, Load

LEMMA SlotHolds == Spec => []SlotInv
  BY InitSlot, StepSlot, PTL DEF Spec

\* The types of the state: a thread is at a region only while it maps, undoes or
\* unmaps, and no more calls fail than may.
THEOREM TypeCorrect == Spec => []TypeOK
<1>1. SlotInv => TypeOK
  BY DEF SlotInv
<1> QED
  BY <1>1, SlotHolds, PTL

\* At every instant at most one thread loads or owns a Firmware, and the flag
\* says so: compare_exchange lets one thread in, and every way out of load and
\* of drop clears the flag once (firmware.rs:116-127, 179).
THEOREM Singleton == Spec => []AtMostOneFirmware
<1>1. SlotInv => AtMostOneFirmware
  BY DEF SlotInv
<1> QED
  BY <1>1, SlotHolds, PTL

-----------------------------------------------------------------------------
(* What a thread has mapped, at most, in each stage.                       *)

MayHave(t, r) == \/ pc[t] = "mapping" /\ r < at[t]
                 \/ pc[t] = "undoing" /\ r <= at[t]
                 \/ pc[t] = "live"
                 \/ pc[t] = "unmapping" /\ r >= at[t]

MappingsOK == \A t \in Threads, r \in Regions : mapping[r] = t => MayHave(t, r)

\* A region changes hands only where its new or its old owner's stage says so.
LEMMA StepMappings == SlotInv /\ MappingsOK /\ [Next]_vars => MappingsOK'
<1> SUFFICES ASSUME SlotInv, MappingsOK, [Next]_vars PROVE MappingsOK'
  OBVIOUS
<1> USE FirmwareAssumption
    DEF SlotInv, TypeOK, AtOK, MappingsOK, MayHave, Stages, Regions, Go, Put
<1>1. ASSUME NEW t \in Threads, Claim(t) PROVE MappingsOK'
  BY <1>1 DEF Claim
<1>2. ASSUME NEW t \in Threads, AlreadyLoaded(t) PROVE MappingsOK'
  BY <1>2 DEF AlreadyLoaded, vars
<1>3. ASSUME NEW t \in Threads, Map(t) PROVE MappingsOK'
  BY <1>3 DEF Map
<1>4. ASSUME NEW t \in Threads, MapFails(t) PROVE MappingsOK'
  BY <1>4 DEF MapFails
<1>5. ASSUME NEW t \in Threads, Undo(t) PROVE MappingsOK'
  BY <1>5 DEF Undo
<1>6. ASSUME NEW t \in Threads, Release(t) PROVE MappingsOK'
  BY <1>6 DEF Release
<1>7. ASSUME NEW t \in Threads, Loaded(t) PROVE MappingsOK'
  BY <1>7 DEF Loaded
<1>8. ASSUME NEW t \in Threads, Drop(t) PROVE MappingsOK'
  BY <1>8 DEF Drop
<1>9. ASSUME NEW t \in Threads, Unmap(t) PROVE MappingsOK'
  BY <1>9 DEF Unmap
<1>10. ASSUME NEW t \in Threads, Gone(t) PROVE MappingsOK'
  BY <1>10 DEF Gone
<1>11. CASE UNCHANGED vars
  BY <1>11 DEF vars
<1> QED
  BY <1>1, <1>2, <1>3, <1>4, <1>5, <1>6, <1>7, <1>8, <1>9, <1>10, <1>11
     DEF Next, Load

\* A thread that owns no Firmware has nothing mapped, whichever system calls
\* failed and whatever other threads did meanwhile: the regions of a failed load
\* are dropped by load_inner, those of a Firmware by drop (firmware.rs:130-181).
THEOREM NoLeaks == Spec => []NothingLeaks
<1>1. Init => MappingsOK
  BY FirmwareAssumption DEF Init, MappingsOK, Regions
<1>2. SlotInv /\ MappingsOK => NothingLeaks
  BY DEF MappingsOK, MayHave, NothingLeaks
<1> QED
  BY <1>1, <1>2, StepMappings, SlotHolds, PTL DEF Spec

-----------------------------------------------------------------------------
(* What a thread has mapped, at least, if it was alone when it claimed.    *)

Has(t, r) == \/ pc[t] = "live"
             \/ pc[t] = "mapping" /\ r < at[t]

AloneOK == \A t \in Threads : Claimed(t) /\ ~beside[t] =>
             /\ \A u \in Threads : pc[u] # "unmapping"
             /\ \A r \in Regions : Has(t, r) => mapping[r] = t

\* Nobody starts to unmap beside the one thread that claimed the slot.
LEMMA StepAlone == SlotInv /\ AloneOK /\ [Next]_vars => AloneOK'
<1> SUFFICES ASSUME SlotInv, AloneOK, [Next]_vars PROVE AloneOK'
  OBVIOUS
<1> USE FirmwareAssumption
    DEF SlotInv, TypeOK, AtOK, AloneOK, Has, Claimed, AtMostOneFirmware, Stages, Regions, Go, Put
<1>1. ASSUME NEW t \in Threads, Claim(t) PROVE AloneOK'
  BY <1>1 DEF Claim
<1>2. ASSUME NEW t \in Threads, AlreadyLoaded(t) PROVE AloneOK'
  BY <1>2 DEF AlreadyLoaded, vars
<1>3. ASSUME NEW t \in Threads, Map(t) PROVE AloneOK'
  BY <1>3 DEF Map
<1>4. ASSUME NEW t \in Threads, MapFails(t) PROVE AloneOK'
  BY <1>4 DEF MapFails
<1>5. ASSUME NEW t \in Threads, Undo(t) PROVE AloneOK'
  BY <1>5 DEF Undo
<1>6. ASSUME NEW t \in Threads, Release(t) PROVE AloneOK'
  BY <1>6 DEF Release
<1>7. ASSUME NEW t \in Threads, Loaded(t) PROVE AloneOK'
  BY <1>7 DEF Loaded
<1>8. ASSUME NEW t \in Threads, Drop(t) PROVE AloneOK'
  BY <1>8 DEF Drop
<1>9. ASSUME NEW t \in Threads, Unmap(t) PROVE AloneOK'
  BY <1>9 DEF Unmap
<1>10. ASSUME NEW t \in Threads, Gone(t) PROVE AloneOK'
  BY <1>10 DEF Gone
<1>11. CASE UNCHANGED vars
  BY <1>11 DEF vars
<1> QED
  BY <1>1, <1>2, <1>3, <1>4, <1>5, <1>6, <1>7, <1>8, <1>9, <1>10, <1>11
     DEF Next, Load

\* A Firmware loaded while no other one was being dropped keeps all its regions
\* while it lives (firmware.rs:88-90).
THEOREM WholeUnlessBeside == Spec => []LiveIsWholeUnlessBeside
<1>1. Init => AloneOK
  BY DEF Init, AloneOK, Claimed
<1>2. AloneOK => LiveIsWholeUnlessBeside
  BY Zenon DEF AloneOK, Has, Claimed, LiveIsWholeUnlessBeside
<1> QED
  BY <1>1, <1>2, StepAlone, SlotHolds, PTL DEF Spec
=============================================================================
