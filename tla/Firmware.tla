------------------------------- MODULE Firmware -------------------------------
(***************************************************************************)
(* The process-wide firmware singleton (firmware.rs): Firmware::load maps  *)
(* three regions at fixed addresses, dropping the Firmware unmaps them,    *)
(* and the flag FIRMWARE_LOADED keeps a second load out.                   *)
(*                                                                         *)
(* The mappings belong to the process, not to the thread that made them:   *)
(* mmap with MAP_FIXED replaces whatever is there and munmap removes       *)
(* whatever is there.  mapping[r] says whose bytes are at region r.        *)
(***************************************************************************)
EXTENDS Naturals

CONSTANTS Threads,   \* threads that load and drop a Firmware
          Foreign,   \* an owner that is not a Firmware: the loader's mappings
          Nobody,    \* nothing is mapped
          Occupied,  \* regions where the process has other mappings at start
          MaxFaults  \* bound: mmap and mprotect calls that fail

\* In the order load_inner maps them and drop unmaps them.
Regions == 1..3      \* the firmware, the RAM core, TCRAM

ASSUME FirmwareAssumption == /\ Foreign \notin Threads /\ Nobody \notin Threads
                             /\ Foreign # Nobody
                             /\ Occupied \subseteq Regions
                             /\ MaxFaults \in Nat

VARIABLES loaded,  \* FIRMWARE_LOADED
          pc,      \* where each thread is
          at,      \* at[t]: the region t maps or unmaps next
          mapping, \* mapping[r]: whose mapping is at region r
          beside,  \* history: beside[t], some drop was under way when t claimed
          faults   \* system calls that failed

vars == <<loaded, pc, at, mapping, beside, faults>>

Stages == {"none", "mapping", "undoing", "live", "unmapping"}

TypeOK == /\ loaded \in BOOLEAN
          /\ pc \in [Threads -> Stages]
          /\ at \in [Threads -> 0..4]
          /\ mapping \in [Regions -> Threads \cup {Foreign, Nobody}]
          /\ beside \in [Threads -> BOOLEAN]
          /\ faults \in 0..MaxFaults

Init == /\ loaded = FALSE
        /\ pc = [t \in Threads |-> "none"]
        /\ at = [t \in Threads |-> 1]
        /\ mapping = [r \in Regions |-> IF r \in Occupied THEN Foreign ELSE Nobody]
        /\ beside = [t \in Threads |-> FALSE]
        /\ faults = 0

Go(t, stage, r) == /\ pc' = [pc EXCEPT ![t] = stage]
                   /\ at' = [at EXCEPT ![t] = r]

Put(r, owner) == mapping' = [mapping EXCEPT ![r] = owner]

-----------------------------------------------------------------------------
(* Firmware::load.  AlreadyLoaded leaves everything as it is.              *)

\* Slip: the flag is read, and written later.
Claim_Unchecked(t) == /\ pc[t] = "none"
                      /\ loaded' = TRUE
                      /\ beside' = [beside EXCEPT ![t] =
                           \E u \in Threads \ {t} : pc[u] = "unmapping"]
                      /\ Go(t, "mapping", 1)
                      /\ UNCHANGED <<mapping, faults>>

\* The compare_exchange on the flag.
Claim(t) == /\ pc[t] = "none" /\ ~loaded
            /\ loaded' = TRUE
            /\ beside' = [beside EXCEPT ![t] =
                 \E u \in Threads \ {t} : pc[u] = "unmapping"]
            /\ Go(t, "mapping", 1)
            /\ UNCHANGED <<mapping, faults>>

AlreadyLoaded(t) == /\ pc[t] = "none" /\ loaded
                    /\ UNCHANGED vars

\* new_fixed and, for the first two, write_padded.
Map(t) == /\ pc[t] = "mapping" /\ at[t] \in Regions
          /\ Put(at[t], t)
          /\ Go(t, "mapping", at[t] + 1)
          /\ UNCHANGED <<loaded, beside, faults>>

\* Slip: the regions mapped so far are not unmapped.
MapFails_Leaks(t) == /\ pc[t] = "mapping" /\ at[t] \in Regions
                     /\ faults < MaxFaults /\ faults' = faults + 1
                     /\ Go(t, "undoing", 0)
                     /\ UNCHANGED <<loaded, mapping, beside>>

\* mmap fails, or, once the firmware is in place, mprotect on it does: the
\* regions mapped so far are dropped, the last one first.
MapFails(t) == /\ pc[t] = "mapping" /\ at[t] \in Regions
               /\ faults < MaxFaults /\ faults' = faults + 1
               /\ Go(t, "undoing", at[t] - 1)
               /\ UNCHANGED <<loaded, mapping, beside>>

Undo(t) == /\ pc[t] = "undoing" /\ at[t] \in Regions
           /\ Put(at[t], Nobody)
           /\ Go(t, "undoing", at[t] - 1)
           /\ UNCHANGED <<loaded, beside, faults>>

\* inspect_err: the flag is cleared when the regions are gone.
Release(t) == /\ pc[t] = "undoing" /\ at[t] = 0
              /\ loaded' = FALSE
              /\ Go(t, "none", 1)
              /\ UNCHANGED <<mapping, beside, faults>>

\* Slip: TCRAM is not mapped.
Loaded_NoTcram(t) == /\ pc[t] = "mapping" /\ at[t] = 3
                     /\ Go(t, "live", 1)
                     /\ UNCHANGED <<loaded, mapping, beside, faults>>

Loaded(t) == /\ pc[t] = "mapping" /\ at[t] = 4
             /\ Go(t, "live", 1)
             /\ UNCHANGED <<loaded, mapping, beside, faults>>

-----------------------------------------------------------------------------
(* Dropping a Firmware: its own drop clears the flag, then its fields'     *)
(* drops unmap the regions.                                                *)

Drop(t) == /\ pc[t] = "live"
           /\ loaded' = FALSE
           /\ Go(t, "unmapping", 1)
           /\ UNCHANGED <<mapping, beside, faults>>

\* Slip: one region too many.
Unmap_PastTheEnd(t) == /\ pc[t] = "unmapping"
                       /\ Put(at[t], Nobody)
                       /\ Go(t, "unmapping", at[t] + 1)
                       /\ UNCHANGED <<loaded, beside, faults>>

Unmap(t) == /\ pc[t] = "unmapping" /\ at[t] \in Regions
            /\ Put(at[t], Nobody)
            /\ Go(t, "unmapping", at[t] + 1)
            /\ UNCHANGED <<loaded, beside, faults>>

Gone(t) == /\ pc[t] = "unmapping" /\ at[t] = 4
           /\ Go(t, "none", 1)
           /\ UNCHANGED <<loaded, mapping, beside, faults>>

Load(t) == \/ Claim(t) \/ AlreadyLoaded(t) \/ Map(t) \/ MapFails(t)
           \/ Undo(t) \/ Release(t) \/ Loaded(t)

Next == \E t \in Threads : Load(t) \/ Drop(t) \/ Unmap(t) \/ Gone(t)

Spec == Init /\ [][Next]_vars

-----------------------------------------------------------------------------
(* Properties.                                                             *)

Claimed(t) == pc[t] \in {"mapping", "undoing", "live"}

\* At most one thread loads or owns a Firmware at a time, and the slot is free
\* exactly when none does: no error path and no drop leaves it taken
\* (firmware.rs:114-127).
AtMostOneFirmware ==
    /\ \A t, u \in Threads : Claimed(t) /\ Claimed(u) => t = u
    /\ loaded <=> \E t \in Threads : Claimed(t)

\* A load that fails half-way, and a drop, take all their mappings with them:
\* a thread that owns no Firmware has nothing mapped.
NothingLeaks ==
    \A t \in Threads, r \in Regions : pc[t] = "none" => mapping[r] # t

\* A live Firmware has all its regions if no other one was being dropped at
\* the instant it was loaded.
LiveIsWholeUnlessBeside ==
    \A t \in Threads : pc[t] = "live" /\ ~beside[t] =>
      \A r \in Regions : mapping[r] = t

=============================================================================
