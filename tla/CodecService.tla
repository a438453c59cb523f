---------------------------- MODULE CodecService ----------------------------
(***************************************************************************)
(* What the AMBE server promises its connections: one vocoder, shared by   *)
(* everybody, that behaves as an atomic object.  A connection has at most  *)
(* one frame outstanding; each outstanding frame is coded at one instant,  *)
(* against the frame coded just before it in the same direction, by        *)
(* whichever connection; and the answer goes to the connection that asked. *)
(* A connection that goes away may leave its frame behind: the frame is    *)
(* then lost, or is coded later with nobody to answer.                     *)
(*                                                                         *)
(* CodecServer is the program; it is checked to implement this module.     *)
(***************************************************************************)
CONSTANTS Conns,      \* connections
          Directions, \* the vocoder keeps one context per direction
          Frames,     \* [conn, dir, n] records
          None        \* "no frame"

VARIABLES context,    \* context[d]: the last frame coded in direction d
          pending,    \* pending[c]: the frame c waits for, or None
          result,     \* result[c]: [frame, pred] computed for c, or None
          orphans     \* frames left behind by connections that are gone

vars == <<context, pending, result, orphans>>

Coded(f) == [frame |-> f, pred |-> context[f.dir]]

Init == /\ context = [d \in Directions |-> None]
        /\ pending = [c \in Conns |-> None]
        /\ result = [c \in Conns |-> None]
        /\ orphans = {}

\* Connection c hands over a frame of its own.
Ask(c, f) == /\ pending[c] = None /\ result[c] = None
             /\ f.conn = c
             /\ pending' = [pending EXCEPT ![c] = f]
             /\ UNCHANGED <<context, result, orphans>>

\* The vocoder codes c's frame; the answer waits for c.
Serve(c) == /\ pending[c] # None
            /\ result' = [result EXCEPT ![c] = Coded(pending[c])]
            /\ context' = [context EXCEPT ![pending[c].dir] = pending[c]]
            /\ pending' = [pending EXCEPT ![c] = None]
            /\ UNCHANGED orphans

\* c takes its answer.
Take(c) == /\ result[c] # None
           /\ result' = [result EXCEPT ![c] = None]
           /\ UNCHANGED <<context, pending, orphans>>

\* c goes away while its frame is outstanding.
Abandon(c) == /\ pending[c] # None
              /\ pending' = [pending EXCEPT ![c] = None]
              /\ orphans' \in {orphans, orphans \cup {pending[c]}}
              /\ UNCHANGED <<context, result>>

\* The vocoder codes a frame nobody waits for any more.
ServeOrphan(f) == /\ f \in orphans
                  /\ orphans' = orphans \ {f}
                  /\ context' = [context EXCEPT ![f.dir] = f]
                  /\ UNCHANGED <<pending, result>>

Next == \/ \E c \in Conns : \/ \E f \in Frames : Ask(c, f)
                            \/ Serve(c)
                            \/ Take(c)
                            \/ Abandon(c)
        \/ \E f \in orphans : ServeOrphan(f)

Spec == Init /\ [][Next]_vars
=============================================================================
