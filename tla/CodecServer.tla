----------------------------- MODULE CodecServer -----------------------------
(***************************************************************************)
(* The AMBE server of md380_emu_ambed (server.rs): one task per connection *)
(* and one OS thread that owns the firmware vocoder.  A connection reads a *)
(* packet, answers control packets by itself, sends audio frames to the    *)
(* thread through a bounded channel and awaits a oneshot with the result.  *)
(*                                                                         *)
(* Data.  A packet is its kind; the k-th packet of a connection is k.  A   *)
(* frame names the packet that carried it, and the result of coding it     *)
(* names, besides the frame, the frame the vocoder had coded before it in  *)
(* that direction: the AMBE state at ambe_mystery / ambe_en_mystery        *)
(* (codec.rs) survives from call to call, so the output depends on it.     *)
(***************************************************************************)
EXTENDS Naturals, Sequences

CONSTANTS Conns,      \* connections a client may open
          QueueCap,   \* mpsc::channel::<CodecRequest>(64)
          MaxPackets, \* bound: packets a client sends on one connection
          Kinds,      \* packet kinds the clients send
          None        \* no frame, no answer

ControlKinds == {"PRODID", "RESET", "RATEP", "RATET", "other"}
Directions == {"encode", "decode"}
AudioKind == [encode |-> "speech", decode |-> "channel"]

\* Audio of the wrong shape: a Speech packet without 160 samples, a Channel
\* packet without 49 bits or with too few bytes.
AllKinds == ControlKinds \cup {"speech", "channel", "misshapen"}

ASSUME ConstantsAssumption ==
    /\ QueueCap \in Nat \ {0}
    /\ MaxPackets \in Nat
    /\ Kinds \subseteq AllKinds

Frames == [conn : Conns, dir : Directions, n : 1..MaxPackets]
Acks == {"product id", "READY", "ok"}
Answers == [n : 1..MaxPackets, body : Acks \cup Directions,
            pred : Frames \cup {None}]

\* None is a frame, an answer or a result (of the abstract vocoder) of nothing.
ASSUME NoneAssumption ==
    /\ None \notin Frames /\ None \notin Answers
    /\ None \notin [frame : Frames, pred : Frames \cup {None}]

VARIABLES
    up,       \* run_server has not returned
    pc,       \* where each connection's handler is suspended
    received, \* received[c]: the packets handler c has read
    frame,    \* frame[c]: the CodecRequest handler c sends or awaits
    oneshot,  \* oneshot[c]: the worker's result, not yet taken by the handler
    reply,    \* reply[c]: the packet handler c is writing
    queue,    \* the mpsc channel
    job,      \* the request the worker is computing, or None
    worker,   \* the thread: "running", or "exited" by itself or with the process
    context,  \* context[d]: the last frame the vocoder coded in direction d
    sent      \* history: the packets written to each connection

clientVars == <<up, received, sent>>
handlerVars == <<pc, frame, oneshot, reply>>
workerVars == <<queue, job, worker, context>>
vars == <<up, pc, received, frame, oneshot, reply, queue, job, worker,
          context, sent>>

Stages == {"unopened", "reading", "sending", "awaiting", "writing", "closed"}

TypeOK ==
    /\ up \in BOOLEAN
    /\ pc \in [Conns -> Stages]
    /\ received \in [Conns -> Seq(Kinds)]
    /\ \A c \in Conns : Len(received[c]) <= MaxPackets
    /\ frame \in [Conns -> Frames \cup {None}]
    /\ oneshot \in [Conns -> Answers \cup {None}]
    /\ reply \in [Conns -> Answers \cup {None}]
    /\ queue \in Seq(Frames)
    /\ Len(queue) <= QueueCap
    /\ job \in Frames \cup {None}
    /\ worker \in {"running", "exited"}
    /\ context \in [Directions -> Frames \cup {None}]
    /\ sent \in [Conns -> Seq(Answers)]

Init ==
    /\ up = TRUE
    /\ pc = [c \in Conns |-> "unopened"]
    /\ received = [c \in Conns |-> <<>>]
    /\ frame = [c \in Conns |-> None]
    /\ oneshot = [c \in Conns |-> None]
    /\ reply = [c \in Conns |-> None]
    /\ queue = <<>>
    /\ job = None
    /\ worker = "running"
    /\ context = [d \in Directions |-> None]
    /\ sent = [c \in Conns |-> <<>>]

-----------------------------------------------------------------------------
(* The handler of connection c.                                            *)

\* The accept loop spawns a handler for a new connection.
Accept(c) ==
    /\ up /\ pc[c] = "unopened"
    /\ pc' = [pc EXCEPT ![c] = "reading"]
    /\ UNCHANGED <<frame, oneshot, reply, clientVars, workerVars>>

\* read_packet returns the next packet, of kind k.
Read(c, k) ==
    /\ pc[c] = "reading"
    /\ Len(received[c]) < MaxPackets
    /\ received' = [received EXCEPT ![c] = Append(@, k)]

\* control_response: what a control packet is answered with.
ControlResponse(k) == CASE k = "PRODID" -> "product id"
                        [] k = "RESET" -> "READY"
                        [] OTHER -> "ok"

\* A control packet is answered without the worker.
ReadControl(c) ==
    /\ \E k \in Kinds \cap ControlKinds :
         /\ Read(c, k)
         /\ reply' = [reply EXCEPT ![c] = [n |-> Len(received'[c]),
                                           body |-> ControlResponse(k),
                                           pred |-> None]]
    /\ pc' = [pc EXCEPT ![c] = "writing"]
    /\ UNCHANGED <<up, frame, oneshot, sent, workerVars>>

\* Audio of the wrong shape is logged and never answered.
ReadMisshapen(c) ==
    /\ "misshapen" \in Kinds
    /\ Read(c, "misshapen")
    /\ UNCHANGED <<up, sent, handlerVars, workerVars>>

\* A well-formed frame becomes a CodecRequest with a fresh oneshot.
ReadAudio(c) ==
    /\ \E d \in Directions :
         /\ AudioKind[d] \in Kinds
         /\ Read(c, AudioKind[d])
         /\ frame' = [frame EXCEPT ![c] =
                        [conn |-> c, dir |-> d, n |-> Len(received'[c])]]
    /\ pc' = [pc EXCEPT ![c] = "sending"]
    /\ UNCHANGED <<up, oneshot, reply, sent, workerVars>>

\* Slip: try_send with its error ignored.
Send_Try(c) ==
    /\ pc[c] = "sending" /\ worker = "running"
    /\ queue' = IF Len(queue) < QueueCap THEN Append(queue, frame[c]) ELSE queue
    /\ pc' = [pc EXCEPT ![c] = "awaiting"]
    /\ UNCHANGED <<frame, oneshot, reply, job, worker, context, clientVars>>

\* Slip: an unbounded channel.
Send_Unbounded(c) ==
    /\ pc[c] = "sending" /\ worker = "running"
    /\ queue' = Append(queue, frame[c])
    /\ pc' = [pc EXCEPT ![c] = "awaiting"]
    /\ UNCHANGED <<frame, oneshot, reply, job, worker, context, clientVars>>

\* codec.send(...).await completes once the channel has a free slot.
Send(c) ==
    /\ pc[c] = "sending"
    /\ worker = "running" /\ Len(queue) < QueueCap
    /\ queue' = Append(queue, frame[c])
    /\ pc' = [pc EXCEPT ![c] = "awaiting"]
    /\ UNCHANGED <<frame, oneshot, reply, job, worker, context, clientVars>>

\* Slip: the await is wrapped in a timeout after which the frame is given up.
Receive_TimesOut(c) ==
    /\ pc[c] = "awaiting"
    /\ reply' = [reply EXCEPT ![c] = oneshot[c]]
    /\ oneshot' = [oneshot EXCEPT ![c] = None]
    /\ frame' = [frame EXCEPT ![c] = None]
    /\ pc' = [pc EXCEPT ![c] = IF oneshot[c] = None THEN "reading" ELSE "writing"]
    /\ UNCHANGED <<clientVars, workerVars>>

\* rx_reply.await completes and the response packet is built from it.
Receive(c) ==
    /\ pc[c] = "awaiting" /\ oneshot[c] # None
    /\ reply' = [reply EXCEPT ![c] = oneshot[c]]
    /\ oneshot' = [oneshot EXCEPT ![c] = None]
    /\ frame' = [frame EXCEPT ![c] = None]
    /\ pc' = [pc EXCEPT ![c] = "writing"]
    /\ UNCHANGED <<clientVars, workerVars>>

\* Slip: try_write, the packet is dropped when the socket is full.
Write_Drops(c) ==
    /\ pc[c] = "writing"
    /\ sent' \in {sent, [sent EXCEPT ![c] = Append(@, reply[c])]}
    /\ reply' = [reply EXCEPT ![c] = None]
    /\ pc' = [pc EXCEPT ![c] = "reading"]
    /\ UNCHANGED <<up, received, frame, oneshot, workerVars>>

\* write_packet puts the whole packet on the connection.
Write(c) ==
    /\ pc[c] = "writing"
    /\ sent' = [sent EXCEPT ![c] = Append(@, reply[c])]
    /\ reply' = [reply EXCEPT ![c] = None]
    /\ pc' = [pc EXCEPT ![c] = "reading"]
    /\ UNCHANGED <<up, received, frame, oneshot, workerVars>>

\* End of file, a malformed packet or a dead peer ends the handler where it
\* touches the connection; one that sends or awaits does not notice.
Disconnect(c) ==
    /\ pc[c] \in {"reading", "writing"}
    /\ pc' = [pc EXCEPT ![c] = "closed"]
    /\ reply' = [reply EXCEPT ![c] = None]
    /\ UNCHANGED <<frame, oneshot, clientVars, workerVars>>

-----------------------------------------------------------------------------
(* The codec worker: while let Some(req) = rx.blocking_recv().             *)

WorkerRecv ==
    /\ worker = "running" /\ job = None /\ queue # <<>>
    /\ job' = Head(queue)
    /\ queue' = Tail(queue)
    /\ UNCHANGED <<worker, context, clientVars, handlerVars>>

\* Slip: both directions run on the decoder's state.
Coded_SharedState(f) ==
    [n |-> f.n, body |-> f.dir, pred |-> context["decode"]]

\* Slip: the vocoder is rebuilt for each request.
ContextAfter_Fresh(f) == [context EXCEPT ![f.dir] = None]

\* What the vocoder makes of frame f, and the state it leaves behind.
Coded(f) == [n |-> f.n, body |-> f.dir, pred |-> context[f.dir]]
ContextAfter(f) == [context EXCEPT ![f.dir] = f]

\* Slip: the worker waits until somebody takes the result.
WorkerReply_Waits ==
    /\ worker = "running" /\ job # None /\ pc[job.conn] = "awaiting"
    /\ oneshot' = [oneshot EXCEPT ![job.conn] = Coded(job)]
    /\ context' = ContextAfter(job)
    /\ job' = None
    /\ UNCHANGED <<pc, frame, reply, queue, worker, clientVars>>

\* The frame is coded; reply.send fails silently if the handler is gone.
WorkerReply ==
    /\ worker = "running" /\ job # None
    /\ oneshot' = IF pc[job.conn] = "awaiting"
                    THEN [oneshot EXCEPT ![job.conn] = Coded(job)]
                    ELSE oneshot
    /\ context' = ContextAfter(job)
    /\ job' = None
    /\ UNCHANGED <<pc, frame, reply, queue, worker, clientVars>>

\* blocking_recv returns None: the channel is drained and every sender,
\* run_server's and the handlers', has been dropped.  Nobody joins the thread,
\* so whether it gets here before ProcessExit is a matter of luck.
WorkerExit ==
    /\ worker = "running" /\ job = None /\ queue = <<>>
    /\ ~up /\ \A c \in Conns : pc[c] \in {"unopened", "closed"}
    /\ worker' = "exited"
    /\ UNCHANGED <<queue, job, context, clientVars, handlerVars>>

-----------------------------------------------------------------------------
(* Ctrl-C: run_server returns, the runtime is dropped and with it every    *)
(* handler where it is suspended; then the process exits.                  *)

Shutdown ==
    /\ up
    /\ up' = FALSE
    /\ UNCHANGED <<received, sent, handlerVars, workerVars>>

\* block_on has returned and the runtime goes out of scope: the task is dropped.
Cancel(c) ==
    /\ ~up /\ pc[c] \notin {"unopened", "closed"}
    /\ pc' = [pc EXCEPT ![c] = "closed"]
    /\ frame' = [frame EXCEPT ![c] = None]
    /\ oneshot' = [oneshot EXCEPT ![c] = None]
    /\ reply' = [reply EXCEPT ![c] = None]
    /\ UNCHANGED <<clientVars, workerVars>>

\* main returns while the worker, a detached thread, may still hold requests:
\* it dies with the process, wherever it is.
ProcessExit ==
    /\ ~up /\ \A c \in Conns : pc[c] \in {"unopened", "closed"}
    /\ worker = "running"
    /\ worker' = "exited"
    /\ UNCHANGED <<queue, job, context, clientVars, handlerVars>>

\* The one way the server stops: its process is gone.
Terminated == worker = "exited" /\ UNCHANGED vars

Handler(c) == \/ ReadControl(c) \/ ReadMisshapen(c) \/ ReadAudio(c)
              \/ Send(c) \/ Receive(c) \/ Write(c) \/ Disconnect(c)

Next == \/ \E c \in Conns : Accept(c) \/ Handler(c) \/ Cancel(c)
        \/ WorkerRecv \/ WorkerReply \/ WorkerExit
        \/ Shutdown \/ ProcessExit \/ Terminated

Spec == Init /\ [][Next]_vars

\* The worker is a thread of its own and a handler whose await is ready is
\* polled again.  The channel's permits are granted in the order they were
\* asked for, so a waiting sender is not overtaken for ever.  Nothing is
\* assumed of the clients: reads, writes and disconnects need not happen; nor
\* of the end: the worker need not see its channel close.
Fairness == /\ WF_vars(WorkerRecv) /\ WF_vars(WorkerReply)
            /\ \A c \in Conns : SF_vars(Send(c)) /\ WF_vars(Receive(c))

FairSpec == Spec /\ Fairness

-----------------------------------------------------------------------------
(* Properties.                                                             *)

InQueue(f) == \E i \in DOMAIN queue : queue[i] = f

\* Each connection gets one answer of the right sort for every packet it sent
\* (the misshapen ones excepted), in the order it sent them, whatever the
\* other connections do meanwhile (handle_connection).
AnswersInOrder ==
    \A c \in Conns : \A i \in DOMAIN sent[c] :
      LET k == received[c][sent[c][i].n]
      IN  /\ sent[c][i].body = IF k \in ControlKinds
                                 THEN ControlResponse(k)
                                 ELSE CHOOSE d \in Directions : AudioKind[d] = k
          /\ \A n \in 1..(sent[c][i].n - 1) :
               received[c][n] # "misshapen" =>
                 \E j \in 1..(i - 1) : sent[c][j].n = n
          /\ \A j \in 1..(i - 1) : sent[c][j].n < sent[c][i].n

\* The request of a handler that awaits its reply is in exactly one pair of
\* hands: the channel's, the worker's or, answered, its own oneshot's; and
\* there is a worker to serve it.  "codec reply dropped" and "codec worker
\* died" (server.rs:236-237) therefore never happen.
AwaitedRequestIsHeld ==
    \A c \in Conns : pc[c] = "awaiting" =>
      \/ /\ InQueue(frame[c]) /\ job # frame[c] /\ oneshot[c] = None
         /\ worker = "running"
      \/ /\ job = frame[c] /\ ~InQueue(frame[c]) /\ oneshot[c] = None
         /\ worker = "running"
      \/ /\ oneshot[c] # None
         /\ ~InQueue(frame[c]) /\ job # frame[c]
         /\ oneshot[c].n = frame[c].n /\ oneshot[c].body = frame[c].dir

\* A handler that is gone, or waits for nothing, is owed nothing: no frame of
\* a live connection is in the channel or the worker unless it is awaited.
HeldRequestIsAwaited ==
    \A f \in Frames : InQueue(f) \/ job = f =>
      \/ pc[f.conn] = "awaiting" /\ frame[f.conn] = f
      \/ pc[f.conn] = "closed"

\* Both: a request is in exactly one pair of hands until it is answered, and in
\* nobody's once its handler no longer waits.
EveryRequestHasOneHolder == AwaitedRequestIsHeld /\ HeldRequestIsAwaited

\* The vocoder codes one frame after the other, over all connections: no two
\* answers of one direction were computed from the same vocoder state.
CodingIsSerial ==
    \A c, d \in Conns : \A i \in DOMAIN sent[c], j \in DOMAIN sent[d] :
      /\ sent[c][i].body \in Directions
      /\ sent[c][i].body = sent[d][j].body
      /\ sent[c][i].pred = sent[d][j].pred
      => c = d /\ i = j

\* A connection's own frames reach the vocoder in order and none is skipped:
\* where the vocoder state an answer was computed from was left by the same
\* connection, it was left by that connection's preceding frame in that
\* direction.  With one audio client at a time, as the module's doc asks
\* (server.rs:27-29), its stream is coded exactly as by a private vocoder.
OwnFramesAreContinuous ==
    \A c \in Conns : \A i \in DOMAIN sent[c] :
      LET a == sent[c][i]
          earlier == {j \in 1..(i - 1) : sent[c][j].body = a.body}
      IN  a.pred # None /\ a.pred.conn = c =>
            \E j \in earlier : /\ sent[c][j].n = a.pred.n
                               /\ \A k \in earlier : k <= j

\* Every frame handed to the server is coded and its result handed back to
\* the handler, even if other clients stop reading, disconnect or flood the
\* channel: no handler waits for another (server.rs:233-237).
EveryFrameIsCoded ==
    \A c \in Conns : pc[c] = "sending" ~> pc[c] \in {"writing", "closed"}

-----------------------------------------------------------------------------
(* The server implements the atomic vocoder of CodecService.  A frame is   *)
(* pending from ReadAudio on and is served where the worker replies.       *)

Pending(c) == IF pc[c] \in {"sending", "awaiting"} /\ oneshot[c] = None
                THEN frame[c] ELSE None

Result(c) ==
    IF oneshot[c] = None THEN None
      ELSE [frame |-> [conn |-> c, dir |-> oneshot[c].body, n |-> oneshot[c].n],
            pred |-> oneshot[c].pred]

Orphans == {f \in Frames : (InQueue(f) \/ job = f) /\ pc[f.conn] = "closed"}

Service == INSTANCE CodecService
             WITH pending <- [c \in Conns |-> Pending(c)],
                  result <- [c \in Conns |-> Result(c)],
                  orphans <- Orphans

\* Refinement: seen through the mapping above, every step of handlers and
\* worker is a step of the atomic vocoder or no step at all.
ImplementsService == Service!Spec

=============================================================================
