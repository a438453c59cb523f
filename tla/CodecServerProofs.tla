-------------------------- MODULE CodecServerProofs --------------------------
(***************************************************************************)
(* Theorems about CodecServer, for every set of connections, channel       *)
(* capacity, number of packets and mix of packet kinds.                    *)
(*                                                                         *)
(* TypeOK is not inductive: that Send puts a frame and not None into the   *)
(* channel depends on where the handler is suspended.  HandlersOK says     *)
(* what each suspension point holds; with TypeOK it is inductive.          *)
(***************************************************************************)
EXTENDS CodecServer, TLAPS, SequenceTheorems

\* What a handler holds where it is suspended.
HandlerOK(c) ==
    /\ pc[c] \in {"sending", "awaiting"} => frame[c] # None
    /\ frame[c] # None => /\ pc[c] \in {"sending", "awaiting"}
                          /\ frame[c].conn = c
                          /\ frame[c].n = Len(received[c])
                          /\ received[c][frame[c].n] = AudioKind[frame[c].dir]
    /\ pc[c] = "writing" => reply[c] # None
    /\ reply[c] # None => pc[c] = "writing"
    /\ oneshot[c] # None => /\ pc[c] = "awaiting"
                            /\ oneshot[c].n = frame[c].n
                            /\ oneshot[c].body = frame[c].dir

\* A request outside its handler is awaited by it, unless the handler is gone.
Waits(f) == \/ /\ pc[f.conn] = "awaiting"
               /\ frame[f.conn] = f /\ oneshot[f.conn] = None
            \/ pc[f.conn] = "closed"

\* Channel and worker hold at most one request of each connection.
HeldOK == /\ \A i \in DOMAIN queue : Waits(queue[i])
          /\ job # None => Waits(job)
          /\ \A i, j \in DOMAIN queue : queue[i].conn = queue[j].conn => i = j
          /\ job # None => \A i \in DOMAIN queue : queue[i].conn # job.conn

HandlersOK == (\A c \in Conns : HandlerOK(c)) /\ HeldOK

TypeInv == TypeOK /\ HandlersOK

-----------------------------------------------------------------------------
\* A control packet is answered with one of the three acknowledgements.
LEMMA ControlResponseType == \A k : ControlResponse(k) \in Acks
BY DEF ControlResponse, Acks

\* Read(c, k) of a kind the clients send appends one packet to received[c].
LEMMA ReadAppends ==
    ASSUME TypeOK, NEW c \in Conns, NEW k \in Kinds, Read(c, k)
    PROVE  /\ received' \in [Conns -> Seq(Kinds)]
           /\ \A d \in Conns : Len(received'[d]) <= MaxPackets
           /\ Len(received'[c]) = Len(received[c]) + 1
           /\ Len(received'[c]) \in 1..MaxPackets
           /\ received'[c][Len(received'[c])] = k
           /\ \A d \in Conns : d # c => received'[d] = received[d]
<1>1. received[c] \in Seq(Kinds) /\ Len(received[c]) \in Nat
  BY LenProperties DEF TypeOK
<1>2. received'[c] = Append(received[c], k)
  BY DEF Read, TypeOK
<1>3. Append(received[c], k) \in Seq(Kinds)
      /\ Len(Append(received[c], k)) = Len(received[c]) + 1
      /\ Append(received[c], k)[Len(received[c]) + 1] = k
  BY <1>1
<1> QED
  BY <1>1, <1>2, <1>3, ConstantsAssumption DEF Read, TypeOK

\* What the vocoder makes of a frame is an answer.
LEMMA CodedType ==
    ASSUME TypeOK, NEW f \in Frames
    PROVE  /\ Coded(f) \in Answers
           /\ ContextAfter(f) \in [Directions -> Frames \cup {None}]
BY DEF TypeOK, Coded, ContextAfter, Frames, Answers, Directions

\* A non-empty channel: its head and its tail.
LEMMA QueueHead ==
    ASSUME TypeOK, queue # <<>>
    PROVE  /\ Head(queue) \in Frames
           /\ Head(queue) = queue[1]
           /\ 1 \in DOMAIN queue
           /\ Tail(queue) \in Seq(Frames)
           /\ Len(queue) \in Nat
           /\ Len(Tail(queue)) = Len(queue) - 1
           /\ DOMAIN Tail(queue) = 1..(Len(queue) - 1)
           /\ \A i \in DOMAIN Tail(queue) : /\ i + 1 \in DOMAIN queue
                                            /\ Tail(queue)[i] = queue[i + 1]
<1>1. queue \in Seq(Frames)
  BY DEF TypeOK
<1>2. Len(queue) \in Nat \ {0} /\ DOMAIN queue = 1..Len(queue)
  BY <1>1, EmptySeq, LenProperties
<1>3. Tail(queue) \in Seq(Frames) /\ Len(Tail(queue)) = Len(queue) - 1
      /\ \A i \in 1..Len(Tail(queue)) : Tail(queue)[i] = queue[i + 1]
  BY <1>1, HeadTailProperties
<1>4. DOMAIN Tail(queue) = 1..Len(Tail(queue))
  BY <1>3, LenProperties
<1> QED
  BY <1>1, <1>2, <1>3, <1>4

-----------------------------------------------------------------------------
\* The initial state.
LEMMA TypeInvInit == Init => TypeInv
<1> SUFFICES ASSUME Init PROVE TypeInv
  OBVIOUS
<1>1. /\ <<>> \in Seq(Kinds) /\ <<>> \in Seq(Frames) /\ <<>> \in Seq(Answers)
      /\ Len(<<>>) = 0
  OBVIOUS
<1>2. TypeOK
  BY <1>1, ConstantsAssumption DEF Init, TypeOK, Stages
<1>3. HandlersOK
  BY DEF Init, HandlersOK, HandlerOK, HeldOK
<1> QED
  BY <1>2, <1>3 DEF TypeInv

\* The steps of a handler that touch the connection.
LEMMA TypeInvRead ==
    ASSUME TypeInv, NEW c \in Conns,
           ReadControl(c) \/ ReadMisshapen(c) \/ ReadAudio(c)
    PROVE  TypeInv'
<1> USE DEF TypeInv
<1>a. TypeOK /\ HandlersOK
  OBVIOUS
<1>1. CASE ReadControl(c)
  <2>1. PICK k \in Kinds \cap ControlKinds :
          /\ Read(c, k)
          /\ reply' = [reply EXCEPT ![c] = [n |-> Len(received'[c]),
                                            body |-> ControlResponse(k),
                                            pred |-> None]]
    BY <1>1 DEF ReadControl
  <2>2. /\ received' \in [Conns -> Seq(Kinds)]
        /\ \A d \in Conns : Len(received'[d]) <= MaxPackets
        /\ Len(received'[c]) \in 1..MaxPackets
        /\ \A d \in Conns : d # c => received'[d] = received[d]
    BY <1>a, <2>1, ReadAppends
  <2>3. [n |-> Len(received'[c]), body |-> ControlResponse(k), pred |-> None]
           \in Answers
    BY <2>2, ControlResponseType DEF Answers
  <2>4. TypeOK'
    <3>1. /\ pc' = [pc EXCEPT ![c] = "writing"]
          /\ UNCHANGED <<up, frame, oneshot, sent, queue, job, worker, context>>
      BY <1>1 DEF ReadControl, workerVars
    <3> QED
      BY <1>a, <2>1, <2>2, <2>3, <3>1, SMTT(40) DEF TypeOK, Stages
  <2>5. pc[c] = "reading"
    BY <2>1 DEF Read
  <2>6. HandlersOK'
    BY <1>a, <1>1, <2>1, <2>2, <2>3, <2>5, NoneAssumption, SMTT(40)
       DEF TypeOK, HandlersOK, HandlerOK, HeldOK, Waits, ReadControl, workerVars
  <2> QED
    BY <2>4, <2>6
<1>2. CASE ReadMisshapen(c)
  <2>1. /\ received' \in [Conns -> Seq(Kinds)]
        /\ \A d \in Conns : Len(received'[d]) <= MaxPackets
        /\ \A d \in Conns : d # c => received'[d] = received[d]
        /\ pc[c] = "reading"
    BY <1>a, <1>2, ReadAppends DEF ReadMisshapen, Read
  <2>2. TypeOK'
    BY <1>a, <1>2, <2>1
       DEF TypeOK, ReadMisshapen, handlerVars, workerVars
  <2>3. frame[c] = None
    BY <1>a, <2>1 DEF HandlersOK, HandlerOK
  <2>4. \A e \in Conns : HandlerOK(e)'
    BY <1>a, <1>2, <2>1, <2>3
       DEF HandlersOK, HandlerOK, ReadMisshapen, handlerVars
  <2>5. HeldOK'
    BY <1>a, <1>2
       DEF HandlersOK, HeldOK, Waits, ReadMisshapen, handlerVars, workerVars
  <2> QED
    BY <2>2, <2>4, <2>5 DEF HandlersOK
<1>3. CASE ReadAudio(c)
  <2>1. PICK d \in Directions :
          /\ AudioKind[d] \in Kinds
          /\ Read(c, AudioKind[d])
          /\ frame' = [frame EXCEPT ![c] =
                         [conn |-> c, dir |-> d, n |-> Len(received'[c])]]
    BY <1>3 DEF ReadAudio
  <2> DEFINE f == [conn |-> c, dir |-> d, n |-> Len(received'[c])]
  <2>2. /\ received' \in [Conns -> Seq(Kinds)]
        /\ \A e \in Conns : Len(received'[e]) <= MaxPackets
        /\ Len(received'[c]) \in 1..MaxPackets
        /\ received'[c][Len(received'[c])] = AudioKind[d]
        /\ \A e \in Conns : e # c => received'[e] = received[e]
    BY <1>a, <2>1, ReadAppends
  <2>3. f \in Frames /\ f # None
    BY <2>2, NoneAssumption DEF Frames
  <2>4. TypeOK'
    BY <1>a, <1>3, <2>1, <2>2, <2>3
       DEF TypeOK, ReadAudio, workerVars, Stages
  <2>5. pc[c] = "reading" /\ oneshot[c] = None /\ reply[c] = None
    BY <1>a, <2>1 DEF Read, HandlersOK, HandlerOK
  <2>6. frame'[c] = f /\ pc'[c] = "sending"
    BY <1>a, <1>3, <2>1 DEF TypeOK, ReadAudio
  <2>7. \A e \in Conns : HandlerOK(e)'
    <3> SUFFICES ASSUME NEW e \in Conns PROVE HandlerOK(e)'
      OBVIOUS
    <3>1. CASE e = c
      BY <1>3, <2>2, <2>3, <2>5, <2>6, <3>1
         DEF HandlerOK, ReadAudio, workerVars
    <3>2. CASE e # c
      BY <1>a, <1>3, <2>1, <2>2, <3>2
         DEF TypeOK, HandlersOK, HandlerOK, ReadAudio, workerVars
    <3> QED
      BY <3>1, <3>2
  <2>8. HeldOK'
    <3>1. ASSUME NEW g, Waits(g) PROVE Waits(g)'
      BY <1>a, <1>3, <2>1, <2>5, <3>1 DEF TypeOK, Waits, ReadAudio
    <3> QED
      BY <1>a, <1>3, <3>1 DEF HandlersOK, HeldOK, ReadAudio, workerVars
  <2> QED
    BY <2>4, <2>7, <2>8 DEF HandlersOK
<1> QED
  BY <1>1, <1>2, <1>3

\* A handler hands its frame to the channel.
LEMMA TypeInvSend ==
    ASSUME TypeInv, NEW c \in Conns, Send(c)
    PROVE  TypeInv'
<1>1. TypeOK /\ HandlersOK /\ pc[c] = "sending"
  BY DEF TypeInv, Send
<1>2. frame[c] \in Frames /\ frame[c].conn = c /\ oneshot[c] = None
  BY <1>1 DEF TypeOK, HandlersOK, HandlerOK
<1>3. /\ queue' \in Seq(Frames)
      /\ Len(queue') = Len(queue) + 1
      /\ DOMAIN queue = 1..Len(queue) /\ DOMAIN queue' = 1..(Len(queue) + 1)
      /\ Len(queue) \in Nat
      /\ \A i \in DOMAIN queue : queue'[i] = queue[i]
      /\ queue'[Len(queue) + 1] = frame[c]
  <2>1. queue \in Seq(Frames)
    BY <1>1 DEF TypeOK
  <2>2. queue' = Append(queue, frame[c])
    BY DEF Send
  <2> QED
    BY <1>2, <2>1, <2>2, LenProperties
<1>4. TypeOK'
  BY <1>1, <1>3, ConstantsAssumption DEF TypeOK, Send, clientVars, Stages
<1>5. pc' = [pc EXCEPT ![c] = "awaiting"] /\ frame' = frame /\ oneshot' = oneshot
      /\ reply' = reply /\ received' = received /\ job' = job
  BY DEF Send, clientVars
<1>6. \A d \in Conns : HandlerOK(d)'
  BY <1>1, <1>2, <1>5 DEF TypeOK, HandlersOK, HandlerOK
<1>7. ASSUME NEW f, Waits(f) PROVE Waits(f)' /\ f.conn # c
  BY <1>1, <1>5, <1>7 DEF TypeOK, Waits
<1>8. Waits(frame[c])'
  BY <1>1, <1>2, <1>5 DEF TypeOK, Waits
<1>9. HeldOK'
  <2>1. (\A i \in DOMAIN queue : Waits(queue[i]))'
    <3> SUFFICES ASSUME NEW i \in DOMAIN queue' PROVE Waits(queue[i])'
      OBVIOUS
    <3>1. CASE i \in DOMAIN queue
      BY <1>1, <1>3, <1>7, <3>1 DEF HandlersOK, HeldOK, Waits
    <3>2. CASE i = Len(queue) + 1
      BY <1>3, <1>5, <1>8, <3>2 DEF Waits
    <3> QED
      BY <1>3, <3>1, <3>2
  <2>2. (job # None => Waits(job))'
    BY <1>1, <1>5, <1>7 DEF HandlersOK, HeldOK, Waits
  <2>3. \A i \in DOMAIN queue : queue[i].conn # c
    BY <1>1, <1>7 DEF HandlersOK, HeldOK
  <2>4. \A i, j \in DOMAIN queue' : queue'[i].conn = queue'[j].conn => i = j
    BY <1>1, <1>2, <1>3, <2>3 DEF HandlersOK, HeldOK
  <2>5. job' # None => \A i \in DOMAIN queue' : queue'[i].conn # job'.conn
    <3>1. job # None => job.conn # c
      BY <1>1, <1>7 DEF HandlersOK, HeldOK
    <3> QED
      BY <1>1, <1>2, <1>3, <1>5, <3>1 DEF HandlersOK, HeldOK
  <2> QED
    BY <2>1, <2>2, <2>4, <2>5 DEF HeldOK
<1> QED
  BY <1>4, <1>6, <1>9 DEF TypeInv, HandlersOK

\* A handler takes its result, writes its packet, ends, or is dropped.
LEMMA TypeInvFinish ==
    ASSUME TypeInv, NEW c \in Conns,
           Receive(c) \/ Write(c) \/ Disconnect(c) \/ Cancel(c)
    PROVE  TypeInv'
<1>1. TypeOK /\ HandlersOK
  BY DEF TypeInv
<1>2. CASE Receive(c)
  <2>1. TypeOK'
    BY <1>1, <1>2 DEF TypeOK, Receive, clientVars, workerVars, Stages
  <2>2. \A d \in Conns : HandlerOK(d)'
    BY <1>1, <1>2
       DEF TypeOK, HandlersOK, HandlerOK, Receive, clientVars
  <2>3. ASSUME NEW f, Waits(f) PROVE Waits(f)'
    BY <1>1, <1>2, <2>3 DEF TypeOK, Waits, Receive
  <2>4. HeldOK'
    BY <1>1, <1>2, <2>3 DEF HandlersOK, HeldOK, Receive, workerVars
  <2> QED
    BY <2>1, <2>2, <2>4 DEF TypeInv, HandlersOK
<1>3. CASE Write(c)
  <2>1. reply[c] \in Answers /\ pc[c] = "writing"
    BY <1>1, <1>3 DEF TypeOK, HandlersOK, HandlerOK, Write
  <2>2. Append(sent[c], reply[c]) \in Seq(Answers)
    BY <1>1, <2>1 DEF TypeOK
  <2>3. TypeOK'
    BY <1>1, <1>3, <2>2 DEF TypeOK, Write, workerVars, Stages
  <2>4. \A d \in Conns : HandlerOK(d)'
    BY <1>1, <1>3 DEF TypeOK, HandlersOK, HandlerOK, Write
  <2>5. ASSUME NEW f, Waits(f) PROVE Waits(f)'
    BY <1>1, <1>3, <2>5 DEF TypeOK, Waits, Write
  <2>6. HeldOK'
    BY <1>1, <1>3, <2>5 DEF HandlersOK, HeldOK, Write, workerVars
  <2> QED
    BY <2>3, <2>4, <2>6 DEF TypeInv, HandlersOK
<1>4. CASE Disconnect(c) \/ Cancel(c)
  <2>1. /\ pc' = [pc EXCEPT ![c] = "closed"]
        /\ reply' = [reply EXCEPT ![c] = None]
        /\ frame' = [frame EXCEPT ![c] = None]
        /\ oneshot' = [oneshot EXCEPT ![c] = None]
        /\ UNCHANGED <<received, sent, up, queue, job, worker, context>>
    <3>1. CASE Disconnect(c)
      <4>1. frame[c] = None /\ oneshot[c] = None
        BY <1>1, <3>1 DEF HandlersOK, HandlerOK, Disconnect
      <4>2. frame = [frame EXCEPT ![c] = None]
            /\ oneshot = [oneshot EXCEPT ![c] = None]
        BY <1>1, <4>1 DEF TypeOK
      <4> QED
        BY <3>1, <4>2 DEF Disconnect, clientVars, workerVars
    <3>2. CASE Cancel(c)
      BY <3>2 DEF Cancel, clientVars, workerVars
    <3> QED
      BY <1>4, <3>1, <3>2
  <2>2. TypeOK'
    BY <1>1, <2>1 DEF TypeOK, Stages
  <2>3. \A d \in Conns : HandlerOK(d)'
    BY <1>1, <2>1 DEF TypeOK, HandlersOK, HandlerOK
  <2>4. ASSUME NEW f, Waits(f) PROVE Waits(f)'
    BY <1>1, <2>1, <2>4 DEF TypeOK, Waits
  <2>5. HeldOK'
    BY <1>1, <2>1, <2>4 DEF HandlersOK, HeldOK
  <2> QED
    BY <2>2, <2>3, <2>5 DEF TypeInv, HandlersOK
<1> QED
  BY <1>2, <1>3, <1>4

\* The worker takes the oldest request.
LEMMA TypeInvWorkerRecv ==
    ASSUME TypeInv, WorkerRecv
    PROVE  TypeInv'
<1>1. TypeOK /\ HandlersOK
  BY DEF TypeInv
<1>2. /\ job' = queue[1] /\ queue' = Tail(queue)
      /\ UNCHANGED <<pc, frame, oneshot, reply, received>>
  BY <1>1, QueueHead DEF WorkerRecv, clientVars, handlerVars
<1>3. /\ queue' \in Seq(Frames) /\ job' \in Frames
      /\ Len(queue') = Len(queue) - 1 /\ Len(queue) \in Nat
      /\ 1 \in DOMAIN queue
      /\ DOMAIN queue' = 1..(Len(queue) - 1)
      /\ \A i \in DOMAIN queue' : i + 1 \in DOMAIN queue /\ queue'[i] = queue[i + 1]
  BY <1>1, <1>2, QueueHead DEF WorkerRecv
<1>4. TypeOK'
  <2>1. Len(queue') <= QueueCap
    BY <1>1, <1>3, ConstantsAssumption DEF TypeOK
  <2> QED
    BY <1>1, <1>3, <2>1 DEF TypeOK, WorkerRecv, clientVars, handlerVars
<1>5. \A d \in Conns : HandlerOK(d)'
  BY <1>1, <1>2 DEF HandlersOK, HandlerOK
<1>7. (\A i \in DOMAIN queue : Waits(queue[i]))' /\ (job # None => Waits(job))'
  BY <1>1, <1>2, <1>3 DEF HandlersOK, HeldOK, Waits
<1>8. \A i \in DOMAIN queue' : queue'[i].conn # job'.conn
  BY <1>1, <1>2, <1>3 DEF HandlersOK, HeldOK
<1>9. \A i, j \in DOMAIN queue' : queue'[i].conn = queue'[j].conn => i = j
  <2> SUFFICES ASSUME NEW i \in DOMAIN queue', NEW j \in DOMAIN queue',
                      queue'[i].conn = queue'[j].conn
               PROVE  i = j
    OBVIOUS
  <2>1. i + 1 = j + 1
    BY <1>1, <1>3 DEF HandlersOK, HeldOK
  <2> QED
    BY <1>3, <2>1
<1> QED
  BY <1>4, <1>5, <1>7, <1>8, <1>9 DEF TypeInv, HandlersOK, HeldOK

\* The worker answers: only the oneshot of the request's own handler changes.
LEMMA TypeInvWorkerReply ==
    ASSUME TypeInv, WorkerReply
    PROVE  TypeInv'
<1>1. TypeOK /\ HandlersOK /\ job \in Frames /\ job # None
  BY DEF TypeInv, TypeOK, WorkerReply
<1>2. /\ Coded(job) \in Answers
      /\ context' \in [Directions -> Frames \cup {None}]
      /\ job.conn \in Conns
  BY <1>1, CodedType DEF WorkerReply, Frames
<1>3. /\ oneshot' = IF pc[job.conn] = "awaiting"
                      THEN [oneshot EXCEPT ![job.conn] = Coded(job)] ELSE oneshot
      /\ job' = None
      /\ UNCHANGED <<pc, frame, reply, received, queue, worker, up, sent>>
  BY DEF WorkerReply, clientVars
<1>4. TypeOK'
  BY <1>1, <1>2, <1>3 DEF TypeOK
<1>5. pc[job.conn] = "awaiting" => frame[job.conn] = job
  BY <1>1 DEF HandlersOK, HeldOK, Waits
<1>6. Coded(job).n = job.n /\ Coded(job).body = job.dir
  BY DEF Coded
<1>7. \A d \in Conns : HandlerOK(d)'
  BY <1>1, <1>2, <1>3, <1>5, <1>6 DEF TypeOK, HandlersOK, HandlerOK
<1>8. \A i \in DOMAIN queue : queue[i].conn # job.conn
  BY <1>1 DEF HandlersOK, HeldOK
<1>9. (\A i \in DOMAIN queue : Waits(queue[i]))'
  <2> SUFFICES ASSUME NEW i \in DOMAIN queue' PROVE Waits(queue[i])'
    OBVIOUS
  <2>1. i \in DOMAIN queue /\ Waits(queue[i]) /\ queue'[i] = queue[i]
    BY <1>1, <1>3 DEF HandlersOK, HeldOK
  <2>2. oneshot'[queue[i].conn] = oneshot[queue[i].conn]
    BY <1>1, <1>3, <1>8, <2>1 DEF TypeOK
  <2> QED
    BY <1>3, <2>1, <2>2 DEF Waits
<1> QED
  BY <1>1, <1>3, <1>4, <1>7, <1>9 DEF TypeInv, HandlersOK, HeldOK

\* Steps that touch neither frames nor oneshots.
LEMMA TypeInvOther ==
    ASSUME TypeInv,
           (\E c \in Conns : Accept(c)) \/ WorkerExit \/ ProcessExit
             \/ Shutdown \/ UNCHANGED vars
    PROVE  TypeInv'
<1>1. TypeOK /\ HandlersOK
  BY DEF TypeInv
<1>2. ASSUME NEW c \in Conns, Accept(c) PROVE TypeInv'
  <2>1. TypeOK'
    BY <1>1, <1>2 DEF TypeOK, Accept, clientVars, workerVars, Stages
  <2>2. \A d \in Conns : HandlerOK(d)'
    BY <1>1, <1>2 DEF TypeOK, HandlersOK, HandlerOK, Accept, clientVars
  <2>3. HeldOK'
    BY <1>1, <1>2 DEF TypeOK, HandlersOK, HeldOK, Waits, Accept, workerVars
  <2> QED
    BY <2>1, <2>2, <2>3 DEF TypeInv, HandlersOK
<1>3. CASE WorkerExit \/ ProcessExit
  BY <1>1, <1>3
     DEF TypeInv, TypeOK, HandlersOK, HandlerOK, HeldOK, Waits, WorkerExit,
         ProcessExit, clientVars, handlerVars
<1>4. CASE Shutdown
  BY <1>1, <1>4
     DEF TypeInv, TypeOK, HandlersOK, HandlerOK, HeldOK, Waits, Shutdown,
         handlerVars, workerVars
<1>5. CASE UNCHANGED vars
  BY <1>1, <1>5
     DEF TypeInv, TypeOK, HandlersOK, HandlerOK, HeldOK, Waits, vars
<1> QED
  BY <1>2, <1>3, <1>4, <1>5

\* Every step keeps the invariant.
LEMMA TypeInvNext == TypeInv /\ [Next]_vars => TypeInv'
<1> SUFFICES ASSUME TypeInv, [Next]_vars PROVE TypeInv'
  OBVIOUS
<1>1. ASSUME NEW c \in Conns, Handler(c) PROVE TypeInv'
  BY <1>1, TypeInvRead, TypeInvSend, TypeInvFinish DEF Handler
<1>2. ASSUME NEW c \in Conns, Cancel(c) PROVE TypeInv'
  BY <1>2, TypeInvFinish
<1>3. ASSUME NEW c \in Conns, Accept(c) PROVE TypeInv'
  BY <1>3, TypeInvOther
<1>4. CASE WorkerRecv
  BY <1>4, TypeInvWorkerRecv
<1>5. CASE WorkerReply
  BY <1>5, TypeInvWorkerReply
<1>6. CASE WorkerExit \/ ProcessExit \/ Shutdown \/ Terminated \/ UNCHANGED vars
  BY <1>6, TypeInvOther DEF Terminated
<1> QED
  BY <1>1, <1>2, <1>3, <1>4, <1>5, <1>6 DEF Next

\* Type correctness, and what every suspended handler holds: in particular no
\* handler ever sends a missing frame, writes a missing reply, or finds in its
\* oneshot anything but the result of the frame it sent.
THEOREM TypeInvariant == Spec => []TypeInv
<1>1. Init => TypeInv
  BY TypeInvInit
<1>2. TypeInv /\ [Next]_vars => TypeInv'
  BY TypeInvNext
<1> QED
  BY <1>1, <1>2, PTL DEF Spec

\* TypeOK, the part of it that TLC checks.
COROLLARY TypeCorrect == Spec => []TypeOK
<1>1. TypeInv => TypeOK
  BY DEF TypeInv
<1> QED
  BY <1>1, TypeInvariant, PTL

\* Channel and worker hold no frame of a live handler but the one it awaits.
THEOREM HeldIsAwaited == Spec => []HeldRequestIsAwaited
<1>1. TypeInv => HeldRequestIsAwaited
  BY NoneAssumption
     DEF TypeInv, HandlersOK, HeldOK, Waits, HeldRequestIsAwaited, InQueue
<1> QED
  BY <1>1, TypeInvariant, PTL

-----------------------------------------------------------------------------
(* No reply is lost.  TypeInv says where a request may be; OwedOK that the *)
(* request of a handler that awaits is somewhere, and WorkerOK that there  *)
(* is a worker for it.                                                     *)

OwedOK == \A c \in Conns : pc[c] = "awaiting" =>
            InQueue(frame[c]) \/ job = frame[c] \/ oneshot[c] # None

WorkerOK == worker = "exited" =>
              ~up /\ \A c \in Conns : pc[c] \in {"unopened", "closed"}

DeliveryInv == TypeInv /\ OwedOK /\ WorkerOK

\* Send keeps what is in the channel and adds the handler's frame.
LEMMA SendKeepsQueue ==
    ASSUME TypeInv, NEW c \in Conns, Send(c)
    PROVE  /\ InQueue(frame[c])'
           /\ \A f : InQueue(f) => \E i \in DOMAIN queue' : queue'[i] = f
<1>1. queue \in Seq(Frames) /\ frame[c] \in Frames
  BY DEF TypeInv, TypeOK, HandlersOK, HandlerOK, Send
<1>2. queue' = Append(queue, frame[c]) /\ frame' = frame
  BY DEF Send
<1>3. /\ DOMAIN queue = 1..Len(queue) /\ Len(queue) \in Nat
      /\ DOMAIN queue' = 1..(Len(queue) + 1)
      /\ queue'[Len(queue) + 1] = frame[c]
      /\ \A i \in DOMAIN queue : queue'[i] = queue[i]
  BY <1>1, <1>2, LenProperties
<1> QED
  BY <1>2, <1>3 DEF InQueue

\* WorkerRecv moves one request from the channel to the worker.
LEMMA RecvKeepsRequests ==
    ASSUME TypeInv, WorkerRecv
    PROVE  \A f : InQueue(f) =>
             job' = f \/ \E i \in DOMAIN queue' : queue'[i] = f
<1>1. TypeOK /\ queue # <<>> /\ job' = Head(queue) /\ queue' = Tail(queue)
  BY DEF TypeInv, WorkerRecv
<1>2. /\ DOMAIN queue = 1..Len(queue) /\ Len(queue) \in Nat
      /\ Head(queue) = queue[1]
      /\ DOMAIN Tail(queue) = 1..(Len(queue) - 1)
      /\ \A i \in DOMAIN Tail(queue) : Tail(queue)[i] = queue[i + 1]
  BY <1>1, QueueHead, LenProperties DEF TypeOK
<1> SUFFICES ASSUME NEW i \in DOMAIN queue, i # 1
             PROVE  \E j \in DOMAIN queue' : queue'[j] = queue[i]
  BY <1>1, <1>2 DEF InQueue
<1>3. i - 1 \in DOMAIN Tail(queue) /\ (i - 1) + 1 = i
  BY <1>2
<1> QED
  BY <1>1, <1>2, <1>3

\* The steps of handlers and of the accept loop keep OwedOK and WorkerOK.
LEMMA DeliveryConn ==
    ASSUME DeliveryInv, TypeInv', NEW c \in Conns,
           Accept(c) \/ Handler(c) \/ Cancel(c)
    PROVE  OwedOK' /\ WorkerOK'
<1>1. TypeOK /\ HandlersOK /\ OwedOK /\ WorkerOK
  BY DEF DeliveryInv, TypeInv
<1>2. pc[c] \notin {"unopened", "closed"} => worker # "exited"
  BY <1>1 DEF WorkerOK
<1>3. CASE Accept(c)
  BY <1>1, <1>3
     DEF TypeOK, OwedOK, WorkerOK, InQueue, Accept, clientVars, workerVars
<1>4. CASE ReadControl(c)
  BY <1>1, <1>2, <1>4
     DEF TypeOK, OwedOK, WorkerOK, InQueue, ReadControl, Read, workerVars
<1>5. CASE ReadMisshapen(c)
  BY <1>1, <1>2, <1>5
     DEF TypeOK, OwedOK, WorkerOK, InQueue, ReadMisshapen, handlerVars,
         workerVars
<1>6. CASE ReadAudio(c)
  <2>1. /\ pc[c] = "reading" /\ pc' = [pc EXCEPT ![c] = "sending"]
        /\ \A d \in Conns : d # c => frame'[d] = frame[d]
        /\ UNCHANGED <<up, oneshot, queue, job, worker>>
    BY <1>1, <1>6 DEF TypeOK, ReadAudio, Read, workerVars
  <2> QED
    BY <1>1, <1>2, <2>1 DEF TypeOK, OwedOK, WorkerOK, InQueue
<1>7. CASE Send(c)
  <2>1. /\ pc[c] = "sending" /\ pc' = [pc EXCEPT ![c] = "awaiting"]
        /\ worker' = "running"
        /\ UNCHANGED <<frame, oneshot, job>>
    BY <1>7 DEF Send
  <2>2. /\ \E i \in DOMAIN queue' : queue'[i] = frame[c]
        /\ \A f : InQueue(f) => \E i \in DOMAIN queue' : queue'[i] = f
    BY <1>7, <2>1, SendKeepsQueue DEF DeliveryInv, InQueue
  <2> QED
    BY <1>1, <2>1, <2>2 DEF TypeOK, OwedOK, WorkerOK, InQueue
<1>8. CASE Receive(c)
  BY <1>1, <1>2, <1>8
     DEF TypeOK, OwedOK, WorkerOK, InQueue, Receive, clientVars, workerVars
<1>9. CASE Write(c)
  BY <1>1, <1>2, <1>9 DEF TypeOK, OwedOK, WorkerOK, InQueue, Write, workerVars
<1>10. CASE Disconnect(c)
  BY <1>1, <1>2, <1>10
     DEF TypeOK, OwedOK, WorkerOK, InQueue, Disconnect, clientVars, workerVars
<1>11. CASE Cancel(c)
  BY <1>1, <1>2, <1>11
     DEF TypeOK, OwedOK, WorkerOK, InQueue, Cancel, clientVars, workerVars
<1> QED
  BY <1>3, <1>4, <1>5, <1>6, <1>7, <1>8, <1>9, <1>10, <1>11 DEF Handler

\* Every step keeps the delivery invariant.
LEMMA DeliveryNext == DeliveryInv /\ [Next]_vars => DeliveryInv'
<1> SUFFICES ASSUME DeliveryInv, [Next]_vars PROVE DeliveryInv'
  OBVIOUS
<1>1. TypeInv /\ TypeOK /\ HandlersOK /\ OwedOK /\ WorkerOK
  BY DEF DeliveryInv, TypeInv
<1>2. TypeInv'
  BY <1>1, TypeInvNext
<1> SUFFICES OwedOK' /\ WorkerOK'
  BY <1>2 DEF DeliveryInv
<1>3. ASSUME NEW c \in Conns, Accept(c) \/ Handler(c) \/ Cancel(c)
      PROVE  OwedOK' /\ WorkerOK'
  BY <1>2, <1>3, DeliveryConn
<1>4. CASE WorkerRecv
  <2>1. /\ job = None /\ UNCHANGED <<pc, frame, oneshot, worker, up>>
        /\ \A f : InQueue(f) =>
             job' = f \/ \E i \in DOMAIN queue' : queue'[i] = f
    BY <1>1, <1>4, RecvKeepsRequests DEF WorkerRecv, handlerVars, clientVars
  <2>2. \A c \in Conns : pc[c] = "awaiting" => frame[c] # None
    BY <1>1 DEF HandlersOK, HandlerOK
  <2> QED
    BY <1>1, <2>1, <2>2 DEF OwedOK, WorkerOK, InQueue
<1>5. CASE WorkerReply
  <2>1. job \in Frames /\ job.conn \in Conns /\ Coded(job) # None
    BY <1>1, <1>5, CodedType, NoneAssumption DEF TypeOK, WorkerReply, Frames
  <2>2. ASSUME NEW c \in Conns, pc'[c] = "awaiting"
        PROVE  InQueue(frame[c])' \/ oneshot'[c] # None
    <3>1. pc[c] = "awaiting" /\ frame'[c] = frame[c] /\ queue' = queue
      BY <1>5, <2>2 DEF WorkerReply
    <3>2. CASE job = frame[c]
      <4>1. job.conn = c
        BY <1>1, <2>1, <3>1, <3>2, NoneAssumption DEF HandlersOK, HandlerOK
      <4> QED
        BY <1>1, <1>5, <2>1, <3>1, <4>1 DEF TypeOK, WorkerReply
    <3>3. CASE oneshot[c] # None
      BY <1>1, <1>5, <2>1, <3>1, <3>3 DEF TypeOK, WorkerReply
    <3>4. CASE InQueue(frame[c])
      BY <3>1, <3>4 DEF InQueue
    <3> QED
      BY <1>1, <3>1, <3>2, <3>3, <3>4 DEF OwedOK
  <2>3. OwedOK'
    BY <2>2 DEF OwedOK
  <2>4. WorkerOK'
    BY <1>1, <1>5 DEF WorkerOK, WorkerReply, clientVars
  <2> QED
    BY <2>3, <2>4
<1>6. CASE WorkerExit \/ ProcessExit
  BY <1>1, <1>6
     DEF OwedOK, WorkerOK, InQueue, WorkerExit, ProcessExit, clientVars, handlerVars
<1>7. CASE Shutdown
  BY <1>1, <1>7
     DEF OwedOK, WorkerOK, InQueue, Shutdown, handlerVars, workerVars
<1>8. CASE Terminated \/ UNCHANGED vars
  BY <1>1, <1>8 DEF OwedOK, WorkerOK, InQueue, Terminated, vars
<1> QED
  BY <1>3, <1>4, <1>5, <1>6, <1>7, <1>8 DEF Next

\* No reply is lost or given twice: the request of a handler that awaits is in
\* exactly one place, and unless it is answered the worker is running.
THEOREM NoReplyIsLost == Spec => []AwaitedRequestIsHeld
<1>1. Init => DeliveryInv
  BY TypeInvInit DEF Init, DeliveryInv, OwedOK, WorkerOK
<1>2. DeliveryInv /\ [Next]_vars => DeliveryInv'
  BY DeliveryNext
<1>3. DeliveryInv => AwaitedRequestIsHeld
  <2> SUFFICES ASSUME DeliveryInv PROVE AwaitedRequestIsHeld
    OBVIOUS
  <2>1. TypeOK /\ HandlersOK /\ OwedOK /\ WorkerOK
    BY DEF DeliveryInv, TypeInv
  <2>2. ASSUME NEW c \in Conns, pc[c] = "awaiting"
        PROVE  /\ worker = "running"
               /\ frame[c] # None /\ frame[c].conn = c
               /\ InQueue(frame[c]) => job # frame[c] /\ oneshot[c] = None
               /\ job = frame[c] => oneshot[c] = None
               /\ oneshot[c] # None => /\ oneshot[c].n = frame[c].n
                                       /\ oneshot[c].body = frame[c].dir
    <3>1. worker = "running"
      BY <2>1, <2>2 DEF TypeOK, WorkerOK
    <3>2. frame[c] # None /\ frame[c].conn = c
      BY <2>1, <2>2 DEF HandlersOK, HandlerOK
    <3>3. InQueue(frame[c]) => job # frame[c] /\ oneshot[c] = None
      BY <2>1, <2>2, <3>2 DEF HandlersOK, HeldOK, Waits, InQueue
    <3>4. job = frame[c] => oneshot[c] = None
      BY <2>1, <2>2, <3>2 DEF HandlersOK, HeldOK, Waits
    <3>5. oneshot[c] # None => oneshot[c].n = frame[c].n /\ oneshot[c].body = frame[c].dir
      BY <2>1 DEF HandlersOK, HandlerOK
    <3> QED
      BY <3>1, <3>2, <3>3, <3>4, <3>5
  <2> QED
    BY <2>1, <2>2 DEF AwaitedRequestIsHeld, OwedOK
<1> QED
  BY <1>1, <1>2, <1>3, PTL DEF Spec

\* Each request has one holder, and a holder only requests that are awaited.
THEOREM OneHolder == Spec => []EveryRequestHasOneHolder
<1>1. AwaitedRequestIsHeld /\ HeldRequestIsAwaited => EveryRequestHasOneHolder
  BY DEF EveryRequestHasOneHolder
<1> QED
  BY <1>1, NoReplyIsLost, HeldIsAwaited, PTL

-----------------------------------------------------------------------------
(* Coding is serial.  Every answer on its way occupies a slot: 0 while it  *)
(* is in the oneshot or being written, its place in sent[c] afterwards.    *)
(* A frame is past once it was read and is in nobody's hands any more; the *)
(* vocoder's state is always left by a past frame, and by one that no      *)
(* answer has been computed from.                                          *)

Slots(c) == 0..Len(sent[c])

AnswerAt(c, i) == IF i # 0 THEN sent[c][i]
                  ELSE IF oneshot[c] # None THEN oneshot[c] ELSE reply[c]

IsVoice(a) == a # None /\ a.body \in Directions

HasRead(f) == f.conn \in Conns /\ f.n \in Nat /\ f.n <= Len(received[f.conn])

InHand(f) == \/ InQueue(f)
             \/ job # None /\ job = f
             \/ pc[f.conn] = "sending" /\ frame[f.conn] = f

Past(f) == HasRead(f) /\ ~InHand(f)

SlotsDiffer ==
    \A c, d \in Conns : \A i \in Slots(c), j \in Slots(d) :
      /\ IsVoice(AnswerAt(c, i)) /\ IsVoice(AnswerAt(d, j))
      /\ AnswerAt(c, i).body = AnswerAt(d, j).body
      /\ AnswerAt(c, i).pred = AnswerAt(d, j).pred
      => c = d /\ i = j

PredsArePast ==
    \A c \in Conns : \A i \in Slots(c) : IsVoice(AnswerAt(c, i)) =>
      /\ AnswerAt(c, i).pred # context[AnswerAt(c, i).body]
      /\ AnswerAt(c, i).pred # None => Past(AnswerAt(c, i).pred)

ContextIsPast ==
    \A d \in Directions : context[d] # None => Past(context[d])

HeldIsRead == /\ \A i \in DOMAIN queue : HasRead(queue[i])
              /\ job # None => HasRead(job)

SerialOK == SlotsDiffer /\ PredsArePast /\ ContextIsPast /\ HeldIsRead

SerialInv == TypeInv /\ SerialOK

\* A step that only moves frames forward, leaves the vocoder alone and puts no
\* voice answer into a slot that did not hold it keeps SerialOK.
LEMMA SerialStable ==
    ASSUME SerialInv, context' = context, HeldIsRead',
           \A f : Past(f) => Past(f)',
           \A c \in Conns : \A i \in Slots(c)' :
             IsVoice(AnswerAt(c, i))' =>
               i \in Slots(c) /\ AnswerAt(c, i)' = AnswerAt(c, i)
    PROVE  SerialOK'
<1>1. SlotsDiffer /\ PredsArePast /\ ContextIsPast
  BY DEF SerialInv, SerialOK
<1>2. SlotsDiffer'
  BY <1>1 DEF SlotsDiffer, IsVoice
<1>3. PredsArePast'
  BY <1>1 DEF PredsArePast, IsVoice
<1>4. ContextIsPast'
  BY <1>1 DEF ContextIsPast
<1> QED
  BY <1>2, <1>3, <1>4 DEF SerialOK

\* The packets a connection has sent only grow in number.
LEMMA ReadGrows ==
    ASSUME TypeInv, NEW c \in Conns,
           ReadControl(c) \/ ReadMisshapen(c) \/ ReadAudio(c)
    PROVE  /\ \A d \in Conns : Len(received[d]) <= Len(received'[d])
           /\ \A d \in Conns : Len(received[d]) \in Nat /\ Len(received'[d]) \in Nat
           /\ Len(received'[c]) = Len(received[c]) + 1
           /\ pc[c] = "reading"
<1>1. TypeOK
  BY DEF TypeInv
<1>2. PICK k \in Kinds : Read(c, k)
  BY DEF ReadControl, ReadMisshapen, ReadAudio, Read
<1>3. /\ received' \in [Conns -> Seq(Kinds)]
      /\ Len(received'[c]) = Len(received[c]) + 1
      /\ \A d \in Conns : d # c => received'[d] = received[d]
  BY <1>1, <1>2, ReadAppends
<1>4. \A d \in Conns : Len(received[d]) \in Nat /\ Len(received'[d]) \in Nat
  BY <1>1, <1>3, LenProperties DEF TypeOK
<1> QED
  BY <1>2, <1>3, <1>4 DEF Read

\* Reading a packet: a new frame is newer than every past one.
LEMMA SerialRead ==
    ASSUME SerialInv, TypeInv', NEW c \in Conns,
           ReadControl(c) \/ ReadMisshapen(c) \/ ReadAudio(c)
    PROVE  SerialOK'
<1>1. TypeInv /\ TypeOK /\ HandlersOK /\ HeldIsRead
  BY DEF SerialInv, SerialOK, TypeInv
<1>2. /\ \A d \in Conns : Len(received[d]) <= Len(received'[d])
      /\ \A d \in Conns : Len(received[d]) \in Nat /\ Len(received'[d]) \in Nat
      /\ Len(received'[c]) = Len(received[c]) + 1
      /\ pc[c] = "reading"
  BY <1>1, ReadGrows
<1>3. /\ UNCHANGED <<queue, job, context, sent, oneshot>>
      /\ \A d \in Conns : d # c => /\ pc'[d] = pc[d] /\ frame'[d] = frame[d]
                                   /\ reply'[d] = reply[d]
      /\ pc'[c] = "sending" =>
           frame'[c].n = Len(received'[c]) /\ frame'[c].conn = c
      /\ reply'[c] # reply[c] => reply'[c].body \in Acks
  <2>1. CASE ReadControl(c)
    BY <1>1, <2>1, ControlResponseType DEF TypeOK, ReadControl, workerVars
  <2>2. CASE ReadMisshapen(c)
    BY <1>1, <1>2, <2>2 DEF TypeOK, ReadMisshapen, handlerVars, workerVars
  <2>3. CASE ReadAudio(c)
    BY <1>1, <2>3 DEF TypeOK, ReadAudio, workerVars
  <2> QED
    BY <2>1, <2>2, <2>3
<1>4. \A f : HasRead(f) => HasRead(f)'
  BY <1>2 DEF HasRead
<1>5. HeldIsRead'
  BY <1>1, <1>3, <1>4 DEF HeldIsRead, HasRead
<1>6. ASSUME NEW f, Past(f) PROVE Past(f)'
  <2>1. HasRead(f) /\ HasRead(f)' /\ ~InHand(f)
    BY <1>4, <1>6 DEF Past
  <2>2. CASE f.conn = c
    <3>1. f.n < Len(received'[c])
      BY <1>2, <2>1, <2>2 DEF HasRead
    <3> QED
      BY <1>2, <1>3, <2>1, <2>2, <3>1 DEF Past, InHand, InQueue, HasRead
  <2>3. CASE f.conn # c
    BY <1>3, <2>1, <2>3 DEF Past, InHand, InQueue, HasRead
  <2> QED
    BY <2>2, <2>3
<1>7. ASSUME NEW d \in Conns, NEW i \in Slots(d)', IsVoice(AnswerAt(d, i))'
      PROVE  i \in Slots(d) /\ AnswerAt(d, i)' = AnswerAt(d, i)
  <2>1. i \in Slots(d)
    BY <1>3 DEF Slots
  <2>2. d = c /\ reply'[c] # reply[c] => reply'[c].body \notin Directions
    BY <1>3 DEF Acks, Directions
  <2> QED
    BY <1>3, <1>7, <2>1, <2>2 DEF AnswerAt, IsVoice
<1> QED
  BY <1>3, <1>5, <1>6, <1>7, SerialStable

\* Sending, receiving, ending and being dropped: answers stay in their slots.
LEMMA SerialMove ==
    ASSUME SerialInv, TypeInv', NEW c \in Conns,
           Accept(c) \/ Send(c) \/ Receive(c) \/ Disconnect(c) \/ Cancel(c)
    PROVE  SerialOK'
<1>1. TypeInv /\ TypeOK /\ HandlersOK /\ HeldIsRead
  BY DEF SerialInv, SerialOK, TypeInv
<1>2. UNCHANGED <<context, sent, received, job>>
  BY DEF Accept, Send, Receive, Disconnect, Cancel, clientVars, workerVars
<1>3. CASE Send(c)
  <2>1. /\ pc[c] = "sending" /\ pc' = [pc EXCEPT ![c] = "awaiting"]
        /\ UNCHANGED <<frame, oneshot, reply>>
        /\ queue' = Append(queue, frame[c])
    BY <1>3 DEF Send
  <2>2. frame[c] \in Frames /\ frame[c].conn = c
        /\ frame[c].n = Len(received[c])
    BY <1>1, <2>1 DEF TypeOK, HandlersOK, HandlerOK
  <2>3. HasRead(frame[c])
    BY <1>1, <2>2, LenProperties DEF HasRead, TypeOK
  <2>4. /\ DOMAIN queue' = 1..(Len(queue) + 1) /\ DOMAIN queue = 1..Len(queue)
        /\ Len(queue) \in Nat
        /\ \A i \in DOMAIN queue : queue'[i] = queue[i]
        /\ queue'[Len(queue) + 1] = frame[c]
    BY <1>1, <2>1, <2>2, LenProperties DEF TypeOK
  <2>5. HeldIsRead'
    BY <1>1, <1>2, <2>3, <2>4 DEF HeldIsRead, HasRead
  <2>6. ASSUME NEW f, Past(f) PROVE Past(f)'
    BY <1>1, <1>2, <2>1, <2>2, <2>4, <2>6
       DEF TypeOK, Past, InHand, InQueue, HasRead
  <2>7. \A d \in Conns : \A i \in Slots(d)' :
          i \in Slots(d) /\ AnswerAt(d, i)' = AnswerAt(d, i)
    BY <1>2, <2>1 DEF Slots, AnswerAt
  <2> QED
    BY <1>2, <2>5, <2>6, <2>7, SerialStable
<1>4. CASE ~Send(c)
  <2>1. /\ queue' = queue
        /\ \A d \in Conns :
             pc'[d] = "sending" => pc[d] = "sending" /\ frame'[d] = frame[d]
    BY <1>1, <1>4
       DEF TypeOK, Accept, Receive, Disconnect, Cancel, clientVars, workerVars
  <2>2. HeldIsRead'
    BY <1>1, <1>2, <2>1 DEF HeldIsRead, HasRead
  <2>3. ASSUME NEW f, Past(f) PROVE Past(f)'
    BY <1>2, <2>1, <2>3 DEF Past, InHand, InQueue, HasRead
  <2>4. \A d \in Conns :
          \/ AnswerAt(d, 0)' = AnswerAt(d, 0)
          \/ AnswerAt(d, 0)' = None
    BY <1>1, <1>4
       DEF TypeOK, HandlersOK, HandlerOK, AnswerAt, Accept, Receive, Disconnect,
           Cancel
  <2>5. ASSUME NEW d \in Conns, NEW i \in Slots(d)', IsVoice(AnswerAt(d, i))'
        PROVE  i \in Slots(d) /\ AnswerAt(d, i)' = AnswerAt(d, i)
    <3>1. CASE i = 0
      BY <1>2, <2>4, <2>5, <3>1 DEF Slots, IsVoice
    <3>2. CASE i # 0
      BY <1>2, <3>2 DEF Slots, AnswerAt
    <3> QED
      BY <3>1, <3>2
  <2> QED
    BY <1>2, <2>2, <2>3, <2>5, SerialStable
<1> QED
  BY <1>3, <1>4

\* Writing a packet: the answer moves from slot 0 to the end of sent[c].
LEMMA SerialWrite ==
    ASSUME SerialInv, TypeInv', NEW c \in Conns, Write(c)
    PROVE  SerialOK'
<1>1. TypeInv /\ TypeOK /\ HandlersOK /\ SlotsDiffer /\ PredsArePast
      /\ ContextIsPast /\ HeldIsRead
  BY DEF SerialInv, SerialOK, TypeInv
<1>2. /\ UNCHANGED <<context, received, queue, job, frame, oneshot>>
      /\ pc' = [pc EXCEPT ![c] = "reading"]
      /\ reply' = [reply EXCEPT ![c] = None]
      /\ sent' = [sent EXCEPT ![c] = Append(sent[c], reply[c])]
      /\ pc[c] = "writing" /\ oneshot[c] = None /\ reply[c] \in Answers
  BY <1>1 DEF TypeOK, HandlersOK, HandlerOK, Write, workerVars
<1> DEFINE last == Len(sent[c]) + 1
<1>3. /\ Len(sent[c]) \in Nat /\ Len(sent'[c]) = last
      /\ sent'[c][last] = reply[c]
      /\ \A i \in 1..Len(sent[c]) : sent'[c][i] = sent[c][i]
      /\ \A d \in Conns : d # c => sent'[d] = sent[d]
  BY <1>1, <1>2, LenProperties DEF TypeOK
<1>4. ASSUME NEW f, Past(f) PROVE Past(f)'
  BY <1>1, <1>2, <1>4 DEF TypeOK, Past, InHand, InQueue, HasRead
<1> DEFINE From(d, i) == IF d = c /\ i = last THEN 0 ELSE i
<1>5. ASSUME NEW d \in Conns, NEW i \in Slots(d)', IsVoice(AnswerAt(d, i))'
      PROVE  /\ From(d, i) \in Slots(d)
             /\ AnswerAt(d, i)' = AnswerAt(d, From(d, i))
             /\ d = c => i # 0
  <2>1. d = c => i # 0
    BY <1>1, <1>2, <1>5 DEF TypeOK, AnswerAt, IsVoice
  <2>2. CASE d = c /\ i = last
    BY <1>2, <1>3, <2>2 DEF Slots, AnswerAt
  <2>3. CASE d = c /\ i # last
    BY <1>2, <1>3, <2>1, <2>3 DEF Slots, AnswerAt
  <2>4. CASE d # c
    BY <1>1, <1>2, <1>3, <2>4 DEF TypeOK, Slots, AnswerAt
  <2> QED
    BY <2>1, <2>2, <2>3, <2>4
<1>6. ASSUME NEW d \in Conns, NEW i \in Slots(d)', IsVoice(AnswerAt(d, i))',
             NEW e \in Conns, NEW j \in Slots(e)', IsVoice(AnswerAt(e, j))',
             AnswerAt(d, i)'.body = AnswerAt(e, j)'.body,
             AnswerAt(d, i)'.pred = AnswerAt(e, j)'.pred
      PROVE  d = e /\ i = j
  <2>1. /\ From(d, i) \in Slots(d) /\ From(e, j) \in Slots(e)
        /\ IsVoice(AnswerAt(d, From(d, i))) /\ IsVoice(AnswerAt(e, From(e, j)))
        /\ AnswerAt(d, i)' = AnswerAt(d, From(d, i))
        /\ AnswerAt(e, j)' = AnswerAt(e, From(e, j))
        /\ d = c => i # 0
        /\ e = c => j # 0
    BY <1>5, <1>6 DEF IsVoice
  <2>2. d = e /\ From(d, i) = From(e, j)
    BY <1>1, <1>6, <2>1 DEF SlotsDiffer
  <2> QED
    BY <2>1, <2>2
<1>7. SlotsDiffer'
  BY <1>6 DEF SlotsDiffer
<1>8. PredsArePast'
  BY <1>1, <1>2, <1>4, <1>5 DEF PredsArePast, IsVoice
<1>9. ContextIsPast' /\ HeldIsRead'
  BY <1>1, <1>2, <1>4 DEF ContextIsPast, HeldIsRead, HasRead
<1> QED
  BY <1>7, <1>8, <1>9 DEF SerialOK

\* The worker takes a request: it stays in hand.
LEMMA SerialRecv ==
    ASSUME SerialInv, TypeInv', WorkerRecv
    PROVE  SerialOK'
<1>1. TypeInv /\ TypeOK /\ HeldIsRead
  BY DEF SerialInv, SerialOK, TypeInv
<1>2. /\ UNCHANGED <<context, sent, received, pc, frame, oneshot, reply>>
      /\ queue # <<>> /\ job = None
      /\ job' = Head(queue) /\ queue' = Tail(queue)
  BY DEF WorkerRecv, clientVars, handlerVars
<1>3. /\ Head(queue) = queue[1] /\ 1 \in DOMAIN queue
      /\ \A i \in DOMAIN Tail(queue) : i + 1 \in DOMAIN queue
                                       /\ Tail(queue)[i] = queue[i + 1]
  BY <1>1, <1>2, QueueHead
<1>4. HeldIsRead'
  BY <1>1, <1>2, <1>3 DEF HeldIsRead, HasRead
<1>5. ASSUME NEW f, Past(f) PROVE Past(f)'
  BY <1>2, <1>3, <1>5 DEF Past, InHand, InQueue, HasRead
<1>6. \A d \in Conns : \A i \in Slots(d)' :
        i \in Slots(d) /\ AnswerAt(d, i)' = AnswerAt(d, i)
  BY <1>2 DEF Slots, AnswerAt
<1> QED
  BY <1>2, <1>4, <1>5, <1>6, SerialStable

\* The worker answers: the one new answer was computed from the state the
\* vocoder had, which no other answer was, and leaves a state none has used.
LEMMA SerialReply ==
    ASSUME SerialInv, TypeInv', WorkerReply
    PROVE  SerialOK'
<1>1. TypeInv /\ TypeOK /\ HandlersOK /\ HeldOK /\ SlotsDiffer /\ PredsArePast
      /\ ContextIsPast /\ HeldIsRead
  BY DEF SerialInv, SerialOK, TypeInv, HandlersOK
<1> DEFINE c == job.conn
           dir == job.dir
<1>2. /\ UNCHANGED <<sent, received, pc, frame, reply, queue>>
      /\ job # None /\ job \in Frames /\ c \in Conns /\ dir \in Directions
      /\ job' = None
      /\ context' = [context EXCEPT ![dir] = job]
      /\ oneshot' = IF pc[c] = "awaiting"
                      THEN [oneshot EXCEPT ![c] = Coded(job)] ELSE oneshot
  BY <1>1
     DEF TypeOK, WorkerReply, ContextAfter, Frames, clientVars
<1>3. /\ Coded(job).body = dir /\ Coded(job).pred = context[dir]
      /\ Coded(job) # None
  BY <1>1, <1>2, CodedType, NoneAssumption DEF Coded
<1>4. ASSUME NEW f, Past(f) PROVE Past(f)' /\ f # job
  BY <1>2, <1>4 DEF Past, InHand, InQueue, HasRead
<1>5. ASSUME NEW f, f = job PROVE Past(f)'
  <2>1. HasRead(job) /\ Waits(job)
    BY <1>1, <1>2 DEF HeldIsRead, HeldOK
  <2>2. ~InQueue(job)
    BY <1>1, <1>2 DEF HeldOK, InQueue
  <2>3. pc[c] # "sending"
    BY <2>1 DEF Waits
  <2> QED
    BY <1>2, <1>5, <2>1, <2>2, <2>3
       DEF Past, InHand, InQueue, HasRead
<1>6. pc[c] = "awaiting" => ~IsVoice(AnswerAt(c, 0))
  BY <1>1, <1>2 DEF HandlersOK, HandlerOK, HeldOK, Waits, AnswerAt, IsVoice
<1> DEFINE New(d, i) == d = c /\ i = 0 /\ pc[c] = "awaiting"
<1>7. ASSUME NEW d \in Conns, NEW i \in Slots(d)', IsVoice(AnswerAt(d, i))'
      PROVE  /\ i \in Slots(d)
             /\ New(d, i) => AnswerAt(d, i)' = Coded(job)
             /\ ~New(d, i) => AnswerAt(d, i)' = AnswerAt(d, i)
  BY <1>1, <1>2, <1>3, <1>7 DEF TypeOK, Slots, AnswerAt
<1>8. ASSUME NEW d \in Conns, NEW i \in Slots(d)', IsVoice(AnswerAt(d, i))',
             ~New(d, i), AnswerAt(d, i)'.body = dir
      PROVE  AnswerAt(d, i)'.pred # context[dir]
  BY <1>1, <1>7, <1>8 DEF PredsArePast, IsVoice
<1>9. SlotsDiffer'
  <2> SUFFICES ASSUME NEW d \in Conns, NEW i \in Slots(d)', IsVoice(AnswerAt(d, i))',
                      NEW e \in Conns, NEW j \in Slots(e)', IsVoice(AnswerAt(e, j))',
                      AnswerAt(d, i)'.body = AnswerAt(e, j)'.body,
                      AnswerAt(d, i)'.pred = AnswerAt(e, j)'.pred
               PROVE  d = e /\ i = j
    BY DEF SlotsDiffer
  <2>1. CASE New(d, i) /\ New(e, j)
    BY <2>1
  <2>2. CASE New(d, i) /\ ~New(e, j)
    BY <1>3, <1>7, <1>8, <2>2
  <2>3. CASE ~New(d, i) /\ New(e, j)
    BY <1>3, <1>7, <1>8, <2>3
  <2>4. CASE ~New(d, i) /\ ~New(e, j)
    BY <1>1, <1>7, <2>4 DEF SlotsDiffer, IsVoice
  <2> QED
    BY <2>1, <2>2, <2>3, <2>4
<1>10. PredsArePast'
  <2> SUFFICES ASSUME NEW d \in Conns, NEW i \in Slots(d)', IsVoice(AnswerAt(d, i))'
               PROVE  (/\ AnswerAt(d, i).pred # context[AnswerAt(d, i).body]
                       /\ AnswerAt(d, i).pred # None =>
                            Past(AnswerAt(d, i).pred))'
    BY DEF PredsArePast
  <2>1. CASE New(d, i)
    BY <1>1, <1>2, <1>3, <1>4, <1>7, <2>1 DEF TypeOK, ContextIsPast
  <2>2. CASE ~New(d, i)
    BY <1>1, <1>2, <1>4, <1>7, <2>2 DEF PredsArePast, IsVoice
  <2> QED
    BY <2>1, <2>2
<1>11. ContextIsPast'
  <2> SUFFICES ASSUME NEW d \in Directions, context'[d] # None
               PROVE  Past(context[d])'
    BY DEF ContextIsPast
  <2>1. CASE d = dir
    BY <1>1, <1>2, <1>5, <2>1 DEF TypeOK
  <2>2. CASE d # dir
    BY <1>1, <1>2, <1>4, <2>2 DEF TypeOK, ContextIsPast
  <2> QED
    BY <2>1, <2>2
<1>12. HeldIsRead'
  BY <1>1, <1>2 DEF HeldIsRead, HasRead
<1> QED
  BY <1>9, <1>10, <1>11, <1>12 DEF SerialOK

\* Every step keeps the serial-coding invariant.
LEMMA SerialNext == SerialInv /\ [Next]_vars => SerialInv'
<1> SUFFICES ASSUME SerialInv, [Next]_vars PROVE SerialInv'
  OBVIOUS
<1>1. TypeInv'
  BY TypeInvNext DEF SerialInv
<1> SUFFICES SerialOK'
  BY <1>1 DEF SerialInv
<1>2. ASSUME NEW c \in Conns, Accept(c) \/ Handler(c) \/ Cancel(c)
      PROVE  SerialOK'
  BY <1>1, <1>2, SerialRead, SerialMove, SerialWrite DEF Handler
<1>3. CASE WorkerRecv
  BY <1>1, <1>3, SerialRecv
<1>4. CASE WorkerReply
  BY <1>1, <1>4, SerialReply
<1>5. CASE WorkerExit \/ ProcessExit \/ Shutdown \/ Terminated \/ UNCHANGED vars
  <2>1. UNCHANGED <<context, sent, received, pc, frame, oneshot, reply, queue, job>>
    BY <1>5
       DEF WorkerExit, ProcessExit, Shutdown, Terminated, vars, clientVars, handlerVars,
           workerVars
  <2>2. HeldIsRead'
    BY <2>1 DEF SerialInv, SerialOK, HeldIsRead, HasRead
  <2>3. ASSUME NEW f, Past(f) PROVE Past(f)'
    BY <2>1, <2>3 DEF Past, InHand, InQueue, HasRead
  <2>4. \A d \in Conns : \A i \in Slots(d)' :
          i \in Slots(d) /\ AnswerAt(d, i)' = AnswerAt(d, i)
    BY <2>1 DEF Slots, AnswerAt
  <2> QED
    BY <2>1, <2>2, <2>3, <2>4, SerialStable
<1> QED
  BY <1>2, <1>3, <1>4, <1>5 DEF Next

\* Over all connections, no two answers are computed from one vocoder state:
\* the frames of each direction are coded one after the other, each exactly
\* once, however the handlers interleave.
THEOREM VocoderIsSerial == Spec => []CodingIsSerial
<1>1. Init => SerialInv
  <2> SUFFICES ASSUME Init PROVE SerialOK
    BY TypeInvInit DEF SerialInv
  <2>1. /\ queue = <<>> /\ job = None /\ context = [d \in Directions |-> None]
        /\ sent = [c \in Conns |-> <<>>] /\ reply = [c \in Conns |-> None]
        /\ oneshot = [c \in Conns |-> None]
    BY DEF Init
  <2>2. \A c \in Conns : \A i \in Slots(c) : ~IsVoice(AnswerAt(c, i))
    BY <2>1 DEF Slots, AnswerAt, IsVoice
  <2> QED
    BY <2>1, <2>2
       DEF SerialOK, SlotsDiffer, PredsArePast, ContextIsPast, HeldIsRead
<1>2. SerialInv /\ [Next]_vars => SerialInv'
  BY SerialNext
<1>3. SerialInv => CodingIsSerial
  <2> SUFFICES ASSUME SerialInv,
                      NEW c \in Conns, NEW d \in Conns,
                      NEW i \in DOMAIN sent[c], NEW j \in DOMAIN sent[d],
                      sent[c][i].body \in Directions,
                      sent[c][i].body = sent[d][j].body,
                      sent[c][i].pred = sent[d][j].pred
               PROVE  c = d /\ i = j
    BY DEF CodingIsSerial
  <2>1. TypeOK /\ SlotsDiffer
    BY DEF SerialInv, SerialOK, TypeInv
  <2>2. sent[c] \in Seq(Answers) /\ sent[d] \in Seq(Answers)
    BY <2>1 DEF TypeOK
  <2>3. /\ i \in Slots(c) /\ i # 0 /\ sent[c][i] \in Answers
        /\ j \in Slots(d) /\ j # 0 /\ sent[d][j] \in Answers
    BY <2>2, LenProperties, ElementOfSeq DEF Slots
  <2>4. AnswerAt(c, i) = sent[c][i] /\ AnswerAt(d, j) = sent[d][j]
    BY <2>3 DEF AnswerAt
  <2>5. IsVoice(sent[c][i]) /\ IsVoice(sent[d][j])
    BY <2>3, NoneAssumption DEF IsVoice
  <2> QED
    BY <2>1, <2>3, <2>4, <2>5 DEF SlotsDiffer
<1> QED
  BY <1>1, <1>2, <1>3, PTL DEF Spec

-----------------------------------------------------------------------------
(* Answers come in order.  A handler has answered all it has read, but for *)
(* the packet it is at: that one it answers next.                          *)

\* What a packet of kind k is answered with.
SortOf(k) == IF k \in ControlKinds THEN ControlResponse(k)
             ELSE CHOOSE d \in Directions : AudioKind[d] = k

\* Answer a is of the right sort for the packet it names.
Right(c, a) == /\ a.n \in 1..Len(received[c])
               /\ a.body = SortOf(received[c][a.n])

Answered(c, n) ==
    received[c][n] # "misshapen" => \E j \in DOMAIN sent[c] : sent[c][j].n = n

SentInOrder(c) ==
    \A i \in DOMAIN sent[c] :
      /\ Right(c, sent[c][i])
      /\ \A n \in 1..(sent[c][i].n - 1) :
           received[c][n] # "misshapen" => \E j \in 1..(i - 1) : sent[c][j].n = n
      /\ \A j \in 1..(i - 1) : sent[c][j].n < sent[c][i].n

AtPacket(c) ==
    /\ pc[c] \in {"unopened", "reading"} =>
         \A n \in 1..Len(received[c]) : Answered(c, n)
    /\ pc[c] \in {"sending", "awaiting", "writing"} =>
         /\ Len(received[c]) > 0
         /\ \A n \in 1..(Len(received[c]) - 1) : Answered(c, n)
         /\ \A i \in DOMAIN sent[c] : sent[c][i].n < Len(received[c])
    /\ pc[c] = "writing" => reply[c].n = Len(received[c]) /\ Right(c, reply[c])

OrderOK(c) == SentInOrder(c) /\ AtPacket(c)

OrderInv == TypeInv /\ \A c \in Conns : OrderOK(c)

\* Audio of direction d is answered with the result of coding in direction d.
LEMMA SortOfAudio == \A d \in Directions : SortOf(AudioKind[d]) = d
BY DEF SortOf, AudioKind, Directions, ControlKinds

\* A connection that neither reads nor writes a packet keeps its order.
LEMMA OrderStable ==
    ASSUME NEW c \in Conns, OrderOK(c),
           sent'[c] = sent[c], received'[c] = received[c],
           pc'[c] \in {"unopened", "reading"} => pc[c] \in {"unopened", "reading"},
           pc'[c] \in {"sending", "awaiting", "writing"} =>
             pc[c] \in {"sending", "awaiting", "writing"},
           pc'[c] = "writing" => /\ reply'[c].n = Len(received[c])
                                 /\ Right(c, reply'[c])
    PROVE  OrderOK(c)'
<1>1. SentInOrder(c)'
  BY DEF OrderOK, SentInOrder, Right
<1>2. AtPacket(c)'
  BY DEF OrderOK, AtPacket, Answered, Right
<1> QED
  BY <1>1, <1>2 DEF OrderOK

\* A packet is read: nothing it could overtake is unanswered.
LEMMA OrderRead ==
    ASSUME TypeInv, NEW c \in Conns, OrderOK(c),
           ReadControl(c) \/ ReadMisshapen(c) \/ ReadAudio(c)
    PROVE  OrderOK(c)'
<1>1. TypeOK /\ pc[c] = "reading"
  BY DEF TypeInv, ReadControl, ReadMisshapen, ReadAudio, Read
<1> DEFINE len == Len(received[c])
<1>2. PICK k \in Kinds :
        /\ Read(c, k)
        /\ \/ /\ pc'[c] = "writing"
              /\ reply'[c].n = Len(received'[c]) /\ reply'[c].body = SortOf(k)
           \/ k = "misshapen" /\ pc'[c] = "reading"
           \/ pc'[c] = "sending"
  <2>1. CASE ReadControl(c)
    BY <1>1, <2>1 DEF TypeOK, ReadControl, SortOf
  <2>2. CASE ReadMisshapen(c)
    BY <1>1, <2>2 DEF ReadMisshapen, handlerVars
  <2>3. CASE ReadAudio(c)
    <3>1. PICK d \in Directions : AudioKind[d] \in Kinds /\ Read(c, AudioKind[d])
      BY <2>3 DEF ReadAudio
    <3> QED
      BY <1>1, <2>3, <3>1 DEF TypeOK, ReadAudio
  <2> QED
    BY <2>1, <2>2, <2>3
<1>3. /\ received'[c] = Append(received[c], k) /\ received[c] \in Seq(Kinds)
      /\ len \in Nat /\ Len(received'[c]) = len + 1
      /\ received'[c][len + 1] = k
      /\ \A n \in 1..len : received'[c][n] = received[c][n]
      /\ sent' = sent
  BY <1>1, <1>2, LenProperties
     DEF TypeOK, Read, ReadControl, ReadMisshapen, ReadAudio
<1>4. \A i \in DOMAIN sent[c] : Right(c, sent[c][i])
  BY DEF OrderOK, SentInOrder
<1>5. SentInOrder(c)'
  <2>1. \A i \in DOMAIN sent[c] : Right(c, sent[c][i])'
    BY <1>3, <1>4 DEF Right
  <2>2. \A i \in DOMAIN sent[c] : sent[c][i].n \in 1..len
    BY <1>4 DEF Right
  <2> QED
    BY <1>3, <2>1, <2>2 DEF OrderOK, SentInOrder
<1>6. \A n \in 1..len : Answered(c, n)'
  BY <1>1, <1>3 DEF OrderOK, AtPacket, Answered
<1>7. \A i \in DOMAIN sent'[c] : sent'[c][i].n < Len(received'[c])
  BY <1>3, <1>4 DEF Right
<1>8. AtPacket(c)'
  <2>1. CASE pc'[c] = "writing"
    BY <1>2, <1>3, <1>6, <1>7, <2>1 DEF AtPacket, Right
  <2>2. CASE pc'[c] = "reading"
    <3>1. \A n \in 1..(len + 1) : Answered(c, n)'
      BY <1>2, <1>3, <1>6, <2>2 DEF Answered
    <3> QED
      BY <1>3, <2>2, <3>1 DEF AtPacket
  <2>3. CASE pc'[c] = "sending"
    BY <1>3, <1>6, <1>7, <2>3 DEF AtPacket
  <2> QED
    BY <1>2, <2>1, <2>2, <2>3
<1> QED
  BY <1>5, <1>8 DEF OrderOK

\* The packet read last is answered: all before it were.
LEMMA OrderWrite ==
    ASSUME TypeInv, NEW c \in Conns, OrderOK(c), Write(c)
    PROVE  OrderOK(c)'
<1>1. TypeOK /\ pc[c] = "writing"
  BY DEF TypeInv, Write
<1>2. /\ received' = received /\ pc'[c] = "reading"
      /\ sent'[c] = Append(sent[c], reply[c])
  BY <1>1 DEF Write, TypeOK
<1> DEFINE last == Len(sent[c]) + 1  len == Len(received[c])
<1>3. /\ Len(sent[c]) \in Nat /\ DOMAIN sent[c] = 1..Len(sent[c])
      /\ DOMAIN sent'[c] = 1..last /\ sent'[c][last] = reply[c]
      /\ \A i \in 1..Len(sent[c]) : sent'[c][i] = sent[c][i]
      /\ len \in Nat
  BY <1>1, <1>2, LenProperties DEF TypeOK, Write
<1>4. /\ reply[c].n = len /\ Right(c, reply[c]) /\ len > 0
      /\ \A n \in 1..(len - 1) : Answered(c, n)
      /\ \A i \in DOMAIN sent[c] : sent[c][i].n < len
      /\ SentInOrder(c)
  BY <1>1 DEF OrderOK, AtPacket
<1>5. ASSUME NEW i \in DOMAIN sent'[c]
      PROVE  /\ Right(c, sent[c][i])'
             /\ \A n \in 1..(sent'[c][i].n - 1) : received[c][n] # "misshapen" =>
                  \E j \in 1..(i - 1) : sent'[c][j].n = n
             /\ \A j \in 1..(i - 1) : sent'[c][j].n < sent'[c][i].n
  <2>1. Right(c, sent[c][i])'
    BY <1>2, <1>3, <1>4 DEF Right, SentInOrder
  <2>2. CASE i = last
    <3>1. \A n \in 1..(len - 1) : received[c][n] # "misshapen" =>
            \E j \in 1..Len(sent[c]) : sent'[c][j].n = n
      BY <1>3, <1>4 DEF Answered
    <3>2. sent'[c][i] = reply[c] /\ i - 1 = Len(sent[c])
      BY <1>3, <2>2
    <3>3. \A j \in 1..Len(sent[c]) : sent'[c][j].n < len
      BY <1>3, <1>4
    <3> QED
      BY <1>4, <2>1, <3>1, <3>2, <3>3
  <2>3. CASE i # last
    <3>1. i \in DOMAIN sent[c] /\ sent'[c][i] = sent[c][i]
      BY <1>3, <2>3
    <3>2. \A j \in 1..(i - 1) : sent'[c][j] = sent[c][j]
      BY <1>3, <3>1
    <3> QED
      BY <1>4, <2>1, <3>1, <3>2 DEF SentInOrder
  <2> QED
    BY <2>2, <2>3
<1>6. SentInOrder(c)'
  BY <1>2, <1>5 DEF SentInOrder
<1>7. \A n \in 1..len : Answered(c, n)'
  <2>1. \A n \in 1..(len - 1) : Answered(c, n)'
    BY <1>2, <1>3, <1>4 DEF Answered
  <2>2. \A n : n = len => Answered(c, n)'
    BY <1>2, <1>3, <1>4 DEF Answered
  <2> QED
    BY <1>3, <2>1, <2>2
<1>8. AtPacket(c)'
  BY <1>2, <1>7 DEF AtPacket
<1> QED
  BY <1>6, <1>8 DEF OrderOK

\* The result of a frame is the answer of the packet that carried it.
LEMMA OrderReceive ==
    ASSUME TypeInv, NEW c \in Conns, OrderOK(c), Receive(c)
    PROVE  OrderOK(c)'
<1>1. TypeOK /\ HandlerOK(c) /\ pc[c] = "awaiting" /\ oneshot[c] # None
  BY DEF TypeInv, HandlersOK, Receive
<1>2. /\ sent' = sent /\ received' = received /\ pc'[c] = "writing"
      /\ reply'[c] = oneshot[c]
  BY <1>1 DEF Receive, clientVars, TypeOK
<1>3. /\ frame[c] \in Frames /\ frame[c].n = Len(received[c])
      /\ received[c][frame[c].n] = AudioKind[frame[c].dir]
      /\ oneshot[c].n = frame[c].n /\ oneshot[c].body = frame[c].dir
  BY <1>1 DEF HandlerOK, TypeOK
<1>4. frame[c].dir \in Directions /\ frame[c].n \in Nat \ {0}
  BY <1>3, ConstantsAssumption DEF Frames
<1>5. Right(c, oneshot[c])
  BY <1>3, <1>4, SortOfAudio DEF Right
<1> QED
  BY <1>1, <1>2, <1>3, <1>5, OrderStable

\* Every step keeps the order.
LEMMA OrderNext == OrderInv /\ [Next]_vars => OrderInv'
<1> SUFFICES ASSUME OrderInv, [Next]_vars, NEW c \in Conns PROVE OrderOK(c)'
  BY TypeInvNext DEF OrderInv
<1>1. TypeInv /\ TypeOK /\ HandlerOK(c) /\ OrderOK(c)
  BY DEF OrderInv, TypeInv, HandlersOK
<1>2. pc[c] = "writing" => reply[c].n = Len(received[c]) /\ Right(c, reply[c])
  BY <1>1 DEF OrderOK, AtPacket
<1>3. CASE ReadControl(c) \/ ReadMisshapen(c) \/ ReadAudio(c)
  BY <1>1, <1>3, OrderRead
<1>4. CASE Write(c)
  BY <1>1, <1>4, OrderWrite
<1>5. CASE Receive(c)
  BY <1>1, <1>5, OrderReceive
<1>6. CASE Accept(c) \/ Send(c) \/ Disconnect(c) \/ Cancel(c)
  <2>1. /\ sent' = sent /\ received' = received
        /\ pc'[c] \in {"unopened", "reading"} => pc[c] \in {"unopened", "reading"}
        /\ pc'[c] \in {"sending", "awaiting", "writing"} =>
             pc[c] \in {"sending", "awaiting", "writing"}
        /\ pc'[c] # "writing"
    BY <1>1, <1>6 DEF TypeOK, Accept, Send, Disconnect, Cancel, clientVars
  <2> QED
    BY <1>1, <2>1, OrderStable
<1>7. ASSUME NEW d \in Conns \ {c}, Accept(d) \/ Handler(d) \/ Cancel(d)
      PROVE  OrderOK(c)'
  <2>1. /\ sent'[c] = sent[c] /\ received'[c] = received[c]
        /\ pc'[c] = pc[c] /\ reply'[c] = reply[c]
    BY <1>1, <1>7
       DEF TypeOK, Accept, Handler, Cancel, ReadControl, ReadMisshapen, ReadAudio,
           Read, Send, Receive, Write, Disconnect, clientVars, handlerVars
  <2> QED
    BY <1>1, <1>2, <2>1, OrderStable
<1>8. CASE WorkerRecv \/ WorkerReply \/ WorkerExit \/ ProcessExit \/ Shutdown
           \/ Terminated \/ UNCHANGED vars
  <2>1. UNCHANGED <<sent, received, pc, reply>>
    BY <1>8 DEF WorkerRecv, WorkerReply, WorkerExit, ProcessExit, Shutdown,
                Terminated, vars, clientVars, handlerVars
  <2> QED
    BY <1>1, <1>2, <2>1, OrderStable
<1>9. CASE \E d \in Conns : Accept(d) \/ Handler(d) \/ Cancel(d)
  BY <1>3, <1>4, <1>5, <1>6, <1>7, <1>9 DEF Handler
<1> QED
  BY <1>8, <1>9 DEF Next

\* Each connection is answered in the order it asked, once for every packet and
\* in the right way, however many other connections the vocoder serves between.
THEOREM InOrder == Spec => []AnswersInOrder
<1>1. Init => OrderInv
  <2> SUFFICES ASSUME Init, NEW c \in Conns PROVE OrderOK(c)
    BY TypeInvInit DEF OrderInv
  <2>1. sent[c] = <<>> /\ received[c] = <<>> /\ pc[c] = "unopened"
    BY DEF Init
  <2> QED
    BY <2>1 DEF OrderOK, SentInOrder, AtPacket
<1>2. OrderInv /\ [Next]_vars => OrderInv'
  BY OrderNext
<1>3. OrderInv => AnswersInOrder
  BY DEF OrderInv, OrderOK, SentInOrder, Right, SortOf, AnswersInOrder
<1> QED
  BY <1>1, <1>2, <1>3, PTL DEF Spec

-----------------------------------------------------------------------------
(* A connection's own frames are continuous.                               *)

LastOf(c, d, n) ==
    \E j \in DOMAIN sent[c] :
      /\ sent[c][j].body = d /\ sent[c][j].n = n
      /\ \A k \in DOMAIN sent[c] : sent[c][k].body = d => k <= j

\* The answer on its way to c.
OnItsWay(c) == AnswerAt(c, 0)

PredIsOwnLast(c) ==
    LET a == OnItsWay(c)
    IN  /\ a # None /\ a.pred # None /\ a.pred.conn = c
        => LastOf(c, a.body, a.pred.n)

ContextIsOwnLast(c) ==
    \A d \in Directions :
      context[d] # None /\ context[d].conn = c /\ pc[c] # "closed" =>
        IF IsVoice(OnItsWay(c)) /\ OnItsWay(c).body = d
          THEN OnItsWay(c).n = context[d].n
          ELSE LastOf(c, d, context[d].n)

SentIsContinuous(c) ==
    \A i \in DOMAIN sent[c] :
      LET a == sent[c][i]
      IN  a.pred # None /\ a.pred.conn = c =>
            \E j \in 1..(i - 1) :
              /\ sent[c][j].body = a.body /\ sent[c][j].n = a.pred.n
              /\ \A k \in 1..(i - 1) : sent[c][k].body = a.body => k <= j

ContinuousOK(c) == PredIsOwnLast(c) /\ ContextIsOwnLast(c) /\ SentIsContinuous(c)

ContinuousInv == TypeInv /\ \A c \in Conns : ContinuousOK(c)

\* A step that puts no new voice answer on its way to a live connection, writes
\* none, and does not touch the vocoder, keeps what the connection has in order.
LEMMA ContinuousStable ==
    ASSUME NEW c \in Conns, ContinuousOK(c),
           sent'[c] = sent[c], context' = context,
           \/ OnItsWay(c)' = OnItsWay(c) \/ OnItsWay(c)' = None
           \/ OnItsWay(c)'.pred = None /\ ~IsVoice(OnItsWay(c)'),
           pc'[c] # "closed" =>
             /\ pc[c] # "closed"
             /\ IsVoice(OnItsWay(c)) => OnItsWay(c)' = OnItsWay(c)
    PROVE  ContinuousOK(c)'
<1>1. \A d, n : LastOf(c, d, n)' <=> LastOf(c, d, n)
  BY DEF LastOf
<1>2. PredIsOwnLast(c)'
  BY <1>1 DEF ContinuousOK, PredIsOwnLast, IsVoice
<1>3. ContextIsOwnLast(c)'
  BY <1>1 DEF ContinuousOK, ContextIsOwnLast, IsVoice
<1>4. SentIsContinuous(c)'
  BY DEF ContinuousOK, SentIsContinuous, IsVoice
<1> QED
  BY <1>2, <1>3, <1>4 DEF ContinuousOK

\* The answer that was on its way is now the last one written.
LEMMA ContinuousWrite ==
    ASSUME TypeInv, NEW c \in Conns, ContinuousOK(c), Write(c)
    PROVE  ContinuousOK(c)'
<1>1. TypeOK /\ HandlerOK(c) /\ pc[c] = "writing"
  BY DEF TypeInv, HandlersOK, Write
<1>2. /\ context' = context /\ pc'[c] = "reading"
      /\ sent'[c] = Append(sent[c], reply[c])
      /\ oneshot[c] = None /\ OnItsWay(c) = reply[c] /\ OnItsWay(c)' = None
      /\ reply[c] # None
  BY <1>1 DEF Write, TypeOK, HandlerOK, OnItsWay, AnswerAt, workerVars
<1> DEFINE last == Len(sent[c]) + 1
<1>3. /\ Len(sent[c]) \in Nat /\ DOMAIN sent[c] = 1..Len(sent[c])
      /\ DOMAIN sent'[c] = 1..last /\ sent'[c][last] = reply[c]
      /\ \A i \in 1..Len(sent[c]) : sent'[c][i] = sent[c][i]
  BY <1>1, <1>2, LenProperties DEF TypeOK, Write
<1>4. PredIsOwnLast(c)'
  BY <1>2 DEF PredIsOwnLast, IsVoice
<1>5. ASSUME NEW d \in Directions, context[d] # None, context[d].conn = c
      PROVE  LastOf(c, d, context[d].n)'
  <2>1. CASE reply[c].body = d
    <3>1. reply[c].n = context[d].n
      BY <1>1, <1>2, <1>5, <2>1 DEF ContinuousOK, ContextIsOwnLast, IsVoice
    <3> QED
      BY <1>2, <1>3, <2>1, <3>1 DEF LastOf
  <2>2. CASE reply[c].body # d
    <3>1. LastOf(c, d, context[d].n)
      BY <1>1, <1>2, <1>5, <2>2 DEF ContinuousOK, ContextIsOwnLast, IsVoice
    <3> QED
      BY <1>2, <1>3, <2>2, <3>1 DEF LastOf
  <2> QED
    BY <2>1, <2>2
<1>6. ContextIsOwnLast(c)'
  BY <1>2, <1>5 DEF ContextIsOwnLast, IsVoice
<1>7. ASSUME NEW i \in 1..last, sent'[c][i].pred # None,
             sent'[c][i].pred.conn = c
      PROVE  \E j \in 1..(i - 1) :
               /\ sent'[c][j].body = sent'[c][i].body
               /\ sent'[c][j].n = sent'[c][i].pred.n
               /\ \A k \in 1..(i - 1) :
                    sent'[c][k].body = sent'[c][i].body => k <= j
  <2>1. CASE i = last
    <3>1. LastOf(c, reply[c].body, reply[c].pred.n)
      BY <1>2, <1>3, <1>7, <2>1 DEF ContinuousOK, PredIsOwnLast
    <3>2. sent'[c][i] = reply[c] /\ i - 1 = Len(sent[c])
      BY <1>3, <2>1
    <3> QED
      BY <1>3, <3>1, <3>2 DEF LastOf
  <2>2. CASE i # last
    <3>1. i \in DOMAIN sent[c] /\ sent'[c][i] = sent[c][i]
          /\ \A k \in 1..(i - 1) : sent'[c][k] = sent[c][k]
      BY <1>3, <2>2
    <3> QED
      BY <1>7, <3>1 DEF ContinuousOK, SentIsContinuous
  <2> QED
    BY <2>1, <2>2
<1>8. SentIsContinuous(c)'
  BY <1>3, <1>7 DEF SentIsContinuous, IsVoice
<1> QED
  BY <1>4, <1>6, <1>8 DEF ContinuousOK

\* The worker answers: the vocoder's state is this frame's from now on.
LEMMA ContinuousReply ==
    ASSUME TypeInv, NEW c \in Conns, ContinuousOK(c), WorkerReply
    PROVE  ContinuousOK(c)'
<1>1. TypeOK /\ HeldOK /\ HandlerOK(c)
  BY DEF TypeInv, HandlersOK
<1>2. PICK f \in Frames : job = f /\ f # None
  BY <1>1 DEF TypeOK, WorkerReply
<1>3. /\ UNCHANGED <<pc, reply, sent>>
      /\ context' = [context EXCEPT ![f.dir] = f]
      /\ oneshot' = IF pc[f.conn] = "awaiting"
                      THEN [oneshot EXCEPT ![f.conn] = Coded(f)] ELSE oneshot
      /\ f.dir \in Directions /\ f.conn \in Conns
      /\ context \in [Directions -> Frames \cup {None}]
  BY <1>1, <1>2 DEF WorkerReply, ContextAfter, clientVars, Frames, TypeOK
<1>4. \A d, n : LastOf(c, d, n)' <=> LastOf(c, d, n)
  BY <1>3 DEF LastOf
<1>5. SentIsContinuous(c)'
  BY <1>3 DEF ContinuousOK, SentIsContinuous, IsVoice
<1>6. CASE f.conn = c /\ pc[c] = "awaiting"
  <2>1. oneshot[c] = None /\ reply[c] = None
    BY <1>1, <1>2, <1>6 DEF HeldOK, Waits, HandlerOK
  <2>2. OnItsWay(c) = None
    BY <2>1 DEF OnItsWay, AnswerAt
  <2>3. OnItsWay(c)' = Coded(f)
    BY <1>1, <1>2, <1>3, <1>6, CodedType, NoneAssumption
       DEF OnItsWay, AnswerAt, TypeOK
  <2>4. \A d \in Directions :
          context[d] # None /\ context[d].conn = c => LastOf(c, d, context[d].n)
    BY <1>6, <2>2 DEF ContinuousOK, ContextIsOwnLast, IsVoice
  <2>5. PredIsOwnLast(c)'
    BY <1>3, <1>4, <2>3, <2>4 DEF PredIsOwnLast, Coded
  <2>6. /\ Coded(f) # None /\ Coded(f).body = f.dir /\ Coded(f).n = f.n
        /\ IsVoice(Coded(f))
    BY <1>1, <1>2, <1>3, CodedType, NoneAssumption DEF Coded, IsVoice
  <2>7. context'[f.dir] = f /\ \A d \in Directions \ {f.dir} : context'[d] = context[d]
    BY <1>3
  <2>8. ContextIsOwnLast(c)'
    <3>1. ASSUME NEW d \in Directions \ {f.dir}, context'[d] # None,
                 context'[d].conn = c
          PROVE  LastOf(c, d, context[d].n)'
      BY <1>4, <2>4, <2>7, <3>1
    <3> QED
      BY <2>3, <2>6, <2>7, <3>1 DEF ContextIsOwnLast
  <2> QED
    BY <1>5, <2>5, <2>8 DEF ContinuousOK
<1>7. CASE ~(f.conn = c /\ pc[c] = "awaiting")
  <2>1. OnItsWay(c)' = OnItsWay(c)
    BY <1>1, <1>3, <1>7 DEF OnItsWay, AnswerAt, TypeOK
  <2>2. PredIsOwnLast(c)'
    BY <1>4, <2>1 DEF ContinuousOK, PredIsOwnLast, IsVoice
  <2>3. f.conn = c => pc[c] = "closed"
    BY <1>1, <1>2, <1>7 DEF HeldOK, Waits
  <2>4. ContextIsOwnLast(c)'
    <3>1. ASSUME pc[c] # "closed", NEW d \in Directions, context'[d] # None,
                 context'[d].conn = c
          PROVE  context'[d] = context[d]
      BY <1>3, <2>3, <3>1
    <3> QED
      BY <1>3, <1>4, <2>1, <3>1 DEF ContinuousOK, ContextIsOwnLast, IsVoice
  <2> QED
    BY <1>5, <2>2, <2>4 DEF ContinuousOK
<1> QED
  BY <1>6, <1>7

\* Every step keeps the frames of every connection continuous.
LEMMA ContinuousNext == ContinuousInv /\ [Next]_vars => ContinuousInv'
<1> SUFFICES ASSUME ContinuousInv, [Next]_vars, NEW c \in Conns
             PROVE  ContinuousOK(c)'
  BY TypeInvNext DEF ContinuousInv
<1>1. TypeInv /\ TypeOK /\ HandlerOK(c) /\ ContinuousOK(c)
  BY DEF ContinuousInv, TypeInv, HandlersOK
<1>2. CASE Write(c)
  BY <1>1, <1>2, ContinuousWrite
<1>3. CASE WorkerReply
  BY <1>1, <1>3, ContinuousReply
<1>4. CASE ReadControl(c) \/ ReadMisshapen(c) \/ ReadAudio(c)
  <2>1. /\ sent' = sent /\ context' = context /\ oneshot' = oneshot
        /\ pc[c] = "reading"
        /\ \/ reply'[c] = reply[c]
           \/ reply'[c].pred = None /\ ~IsVoice(reply'[c])
    <3>1. CASE ReadControl(c)
      <4>1. PICK k \in Kinds : Read(c, k) /\
              reply'[c] = [n |-> Len(received'[c]), body |-> ControlResponse(k),
                           pred |-> None]
        BY <1>1, <3>1 DEF ReadControl, TypeOK
      <4>2. ControlResponse(k) \notin Directions
        BY ControlResponseType DEF Acks, Directions
      <4> QED
        BY <3>1, <4>1, <4>2 DEF ReadControl, Read, workerVars, IsVoice
    <3>2. CASE ReadMisshapen(c) \/ ReadAudio(c)
      BY <3>2 DEF ReadMisshapen, ReadAudio, Read, handlerVars, workerVars
    <3> QED
      BY <1>4, <3>1, <3>2
  <2>2. reply[c] = None /\ oneshot[c] = None
    BY <1>1, <2>1 DEF HandlerOK
  <2>3. /\ OnItsWay(c) = None
        /\ \/ OnItsWay(c)' = None
           \/ OnItsWay(c)'.pred = None /\ ~IsVoice(OnItsWay(c)')
    BY <2>1, <2>2 DEF OnItsWay, AnswerAt
  <2> QED
    BY <1>1, <2>1, <2>3, ContinuousStable DEF IsVoice
<1>5. CASE Accept(c) \/ Send(c) \/ Receive(c) \/ Disconnect(c) \/ Cancel(c)
  <2>1. sent' = sent /\ context' = context
    BY <1>5 DEF Accept, Send, Receive, Disconnect, Cancel, clientVars, workerVars
  <2>2. pc[c] # "closed"
    BY <1>5 DEF Accept, Send, Receive, Disconnect, Cancel
  <2>3. CASE Accept(c) \/ Send(c) \/ Receive(c)
    <3>1. OnItsWay(c)' = OnItsWay(c)
      BY <1>1, <2>3 DEF Accept, Send, Receive, OnItsWay, AnswerAt, TypeOK
    <3> QED
      BY <1>1, <2>1, <2>2, <3>1, ContinuousStable
  <2>4. CASE Disconnect(c) \/ Cancel(c)
    <3>1. pc'[c] = "closed" /\ OnItsWay(c)' = None
      BY <1>1, <2>4 DEF Disconnect, Cancel, OnItsWay, AnswerAt, TypeOK, HandlerOK
    <3> QED
      BY <1>1, <2>1, <3>1, ContinuousStable DEF IsVoice
  <2> QED
    BY <1>5, <2>3, <2>4
<1>6. ASSUME NEW d \in Conns \ {c}, Accept(d) \/ Handler(d) \/ Cancel(d)
      PROVE  ContinuousOK(c)'
  <2>1. /\ sent'[c] = sent[c] /\ context' = context
        /\ pc'[c] = pc[c] /\ reply'[c] = reply[c] /\ oneshot'[c] = oneshot[c]
    BY <1>1, <1>6
       DEF TypeOK, Accept, Handler, Cancel, ReadControl, ReadMisshapen, ReadAudio,
           Read, Send, Receive, Write, Disconnect, clientVars, handlerVars,
           workerVars
  <2>2. OnItsWay(c)' = OnItsWay(c)
    BY <2>1 DEF OnItsWay, AnswerAt
  <2> QED
    BY <1>1, <2>1, <2>2, ContinuousStable
<1>7. CASE WorkerRecv \/ WorkerExit \/ ProcessExit \/ Shutdown \/ Terminated
           \/ UNCHANGED vars
  <2>1. UNCHANGED <<sent, context, pc, reply, oneshot>>
    BY <1>7 DEF WorkerRecv, WorkerExit, ProcessExit, Shutdown, Terminated, vars,
                clientVars, handlerVars, workerVars
  <2>2. OnItsWay(c)' = OnItsWay(c)
    BY <2>1 DEF OnItsWay, AnswerAt
  <2> QED
    BY <1>1, <2>1, <2>2, ContinuousStable
<1>8. CASE \E d \in Conns : Accept(d) \/ Handler(d) \/ Cancel(d)
  BY <1>2, <1>4, <1>5, <1>6, <1>8 DEF Handler
<1> QED
  BY <1>3, <1>7, <1>8 DEF Next

\* The vocoder state a connection's frame is coded from, where this connection
\* left it, was left by its preceding frame of that direction: alone on the
\* server, a stream is coded as by a private vocoder.
THEOREM OwnStreamIsPrivate == Spec => []OwnFramesAreContinuous
<1>1. Init => ContinuousInv
  <2> SUFFICES ASSUME Init, NEW c \in Conns PROVE ContinuousOK(c)
    BY TypeInvInit DEF ContinuousInv
  <2>1. /\ sent[c] = <<>> /\ oneshot[c] = None /\ reply[c] = None
        /\ \A d \in Directions : context[d] = None
    BY DEF Init
  <2> QED
    BY <2>1 DEF ContinuousOK, PredIsOwnLast, ContextIsOwnLast, SentIsContinuous,
                OnItsWay, AnswerAt, IsVoice
<1>2. ContinuousInv /\ [Next]_vars => ContinuousInv'
  BY ContinuousNext
<1>3. ContinuousInv => OwnFramesAreContinuous
  <2> SUFFICES ASSUME ContinuousInv, NEW c \in Conns, NEW i \in DOMAIN sent[c],
                      sent[c][i].pred # None, sent[c][i].pred.conn = c
               PROVE  \E j \in {k \in 1..(i - 1) : sent[c][k].body = sent[c][i].body} :
                        /\ sent[c][j].n = sent[c][i].pred.n
                        /\ \A k \in {l \in 1..(i - 1) : sent[c][l].body = sent[c][i].body} :
                             k <= j
    BY DEF OwnFramesAreContinuous
  <2>1. SentIsContinuous(c)
    BY DEF ContinuousInv, ContinuousOK
  <2> QED
    BY <2>1 DEF SentIsContinuous
<1> QED
  BY <1>1, <1>2, <1>3, PTL DEF Spec

-----------------------------------------------------------------------------
(* Refinement: the server implements the atomic vocoder of CodecService.   *)
(* A frame is outstanding from ReadAudio (Ask) to WorkerReply (Serve, or   *)
(* ServeOrphan when its handler is gone); Receive is Take; Cancel is       *)
(* Abandon while the frame is outstanding and Take once it is answered.    *)
(* Everything else is a stutter.                                           *)

\* The frames in the hands of the channel or the worker.
Held(f) == InQueue(f) \/ job = f

\* No frame of a handler that does not await is held.
LEMMA HeldWaits ==
    ASSUME TypeInv, NEW f, Held(f), f # None PROVE Waits(f)
BY DEF TypeInv, HandlersOK, HeldOK, Held, InQueue

\* If what is outstanding, answered, left behind and coded last stays as it is,
\* the service does nothing.
LEMMA Stutter ==
    ASSUME \A c \in Conns : Pending(c)' = Pending(c) /\ Result(c)' = Result(c),
           Orphans' = Orphans, context' = context
    PROVE  UNCHANGED Service!vars
BY DEF Service!vars

\* Connections other than c, which alone moves, see no change.
LEMMA OnlyC ==
    ASSUME NEW c \in Conns,
           \A d \in Conns \ {c} : /\ pc'[d] = pc[d] /\ frame'[d] = frame[d]
                                  /\ oneshot'[d] = oneshot[d]
    PROVE  \A d \in Conns \ {c} : /\ Pending(d)' = Pending(d)
                                  /\ Result(d)' = Result(d)
BY DEF Pending, Result

\* The initial state.
LEMMA RefinementInit == Init => Service!Init
<1> SUFFICES ASSUME Init PROVE Service!Init
  OBVIOUS
<1>1. \A c \in Conns : Pending(c) = None /\ Result(c) = None
  BY DEF Init, Pending, Result
<1>2. Orphans = {}
  BY NoneAssumption DEF Init, Orphans, InQueue
<1> QED
  BY <1>1, <1>2 DEF Init, Service!Init

\* A handler that reads, is accepted or ends on its own.
LEMMA RefinementRead ==
    ASSUME TypeInv, TypeInv', NEW c \in Conns,
           \/ Accept(c) \/ ReadControl(c) \/ ReadMisshapen(c) \/ ReadAudio(c)
           \/ Write(c) \/ Disconnect(c)
    PROVE  [Service!Next]_Service!vars
<1>1. TypeOK /\ TypeOK' /\ HandlerOK(c) /\ HandlerOK(c)'
  BY DEF TypeInv, HandlersOK
<1>2. /\ pc[c] \in {"unopened", "reading", "writing"}
      /\ UNCHANGED <<queue, job, oneshot, context>>
      /\ \A d \in Conns \ {c} : pc'[d] = pc[d] /\ frame'[d] = frame[d]
  BY <1>1 DEF Accept, ReadControl, ReadMisshapen, ReadAudio, Write, Disconnect,
              Read, TypeOK, clientVars, workerVars, handlerVars
<1>3. frame[c] = None /\ oneshot[c] = None
  BY <1>1, <1>2 DEF HandlerOK
<1>4. \A f \in Frames : f.conn = c => ~Held(f)
  BY <1>2, HeldWaits, NoneAssumption DEF Waits
<1>5. Orphans' = Orphans
  BY <1>2, <1>4 DEF Orphans, Held, InQueue, Frames
<1>6. \A d \in Conns \ {c} : Pending(d)' = Pending(d) /\ Result(d)' = Result(d)
  BY <1>2, OnlyC
<1>7. Pending(c) = None /\ Result(c) = None /\ Result(c)' = None
  BY <1>2, <1>3 DEF Pending, Result
<1>8. CASE ReadAudio(c)
  <2>1. pc'[c] = "sending" /\ frame'[c] \in Frames /\ frame'[c].conn = c
    BY <1>1, <1>8 DEF ReadAudio, TypeOK, HandlerOK
  <2>2. Pending(c)' = frame'[c]
    BY <1>2, <1>3, <2>1 DEF Pending
  <2>3. Service!Ask(c, frame'[c])
    BY <1>2, <1>5, <1>6, <1>7, <2>1, <2>2 DEF Service!Ask
  <2> QED
    BY <2>1, <2>3 DEF Service!Next
<1>9. CASE ~ReadAudio(c)
  <2>1. frame'[c] = None
    BY <1>1, <1>3, <1>9
       DEF Accept, ReadControl, ReadMisshapen, Write, Disconnect, handlerVars
  <2>2. Pending(c)' = None
    BY <1>2, <1>3, <2>1 DEF Pending
  <2> QED
    BY <1>2, <1>5, <1>6, <1>7, <2>2, Stutter
<1> QED
  BY <1>8, <1>9

\* A handler hands its frame over: it was outstanding before.
LEMMA RefinementSend ==
    ASSUME TypeInv, NEW c \in Conns, Send(c)
    PROVE  [Service!Next]_Service!vars
<1>1. TypeOK /\ HandlerOK(c) /\ pc[c] = "sending"
  BY DEF TypeInv, HandlersOK, Send
<1>2. /\ UNCHANGED <<frame, oneshot, job, context>>
      /\ pc' = [pc EXCEPT ![c] = "awaiting"]
      /\ queue' = Append(queue, frame[c])
      /\ frame[c] \in Frames /\ frame[c].conn = c
  BY <1>1 DEF Send, TypeOK, HandlerOK
<1>3. /\ DOMAIN queue' = 1..(Len(queue) + 1) /\ DOMAIN queue = 1..Len(queue)
      /\ Len(queue) \in Nat
      /\ \A i \in DOMAIN queue : queue'[i] = queue[i]
      /\ queue'[Len(queue) + 1] = frame[c]
  BY <1>1, <1>2, LenProperties DEF TypeOK
<1>4. \A f : InQueue(f)' <=> InQueue(f) \/ f = frame[c]
  BY <1>3 DEF InQueue
<1>5. Orphans' = Orphans
  BY <1>1, <1>2, <1>4 DEF Orphans, TypeOK, Frames
<1>6. \A d \in Conns : Pending(d)' = Pending(d) /\ Result(d)' = Result(d)
  BY <1>1, <1>2 DEF Pending, Result, TypeOK
<1> QED
  BY <1>2, <1>5, <1>6, Stutter

\* The result of an answered handler is one.
LEMMA ResultIsThere ==
    ASSUME TypeInv, NEW c \in Conns, oneshot[c] # None
    PROVE  Result(c) # None /\ pc[c] = "awaiting" /\ Pending(c) = None
<1>1. TypeOK /\ HandlerOK(c)
  BY DEF TypeInv, HandlersOK
<1>2. oneshot[c] \in Answers /\ frame[c] \in Frames /\ pc[c] = "awaiting"
  BY <1>1 DEF TypeOK, HandlerOK
<1>3. oneshot[c].body = frame[c].dir /\ oneshot[c].n = frame[c].n
  BY <1>1 DEF HandlerOK
<1>4. Result(c) \in [frame : Frames, pred : Frames \cup {None}]
  BY <1>2, <1>3 DEF Result, Answers, Frames
<1> QED
  BY <1>2, <1>4, NoneAssumption DEF Pending

\* A handler takes its answer.
LEMMA RefinementReceive ==
    ASSUME TypeInv, NEW c \in Conns, Receive(c)
    PROVE  [Service!Next]_Service!vars
<1>1. TypeOK /\ oneshot[c] # None /\ pc[c] = "awaiting"
  BY DEF TypeInv, Receive
<1>2. /\ UNCHANGED <<queue, job, context>>
      /\ pc' = [pc EXCEPT ![c] = "writing"] /\ frame' = [frame EXCEPT ![c] = None]
      /\ oneshot' = [oneshot EXCEPT ![c] = None]
  BY DEF Receive, workerVars
<1>3. \A d \in Conns \ {c} : Pending(d)' = Pending(d) /\ Result(d)' = Result(d)
  BY <1>1, <1>2, OnlyC DEF TypeOK
<1>4. Result(c)' = None /\ Pending(c)' = None /\ Pending(c) = None /\ Result(c) # None
  BY <1>1, <1>2, ResultIsThere DEF TypeOK, Result, Pending
<1>5. Orphans' = Orphans
  BY <1>1, <1>2 DEF Orphans, InQueue, TypeOK, Frames
<1>6. Service!Take(c)
  BY <1>2, <1>3, <1>4, <1>5 DEF Service!Take
<1> QED
  BY <1>6 DEF Service!Next

\* The runtime drops a handler, wherever it is suspended.
LEMMA RefinementCancel ==
    ASSUME TypeInv, NEW c \in Conns, Cancel(c)
    PROVE  [Service!Next]_Service!vars
<1>1. TypeOK /\ HandlerOK(c) /\ pc[c] # "closed"
  BY DEF TypeInv, HandlersOK, Cancel
<1>2. /\ UNCHANGED <<queue, job, context>>
      /\ pc' = [pc EXCEPT ![c] = "closed"] /\ frame' = [frame EXCEPT ![c] = None]
      /\ oneshot' = [oneshot EXCEPT ![c] = None]
  BY DEF Cancel, workerVars
<1>3. \A d \in Conns \ {c} : Pending(d)' = Pending(d) /\ Result(d)' = Result(d)
  BY <1>1, <1>2, OnlyC DEF TypeOK
<1>4. Result(c)' = None /\ Pending(c)' = None
  BY <1>1, <1>2 DEF TypeOK, Result, Pending
<1>5. \A f \in Frames : f.conn = c /\ Held(f) =>
        pc[c] = "awaiting" /\ f = frame[c] /\ oneshot[c] = None
  BY <1>1, HeldWaits, NoneAssumption DEF Waits
<1>6. Orphans' = Orphans \cup {f \in Frames : f.conn = c /\ Held(f)}
  BY <1>1, <1>2 DEF Orphans, Held, InQueue, TypeOK, Frames
<1>7. CASE pc[c] \in {"sending", "awaiting"} /\ oneshot[c] = None
  <2>1. Pending(c) = frame[c] /\ frame[c] # None /\ Result(c) = None
    BY <1>1, <1>7 DEF Pending, Result, HandlerOK
  <2>2. Orphans' \in {Orphans, Orphans \cup {frame[c]}}
    BY <1>5, <1>6
  <2>3. Service!Abandon(c)
    BY <1>2, <1>3, <1>4, <2>1, <2>2 DEF Service!Abandon
  <2> QED
    BY <2>3 DEF Service!Next
<1>8. CASE oneshot[c] # None
  <2>1. Orphans' = Orphans
    BY <1>5, <1>6, <1>8
  <2>2. Service!Take(c)
    BY <1>2, <1>3, <1>4, <1>8, <2>1, ResultIsThere DEF Service!Take
  <2> QED
    BY <2>2 DEF Service!Next
<1>9. CASE pc[c] \notin {"sending", "awaiting"} /\ oneshot[c] = None
  <2>1. Orphans' = Orphans
    BY <1>5, <1>6, <1>9
  <2>2. Pending(c) = None /\ Result(c) = None
    BY <1>9 DEF Pending, Result
  <2> QED
    BY <1>2, <1>3, <1>4, <2>1, <2>2, Stutter
<1> QED
  BY <1>7, <1>8, <1>9

\* The worker takes a request: it is held as before.
LEMMA RefinementWorkerRecv ==
    ASSUME TypeInv, WorkerRecv
    PROVE  [Service!Next]_Service!vars
<1>1. TypeOK
  BY DEF TypeInv
<1>2. /\ UNCHANGED <<pc, frame, oneshot, context>>
      /\ job = None /\ queue # <<>> /\ job' = Head(queue) /\ queue' = Tail(queue)
  BY DEF WorkerRecv, clientVars, handlerVars
<1>3. \A f \in Frames : Held(f)' <=> Held(f)
  <2>1. /\ Head(queue) = queue[1] /\ 1 \in DOMAIN queue
        /\ DOMAIN Tail(queue) = 1..(Len(queue) - 1)
        /\ Len(queue) \in Nat /\ DOMAIN queue = 1..Len(queue)
        /\ \A i \in DOMAIN Tail(queue) : /\ i + 1 \in DOMAIN queue
                                         /\ Tail(queue)[i] = queue[i + 1]
    BY <1>1, <1>2, QueueHead, LenProperties DEF TypeOK
  <2> SUFFICES ASSUME NEW f \in Frames PROVE Held(f)' <=> Held(f)
    OBVIOUS
  <2>2. Held(f)' => Held(f)
    BY <1>2, <2>1 DEF Held, InQueue
  <2>3. ASSUME NEW i \in DOMAIN queue, queue[i] = f PROVE Held(f)'
    <3>1. CASE i = 1
      BY <1>2, <2>1, <2>3, <3>1 DEF Held
    <3>2. CASE i # 1
      <4>1. i - 1 \in DOMAIN Tail(queue) /\ Tail(queue)[i - 1] = f
        BY <2>1, <2>3, <3>2
      <4> QED
        BY <1>2, <4>1 DEF Held, InQueue
    <3> QED
      BY <3>1, <3>2
  <2> QED
    BY <1>2, <2>2, <2>3, NoneAssumption DEF Held, InQueue
<1>4. Orphans' = Orphans
  BY <1>2, <1>3 DEF Orphans, Held
<1>5. \A d \in Conns : Pending(d)' = Pending(d) /\ Result(d)' = Result(d)
  BY <1>2 DEF Pending, Result
<1> QED
  BY <1>2, <1>4, <1>5, Stutter

\* The worker answers: the one instant at which the frame is coded.
LEMMA RefinementWorkerReply ==
    ASSUME TypeInv, WorkerReply
    PROVE  [Service!Next]_Service!vars
<1>1. TypeOK /\ HeldOK
  BY DEF TypeInv, HandlersOK
<1>2. job \in Frames /\ job # None
  BY <1>1 DEF TypeOK, WorkerReply
<1>3. PICK c \in Conns, f \in Frames : job = f /\ c = f.conn /\ f # None
  BY <1>2 DEF Frames
<1>4. /\ UNCHANGED <<pc, frame, queue>>
      /\ job' = None
      /\ context' = [context EXCEPT ![f.dir] = f]
      /\ oneshot' = IF pc[c] = "awaiting"
                      THEN [oneshot EXCEPT ![c] = Coded(f)] ELSE oneshot
  BY <1>3 DEF WorkerReply, ContextAfter
<1>5. /\ Waits(f) /\ ~InQueue(f)
      /\ \A g \in Frames : Held(g)' <=> Held(g) /\ g # f
  <2>1. Waits(f) /\ ~InQueue(f)
    BY <1>1, <1>3 DEF HeldOK, InQueue
  <2> QED
    BY <1>3, <1>4, <2>1, NoneAssumption DEF Held, InQueue
<1>6. CASE pc[c] = "awaiting"
  <2>1. frame[c] = f /\ oneshot[c] = None
    BY <1>3, <1>5, <1>6 DEF Waits
  <2>2. Pending(c) = f
    BY <1>6, <2>1 DEF Pending
  <2>3. Coded(f) \in Answers /\ oneshot'[c] = Coded(f)
    BY <1>1, <1>4, <1>6, CodedType DEF TypeOK
  <2>4. Pending(c)' = None
    BY <2>3, NoneAssumption DEF Pending
  <2>5. Result(c)' = [frame |-> f, pred |-> context[f.dir]]
    <3>1. f = [conn |-> c, dir |-> f.dir, n |-> f.n]
      BY <1>3 DEF Frames
    <3> QED
      BY <2>3, <3>1, NoneAssumption DEF Result, Coded
  <2>6. \A d \in Conns \ {c} : Pending(d)' = Pending(d) /\ Result(d)' = Result(d)
    BY <1>1, <1>4, OnlyC DEF TypeOK
  <2>7. Orphans' = Orphans
    BY <1>3, <1>4, <1>5, <1>6 DEF Orphans, Held
  <2>8. Service!Serve(c)
    BY <1>3, <1>4, <2>2, <2>4, <2>5, <2>6, <2>7
       DEF Service!Serve, Service!Coded
  <2> QED
    BY <2>8 DEF Service!Next
<1>7. CASE pc[c] = "closed"
  <2>1. f \in Orphans
    BY <1>3, <1>7 DEF Orphans
  <2>2. Orphans' = Orphans \ {f}
    BY <1>4, <1>5 DEF Orphans, Held
  <2>3. \A d \in Conns : Pending(d)' = Pending(d) /\ Result(d)' = Result(d)
    BY <1>4, <1>7 DEF Pending, Result
  <2>4. Service!ServeOrphan(f)
    BY <1>4, <2>1, <2>2, <2>3 DEF Service!ServeOrphan
  <2> QED
    BY <2>1, <2>4 DEF Service!Next
<1> QED
  BY <1>3, <1>5, <1>6, <1>7 DEF Waits

\* Every step of the server is a step of the service or none.
LEMMA RefinementNext ==
    TypeInv /\ TypeInv' /\ [Next]_vars => [Service!Next]_Service!vars
<1> SUFFICES ASSUME TypeInv, TypeInv', [Next]_vars
             PROVE  [Service!Next]_Service!vars
  OBVIOUS
<1>1. ASSUME NEW c \in Conns, Accept(c) \/ Handler(c) \/ Cancel(c)
      PROVE  [Service!Next]_Service!vars
  BY <1>1, RefinementRead, RefinementSend, RefinementReceive, RefinementCancel
     DEF Handler
<1>2. CASE WorkerRecv
  BY <1>2, RefinementWorkerRecv
<1>3. CASE WorkerReply
  BY <1>3, RefinementWorkerReply
<1>4. CASE WorkerExit \/ ProcessExit \/ Shutdown \/ Terminated \/ UNCHANGED vars
  <2>1. UNCHANGED <<pc, frame, oneshot, queue, job, context>>
    BY <1>4 DEF WorkerExit, ProcessExit, Shutdown, Terminated, vars, clientVars,
                handlerVars, workerVars
  <2>2. Orphans' = Orphans
    BY <2>1 DEF Orphans, InQueue
  <2>3. \A d \in Conns : Pending(d)' = Pending(d) /\ Result(d)' = Result(d)
    BY <2>1 DEF Pending, Result
  <2> QED
    BY <2>1, <2>2, <2>3, Stutter
<1> QED
  BY <1>1, <1>2, <1>3, <1>4 DEF Next

\* Handlers, channel and worker together are an atomic vocoder: whatever their
\* interleaving, clients that go away and Ctrl-C, each frame is coded at one
\* instant or left behind, and its answer reaches the connection that asked.
THEOREM ServerImplementsService == Spec => ImplementsService
<1>1. Init => TypeInv /\ Service!Init
  BY TypeInvInit, RefinementInit
<1>2. TypeInv /\ [Next]_vars => TypeInv'
  BY TypeInvNext
<1>3. TypeInv /\ TypeInv' /\ [Next]_vars => [Service!Next]_Service!vars
  BY RefinementNext
<1> QED
  BY <1>1, <1>2, <1>3, PTL DEF Spec, ImplementsService, Service!Spec

=============================================================================
