----------------------------- MODULE DmrListener -----------------------------
(***************************************************************************)
(* The DMR listener of mmdvm_sip with audio decoding on (dmr_listener.rs,  *)
(* ambe_codec_client.rs): one task that takes datagrams from its socket,   *)
(* has the three AMBE frames of a voice burst decoded one after the other  *)
(* by the AMBE server, over one TCP connection, and hands their PCM to the *)
(* recorder.  While it awaits the server it neither receives nor ticks.    *)
(*                                                                         *)
(* The module composes the recorder, PcmWriter, and the AMBE server as its *)
(* clients see it, CodecService, which CodecServer implements.             *)
(***************************************************************************)
EXTENDS Naturals, Sequences, FiniteSets

CONSTANTS Streams, Slots, Talker, IdleTimeout, Second,
          MaxTime, MaxBursts, MaxFaults, \* of the recorder: see PcmWriter
          None,                          \* no frame, no burst
          BufferCap,                     \* datagrams the socket's buffer holds
          MaxOther                       \* bound: datagrams without voice

CallKeys == [stream : Streams, slot : Slots]

\* A DMRD voice burst: its call and its number in the call.  Headers, terminators
\* and packets of other kinds are one datagram, Other.
Bursts == [call : CallKeys, n : 1..MaxBursts]
Other == [call |-> None]

Parts == 1..3
Self == "listener"
Frames == [conn : {Self}, dir : {"decode"}, burst : Bursts, part : Parts]

\* None is neither a call, a burst, a frame nor a result.
ASSUME NoneAssumption ==
    /\ None \notin CallKeys /\ None \notin Bursts /\ None \notin Frames
    /\ None \notin [frame : Frames, pred : Frames \cup {None}]

ASSUME SizeAssumption == BufferCap \in Nat /\ MaxOther \in Nat

VARIABLES
    buffer,   \* the UDP socket's receive buffer
    arrived,  \* arrived[k]: the voice bursts of call k MMDVMHost sent
    others,   \* datagrams of other kinds it sent
    lost,     \* history: bursts that found the buffer full
    phase,    \* "greeting" the server, then "listening"; or "exited"
    controls, \* control packets of the handshake that are left to send
    owed,     \* the one the server owes its answer to, or None
    burst,    \* the burst decode_voice is at, or None in select!
    pcm,      \* what the server returned for its frames so far
    link,     \* the connection to the server: "up" or "broken"
    handed,   \* history: handed[k], what handle_burst was called with for k
    now, active, disk, running, seen, faults, \* PcmWriter
    context, pending, result, orphans   \* CodecService

Writer == INSTANCE PcmWriter
\* The recorder's parameters are what it assumes them to be.
ASSUME RecorderAssumption == /\ Writer!TimeAssumption /\ Writer!TalkerAssumption
                             /\ Writer!TimeoutCoversSecond

Codec == INSTANCE CodecService WITH Conns <- {Self}, Directions <- {"decode"}

arrivalVars == <<arrived, others, lost>>
greetingVars == <<phase, controls, owed>>
taskVars == <<greetingVars, burst, pcm, handed>>
writerVars == <<now, active, disk, running, seen, faults>>
codecVars == <<context, pending, result, orphans>>
vars == <<buffer, arrivalVars, taskVars, link, writerVars, codecVars>>

Init == /\ phase = "greeting" /\ owed = None
        /\ controls = <<"RESET", "PRODID", "RATET">>
        /\ buffer = <<>> /\ burst = None /\ pcm = <<>> /\ link = "up"
        /\ arrived = [k \in CallKeys |-> 0] /\ others = 0 /\ lost = {}
        /\ handed = [k \in CallKeys |-> <<>>]
        /\ Writer!Init /\ Codec!Init

-----------------------------------------------------------------------------
(* The task.  with_audio_decode has connected; the socket is bound already *)
(* and datagrams wait in its buffer while handshake greets the server.     *)

TheRestUnchanged == UNCHANGED <<buffer, arrivalVars, burst, pcm, handed, link,
                                 writerVars, codecVars>>

SendControl == /\ phase = "greeting" /\ link = "up"
               /\ owed = None /\ controls # <<>>
               /\ owed' = Head(controls) /\ controls' = Tail(controls)
               /\ UNCHANGED phase /\ TheRestUnchanged

\* Whatever packet comes is taken for the answer; after the third one run begins.
RecvAck == /\ phase = "greeting" /\ link = "up" /\ owed # None
           /\ owed' = None
           /\ phase' = IF controls = <<>> THEN "listening" ELSE phase
           /\ UNCHANGED controls /\ TheRestUnchanged

\* handshake returns an error and the program ends.
StartFails == /\ phase = "greeting" /\ link = "broken"
              /\ phase' = "exited"
              /\ UNCHANGED <<controls, owed>> /\ TheRestUnchanged

\* The server has answered, but the recorder's directory cannot be made.
WriterFails == /\ phase = "greeting" /\ link = "up"
               /\ owed # None /\ controls = <<>>
               /\ owed' = None /\ phase' = "exited"
               /\ UNCHANGED controls /\ TheRestUnchanged

\* Nothing is being decoded: select! waits.
Selecting == phase = "listening" /\ burst = None

Received == Head(buffer)

\* recv_from returns an error: run returns it and the program ends, the open
\* calls as they are.
RecvFails == /\ Selecting
             /\ phase' = "exited"
             /\ Writer!Exit
             /\ UNCHANGED <<controls, owed, buffer, arrivalVars, burst, pcm, handed, link,
                            codecVars>>

\* A datagram without voice is logged.
RecvOther == /\ Selecting /\ buffer # <<>> /\ Received = Other
             /\ buffer' = Tail(buffer)
             /\ UNCHANGED <<arrivalVars, taskVars, link, writerVars, codecVars>>

\* A voice burst: decode_voice extracts its frames.
RecvVoice == /\ Selecting /\ buffer # <<>> /\ Received # Other
             /\ burst' = Received /\ pcm' = <<>>
             /\ buffer' = Tail(buffer)
             /\ UNCHANGED <<greetingVars, arrivalVars, link, handed, writerVars,
                            codecVars>>

Frame(part) == [conn |-> Self, dir |-> "decode", burst |-> burst, part |-> part]

\* decode: the Channel packet goes out, and only when the one before it is
\* answered.
SendFrame == /\ burst # None /\ link = "up" /\ Len(pcm) < 3
             /\ Codec!Ask(Self, Frame(Len(pcm) + 1))
             /\ UNCHANGED <<buffer, arrivalVars, taskVars, link, writerVars>>

\* decode: the Speech packet comes back.
RecvPcm == /\ Codec!Take(Self)
           /\ pcm' = Append(pcm, result[Self])
           /\ UNCHANGED <<greetingVars, buffer, arrivalVars, burst, link, handed, writerVars>>

\* Slip: what was decoded before the error is recorded.
DecodeFails_Records == /\ burst # None /\ link = "broken" /\ Len(pcm) < 3
                       /\ pcm # <<>>
                       /\ Writer!HandleBurst(burst.call)
                       /\ handed' = [handed EXCEPT ![burst.call] =
                                       Append(@, [n |-> burst.n, pcm |-> pcm])]
                       /\ burst' = None /\ pcm' = <<>>
                       /\ UNCHANGED <<greetingVars, buffer, arrivalVars, link, codecVars>>

\* Slip: the PCM decoded so far outlives the burst.
DecodeFails_KeepsPcm ==
    /\ burst # None /\ link = "broken" /\ Len(pcm) < 3
    /\ burst' = None
    /\ UNCHANGED <<greetingVars, buffer, arrivalVars, pcm, link, handed, writerVars,
                   codecVars>>

\* Slip: the frame is sent again and again.
DecodeFails_Retries == /\ burst # None /\ link = "broken" /\ Len(pcm) < 3
                       /\ UNCHANGED vars

\* decode returns an error, and so will every decode after it: the client does
\* not connect again.  The burst is dropped with what was decoded of it.  It also
\* errs, and the next burst may fare better, when an answer is not a Speech packet
\* of 160 samples; the server's Speech packets are, and it keeps their order.
DecodeFails == /\ burst # None /\ link = "broken" /\ Len(pcm) < 3
               /\ burst' = None /\ pcm' = <<>>
               /\ UNCHANGED <<greetingVars, buffer, arrivalVars, link, handed, writerVars,
                              codecVars>>

\* All three are decoded: handle_burst, in whichever way it goes.
Record == /\ burst # None /\ Len(pcm) = 3
          /\ Writer!HandleBurst(burst.call)
          /\ handed' = [handed EXCEPT ![burst.call] =
                          Append(@, [n |-> burst.n, pcm |-> pcm])]
          /\ burst' = None /\ pcm' = <<>>
          /\ UNCHANGED <<greetingVars, buffer, arrivalVars, link, codecVars>>

\* Slip: idle calls are looked for only where a burst is recorded.
IdleTick_Never == FALSE /\ UNCHANGED vars

\* Slip: the tick interrupts decode_voice.
IdleTick_Cancels == /\ phase = "listening"
                    /\ burst' = None /\ pcm' = <<>>
                    /\ Writer!FlushIdle
                    /\ UNCHANGED <<greetingVars, buffer, arrivalVars, handed, link, codecVars>>

\* The 500 ms tick.
IdleTick == /\ Selecting
            /\ Writer!FlushIdle
            /\ UNCHANGED <<buffer, arrivalVars, taskVars, link, codecVars>>

Task == SendControl \/ RecvAck \/ StartFails
        \/ RecvOther \/ RecvVoice \/ SendFrame \/ RecvPcm \/ DecodeFails \/ Record

-----------------------------------------------------------------------------
(* External: MMDVMHost, the AMBE server, the connection to it, and time.   *)

ToBuffer(m) == /\ Len(buffer) < BufferCap
               /\ buffer' = Append(buffer, m)

Arrive(k) == /\ arrived[k] < MaxBursts
             /\ arrived' = [arrived EXCEPT ![k] = @ + 1]
             /\ LET m == [call |-> k, n |-> arrived[k] + 1]
                IN  \/ ToBuffer(m) /\ UNCHANGED lost
                    \/ /\ Len(buffer) = BufferCap
                       /\ lost' = lost \cup {m}
                       /\ UNCHANGED buffer
             /\ UNCHANGED <<others, taskVars, link, writerVars, codecVars>>

ArriveOther == /\ others < MaxOther /\ others' = others + 1
               /\ ToBuffer(Other)
               /\ UNCHANGED <<arrived, lost, taskVars, link, writerVars, codecVars>>

Serve == /\ \/ Codec!Serve(Self)
            \/ \E f \in orphans : Codec!ServeOrphan(f)
         /\ UNCHANGED <<buffer, arrivalVars, taskVars, link, writerVars>>

\* The server stops or the connection is lost, and with it the answer owed.
LinkBreaks == /\ link = "up" /\ link' = "broken"
              /\ \/ Codec!Abandon(Self)
                 \/ Codec!Take(Self)
                 \/ pending[Self] = None /\ result[Self] = None /\ UNCHANGED codecVars
              /\ UNCHANGED <<buffer, arrivalVars, taskVars, writerVars>>

Tick == /\ Writer!Tick
        /\ UNCHANGED <<buffer, arrivalVars, taskVars, link, codecVars>>

Next == \/ Task \/ IdleTick \/ WriterFails \/ RecvFails
        \/ Serve \/ LinkBreaks \/ Tick \/ ArriveOther
        \/ \E k \in CallKeys : Arrive(k)

Spec == Init /\ [][Next]_vars

\* The task runs, its select! does not starve the tick, time passes, and the
\* server answers (CodecServer!EveryFrameIsCoded) as long as the link is up.
Fairness == WF_vars(Task) /\ SF_vars(IdleTick) /\ WF_vars(Tick) /\ WF_vars(Serve)

FairSpec == Spec /\ Fairness

-----------------------------------------------------------------------------
(* Properties.                                                             *)

TypeOK == /\ \A i \in DOMAIN buffer : buffer[i] = Other \/ buffer[i] \in Bursts
          /\ Len(buffer) <= BufferCap
          /\ burst = None \/ burst \in Bursts
          /\ Len(pcm) <= 3 /\ (burst = None => pcm = <<>>)
          /\ link \in {"up", "broken"}
          /\ phase \in {"greeting", "listening", "exited"}
          /\ phase = "listening" => controls = <<>> /\ owed = None
          /\ phase # "listening" => burst = None /\ active = [k \in {} |-> {}]
          /\ \A k \in CallKeys : seen[k] = Len(handed[k]) /\ seen[k] <= arrived[k]
          /\ Writer!TypeOK

\* The recorder is called once per burst, with the PCM of its three frames in
\* their order and of no other burst, each decoded right after the one before
\* it, and a call's bursts in their order, whatever happens to the link in the
\* middle of one.
BurstsAreWhole ==
    \A k \in CallKeys : \A i \in DOMAIN handed[k] :
      /\ Len(handed[k][i].pcm) = 3
      /\ [p \in Parts |-> handed[k][i].pcm[p].frame] =
           [p \in Parts |-> [conn |-> Self, dir |-> "decode", part |-> p,
                             burst |-> [call |-> k, n |-> handed[k][i].n]]]
      /\ \A p \in 2..3 : handed[k][i].pcm[p].pred = handed[k][i].pcm[p - 1].frame
      /\ \A j \in 1..(i - 1) : handed[k][j].n < handed[k][i].n

\* While the link is up no burst is missed but for those the socket had no room
\* for: it waits, is being decoded, or was handed to the recorder.
NoBurstIsMissed ==
    link = "up" =>
      \A k \in CallKeys : \A n \in 1..arrived[k] :
        LET m == [call |-> k, n |-> n]
        IN  \/ m \in lost
            \/ burst = m
            \/ \E i \in DOMAIN buffer : buffer[i] = m
            \/ \E i \in DOMAIN handed[k] : handed[k][i].n = n

\* A call that fell silent is closed by the tick, with the link up or broken,
\* though the tick cannot run while a burst is decoded.
SilentCallIsClosed ==
    \A k \in CallKeys :
      (k \in DOMAIN active /\ now - active[k].last > IdleTimeout)
        ~> ~(k \in DOMAIN active /\ now - active[k].last > IdleTimeout)

\* Every datagram is dealt with, those too that came during the handshake: the
\* listener never waits for ever, or it has ended on an error of its own start or
\* its socket.
BufferIsDrained == buffer # <<>> ~> buffer = <<>> \/ phase = "exited"

=============================================================================
