---------------------------- MODULE Registration ----------------------------
(***************************************************************************)
(* The SIP registrar client of mmdvm_sip: run_register_loop (sip_client.rs)*)
(* around Registration::perform (registration.rs), over one connected UDP  *)
(* socket (udp_transport.rs), with a PBX and a network that lose, delay    *)
(* and reject.                                                             *)
(*                                                                         *)
(* Data.  A tick is 5 s: the receive timeout, and the unit of every        *)
(* backoff.  A response is its status class, the age in ticks of the nonce *)
(* it carries, and which request it answers: "of" says whether that was    *)
(* the first or the authenticated one, and "current" whether this attempt  *)
(* sent it.  The code looks at the status alone; it never compares a       *)
(* response with the CSeq, Call-ID or branch of the request it waits for.  *)
(***************************************************************************)
EXTENDS Naturals, Sequences

CONSTANTS Expires,    \* seconds the PBX grants, Registered.expires
          NonceLife,  \* ticks for which the PBX takes a nonce
          MaxLost,    \* bound: datagrams lost, or not sent
          MaxLate,    \* bound: responses the network delays
          MaxRejects, \* bound: other final answers of the PBX
          MaxIgnored  \* bound: provisional responses, requests of the PBX

TickSeconds == 5

ASSUME RegistrationAssumption ==
    /\ Expires \in Nat \ {0} /\ NonceLife \in Nat
    /\ {MaxLost, MaxLate, MaxRejects, MaxIgnored} \subseteq Nat

MaxAge == NonceLife + 1

\* "ok" is 2xx and "unauthorized" 401 with a Digest challenge.  "rejected" is
\* any other final status (a 407 included: parse_challenge knows only
\* WWW-Authenticate), an unparsable datagram or a failing recv.  "ignored" is
\* a provisional response or a request.
Statuses == {"ok", "unauthorized", "rejected", "ignored"}
Requests == [of : {"first", "auth"}, age : 0..MaxAge, current : BOOLEAN]
Responses == [status : Statuses, of : {"first", "auth"}, age : 0..MaxAge,
              current : BOOLEAN]

VARIABLES
    phase,    \* "asleep", or what perform waits for: "first" or "auth"
    timer,    \* ticks until the sleep or the receive timeout ends
    backoff,  \* ticks of the next backoff
    outcome,  \* how the last attempt ended
    toPbx,    \* requests on their way
    delayed,  \* responses held up in the network
    inbox,    \* the socket's receive buffer
    contact,  \* ticks for which the PBX keeps the contact bound
    lost, late, rejects, ignored, \* budgets spent
    acted     \* history: the last final response perform acted upon

clientVars == <<phase, timer, backoff, outcome, acted>>
budgets == <<lost, late, rejects, ignored>>
vars == <<phase, timer, backoff, outcome, toPbx, delayed, inbox, contact,
          lost, late, rejects, ignored, acted>>

Least(a, b) == IF a < b THEN a ELSE b
Greatest(a, b) == IF a < b THEN b ELSE a

\* Slip: a limit of two minutes, beyond the life of the PBX's nonce.
MaxBackoff_TwoMinutes == 24

\* 60 s.
MaxBackoff == 12

\* Slip: the refresh is due when the contact is.
RefreshIn_NoMargin(e) == Greatest(e, 30)

\* half.min(expires.saturating_sub(5)).max(30), in seconds.
RefreshIn(e) == Greatest(Least(e \div 2, IF e < 5 THEN 0 ELSE e - 5), 30)

\* Whole ticks in s seconds, rounded up.
Ticks(s) == (s + TickSeconds - 1) \div TickSeconds

Timers == 0..Greatest(Ticks(RefreshIn(Expires)), MaxBackoff)

TypeOK == /\ phase \in {"asleep", "first", "auth"}
          /\ timer \in Timers
          /\ backoff \in {1, 2, 4, 8, 12}
          /\ outcome \in {"none", "registered", "failed"}
          /\ toPbx \in Seq(Requests)
          /\ delayed \in Seq(Responses) /\ inbox \in Seq(Responses)
          /\ contact \in 0..Ticks(Expires)
          /\ lost \in 0..MaxLost /\ late \in 0..MaxLate
          /\ rejects \in 0..MaxRejects /\ ignored \in 0..MaxIgnored
          /\ acted \in Responses

Init == /\ phase = "asleep" /\ timer = 0 /\ backoff = 1 /\ outcome = "none"
        /\ toPbx = <<>> /\ delayed = <<>> /\ inbox = <<>>
        /\ contact = 0
        /\ lost = 0 /\ late = 0 /\ rejects = 0 /\ ignored = 0
        /\ acted = [status |-> "ok", of |-> "first", age |-> 0, current |-> TRUE]

-----------------------------------------------------------------------------
(* The client.                                                             *)

\* Messages of an attempt that is over.
Older(msgs) == [i \in DOMAIN msgs |-> [msgs[i] EXCEPT !.current = FALSE]]

\* perform: the unauthenticated REGISTER.  What is in flight or in the receive
\* buffer stays there.
Begin == /\ phase = "asleep" /\ timer = 0
         /\ phase' = "first" /\ timer' = 1
         /\ toPbx' = Append(Older(toPbx), [of |-> "first", age |-> 0, current |-> TRUE])
         /\ delayed' = Older(delayed) /\ inbox' = Older(inbox)
         /\ UNCHANGED <<backoff, outcome, contact, budgets, acted>>

\* perform returned Ok: sleep until the refresh.
Succeed == /\ phase' = "asleep" /\ timer' = Ticks(RefreshIn(Expires))
           /\ backoff' = 1 /\ outcome' = "registered"

\* Slip: the backoff has no limit.
Fail_Unlimited == /\ phase' = "asleep" /\ timer' = backoff
                  /\ backoff' = 2 * backoff /\ outcome' = "failed"

\* perform returned an error: back off, and twice as long the next time.
Fail == /\ phase' = "asleep" /\ timer' = backoff
        /\ backoff' = Least(2 * backoff, MaxBackoff) /\ outcome' = "failed"

\* Its send fails: perform returns at once and nothing has gone out.
BeginFails == /\ phase = "asleep" /\ timer = 0
              /\ lost < MaxLost /\ lost' = lost + 1
              /\ Fail
              /\ UNCHANGED <<toPbx, delayed, inbox, contact, late, rejects, ignored,
                             acted>>

Received == Head(inbox)

Receive(statuses) == /\ phase # "asleep" /\ inbox # <<>>
                     /\ Received.status \in statuses
                     /\ inbox' = Tail(inbox)
                     /\ UNCHANGED <<delayed, contact, late, rejects, ignored>>

\* Slip: a provisional response does not start a new wait.
RecvIgnored_GivesUp == /\ Receive({"ignored"})
                       /\ phase' = phase /\ timer' = 0
                       /\ UNCHANGED <<backoff, outcome, toPbx, lost, acted>>

\* recv_response drains it and waits another 5 s.
RecvIgnored == /\ Receive({"ignored"})
               /\ timer' = 1
               /\ UNCHANGED <<phase, backoff, outcome, toPbx, lost, acted>>

RecvOk == /\ Receive({"ok"})
          /\ acted' = Received
          /\ Succeed
          /\ UNCHANGED <<toPbx, lost>>

\* handle_challenge: the REGISTER again, with the digest of this nonce.
RecvChallenge == /\ phase = "first" /\ Receive({"unauthorized"})
                 /\ acted' = Received
                 /\ phase' = "auth" /\ timer' = 1
                 /\ toPbx' = Append(toPbx, [of |-> "auth", age |-> Received.age,
                                            current |-> TRUE])
                 /\ UNCHANGED <<backoff, outcome, lost>>

\* The challenge was read, but sending the answer fails.
ChallengeSendFails == /\ phase = "first" /\ Receive({"unauthorized"})
                      /\ lost < MaxLost /\ lost' = lost + 1
                      /\ acted' = Received
                      /\ Fail
                      /\ UNCHANGED toPbx

\* A second challenge, a stale nonce's too, is an error like any other.
RecvRejected == /\ \/ Receive({"rejected"})
                   \/ phase = "auth" /\ Receive({"unauthorized"})
                /\ acted' = Received
                /\ Fail
                /\ UNCHANGED <<toPbx, lost>>

\* The 5 s are over; a datagram that arrives at the deadline may still win.
TimedOut == /\ phase # "asleep" /\ timer = 0
            /\ Fail
            /\ UNCHANGED <<toPbx, delayed, inbox, contact, budgets, acted>>

Client == \/ Begin \/ BeginFails \/ RecvIgnored \/ RecvOk \/ RecvChallenge
          \/ ChallengeSendFails \/ RecvRejected \/ TimedOut

-----------------------------------------------------------------------------
(* External: the PBX and the network.                                      *)

\* The PBX's answer to request r, other than a rejection: it challenges unless
\* r is authenticated with a nonce it still takes.
Grants(r) == r.of = "auth" /\ r.age <= NonceLife

Response(r, status) == [status |-> status, of |-> r.of, age |-> 0,
                        current |-> r.current]

\* A response reaches the socket, is held up, or is lost.
Deliver(m) == \/ inbox' = Append(inbox, m) /\ UNCHANGED <<delayed, lost, late>>
              \/ /\ late < MaxLate /\ late' = late + 1
                 /\ delayed' = Append(delayed, m)
                 /\ UNCHANGED <<inbox, lost>>
              \/ /\ lost < MaxLost /\ lost' = lost + 1
                 /\ UNCHANGED <<inbox, delayed, late>>

PbxAnswers == /\ toPbx # <<>>
              /\ toPbx' = Tail(toPbx)
              /\ LET r == Head(toPbx)
                 IN  /\ Deliver(Response(r, IF Grants(r) THEN "ok"
                                                         ELSE "unauthorized"))
                     /\ contact' = IF Grants(r) THEN Ticks(Expires) ELSE contact
              /\ UNCHANGED <<clientVars, rejects, ignored>>

PbxRejects == /\ toPbx # <<>> /\ rejects < MaxRejects
              /\ rejects' = rejects + 1
              /\ toPbx' = Tail(toPbx)
              /\ inbox' = Append(inbox, Response(Head(toPbx), "rejected"))
              /\ UNCHANGED <<clientVars, delayed, contact, lost, late, ignored>>

RequestLost == /\ toPbx # <<>> /\ lost < MaxLost
               /\ lost' = lost + 1
               /\ toPbx' = Tail(toPbx)
               /\ UNCHANGED <<clientVars, delayed, inbox, contact, late, rejects,
                              ignored>>

\* A 100 Trying or an OPTIONS, at any time.
PbxChatters == /\ ignored < MaxIgnored
               /\ ignored' = ignored + 1
               /\ inbox' = Append(inbox, [status |-> "ignored", of |-> "first",
                                          age |-> 0, current |-> FALSE])
               /\ UNCHANGED <<clientVars, toPbx, delayed, contact, lost, late,
                              rejects>>

DelayedArrives == /\ delayed # <<>>
                  /\ inbox' = Append(inbox, Head(delayed))
                  /\ delayed' = Tail(delayed)
                  /\ UNCHANGED <<clientVars, toPbx, contact, budgets>>

Aged(msgs) == [i \in DOMAIN msgs |->
                 [msgs[i] EXCEPT !.age = Least(@ + 1, MaxAge)]]

\* 5 s pass once everything prompt has happened.
Tick == /\ timer > 0
        /\ toPbx = <<>>
        /\ phase # "asleep" => inbox = <<>>
        /\ timer' = timer - 1
        /\ contact' = IF contact = 0 THEN 0 ELSE contact - 1
        /\ delayed' = Aged(delayed) /\ inbox' = Aged(inbox)
        /\ UNCHANGED <<phase, backoff, outcome, toPbx, budgets, acted>>

Next == \/ Client \/ PbxAnswers \/ PbxRejects \/ RequestLost \/ PbxChatters
        \/ DelayedArrives \/ Tick

Spec == Init /\ [][Next]_vars

\* The client's task runs, time passes, the PBX is up.
Fairness == WF_vars(Client) /\ WF_vars(Tick) /\ WF_vars(PbxAnswers)

FairSpec == Spec /\ Fairness

-----------------------------------------------------------------------------
(* Properties.                                                             *)

\* As long as no answer comes after its receive timed out, perform acts upon
\* the answer to the request it has just sent: the first answer it acts upon is
\* to this attempt's first REGISTER, the one that ends a challenge to its
\* authenticated one.  (registration.rs:45 "Send a REGISTER, follow a 401
\* challenge if needed, return on 200 OK."  After a late answer it may not.)
ActsOnItsOwnAnswers ==
    [][acted' # acted /\ late = 0 => acted'.current /\ acted'.of = phase]_vars

\* As long as no answer is late, "registered" is what the PBX thinks too, and
\* the refresh comes at least 5 s before the contact expires
\* (sip_client.rs:40-41).
RefreshBeforeExpiry ==
    phase = "asleep" /\ outcome = "registered" /\ late = 0 => timer + 1 <= contact

\* However long the PBX was away, and whatever it answered, the client becomes
\* registered again and stays so, by refreshing: command/mod.rs:9 "keep the
\* registration alive".  Every attempt and every sleep ends; nothing but the
\* PBX's chatter prolongs a wait.  (The network's faults are finitely many.)
StaysRegistered == /\ []<>(phase = "asleep" /\ outcome = "registered")
                   /\ []<>(phase = "first")

=============================================================================
