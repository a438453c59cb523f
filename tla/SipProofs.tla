------------------------------ MODULE SipProofs ------------------------------
(***************************************************************************)
(* Theorems about the SIP client: about Registration, for every expiry,    *)
(* life of a nonce and number of faults, and about SipAuth, for every set  *)
(* of challenges that follow the grammar, of any length, spelling and      *)
(* order, and every set of grants.                                         *)
(*                                                                         *)
(* Registration.  TypeOK is inductive.  That the client acts on its own    *)
(* answers and refreshes in time rests on ExchangeOK: as long as no        *)
(* response is late, at most one message of the attempt is on its way,     *)
(* request or final response, and none when the client sleeps or its wait  *)
(* is over.                                                                *)
(*                                                                         *)
(* SipAuth.  Each round of parse_params goes forward, so the recursion     *)
(* defines a value (ParserTerminates); one round reads one parameter       *)
(* (RoundReads); the text of a challenge has the parameters one after the  *)
(* other (TextIsSpelled), so parse_params reads them all                   *)
(* (ChallengeIsRead); the answer is made of them (AnswerIsAuthentic).      *)
(* What the parser computes is defined by recursion, and the library's     *)
(* induction theorems take an operator.  So the inductions here are about  *)
(* a set of naturals and its least element (SetInduction), or about the    *)
(* last position of a text at which something fails (GreatestElement).     *)
(***************************************************************************)
EXTENDS Registration, SipAuth, Integers, TLAPS, SequenceTheorems, WellFoundedInduction

-----------------------------------------------------------------------------
(* Sequences of messages.                                                  *)

\* A message taken from the front.
LEMMA Taken ==
    ASSUME NEW S, NEW s \in Seq(S), s # <<>>
    PROVE  /\ Head(s) \in S /\ Head(s) = s[1] /\ 1 \in DOMAIN s
           /\ Tail(s) \in Seq(S) /\ Len(Tail(s)) = Len(s) - 1
           /\ \A i \in DOMAIN Tail(s) : i + 1 \in DOMAIN s /\ i + 1 # 1
                                        /\ Tail(s)[i] = s[i + 1]
<1>1. /\ Head(s) \in S /\ Tail(s) \in Seq(S) /\ Len(Tail(s)) = Len(s) - 1
      /\ \A i \in 1..Len(Tail(s)) : Tail(s)[i] = s[i + 1]
  BY HeadTailProperties
<1>2. /\ DOMAIN s = 1..Len(s) /\ Len(s) \in Nat \ {0}
      /\ DOMAIN Tail(s) = 1..Len(Tail(s))
  BY <1>1, LenProperties, EmptySeq
<1> QED
  BY <1>1, <1>2

\* A message put at the end.
LEMMA Put ==
    ASSUME NEW S, NEW s \in Seq(S), NEW m \in S
    PROVE  /\ Append(s, m) \in Seq(S) /\ Append(s, m) # <<>>
           /\ Len(Append(s, m)) = Len(s) + 1
           /\ \A i \in DOMAIN Append(s, m) :
                \/ i \in DOMAIN s /\ Append(s, m)[i] = s[i]
                \/ i = Len(s) + 1 /\ i \notin DOMAIN s /\ Append(s, m)[i] = m
<1>1. DOMAIN s = 1..Len(s) /\ Len(s) \in Nat
  BY LenProperties
<1> QED
  BY <1>1

\* Messages that age, or are left over from an attempt, stay messages.
LEMMA Mapped ==
    /\ \A s \in Seq(Requests) : Older(s) \in Seq(Requests)
    /\ \A s \in Seq(Responses) :
         /\ Older(s) \in Seq(Responses) /\ Aged(s) \in Seq(Responses)
         /\ DOMAIN Older(s) = DOMAIN s /\ DOMAIN Aged(s) = DOMAIN s
         /\ \A i \in DOMAIN s : /\ Older(s)[i].status = s[i].status
                                /\ Aged(s)[i].status = s[i].status
    /\ Older(<<>>) = <<>> /\ Aged(<<>>) = <<>>
<1>1. ASSUME NEW s \in Seq(Requests) PROVE Older(s) \in Seq(Requests)
  <2>1. Len(s) \in Nat /\ DOMAIN s = 1..Len(s) /\ s \in [1..Len(s) -> Requests]
    BY LenProperties
  <2>2. Older(s) \in [1..Len(s) -> Requests]
    BY <2>1 DEF Older, Requests
  <2> QED
    BY <2>1, <2>2, SeqDef
<1>2. ASSUME NEW s \in Seq(Responses)
      PROVE  /\ Older(s) \in Seq(Responses) /\ Aged(s) \in Seq(Responses)
             /\ DOMAIN Older(s) = DOMAIN s /\ DOMAIN Aged(s) = DOMAIN s
             /\ \A i \in DOMAIN s : /\ Older(s)[i].status = s[i].status
                                    /\ Aged(s)[i].status = s[i].status
  <2>1. Len(s) \in Nat /\ DOMAIN s = 1..Len(s) /\ s \in [1..Len(s) -> Responses]
    BY LenProperties
  <2>2. \A a \in 0..MaxAge : Least(a + 1, MaxAge) \in 0..MaxAge
    BY RegistrationAssumption DEF Least, MaxAge
  <2>3. Older(s) \in [1..Len(s) -> Responses]
    BY <2>1 DEF Older, Responses
  <2>4. Aged(s) \in [1..Len(s) -> Responses]
    BY <2>1, <2>2 DEF Aged, Responses
  <2>5. \A i \in DOMAIN s : /\ Older(s)[i].status = s[i].status
                            /\ Aged(s)[i].status = s[i].status
    BY <2>1 DEF Older, Aged, Responses
  <2> QED
    BY <2>1, <2>3, <2>4, <2>5, SeqDef
<1>3. Older(<<>>) = <<>> /\ Aged(<<>>) = <<>>
  BY DEF Older, Aged
<1> QED
  BY <1>1, <1>2, <1>3

-----------------------------------------------------------------------------
(* Type correctness.                                                       *)

\* The times the client waits are times.
LEMMA Times ==
    /\ Ticks(RefreshIn(Expires)) \in Timers /\ Ticks(Expires) \in Nat
    /\ 0..12 \subseteq Timers
    /\ MaxAge \in Nat
    /\ \A t \in Timers \ {0} : t - 1 \in Timers
<1>1. Expires \in Nat /\ MaxAge \in Nat
  BY RegistrationAssumption DEF MaxAge
<1>2. RefreshIn(Expires) \in Nat
  BY <1>1 DEF RefreshIn, Greatest, Least
<1>3. \A s \in Nat : Ticks(s) \in Nat
  BY DEF Ticks, TickSeconds
<1>4. \A t \in Nat : Greatest(t, MaxBackoff) \in Nat
                    /\ t <= Greatest(t, MaxBackoff) /\ 12 <= Greatest(t, MaxBackoff)
  BY DEF Greatest, MaxBackoff
<1>5. Ticks(RefreshIn(Expires)) \in Nat /\ Ticks(Expires) \in Nat
  BY <1>1, <1>2, <1>3
<1>6. PICK g \in Nat : /\ Timers = 0..g /\ Ticks(RefreshIn(Expires)) <= g
                      /\ 12 <= g
  BY <1>4, <1>5 DEF Timers
<1>7. 0..12 \subseteq Timers /\ \A t \in Timers \ {0} : t - 1 \in Timers
  BY <1>6
<1>8. Ticks(RefreshIn(Expires)) \in Timers
  BY <1>5, <1>6
<1> QED
  BY <1>1, <1>5, <1>7, <1>8

\* Each backoff is one of 5, 10, 20, 40 and 60 s.
LEMMA Backoffs == \A b \in {1, 2, 4, 8, 12} :
                    b \in 0..12 /\ Least(2 * b, MaxBackoff) \in {1, 2, 4, 8, 12}
BY DEF Least, MaxBackoff

\* A response reaches the socket, is held up or is lost.
LEMMA TypeDeliver ==
    ASSUME TypeOK, NEW m \in Responses, Deliver(m)
    PROVE  /\ inbox' \in Seq(Responses) /\ delayed' \in Seq(Responses)
           /\ lost' \in 0..MaxLost /\ late' \in 0..MaxLate
<1>1. Append(inbox, m) \in Seq(Responses) /\ Append(delayed, m) \in Seq(Responses)
  BY Put DEF TypeOK
<1>2. MaxLost \in Nat /\ MaxLate \in Nat
  BY RegistrationAssumption
<1>3. lost' \in 0..MaxLost /\ late' \in 0..MaxLate
  BY <1>2 DEF TypeOK, Deliver
<1> QED
  BY <1>1, <1>3 DEF TypeOK, Deliver

\* The client's steps.
LEMMA TypeClient == ASSUME TypeOK, Client PROVE TypeOK'
<1>1. CASE Begin
  <2>1. [of |-> "first", age |-> 0, current |-> TRUE] \in Requests
    BY Times DEF Requests
  <2> QED
    BY <1>1, <2>1, Mapped, Put, Times DEF TypeOK, Begin, budgets
<1>2. CASE RecvIgnored
  BY <1>2, Taken, Times DEF TypeOK, RecvIgnored, Receive, budgets
<1>3. CASE RecvOk
  BY <1>3, Taken, Times DEF TypeOK, RecvOk, Receive, Received, Succeed, budgets
<1>4. CASE RecvChallenge
  <2>1. Received \in Responses /\ inbox' \in Seq(Responses)
    BY <1>4, Taken DEF TypeOK, RecvChallenge, Receive, Received
  <2>2. [of |-> "auth", age |-> Received.age, current |-> TRUE] \in Requests
    BY <2>1 DEF Requests, Responses
  <2> QED
    BY <1>4, <2>1, <2>2, Put, Times DEF TypeOK, RecvChallenge, Receive, budgets
<1>5. CASE RecvRejected
  BY <1>5, Taken, Times, Backoffs
     DEF TypeOK, RecvRejected, Receive, Received, Fail, budgets
<1>6. CASE TimedOut
  BY <1>6, Times, Backoffs DEF TypeOK, TimedOut, Fail, budgets
<1>7. CASE BeginFails
  <2>1. lost' \in 0..MaxLost
    BY <1>7, RegistrationAssumption DEF TypeOK, BeginFails
  <2> QED
    BY <1>7, <2>1, Times, Backoffs DEF TypeOK, BeginFails, Fail
<1>8. CASE ChallengeSendFails
  <2>1. lost' \in 0..MaxLost
    BY <1>8, RegistrationAssumption DEF TypeOK, ChallengeSendFails
  <2> QED
    BY <1>8, <2>1, Taken, Times, Backoffs
       DEF TypeOK, ChallengeSendFails, Receive, Received, Fail
<1> QED
  BY <1>1, <1>2, <1>3, <1>4, <1>5, <1>6, <1>7, <1>8 DEF Client

\* Every step.
LEMMA TypeNext == TypeOK /\ [Next]_vars => TypeOK'
<1> SUFFICES ASSUME TypeOK, [Next]_vars PROVE TypeOK'
  OBVIOUS
<1>1. \A r \in Requests, s \in Statuses : Response(r, s) \in Responses
  BY Times DEF Response, Requests, Responses
<1>2. CASE Client
  BY <1>2, TypeClient
<1>3. CASE PbxAnswers
  <2> DEFINE r == Head(toPbx)
             m == Response(r, IF Grants(r) THEN "ok" ELSE "unauthorized")
  <2>1. r \in Requests /\ Tail(toPbx) \in Seq(Requests)
    BY <1>3, Taken DEF TypeOK, PbxAnswers
  <2>2. m \in Responses
    BY <1>1, <2>1 DEF Statuses
  <2>3. Deliver(m) /\ contact' \in {contact, Ticks(Expires)}
    BY <1>3 DEF PbxAnswers
  <2>4. /\ inbox' \in Seq(Responses) /\ delayed' \in Seq(Responses)
        /\ lost' \in 0..MaxLost /\ late' \in 0..MaxLate
    BY <2>2, <2>3, TypeDeliver
  <2> HIDE DEF r, m
  <2> QED
    BY <1>3, <2>1, <2>3, <2>4, Times DEF TypeOK, PbxAnswers, clientVars, r
<1>4. CASE PbxRejects
  <2>1. Response(Head(toPbx), "rejected") \in Responses
        /\ Tail(toPbx) \in Seq(Requests)
    BY <1>1, <1>4, Taken DEF TypeOK, PbxRejects, Statuses
  <2> QED
    BY <1>4, <2>1, Put, RegistrationAssumption DEF TypeOK, PbxRejects, clientVars
<1>5. CASE RequestLost
  BY <1>5, Taken, RegistrationAssumption DEF TypeOK, RequestLost, clientVars
<1>6. CASE PbxChatters
  <2>1. [status |-> "ignored", of |-> "first", age |-> 0, current |-> FALSE]
          \in Responses
    BY Times DEF Responses, Statuses
  <2> QED
    BY <1>6, <2>1, Put, RegistrationAssumption DEF TypeOK, PbxChatters, clientVars
<1>7. CASE DelayedArrives
  BY <1>7, Taken, Put DEF TypeOK, DelayedArrives, clientVars, budgets
<1>8. CASE Tick
  <2>1. timer' \in Timers
    BY <1>8, Times, SMTT(30) DEF TypeOK, Tick
  <2>2. contact' \in 0..Ticks(Expires)
    BY <1>8, Times, SMTT(30) DEF TypeOK, Tick
  <2> QED
    BY <1>8, <2>1, <2>2, Mapped DEF TypeOK, Tick, budgets
<1>9. CASE UNCHANGED vars
  BY <1>9 DEF TypeOK, vars
<1> QED
  BY <1>2, <1>3, <1>4, <1>5, <1>6, <1>7, <1>8, <1>9 DEF Next

\* Type correctness: in particular every backoff is one of those the code names
\* and no wait exceeds the longest.
THEOREM TypeCorrect == Spec => []TypeOK
<1>1. Init => TypeOK
  BY Times, RegistrationAssumption DEF Init, TypeOK, Responses, Statuses
<1>2. TypeOK /\ [Next]_vars => TypeOK'
  BY TypeNext
<1> QED
  BY <1>1, <1>2, PTL DEF Spec

-----------------------------------------------------------------------------
(* One message at a time.                                                  *)

Quiet(msgs) == \A i \in DOMAIN msgs : msgs[i].status = "ignored"

\* A message of the exchange perform waits for.
Own(m) == m.of = phase /\ m.current

ExchangeOK ==
    /\ delayed = <<>>
    /\ phase = "asleep" \/ timer = 0 => toPbx = <<>> /\ Quiet(inbox)
    /\ toPbx # <<>> => Len(toPbx) = 1 /\ Own(toPbx[1]) /\ Quiet(inbox)
    /\ \A i \in DOMAIN inbox : inbox[i].status # "ignored" =>
         /\ Own(inbox[i])
         /\ \A j \in DOMAIN inbox : inbox[j].status # "ignored" => i = j

\* What the PBX granted and the client does not know yet is fresh; what it
\* knows is refreshed before it runs out.
GrantOK ==
    /\ \A i \in DOMAIN inbox : inbox[i].status = "ok" => contact = Ticks(Expires)
    /\ phase = "asleep" /\ outcome = "registered" => timer + 1 <= contact

ExchangeInv == TypeOK /\ (late = 0 => ExchangeOK)

RefreshInv == ExchangeInv /\ (late = 0 => GrantOK)

\* Whoever takes the one final response finds nothing else on its way.
LEMMA ReceiveDrains ==
    ASSUME TypeOK, ExchangeOK, NEW statuses, Receive(statuses),
           "ignored" \notin statuses
    PROVE  Quiet(inbox') /\ toPbx = <<>> /\ Own(Received)
<1>1. /\ inbox' = Tail(inbox) /\ Received = inbox[1] /\ 1 \in DOMAIN inbox
      /\ inbox[1].status # "ignored"
      /\ \A i \in DOMAIN Tail(inbox) : i + 1 \in DOMAIN inbox /\ i + 1 # 1
                                       /\ Tail(inbox)[i] = inbox[i + 1]
  BY Taken DEF TypeOK, Receive, Received
<1> QED
  BY <1>1 DEF ExchangeOK, Quiet

\* A response that is ignored changes nothing in the exchange.
LEMMA ReceiveIgnored ==
    ASSUME TypeOK, ExchangeOK, Receive({"ignored"}), phase' = phase, toPbx' = toPbx,
           timer' = 1
    PROVE  ExchangeOK'
<1>1. /\ inbox' = Tail(inbox) /\ delayed' = delayed /\ phase # "asleep"
      /\ \A i \in DOMAIN Tail(inbox) : i + 1 \in DOMAIN inbox
                                       /\ Tail(inbox)[i] = inbox[i + 1]
      /\ \A i, j \in DOMAIN Tail(inbox) : i + 1 = j + 1 => i = j
  <2>1. DOMAIN Tail(inbox) \subseteq Nat
    BY Taken, LenProperties DEF TypeOK, Receive
  <2> QED
    BY <2>1, Taken, SMTT(30) DEF TypeOK, Receive
<1>2. \A i \in DOMAIN inbox' : inbox'[i].status # "ignored" =>
        /\ Own(inbox[i])'
        /\ \A j \in DOMAIN inbox' : inbox'[j].status # "ignored" => i = j
  BY <1>1 DEF ExchangeOK, Own
<1>3. Quiet(inbox) => Quiet(inbox')
  BY <1>1 DEF Quiet
<1> QED
  BY <1>1, <1>2, <1>3 DEF ExchangeOK, Own

\* Adding an ignored message to the inbox changes nothing in the exchange.
LEMMA Chatter ==
    ASSUME TypeOK, ExchangeOK, NEW m \in Responses, m.status = "ignored",
           inbox' = Append(inbox, m),
           UNCHANGED <<phase, timer, toPbx, delayed>>
    PROVE  ExchangeOK'
<1>1. \A i \in DOMAIN inbox' : \/ i \in DOMAIN inbox /\ inbox'[i] = inbox[i]
                               \/ inbox'[i] = m
  BY Put DEF TypeOK
<1>2. Quiet(inbox) => Quiet(inbox')
  BY <1>1 DEF Quiet
<1>3. \A i \in DOMAIN inbox' : inbox'[i].status # "ignored" =>
        /\ Own(inbox[i])'
        /\ \A j \in DOMAIN inbox' : inbox'[j].status # "ignored" => i = j
  BY <1>1 DEF ExchangeOK, Own
<1> QED
  BY <1>2, <1>3 DEF ExchangeOK, Own

\* The client goes to sleep, or to its second request.
LEMMA Moves ==
    ASSUME delayed' = <<>>, Quiet(inbox'),
           \/ toPbx' = <<>>
           \/ /\ phase' # "asleep" /\ timer' # 0
              /\ Len(toPbx') = 1 /\ Own(toPbx[1])'
    PROVE  ExchangeOK'
BY DEF ExchangeOK, Quiet

\* The client's steps.
LEMMA ExchangeClient ==
    ASSUME TypeOK, ExchangeOK, Client PROVE ExchangeOK'
<1>1. CASE Begin
  <2>1. /\ toPbx = <<>> /\ delayed = <<>> /\ Quiet(inbox) /\ phase' = "first"
    BY <1>1 DEF ExchangeOK, Begin
  <2>2. toPbx' = <<[of |-> "first", age |-> 0, current |-> TRUE]>> /\ delayed' = <<>>
    <3>1. Older(toPbx) = <<>> /\ Older(delayed) = <<>>
      BY <2>1, Mapped
    <3> QED
      BY <1>1, <3>1 DEF Begin
  <2>3. Quiet(inbox')
    BY <1>1, <2>1, Mapped DEF Begin, Quiet, TypeOK
  <2>4. Own(toPbx[1])' /\ Len(toPbx') = 1
    BY <2>1, <2>2 DEF Own
  <2> QED
    BY <1>1, <2>2, <2>3, <2>4, Moves DEF Begin
<1>2. CASE RecvIgnored
  BY <1>2, ReceiveIgnored DEF RecvIgnored
<1>3. CASE RecvOk
  BY <1>3, ReceiveDrains, Moves DEF RecvOk, Receive, ExchangeOK
<1>4. CASE RecvChallenge
  <2>1. Quiet(inbox') /\ toPbx = <<>> /\ phase' = "auth" /\ delayed' = <<>>
    BY <1>4, ReceiveDrains DEF RecvChallenge, Receive, ExchangeOK
  <2>2. toPbx' = <<[of |-> "auth", age |-> Received.age, current |-> TRUE]>>
    BY <1>4, <2>1 DEF RecvChallenge
  <2>3. Own(toPbx[1])' /\ Len(toPbx') = 1
    BY <2>1, <2>2 DEF Own
  <2> QED
    BY <1>4, <2>1, <2>3, Moves DEF RecvChallenge
<1>5. CASE RecvRejected
  <2>1. PICK statuses : Receive(statuses) /\ "ignored" \notin statuses
    BY <1>5 DEF RecvRejected
  <2> QED
    BY <1>5, <2>1, ReceiveDrains, Moves DEF RecvRejected, Receive, ExchangeOK
<1>6. CASE TimedOut
  BY <1>6, Moves DEF TimedOut, ExchangeOK
<1>7. CASE BeginFails
  BY <1>7, Moves DEF BeginFails, ExchangeOK
<1>8. CASE ChallengeSendFails
  <2>1. Receive({"unauthorized"}) /\ "ignored" \notin {"unauthorized"}
    BY <1>8 DEF ChallengeSendFails
  <2> QED
    BY <1>8, <2>1, ReceiveDrains, Moves DEF ChallengeSendFails, Receive, ExchangeOK
<1> QED
  BY <1>1, <1>2, <1>3, <1>4, <1>5, <1>6, <1>7, <1>8 DEF Client

\* The one request becomes the one response, or is gone.
LEMMA ExchangeAnswer ==
    ASSUME TypeOK, ExchangeOK, toPbx # <<>>, toPbx' = Tail(toPbx),
           UNCHANGED <<phase, timer, delayed>>, NEW m \in Responses,
           m.of = Head(toPbx).of, m.current = Head(toPbx).current,
           inbox' = Append(inbox, m) \/ inbox' = inbox
    PROVE  ExchangeOK'
<1>1. /\ Quiet(inbox) /\ Own(toPbx[1]) /\ Head(toPbx) = toPbx[1]
      /\ phase # "asleep" /\ timer # 0 /\ delayed = <<>>
      /\ toPbx' \in Seq(Requests) /\ Len(toPbx') = 0
  BY Taken DEF ExchangeOK, TypeOK
<1>2. toPbx' = <<>>
  BY <1>1, EmptySeq
<1>3. \A i \in DOMAIN inbox' :
        \/ i \in DOMAIN inbox /\ inbox'[i] = inbox[i]
        \/ inbox'[i] = m /\ i = Len(inbox) + 1
  <2>1. inbox \in Seq(Responses)
    BY DEF TypeOK
  <2>2. CASE inbox' = Append(inbox, m)
    BY <2>1, <2>2, Put
  <2> QED
    BY <2>2
<1>4. \A i \in DOMAIN inbox' : inbox'[i].status # "ignored" =>
        inbox'[i] = m /\ i = Len(inbox) + 1
  BY <1>1, <1>3 DEF Quiet
<1>5. \A i \in DOMAIN inbox' : inbox'[i].status # "ignored" => Own(inbox[i])'
  BY <1>1, <1>4 DEF Own
<1> QED
  BY <1>1, <1>2, <1>4, <1>5 DEF ExchangeOK

\* Every step, as long as no response is late.
LEMMA ExchangeNext ==
    ASSUME TypeOK, ExchangeOK, [Next]_vars, late' = 0 PROVE ExchangeOK'
<1>1. \A r \in Requests, t \in Statuses :
        /\ Response(r, t) \in Responses
        /\ Response(r, t).of = r.of /\ Response(r, t).current = r.current
  BY Times DEF Response, Requests, Responses
<1>2. toPbx # <<>> => Head(toPbx) \in Requests
  BY Taken DEF TypeOK
<1>3. CASE Client
  BY <1>3, ExchangeClient
<1>4. CASE PbxAnswers
  <2>1. PICK t \in Statuses : Deliver(Response(Head(toPbx), t))
    BY <1>4 DEF PbxAnswers, Statuses
  <2>2. /\ delayed' = delayed
        /\ \/ inbox' = Append(inbox, Response(Head(toPbx), t))
           \/ inbox' = inbox
    BY <2>1, RegistrationAssumption DEF Deliver, TypeOK
  <2> QED
    BY <1>1, <1>2, <1>4, <2>2, ExchangeAnswer DEF PbxAnswers, clientVars
<1>5. CASE PbxRejects
  BY <1>1, <1>2, <1>5, ExchangeAnswer DEF PbxRejects, clientVars, Statuses
<1>6. CASE RequestLost
  <2>1. Response(Head(toPbx), "rejected") \in Responses
    BY <1>1, <1>2, <1>6 DEF RequestLost, Statuses
  <2> QED
    BY <1>1, <1>2, <1>6, <2>1, ExchangeAnswer
       DEF RequestLost, clientVars, Statuses
<1>7. CASE PbxChatters
  <2>1. [status |-> "ignored", of |-> "first", age |-> 0, current |-> FALSE]
          \in Responses
    BY Times DEF Responses, Statuses
  <2> QED
    BY <1>7, <2>1, Chatter DEF PbxChatters, clientVars
<1>8. CASE DelayedArrives
  BY <1>8 DEF DelayedArrives, ExchangeOK
<1>9. CASE Tick
  <2>1. delayed' = <<>> /\ toPbx' = <<>> /\ phase' = phase
    BY <1>9, Mapped DEF Tick, ExchangeOK
  <2>2. Quiet(inbox)
    BY <1>9 DEF Tick, ExchangeOK, Quiet
  <2>3. Quiet(inbox')
    BY <1>9, <2>2, Mapped DEF Tick, TypeOK, Quiet
  <2> QED
    BY <2>1, <2>3, Moves
<1>10. CASE UNCHANGED vars
  BY <1>10 DEF vars, ExchangeOK, Own, Quiet
<1> QED
  BY <1>3, <1>4, <1>5, <1>6, <1>7, <1>8, <1>9, <1>10 DEF Next

\* No response becomes late and then is not.
LEMMA LateStays == ASSUME TypeOK, [Next]_vars, late' = 0 PROVE late = 0
BY RegistrationAssumption
   DEF TypeOK, Next, vars, Client, Begin, BeginFails, RecvIgnored, RecvOk,
       RecvChallenge, ChallengeSendFails, Fail, RecvRejected, TimedOut, Receive,
       PbxAnswers, PbxRejects, RequestLost,
       PbxChatters, DelayedArrives, Tick, Deliver, budgets

\* ExchangeInv is inductive.
LEMMA ExchangeInductive ==
    /\ Init => ExchangeInv
    /\ ExchangeInv /\ [Next]_vars => ExchangeInv'
<1>1. Init => TypeOK
  BY Times, RegistrationAssumption DEF Init, TypeOK, Responses, Statuses
<1>2. Init => ExchangeOK
  BY DEF Init, ExchangeOK, Quiet
<1>3. ExchangeInv /\ [Next]_vars => ExchangeInv'
  BY TypeNext, LateStays, ExchangeNext DEF ExchangeInv
<1> QED
  BY <1>1, <1>2, <1>3 DEF ExchangeInv

\* As long as no answer is late, perform acts on the answer to the request it
\* has sent last, of the attempt it is in.
THEOREM OwnAnswers == Spec => ActsOnItsOwnAnswers
<1>1. ASSUME ExchangeInv, [Next]_vars
      PROVE  acted' # acted /\ late = 0 => acted'.current /\ acted'.of = phase
  <2> SUFFICES ASSUME acted' # acted, late = 0
               PROVE  acted'.current /\ acted'.of = phase
    OBVIOUS
  <2>1. RecvOk \/ RecvChallenge \/ ChallengeSendFails \/ RecvRejected
    BY <1>1 DEF Next, Client, vars, clientVars, Begin, BeginFails, RecvIgnored,
                TimedOut, PbxAnswers, PbxRejects, RequestLost, PbxChatters,
                DelayedArrives, Tick
  <2>2. PICK statuses : /\ Receive(statuses) /\ "ignored" \notin statuses
                        /\ acted' = Received
    BY <2>1 DEF RecvOk, RecvChallenge, ChallengeSendFails, RecvRejected
  <2> QED
    BY <1>1, <2>2, ReceiveDrains DEF ExchangeInv, Own
<1>2. ExchangeInv /\ [Next]_vars =>
        [acted' # acted /\ late = 0 => acted'.current /\ acted'.of = phase]_vars
  BY <1>1
<1> QED
  BY <1>2, ExchangeInductive, PTL DEF Spec, ActsOnItsOwnAnswers

-----------------------------------------------------------------------------
(* In time.                                                                *)

\* sip_client.rs:40-41 wants the refresh no later than 5 s before the contact
\* expires and no sooner than 30 s: both at once need a grant of 35 s.
LEMMA Margin == Expires >= 35 => Ticks(RefreshIn(Expires)) + 1 <= Ticks(Expires)
<1>1. Expires \in Nat
  BY RegistrationAssumption
<1>2. ASSUME Expires >= 35
      PROVE  RefreshIn(Expires) \in Nat /\ RefreshIn(Expires) + 5 <= Expires
  BY <1>1, <1>2 DEF RefreshIn, Greatest, Least
<1>3. \A r, e \in Nat : r + 5 <= e => Ticks(r) + 1 <= Ticks(e)
  BY DEF Ticks, TickSeconds
<1> QED
  BY <1>1, <1>2, <1>3

\* Every step, as long as no response is late.
LEMMA GrantNext ==
    ASSUME TypeOK, ExchangeOK, GrantOK, [Next]_vars, late' = 0, Expires >= 35
    PROVE  GrantOK'
<1>1. TypeOK'
  BY TypeNext
<1>2. ASSUME NEW statuses, Receive(statuses)
      PROVE  /\ \A i \in DOMAIN inbox' : i + 1 \in DOMAIN inbox /\ inbox'[i] = inbox[i + 1]
             /\ contact' = contact
  BY <1>2, Taken DEF TypeOK, Receive
<1>3. CASE Begin
  BY <1>3, Mapped DEF Begin, GrantOK, TypeOK
<1>4. CASE RecvIgnored
  BY <1>2, <1>4 DEF RecvIgnored, GrantOK, Receive
<1>5. CASE RecvOk
  <2>1. Received = inbox[1] /\ 1 \in DOMAIN inbox /\ inbox[1].status = "ok"
    BY <1>5, Taken DEF RecvOk, Receive, Received, TypeOK
  <2>2. contact' = Ticks(Expires)
    BY <1>5, <2>1 DEF RecvOk, Receive, GrantOK
  <2> QED
    BY <1>2, <1>5, <2>2, Margin DEF RecvOk, Succeed, GrantOK
<1>6. CASE RecvChallenge
  BY <1>2, <1>6 DEF RecvChallenge, GrantOK
<1>7. CASE RecvRejected
  BY <1>2, <1>7 DEF RecvRejected, Fail, GrantOK
<1>8. CASE TimedOut
  BY <1>8 DEF TimedOut, Fail, GrantOK
<1>9. CASE PbxAnswers
  <2>1. phase # "asleep" /\ Quiet(inbox)
    BY <1>9 DEF PbxAnswers, ExchangeOK
  <2>2. PICK m : /\ Deliver(m)
                 /\ m.status = "ok" => contact' = Ticks(Expires)
                 /\ m \in Responses
    <3>1. Head(toPbx) \in Requests
      BY <1>9, Taken DEF PbxAnswers, TypeOK
    <3> QED
      BY <1>9, <3>1, Times DEF PbxAnswers, Response, Requests, Responses, Statuses
  <2>3. \A i \in DOMAIN inbox' : inbox'[i].status = "ok" => inbox'[i] = m
    <3>1. inbox' = inbox \/ inbox' = Append(inbox, m)
      BY <2>2 DEF Deliver
    <3>2. \A i \in DOMAIN Append(inbox, m) :
            \/ i \in DOMAIN inbox /\ Append(inbox, m)[i] = inbox[i]
            \/ Append(inbox, m)[i] = m
      BY <2>2, Put DEF TypeOK
    <3> QED
      BY <2>1, <3>1, <3>2 DEF Quiet
  <2> QED
    BY <1>9, <2>1, <2>2, <2>3 DEF PbxAnswers, clientVars, GrantOK
<1>10. ASSUME NEW m \in Responses, m.status # "ok", inbox' = Append(inbox, m),
              UNCHANGED <<phase, timer, outcome, contact>>
       PROVE  GrantOK'
  <2>1. \A i \in DOMAIN inbox' : \/ i \in DOMAIN inbox /\ inbox'[i] = inbox[i]
                                 \/ inbox'[i] = m
    BY <1>10, Put DEF TypeOK
  <2> QED
    BY <1>10, <2>1 DEF GrantOK
<1>11. CASE PbxRejects
  <2>1. /\ Response(Head(toPbx), "rejected") \in Responses
        /\ Response(Head(toPbx), "rejected").status # "ok"
    <3>1. Head(toPbx) \in Requests
      BY <1>11, Taken DEF PbxRejects, TypeOK
    <3> QED
      BY <3>1, Times DEF Response, Requests, Responses, Statuses
  <2> QED
    BY <1>10, <1>11, <2>1 DEF PbxRejects, clientVars
<1>12. CASE RequestLost
  BY <1>12 DEF RequestLost, clientVars, GrantOK
<1>13. CASE PbxChatters
  <2>1. [status |-> "ignored", of |-> "first", age |-> 0, current |-> FALSE]
          \in Responses
    BY Times DEF Responses, Statuses
  <2> QED
    BY <1>10, <1>13, <2>1 DEF PbxChatters, clientVars
<1>14. CASE DelayedArrives
  BY <1>14 DEF DelayedArrives, ExchangeOK
<1>15. CASE Tick
  <2>1. Quiet(inbox)
    BY <1>15 DEF Tick, ExchangeOK, Quiet
  <2>2. \A i \in DOMAIN inbox' : inbox'[i].status # "ok"
    BY <1>15, <2>1, Mapped DEF Tick, Quiet, TypeOK
  <2>3. timer \in Nat /\ contact \in Nat
    BY Times DEF TypeOK, Timers
  <2>4. phase' = phase /\ outcome' = outcome /\ timer' = timer - 1 /\ timer > 0
        /\ contact' = IF contact = 0 THEN 0 ELSE contact - 1
    BY <1>15 DEF Tick
  <2> QED
    BY <2>2, <2>3, <2>4 DEF GrantOK
<1>16. CASE UNCHANGED vars
  BY <1>16 DEF vars, GrantOK
<1>17. CASE BeginFails
  BY <1>17 DEF BeginFails, Fail, GrantOK
<1>18. CASE ChallengeSendFails
  BY <1>2, <1>18 DEF ChallengeSendFails, Fail, GrantOK
<1> QED
  BY <1>3, <1>4, <1>5, <1>6, <1>7, <1>8, <1>9, <1>11, <1>12, <1>13, <1>14, <1>15,
     <1>16, <1>17, <1>18 DEF Next, Client

\* As long as no answer is late, the client that believes it is registered is,
\* and refreshes the contact at least 5 s before it expires, whenever the PBX
\* grants enough for the two bounds of sip_client.rs:40-41 to be compatible.
THEOREM RefreshInTime == ASSUME Expires >= 35 PROVE Spec => []RefreshBeforeExpiry
<1>1. Init => RefreshInv
  BY ExchangeInductive DEF Init, RefreshInv, GrantOK
<1>2. RefreshInv /\ [Next]_vars => RefreshInv'
  BY ExchangeInductive, LateStays, GrantNext DEF RefreshInv, ExchangeInv
<1>3. RefreshInv => RefreshBeforeExpiry
  BY DEF RefreshInv, GrantOK, RefreshBeforeExpiry
<1> QED
  BY <1>1, <1>2, <1>3, PTL DEF Spec

-----------------------------------------------------------------------------
(* SipAuth.  Inductions, and what Min and Max are.                         *)

\* A set of naturals has a least element: WFMin, which is no theorem about an
\* operator, so that it can be cited.  Every induction below goes through it.
LEMMA LeastElement ==
  ASSUME NEW S \in SUBSET Nat, S # {}
  PROVE  \E m \in S : \A k \in S : m <= k
<1>1. \E m \in S : \A k \in S : ~(<<k, m>> \in OpToRel(<, Nat))
  BY NatLessThanWellFounded, WFMin
<1>2. \A k, m \in S : k < m => <<k, m>> \in OpToRel(<, Nat)
  BY DEF OpToRel
<1>3. \E m \in S : \A k \in S : ~(k < m)
  BY <1>1, <1>2, Zenon
<1> QED
  BY ONLY <1>3, S \in SUBSET Nat

\* Induction over the naturals, for the set of those that have the property.
LEMMA SetInduction ==
  ASSUME NEW S, 0 \in S, \A n \in Nat : n \in S => n + 1 \in S
  PROVE  \A n \in Nat : n \in S
<1> SUFFICES ASSUME Nat \ S # {} PROVE FALSE
  OBVIOUS
<1>1. PICK m \in Nat \ S : \A k \in Nat \ S : m <= k
  BY LeastElement
<1>2. m # 0 /\ m - 1 \in Nat
  BY <1>1
<1>3. m - 1 \in S
  BY <1>1, <1>2
<1>4. (m - 1) + 1 \in S
  BY <1>2, <1>3
<1> QED
  BY <1>1, <1>4

\* What Min, a CHOOSE, is, once the minimum is known.
LEMMA MinIs ==
  ASSUME NEW S \in SUBSET Nat, NEW m \in S, \A k \in S : m <= k
  PROVE  Min(S) = m
<1>1. \A x, y \in S : x <= y /\ y <= x => x = y
  OBVIOUS
<1>2. PICK x : x = Min(S)
  OBVIOUS
<1>3. x \in S /\ \A y \in S : x <= y
  BY <1>2, Zenon DEF Min
<1> QED
  BY <1>1, <1>2, <1>3

\* The same of Max.
LEMMA MaxIs ==
  ASSUME NEW S \in SUBSET Nat, NEW m \in S, \A k \in S : k <= m
  PROVE  Max(S) = m
<1>1. \A x, y \in S : x >= y /\ y >= x => x = y
  OBVIOUS
<1>2. PICK x : x = Max(S)
  OBVIOUS
<1>3. \A k \in S : m >= k
  OBVIOUS
<1>4. x \in S /\ \A y \in S : x >= y
  BY <1>2, <1>3, Zenon DEF Max
<1> QED
  BY <1>1, <1>2, <1>4, <1>3

-----------------------------------------------------------------------------
(* Where Find and Skip stop, and what Trim leaves.                         *)

\* Where Find stops, for who knows the place.
LEMMA FindIs ==
  ASSUME NEW s, NEW T, Len(s) \in Nat, NEW i \in Nat, NEW e \in i..(Len(s) + 1),
         \A j \in i..(e - 1) : s[j] \notin T,
         e <= Len(s) => s[e] \in T
  PROVE  Find(s, i, T) = e
<1> DEFINE S == {Len(s) + 1} \cup {j \in i..Len(s) : s[j] \in T}
<1>1. S \in SUBSET Nat /\ e \in S
  OBVIOUS
<1>2. \A k \in S : e <= k
  OBVIOUS
<1>3. Min(S) = e
  BY <1>1, <1>2, MinIs
<1> QED
  BY <1>3 DEF Find

\* The same of Skip.
LEMMA SkipIs ==
  ASSUME NEW s, NEW T, Len(s) \in Nat, NEW i \in Nat, NEW e \in i..(Len(s) + 1),
         \A j \in i..(e - 1) : s[j] \in T,
         e <= Len(s) => s[e] \notin T
  PROVE  Skip(s, i, T) = e
<1> DEFINE S == {Len(s) + 1} \cup {j \in i..Len(s) : s[j] \notin T}
<1>1. S \in SUBSET Nat /\ e \in S
  OBVIOUS
<1>2. \A k \in S : e <= k
  OBVIOUS
<1>3. Min(S) = e
  BY <1>1, <1>2, MinIs
<1> QED
  BY <1>3 DEF Skip

\* Where Find stops, for who does not: in the text or one past its end.
LEMMA FindStops ==
  ASSUME NEW s, NEW T, Len(s) \in Nat, NEW i \in Nat, i <= Len(s) + 1
  PROVE  /\ Find(s, i, T) \in i..(Len(s) + 1)
         /\ \A j \in i..(Find(s, i, T) - 1) : s[j] \notin T
         /\ Find(s, i, T) <= Len(s) => s[Find(s, i, T)] \in T
<1> DEFINE S == {Len(s) + 1} \cup {j \in i..Len(s) : s[j] \in T}
<1>1. S \in SUBSET Nat /\ S # {}
  OBVIOUS
<1>2. PICK e \in S : \A k \in S : e <= k
  BY <1>1, LeastElement
<1>3. Min(S) = e
  BY <1>1, <1>2, MinIs
<1>4. Find(s, i, T) = e
  BY <1>3 DEF Find
<1>5. e \in i..(Len(s) + 1) /\ (e <= Len(s) => s[e] \in T)
  BY <1>2
<1>6. \A j \in i..(e - 1) : s[j] \notin T
  BY <1>2, <1>5
<1> QED
  BY <1>4, <1>5, <1>6

\* The same of Skip.
LEMMA SkipStops ==
  ASSUME NEW s, NEW T, Len(s) \in Nat, NEW i \in Nat, i <= Len(s) + 1
  PROVE  /\ Skip(s, i, T) \in i..(Len(s) + 1)
         /\ \A j \in i..(Skip(s, i, T) - 1) : s[j] \in T
         /\ Skip(s, i, T) <= Len(s) => s[Skip(s, i, T)] \notin T
<1> DEFINE S == {Len(s) + 1} \cup {j \in i..Len(s) : s[j] \notin T}
<1>1. S \in SUBSET Nat /\ S # {}
  OBVIOUS
<1>2. PICK e \in S : \A k \in S : e <= k
  BY <1>1, LeastElement
<1>3. Min(S) = e
  BY <1>1, <1>2, MinIs
<1>4. Skip(s, i, T) = e
  BY <1>3 DEF Skip
<1>5. e \in i..(Len(s) + 1) /\ (e <= Len(s) => s[e] \notin T)
  BY <1>2
<1>6. \A j \in i..(e - 1) : s[j] \in T
  BY <1>2, <1>5
<1> QED
  BY <1>4, <1>5, <1>6

\* Trim takes the blanks off both ends.
LEMMA TrimIs ==
  ASSUME NEW s, Len(s) \in Nat, DOMAIN s = 1..Len(s), NEW a \in 1..Len(s), NEW b \in a..Len(s),
         \A j \in 1..(a - 1) : s[j] \in Blank,
         \A j \in (b + 1)..Len(s) : s[j] \in Blank,
         s[a] \notin Blank, s[b] \notin Blank
  PROVE  Trim(s) = SubSeq(s, a, b)
<1> DEFINE S == {j \in DOMAIN s : s[j] \notin Blank}
<1>1. S \in SUBSET Nat /\ a \in S /\ b \in S
  OBVIOUS
<1>2. \A k \in S : a <= k /\ k <= b
  <2> SUFFICES ASSUME NEW k \in S PROVE a <= k /\ k <= b
    OBVIOUS
  <2>1. k \in 1..Len(s) /\ s[k] \notin Blank
    OBVIOUS
  <2>2. k \notin 1..(a - 1) /\ k \notin (b + 1)..Len(s)
    BY <2>1
  <2> QED
    BY <2>1, <2>2
<1>3. Min(S) = a /\ Max(S) = b
  BY <1>1, <1>2, MinIs, MaxIs
<1>4. S # {}
  BY <1>1
<1> HIDE DEF S
<1> QED
  BY <1>3, <1>4 DEF Trim, S

-----------------------------------------------------------------------------
(* The loop of parse_params ends, whatever the text.                       *)

\* The parser never goes back when it reads a value.
LEMMA ValueAtAdvances ==
  ASSUME NEW s, Len(s) \in Nat, NEW i \in 1..(Len(s) + 1)
  PROVE  ValueAt(s, i).next \in i..(Len(s) + 1)
<1>1. CASE i <= Len(s) /\ s[i] = Quote
  <2>1. PICK end : end = Find(s, i + 1, {Quote})
    OBVIOUS
  <2>2. end \in (i + 1)..(Len(s) + 1)
    BY <1>1, <2>1, FindStops
  <2>3. PICK last : last = Min({end, Len(s)})
    OBVIOUS
  <2>4. last \in i..Len(s)
    <3>1. {end, Len(s)} \in SUBSET Nat
      BY <2>2
    <3>2. end <= Len(s) => last = end
      BY <2>2, <2>3, <3>1, MinIs
    <3>3. Len(s) <= end => last = Len(s)
      BY <2>2, <2>3, <3>1, MinIs, SMTT(30)
    <3> QED
      BY <1>1, <2>2, <3>2, <3>3
  <2>5. ValueAt(s, i).next = last + 1
    BY <1>1, <2>1, <2>3 DEF ValueAt
  <2> QED
    BY <2>4, <2>5
<1>2. CASE ~(i <= Len(s) /\ s[i] = Quote)
  <2>1. ValueAt(s, i).next = Find(s, i, {Comma})
    BY <1>2 DEF ValueAt
  <2>2. Find(s, i, {Comma}) \in i..(Len(s) + 1)
    BY FindStops
  <2> QED
    BY <2>1, <2>2
<1> QED
  BY <1>1, <1>2

\* A round takes at least one token, and the key it reads is part of the text.
LEMMA RoundAdvances ==
  ASSUME NEW s, Len(s) \in Nat, NEW i \in 1..Len(s)
  PROVE  /\ Round(s, i).next \in (i + 1)..(Len(s) + 1)
         /\ \/ Round(s, i).pairs = <<>>
            \/ \E a, b \in 1..(Len(s) + 1) : \E v :
                 Round(s, i).pairs = <<[key |-> Lower(Trim(SubSeq(s, a, b - 1))), value |-> v]>>
<1>1. PICK start : start = Skip(s, i, Gap)
  OBVIOUS
<1>2. PICK stop : stop = Find(s, start, {Equals, Comma})
  OBVIOUS
<1>3. PICK at : at = Skip(s, stop + 1, {Space})
  OBVIOUS
<1>4. start \in i..(Len(s) + 1)
  BY <1>1, SkipStops
<1>5. stop \in start..(Len(s) + 1)
  BY <1>2, <1>4, FindStops
<1>6. stop > Len(s) \/ s[stop] = Comma => stop > i
  <2>1. start <= Len(s) => s[start] # Comma
    BY <1>1, SkipStops DEF Gap
  <2>2. CASE stop > Len(s)
    BY <1>4, <1>5, <2>2
  <2>3. CASE stop <= Len(s) /\ s[stop] = Comma
    <3>1. stop # start
      BY <2>1, <2>3
    <3> QED
      BY <1>4, <1>5, <3>1
  <2> QED
    BY <1>5, <2>2, <2>3
<1>7. CASE stop > Len(s) \/ s[stop] = Comma
  <2>1. stop > i
    BY <1>4, <1>5, <1>7, <1>6
  <2>2. Round(s, i) = [pairs |-> <<>>, next |-> stop]
    BY <1>1, <1>2, <1>7 DEF Round
  <2> QED
    BY <1>4, <1>5, <2>1, <2>2
<1>8. CASE ~(stop > Len(s) \/ s[stop] = Comma)
  <2>1. at \in (stop + 1)..(Len(s) + 1)
    BY <1>3, <1>4, <1>5, <1>8, SkipStops
  <2>2. PICK next : next = ValueAt(s, at).next
    OBVIOUS
  <2>3. next \in at..(Len(s) + 1)
    BY <1>4, <1>5, <2>1, <2>2, ValueAtAdvances
  <2>4. Round(s, i) = [pairs |-> <<[key |-> Lower(Trim(SubSeq(s, start, stop - 1))),
                                    value |-> ValueAt(s, at).value]>>,
                       next |-> next]
    BY <1>1, <1>2, <1>3, <1>8, <2>2 DEF Round
  <2>5. start \in 1..(Len(s) + 1) /\ stop \in 1..(Len(s) + 1)
    BY <1>4, <1>5
  <2>6. next \in (i + 1)..(Len(s) + 1)
    BY <1>4, <1>5, <2>1, <2>3
  <2>7. \E a, b \in 1..(Len(s) + 1) : \E v :
           Round(s, i).pairs = <<[key |-> Lower(Trim(SubSeq(s, a, b - 1))), value |-> v]>>
    <3>1. Round(s, i).pairs = <<[key |-> Lower(Trim(SubSeq(s, start, stop - 1))),
                                 value |-> ValueAt(s, at).value]>>
      BY <2>4
    <3> QED
      BY <2>5, <3>1, Zenon
  <2>8. Round(s, i).next \in (i + 1)..(Len(s) + 1)
    BY <2>4, <2>6
  <2> QED
    BY <2>7, <2>8, Zenon
<1> QED
  BY <1>7, <1>8

\* What ParseParams collects from position k on.
CollectsFrom(s, k, from) ==
    from = [i \in k..(Len(s) + 1) |->
              IF i > Len(s) THEN <<>> ELSE Round(s, i).pairs \o from[Round(s, i).next]]

\* The positions where that is defined are reached from the end of the text.
LEMMA CollectsBackwards ==
  ASSUME NEW s, Len(s) \in Nat, NEW k \in 1..Len(s), NEW g, CollectsFrom(s, k + 1, g)
  PROVE  \E h : CollectsFrom(s, k, h)
<1> DEFINE N == Len(s)
           h == [i \in k..(N + 1) |-> IF i = k THEN Round(s, k).pairs \o g[Round(s, k).next]
                                      ELSE g[i]]
<1>1. \A i \in (k + 1)..(N + 1) : h[i] = g[i]
  OBVIOUS
<1>2. \A i \in k..N : Round(s, i).next \in (k + 1)..(N + 1)
  <2>1. \A i \in k..N : Round(s, i).next \in (i + 1)..(N + 1)
    BY RoundAdvances
  <2> QED
    BY <2>1
<1>3. \A i \in k..N : h[Round(s, i).next] = g[Round(s, i).next]
  BY <1>1, <1>2
<1>4. \A i \in (k + 1)..(N + 1) : g[i] = IF i > N THEN <<>>
                                         ELSE Round(s, i).pairs \o g[Round(s, i).next]
  BY DEF CollectsFrom
<1>5. h[k] = Round(s, k).pairs \o g[Round(s, k).next]
  <2>1. k \in k..(N + 1)
    OBVIOUS
  <2> QED
    BY <2>1, Zenon
<1>6. h = [i \in k..(N + 1) |-> h[i]]
  OBVIOUS
<1> HIDE DEF h
<1>7. ASSUME NEW i \in k..(N + 1)
      PROVE  h[i] = IF i > N THEN <<>> ELSE Round(s, i).pairs \o h[Round(s, i).next]
  <2>1. CASE i = k
    <3>1. ~(k > N) /\ h[Round(s, k).next] = g[Round(s, k).next]
      BY <1>3
    <3> QED
      BY <1>5, <2>1, <3>1, Zenon
  <2>2. CASE i # k
    BY <1>1, <1>3, <1>4, <2>2
  <2> QED
    BY <2>1, <2>2
<1>8. CollectsFrom(s, k, h)
  BY <1>6, <1>7 DEF CollectsFrom
<1> QED
  BY <1>8

\* parse_params ends, whatever the text: each round of its loop starts after the
\* one before (registration.rs:223-267), so the recursion that models it defines a value.
THEOREM ParserTerminates ==
  ASSUME NEW s, Len(s) \in Nat
  PROVE  \E from : CollectsFrom(s, 1, from) /\ ParseParams(s) = from[1]
<1> DEFINE S == {m \in Nat : m <= Len(s) => \E g : CollectsFrom(s, Len(s) + 1 - m, g)}
<1>1. 0 \in S
  <2>1. CollectsFrom(s, Len(s) + 1, [i \in (Len(s) + 1)..(Len(s) + 1) |-> <<>>])
    <3>1. \A i \in (Len(s) + 1)..(Len(s) + 1) : i > Len(s)
      OBVIOUS
    <3> QED
      BY <3>1, Zenon DEF CollectsFrom
  <2>2. Len(s) + 1 - 0 = Len(s) + 1
    OBVIOUS
  <2>3. \E g : CollectsFrom(s, Len(s) + 1 - 0, g)
    BY <2>1, <2>2, Zenon
  <2> QED
    BY <2>3
<1>2. ASSUME NEW m \in Nat, m \in S PROVE m + 1 \in S
  <2>1. SUFFICES ASSUME m + 1 <= Len(s) PROVE \E g : CollectsFrom(s, Len(s) + 1 - (m + 1), g)
    OBVIOUS
  <2>2. \E g : CollectsFrom(s, Len(s) + 1 - m, g)
    BY <1>2, <2>1
  <2>3. Len(s) - m \in 1..Len(s) /\ Len(s) + 1 - m = (Len(s) - m) + 1
        /\ Len(s) + 1 - (m + 1) = Len(s) - m
    BY <2>1
  <2>4. PICK g : CollectsFrom(s, (Len(s) - m) + 1, g)
    BY <2>2, <2>3, Zenon
  <2>5. \E h : CollectsFrom(s, Len(s) - m, h)
    BY <2>3, <2>4, CollectsBackwards, Zenon
  <2> QED
    BY <2>3, <2>5, Zenon
<1>3. Len(s) \in S
  <2> HIDE DEF S
  <2> QED
    BY <1>1, <1>2, SetInduction
<1>4. \E g : CollectsFrom(s, Len(s) + 1 - Len(s), g)
  BY <1>3
<1>5. \E g : CollectsFrom(s, 1, g)
  <2>1. Len(s) + 1 - Len(s) = 1
    OBVIOUS
  <2> QED
    BY <1>4, <2>1, Zenon
<1> DEFINE f == CHOOSE g : g = [i \in 1..(Len(s) + 1) |->
              IF i > Len(s) THEN <<>> ELSE Round(s, i).pairs \o g[Round(s, i).next]]
<1>6. ParseParams(s) = f[1]
  BY DEF ParseParams
<1>7. CollectsFrom(s, 1, f)
  BY <1>5, Zenon DEF CollectsFrom
<1> QED
  BY <1>6, <1>7, Zenon

-----------------------------------------------------------------------------
(* Where FlattenSeq puts the elements.                                     *)

\* flat is the first m pieces one after the other, the i-th from off[i - 1] on.
Laid(T, pieces, m, flat, off) ==
    /\ flat \in Seq(T) /\ off \in [0..m -> Nat]
    /\ off[0] = 0 /\ off[m] = Len(flat)
    /\ \A i \in 1..m : off[i] = off[i - 1] + Len(pieces[i]) /\ off[i] <= off[m]
    /\ \A i \in 1..m : \A j \in 1..Len(pieces[i]) : flat[off[i - 1] + j] = pieces[i][j]
    /\ \A q \in 1..Len(flat) : \E i \in 1..m : \E j \in 1..Len(pieces[i]) : q = off[i - 1] + j

\* The layout of m + 1 pieces, from that of m.
LEMMA OneMorePiece ==
  ASSUME NEW T, NEW m \in Nat, NEW pieces, pieces[m + 1] \in Seq(T),
         \A i \in 1..m : pieces[i] \in Seq(T),
         NEW flat, NEW off, Laid(T, pieces, m, flat, off)
  PROVE  \E more : Laid(T, pieces, m + 1, flat \o pieces[m + 1], more)
<1> DEFINE p == pieces[m + 1]
           longer == flat \o p
           more == [i \in 0..(m + 1) |-> IF i = m + 1 THEN off[m] + Len(p) ELSE off[i]]
<1>1. /\ flat \in Seq(T) /\ off \in [0..m -> Nat] /\ p \in Seq(T)
      /\ off[0] = 0 /\ off[m] = Len(flat)
      /\ \A i \in 1..m : off[i] = off[i - 1] + Len(pieces[i]) /\ off[i] <= off[m]
  BY DEF Laid
<1>2. /\ longer \in Seq(T) /\ Len(longer) = Len(flat) + Len(p)
      /\ \A q \in 1..Len(flat) : longer[q] = flat[q]
      /\ \A j \in 1..Len(p) : longer[Len(flat) + j] = p[j]
  BY <1>1
<1>3. /\ more \in [0..(m + 1) -> Nat] /\ more[m + 1] = off[m] + Len(p)
      /\ \A i \in 0..m : more[i] = off[i]
  BY <1>1
<1>4. \A i \in 1..m : \A j \in 1..Len(pieces[i]) : flat[off[i - 1] + j] = pieces[i][j]
  BY DEF Laid
<1>5. \A q \in 1..Len(flat) : \E i \in 1..m : \E j \in 1..Len(pieces[i]) : q = off[i - 1] + j
  BY DEF Laid
<1> HIDE DEF more, longer
<1>6. \A i \in 1..(m + 1) : more[i] = more[i - 1] + Len(pieces[i]) /\ more[i] <= more[m + 1]
  <2> SUFFICES ASSUME NEW i \in 1..(m + 1)
               PROVE  more[i] = more[i - 1] + Len(pieces[i]) /\ more[i] <= more[m + 1]
    OBVIOUS
  <2>1. CASE i = m + 1
    <3>1. i - 1 = m /\ m \in 0..m
      BY <2>1
    <3>2. more[i] = off[m] + Len(p) /\ more[i - 1] = off[m] /\ Len(pieces[i]) = Len(p)
      BY <1>3, <2>1, <3>1
    <3>3. off[m] \in Nat /\ Len(p) \in Nat
      BY <1>1
    <3> QED
      BY <2>1, <3>2, <3>3
  <2>2. CASE i # m + 1
    <3>1. i \in 1..m /\ i \in 0..m /\ i - 1 \in 0..m
      BY <2>2
    <3>2. more[i] = off[i] /\ more[i - 1] = off[i - 1] /\ more[m + 1] >= off[m]
      BY <1>1, <1>3, <3>1
    <3>3. off[i] = off[i - 1] + Len(pieces[i]) /\ off[i] <= off[m]
      BY <1>1, <3>1
    <3>4. off[i] \in Nat /\ off[m] \in Nat /\ more[m + 1] \in Nat
      BY <1>1, <1>3, <3>1
    <3> QED
      BY <3>2, <3>3, <3>4
  <2> QED
    BY <2>1, <2>2
<1>7. ASSUME NEW i \in 1..(m + 1), NEW j \in 1..Len(pieces[i])
      PROVE  longer[more[i - 1] + j] = pieces[i][j]
  <2>1. CASE i = m + 1
    <3>1. i - 1 = m /\ m \in 0..m
      BY <2>1
    <3>2. more[i - 1] = Len(flat) /\ pieces[i] = p
      BY <1>1, <1>3, <2>1, <3>1
    <3> QED
      BY <1>2, <3>2
  <2>2. CASE i # m + 1
    <3>1. i \in 1..m /\ i \in 0..m /\ i - 1 \in 0..m /\ Len(pieces[i]) \in Nat
      BY <2>2
    <3>2. off[i] = off[i - 1] + Len(pieces[i]) /\ off[i] <= Len(flat) /\ off[i - 1] \in Nat
      BY <1>1, <3>1
    <3>3. off[i - 1] + j \in 1..Len(flat)
      BY <3>1, <3>2, <1>1, SMTT(30)
    <3>4. more[i - 1] = off[i - 1]
      BY <1>3, <3>1
    <3> QED
      BY <1>2, <1>4, <3>1, <3>3, <3>4
  <2> QED
    BY <2>1, <2>2
<1>8. ASSUME NEW q \in 1..Len(longer)
      PROVE  \E i \in 1..(m + 1) : \E j \in 1..Len(pieces[i]) : q = more[i - 1] + j
  <2>1. CASE q \in 1..Len(flat)
    <3>1. PICK i \in 1..m : \E j \in 1..Len(pieces[i]) : q = off[i - 1] + j
      BY <1>5, <2>1
    <3>2. i \in 1..(m + 1) /\ more[i - 1] = off[i - 1]
      BY <1>3
    <3> QED
      BY <3>1, <3>2
  <2>2. CASE q \notin 1..Len(flat)
    <3>1. q - Len(flat) \in 1..Len(p) /\ q = Len(flat) + (q - Len(flat))
      BY <1>1, <1>2, <2>2
    <3>2. more[(m + 1) - 1] = Len(flat) /\ m + 1 \in 1..(m + 1)
      BY <1>1, <1>3
    <3> QED
      BY <3>1, <3>2
  <2> QED
    BY <2>1, <2>2
<1>9. more[0] = 0 /\ more[m + 1] = Len(longer)
  BY <1>1, <1>2, <1>3
<1>10. Laid(T, pieces, m + 1, longer, more)
  BY <1>2, <1>3, <1>6, <1>7, <1>8, <1>9 DEF Laid
<1> QED
  BY <1>10 DEF longer

\* The recursion in FlattenSeq, up to the m-th piece.
Joins(pieces, m, f) ==
    f = [i \in 1..m |-> IF i = 1 THEN pieces[i] ELSE f[i - 1] \o pieces[i]]

\* The recursion in FlattenSeq is defined for one piece more.
LEMMA JoinsOneMore ==
  ASSUME NEW pieces, NEW m \in Nat \ {0}, NEW g, Joins(pieces, m, g)
  PROVE  \E h : Joins(pieces, m + 1, h)
<1> DEFINE h == [i \in 1..(m + 1) |-> IF i = m + 1 THEN g[m] \o pieces[i] ELSE g[i]]
<1>1. \A i \in 1..m : h[i] = g[i]
  OBVIOUS
<1>2. h[m + 1] = g[m] \o pieces[m + 1]
  <2>1. m + 1 \in 1..(m + 1)
    OBVIOUS
  <2> QED
    BY <2>1, Zenon
<1>3. h = [i \in 1..(m + 1) |-> h[i]]
  OBVIOUS
<1>4. \A i \in 1..m : g[i] = IF i = 1 THEN pieces[i] ELSE g[i - 1] \o pieces[i]
  BY DEF Joins
<1> HIDE DEF h
<1>5. ASSUME NEW i \in 1..(m + 1)
      PROVE  h[i] = IF i = 1 THEN pieces[i] ELSE h[i - 1] \o pieces[i]
  <2>1. CASE i = m + 1
    <3>1. i # 1 /\ i - 1 = m /\ m \in 1..m
      BY <2>1
    <3>2. h[i] = g[m] \o pieces[i] /\ h[i - 1] = g[m]
      BY <1>1, <1>2, <2>1, <3>1, Zenon
    <3> QED
      BY <3>1, <3>2
  <2>2. CASE i # m + 1
    <3>1. i \in 1..m /\ (i # 1 => i - 1 \in 1..m)
      BY <2>2
    <3> QED
      BY <1>1, <1>4, <3>1
  <2> QED
    BY <2>1, <2>2
<1>6. Joins(pieces, m + 1, h)
  BY <1>3, <1>5, Zenon DEF Joins
<1> QED
  BY <1>6

\* So it is for all of them, and FlattenSeq is what it gives at the end.
LEMMA Joined ==
  ASSUME NEW pieces, NEW n \in Nat \ {0}, Len(pieces) = n
  PROVE  \E f : Joins(pieces, n, f) /\ FlattenSeq(pieces) = f[n]
<1> DEFINE S == {m \in Nat : \E f : Joins(pieces, m + 1, f)}
<1>1. 0 \in S
  <2>1. \A i \in 1..1 : i = 1
    OBVIOUS
  <2>2. Joins(pieces, 1, [i \in 1..1 |-> pieces[i]])
    BY <2>1, Zenon DEF Joins
  <2>3. 0 + 1 = 1
    OBVIOUS
  <2>4. \E f : Joins(pieces, 0 + 1, f)
    BY <2>2, <2>3, Zenon
  <2> QED
    BY <2>4
<1>2. ASSUME NEW m \in Nat, m \in S PROVE m + 1 \in S
  <2>1. PICK f : Joins(pieces, m + 1, f)
    BY <1>2
  <2>2. \E h : Joins(pieces, (m + 1) + 1, h)
    BY <2>1, JoinsOneMore
  <2> QED
    BY <2>2
<1>3. n - 1 \in S
  <2> HIDE DEF S
  <2> QED
    BY <1>1, <1>2, SetInduction
<1>4. \E f : Joins(pieces, n, f)
  <2>1. \E f : Joins(pieces, (n - 1) + 1, f)
    BY <1>3
  <2>2. (n - 1) + 1 = n
    OBVIOUS
  <2> QED
    BY <2>1, <2>2, Zenon
<1> DEFINE g == CHOOSE f : f = [i \in 1..Len(pieces) |->
                                  IF i = 1 THEN pieces[i] ELSE f[i - 1] \o pieces[i]]
<1>5. FlattenSeq(pieces) = g[Len(pieces)]
  BY DEF FlattenSeq
<1>6. Joins(pieces, n, g)
  BY <1>4, Zenon DEF Joins
<1> QED
  BY <1>5, <1>6, Zenon

\* FlattenSeq lays the pieces one after the other.
LEMMA Flattened ==
  ASSUME NEW T, NEW n \in Nat, NEW pieces, Len(pieces) = n, pieces \in [1..n -> Seq(T)]
  PROVE  \E off : Laid(T, pieces, n, FlattenSeq(pieces), off)
<1>1. Laid(T, pieces, 0, <<>>, [i \in 0..0 |-> 0])
  BY DEF Laid
<1>2. CASE n = 0
  <2>1. pieces = <<>>
    BY <1>2
  <2>2. FlattenSeq(pieces) = <<>>
    BY <1>2, <2>1 DEF FlattenSeq
  <2> QED
    BY <1>1, <1>2, <2>2
<1>3. CASE n # 0
  <2>1. PICK f : Joins(pieces, n, f) /\ FlattenSeq(pieces) = f[n]
    BY <1>3, Joined
  <2>2. /\ f[1] = pieces[1]
        /\ \A m \in 1..(n - 1) : f[m + 1] = f[m] \o pieces[m + 1]
    <3>1. \A i \in 1..n : f[i] = IF i = 1 THEN pieces[i] ELSE f[i - 1] \o pieces[i]
      BY <2>1 DEF Joins
    <3>2. \A m \in 1..(n - 1) : m + 1 \in 1..n /\ m + 1 # 1 /\ (m + 1) - 1 = m
      OBVIOUS
    <3>3. \A m \in 1..(n - 1) : f[m + 1] = f[(m + 1) - 1] \o pieces[m + 1]
      BY <3>1, <3>2, Zenon
    <3>4. \A m \in 1..(n - 1) : f[m + 1] = f[m] \o pieces[m + 1]
      BY <3>2, <3>3
    <3>5. 1 \in 1..n
      BY <1>3
    <3> QED
      BY <3>1, <3>4, <3>5, Zenon
  <2> DEFINE S == {m \in Nat : m < n => \E off : Laid(T, pieces, m + 1, f[m + 1], off)}
  <2>3. 0 \in S
    <3>1. pieces[0 + 1] \in Seq(T) /\ \A i \in 1..0 : pieces[i] \in Seq(T)
      BY <1>3
    <3>2. \E off : Laid(T, pieces, 0 + 1, <<>> \o pieces[0 + 1], off)
      BY <1>1, <3>1, OneMorePiece
    <3>3. <<>> \o pieces[0 + 1] = f[0 + 1]
      BY <2>2, <3>1, ConcatEmptySeq
    <3>4. \E off : Laid(T, pieces, 0 + 1, f[0 + 1], off)
      BY <3>2, <3>3
    <3> QED
      BY <3>4
  <2>4. ASSUME NEW m \in Nat, m \in S PROVE m + 1 \in S
    <3> SUFFICES ASSUME m + 1 < n
                 PROVE  \E off : Laid(T, pieces, (m + 1) + 1, f[(m + 1) + 1], off)
      OBVIOUS
    <3>1. PICK k \in 1..(n - 1) : k = m + 1
      OBVIOUS
    <3>2. PICK off : Laid(T, pieces, k, f[k], off)
      BY <2>4, <3>1
    <3>3. pieces[k + 1] \in Seq(T) /\ \A i \in 1..k : pieces[i] \in Seq(T)
      OBVIOUS
    <3>4. \E more : Laid(T, pieces, k + 1, f[k] \o pieces[k + 1], more)
      <4>1. k \in Nat
        OBVIOUS
      <4> QED
        BY <3>2, <3>3, <4>1, OneMorePiece, Zenon
    <3>5. \E more : Laid(T, pieces, k + 1, f[k + 1], more)
      BY <2>2, <3>4, Zenon
    <3> QED
      BY <3>1, <3>5, Zenon
  <2>5. n - 1 \in S
    <3> HIDE DEF S
    <3>1. n - 1 \in Nat
      BY <1>3
    <3> QED
      BY <2>3, <2>4, <3>1, SetInduction
  <2>6. \E off : Laid(T, pieces, (n - 1) + 1, f[(n - 1) + 1], off)
    BY <1>3, <2>5
  <2> QED
    BY <2>1, <2>6
<1> QED
  BY <1>2, <1>3

-----------------------------------------------------------------------------
(* One round reads one parameter.                                          *)

\* What a text is made of.  (The provers do not know that a literal is a STRING.)
Tokens == STRING \cup Gap \cup {Equals, Quote}

\* The parts of a parameter are tokens.
LEMMA ValueTokens ==
  ASSUME NEW p \in Parameters
  PROVE  p.value \in Seq(Tokens) /\ p.spelt \in Tokens /\ p.spelt \in Words
         /\ p.quoted \in BOOLEAN /\ Len(p.value) \in Nat
<1>1. p.value \in Seq(STRING) /\ p.spelt \in Words /\ p.quoted \in BOOLEAN
  BY DEF Parameters
<1>2. STRING \subseteq Tokens /\ Words \subseteq Tokens
  BY DEF Words, Tokens
<1>3. p.value \in Seq(Tokens)
  BY <1>1, <1>2, SeqMonotonic
<1> QED
  BY <1>1, <1>2, <1>3

\* The parameter p is in the text s from its key at k to its end at z.
ParamAt(p, equals, s, k, z) ==
    LET v == k + Len(equals) + 1
    IN  /\ s[k] = p.spelt
        /\ \A j \in 1..Len(equals) : s[k + j] = equals[j]
        /\ IF p.quoted
           THEN /\ z = v + Len(p.value) + 1 /\ s[v] = Quote /\ s[z] = Quote
                /\ \A j \in 1..Len(p.value) : s[v + j] = p.value[j]
           ELSE z = v /\ s[v] = p.value[1]

\* Between z and t there is a comma, with blanks around it, or the text ends at z.
FollowedBy(s, z, t) ==
    /\ \A j \in (z + 1)..(t - 1) : s[j] \in Gap
    /\ \/ z = Len(s) /\ t = Len(s) + 1
       \/ \E j \in (z + 1)..(t - 1) : s[j] = Comma

\* The characters the parser looks at are all different.
LEMMA SpecialTokens == /\ Space \notin {Comma, Equals, Quote}
                       /\ Tab \notin {Space, Comma, Equals, Quote}
                       /\ Comma \notin {Equals, Quote} /\ Equals # Quote
  BY DEF Space, Tab, Comma, Equals, Quote

\* A sequence of one element is that element's.
LEMMA OneElement ==
  ASSUME NEW T, NEW q \in Seq(T), Len(q) = 1
  PROVE  q = <<q[1]>>
<1>1. q[1] \in T
  OBVIOUS
<1>2. <<q[1]>> \in Seq(T) /\ Len(<<q[1]>>) = 1 /\ <<q[1]>>[1] = q[1]
  BY <1>1
<1>3. \A i \in 1..Len(q) : q[i] = <<q[1]>>[i]
  BY <1>2
<1> QED
  BY <1>2, <1>3, SeqEqual

\* A word with blanks around it is trimmed to the word.
LEMMA TrimWord ==
  ASSUME NEW T, NEW s \in Seq(T), NEW b \in 1..Len(s), NEW k \in b..Len(s), NEW e \in k..Len(s),
         s[k] \notin Blank, \A j \in b..(k - 1) : s[j] \in Blank,
         \A j \in (k + 1)..e : s[j] \in Blank
  PROVE  Trim(SubSeq(s, b, e)) = <<s[k]>>
<1> DEFINE w == SubSeq(s, b, e)
           a == k - b + 1
<1>1. /\ w \in Seq(T) /\ Len(w) = e - b + 1
      /\ \A j \in 1..(e - b + 1) : w[j] = s[b + j - 1]
  BY SubSeqProperties
<1> HIDE DEF w
<1>2. DOMAIN w = 1..Len(w) /\ Len(w) \in Nat /\ a \in 1..Len(w) /\ a \in a..Len(w) /\ a \in Nat
  BY <1>1
<1>3. w[a] = s[k]
  <2>1. a \in 1..(e - b + 1) /\ b + a - 1 = k
    OBVIOUS
  <2> HIDE DEF a
  <2> QED
    BY <1>1, <2>1
<1>4. \A j \in (a + 1)..Len(w) : w[j] \in Blank
  <2> SUFFICES ASSUME NEW j \in (a + 1)..Len(w) PROVE w[j] \in Blank
    OBVIOUS
  <2>1. w[j] = s[b + j - 1] /\ b + j - 1 \in (k + 1)..e
    BY <1>1
  <2> QED
    BY <2>1
<1>5. \A j \in 1..(a - 1) : w[j] \in Blank
  <2> SUFFICES ASSUME NEW j \in 1..(a - 1) PROVE w[j] \in Blank
    OBVIOUS
  <2>1. w[j] = s[b + j - 1] /\ b + j - 1 \in b..(k - 1)
    BY <1>1
  <2> QED
    BY <2>1
<1> HIDE DEF a
<1>6. Trim(w) = SubSeq(w, a, a)
  <2>1. w[a] \notin Blank
    BY <1>3
  <2> QED
    BY <1>2, <1>4, <1>5, <2>1, TrimIs, Zenon
<1>7. SubSeq(w, a, a) = <<w[a]>>
  <2>1. /\ SubSeq(w, a, a) \in Seq(T) /\ Len(SubSeq(w, a, a)) = 1
        /\ SubSeq(w, a, a)[1] = w[a]
    BY <1>1, <1>2, SubSeqProperties
  <2> QED
    BY <2>1, OneElement
<1> QED
  BY <1>3, <1>6, <1>7 DEF w

\* A quoted value is read up to its closing quote.
LEMMA QuotedValue ==
  ASSUME NEW s \in Seq(Tokens), NEW value \in Seq(Tokens), NEW v \in Nat \ {0},
         NEW z \in 1..Len(s), z = v + Len(value) + 1, s[v] = Quote, s[z] = Quote,
         \A j \in 1..Len(value) : s[v + j] = value[j],
         Quote \notin Range(value)
  PROVE  ValueAt(s, v) = [value |-> value, next |-> z + 1]
<1>1. Len(s) \in Nat /\ Len(value) \in Nat /\ v <= Len(s) /\ v + 1 \in Nat
      /\ z \in (v + 1)..(Len(s) + 1)
  OBVIOUS
<1>2. \A j \in (v + 1)..(z - 1) : s[j] \notin {Quote}
  <2> SUFFICES ASSUME NEW j \in (v + 1)..(z - 1) PROVE s[j] # Quote
    OBVIOUS
  <2>1. j - v \in 1..Len(value) /\ v + (j - v) = j
    BY <1>1
  <2>2. s[j] = value[j - v]
    BY <2>1
  <2>3. value[j - v] \in Range(value)
    BY <2>1 DEF Range
  <2> QED
    BY <2>2, <2>3
<1>3. Find(s, v + 1, {Quote}) = z
  <2>1. s[z] \in {Quote} /\ v + 1 \in Nat /\ z \in (v + 1)..(Len(s) + 1) /\ Len(s) \in Nat
    BY <1>1
  <2> QED
    BY <1>2, <2>1, FindIs, Zenon
<1>4. Min({z, Len(s)}) = z
  <2>1. {z, Len(s)} \in SUBSET Nat /\ z \in {z, Len(s)} /\ \A k \in {z, Len(s)} : z <= k
    BY <1>1
  <2> QED
    BY <2>1, MinIs
<1>5. SubSeq(s, v + 1, z - 1) = value
  <2>1. \A j \in (v + 1)..(z - 1) : s[j] \in Tokens
    BY <1>1
  <2>2. /\ SubSeq(s, v + 1, z - 1) \in Seq(Tokens)
        /\ Len(SubSeq(s, v + 1, z - 1)) = Len(value)
        /\ \A j \in 1..Len(value) : SubSeq(s, v + 1, z - 1)[j] = s[v + j]
    BY <1>1, <2>1, SubSeqProperties
  <2> QED
    BY <2>2, SeqEqual
<1> QED
  BY <1>1, <1>3, <1>4, <1>5 DEF ValueAt

\* What follows a parameter starts behind it.
LEMMA Gapped ==
  ASSUME NEW s \in Seq(Tokens), NEW z \in 1..Len(s), NEW t \in Nat, FollowedBy(s, z, t)
  PROVE  z + 1 \in (z + 1)..t
<1>1. CASE z = Len(s) /\ t = Len(s) + 1
  BY <1>1
<1>2. CASE \E j \in (z + 1)..(t - 1) : s[j] = Comma
  BY <1>2
<1> QED
  BY <1>1, <1>2 DEF FollowedBy

\* A value without quotes is read up to the comma, and trimmed.
LEMMA TokenValue ==
  ASSUME NEW s \in Seq(Tokens), NEW v \in 1..Len(s), s[v] \in Words,
         NEW t \in Nat, t <= Len(s) + 1, FollowedBy(s, v, t)
  PROVE  \E next \in (v + 1)..t : ValueAt(s, v) = [value |-> <<s[v]>>, next |-> next]
<1>1. s[v] # Quote /\ s[v] # Comma /\ s[v] \notin Blank
  BY DEF Words, Gap, Blank
<1>2. PICK d : d = Find(s, v, {Comma})
  OBVIOUS
<1>3. d \in v..(Len(s) + 1) /\ \A j \in v..(d - 1) : s[j] # Comma
  BY <1>2, FindStops
<1>4. d # v
  <2>1. d <= Len(s) => s[d] = Comma
    BY <1>2, FindStops
  <2> QED
    BY <1>1, <1>3, <2>1
<1>5. d \in (v + 1)..t
  <2>1. CASE v = Len(s) /\ t = Len(s) + 1
    BY <1>3, <1>4, <2>1
  <2>2. CASE \E j \in (v + 1)..(t - 1) : s[j] = Comma
    <3>1. PICK j \in (v + 1)..(t - 1) : s[j] = Comma
      BY <2>2
    <3>2. j \notin v..(d - 1)
      BY <1>3, <3>1
    <3> QED
      BY <1>3, <1>4, <3>1, <3>2
  <2> QED
    BY <2>1, <2>2 DEF FollowedBy
<1>6. \A j \in (v + 1)..(d - 1) : s[j] \in Blank
  <2> SUFFICES ASSUME NEW j \in (v + 1)..(d - 1) PROVE s[j] \in Blank
    OBVIOUS
  <2>1. j \in (v + 1)..(t - 1) /\ j \in v..(d - 1)
    BY <1>3, <1>5
  <2>2. s[j] \in Gap /\ s[j] # Comma
    BY <1>3, <2>1 DEF FollowedBy
  <2> QED
    BY <2>2 DEF Gap, Blank
<1>7. Trim(SubSeq(s, v, d - 1)) = <<s[v]>>
  <2>1. PICK e \in v..Len(s) : e = d - 1
    BY <1>3, <1>4
  <2>2. v \in v..Len(s) /\ v..(v - 1) = {}
    BY <2>1
  <2>3. \A j \in (v + 1)..e : s[j] \in Blank
    BY <1>6, <2>1
  <2>4. Trim(SubSeq(s, v, e)) = <<s[v]>>
    BY <1>1, <2>2, <2>3, TrimWord
  <2> QED
    BY <2>1, <2>4
<1>8. ValueAt(s, v) = [value |-> <<s[v]>>, next |-> d]
  BY <1>1, <1>2, <1>7 DEF ValueAt
<1> QED
  BY <1>5, <1>8

\* The parameter p is in the text s from k to z, the next one (or the end) at t,
\* and a is in the gap before it.  Its "=" is the m-th of equals.
GapBefore(s, p, equals, m, k, z, t, a) ==
    /\ s \in Seq(Tokens) /\ p \in Parameters /\ WellFormedParam(p)
    /\ equals \in Seq(Blank \cup {Equals}) /\ m \in 1..Len(equals)
    /\ \A j \in 1..Len(equals) : equals[j] = Equals <=> j = m
    /\ \A j \in 1..Len(equals) : m < j => equals[j] = Space
    /\ k \in Nat /\ z \in 1..Len(s) /\ t \in Nat /\ t <= Len(s) + 1
    /\ ParamAt(p, equals, s, k, z) /\ FollowedBy(s, z, t)
    /\ a \in 1..k /\ \A j \in a..(k - 1) : s[j] \in Gap

\* The round that starts in the gap before a parameter reads that parameter, and
\* the next one starts in the gap after it.
LEMMA RoundReads ==
  ASSUME NEW s, NEW p, NEW equals, NEW m, NEW k, NEW z, NEW t, NEW a,
         GapBefore(s, p, equals, m, k, z, t, a)
  PROVE  \E next \in (z + 1)..t :
           Round(s, a) = [pairs |-> <<[key |-> <<p.key>>, value |-> p.value]>>, next |-> next]
<1> SUFFICES ASSUME s \in Seq(Tokens), p \in Parameters, WellFormedParam(p),
                    equals \in Seq(Blank \cup {Equals}), m \in 1..Len(equals),
                    \A j \in 1..Len(equals) : equals[j] = Equals <=> j = m,
                    \A j \in 1..Len(equals) : m < j => equals[j] = Space,
                    k \in Nat, z \in 1..Len(s), t \in Nat, t <= Len(s) + 1,
                    ParamAt(p, equals, s, k, z), FollowedBy(s, z, t),
                    a \in 1..k, \A j \in a..(k - 1) : s[j] \in Gap
             PROVE  \E next \in (z + 1)..t :
                      Round(s, a) = [pairs |-> <<[key |-> <<p.key>>, value |-> p.value]>>,
                                     next |-> next]
  BY Zenon DEF GapBefore
<1> DEFINE v == k + Len(equals) + 1
<1>1. /\ Len(s) \in Nat /\ Len(equals) \in Nat /\ Len(p.value) \in Nat
      /\ p.spelt \in Words /\ p.quoted \in BOOLEAN /\ p.value \in Seq(Tokens)
  BY ValueTokens
<1>2. v <= z
  <2>1. PICK e, w : e = Len(equals) /\ w = Len(p.value)
    OBVIOUS
  <2>2. e \in Nat /\ w \in Nat
    BY <1>1, <2>1
  <2>3. z = (k + e + 1) + w + 1 \/ z = k + e + 1
    BY <2>1, Zenon DEF ParamAt
  <2>4. k + e + 1 <= z
    BY ONLY <2>2, <2>3, k \in Nat
  <2> QED
    BY <2>1, <2>4
<1>3. s[k] \in Words
  BY <1>1 DEF ParamAt
<1>4. s[k] \notin Gap /\ s[k] \notin Blank /\ s[k] # Equals /\ s[k] # Comma
  BY <1>3 DEF Words, Gap, Blank
<1>5. Skip(s, a, Gap) = k
  <2>1. k \in a..(Len(s) + 1) /\ a \in Nat
    BY <1>1, <1>2
  <2> QED
    BY <1>1, <1>4, <2>1, SkipIs
<1>6. \A j \in 1..Len(equals) : s[k + j] = equals[j]
  BY DEF ParamAt
<1>7. \A j \in (k + 1)..(k + m - 1) : s[j] \in Blank /\ s[j] # Equals /\ s[j] # Comma
  <2> SUFFICES ASSUME NEW j \in (k + 1)..(k + m - 1)
               PROVE  s[j] \in Blank /\ s[j] # Equals /\ s[j] # Comma
    OBVIOUS
  <2>1. PICK i \in 1..Len(equals) : j = k + i /\ i # m
    BY <1>1
  <2>2. s[j] = equals[i] /\ equals[i] \in Blank
    <3>1. equals[i] \in Blank \cup {Equals}
      BY <2>1, ElementOfSeq
    <3>2. equals[i] # Equals
      BY <2>1
    <3> QED
      BY <1>6, <2>1, <3>1, <3>2
  <2> QED
    BY <2>2, SpecialTokens DEF Blank
<1>8. Find(s, k, {Equals, Comma}) = k + m
  <2>1. PICK e \in k..(Len(s) + 1) : e = k + m
    BY <1>1, <1>2
  <2>2. s[e] \in {Equals, Comma}
    BY <1>6, <2>1
  <2>3. \A j \in k..(e - 1) : s[j] \notin {Equals, Comma}
    BY <1>4, <1>7, <2>1
  <2>4. Find(s, k, {Equals, Comma}) = e
    BY <1>1, <2>2, <2>3, FindIs
  <2> QED
    BY <2>1, <2>4
<1>9. s[v] # Space
  <2>1. CASE p.quoted
    BY <2>1, SpecialTokens DEF ParamAt
  <2>2. CASE ~p.quoted
    <3>1. s[v] = p.value[1] /\ p.value[1] \in Words
      BY <2>2 DEF ParamAt, WellFormedParam
    <3> QED
      BY <3>1 DEF Words, Gap
  <2> QED
    BY <2>1, <2>2
<1>10. Skip(s, k + m + 1, {Space}) = v
  <2>1. \A j \in (k + m + 1)..(v - 1) : s[j] \in {Space}
    <3> SUFFICES ASSUME NEW j \in (k + m + 1)..(v - 1) PROVE s[j] = Space
      OBVIOUS
    <3>1. PICK i \in 1..Len(equals) : j = k + i /\ m < i
      BY <1>1
    <3> QED
      BY <1>6, <3>1
  <2>2. v \in (k + m + 1)..(Len(s) + 1) /\ k + m + 1 \in Nat
    BY <1>1, <1>2
  <2>3. s[v] \notin {Space}
    BY <1>9
  <2> HIDE DEF v
  <2> QED
    BY <1>1, <2>1, <2>2, <2>3, SkipIs
<1>11. Lower(Trim(SubSeq(s, k, k + m - 1))) = <<p.key>>
  <2>1. k \in 1..Len(s) /\ k + m - 1 \in k..Len(s)
    BY <1>1, <1>2
  <2>2. Trim(SubSeq(s, k, k + m - 1)) = <<s[k]>>
    <3>1. PICK e : e = k + m - 1
      OBVIOUS
    <3>2. k \in k..Len(s) /\ e \in k..Len(s) /\ k..(k - 1) = {}
      BY <1>1, <2>1, <3>1
    <3>3. \A j \in (k + 1)..e : s[j] \in Blank
      BY <1>7, <3>1
    <3>4. Trim(SubSeq(s, k, e)) = <<s[k]>>
      BY <1>4, <2>1, <3>2, <3>3, TrimWord
    <3> QED
      BY <3>1, <3>4
  <2>3. s[k] = p.spelt
    BY DEF ParamAt
  <2> QED
    BY <2>2, <2>3 DEF WellFormedParam
<1>12. PICK next \in (z + 1)..t : ValueAt(s, v) = [value |-> p.value, next |-> next]
  <2>1. CASE p.quoted
    <3>1. Quote \notin Range(p.value)
      BY <2>1 DEF WellFormedParam
    <3>2. /\ z = v + Len(p.value) + 1 /\ s[v] = Quote /\ s[z] = Quote
          /\ \A j \in 1..Len(p.value) : s[v + j] = p.value[j]
      BY <2>1 DEF ParamAt
    <3>3. v \in Nat \ {0}
      BY <1>1
    <3>4. z + 1 \in (z + 1)..t
      BY Gapped
    <3> HIDE DEF v
    <3>5. PICK w : w = p.value
      OBVIOUS
    <3>6. /\ w \in Seq(Tokens) /\ Quote \notin Range(w) /\ z = v + Len(w) + 1
          /\ \A j \in 1..Len(w) : s[v + j] = w[j]
      BY <1>1, <3>1, <3>2, <3>5, Zenon
    <3>7. ValueAt(s, v) = [value |-> w, next |-> z + 1]
      BY <3>2, <3>3, <3>6, QuotedValue, Zenon
    <3> QED
      BY <3>4, <3>5, <3>7
  <2>2. CASE ~p.quoted
    <3>1. Len(p.value) = 1 /\ p.value[1] \in Words
      BY <2>2 DEF WellFormedParam
    <3>2. z = v /\ s[v] = p.value[1]
      BY <2>2 DEF ParamAt
    <3>3. p.value = <<p.value[1]>>
      BY <1>1, <3>1, OneElement
    <3> HIDE DEF v
    <3>4. \E next \in (v + 1)..t : ValueAt(s, v) = [value |-> <<s[v]>>, next |-> next]
      BY <3>1, <3>2, TokenValue
    <3> QED
      BY <3>2, <3>3, <3>4
  <2> QED
    BY <2>1, <2>2
<1>13. k + m <= Len(s) /\ s[k + m] # Comma
  <2>1. s[k + m] = Equals
    BY <1>6
  <2>2. s[k + m] # Comma
    BY <2>1, SpecialTokens
  <2>3. k + m <= v
    BY <1>1
  <2>4. v \in Nat /\ v <= Len(s)
    BY <1>1, <1>2
  <2> HIDE DEF v
  <2> QED
    BY <2>2, <2>3, <2>4
<1> HIDE DEF v
<1>14. Round(s, a) = [pairs |-> <<[key |-> <<p.key>>, value |-> p.value]>>, next |-> next]
  BY <1>1, <1>5, <1>8, <1>10, <1>11, <1>12, <1>13, SMTT(30) DEF Round
<1> QED
  BY <1>14

-----------------------------------------------------------------------------
(* parse_params reads a challenge's parameters.                            *)

\* The parameters of c are in the text s, each between its key and its end.
Spelled(c, s, key, end) ==
    LET n == Len(c.params)
    IN  /\ s \in Seq(Tokens)
        /\ key \in [1..(n + 1) -> 1..(Len(s) + 1)] /\ end \in [1..n -> 1..Len(s)]
        /\ key[n + 1] = Len(s) + 1
        /\ \A j \in 1..(key[1] - 1) : s[j] \in Gap
        /\ \A i \in 1..n : /\ ParamAt(c.params[i], c.equals, s, key[i], end[i])
                           /\ FollowedBy(s, end[i], key[i + 1])

\* No tab follows "=".
OnlySpaces(c) ==
    \A i, j \in DOMAIN c.equals : c.equals[i] = Equals /\ i < j => c.equals[j] = Space

Pair(p) == [key |-> <<p.key>>, value |-> p.value]

\* From a gap that reaches the end of the text, the parser reads nothing.
LEMMA NothingLeft ==
  ASSUME NEW s \in Seq(Tokens), NEW from, CollectsFrom(s, 1, from),
         NEW a \in 1..(Len(s) + 1), \A j \in a..Len(s) : s[j] \in Gap
  PROVE  from[a] = <<>>
<1>1. Len(s) \in Nat
  OBVIOUS
<1>2. \A i \in 1..(Len(s) + 1) : from[i] = IF i > Len(s) THEN <<>>
                                           ELSE Round(s, i).pairs \o from[Round(s, i).next]
  BY DEF CollectsFrom
<1>3. from[Len(s) + 1] = <<>>
  <2>1. Len(s) + 1 \in 1..(Len(s) + 1) /\ Len(s) + 1 > Len(s)
    BY <1>1
  <2> QED
    BY <1>2, <2>1
<1>4. CASE a # Len(s) + 1
  <2>1. PICK e : e = Len(s) + 1
    OBVIOUS
  <2>2. Skip(s, a, Gap) = e
    <3>1. e \in a..(Len(s) + 1) /\ e - 1 = Len(s) /\ ~(e <= Len(s)) /\ a \in Nat
      BY <1>1, <2>1
    <3> QED
      BY <1>1, <3>1, SkipIs
  <2>3. Find(s, e, {Equals, Comma}) = e
    <3>1. e \in Nat /\ e \in e..(Len(s) + 1) /\ ~(e <= Len(s)) /\ e..(e - 1) = {}
      BY <1>1, <2>1
    <3> QED
      BY <1>1, <3>1, FindIs
  <2>4. Round(s, a) = [pairs |-> <<>>, next |-> e]
    <3>1. e > Len(s)
      BY <1>1, <2>1
    <3> QED
      BY <2>2, <2>3, <3>1 DEF Round
  <2>5. from[a] = <<>> \o <<>>
    <3>1. ~(a > Len(s))
      BY <1>1, <1>4
    <3>2. from[a] = Round(s, a).pairs \o from[Round(s, a).next]
      BY <1>2, <3>1, Zenon
    <3> QED
      BY <1>3, <2>1, <2>4, <3>2
  <2>6. <<>> \o <<>> = <<>>
    BY EmptySeq, ConcatEmptySeq
  <2> QED
    BY <2>5, <2>6
<1> QED
  BY <1>3, <1>4

\* A text whose parameters are laid out is read as those parameters, from the
\* last one to the first.
LEMMA SpelledIsRead ==
  ASSUME NEW c, WellFormed(c), OnlySpaces(c),
         NEW s, NEW key, NEW end, Spelled(c, s, key, end)
  PROVE  ParseParams(s) = [i \in 1..Len(c.params) |-> Pair(c.params[i])]
<1> DEFINE n == Len(c.params)
           pairs == [i \in 1..n |-> Pair(c.params[i])]
           All == {Pair(c.params[i]) : i \in 1..n}
<1>1. /\ n \in Nat /\ DOMAIN c.params = 1..n /\ c.params \in Seq(Parameters)
      /\ \A i \in 1..n : c.params[i] \in Parameters /\ WellFormedParam(c.params[i])
  BY DEF WellFormed
<1>2. s \in Seq(Tokens) /\ Len(s) \in Nat
  BY DEF Spelled
<1>3. PICK from : CollectsFrom(s, 1, from) /\ ParseParams(s) = from[1]
  BY <1>2, ParserTerminates
<1>4. \A a \in 1..Len(s) : from[a] = Round(s, a).pairs \o from[Round(s, a).next]
  <2>1. \A a \in 1..Len(s) : a \in 1..(Len(s) + 1) /\ ~(a > Len(s))
    BY <1>2
  <2> QED
    BY <1>3, <2>1, Zenon DEF CollectsFrom
<1>5. n \in Nat
  BY DEF WellFormed
<1>6. pairs \in Seq(All) /\ Len(pairs) = n /\ \A i \in 1..n : pairs[i] = Pair(c.params[i])
  BY <1>1
<1>7. /\ key \in [1..(n + 1) -> 1..(Len(s) + 1)] /\ end \in [1..n -> 1..Len(s)]
      /\ key[n + 1] = Len(s) + 1
      /\ \A j \in 1..(key[1] - 1) : s[j] \in Gap
      /\ \A i \in 1..n : /\ ParamAt(c.params[i], c.equals, s, key[i], end[i])
                         /\ FollowedBy(s, end[i], key[i + 1])
  BY DEF Spelled
<1>8. PICK m \in 1..Len(c.equals) : \A j \in 1..Len(c.equals) : c.equals[j] = Equals <=> j = m
  BY DEF WellFormed
<1>9. c.equals \in Seq(Blank \cup {Equals})
  BY DEF WellFormed
<1>10. \A j \in 1..Len(c.equals) : m < j => c.equals[j] = Space
  BY <1>8, <1>9 DEF OnlySpaces
<1> DEFINE Reads(i) == \A a \in 1..key[i] :
                         (\A j \in a..(key[i] - 1) : s[j] \in Gap) => from[a] = SubSeq(pairs, i, n)
<1> HIDE DEF pairs
<1>11. Reads(n + 1)
  <2> SUFFICES ASSUME NEW a \in 1..(Len(s) + 1), \A j \in a..Len(s) : s[j] \in Gap
               PROVE  from[a] = SubSeq(pairs, n + 1, n)
    <3>1. (Len(s) + 1) - 1 = Len(s)
      BY <1>2
    <3> QED
      BY <1>7, <3>1, Zenon
  <2>1. SubSeq(pairs, n + 1, n) = <<>>
    BY <1>1, SubSeqEmpty
  <2> QED
    BY <1>2, <1>3, <2>1, NothingLeft
<1>12. ASSUME NEW i \in 1..n, Reads(i + 1) PROVE Reads(i)
  <2> SUFFICES ASSUME NEW a \in 1..key[i], \A j \in a..(key[i] - 1) : s[j] \in Gap
               PROVE  from[a] = SubSeq(pairs, i, n)
    OBVIOUS
  <2>1. PICK k, z, t, p : k = key[i] /\ z = end[i] /\ t = key[i + 1] /\ p = c.params[i]
    OBVIOUS
  <2>2. /\ k \in 1..(Len(s) + 1) /\ z \in 1..Len(s) /\ t \in 1..(Len(s) + 1)
        /\ ParamAt(p, c.equals, s, k, z) /\ FollowedBy(s, z, t)
        /\ p \in Parameters /\ WellFormedParam(p)
    <3>1. i + 1 \in 1..(n + 1) /\ i \in 1..(n + 1)
      BY <1>5
    <3>2. k \in 1..(Len(s) + 1) /\ z \in 1..Len(s) /\ t \in 1..(Len(s) + 1)
      BY <1>7, <2>1, <3>1, Zenon
    <3> QED
      BY <1>1, <1>7, <2>1, <3>2, Zenon
  <2>3. PICK next \in (z + 1)..t : Round(s, a) = [pairs |-> <<Pair(p)>>, next |-> next]
    <3>1. /\ k \in Nat /\ t \in Nat /\ t <= Len(s) + 1
          /\ a \in 1..k /\ \A j \in a..(k - 1) : s[j] \in Gap
      BY <1>2, <2>1, <2>2
    <3>2. PICK e : e = c.equals
      OBVIOUS
    <3>3. /\ e \in Seq(Blank \cup {Equals}) /\ m \in 1..Len(e)
          /\ \A j \in 1..Len(e) : e[j] = Equals <=> j = m
          /\ \A j \in 1..Len(e) : m < j => e[j] = Space
          /\ ParamAt(p, e, s, k, z)
      BY <1>8, <1>9, <1>10, <2>2, <3>2, Zenon
    <3>4. s \in Seq(Tokens) /\ z \in 1..Len(s) /\ FollowedBy(s, z, t) /\ p \in Parameters
          /\ WellFormedParam(p)
      BY <1>2, <2>2
    <3>5. GapBefore(s, p, e, m, k, z, t, a)
      BY <3>1, <3>3, <3>4, Zenon DEF GapBefore
    <3>6. \E next \in (z + 1)..t :
            Round(s, a) = [pairs |-> <<[key |-> <<p.key>>, value |-> p.value]>>, next |-> next]
      BY <3>5, RoundReads
    <3> QED
      BY <3>6, Zenon DEF Pair
  <2>4. from[next] = SubSeq(pairs, i + 1, n)
    <3>1. next \in 1..t
      BY <2>2, <2>3
    <3>2. \A j \in (z + 1)..(t - 1) : s[j] \in Gap
      BY <2>2 DEF FollowedBy
    <3>3. \A j \in next..(t - 1) : s[j] \in Gap
      <4>1. \A j \in next..(t - 1) : j \in (z + 1)..(t - 1)
        BY <2>2, <2>3
      <4> QED
        BY <3>2, <4>1
    <3> QED
      BY <1>12, <2>1, <3>1, <3>3
  <2>5. a <= Len(s)
    <3>1. k <= z
      <4>1. Len(c.equals) \in Nat /\ Len(p.value) \in Nat /\ k \in Nat /\ z \in Nat
        BY <1>9, <2>2, ValueTokens
      <4>2. \/ z = (k + Len(c.equals) + 1) + Len(p.value) + 1
            \/ z = k + Len(c.equals) + 1
        BY <2>2, Zenon DEF ParamAt
      <4>3. PICK e, v : e = Len(c.equals) /\ v = Len(p.value)
        OBVIOUS
      <4>4. e \in Nat /\ v \in Nat /\ (z = (k + e + 1) + v + 1 \/ z = k + e + 1)
        BY <4>1, <4>2, <4>3, Zenon
      <4> QED
        BY ONLY <4>1, <4>4
    <3> QED
      BY <1>2, <2>1, <2>2, <3>1
  <2>6. from[a] = <<Pair(p)>> \o from[next]
    <3>1. a \in 1..Len(s)
      BY <1>2, <2>1, <2>2, <2>5
    <3>2. from[a] = Round(s, a).pairs \o from[Round(s, a).next]
      BY <1>4, <3>1, Zenon
    <3> QED
      BY <2>3, <3>2
  <2>7. SubSeq(pairs, i, n) = <<pairs[i]>> \o SubSeq(pairs, i + 1, n)
    <3>1. i \in 1..Len(pairs) /\ n \in i..Len(pairs)
      BY <1>1, <1>6
    <3> QED
      BY <1>6, <3>1, SubSeqRecursiveFirst
  <2> QED
    BY <1>6, <2>1, <2>4, <2>6, <2>7
<1> HIDE DEF n
<1> DEFINE S == {d \in Nat : d <= n => Reads(n + 1 - d)}
<1> HIDE DEF Reads
<1>13. 0 \in S
  <2>1. n + 1 - 0 = n + 1
    BY <1>5
  <2>2. Reads(n + 1 - 0)
    BY <1>11, <2>1, Zenon
  <2> QED
    BY <2>2
<1>14. ASSUME NEW d \in Nat, d \in S PROVE d + 1 \in S
  <2> SUFFICES ASSUME d + 1 <= n PROVE Reads(n + 1 - (d + 1))
    BY <1>5
  <2>1. Reads(n + 1 - d)
    BY <1>5, <1>14
  <2>2. n - d \in 1..n /\ n + 1 - d = (n - d) + 1 /\ n + 1 - (d + 1) = n - d
    BY <1>5
  <2>3. Reads((n - d) + 1)
    BY <2>1, <2>2, Zenon
  <2>4. Reads(n - d)
    BY <1>12, <2>2, <2>3, Zenon
  <2> QED
    BY <2>2, <2>4, Zenon
<1>15. n \in S
  <2> HIDE DEF S
  <2> QED
    BY <1>1, <1>13, <1>14, SetInduction
<1>16. Reads(1)
  <2>1. Reads(n + 1 - n)
    BY <1>1, <1>15
  <2>2. n + 1 - n = 1
    BY <1>1
  <2> QED
    BY <2>1, <2>2, Zenon
<1>17. from[1] = SubSeq(pairs, 1, n)
  <2>1. 1 \in 1..key[1] /\ 1 \in 1..(n + 1)
    BY <1>1, <1>2, <1>7
  <2> QED
    BY <1>7, <1>16, <2>1 DEF Reads
<1>18. SubSeq(pairs, 1, n) = pairs
  BY <1>6, SubSeqFull
<1> QED
  BY <1>3, <1>17, <1>18, Zenon DEF pairs, n

-----------------------------------------------------------------------------
(* The text of a challenge.                                                *)

\* Where the elements of a concatenation are.
LEMMA ConcatParts ==
  ASSUME NEW T, NEW a \in Seq(T), NEW b \in Seq(T)
  PROVE  /\ a \o b \in Seq(T) /\ Len(a \o b) = Len(a) + Len(b)
         /\ \A j \in 1..Len(a) : (a \o b)[j] = a[j]
         /\ \A j \in 1..Len(b) : (a \o b)[Len(a) + j] = b[j]
  OBVIOUS

\* The same, of four parts.
LEMMA FourParts ==
  ASSUME NEW T, NEW a \in Seq(T), NEW w \in T, NEW b \in Seq(T), NEW d \in Seq(T),
         NEW q, q = a \o <<w>> \o b \o d
  PROVE  /\ q \in Seq(T) /\ Len(q) = Len(a) + 1 + Len(b) + Len(d)
         /\ \A j \in 1..Len(a) : q[j] = a[j]
         /\ q[Len(a) + 1] = w
         /\ \A j \in 1..Len(b) : q[Len(a) + 1 + j] = b[j]
         /\ \A j \in 1..Len(d) : q[Len(a) + 1 + Len(b) + j] = d[j]
<1>1. PICK q1 : q1 = a \o <<w>>
  OBVIOUS
<1>2. /\ q1 \in Seq(T) /\ Len(q1) = Len(a) + 1 /\ q1[Len(a) + 1] = w
      /\ \A j \in 1..Len(a) : q1[j] = a[j]
  BY <1>1
<1>3. PICK q2 : q2 = q1 \o b
  OBVIOUS
<1>4. /\ q2 \in Seq(T) /\ Len(q2) = Len(q1) + Len(b)
      /\ \A j \in 1..Len(q1) : q2[j] = q1[j]
      /\ \A j \in 1..Len(b) : q2[Len(q1) + j] = b[j]
  <2>1. q1 \in Seq(T)
    BY <1>2
  <2>2. /\ q1 \o b \in Seq(T) /\ Len(q1 \o b) = Len(q1) + Len(b)
        /\ \A j \in 1..Len(q1) : (q1 \o b)[j] = q1[j]
        /\ \A j \in 1..Len(b) : (q1 \o b)[Len(q1) + j] = b[j]
    BY <2>1, ConcatParts
  <2> QED
    BY <1>3, <2>2, Zenon
<1>5. q = q2 \o d
  BY <1>1, <1>3
<1>6. /\ q \in Seq(T) /\ Len(q) = Len(q2) + Len(d)
      /\ \A j \in 1..Len(q2) : q[j] = q2[j]
      /\ \A j \in 1..Len(d) : q[Len(q2) + j] = d[j]
  <2>1. q2 \in Seq(T)
    BY <1>4
  <2>2. /\ q2 \o d \in Seq(T) /\ Len(q2 \o d) = Len(q2) + Len(d)
        /\ \A j \in 1..Len(q2) : (q2 \o d)[j] = q2[j]
        /\ \A j \in 1..Len(d) : (q2 \o d)[Len(q2) + j] = d[j]
    BY <2>1, ConcatParts
  <2> QED
    BY <1>5, <2>2, Zenon
<1>7. Len(a) \in Nat /\ Len(b) \in Nat /\ Len(d) \in Nat
  OBVIOUS
<1>8. Len(q2) = Len(a) + 1 + Len(b)
  BY <1>2, <1>4
<1>9. \A j \in 1..Len(a) : q[j] = a[j]
  <2> SUFFICES ASSUME NEW j \in 1..Len(a) PROVE q[j] = a[j]
    OBVIOUS
  <2>1. j \in 1..Len(q1) /\ j \in 1..Len(q2)
    BY <1>2, <1>4, <1>7
  <2> QED
    BY <1>2, <1>4, <1>6, <2>1
<1>10. q[Len(a) + 1] = w
  <2>1. Len(a) + 1 \in 1..Len(q1) /\ Len(a) + 1 \in 1..Len(q2)
    BY <1>2, <1>4, <1>7
  <2> QED
    BY <1>2, <1>4, <1>6, <2>1
<1>11. \A j \in 1..Len(b) : q[Len(a) + 1 + j] = b[j]
  <2> SUFFICES ASSUME NEW j \in 1..Len(b) PROVE q[Len(a) + 1 + j] = b[j]
    OBVIOUS
  <2>1. Len(a) + 1 + j \in 1..Len(q2)
    BY <1>7, <1>8
  <2> QED
    BY <1>2, <1>4, <1>6, <2>1
<1>12. \A j \in 1..Len(d) : q[Len(a) + 1 + Len(b) + j] = d[j]
  BY <1>6, <1>8
<1>13. Len(q) = Len(a) + 1 + Len(b) + Len(d)
  BY <1>6, <1>8
<1> QED
  BY <1>6, <1>9, <1>10, <1>11, <1>12, <1>13

\* What is written for a value, and the gap before a parameter.
Written(p) == IF p.quoted THEN <<Quote>> \o p.value \o <<Quote>> ELSE p.value
Lead(c, i) == IF i = 1 THEN <<>> ELSE c.comma

\* The piece q is the gap a, the key of p, the equals sign in e, and d for the value.
Parts(p, a, e, d, q) ==
    /\ p \in Parameters /\ WellFormedParam(p)
    /\ a \in Seq(Tokens) /\ e \in Seq(Tokens) /\ d \in Seq(Tokens) /\ q \in Seq(Tokens)
    /\ p.quoted => /\ Len(d) = Len(p.value) + 2 /\ d[1] = Quote /\ d[Len(p.value) + 2] = Quote
                   /\ \A j \in 1..Len(p.value) : d[1 + j] = p.value[j]
    /\ ~p.quoted => Len(d) = 1 /\ d[1] = p.value[1]
    /\ Len(q) = Len(a) + 1 + Len(e) + Len(d)
    /\ \A j \in 1..Len(a) : q[j] = a[j]
    /\ q[Len(a) + 1] = p.spelt
    /\ \A j \in 1..Len(e) : q[Len(a) + 1 + j] = e[j]
    /\ \A j \in 1..Len(d) : q[Len(a) + 1 + Len(e) + j] = d[j]

\* The parts of a parameter's text.
LEMMA PieceParts ==
  ASSUME NEW c, WellFormed(c), NEW i \in 1..Len(c.params)
  PROVE  Parts(c.params[i], Lead(c, i), c.equals, Written(c.params[i]), Piece(c, i))
<1> DEFINE p == c.params[i]
           d == Written(p)
           a == Lead(c, i)
           e == c.equals
           q == Piece(c, i)
<1>1. p \in Parameters /\ WellFormedParam(p)
  BY DEF WellFormed
<1>2. a \in Seq(Tokens) /\ e \in Seq(Tokens)
  <2>1. Gap \subseteq Tokens /\ Blank \cup {Equals} \subseteq Tokens
    BY DEF Gap, Blank, Tokens
  <2>2. c.comma \in Seq(Tokens) /\ c.equals \in Seq(Tokens)
    BY <2>1, SeqMonotonic DEF WellFormed
  <2> QED
    BY <2>2, EmptySeq DEF Lead
<1>3. /\ d \in Seq(Tokens)
      /\ p.quoted => /\ Len(d) = Len(p.value) + 2 /\ d[1] = Quote /\ d[Len(p.value) + 2] = Quote
                     /\ \A j \in 1..Len(p.value) : d[1 + j] = p.value[j]
      /\ ~p.quoted => Len(d) = 1 /\ d[1] = p.value[1]
  <2>1. p.value \in Seq(Tokens) /\ p.quoted \in BOOLEAN /\ Quote \in Tokens
    BY <1>1, ValueTokens DEF Tokens
  <2>2. CASE p.quoted
    <3>1. PICK v : v = p.value
      OBVIOUS
    <3>2. v \in Seq(Tokens)
      BY <2>1, <3>1
    <3>3. d = <<Quote>> \o v \o <<Quote>>
      BY <2>2, <3>1 DEF Written
    <3>4. /\ d \in Seq(Tokens) /\ Len(d) = Len(v) + 2 /\ d[1] = Quote /\ d[Len(v) + 2] = Quote
          /\ \A j \in 1..Len(v) : d[1 + j] = v[j]
      BY <2>1, <3>2, <3>3
    <3> QED
      BY <2>2, <3>1, <3>4
  <2>3. CASE ~p.quoted
    BY <1>1, <2>1, <2>3 DEF Written, WellFormedParam
  <2> QED
    BY <2>2, <2>3
<1>4. p.spelt \in Tokens
  BY <1>1, ValueTokens
<1>5. Piece(c, i) = a \o <<p.spelt>> \o e \o d
  BY DEF Piece, Lead, Written
<1> HIDE DEF d, a, e, q
<1>6. PICK w : w = p.spelt
  OBVIOUS
<1>7. /\ q \in Seq(Tokens) /\ Len(q) = Len(a) + 1 + Len(e) + Len(d)
      /\ \A j \in 1..Len(a) : q[j] = a[j]
      /\ q[Len(a) + 1] = w
      /\ \A j \in 1..Len(e) : q[Len(a) + 1 + j] = e[j]
      /\ \A j \in 1..Len(d) : q[Len(a) + 1 + Len(e) + j] = d[j]
  <2>1. w \in Tokens /\ d \in Seq(Tokens)
    BY <1>3, <1>4, <1>6
  <2>2. q = a \o <<w>> \o e \o d
    BY <1>5, <1>6 DEF q
  <2> QED
    BY ONLY <1>2, <2>1, <2>2, FourParts
<1>8. Parts(p, a, e, d, q)
  BY <1>1, <1>2, <1>3, <1>6, <1>7, Zenon DEF Parts
<1> QED
  BY <1>8 DEF d, a, e, q

\* A piece of the text that follows position b of s.
LEMMA PieceIsParam ==
  ASSUME NEW c, WellFormed(c), NEW i \in 1..Len(c.params), NEW s, NEW b \in Nat,
         \A j \in 1..Len(Piece(c, i)) : s[b + j] = Piece(c, i)[j]
  PROVE  /\ b + Len(Lead(c, i)) + 1 <= b + Len(Piece(c, i))
         /\ \A j \in 1..Len(Lead(c, i)) : s[b + j] = Lead(c, i)[j]
         /\ ParamAt(c.params[i], c.equals, s, b + Len(Lead(c, i)) + 1, b + Len(Piece(c, i)))
<1>1. PICK p, a, e : p = c.params[i] /\ a = Lead(c, i) /\ e = c.equals
  OBVIOUS
<1>2. PICK d, q : d = Written(p) /\ q = Piece(c, i)
  OBVIOUS
<1>3. Parts(p, a, e, d, q)
  BY <1>1, <1>2, PieceParts
<1>4. /\ p \in Parameters /\ WellFormedParam(p)
      /\ a \in Seq(Tokens) /\ e \in Seq(Tokens) /\ d \in Seq(Tokens) /\ q \in Seq(Tokens)
      /\ p.quoted => /\ Len(d) = Len(p.value) + 2 /\ d[1] = Quote /\ d[Len(p.value) + 2] = Quote
                     /\ \A j \in 1..Len(p.value) : d[1 + j] = p.value[j]
      /\ ~p.quoted => Len(d) = 1 /\ d[1] = p.value[1]
  BY <1>3, Zenon DEF Parts
<1>5. /\ Len(q) = Len(a) + 1 + Len(e) + Len(d)
      /\ \A j \in 1..Len(a) : q[j] = a[j]
      /\ q[Len(a) + 1] = p.spelt
      /\ \A j \in 1..Len(e) : q[Len(a) + 1 + j] = e[j]
      /\ \A j \in 1..Len(d) : q[Len(a) + 1 + Len(e) + j] = d[j]
  BY <1>3, Zenon DEF Parts
<1>6. PICK la, le, ld : la = Len(a) /\ le = Len(e) /\ ld = Len(d)
  OBVIOUS
<1>7. la \in Nat /\ le \in Nat /\ ld \in Nat
  BY <1>4, <1>6
<1>8. PICK k, z : k = b + la + 1 /\ z = b + Len(q)
  OBVIOUS
<1>9. Len(q) = la + 1 + le + ld /\ k \in Nat /\ z = k + le + ld
  <2>1. Len(q) = la + 1 + le + ld
    BY <1>5, <1>6
  <2> QED
    BY ONLY <1>7, <1>8, <2>1, b \in Nat
<1>10. \A j \in 1..(la + 1 + le + ld) : s[b + j] = q[j]
  BY <1>2, <1>9
<1>11. \A j \in 1..la : s[b + j] = a[j]
  <2> SUFFICES ASSUME NEW j \in 1..la PROVE s[b + j] = a[j]
    OBVIOUS
  <2>1. j \in 1..(la + 1 + le + ld)
    BY <1>7
  <2> QED
    BY <1>5, <1>6, <1>10, <2>1
<1>12. s[k] = p.spelt
  <2>1. la + 1 \in 1..(la + 1 + le + ld) /\ k = b + (la + 1)
    BY <1>7, <1>8
  <2> QED
    BY <1>5, <1>6, <1>10, <2>1
<1>13. \A j \in 1..le : s[k + j] = e[j]
  <2> SUFFICES ASSUME NEW j \in 1..le PROVE s[k + j] = e[j]
    OBVIOUS
  <2>1. la + 1 + j \in 1..(la + 1 + le + ld) /\ k + j = b + (la + 1 + j)
    BY <1>7, <1>8
  <2>2. q[la + 1 + j] = e[j]
    BY <1>5, <1>6
  <2> QED
    BY <1>10, <2>1, <2>2
<1>14. \A j \in 1..ld : s[k + le + j] = d[j]
  <2> SUFFICES ASSUME NEW j \in 1..ld PROVE s[k + le + j] = d[j]
    OBVIOUS
  <2>1. la + 1 + le + j \in 1..(la + 1 + le + ld) /\ k + le + j = b + (la + 1 + le + j)
    BY <1>7, <1>8
  <2>2. q[la + 1 + le + j] = d[j]
    BY <1>5, <1>6
  <2> QED
    BY <1>10, <2>1, <2>2
<1>15. ParamAt(p, e, s, k, z)
  <2>1. CASE p.quoted
    <3>1. PICK v, w : v = p.value /\ w = Len(v)
      OBVIOUS
    <3>2. w \in Nat
      BY <1>4, <3>1, ValueTokens
    <3>3. /\ ld = w + 2 /\ d[1] = Quote /\ d[w + 2] = Quote
          /\ \A j \in 1..w : d[1 + j] = v[j]
      BY <1>4, <1>6, <2>1, <3>1
    <3>4. z = (k + le + 1) + w + 1
      BY ONLY <1>7, <1>9, <3>2, <3>3
    <3>5. s[k + le + 1] = Quote /\ s[z] = Quote
      <4>1. 1 \in 1..ld /\ w + 2 \in 1..ld /\ z = k + le + (w + 2)
        BY <1>7, <1>9, <3>2, <3>3
      <4> QED
        BY <1>14, <3>3, <4>1
    <3>6. \A j \in 1..w : s[(k + le + 1) + j] = v[j]
      <4> SUFFICES ASSUME NEW j \in 1..w PROVE s[(k + le + 1) + j] = v[j]
        OBVIOUS
      <4>1. 1 + j \in 1..ld /\ (k + le + 1) + j = k + le + (1 + j)
        BY <1>7, <1>9, <3>2, <3>3, b \in Nat
      <4> QED
        BY <1>14, <3>3, <4>1
    <3> QED
      BY <1>6, <1>12, <1>13, <2>1, <3>1, <3>4, <3>5, <3>6, Zenon DEF ParamAt
  <2>2. CASE ~p.quoted
    <3>1. ld = 1 /\ d[1] = p.value[1]
      BY <1>4, <1>6, <2>2
    <3>2. z = k + le + 1 /\ 1 \in 1..ld
      BY <1>7, <1>9, <3>1
    <3>3. s[k + le + 1] = p.value[1]
      BY <1>14, <3>1, <3>2
    <3> QED
      BY <1>6, <1>12, <1>13, <2>2, <3>2, <3>3, Zenon DEF ParamAt
  <2> QED
    BY <2>1, <2>2
<1>16. k <= z
  BY <1>7, <1>9
<1> QED
  BY <1>1, <1>2, <1>6, <1>8, <1>11, <1>15, <1>16

\* The text without the scheme.
LEMMA TextTail ==
  ASSUME NEW T, NEW F \in Seq(T), NEW x \in T, NEW y \in T
  PROVE  LET s == Tail(<<x, y>> \o F)
         IN  /\ s \in Seq(T) /\ Len(s) = Len(F) + 1 /\ s[1] = y
             /\ \A q \in 1..Len(F) : s[1 + q] = F[q]
<1>1. PICK a : a = <<x, y>>
  OBVIOUS
<1>2. a \in Seq(T) /\ Len(a) = 2 /\ a[2] = y
  BY <1>1
<1>3. /\ a \o F \in Seq(T) /\ Len(a \o F) = Len(a) + Len(F)
      /\ \A j \in 1..Len(a) : (a \o F)[j] = a[j]
      /\ \A j \in 1..Len(F) : (a \o F)[Len(a) + j] = F[j]
  <2>1. a \in Seq(T)
    BY <1>2
  <2> QED
    BY ONLY <2>1, F \in Seq(T), ConcatParts
<1>4. PICK r : r = a \o F
  OBVIOUS
<1>5. /\ r \in Seq(T) /\ Len(r) = 2 + Len(F) /\ r[2] = y
      /\ \A j \in 1..Len(F) : r[2 + j] = F[j]
  BY <1>2, <1>3, <1>4
<1>6. r # <<>> /\ Len(F) \in Nat
  BY <1>5
<1>7. PICK s : s = Tail(r)
  OBVIOUS
<1>8. /\ s \in Seq(T) /\ Len(s) = Len(r) - 1
      /\ \A i \in 1..Len(s) : s[i] = r[i + 1]
  BY <1>5, <1>6, <1>7, HeadTailProperties
<1>9. s[1] = y
  <2>1. 1 \in 1..Len(s)
    BY <1>5, <1>6, <1>8
  <2> QED
    BY <1>5, <1>8, <2>1
<1>10. \A q \in 1..Len(F) : s[1 + q] = F[q]
  <2> SUFFICES ASSUME NEW q \in 1..Len(F) PROVE s[1 + q] = F[q]
    OBVIOUS
  <2>1. 1 + q \in 1..Len(s) /\ (1 + q) + 1 = 2 + q
    BY <1>5, <1>6, <1>8
  <2> QED
    BY <1>5, <1>8, <2>1
<1>11. Len(s) = Len(F) + 1
  BY <1>5, <1>6, <1>8
<1> QED
  BY <1>1, <1>4, <1>7, <1>8, <1>9, <1>10, <1>11, Zenon

\* The text of a well-formed challenge has its parameters laid out in it.
LEMMA TextIsSpelled ==
  ASSUME NEW c, WellFormed(c)
  PROVE  /\ \E key, end : Spelled(c, Tail(Text(c)), key, end)
         /\ Text(c)[1] = c.scheme
<1> DEFINE n == Len(c.params)
           pieces == [i \in 1..n |-> Piece(c, i)]
           F == FlattenSeq(pieces)
<1>1. n \in Nat /\ DOMAIN c.params = 1..n
  BY DEF WellFormed
<1>2. \A i \in 1..n : Piece(c, i) \in Seq(Tokens)
  BY PieceParts, Zenon DEF Parts
<1>3. /\ pieces \in [1..n -> Seq(Tokens)] /\ Len(pieces) = n
      /\ \A i \in 1..n : pieces[i] = Piece(c, i)
  BY <1>1, <1>2
<1>4. PICK off : Laid(Tokens, pieces, n, F, off)
  BY <1>1, <1>3, Flattened
<1>5. Text(c) = <<c.scheme, Space>> \o F
  BY <1>1 DEF Text
<1> HIDE DEF n, pieces, F
<1>6. PICK s : s = Tail(Text(c))
  OBVIOUS
<1>7. /\ F \in Seq(Tokens) /\ off \in [0..n -> Nat] /\ off[0] = 0 /\ off[n] = Len(F)
      /\ \A i \in 1..n : off[i] = off[i - 1] + Len(pieces[i]) /\ off[i] <= off[n]
      /\ \A i \in 1..n : \A j \in 1..Len(pieces[i]) : F[off[i - 1] + j] = pieces[i][j]
  BY <1>4 DEF Laid
<1>8. /\ s \in Seq(Tokens) /\ Len(s) = Len(F) + 1 /\ s[1] = Space
      /\ \A q \in 1..Len(F) : s[1 + q] = F[q]
  <2>1. c.scheme \in Tokens /\ Space \in Tokens
    BY DEF WellFormed, Tokens, Gap
  <2> QED
    BY <1>5, <1>6, <1>7, <2>1, TextTail
<1>9. ASSUME NEW i \in 1..n
      PROVE  \A j \in 1..Len(Piece(c, i)) : s[(1 + off[i - 1]) + j] = Piece(c, i)[j]
  <2> SUFFICES ASSUME NEW j \in 1..Len(Piece(c, i))
               PROVE  s[(1 + off[i - 1]) + j] = Piece(c, i)[j]
    OBVIOUS
  <2>1. off[i - 1] \in Nat /\ off[i] \in Nat /\ off[n] \in Nat
    BY <1>1, <1>7
  <2>2. Len(pieces[i]) = Len(Piece(c, i)) /\ Len(Piece(c, i)) \in Nat
    BY <1>2, <1>3
  <2>3. off[i - 1] + j \in 1..Len(F) /\ (1 + off[i - 1]) + j = 1 + (off[i - 1] + j)
    BY <1>7, <2>1, <2>2
  <2> QED
    <3>1. PICK q \in 1..Len(F) : q = off[i - 1] + j
      BY <2>3
    <3>2. (1 + off[i - 1]) + j = 1 + q /\ s[1 + q] = F[q]
      BY <1>8, <2>3, <3>1
    <3>3. F[q] = pieces[i][j]
      BY <1>7, <2>2, <3>1
    <3> QED
      BY <1>3, <3>2, <3>3
<1> DEFINE key == [i \in 1..(n + 1) |-> IF i = n + 1 THEN Len(s) + 1
                                        ELSE (1 + off[i - 1]) + Len(Lead(c, i)) + 1]
           end == [i \in 1..n |-> 1 + off[i]]
<1>10. \A i \in 1..n : /\ key[i] = (1 + off[i - 1]) + Len(Lead(c, i)) + 1
                       /\ end[i] = 1 + off[i]
  BY <1>1
<1>11. key[n + 1] = Len(s) + 1 /\ key = [i \in 1..(n + 1) |-> key[i]]
       /\ end = [i \in 1..n |-> end[i]]
  BY <1>1
<1> HIDE DEF key, end
<1>12. ASSUME NEW i \in 1..n
       PROVE  /\ ParamAt(c.params[i], c.equals, s, key[i], end[i])
              /\ end[i] \in 1..Len(s) /\ key[i] \in 1..(Len(s) + 1)
              /\ \A j \in 1..Len(Lead(c, i)) : s[(1 + off[i - 1]) + j] = Lead(c, i)[j]
  <2>1. PICK b : b = 1 + off[i - 1]
    OBVIOUS
  <2>2. b \in Nat /\ off[i - 1] \in Nat /\ off[i] \in Nat /\ off[n] \in Nat
    BY <1>1, <1>7, <2>1
  <2>3. PICK k, z : k = b + Len(Lead(c, i)) + 1 /\ z = b + Len(Piece(c, i))
    OBVIOUS
  <2>4. i \in 1..Len(c.params)
    BY DEF n
  <2>5. /\ k <= z
        /\ \A j \in 1..Len(Lead(c, i)) : s[b + j] = Lead(c, i)[j]
        /\ ParamAt(c.params[i], c.equals, s, k, z)
    <3>1. \A j \in 1..Len(Piece(c, i)) : s[b + j] = Piece(c, i)[j]
      BY <1>9, <2>1
    <3>2. /\ b + Len(Lead(c, i)) + 1 <= b + Len(Piece(c, i))
          /\ \A j \in 1..Len(Lead(c, i)) : s[b + j] = Lead(c, i)[j]
          /\ ParamAt(c.params[i], c.equals, s, b + Len(Lead(c, i)) + 1, b + Len(Piece(c, i)))
      BY <2>2, <2>4, <3>1, PieceIsParam, Zenon
    <3> QED
      BY <2>3, <3>2
  <2>6. z = 1 + off[i]
    <3>1. off[i] = off[i - 1] + Len(Piece(c, i)) /\ Len(Piece(c, i)) \in Nat
      BY <1>2, <1>3, <1>7
    <3>2. off[i - 1] \in Nat /\ b = 1 + off[i - 1] /\ z = b + Len(Piece(c, i))
      BY <2>1, <2>2, <2>3
    <3> QED
      BY ONLY <3>1, <3>2
  <2>7. k = key[i] /\ z = end[i]
    BY <1>10, <2>1, <2>3, <2>6
  <2>8. Len(Lead(c, i)) \in Nat
    BY DEF Lead, WellFormed
  <2>9. end[i] \in 1..Len(s) /\ key[i] \in 1..(Len(s) + 1)
    BY <1>7, <1>8, <2>2, <2>3, <2>5, <2>6, <2>7, <2>8
  <2> QED
    BY <2>1, <2>5, <2>7, <2>9
<1>13. ASSUME NEW i \in 1..n PROVE FollowedBy(s, end[i], key[i + 1])
  <2>1. CASE i = n
    <3>1. end[i] = Len(s) /\ key[i + 1] = Len(s) + 1 /\ Len(s) \in Nat
      <4>1. end[i] = 1 + off[n] /\ key[i + 1] = Len(s) + 1
        BY <1>10, <1>11, <2>1, Zenon
      <4>2. off[n] \in Nat /\ off[n] = Len(F) /\ Len(s) = Len(F) + 1
        BY <1>1, <1>7, <1>8
      <4> QED
        BY <4>1, <4>2
    <3>2. (end[i] + 1)..(key[i + 1] - 1) = {}
      BY <3>1
    <3> QED
      BY <3>1, <3>2 DEF FollowedBy
  <2>2. CASE i # n
    <3>1. i + 1 \in 1..n /\ (i + 1) - 1 = i
      BY <1>1, <2>2
    <3>2. PICK b, l : b = 1 + off[i] /\ l = Len(c.comma)
      OBVIOUS
    <3>3. c.comma \in Seq(Gap) /\ Comma \in Range(c.comma) /\ l \in Nat
      BY <3>2 DEF WellFormed
    <3>4. b \in Nat
      BY <1>1, <1>7, <3>2
    <3>5. Lead(c, i + 1) = c.comma
      BY <3>1 DEF Lead
    <3>6. end[i] = b /\ key[i + 1] = b + l + 1
      BY <1>10, <3>1, <3>2, <3>5
    <3>7. \A j \in 1..l : s[b + j] = c.comma[j]
      BY <1>12, <3>1, <3>2, <3>5
    <3>8. PICK t : t = key[i + 1]
      OBVIOUS
    <3>9. \A q \in (b + 1)..(t - 1) : s[q] \in Gap
      <4> SUFFICES ASSUME NEW q \in (b + 1)..(t - 1) PROVE s[q] \in Gap
        OBVIOUS
      <4>1. PICK j \in 1..l : q = b + j
        BY <3>3, <3>4, <3>6, <3>8
      <4> QED
        BY <3>2, <3>3, <3>7, <4>1, ElementOfSeq
    <3>10. \E q \in (b + 1)..(t - 1) : s[q] = Comma
      <4>1. PICK j \in 1..l : c.comma[j] = Comma
        BY <3>2, <3>3 DEF Range
      <4>2. b + j \in (b + 1)..(t - 1)
        BY <3>3, <3>4, <3>6, <3>8
      <4> QED
        BY <3>7, <4>1, <4>2
    <3>11. FollowedBy(s, b, t)
      BY <3>9, <3>10 DEF FollowedBy
    <3> QED
      BY <3>6, <3>8, <3>11, Zenon
  <2> QED
    BY <2>1, <2>2
<1>14. key[1] = 2
  <2>1. CASE n = 0
    BY <1>7, <1>8, <1>11, <2>1
  <2>2. CASE n # 0
    <3>1. 1 \in 1..n /\ 1 - 1 = 0
      BY <1>1, <2>2
    <3>2. Len(Lead(c, 1)) = 0
      BY DEF Lead
    <3> QED
      BY <1>7, <1>10, <3>1, <3>2
  <2> QED
    BY <2>1, <2>2
<1>15. \A j \in 1..(key[1] - 1) : s[j] \in Gap
  <2>1. \A j \in 1..(key[1] - 1) : j = 1
    BY <1>14
  <2> QED
    BY <1>8, <2>1 DEF Gap
<1>16. key \in [1..(n + 1) -> 1..(Len(s) + 1)] /\ end \in [1..n -> 1..Len(s)]
  <2>1. \A i \in 1..(n + 1) : key[i] \in 1..(Len(s) + 1)
    <3> SUFFICES ASSUME NEW i \in 1..(n + 1) PROVE key[i] \in 1..(Len(s) + 1)
      OBVIOUS
    <3>1. CASE i = n + 1
      BY <1>8, <1>11, <3>1
    <3>2. CASE i # n + 1
      BY <1>1, <1>12, <3>2
    <3> QED
      BY <3>1, <3>2
  <2> QED
    BY <1>11, <1>12, <2>1
<1>17. Spelled(c, s, key, end)
  BY <1>8, <1>11, <1>12, <1>13, <1>15, <1>16 DEF Spelled, n
<1>18. Text(c)[1] = c.scheme
  <2>1. c.scheme \in Tokens /\ Space \in Tokens
    BY DEF WellFormed, Tokens, Gap
  <2>2. PICK a : a = <<c.scheme, Space>>
    OBVIOUS
  <2>3. a \in Seq(Tokens) /\ 1 \in 1..Len(a) /\ a[1] = c.scheme
    BY <2>1, <2>2
  <2>4. (a \o F)[1] = a[1]
    BY <1>7, <2>3, ConcatParts
  <2> QED
    BY <1>5, <2>2, <2>3, <2>4
<1> QED
  BY <1>6, <1>17, <1>18, Zenon

\* parse_params reads in a challenge exactly the parameters the PBX put there, in
\* their order, however they are spelled, quoted and spaced, as long as no tab
\* follows "=" (registration.rs:223-267).
THEOREM ChallengeIsRead ==
  ASSUME NEW c, WellFormed(c), OnlySpaces(c)
  PROVE  ParseParams(Tail(Text(c))) = [i \in 1..Len(c.params) |-> Pair(c.params[i])]
BY TextIsSpelled, SpelledIsRead, Zenon

-----------------------------------------------------------------------------
(* What the client reads in a challenge it can answer.                     *)

\* For each key, what the client reads is what the PBX sent, at most one value.
LEMMA LookupIs ==
  ASSUME NEW c, WellFormed(c), OnlySpaces(c), NEW key
  PROVE  /\ Lookup(ParseParams(Tail(Text(c))), key) = Param(c, key)
         /\ Param(c, key) # {} => \E i \in 1..Len(c.params) :
              c.params[i].key = key /\ Param(c, key) = {c.params[i].value}
<1> DEFINE n == Len(c.params)
<1>1. PICK params : params = ParseParams(Tail(Text(c)))
  OBVIOUS
<1>2. params = [i \in 1..n |-> Pair(c.params[i])]
  BY <1>1, ChallengeIsRead
<1>3. DOMAIN c.params = 1..n /\ n \in Nat
  BY DEF WellFormed
<1>4. \A i, j \in 1..n : c.params[i].key = c.params[j].key => i = j
  BY <1>3 DEF WellFormed
<1>5. /\ DOMAIN params = 1..n
      /\ \A i \in 1..n : /\ params[i].key = <<c.params[i].key>>
                        /\ params[i].value = c.params[i].value
  BY <1>2 DEF Pair
<1> DEFINE at == {j \in DOMAIN params : params[j].key = <<key>>}
<1>6. at = {j \in 1..n : c.params[j].key = key}
  <2>1. \A x, y : <<x>> = <<y>> <=> x = y
    OBVIOUS
  <2> QED
    BY <1>5, <2>1
<1>7. Param(c, key) = {c.params[i].value : i \in at}
  BY <1>3, <1>6 DEF Param
<1>8. Lookup(params, key) = IF at = {} THEN {} ELSE {params[Max(at)].value}
  BY DEF Lookup
<1> HIDE DEF at, n
<1>9. CASE at = {}
  <2>1. Param(c, key) = {}
    BY <1>7, <1>9
  <2> QED
    BY <1>1, <1>8, <1>9, <2>1
<1>10. CASE at # {}
  <2>1. PICK i \in 1..n : i \in at /\ c.params[i].key = key
    BY <1>6, <1>10
  <2>2. at = {i}
    BY <1>4, <1>6, <2>1
  <2>3. Max(at) = i
    <3>1. at \in SUBSET Nat /\ \A k \in at : k <= i
      BY <1>3, <2>2
    <3> QED
      BY <2>1, <3>1, MaxIs
  <2>4. Param(c, key) = {c.params[i].value}
    BY <1>7, <2>2
  <2>5. Lookup(params, key) = {c.params[i].value}
    BY <1>5, <1>8, <1>10, <2>3
  <2> QED
    BY <1>1, <2>1, <2>4, <2>5 DEF n
<1> QED
  BY <1>9, <1>10

\* qop_includes_auth finds auth wherever it is in the list.
LEMMA AuthIsFound ==
  ASSUME NEW qop, QopOptions(qop), NEW x \in DOMAIN qop, qop[x] = "auth"
  PROVE  QopIncludesAuth(qop)
<1>1. /\ qop \in Seq(Words \cup Gap) /\ Len(qop) \in Nat /\ x \in 1..Len(qop)
      /\ \A i, j \in 1..Len(qop) : qop[i] \in Words /\ qop[j] \in Words /\ i < j =>
           \E k \in i..j : qop[k] = Comma
  BY DEF QopOptions
<1>2. qop[x] \notin Gap
  BY DEF Gap, Space, Tab, Comma
<1>3. qop[x] \in Words
  BY <1>1, <1>2, ElementOfSeq
<1>4. qop[x] # Comma /\ qop[x] \notin Blank
  BY <1>2 DEF Gap, Blank
<1>5. \E i \in 0..(x - 1) : /\ i = 0 \/ qop[i] = Comma
                           /\ \A j \in (i + 1)..(x - 1) : qop[j] # Comma
  <2> DEFINE D == {d \in 1..x : d = x \/ qop[x - d] = Comma}
  <2>1. D \in SUBSET Nat /\ D # {}
    BY <1>1
  <2>2. PICK d \in D : \A k \in D : d <= k
    BY <2>1, LeastElement
  <2>3. d \in 1..x /\ (d = x \/ qop[x - d] = Comma)
    OBVIOUS
  <2>4. ASSUME NEW j \in (x - d + 1)..(x - 1) PROVE qop[j] # Comma
    <3>1. x - j \in 1..x /\ x - (x - j) = j /\ ~(d <= x - j)
      BY <1>1, <2>3
    <3>2. x - j \notin D
      BY <2>2, <3>1
    <3> QED
      BY <3>1, <3>2
  <2>5. x - d \in 0..(x - 1) /\ (x - d = 0 \/ qop[x - d] = Comma)
    BY <1>1, <2>3
  <2> QED
    BY <2>4, <2>5
<1>6. PICK i \in 0..(x - 1) : /\ i = 0 \/ qop[i] = Comma
                              /\ \A j \in (i + 1)..(x - 1) : qop[j] # Comma
  BY <1>5
<1>7. PICK e : e = Find(qop, i + 1, {Comma})
  OBVIOUS
<1>8. /\ e \in (i + 1)..(Len(qop) + 1)
      /\ \A j \in (i + 1)..(e - 1) : qop[j] # Comma
      /\ e <= Len(qop) => qop[e] = Comma
  <2>1. i + 1 \in Nat /\ i + 1 <= Len(qop) + 1
    BY <1>1
  <2> QED
    BY <1>1, <1>7, <2>1, FindStops
<1>9. e > x
  <2>1. e # x
    BY <1>1, <1>4, <1>8
  <2>2. e \notin (i + 1)..(x - 1)
    BY <1>1, <1>6, <1>8
  <2> QED
    BY <1>1, <1>8, <2>1, <2>2
<1>10. ASSUME NEW j \in (i + 1)..(e - 1), j # x PROVE qop[j] \in Blank
  <2>1. j \in 1..Len(qop) /\ qop[j] # Comma
    BY <1>1, <1>8
  <2>2. qop[j] \notin Words
    <3> SUFFICES ASSUME qop[j] \in Words PROVE FALSE
      OBVIOUS
    <3>1. PICK k \in (i + 1)..(e - 1) : qop[k] = Comma
      <4>1. CASE j < x
        <5>1. PICK k \in j..x : qop[k] = Comma
          BY <1>1, <1>3, <2>1, <4>1
        <5>2. k \in (i + 1)..(e - 1)
          BY <1>1, <1>8, <1>9, <2>1
        <5> QED
          BY <5>1, <5>2
      <4>2. CASE x < j
        <5>1. PICK k \in x..j : qop[k] = Comma
          BY <1>1, <1>3, <2>1, <4>2
        <5>2. k \in (i + 1)..(e - 1)
          BY <1>1, <1>8, <1>9, <2>1
        <5> QED
          BY <5>1, <5>2
      <4> QED
        BY <1>1, <1>10, <2>1, <4>1, <4>2
    <3> QED
      BY <1>8, <3>1
  <2>3. qop[j] \in Gap
    BY <1>1, <2>1, <2>2, ElementOfSeq
  <2> QED
    BY <2>1, <2>3 DEF Gap, Blank
<1>11. Trim(SubSeq(qop, i + 1, e - 1)) = <<qop[x]>>
  <2>1. PICK b, z : b = i + 1 /\ z = e - 1
    OBVIOUS
  <2>2. b \in 1..Len(qop) /\ x \in b..Len(qop) /\ z \in x..Len(qop)
    BY <1>1, <1>8, <1>9, <2>1
  <2>3. (\A j \in b..(x - 1) : qop[j] \in Blank) /\ (\A j \in (x + 1)..z : qop[j] \in Blank)
    BY <1>1, <1>8, <1>9, <1>10, <2>1
  <2>4. Trim(SubSeq(qop, b, z)) = <<qop[x]>>
    BY <1>1, <1>4, <2>2, <2>3, TrimWord
  <2> QED
    BY <2>1, <2>4
<1>12. Lower(<<"auth">>) = <<"auth">>
  BY LowerCaseAssumption DEF Lower
<1>13. i \in 0..Len(qop)
  BY <1>1
<1> QED
  BY <1>6, <1>7, <1>11, <1>12, <1>13, Zenon DEF QopIncludesAuth

\* The value of an option that has one.
LEMMA TheOnly == ASSUME NEW x PROVE The({x}) = x
BY DEF The

\* What the client answers to a challenge it is made for is what the PBX checks
\* against.
LEMMA AnswerIsAuthentic ==
  ASSUME NEW c, WellFormed(c), Answerable(c), NEW uri
  PROVE  /\ Readable(WwwAuthenticate(c))
         /\ Authentic(Authorization(Challenge(Text(c)), uri), c)
<1>1. PICK d : d = Challenge(Text(c))
  OBVIOUS
<1>2. OnlySpaces(c)
  BY DEF Answerable, OnlySpaces
<1>3. /\ d.realm = Param(c, "realm") /\ d.nonce = Param(c, "nonce")
      /\ d.opaque = Param(c, "opaque") /\ d.qop = Param(c, "qop")
      /\ d.algorithm = Param(c, "algorithm")
  BY <1>1, <1>2, LookupIs DEF Challenge
<1>4. PICK realm : Param(c, "realm") = {realm}
  <2>1. Param(c, "realm") # {}
    BY DEF WellFormed, Answerable
  <2> QED
    BY <1>2, <2>1, LookupIs
<1>5. PICK nonce : Param(c, "nonce") = {nonce}
  <2>1. Param(c, "nonce") # {}
    BY DEF WellFormed, Answerable
  <2> QED
    BY <1>2, <2>1, LookupIs
<1>6. Text(c)[1] = "Digest"
  <2>1. Text(c)[1] = c.scheme
    BY TextIsSpelled
  <2> QED
    BY <2>1 DEF Answerable
<1>7. Readable(WwwAuthenticate(c))
  <2>1. WwwAuthenticate(c) = {Text(c)} /\ The(WwwAuthenticate(c)) = Text(c)
    BY TheOnly DEF WwwAuthenticate, Answerable
  <2>2. d.realm # {} /\ d.nonce # {} /\ d.algorithm \subseteq {<<"MD5">>, <<"md5">>}
    BY <1>3, <1>4, <1>5 DEF Answerable
  <2> QED
    BY <1>1, <1>6, <2>1, <2>2, Zenon DEF Readable
<1>8. (\E qop \in d.qop : QopIncludesAuth(qop)) <=> Param(c, "qop") # {}
  <2> SUFFICES ASSUME Param(c, "qop") # {}
               PROVE  \E qop \in d.qop : QopIncludesAuth(qop)
    BY <1>3
  <2>1. PICK qop \in Param(c, "qop") : \E x \in DOMAIN qop : qop[x] = "auth"
    BY DEF Answerable, OffersAuth
  <2>2. PICK i \in 1..Len(c.params) : /\ c.params[i].key = "qop"
                                      /\ Param(c, "qop") = {c.params[i].value}
    BY <1>2, LookupIs
  <2>3. qop = c.params[i].value
    BY <2>1, <2>2
  <2>4. QopOptions(qop)
    <3>1. i \in DOMAIN c.params
      BY <2>2 DEF WellFormed
    <3>2. WellFormedParam(c.params[i])
      BY <3>1 DEF WellFormed
    <3> QED
      BY <2>2, <2>3, <3>2 DEF WellFormedParam
  <2> QED
    BY <1>3, <2>1, <2>4, AuthIsFound
<1>9. PICK auth \in BOOLEAN : auth <=> Param(c, "qop") # {}
  OBVIOUS
<1>10. PICK a : a = Authorization(d, uri)
  OBVIOUS
<1>11. /\ a.username = Quoted(<<"user">>) /\ a.uri = Quoted(uri)
       /\ a.realm = Quoted(realm) /\ a.nonce = Quoted(nonce)
       /\ a.opaque = {Quoted(v) : v \in Param(c, "opaque")}
       /\ a.algorithm = Token(<<"MD5">>)
       /\ a.response = Quoted(Digest(realm, nonce, uri, Param(c, "qop") # {}))
  BY <1>3, <1>4, <1>5, <1>8, <1>10, TheOnly DEF Authorization
<1>12. /\ a.qop = IF Param(c, "qop") # {} THEN {Token(<<"auth">>)} ELSE {}
       /\ a.nc = IF Param(c, "qop") # {} THEN {Token(Nc)} ELSE {}
       /\ a.cnonce = IF Param(c, "qop") # {} THEN {Quoted(Cnonce)} ELSE {}
  BY <1>8, <1>10 DEF Authorization
<1>13. /\ {Quoted(v) : v \in {realm}} = {Quoted(realm)}
       /\ {Quoted(v) : v \in {nonce}} = {Quoted(nonce)}
  OBVIOUS
<1>14. a.qop # {} <=> Param(c, "qop") # {}
  BY <1>12
<1>15. /\ a.uri.value = uri /\ a.uri.quoted
       /\ Digest(realm, nonce, uri, a.qop # {})
            = Digest(realm, nonce, uri, Param(c, "qop") # {})
  BY <1>11, <1>14 DEF Digest, Quoted
<1>16. Param(c, "qop") # {} => OffersAuth(c)
  BY DEF Answerable
<1>17. Authentic(a, c)
  BY <1>4, <1>5, <1>11, <1>12, <1>13, <1>15, <1>16, TheOnly DEF Authentic
<1> QED
  BY <1>1, <1>7, <1>10, <1>17

-----------------------------------------------------------------------------
(* What the client reads in a grant.                                       *)

\* A bounded set of naturals has a greatest element.
LEMMA GreatestElement ==
  ASSUME NEW n \in Nat, NEW S \in SUBSET (0..n), S # {}
  PROVE  \E m \in S : \A k \in S : k <= m
<1> DEFINE D == {n - k : k \in S}
<1>1. D \in SUBSET Nat /\ D # {}
  <2>1. \A k \in S : n - k \in Nat
    OBVIOUS
  <2> QED
    BY <2>1, Zenon
<1>2. PICK d \in D : \A k \in D : d <= k
  BY <1>1, LeastElement
<1>3. PICK m \in S : d = n - m
  OBVIOUS
<1>4. ASSUME NEW k \in S PROVE k <= m
  <2>1. n - m <= n - k
    BY <1>2, <1>3
  <2> QED
    BY <2>1
<1> QED
  BY <1>4

\* What Trim leaves is a part of the text.
LEMMA TrimKeeps ==
  ASSUME NEW T, NEW w \in Seq(T)
  PROVE  /\ Trim(w) \in Seq(T)
         /\ \A i \in 1..Len(Trim(w)) : \E j \in 1..Len(w) : Trim(w)[i] = w[j]
<1> DEFINE words == {j \in DOMAIN w : w[j] \notin Blank}
<1>1. DOMAIN w = 1..Len(w) /\ Len(w) \in Nat
  OBVIOUS
<1>2. CASE words = {}
  <2>1. Trim(w) = <<>>
    BY <1>2 DEF Trim
  <2> QED
    BY <2>1
<1>3. CASE words # {}
  <2>1. words \in SUBSET (0..Len(w)) /\ words \in SUBSET Nat
    BY <1>1
  <2>2. PICK a \in words : \A k \in words : a <= k
    BY <1>3, <2>1, LeastElement
  <2>3. PICK b \in words : \A k \in words : k <= b
    BY <1>1, <1>3, <2>1, GreatestElement
  <2>4. Min(words) = a /\ Max(words) = b
    BY <2>1, <2>2, <2>3, MinIs, MaxIs
  <2>5. Trim(w) = SubSeq(w, a, b)
    BY <1>3, <2>4 DEF Trim
  <2>6. a \in 1..Len(w) /\ b \in a..Len(w)
    BY <1>1, <2>2, <2>3
  <2> HIDE DEF words
  <2>7. /\ SubSeq(w, a, b) \in Seq(T) /\ Len(SubSeq(w, a, b)) = b - a + 1
        /\ \A i \in 1..(b - a + 1) : SubSeq(w, a, b)[i] = w[a + i - 1]
    BY <2>6, SubSeqProperties
  <2>8. \A i \in 1..(b - a + 1) : a + i - 1 \in 1..Len(w)
    BY <1>1, <2>6
  <2> QED
    BY <2>5, <2>7, <2>8
<1> QED
  BY <1>2, <1>3

\* A key of one word is a word of the text.
LEMMA KeyInText ==
  ASSUME NEW T, NEW s \in Seq(T), NEW a \in 1..(Len(s) + 1), NEW b \in 1..(Len(s) + 1),
         NEW word, Lower(Trim(SubSeq(s, a, b - 1))) = <<word>>
  PROVE  \E j \in 1..Len(s) : Lower(<<s[j]>>) = <<word>>
<1>1. PICK w : w = SubSeq(s, a, b - 1)
  OBVIOUS
<1>2. PICK x : x = Trim(w)
  OBVIOUS
<1>3. w \in Seq(T) /\ \A i \in 1..Len(w) : \E j \in 1..Len(s) : w[i] = s[j]
  <2>1. CASE b <= a
    BY <1>1, <2>1, SubSeqProperties
  <2>2. CASE a < b
    <3>1. a \in 1..Len(s) /\ b - 1 \in a..Len(s)
      BY <2>2
    <3>2. w \in Seq(T) /\ Len(w) = b - a /\ \A i \in 1..(b - a) : w[i] = s[a + i - 1]
      BY <1>1, <3>1, SubSeqProperties
    <3>3. \A i \in 1..(b - a) : a + i - 1 \in 1..Len(s)
      BY <3>1
    <3> QED
      BY <3>2, <3>3
  <2> QED
    BY <2>1, <2>2
<1>4. x \in Seq(T) /\ \A i \in 1..Len(x) : \E j \in 1..Len(w) : x[i] = w[j]
  <2>1. w \in Seq(T)
    BY <1>3
  <2> QED
    BY ONLY <1>2, <2>1, TrimKeeps
<1>5. Lower(x) = <<word>>
  BY <1>1, <1>2
<1>6. DOMAIN x = 1..1
  <2>1. DOMAIN Lower(x) = DOMAIN x
    BY DEF Lower
  <2> QED
    BY <1>5, <2>1
<1>7. Len(x) = 1
  BY <1>4, <1>6
<1>8. x = <<x[1]>>
  BY <1>4, <1>7, OneElement
<1>9. PICK i \in 1..Len(w) : x[1] = w[i]
  BY <1>4, <1>7
<1>10. PICK j \in 1..Len(s) : w[i] = s[j]
  BY <1>3, <1>9
<1> QED
  BY <1>5, <1>8, <1>9, <1>10

\* Every pair of the parser is the pair of a round.
LEMMA RoundsOnly ==
  ASSUME NEW s, Len(s) \in Nat
  PROVE  ParseParams(s) \in
           Seq({Round(s, i).pairs[1] : i \in {j \in 1..Len(s) : Round(s, j).pairs # <<>>}})
<1> DEFINE N == Len(s)
           P == {Round(s, i).pairs[1] : i \in {j \in 1..Len(s) : Round(s, j).pairs # <<>>}}
<1>1. PICK from : CollectsFrom(s, 1, from) /\ ParseParams(s) = from[1]
  BY ParserTerminates
<1>2. \A i \in 1..(N + 1) : from[i] = IF i > N THEN <<>>
                                      ELSE Round(s, i).pairs \o from[Round(s, i).next]
  BY <1>1 DEF CollectsFrom
<1>3. ASSUME NEW i \in 1..N PROVE Round(s, i).pairs \in Seq(P)
  <2>1. CASE Round(s, i).pairs = <<>>
    BY <2>1
  <2>2. CASE Round(s, i).pairs # <<>>
    <3>1. PICK p : Round(s, i).pairs = <<p>>
      BY <2>2, RoundAdvances
    <3>2. Round(s, i).pairs[1] \in P
      BY <2>2
    <3>3. p \in P
      BY <3>1, <3>2
    <3> QED
      BY <3>1, <3>3
  <2> QED
    BY <2>1, <2>2
<1> HIDE DEF P
<1> DEFINE B == {i \in 1..(N + 1) : from[i] \notin Seq(P)}
<1>4. B = {}
  <2> SUFFICES ASSUME B # {} PROVE FALSE
    OBVIOUS
  <2>1. PICK i \in B : \A k \in B : k <= i
    <3>1. N + 1 \in Nat /\ B \in SUBSET (0..(N + 1))
      OBVIOUS
    <3> QED
      BY <3>1, GreatestElement
  <2>2. i \in 1..(N + 1) /\ from[i] \notin Seq(P) /\ N \in Nat
    BY <2>1
  <2> HIDE DEF N
  <2>3. CASE i > N
    <3>1. from[i] = <<>>
      BY <1>2, <2>3, <2>2
    <3> QED
      BY <2>2, <3>1
  <2>4. CASE i <= N
    <3>1. i \in 1..N
      BY <2>4, <2>2
    <3>2. Round(s, i).next \in (i + 1)..(N + 1)
      BY <3>1, RoundAdvances DEF N
    <3>3. PICK next : next = Round(s, i).next
      OBVIOUS
    <3>4. next \in 1..(N + 1) /\ ~(next <= i)
      BY <3>1, <3>2, <3>3
    <3>5. from[next] \in Seq(P)
      BY <2>1, <3>4
    <3>6. from[i] = Round(s, i).pairs \o from[next]
      <4>1. ~(i > N)
        BY <2>4, <2>2
      <4> QED
        BY <1>2, <2>2, <3>3, <4>1, Zenon
    <3>7. Round(s, i).pairs \in Seq(P)
      BY <1>3, <3>1
    <3>8. PICK pairs : pairs = Round(s, i).pairs
      OBVIOUS
    <3>9. pairs \o from[next] \in Seq(P)
      BY <3>5, <3>7, <3>8
    <3> QED
      BY <2>2, <3>6, <3>8, <3>9
  <2> QED
    BY <2>3, <2>4, <2>2
<1>5. 1 \in 1..(N + 1)
  OBVIOUS
<1> QED
  BY <1>1, <1>4, <1>5 DEF P

\* Without the word expires in a Contact, its parameters state nothing.
LEMMA NothingStated ==
  ASSUME NEW h, h.value \in Seq(STRING), NEW k \in DOMAIN Stated(h, "Contact"),
         \A w \in Range(h.value) : Lower(<<w>>) # <<"expires">>
  PROVE  Stated(h, "Contact")[k] = <<>>
<1>1. PICK s : s = h.value
  OBVIOUS
<1>2. PICK params : params = ParseParams(s)
  OBVIOUS
<1>3. "Contact" # "Expires"
  OBVIOUS
<1>4. Stated(h, "Contact") = IF h.name # "Contact" THEN <<>>
                             ELSE [j \in DOMAIN params |-> IF params[j].key = <<"expires">>
                                                           THEN params[j].value ELSE <<>>]
  BY <1>1, <1>2, <1>3, Zenon DEF Stated
<1>5. h.name = "Contact"
  BY <1>4
<1>6. k \in DOMAIN params
  BY <1>4, <1>5
<1>7. params[k].key # <<"expires">>
  <2> SUFFICES ASSUME params[k].key = <<"expires">> PROVE FALSE
    OBVIOUS
  <2>1. Len(s) \in Nat /\ s \in Seq(STRING) /\ DOMAIN s = 1..Len(s)
    BY <1>1
  <2>2. PICK i \in 1..Len(s) : Round(s, i).pairs # <<>> /\ params[k] = Round(s, i).pairs[1]
    <3>1. PICK P : P = {Round(s, i).pairs[1] :
                          i \in {j \in 1..Len(s) : Round(s, j).pairs # <<>>}}
      OBVIOUS
    <3>2. params \in Seq(P)
      BY <1>2, <2>1, <3>1, RoundsOnly
    <3>3. params[k] \in P
      BY <1>6, <3>2
    <3> QED
      BY <3>1, <3>3, Zenon
  <2>3. PICK a, b \in 1..(Len(s) + 1) : \E v :
          Round(s, i).pairs = <<[key |-> Lower(Trim(SubSeq(s, a, b - 1))), value |-> v]>>
    BY <2>1, <2>2, RoundAdvances
  <2>4. Lower(Trim(SubSeq(s, a, b - 1))) = <<"expires">>
    BY <2>2, <2>3
  <2>5. PICK j \in 1..Len(s) : Lower(<<s[j]>>) = <<"expires">>
    BY <2>1, <2>4, KeyInText
  <2>6. s[j] \in Range(s)
    BY <2>1 DEF Range
  <2> QED
    BY <1>1, <2>5, <2>6
<1> QED
  BY <1>4, <1>5, <1>6, <1>7

\* The first u32 among the values, if one of them is.
LEMMA FirstIs ==
  ASSUME NEW T, NEW values \in Seq(T)
  PROVE  \/ /\ \A j \in 1..Len(values) : ~IsU32(values[j])
            /\ FirstU32(values) = Configured
         \/ \E m \in 1..Len(values) :
              /\ IsU32(values[m]) /\ FirstU32(values) = values[m]
              /\ \A j \in 1..(m - 1) : ~IsU32(values[j])
<1> DEFINE n == Len(values)
           S == {n + 1} \cup {j \in DOMAIN values : IsU32(values[j])}
<1>1. n \in Nat /\ DOMAIN values = 1..n
  OBVIOUS
<1>2. PICK all : all = Append(values, Configured)
  OBVIOUS
<1>3. /\ Len(all) = n + 1 /\ all[n + 1] = Configured
      /\ \A j \in 1..n : all[j] = values[j]
  <2>1. PICK U : U = T \cup {Configured}
    OBVIOUS
  <2>2. values \in Seq(U) /\ Configured \in U
    BY <2>1, SeqMonotonic
  <2> QED
    BY <1>2, <2>2, AppendProperties
<1>4. S \in SUBSET Nat /\ S # {}
  BY <1>1
<1>5. PICK m \in S : \A k \in S : m <= k
  BY <1>4, LeastElement
<1>6. Min(S) = m
  BY <1>4, <1>5, MinIs
<1>7. FirstU32(values) = all[m]
  BY <1>2, <1>3, <1>6 DEF FirstU32
<1>8. \A j \in 1..n : IsU32(values[j]) => j \in S
  BY <1>1
<1>9. m = n + 1 \/ (m \in 1..n /\ IsU32(values[m]))
  BY <1>1
<1> HIDE DEF S, n
<1>10. CASE m = n + 1
  <2>1. \A j \in 1..n : ~(m <= j)
    BY <1>1, <1>10
  <2>2. \A j \in 1..n : ~IsU32(values[j])
    BY <1>5, <1>8, <2>1, Zenon
  <2> QED
    BY <1>3, <1>7, <1>10, <2>2 DEF n
<1>11. CASE m \in 1..n /\ IsU32(values[m])
  <2>1. \A j \in 1..(m - 1) : j \in 1..n /\ ~(m <= j)
    BY <1>1, <1>11
  <2>2. \A j \in 1..(m - 1) : ~IsU32(values[j])
    BY <1>5, <1>8, <2>1, Zenon
  <2> QED
    BY <1>3, <1>7, <1>11, <2>2 DEF n
<1> QED
  BY <1>9, <1>10, <1>11

\* A sequence is one over every set that has its elements.
LEMMA Retyped ==
  ASSUME NEW T, NEW q \in Seq(T), NEW V, Range(q) \subseteq V
  PROVE  q \in Seq(V)
<1>1. Len(q) \in Nat /\ DOMAIN q = 1..Len(q) /\ q = [j \in 1..Len(q) |-> q[j]]
  OBVIOUS
<1>2. \A j \in 1..Len(q) : q[j] \in V
  BY <1>1 DEF Range
<1> QED
  BY <1>1, <1>2, SeqDef

Headers == Seq([name : STRING, value : Seq(STRING)])

\* The value of a header is a sequence of tokens.
LEMMA HeaderValue ==
  ASSUME NEW headers \in Headers, NEW i \in 1..Len(headers)
  PROVE  headers[i].value \in Seq(STRING)
<1>1. PICK T : T = [name : STRING, value : Seq(STRING)]
  OBVIOUS
<1>2. headers \in Seq(T)
  BY <1>1 DEF Headers
<1>3. headers[i] \in T
  BY <1>2, ElementOfSeq
<1> QED
  BY <1>1, <1>3

\* What one header states is a sequence.
LEMMA StatedIsSeq ==
  ASSUME NEW h, h.value \in Seq(STRING), NEW name \in {"Expires", "Contact"}
  PROVE  \E T : Stated(h, name) \in Seq(T)
<1>1. CASE h.name # name
  BY <1>1 DEF Stated
<1>2. CASE h.name = name /\ name = "Expires"
  <2>1. Stated(h, name) = <<h.value>>
    BY <1>2 DEF Stated
  <2>2. <<h.value>> \in Seq(Seq(STRING))
    OBVIOUS
  <2> QED
    BY <2>1, <2>2
<1>3. CASE h.name = name /\ name = "Contact"
  <2>1. PICK params : params = ParseParams(h.value)
    OBVIOUS
  <2>2. \E P : params \in Seq(P)
    <3>1. PICK s : s = h.value
      OBVIOUS
    <3>2. Len(s) \in Nat
      BY <3>1
    <3> QED
      BY <2>1, <3>1, <3>2, RoundsOnly, Zenon
  <2>3. Len(params) \in Nat /\ DOMAIN params = 1..Len(params)
    BY <2>2
  <2>4. name # "Expires"
    BY <1>3
  <2>5. Stated(h, name) = [j \in 1..Len(params) |->
                             IF params[j].key = <<"expires">> THEN params[j].value ELSE <<>>]
    BY <1>3, <2>1, <2>3, <2>4, Zenon DEF Stated
  <2>6. PICK T : T = {params[j].value : j \in 1..Len(params)} \cup {<<>>}
    OBVIOUS
  <2>7. \A j \in 1..Len(params) :
          (IF params[j].key = <<"expires">> THEN params[j].value ELSE <<>>) \in T
    BY <2>6
  <2>8. [j \in 1..Len(params) |->
           IF params[j].key = <<"expires">> THEN params[j].value ELSE <<>>] \in Seq(T)
    BY <2>3, <2>7, SeqDef
  <2> QED
    BY <2>5, <2>8
<1> QED
  BY <1>1, <1>2, <1>3

\* all holds what the headers of a name state, and nothing else.
Collected(headers, name, all) ==
    /\ \A q \in 1..Len(all) : \E i \in 1..Len(headers) :
         \E j \in 1..Len(Stated(headers[i], name)) : all[q] = Stated(headers[i], name)[j]
    /\ \A i \in 1..Len(headers) : \A j \in 1..Len(Stated(headers[i], name)) :
         \E q \in 1..Len(all) : all[q] = Stated(headers[i], name)[j]

\* And so is what they state together, with nothing lost.
LEMMA AllStated ==
  ASSUME NEW headers \in Headers, NEW name \in {"Expires", "Contact"}
  PROVE  \E all, V : /\ all = FlattenSeq([i \in DOMAIN headers |-> Stated(headers[i], name)])
                     /\ all \in Seq(V) /\ Collected(headers, name, all)
<1> DEFINE n == Len(headers)
           pieces == [i \in 1..n |-> Stated(headers[i], name)]
           V == UNION {Range(Stated(headers[i], name)) : i \in 1..n}
<1>1. n \in Nat /\ DOMAIN headers = 1..n
  BY DEF Headers
<1>2. ASSUME NEW i \in 1..n PROVE Stated(headers[i], name) \in Seq(V)
  <2>1. headers[i].value \in Seq(STRING)
    BY HeaderValue
  <2>2. PICK T : Stated(headers[i], name) \in Seq(T)
    BY <2>1, StatedIsSeq
  <2>3. Range(Stated(headers[i], name)) \subseteq V
    OBVIOUS
  <2> HIDE DEF V
  <2> QED
    BY <2>2, <2>3, Retyped
<1> HIDE DEF V
<1>3. pieces \in [1..n -> Seq(V)] /\ Len(pieces) = n
      /\ \A i \in 1..n : pieces[i] = Stated(headers[i], name)
  BY <1>1, <1>2
<1>4. PICK all : all = FlattenSeq(pieces)
  OBVIOUS
<1>5. all = FlattenSeq([i \in DOMAIN headers |-> Stated(headers[i], name)])
  BY <1>1, <1>4
<1> HIDE DEF pieces, n
<1>6. PICK off : Laid(V, pieces, n, all, off)
  BY <1>1, <1>3, <1>4, Flattened
<1>7. /\ all \in Seq(V) /\ off \in [0..n -> Nat] /\ off[n] = Len(all)
      /\ \A i \in 1..n : off[i] = off[i - 1] + Len(pieces[i]) /\ off[i] <= off[n]
      /\ \A i \in 1..n : \A j \in 1..Len(pieces[i]) : all[off[i - 1] + j] = pieces[i][j]
      /\ \A q \in 1..Len(all) : \E i \in 1..n : \E j \in 1..Len(pieces[i]) : q = off[i - 1] + j
  BY <1>6 DEF Laid
<1>8. \A q \in 1..Len(all) : \E i \in 1..n : \E j \in 1..Len(pieces[i]) : all[q] = pieces[i][j]
  BY <1>7
<1>9. ASSUME NEW i \in 1..n, NEW j \in 1..Len(pieces[i])
      PROVE  \E q \in 1..Len(all) : all[q] = pieces[i][j]
  <2>1. off[i - 1] \in Nat /\ off[i] \in Nat /\ Len(pieces[i]) \in Nat /\ Len(all) \in Nat
    BY <1>1, <1>3, <1>7
  <2>2. off[i] = off[i - 1] + Len(pieces[i]) /\ off[i] <= Len(all)
    BY <1>7
  <2>3. off[i - 1] + j \in 1..Len(all)
    BY <2>1, <2>2
  <2> QED
    BY <1>7, <2>3
<1>10. Collected(headers, name, all)
  <2>1. \A i \in 1..n : pieces[i] = Stated(headers[i], name)
    BY <1>3
  <2>2. \A i \in 1..n : \A j \in 1..Len(Stated(headers[i], name)) :
          \E q \in 1..Len(all) : all[q] = Stated(headers[i], name)[j]
    BY <1>9, <2>1
  <2>3. \A q \in 1..Len(all) : \E i \in 1..n :
          \E j \in 1..Len(Stated(headers[i], name)) : all[q] = Stated(headers[i], name)[j]
    BY <1>8, <2>1
  <2> QED
    BY <2>2, <2>3, Zenon DEF Collected, n
<1> QED
  BY <1>5, <1>7, <1>10

\* extract_expires takes what such a PBX means.
LEMMA GrantIsRead ==
  ASSUME NEW g, ByExpiresHeader(g)
  PROVE  ExtractExpires(g.headers) = g.seconds
<1>1. PICK h : h = g.headers
  OBVIOUS
<1>2. h \in Headers /\ Len(h) \in Nat /\ DOMAIN h = 1..Len(h)
  BY <1>1 DEF ByExpiresHeader, Headers
<1>3. PICK e, V : /\ e = FlattenSeq([i \in DOMAIN h |-> Stated(h[i], "Expires")])
                  /\ e \in Seq(V) /\ Collected(h, "Expires", e)
  BY <1>2, AllStated
<1>4. PICK c, W : /\ c = FlattenSeq([i \in DOMAIN h |-> Stated(h[i], "Contact")])
                  /\ c \in Seq(W) /\ Collected(h, "Contact", c)
  BY <1>2, AllStated
<1>5. PICK values : values = e \o c
  OBVIOUS
<1>6. ExtractExpires(g.headers) = FirstU32(values)
  BY <1>1, <1>3, <1>4, <1>5, Zenon DEF ExtractExpires
<1>7. /\ values \in Seq(V \cup W) /\ Len(values) = Len(e) + Len(c)
      /\ \A q \in 1..Len(e) : values[q] = e[q]
      /\ \A q \in 1..Len(c) : values[Len(e) + q] = c[q]
  <2>1. e \in Seq(V \cup W) /\ c \in Seq(V \cup W)
    BY <1>3, <1>4, SeqMonotonic
  <2> QED
    BY <1>5, <2>1, ConcatParts
<1>8. Len(e) \in Nat /\ Len(c) \in Nat
  BY <1>3, <1>4
<1> DEFINE Says(i) == h[i].name = "Expires" /\ IsU32(h[i].value)
<1>9. \A i \in 1..Len(h) :
        Stated(h[i], "Expires") = IF h[i].name # "Expires" THEN <<>> ELSE <<h[i].value>>
  BY DEF Stated
<1>10. ASSUME NEW q \in 1..Len(e)
       PROVE  \E i \in 1..Len(h) : h[i].name = "Expires" /\ e[q] = h[i].value
  <2>1. PICK i \in 1..Len(h) : \E j \in 1..Len(Stated(h[i], "Expires")) :
                                 e[q] = Stated(h[i], "Expires")[j]
    BY <1>3 DEF Collected
  <2>2. PICK j \in 1..Len(Stated(h[i], "Expires")) : e[q] = Stated(h[i], "Expires")[j]
    BY <2>1
  <2>3. h[i].name = "Expires"
    <3> SUFFICES ASSUME h[i].name # "Expires" PROVE FALSE
      OBVIOUS
    <3>1. Stated(h[i], "Expires") = <<>>
      BY <1>9
    <3> QED
      BY <2>2, <3>1
  <2>4. Stated(h[i], "Expires") = <<h[i].value>>
    BY <1>9, <2>3
  <2>5. j \in 1..1
    BY <2>2, <2>4
  <2> QED
    BY <2>2, <2>3, <2>4, <2>5
<1>11. CASE \E i \in 1..Len(h) : Says(i)
  <2>1. \A i \in 1..Len(h) : Says(i) => h[i].value = g.seconds
    BY <1>1, <1>2, <1>11 DEF ByExpiresHeader
  <2>2. PICK i \in 1..Len(h) : Says(i)
    BY <1>11
  <2>3. Stated(h[i], "Expires") = <<h[i].value>>
    BY <1>9, <2>2
  <2>4. PICK q \in 1..Len(e) : e[q] = h[i].value
    <3>1. 1 \in 1..Len(Stated(h[i], "Expires"))
      <4>1. Len(<<h[i].value>>) = 1 /\ 1 \in 1..1
        OBVIOUS
      <4> QED
        BY <2>3, <4>1, Zenon
    <3>2. PICK q \in 1..Len(e) : e[q] = Stated(h[i], "Expires")[1]
      BY <1>3, <3>1 DEF Collected
    <3> QED
      BY <2>3, <3>2
  <2>5. q \in 1..Len(values) /\ IsU32(values[q])
    BY <1>7, <1>8, <2>2, <2>4
  <2>6. PICK m \in 1..Len(values) : /\ IsU32(values[m]) /\ FirstU32(values) = values[m]
                                    /\ \A j \in 1..(m - 1) : ~IsU32(values[j])
    BY <1>7, <2>5, FirstIs
  <2>7. m \in 1..Len(e)
    <3>1. q \notin 1..(m - 1)
      BY <2>5, <2>6
    <3> QED
      BY <1>7, <1>8, <3>1
  <2>8. PICK k \in 1..Len(h) : h[k].name = "Expires" /\ e[m] = h[k].value
    BY <1>10, <2>7
  <2>9. values[m] = h[k].value /\ Says(k)
    BY <1>7, <2>6, <2>7, <2>8
  <2> QED
    BY <1>6, <2>1, <2>6, <2>9
<1>12. CASE ~\E i \in 1..Len(h) : Says(i)
  <2>1. /\ g.seconds = Configured
        /\ \A i \in 1..Len(h) : h[i].name = "Contact" =>
             \A w \in Range(h[i].value) : Lower(<<w>>) # <<"expires">>
    BY <1>1, <1>2, <1>12 DEF ByExpiresHeader
  <2>2. ASSUME NEW q \in 1..Len(c) PROVE c[q] = <<>>
    <3>1. PICK i \in 1..Len(h) : \E j \in 1..Len(Stated(h[i], "Contact")) :
                                   c[q] = Stated(h[i], "Contact")[j]
      BY <1>4 DEF Collected
    <3>2. PICK j \in 1..Len(Stated(h[i], "Contact")) : c[q] = Stated(h[i], "Contact")[j]
      BY <3>1
    <3>3. h[i].name = "Contact"
      <4> SUFFICES ASSUME h[i].name # "Contact" PROVE FALSE
        OBVIOUS
      <4>1. Stated(h[i], "Contact") = <<>>
        BY DEF Stated
      <4> QED
        BY <3>2, <4>1
    <3>4. h[i].value \in Seq(STRING)
      BY <1>2, HeaderValue
    <3>5. j \in DOMAIN Stated(h[i], "Contact")
      <4>1. PICK T : Stated(h[i], "Contact") \in Seq(T)
        BY <3>4, StatedIsSeq
      <4> QED
        BY <3>2, <4>1
    <3>6. \A w \in Range(h[i].value) : Lower(<<w>>) # <<"expires">>
      BY <2>1, <3>3
    <3>7. Stated(h[i], "Contact")[j] = <<>>
      BY <3>4, <3>5, <3>6, NothingStated
    <3> QED
      BY <3>2, <3>7
  <2>3. ~IsU32(<<>>)
    BY DEF IsU32
  <2>4. ASSUME NEW q \in 1..Len(values) PROVE ~IsU32(values[q])
    <3>1. CASE q \in 1..Len(e)
      BY <1>7, <1>10, <1>12, <3>1
    <3>2. CASE q \notin 1..Len(e)
      <4>1. q - Len(e) \in 1..Len(c) /\ q = Len(e) + (q - Len(e))
        BY <1>7, <1>8, <3>2
      <4>2. values[q] = <<>>
        BY <1>7, <2>2, <4>1
      <4> QED
        BY <2>3, <4>2
    <3> QED
      BY <3>1, <3>2
  <2>5. FirstU32(values) = Configured
    BY <1>7, <2>4, FirstIs
  <2> QED
    BY <1>6, <2>1, <2>5
<1> QED
  BY <1>11, <1>12

-----------------------------------------------------------------------------
(* The attempt.                                                            *)

\* What the client has to answer, and has answered, is about a challenge of the
\* PBX's.
AnswerInvariant ==
    /\ stage \in {"challenged", "answered"} => challenge \in Challenges
    /\ stage = "answered" =>
         /\ authorization = Authorization(Challenge(Text(challenge)), DigestUri)
         /\ authorization.uri = Quoted(DigestUri)
    /\ ChallengeIsAnswered

\* Whatever challenges the PBX sends, those the client is made for are answered
\* with the digest the PBX computes; one that compares the uri as well refuses
\* them only where domain and server differ.  For every set of challenges in the
\* grammar's form, of any length and spelling.
THEOREM EveryChallengeIsAnswered == AttemptSpec => []ChallengeIsAnswered
<1>1. AttemptInit => AnswerInvariant
  BY DEF AttemptInit, AnswerInvariant, ChallengeIsAnswered
<1>2. AnswerInvariant /\ [AttemptNext]_attemptVars => AnswerInvariant'
  <2> SUFFICES ASSUME AnswerInvariant, [AttemptNext]_attemptVars PROVE AnswerInvariant'
    OBVIOUS
  <2> USE DEF AnswerInvariant, ChallengeIsAnswered
  <2>1. ASSUME NEW c \in Challenges, PbxChallenges(c) PROVE AnswerInvariant'
    BY <2>1 DEF PbxChallenges
  <2>2. CASE Answer
    <3>1. authorization' = Authorization(Challenge(Text(challenge)), DigestUri)
      BY <2>2 DEF Answer
    <3>2. DigestUri' = DigestUri
      BY <2>2 DEF Answer, DigestUri
    <3>3. authorization'.uri = Quoted(DigestUri)
      BY <3>1 DEF Authorization
    <3> QED
      BY <2>2, <3>1, <3>2, <3>3 DEF Answer
  <2>3. CASE GiveUp
    <3>1. /\ stage = "challenged" /\ stage' = "failed" /\ challenge' = challenge
          /\ ~Readable(WwwAuthenticate(challenge))
      BY <2>3 DEF GiveUp
    <3>2. challenge \in Challenges
      BY <3>1
    <3>3. ~Answerable(challenge)
      BY <3>1, <3>2, ChallengeAssumption, AnswerIsAuthentic
    <3> QED
      BY <3>1, <3>3
  <2>4. ASSUME NEW g \in Oks, PbxGrants(g) PROVE AnswerInvariant'
    BY <2>4 DEF PbxGrants
  <2>5. CASE PbxDenies
    <3>1. /\ stage = "answered" /\ stage' = "rejected" /\ challenge' = challenge
          /\ ~Authentic(authorization, challenge)
      BY <2>5 DEF PbxDenies
    <3>2. /\ challenge \in Challenges
          /\ authorization = Authorization(Challenge(Text(challenge)), DigestUri)
      BY <3>1
    <3>3. ~Answerable(challenge)
      BY <3>1, <3>2, ChallengeAssumption, AnswerIsAuthentic
    <3> QED
      BY <3>1, <3>3
  <2>6. CASE PbxComparesUris
    <3>1. /\ stage = "answered" /\ stage' = "mismatched" /\ config' = config
          /\ authorization.uri.value # RequestUri
      BY <2>6 DEF PbxComparesUris
    <3>2. authorization.uri.value = DigestUri
      BY <3>1 DEF Quoted
    <3>3. config.domain # config.server
      BY <3>1, <3>2 DEF DigestUri, RequestUri
    <3> QED
      BY <3>1, <3>3
  <2>7. CASE Registered
    BY <2>7 DEF Registered
  <2>8. CASE UNCHANGED attemptVars
    BY <2>8 DEF attemptVars, DigestUri
  <2> QED
    BY <2>1, <2>2, <2>3, <2>4, <2>5, <2>6, <2>7, <2>8 DEF AttemptNext
<1>3. AnswerInvariant => ChallengeIsAnswered
  BY DEF AnswerInvariant
<1> QED
  BY <1>1, <1>2, <1>3, PTL DEF AttemptSpec

GrantInvariant == /\ stage = "granted" => grant \in Oks
                  /\ GrantIsUnderstood

\* The refresh timer is set to what the PBX means, if it says so in an Expires
\* header or not at all, whatever the other headers are and wherever it stands.
THEOREM EveryGrantIsUnderstood ==
  ASSUME \A g \in Oks : ByExpiresHeader(g)
  PROVE  AttemptSpec => []GrantIsUnderstood
<1>1. AttemptInit => GrantInvariant
  BY DEF AttemptInit, GrantInvariant, GrantIsUnderstood
<1>2. GrantInvariant /\ [AttemptNext]_attemptVars => GrantInvariant'
  <2> SUFFICES ASSUME GrantInvariant, [AttemptNext]_attemptVars PROVE GrantInvariant'
    OBVIOUS
  <2> USE DEF GrantInvariant, GrantIsUnderstood
  <2>1. ASSUME NEW c \in Challenges, PbxChallenges(c) PROVE GrantInvariant'
    BY <2>1 DEF PbxChallenges
  <2>2. CASE Answer
    BY <2>2 DEF Answer
  <2>3. CASE GiveUp
    BY <2>3 DEF GiveUp
  <2>4. ASSUME NEW g \in Oks, PbxGrants(g) PROVE GrantInvariant'
    BY <2>4 DEF PbxGrants
  <2>5. CASE PbxDenies
    BY <2>5 DEF PbxDenies
  <2>6. CASE Registered
    <3>1. /\ stage = "granted" /\ stage' = "registered" /\ grant' = grant
          /\ expires' = ExtractExpires(grant.headers)
      BY <2>6 DEF Registered
    <3>2. ByExpiresHeader(grant)
      BY <3>1
    <3>3. expires' = grant.seconds
      BY <3>1, <3>2, GrantIsRead
    <3> QED
      BY <3>1, <3>3
  <2>7. CASE PbxComparesUris
    BY <2>7 DEF PbxComparesUris
  <2>8. CASE UNCHANGED attemptVars
    BY <2>8 DEF attemptVars
  <2> QED
    BY <2>1, <2>2, <2>3, <2>4, <2>5, <2>6, <2>7, <2>8 DEF AttemptNext
<1>3. GrantInvariant => GrantIsUnderstood
  BY DEF GrantInvariant
<1> QED
  BY <1>1, <1>2, <1>3, PTL DEF AttemptSpec

=============================================================================
