------------------------------- MODULE SipAuth -------------------------------
(***************************************************************************)
(* What client and PBX say in one attempt to register: the challenge as    *)
(* parse_challenge reads it, the digest (digest_auth.rs) that answers it,  *)
(* and the expiry that extract_expires takes from the PBX's 200 OK         *)
(* (registration.rs).  Registration has the attempts, losses and timers    *)
(* around it and takes the outcome of a challenge as given.                *)
(*                                                                         *)
(* Data.  Header text is a sequence of tokens: words, and the characters   *)
(* the parser looks at.  The client's own header is a record of its        *)
(* parameters, each with its quotes: the PBX's parser is external and      *)
(* takes a parameter only in the form the grammar gives it.  A hash is the *)
(* term that was hashed: MD5 has no collisions here.                       *)
(***************************************************************************)
EXTENDS Naturals, Sequences, SequencesExt

CONSTANTS Challenges, \* the PBX's challenges
          Oks,        \* its 200 OKs: their headers, and the seconds it means
          Numbers,    \* the words that are a u32
          LowerCase,  \* LowerCase[w]: w in lower case, for words that are not
          Configured, \* config.expires
          Hosts       \* names of a PBX

\* The characters the parser looks at.
Space == "space"
Tab == "tab"
Comma == "comma"
Equals == "equals"
Quote == "quote"
Blank == {Space, Tab}
Gap == {Space, Comma, Tab}

VARIABLES
    config,        \* config.domain and config.server, which need not be equal
    stage,         \* how far the attempt is
    challenge,     \* the PBX's challenge, or <<>>
    authorization, \* the client's Authorization header, or <<>>
    grant,         \* the PBX's 200 OK, or <<>>
    expires        \* Registered.expires, or <<>>

attemptVars == <<config, stage, challenge, authorization, grant, expires>>

AttemptInit ==
    /\ config \in [domain : Hosts, server : Hosts]
    /\ stage = "registering"
    /\ challenge = <<>> /\ authorization = <<>> /\ grant = <<>> /\ expires = <<>>

-----------------------------------------------------------------------------
(* parse_params.                                                           *)

\* The first position from i on whose token is in T, and whose token is not.
Find(s, i, T) == Min({Len(s) + 1} \cup {j \in i..Len(s) : s[j] \in T})
Skip(s, i, T) == Min({Len(s) + 1} \cup {j \in i..Len(s) : s[j] \notin T})

Trim(s) == LET words == {j \in DOMAIN s : s[j] \notin Blank}
           IN  IF words = {} THEN <<>> ELSE SubSeq(s, Min(words), Max(words))

Lower(s) == [j \in DOMAIN s |-> IF s[j] \in DOMAIN LowerCase THEN LowerCase[s[j]]
                                ELSE s[j]]

\* The value that starts at i, and where the parser goes on.  A quoted value
\* ends at the next quote.
ValueAt(s, i) ==
    IF i <= Len(s) /\ s[i] = Quote
    THEN LET end == Find(s, i + 1, {Quote})
         IN  [value |-> SubSeq(s, i + 1, end - 1), next |-> Min({end, Len(s)}) + 1]
    ELSE LET end == Find(s, i, {Comma})
         IN  [value |-> Trim(SubSeq(s, i, end - 1)), next |-> end]

\* One round of the loop, from i on: the pair it reads, if there is one, and
\* where the next round starts.  After "=" only spaces are skipped.
Round(s, i) ==
    LET start == Skip(s, i, Gap)
        end == Find(s, start, {Equals, Comma})
        at == ValueAt(s, Skip(s, end + 1, {Space}))
    IN  IF end > Len(s) \/ s[end] = Comma THEN [pairs |-> <<>>, next |-> end]
        ELSE [pairs |-> <<[key |-> Lower(Trim(SubSeq(s, start, end - 1))),
                           value |-> at.value]>>,
              next |-> at.next]

\* The pairs of key and value, in order.
ParseParams(s) ==
    LET from[i \in 1..(Len(s) + 1)] ==
          IF i > Len(s) THEN <<>> ELSE Round(s, i).pairs \o from[Round(s, i).next]
    IN  from[1]

\* An option is a set of at most one value.
The(option) == CHOOSE v \in option : TRUE

\* The last value given for a key.
Lookup(params, key) ==
    LET at == {j \in DOMAIN params : params[j].key = <<key>>}
    IN  IF at = {} THEN {} ELSE {params[Max(at)].value}

-----------------------------------------------------------------------------
(* External: the PBX's challenge.                                          *)

\* One parameter as text, with the spelling of its key, the spacing of "=" and
\* its quotes.
Piece(c, i) ==
    LET p == c.params[i]
        value == IF p.quoted THEN <<Quote>> \o p.value \o <<Quote>> ELSE p.value
    IN  (IF i = 1 THEN <<>> ELSE c.comma) \o <<p.spelt>> \o c.equals \o value

\* The scheme and the parameters, with the spacing of "," between them.
Text(c) == <<c.scheme, Space>> \o FlattenSeq([i \in DOMAIN c.params |-> Piece(c, i)])

Param(c, key) == {c.params[i].value : i \in {j \in DOMAIN c.params : c.params[j].key = key}}

\* The grammar (RFC 2617 3.2.1, RFC 3261 25.1), for a challenge whose spacing is
\* the same throughout.
Words == STRING \ (Gap \cup {Equals, Quote})

QopOptions(v) ==
    /\ v \in Seq(Words \cup Gap)
    /\ \A i, j \in DOMAIN v : v[i] \in Words /\ v[j] \in Words /\ i < j =>
         \E k \in i..j : v[k] = Comma

Parameters == [key : STRING, spelt : Words, value : Seq(STRING), quoted : BOOLEAN]

WellFormedParam(p) ==
    /\ Lower(<<p.spelt>>) = <<p.key>>
    /\ IF p.quoted THEN Quote \notin Range(p.value)
       ELSE Len(p.value) = 1 /\ p.value[1] \in Words
    /\ p.key = "qop" => QopOptions(p.value)

WellFormed(c) ==
    /\ c.scheme \in STRING
    /\ c.comma \in Seq(Gap) /\ Comma \in Range(c.comma)
    /\ c.equals \in Seq(Blank \cup {Equals})
    /\ \E m \in DOMAIN c.equals : \A j \in DOMAIN c.equals : c.equals[j] = Equals <=> j = m
    /\ c.params \in Seq(Parameters)
    /\ \A i \in DOMAIN c.params : WellFormedParam(c.params[i])
    /\ \A i, j \in DOMAIN c.params : c.params[i].key = c.params[j].key => i = j
    /\ c.scheme = "Digest" => Param(c, "realm") # {} /\ Param(c, "nonce") # {}

ASSUME ChallengeAssumption == \A c \in Challenges : WellFormed(c)
ASSUME LowerCaseAssumption == "auth" \notin DOMAIN LowerCase

\* A 401 has it in WWW-Authenticate, a 407 in Proxy-Authenticate.
WwwAuthenticate(c) == IF c.status = 401 THEN {Text(c)} ELSE {}

PbxChallenges(c) == /\ stage = "registering"
                    /\ stage' = "challenged" /\ challenge' = c
                    /\ UNCHANGED <<config, authorization, grant, expires>>

-----------------------------------------------------------------------------
(* The client: handle_challenge.                                           *)

Challenge(text) == LET params == ParseParams(Tail(text))
                   IN  [realm |-> Lookup(params, "realm"), nonce |-> Lookup(params, "nonce"),
                        opaque |-> Lookup(params, "opaque"), qop |-> Lookup(params, "qop"),
                        algorithm |-> Lookup(params, "algorithm")]

\* parse_challenge and DigestAlgorithm::parse, where they return Ok.
Readable(header) ==
    /\ header # {} /\ The(header)[1] = "Digest"
    /\ LET c == Challenge(The(header))
       IN  /\ c.realm # {} /\ c.nonce # {}
           /\ c.algorithm \subseteq {<<"MD5">>, <<"md5">>}

\* Slip: auth has to be the only one.
QopIncludesAuth_Alone(qop) == Lower(Trim(qop)) = <<"auth">>

\* One of the comma-separated values is auth.
QopIncludesAuth(qop) ==
    \E i \in 0..Len(qop) :
      /\ i = 0 \/ qop[i] = Comma
      /\ Lower(Trim(SubSeq(qop, i + 1, Find(qop, i + 1, {Comma}) - 1))) = <<"auth">>

Quoted(v) == [value |-> v, quoted |-> TRUE]
Token(v) == [value |-> v, quoted |-> FALSE]

\* What the digest is computed for, and the Request-URI of the REGISTER it goes
\* with: both are set by hand, from two fields of the configuration.
DigestUri == <<"sip:", config.domain>>
RequestUri == <<"sip:", config.server>>

Nc == <<"00000001">>
Cnonce == <<"random">>

\* What is hashed: with qop, and as RFC 2069 had it.
Digest(realm, nonce, uri, withQop) ==
    LET ha1 == [username |-> "user", realm |-> realm, password |-> "secret"]
        ha2 == [method |-> "REGISTER", uri |-> uri]
    IN  IF withQop THEN [ha1 |-> ha1, nonce |-> nonce, nc |-> Nc, cnonce |-> Cnonce,
                         qop |-> "auth", ha2 |-> ha2]
                   ELSE [ha1 |-> ha1, nonce |-> nonce, ha2 |-> ha2]

\* compute and to_header_value.
Authorization(c, uri) ==
    LET auth == \E qop \in c.qop : QopIncludesAuth(qop)
    IN  [username |-> Quoted(<<"user">>), realm |-> Quoted(The(c.realm)),
         nonce |-> Quoted(The(c.nonce)), uri |-> Quoted(uri),
         response |-> Quoted(Digest(The(c.realm), The(c.nonce), uri, auth)),
         algorithm |-> Token(<<"MD5">>),
         qop |-> IF auth THEN {Token(<<"auth">>)} ELSE {},
         nc |-> IF auth THEN {Token(Nc)} ELSE {},
         cnonce |-> IF auth THEN {Quoted(Cnonce)} ELSE {},
         opaque |-> {Quoted(v) : v \in c.opaque}]

Answer == /\ stage = "challenged" /\ Readable(WwwAuthenticate(challenge))
          /\ stage' = "answered"
          /\ authorization' = Authorization(Challenge(Text(challenge)), DigestUri)
          /\ UNCHANGED <<config, challenge, grant, expires>>

\* The attempt ends in an error without an answer.
GiveUp == /\ stage = "challenged" /\ ~Readable(WwwAuthenticate(challenge))
          /\ stage' = "failed"
          /\ UNCHANGED <<config, challenge, authorization, grant, expires>>

-----------------------------------------------------------------------------
(* External: the PBX checks the answer against what it sent and knows.  It *)
(* hashes the uri the answer names; RFC 2617 3.2.2.5 has it compare that   *)
(* with the Request-URI too, which some PBXs do and some do not.           *)

OffersAuth(c) == \E qop \in Param(c, "qop") : \E i \in DOMAIN qop : qop[i] = "auth"

Authentic(a, c) ==
    /\ a.username = Quoted(<<"user">>) /\ a.uri.quoted
    /\ {a.realm} = {Quoted(v) : v \in Param(c, "realm")}
    /\ {a.nonce} = {Quoted(v) : v \in Param(c, "nonce")}
    /\ a.opaque = {Quoted(v) : v \in Param(c, "opaque")}
    /\ a.algorithm = Token(<<"MD5">>)
    /\ IF Param(c, "qop") = {} THEN a.qop \cup a.nc \cup a.cnonce = {}
       ELSE /\ OffersAuth(c) /\ a.qop = {Token(<<"auth">>)}
            /\ a.nc = {Token(Nc)} /\ a.cnonce # {}
    /\ a.response = Quoted(Digest(The(Param(c, "realm")), The(Param(c, "nonce")),
                                  a.uri.value, a.qop # {}))

\* 200 OK, at once if the PBX trusts the client's address.
PbxGrants(g) == /\ \/ stage = "registering"
                   \/ stage = "answered" /\ Authentic(authorization, challenge)
                /\ stage' = "granted" /\ grant' = g
                /\ UNCHANGED <<config, challenge, authorization, expires>>

\* Anything but 2xx is the end of the attempt.
PbxDenies == /\ stage = "answered" /\ ~Authentic(authorization, challenge)
             /\ stage' = "rejected"
             /\ UNCHANGED <<config, challenge, authorization, grant, expires>>

\* 400 Bad Request from a PBX that compares.
PbxComparesUris == /\ stage = "answered" /\ Authentic(authorization, challenge)
                   /\ authorization.uri.value # RequestUri
                   /\ stage' = "mismatched"
                   /\ UNCHANGED <<config, challenge, authorization, grant, expires>>

-----------------------------------------------------------------------------
(* The client: extract_expires.                                            *)

IsU32(v) == Len(v) = 1 /\ v[1] \in Numbers

\* What a header gives for the expiry, u32 or not: itself, or its parameters.
Stated(h, name) ==
    IF h.name # name THEN <<>>
    ELSE IF name = "Expires" THEN <<h.value>>
    ELSE LET params == ParseParams(h.value)
         IN  [j \in DOMAIN params |->
                IF params[j].key = <<"expires">> THEN params[j].value ELSE <<>>]

\* The first that is a u32, or the configured value.
FirstU32(values) ==
    LET all == Append(values, Configured)
    IN  all[Min({Len(all)} \cup {j \in DOMAIN values : IsU32(values[j])})]

\* Slip: only the first header is looked at.
ExtractExpires_FirstHeader(headers) ==
    FirstU32(Stated(headers[1], "Expires") \o Stated(headers[1], "Contact"))

\* In order of preference: every Expires header, then every Contact header,
\* then the configured value.
ExtractExpires(headers) ==
    FirstU32(FlattenSeq([i \in DOMAIN headers |-> Stated(headers[i], "Expires")])
             \o FlattenSeq([i \in DOMAIN headers |-> Stated(headers[i], "Contact")]))

Registered == /\ stage = "granted"
              /\ stage' = "registered"
              /\ expires' = ExtractExpires(grant.headers)
              /\ UNCHANGED <<config, challenge, authorization, grant>>

AttemptNext == \/ \E c \in Challenges : PbxChallenges(c)
               \/ Answer \/ GiveUp
               \/ \E g \in Oks : PbxGrants(g)
               \/ PbxDenies \/ PbxComparesUris \/ Registered

AttemptSpec == AttemptInit /\ [][AttemptNext]_attemptVars

-----------------------------------------------------------------------------
(* Properties.                                                             *)

\* The challenges the client is made for: digest_auth.rs:7 "Supports MD5
\* algorithm (RFC 2617 / RFC 7616) with qop=auth or no qop".  A 407 is not among
\* them, though perform takes it for a challenge, nor is a tab after "=", though
\* registration.rs:222 allows whitespace there.
Answerable(c) ==
    /\ c.status = 401 /\ c.scheme = "Digest"
    /\ \A i, j \in DOMAIN c.equals : c.equals[i] = Equals /\ i < j => c.equals[j] = Space
    /\ Param(c, "algorithm") \subseteq {<<"MD5">>, <<"md5">>}
    /\ Param(c, "qop") = {} \/ OffersAuth(c)

\* The PBX accepts the client's answer to every such challenge, whatever the
\* order, the quotes, the spelling and the spacing of its parameters: both ends
\* hash the same and the header has the form the grammar wants.  The one excuse
\* is a PBX that compares the uri with the Request-URI, where the configuration
\* has a domain that is not the server (config.rs:19 "Often equals `server`"):
\* it refuses every answer.
ChallengeIsAnswered ==
    /\ stage \in {"failed", "rejected"} => ~Answerable(challenge)
    /\ stage = "mismatched" => config.domain # config.server

\* The PBX states the expiry in an Expires header, or nowhere and means what the
\* client asked for.
ByExpiresHeader(g) ==
    /\ g.headers \in Seq([name : STRING, value : Seq(STRING)])
    /\ LET stated == {i \in DOMAIN g.headers : /\ g.headers[i].name = "Expires"
                                               /\ IsU32(g.headers[i].value)}
       IN  IF stated # {} THEN \A i \in stated : g.headers[i].value = g.seconds
           ELSE /\ g.seconds = Configured
                /\ \A i \in DOMAIN g.headers : g.headers[i].name = "Contact" =>
                     \A w \in Range(g.headers[i].value) : Lower(<<w>>) # <<"expires">>

\* Registered.expires is the "Expires value the PBX confirmed"
\* (registration.rs:26), the refresh timer's only source: what an Expires header
\* says, wherever it stands, or else the Contact's parameter
\* (registration.rs:277 "Fallback: look for expires=N inside the Contact
\* header"), or else what the client asked for.
GrantIsUnderstood == stage = "registered" => expires = grant.seconds

=============================================================================
