------------------------------ MODULE MCSipAuth ------------------------------
(* Small instances of SipAuth for TLC. *)
EXTENDS SipAuth

Spellings == [Realm |-> "realm", Nonce |-> "nonce", Opaque |-> "opaque", Qop |-> "qop",
              Algorithm |-> "algorithm", AUTH |-> "auth"]

Capital(key) == CHOOSE w \in DOMAIN Spellings : Spellings[w] = key

P(key, spelt, value, quoted) ==
    [key |-> key, spelt |-> spelt, value |-> value, quoted |-> quoted]

\* A parameter that is there or not, with its key in small letters or not.
Forms(key, values, quotes) ==
    {<<P(key, spelt, v, q)>> : spelt \in {key, Capital(key)}, v \in values, q \in quotes}

Realms == Forms("realm", {<<"asterisk">>, <<"pbx", Comma, Space, "room", Equals, "1">>}, {TRUE})
Nonces == {<<P("nonce", "nonce", <<"n1">>, TRUE)>>}
Opaques == {<<>>} \cup {<<P("opaque", "opaque", v, TRUE)>> : v \in {<<"o1">>, <<>>}}
Algorithms == {<<>>} \cup {<<P("algorithm", "Algorithm", <<"MD5">>, FALSE)>>}
              \cup {<<P("algorithm", "algorithm", <<v>>, q)>> :
                      v \in {"md5", "SHA-256"}, q \in BOOLEAN}
Qops == {<<>>, <<P("qop", "qop", <<"auth">>, FALSE)>>}
        \cup {<<P("qop", "Qop", v, TRUE)>> :
                v \in {<<"auth">>, <<"auth", Comma, "auth-int">>,
                       <<"auth-int", Comma, Space, "auth">>, <<"auth-int">>}}

\* A flag the client does not know.
Stale == P("stale", "stale", <<"FALSE">>, FALSE)

ParamLists ==
    {r \o n \o o \o a \o q : r \in Realms, n \in Nonces, o \in Opaques,
                             a \in Algorithms, q \in Qops}
    \cup {q \o a \o <<Stale>> \o o \o n \o r : r \in Realms, n \in Nonces, o \in Opaques,
                                              a \in Algorithms, q \in Qops}

Challenge401(scheme, lists, commas, equals) ==
    [status : {401}, scheme : {scheme}, params : lists, comma : commas, equals : equals]

Commas == {<<Comma>>, <<Space, Comma, Tab>>}

SomeChallenges ==
    Challenge401("Digest", ParamLists, Commas, {<<Equals>>, <<Space, Equals, Space>>, <<Equals, Tab>>})
    \cup Challenge401("Basic", {<<P("realm", "realm", <<"asterisk">>, TRUE)>>}, Commas, {<<Equals>>})
    \cup [status : {407}, scheme : {"Digest"}, params : {r \o n : r \in Realms, n \in Nonces},
          comma : Commas, equals : {<<Equals>>}]

Contact(params) == [name |-> "Contact", value |-> <<"<sip:user@client>">> \o params]
Expires(value) == [name |-> "Expires", value |-> <<value>>]
Other == [name |-> "Other", value |-> <<>>]

\* Where the PBX states the expiry it grants: in an Expires header, or not at all.
HeaderGrants ==
    {[headers |-> <<Other, Contact(<<";", "expires", Equals, "60">>), Expires("60")>>,
      seconds |-> <<"60">>],
     [headers |-> <<Expires("60"), Contact(<<>>)>>, seconds |-> <<"60">>],
     [headers |-> <<Contact(<<>>), Other>>, seconds |-> <<"3600">>]}

ASSUME HeaderGrantsAreByHeader == \A g \in HeaderGrants : ByExpiresHeader(g)

\* In the Contact's parameter alone, where the key that parse_params finds is
\* "<sip:user@client>;expires" and the client takes what it asked for.
ByContact == <<Other, Contact(<<";", "expires", Equals, "60">>)>>

ASSUME ContactIsNotUnderstood == ExtractExpires(ByContact) = Configured

TwoHosts == {"pbx", "domain"}
SomeNumbers == {"60", "3600"}
ThreeThousandSixHundred == <<"3600">>
=============================================================================
