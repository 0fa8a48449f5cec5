-------------------------------- MODULE MCJWT --------------------------------
(* Instances of JWTExchange: keys, payloads, requests and calls, chosen run *)
(* by run so that one side of decode varies and the others stand still.     *)
EXTENDS JWTExchange

(* Two HMAC algorithms and none; a third handler for threads to register.   *)
AllDefaults == [n \in {"HS256", "HS512", "none"} |->
                  CASE n = "HS256" -> "hmac256"
                    [] n = "HS512" -> "hmac512"
                    [] n = "none"  -> "none"]
OneDefault == "HS256" :> "hmac256"
AcceptsOfAll == [h \in {"hmac256", "hmac512", "custom", "none"} |->
                   IF h = "none" THEN {"empty"} ELSE {"secret", "empty"}]
AcceptsOfTwo == [h \in {"hmac256", "custom"} |-> {"secret", "empty"}]

K1 == KeyRecord("k1", "secret", {}, "")
K2 == KeyRecord("k2", "secret", {}, "")
ShortKey == KeyRecord("k3", "secret", {"hmac256"}, "")
JwkK1 == KeyRecord("k1", "secret", {"hmac512"}, "HS512")
NoKey == KeyRecord("", "empty", {"hmac256", "hmac512"}, "")
Pem == KeyRecord("k1", "pem", {}, "")
NotAKey == KeyRecord("k1", "object", {}, "")

Request(api, payload, key, algorithm, headers, detached) ==
    [api |-> api, payload |-> payload, key |-> key, algorithm |-> algorithm,
     headers |-> headers, detached |-> detached]

PlainCall == [api |-> "jwt", key |-> K1, algorithms |-> {"HS256"},
              options |-> None, detached |-> None, audience |-> None,
              issuer |-> None, subject |-> None, leeway |-> 0]

Signing(payloads, api) ==
    {Request(api, p, K1, "unset", NoHeaders, FALSE) : p \in payloads}

NothingGiven == {None}
NoStrays == {}

-----------------------------------------------------------------------------
(* exchange_signature: algorithms, keys, headers, damage.                   *)

Alice == [NoClaims EXCEPT !.sub = Text("alice")]
Bob == [NoClaims EXCEPT !.sub = Text("bob")]

SomeHeaders ==
    {NoHeaders,
     [NoHeaders EXCEPT !.alg = ""],
     [NoHeaders EXCEPT !.alg = "HS512", !.kid = "text"],
     [NoHeaders EXCEPT !.kid = "other"],
     [NoHeaders EXCEPT !.crit = "unknown"],
     [NoHeaders EXCEPT !.crit = "b64", !.b64 = "false"]}

SignatureRequests ==
    {Request("jws", Alice, key, algorithm, headers, FALSE) :
        key \in {K1, JwkK1, NoKey, Pem}, algorithm \in {"unset", None, "HS512"},
        headers \in SomeHeaders}
    \cup {Request("jws", Alice, K1, "HS256", NoHeaders, TRUE)}

SignatureCalls ==
    {[PlainCall EXCEPT !.api = "jws", !.key = key, !.algorithms = algs,
                       !.options = options, !.detached = detached] :
        key \in {K1, K2, JwkK1, NoKey, Pem, NotAKey},
        algs \in {None, {}, {"HS256"}, {"none", "HS512"}},
        options \in {None, [verify_signature |-> FALSE]},
        detached \in {None, Alice, Bob}}

StrayHeaderSet ==
    {[NoHeaders EXCEPT !.alg = "HS512"], [NoHeaders EXCEPT !.crit = "malformed"],
     [NoHeaders EXCEPT !.alg = "absent"]}
StrayBodySet == {Bob, NoPayload}

-----------------------------------------------------------------------------
(* exchange_claims: time claims against a clock that is set while the       *)
(* checks run (claims and clock hold halves of seconds); issuer, audience,  *)
(* subject, JWT ID and required claims.                                     *)

TimeSorts ==
    {Absent, OfSort("word"), OfSort("null"), OfSort("infinite"),
     Number(-1), [sort |-> "moment", halves |-> 3],
     [sort |-> "moment", halves |-> -1]}

InTime == [NoClaims EXCEPT !.iat = Number(2), !.nbf = Number(2),
                           !.exp = Number(4), !.sub = Text("a")]

TimePayloads ==
    {[InTime EXCEPT !.iat = Number(i), !.nbf = Number(n), !.exp = Number(e)] :
        i \in {2, 3}, n \in {2, 3}, e \in {2, 3, 4}}
    \cup UNION {{[InTime EXCEPT !.iat = c], [InTime EXCEPT !.nbf = c],
                 [InTime EXCEPT !.exp = c]} : c \in TimeSorts}

PartyPayloads ==
    {[NoClaims EXCEPT !.iss = i, !.aud = a, !.sub = s] :
        i \in {Absent, Text("a"), OfSort("other")},
        a \in {Absent, OfSort("empty"), Text("a"), Listed({"a", "b"}),
               OfSort("mixed")},
        s \in {Absent, Text("a"), OfSort("other")}}
    \cup {[NoClaims EXCEPT !.sub = Text("a"), !.jti = OfSort("other")],
          [NoClaims EXCEPT !.form = "other"], NoPayload}

ClaimRequests == Signing(TimePayloads, "jwt") \cup Signing(PartyPayloads, "jws")

ClaimCalls ==
    {[PlainCall EXCEPT !.options = options, !.leeway = leeway] :
        options \in {None, [verify_signature |-> FALSE, verify_exp |-> TRUE]},
        leeway \in {0, 1}}
    \cup {[PlainCall EXCEPT !.audience = a, !.options = options] :
        a \in {None, Text("a"), Listed({"b", "c"}), Listed({}),
               OfSort("other")},
        options \in {None, [strict_aud |-> TRUE],
                     [verify_signature |-> FALSE, verify_aud |-> TRUE]}}
    \cup {[PlainCall EXCEPT !.audience = Text("a"), !.issuer = i,
                            !.subject = s] :
        i \in {None, Text("a"), Listed({"b"}), OfSort("other")},
        s \in {None, Text("a"), Text("b")}}

RequiringSub == {[require |-> {"sub"}]}

-----------------------------------------------------------------------------
(* exchange_options: what the instance is told and what the call is told,   *)
(* while a thread takes HS256 away and registers another handler for it.    *)

OptionPayloads ==
    {[NoClaims EXCEPT !.exp = e, !.sub = s, !.jti = OfSort("other")] :
        e \in {Absent, Number(2)}, s \in {Absent, Text("a")}}

Told ==
    {None, [verify_signature |-> TRUE], [verify_signature |-> FALSE],
     [verify_signature |-> FALSE, verify_exp |-> TRUE],
     [verify_exp |-> FALSE, verify_jti |-> FALSE], [verify_exp |-> TRUE],
     [require |-> {"sub"}], [enforce_minimum_key_length |-> TRUE]}

OptionRequests ==
    {Request("jwt", p, key, "unset", NoHeaders, FALSE) :
        p \in OptionPayloads, key \in {K1, ShortKey}}

OptionCalls ==
    {[PlainCall EXCEPT !.api = api, !.key = key, !.options = options] :
        api \in {"jws", "jwt"}, key \in {K1, ShortKey}, options \in Told}
    \cup {[PlainCall EXCEPT !.key = K2, !.options = options] :
        options \in {None, [verify_signature |-> FALSE], [verify_exp |-> TRUE]}}
=============================================================================
