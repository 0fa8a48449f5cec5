-------------------------------- MODULE MCJWK --------------------------------
(* Small instances of JWK for TLC: every header with every material for     *)
(* PyJWK, short lists of one key of each kind for PyJWKSet.                 *)
EXTENDS JWK

NoValues == [k |-> "absent", n |-> "absent", e |-> "absent", d |-> "absent",
             x |-> "absent", y |-> "absent", crt |-> "none", oth |-> FALSE]

Key(kty, alg, crv, values) ==
    [form |-> "object", kty |-> kty, alg |-> alg, crv |-> crv,
     k |-> values.k, n |-> values.n, e |-> values.e, d |-> values.d,
     x |-> values.x, y |-> values.y, crt |-> values.crt, oth |-> values.oth]

Rsa == [NoValues EXCEPT !.n = "good", !.e = "good"]
Ec == [NoValues EXCEPT !.x = "good", !.y = "good"]

Materials ==
    {[NoValues EXCEPT !.k = v] : v \in Sorts}
    \cup {[NoValues EXCEPT !.x = v, !.d = w] :
            v \in Sorts \ {"absent"}, w \in Sorts}
    \cup {[Ec EXCEPT !.y = v, !.d = w] : v \in Sorts, w \in Sorts}
    \cup {[Rsa EXCEPT !.e = v, !.d = w] : v \in Sorts, w \in {"absent", "good"}}
    \cup {[Rsa EXCEPT !.d = w, !.crt = c, !.oth = o] :
            w \in Sorts, c \in {"none", "some", "all"}, o \in BOOLEAN}

AllSingles ==
    {Key(kty, alg, crv, values) :
        kty \in {"", "oct", "RSA", "EC", "OKP", "other"},
        alg \in {"", "none", "HS256", "RS256", "ES256", "ES384", "EdDSA",
                 "other"},
        crv \in {"", "P-256", "P-384", "Ed25519", "Ed448", "other"},
        values \in Materials}

Secret == [NoValues EXCEPT !.k = "good"]

\* A key that needs nothing, and keys that need the cryptography package.
SomeKeys ==
    {Key("oct", "HS256", "", Secret), Key("RSA", "RS256", "", Rsa),
     Key("EC", "", "P-384", Ec), Key("RSA", "HS256", "", Rsa),
     Key("", "HS256", "", Secret), Key("oct", "other", "", Secret),
     Key("oct", "none", "", Secret), Key("oct", "", "", NoValues),
     Key("EC", "ES256", "P-256", [Ec EXCEPT !.y = "refused"]),
     [Key("", "", "", NoValues) EXCEPT !.form = "other"]}

AllLists == UNION {[1..n -> SomeKeys] : n \in 0..3}
=============================================================================
