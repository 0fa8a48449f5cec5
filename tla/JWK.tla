--------------------------------- MODULE JWK ---------------------------------
(***************************************************************************)
(* PyJWK and PyJWKSet (jwt/api_jwk.py) over the from_jwk methods of the     *)
(* default algorithms (jwt/algorithms/).  A call builds one key, or a set   *)
(* from a list of JWKs, one step per JWK.                                   *)
(*                                                                         *)
(* A JWK is known by "kty", "alg" and "crv" (EmptyName when missing or      *)
(* empty), by what its values are good for (Sorts), by how many of the five *)
(* CRT parameters of RSA it has ("crt") and whether it has "oth".           *)
(***************************************************************************)
EXTENDS Naturals, Sequences

CONSTANTS
    Singles,    \* JWKs a call of PyJWK may get
    Arguments,  \* values of PyJWK's argument "algorithm"
    Lists       \* lists a call of PyJWKSet may get; the empty one stands for
                \* a value that is no list as well

EmptyName == ""

(* What a value decodes to: "short" has not the length its curve wants,     *)
(* "refused" is what the cryptography package rejects for another reason,   *)
(* "undecodable" is no base64, "no_text" no string.                         *)
Sorts == {"absent", "good", "short", "refused", "undecodable", "no_text"}

JWKs ==
    [form : {"object", "other"}, kty : STRING, alg : STRING, crv : STRING,
     k : Sorts, n : Sorts, e : Sorts, d : Sorts, x : Sorts, y : Sorts,
     crt : {"none", "some", "all"}, oth : BOOLEAN]

ASSUME JWKAssumption ==
    /\ Singles \subseteq JWKs
    /\ Lists \subseteq Seq(JWKs)

HmacNames == {"HS256", "HS384", "HS512"}
RsaNames == {"RS256", "RS384", "RS512", "PS256", "PS384", "PS512"}
OkpNames == {"EdDSA"}

\* The curve the handler of an EC algorithm expects.
ExpectedCurve ==
    [ES256 |-> "P-256", ES256K |-> "secp256k1", ES384 |-> "P-384",
     ES521 |-> "P-521", ES512 |-> "P-521"]
EcNames == DOMAIN ExpectedCurve

RequiresCryptography == RsaNames \cup EcNames \cup OkpNames

VARIABLES
    hasCrypto,  \* is the cryptography package installed?
    op,         \* "key" for PyJWK, "set" for PyJWKSet
    algorithm,  \* argument of PyJWK; PyJWKSet gives none
    given,      \* the JWKs
    next,       \* the JWK the loop is at
    kept,       \* self.keys, by position in "given"
    outcome     \* "none" while the call runs, "ok" or what it raised

vars == <<hasCrypto, op, algorithm, given, next, kept, outcome>>
inputs == <<hasCrypto, op, algorithm, given>>

Init ==
    /\ hasCrypto \in BOOLEAN
    /\ \/ /\ op = "key"
          /\ algorithm \in Arguments
          /\ \E jwk \in Singles : given = <<jwk>>
       \/ /\ op = "set"
          /\ algorithm = EmptyName
          /\ given \in Lists
    /\ next = 1
    /\ kept = <<>>
    /\ outcome = "none"

-----------------------------------------------------------------------------
(* from_jwk of each handler: "ok", or the class of what it raises.          *)

\* One check, and the checks after it.
Raise(fails, error) == IF fails THEN error ELSE "ok"
Then(verdict, rest) == IF verdict = "ok" THEN rest ELSE verdict

\* force_bytes and base64url_decode
Read(value) ==
    Then(Raise(value = "no_text", "TypeError"),
         Raise(value = "undecodable", "ValueError"))

\* Mutant: "k" is all that matters.
HmacKeyOfAnyType(jwk) ==
    Then(Raise(jwk.k = "absent", "KeyError"), Read(jwk.k))

HmacKey(jwk) ==
    Then(Raise(jwk.kty # "oct", "InvalidKeyError"),
    Then(Raise(jwk.k = "absent", "KeyError"),
         Read(jwk.k)))

\* _rsa_private_numbers_from_jwk; the CRT parameters read like "d".
RsaPrivate(jwk) ==
    Then(Raise(jwk.oth \/ jwk.crt = "some", "InvalidKeyError"),
    Then(Read(jwk.d),
         Raise("refused" \in {jwk.n, jwk.e, jwk.d}, "ValueError")))

RsaPublic(jwk) == Raise("refused" \in {jwk.n, jwk.e}, "ValueError")

RsaKey(jwk) ==
    Then(Raise(jwk.kty # "RSA" \/ "absent" \in {jwk.n, jwk.e},
               "InvalidKeyError"),
    Then(Read(jwk.e),
    Then(Read(jwk.n),
         IF jwk.d = "absent" THEN RsaPublic(jwk) ELSE RsaPrivate(jwk))))

\* _resolve_ec_curve_from_jwk
EcCurveVerdict(jwk) ==
    Raise(\/ \A alg \in EcNames : jwk.crv # ExpectedCurve[alg]
          \/ "short" \in {jwk.x, jwk.y}, "InvalidKeyError")

EcPrivate(jwk) ==
    Then(Read(jwk.d),
    Then(Raise(jwk.d = "short", "InvalidKeyError"),
         Raise("refused" \in {jwk.x, jwk.y, jwk.d}, "ValueError")))

EcPublic(jwk) == Raise("refused" \in {jwk.x, jwk.y}, "ValueError")

EcKey(jwk) ==
    Then(Raise(jwk.kty # "EC" \/ "absent" \in {jwk.x, jwk.y},
               "InvalidKeyError"),
    Then(Read(jwk.x),
    Then(Read(jwk.y),
    Then(EcCurveVerdict(jwk),
         IF jwk.d = "absent" THEN EcPublic(jwk) ELSE EcPrivate(jwk)))))

\* "except ValueError" covers "d" from its decoding on, "x" after it.
OkpKey(jwk) ==
    Then(Raise(\/ jwk.kty # "OKP"
               \/ jwk.crv \notin {"Ed25519", "Ed448"}
               \/ jwk.x = "absent", "InvalidKeyError"),
    Then(Read(jwk.x),
    Then(Raise(jwk.d = "no_text", "TypeError"),
         Raise((IF jwk.d = "absent" THEN jwk.x ELSE jwk.d)
                  \in {"short", "refused", "undecodable"},
               "InvalidKeyError"))))

FromJwk(alg, jwk) ==
    CASE alg \in HmacNames -> HmacKey(jwk)
      [] alg \in RsaNames  -> RsaKey(jwk)
      [] alg \in EcNames   -> EcKey(jwk)
      [] alg \in OkpNames  -> OkpKey(jwk)
      [] OTHER             -> "NotImplementedError"     \* "none"

-----------------------------------------------------------------------------
(* PyJWK.__init__                                                           *)

DefaultAlgorithms ==
    {"none"} \cup HmacNames
    \cup (IF hasCrypto THEN RequiresCryptography ELSE {})

\* Mutant: one algorithm for every curve.
InferredES256(jwk) ==
    CASE jwk.kty = "EC"  -> "ES256"
      [] jwk.kty = "OKP" /\ jwk.crv = "Ed25519" -> "EdDSA"
      [] jwk.kty = "RSA" -> "RS256"
      [] jwk.kty = "oct" -> "HS256"
      [] OTHER -> EmptyName

\* _infer_algorithm_from_kty; EmptyName where it raises InvalidKeyError.
Inferred(jwk) ==
    CASE jwk.kty = "EC" /\ jwk.crv \in {EmptyName, "P-256"} -> "ES256"
      [] jwk.kty = "EC" /\ jwk.crv = "P-384"     -> "ES384"
      [] jwk.kty = "EC" /\ jwk.crv = "P-521"     -> "ES512"
      [] jwk.kty = "EC" /\ jwk.crv = "secp256k1" -> "ES256K"
      [] jwk.kty = "OKP" /\ jwk.crv = "Ed25519"  -> "EdDSA"
      [] jwk.kty = "RSA" -> "RS256"
      [] jwk.kty = "oct" -> "HS256"
      [] OTHER -> EmptyName

\* algorithm_name: the argument, else the JWK's, else the inferred one.
AlgorithmName(jwk) ==
    CASE algorithm # EmptyName -> algorithm
      [] algorithm = EmptyName /\ jwk.alg # EmptyName -> jwk.alg
      [] algorithm = EmptyName /\ jwk.alg = EmptyName -> Inferred(jwk)

NeedsCryptography(jwk) ==
    /\ jwk.form = "object" /\ jwk.kty # EmptyName
    /\ AlgorithmName(jwk) \in RequiresCryptography

KeyVerdict(jwk) ==
    LET alg == AlgorithmName(jwk)
    IN  Then(Raise(jwk.form # "object", "AttributeError"),
        Then(Raise(EmptyName \in {jwk.kty, alg}, "InvalidKeyError"),
        Then(Raise(~hasCrypto /\ NeedsCryptography(jwk),
                   "MissingCryptographyError"),
        Then(Raise(alg \notin DefaultAlgorithms, "PyJWKError"),
             FromJwk(alg, jwk)))))

-----------------------------------------------------------------------------
(* The calls.                                                               *)

BuildKey ==
    /\ op = "key" /\ outcome = "none"
    /\ outcome' = KeyVerdict(given[1])
    /\ kept' = IF outcome' = "ok" THEN <<1>> ELSE <<>>
    /\ next' = 2
    /\ UNCHANGED inputs

AtKey == op = "set" /\ outcome = "none" /\ next <= Len(given)

KeepKey ==
    /\ AtKey
    /\ KeyVerdict(given[next]) = "ok"
    /\ kept' = Append(kept, next)
    /\ next' = next + 1
    /\ UNCHANGED <<inputs, outcome>>

\* "except PyJWTError": what PyJWK raises by itself, but for the last.
Unusable == {"InvalidKeyError", "PyJWKError"}

\* Mutant: the loop ends at the first key that cannot be used.
SkipTheRest ==
    /\ AtKey
    /\ KeyVerdict(given[next]) \in Unusable
    /\ next' = Len(given) + 1
    /\ UNCHANGED <<inputs, kept, outcome>>

\* Mutant: the loop takes the key after this one along.
SkipTwo ==
    /\ AtKey
    /\ KeyVerdict(given[next]) \in Unusable
    /\ next' = next + 2
    /\ UNCHANGED <<inputs, kept, outcome>>

\* Mutant: a missing package makes a key unusable, no more.
SkipForCryptography ==
    /\ AtKey
    /\ KeyVerdict(given[next]) \in Unusable \cup {"MissingCryptographyError"}
    /\ next' = next + 1
    /\ UNCHANGED <<inputs, kept, outcome>>

SkipKey ==
    /\ AtKey
    /\ KeyVerdict(given[next]) \in Unusable
    /\ next' = next + 1
    /\ UNCHANGED <<inputs, kept, outcome>>

\* MissingCryptographyError is raised again; any other class was not caught.
AbandonSet ==
    /\ AtKey
    /\ KeyVerdict(given[next]) \notin Unusable \cup {"ok"}
    /\ outcome' = KeyVerdict(given[next])
    /\ UNCHANGED <<inputs, next, kept>>

FinishSet ==
    /\ op = "set" /\ outcome = "none" /\ next > Len(given)
    /\ outcome' = IF kept = <<>> THEN "PyJWKSetError" ELSE "ok"
    /\ UNCHANGED <<inputs, next, kept>>

Next == BuildKey \/ KeepKey \/ SkipKey \/ AbandonSet \/ FinishSet

Spec == Init /\ [][Next]_vars

-----------------------------------------------------------------------------
(* Properties.                                                              *)

Escapes == {"AttributeError", "KeyError", "ValueError", "TypeError",
            "NotImplementedError"}

(* The loop stays inside the list, and outcomes are classes of exceptions.  *)
TypeOK ==
    /\ hasCrypto \in BOOLEAN
    /\ op \in {"key", "set"}
    /\ given \in Seq(JWKs)
    /\ next \in 1..(Len(given) + 1)
    /\ kept \in Seq(1..Len(given))
    /\ outcome \in {"none", "ok", "PyJWKSetError", "MissingCryptographyError"}
                   \cup Unusable \cup Escapes

Handed == {given[kept[i]] : i \in 1..Len(kept)}

Family(alg) ==
    CASE alg \in HmacNames -> "oct"
      [] alg \in RsaNames  -> "RSA"
      [] alg \in EcNames   -> "EC"
      [] alg \in OkpNames  -> "OKP"

(* A key never gets a handler of another family, whatever "alg" says or the *)
(* caller asks for: an RSA key, public as it is, never becomes the secret   *)
(* of an HMAC.                                                              *)
FamilyMatches ==
    \A jwk \in Handed :
        /\ AlgorithmName(jwk) \in HmacNames \cup RequiresCryptography
        /\ Family(AlgorithmName(jwk)) = jwk.kty

(* An algorithm PyJWK inferred is one that can be used with the key: the    *)
(* handler's _validate_curve accepts the key's curve.                       *)
InferredAlgorithmFits ==
    \A jwk \in Handed :
        /\ algorithm = EmptyName /\ jwk.alg = EmptyName /\ jwk.kty = "EC"
        => /\ AlgorithmName(jwk) \in EcNames
           /\ ExpectedCurve[AlgorithmName(jwk)] = jwk.crv

(* A set holds exactly the keys that can be used, in their order: a key     *)
(* that cannot be used costs the set none of the others.                    *)
KeepsTheUsable ==
    op = "set" /\ outcome \in {"ok", "PyJWKSetError"} =>
        /\ \A i \in 1..Len(given) :
              KeyVerdict(given[i]) = "ok" <=> \E j \in 1..Len(kept) : kept[j] = i
        /\ \A i, j \in 1..Len(kept) : i < j => kept[i] < kept[j]

(* Without the cryptography package, a key that needs it is not passed over *)
(* in silence: the call ends in MissingCryptographyError, or in the error   *)
(* of an earlier key.                                                       *)
CryptographyIsMissed ==
    ~hasCrypto /\ outcome \in {"ok", "PyJWKSetError"} =>
        \A i \in 1..Len(given) : ~NeedsCryptography(given[i])

(* "skip unusable keys" (the comment in PyJWKSet.__init__): no exception    *)
(* about a single JWK comes out of PyJWKSet, but for a missing package.     *)
UnusableKeysAreSkipped ==
    op = "set" => outcome \notin Escapes \ {"AttributeError"}
=============================================================================
