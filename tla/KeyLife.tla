------------------------------- MODULE KeyLife -------------------------------
(***************************************************************************)
(* One key through a handler of jwt/algorithms/: it is prepared, it may be  *)
(* written as a JWK, carried and read again (PyJWK), it signs, the          *)
(* signature may be changed on its way, and it is verified.                 *)
(***************************************************************************)
EXTENDS KeyFamilies

CONSTANTS
    Algorithms,     \* names of the default algorithms
    Givens,         \* what a caller has for a key
    Draws           \* numbers a signature on a curve may have

\* The keys there are: generated ones, and their public halves.
Known(key) == key \in Genuine \cup {PublicHalf(k) : k \in Genuine} \cup {NoKey}

\* An object is its key, a text its bytes.
Told(g) ==
    /\ Known(g.key)
    /\ g.form = "object" => g = Object(g.key)
    /\ g.form = "text" => g.bytes \in Seq(0..255) /\ g = TextOf(g.bytes)

ASSUME KeyLifeAssumption ==
    /\ \A g \in Givens :
          Told(g) /\ (g.form \notin {"object", "text"} => g.key = NoKey)
    /\ \A text \in Texts : text.form = "text"

\* The numbers of a signature are below the order, and the order of a curve
\* takes no more bytes than its size.
ASSUME SignatureAssumption ==
    \A crv \in ExpectedCurves :
        /\ KeySize[crv] \in Nat /\ Order[crv] \in Nat
        /\ Shifted(Order[crv], WidthOf(KeySize[crv])) = 0
        /\ Draws[crv] \subseteq (1..(Order[crv] - 1)) \X (1..(Order[crv] - 1))

VARIABLES
    alg,        \* the handler
    enforce,    \* option "enforce_minimum_key_length"
    phase,      \* where the key is
    given,      \* the key: as it was given, or prepared
    doc,        \* the JWK
    way,        \* history: what happened to the JWK, "none" without one
    exported,   \* history: the key that was written, and was it prepared
    made,       \* the signature, as it was made
    sent,       \* and its bytes as they arrive
    answer      \* exception of the last step, or verdict of "verify"

vars == <<alg, enforce, phase, given, doc, way, exported, made, sent, answer>>
journey == <<doc, way, exported>>
signature == <<made, sent>>

Init ==
    /\ alg \in Algorithms
    /\ enforce \in BOOLEAN
    /\ phase = "given"
    /\ given \in Givens
    /\ doc = NoDocument("none")
    /\ way = "none"
    /\ exported = [key |-> Nothing, prepared |-> FALSE]
    /\ made = Signature(Nothing, <<>>, <<>>)
    /\ sent = <<>>
    /\ answer = "none"

Fail(where, class) ==
    /\ phase' = where
    /\ answer' = class
    /\ UNCHANGED <<alg, given, doc, way, exported, signature>>

Prepare ==
    /\ phase = "given"
    /\ LET result == PrepareSigningKey(alg, given, enforce)
       IN  \/ /\ result.verdict = "ok"
              /\ phase' = "ready"
              /\ given' = result.key
              /\ UNCHANGED <<alg, journey, signature, answer>>
           \/ /\ result.verdict # "ok"
              /\ Fail("refused", result.verdict)
    /\ UNCHANGED enforce

Export ==
    /\ phase \in {"given", "ready"} /\ way = "none"
    /\ LET written == ToJwk(alg, given)
       IN  \/ /\ written.verdict = "ok"
              /\ phase' = "written"
              /\ doc' = written
              /\ exported' = [key |-> given, prepared |-> phase = "ready"]
              /\ UNCHANGED <<alg, given, way, signature, answer>>
           \/ /\ written.verdict # "ok"
              /\ Fail("unwritten", written.verdict)
    /\ UNCHANGED enforce

\* As it is; with pads, as other encoders leave it; over two lines; shortened.
Carried(text) ==
    {[how |-> "whole", text |-> text], [how |-> "padded", text |-> Padded(text)]}
    \cup {[how |-> "wrapped", text |-> InsertAt(text, i, Junk)] : i \in DOMAIN text}
    \cup {[how |-> "cut", text |-> Front(text)] : i \in DOMAIN text}

Carry ==
    /\ phase = "written"
    /\ \E field \in DOMAIN doc.texts :
          \E arrived \in Carried(doc.texts[field]) :
              /\ doc' = [doc EXCEPT !.texts[field] = arrived.text]
              /\ way' = arrived.how
    /\ phase' = "carried"
    /\ UNCHANGED <<alg, enforce, given, exported, signature, answer>>

\* PyJWK with or without the argument "algorithm"; encode and decode prepare
\* the key of a PyJWK again.
Import ==
    /\ phase = "carried"
    /\ \E argument \in {"", alg} :
          LET verdict == Jwk(argument)!KeyVerdict(AsJwk(doc))
          IN  \/ /\ verdict = "ok"
                 /\ phase' = "given"
                 /\ given' = Imported(doc)
                 /\ alg' = Jwk(argument)!AlgorithmName(AsJwk(doc))
                 /\ UNCHANGED <<journey, signature, answer>>
              \/ /\ verdict # "ok"
                 /\ Fail(IF argument = "" THEN "unnamed" ELSE "lost", verdict)
    /\ UNCHANGED enforce

SignIt ==
    /\ phase = "ready"
    /\ \/ /\ ~CanSign(alg, given)
          /\ Fail("unsigned", "AttributeError")
       \/ /\ CanSign(alg, given)
          /\ \E pair \in IF alg \in EcNames THEN Draws[given.key.part] ELSE {<<>>} :
                made' = Sign(alg, given, pair)
          /\ sent' = made'.raw
          /\ phase' = "signed"
          /\ UNCHANGED <<alg, given, journey, answer>>
    /\ UNCHANGED enforce

Halves(raw) ==
    LET middle == Len(raw) \div 2
    IN  <<SubSeq(raw, 1, middle), SubSeq(raw, middle + 1, Len(raw))>>

\* One zero more or less before a number, a byte less, the numbers exchanged.
Altered(raw) ==
    LET r == Halves(raw)[1]
        s == Halves(raw)[2]
    IN  {raw, <<0>> \o raw, <<0>> \o r \o <<0>> \o s, s \o r}
        \cup (IF raw = <<>> THEN {}
              ELSE {Tail(raw), Front(raw), Tail(r) \o Tail(s), r \o Tail(s)})

\* Of an ECDSA signature: its numbers, and with the second one negated.
Writings ==
    IF alg \in EcNames
      THEN LET crv == given.key.part
           IN  {DerToRaw(pair, KeySize[crv]) : pair \in Twins(made.pair, crv)}
      ELSE {made.raw}

Alter ==
    /\ phase = "signed"
    /\ sent' \in Altered(sent) \cup Writings
    /\ phase' = "sent"
    /\ UNCHANGED <<alg, enforce, given, journey, made, answer>>

\* The verifier has the same key, or the public half of it.
VerifyIt ==
    /\ phase = "sent"
    /\ \E held \in {given, WithPublicHalf(given)} :
          LET result == PrepareSigningKey(alg, held, enforce)
          IN  \/ /\ result.verdict = "ok"
                 /\ phase' = "judged"
                 /\ given' = result.key
                 /\ answer' = Verify(alg, result.key, sent, made)
                 /\ UNCHANGED <<alg, journey, signature>>
              \/ /\ result.verdict # "ok"
                 /\ Fail("refused", result.verdict)
    /\ UNCHANGED enforce

Next == Prepare \/ Export \/ Carry \/ Import \/ SignIt \/ Alter \/ VerifyIt

Spec == Init /\ [][Next]_vars

-----------------------------------------------------------------------------
(* Properties.                                                              *)

Unharmed == way \in {"whole", "padded"}

(* A key that to_jwk wrote comes back from from_jwk, the same key, and as   *)
(* good as it was: leading zeros of its numbers are neither lost nor added. *)
(* The exceptions: without a name for its algorithm an Ed448 key has no     *)
(* handler; a text that lost its end may make another secret, or another    *)
(* modulus of a public RSA key, but never another key of any other kind.    *)
ExportedKeyComesBack ==
    /\ phase = "lost" => ~Unharmed
    /\ phase = "unnamed" => ~Unharmed \/ doc.crv = "Ed448"
    /\ phase = "given" /\ way # "none" =>
          \/ given = exported.key
          \/ /\ way = "cut"
             /\ \/ doc.kty = "oct"
                \/ doc.kty = "RSA" /\ ~IsPrivate(given.key)
    /\ ~(phase = "refused" /\ Unharmed /\ exported.prepared)

(* What a key signed, it verifies, and so does its public half, whatever    *)
(* zeros the numbers of the signature begin with.  The exceptions: "none"   *)
(* verifies nothing, and RSA fails on a private key.                        *)
SignatureVerifies ==
    phase = "judged" /\ sent = made.raw =>
        CASE FamilyOf(alg) = "none" -> answer = "invalid"
          [] FamilyOf(alg) = "RSA" /\ IsPrivate(given.key) ->
                answer = "AttributeError"
          [] OTHER -> answer = "valid"

(* A pair of numbers has one writing as bytes: no signature that was changed *)
(* on the way is accepted for the numbers it still stands for.  ECDSA itself  *)
(* accepts the second number negated, and nothing else is accepted.         *)
AcceptedSignatureIsExact ==
    phase = "judged" /\ answer = "valid" => sent \in Writings

(* A prepared key is one its algorithm can use, by whichever of its loaders *)
(* it came: of the family, on the curve that is expected, and of the length *)
(* that is enforced.                                                        *)
PreparedFits ==
    phase \in {"ready", "signed", "sent", "judged"} =>
        /\ alg \in HmacNames => given.form = "text"
        /\ alg \in Asymmetric =>
              given.form = "object" /\ given.key.family = FamilyOf(alg)
        /\ alg \in EcNames => given.key.part = ExpectedCurve[alg]
        /\ enforce => ~TooShort(alg, given)

(* The tables of formats that HMAC refuses have every format that a loader  *)
(* of another algorithm reads: a text that is used as a secret and is a key *)
(* for RSA, EC or EdDSA too is a PEM text, and passed for its layout alone. *)
KeyTextsAreRecognised ==
    phase \in {"ready", "signed", "sent", "judged"} /\ alg \in HmacNames =>
        \A other \in Asymmetric :
            PrepareKey(other, given).verdict = "ok" =>
                given.marker \in PemLabels /\ given.state = "loose"
=============================================================================
