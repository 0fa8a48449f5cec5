----------------------------- MODULE JWTExchange -----------------------------
(***************************************************************************)
(* The life of a token: an issuer encodes it, it may be damaged on its way, *)
(* and a verifier decodes it (PyJWT.encode and decode_complete over         *)
(* PyJWS.encode and decode_complete), while the wall clock moves and other  *)
(* threads register and unregister algorithms in the PyJWS both share.      *)
(*                                                                         *)
(* Every check of decode_complete is a step, in the order of the code.  Two *)
(* of them read what another thread or the clock changes: the lookup of     *)
(* the handler and the one reading of the time.                             *)
(***************************************************************************)
EXTENDS JWTCall

CONSTANTS
    InstanceOptions,    \* what PyJWT(options) may be given, None for nothing
    Requests,           \* what encode may be asked to make
    Calls,              \* what decode_complete may be asked
    StrayHeaders,       \* headers and bodies a token may have
    StrayBodies,        \*   after it was damaged
    Instants            \* readings of the clock, in half seconds

(* A PyJWK was built with one of the default handlers.  Time claims, leeway *)
(* and clock are counted in whole halves of seconds.                        *)
ASSUME ExchangeAssumption ==
    /\ None \notin Handlers
    /\ Names \cap {"", "absent"} = {}
    /\ \A c \in Calls :
         /\ IsJwk(c.key) => c.key.jwk \in DOMAIN Defaults
         /\ c.leeway \in Int
         /\ c.detached = None \/ IsPayload(c.detached)
    /\ \A request \in Requests :
         /\ IsPayload(request.payload)
         /\ DOMAIN request.headers = DOMAIN NoHeaders
    /\ \A body \in StrayBodies : IsPayload(body)
    /\ Instants \subseteq Int

VARIABLES
    issued,     \* history: the request it was made from, and the signer
    damaged,    \* history: something changed it on its way
    changed,    \* history: names whose handler another thread took away or
                \*   replaced since
    pc,         \* where the verifier is
    handler,    \* alg_obj
    now,        \* the reading of the clock _validate_claims works with
    outcome,    \* how the call ended
    clock,      \* datetime.now(), which may be set back
    seen        \* history: what the clock showed since the call began

tokenVars == <<own, token, issued, damaged, call>>
decodeVars == <<tokenVars, pc, handler, now, outcome>>
vars == <<registryVars, changed, decodeVars, clock, seen>>

NoClaims == [form |-> "object", iat |-> Absent, nbf |-> Absent, exp |-> Absent,
             iss |-> Absent, aud |-> Absent, sub |-> Absent, jti |-> Absent]

\* b"", or bytes that are no JSON;  "other" is JSON that is no object
NoPayload == [NoClaims EXCEPT !.form = "broken"]

Init ==
    /\ RegistryInit
    /\ \E options \in InstanceOptions : own = InstanceOptionsOf(options)
    /\ token = Garbage
    /\ issued = None
    /\ damaged = FALSE
    /\ changed = {}
    /\ pc = "issue"
    /\ call = None
    /\ handler = None
    /\ now = 0
    /\ outcome = "none"
    /\ clock \in Instants
    /\ seen = {}

-----------------------------------------------------------------------------
(* The issuer.                                                              *)

IssueVerdict(request) ==
    LET prepared == PrepareVerdict(request.payload)
    IN  IF request.api = "jwt" /\ prepared # "ok"
          THEN prepared ELSE EncodeVerdict(own, request)

PayloadOf(request) ==
    IF request.api = "jwt" THEN PreparedClaims(request.payload)
                           ELSE request.payload

Issue ==
    /\ pc = "issue"
    /\ \E request \in Requests :
         \/ /\ IssueVerdict(request) = "ok"
            /\ token' = Encoded(request, PayloadOf(request), NoPayload)
            /\ issued' = [request |-> request, signer |-> HandlerFor(request)]
            /\ pc' = "sent"
            /\ UNCHANGED outcome
         \/ /\ IssueVerdict(request) # "ok"
            /\ pc' = "refused"
            /\ outcome' = IssueVerdict(request)
            /\ UNCHANGED <<token, issued>>
    /\ UNCHANGED <<registryVars, changed, own, damaged, call, handler, now,
                   clock, seen>>

(* On the way.                                                              *)

Damaged ==
    {Garbage, [token EXCEPT !.signature = NoSignature]}
        \cup {[token EXCEPT !.header = header] : header \in StrayHeaders}
        \cup {[token EXCEPT !.body = body] : body \in StrayBodies}

Damage ==
    /\ pc = "sent" /\ ~damaged
    /\ token' \in Damaged
    /\ damaged' = TRUE
    /\ UNCHANGED <<registryVars, changed, own, issued, pc, call, handler, now,
                   outcome, clock, seen>>

-----------------------------------------------------------------------------
(* The verifier.                                                            *)

Decode ==
    /\ pc = "sent"
    /\ call' \in Calls
    /\ pc' = "algorithms"
    /\ seen' = {clock}
    /\ UNCHANGED <<registryVars, changed, own, token, issued, damaged, handler,
                   now, outcome, clock>>

Others == UNCHANGED <<registryVars, changed, tokenVars, clock, seen>>

Check(label, verdict, next) ==
    /\ pc = label
    /\ \/ verdict = "ok" /\ pc' = next /\ UNCHANGED outcome
       \/ verdict # "ok" /\ pc' = "done" /\ outcome' = verdict
    /\ UNCHANGED <<handler, now>>
    /\ Others

RequireAlgorithms ==
    Check("algorithms", AlgorithmsVerdict(Verifying, call.algorithms, call.key),
          "load")

Load == Check("load", First(token = Garbage, "DecodeError", "ok"), "headers")

ValidateHeaders == Check("headers", HeaderVerdict(token.header), "detached")

\* Where the payload is looked at: PyJWS returns it as it is.
Contents == IF call.api = "jwt" THEN "payload" ELSE "return"

AttachPayload ==
    Check("detached", DetachedVerdict(token.header, call.detached),
          IF Verifying THEN "allowed" ELSE Contents)

AllowAlgorithm ==
    Check("allowed", AlgVerdict(token.header, call.algorithms, call.key),
          "lookup")

(* A PyJWK brings the handler it was built with, one of the defaults; for   *)
(* any other key get_algorithm_by_name looks into the shared dictionary.    *)
UseHandlerOfJwk ==
    /\ pc = "lookup" /\ IsJwk(call.key)
    /\ handler' = Defaults[call.key.jwk]
    /\ pc' = "key"
    /\ UNCHANGED <<now, outcome>>
    /\ Others

\* Mutant: an algorithm without a handler has nothing to verify with.
SkipUnknownHandler ==
    /\ pc = "lookup" /\ ~IsJwk(call.key)
    /\ \/ /\ token.header.alg \in DOMAIN algorithms
          /\ handler' = algorithms[token.header.alg]
          /\ pc' = "key"
       \/ /\ token.header.alg \notin DOMAIN algorithms
          /\ pc' = Contents
          /\ UNCHANGED handler
    /\ UNCHANGED <<now, outcome>>
    /\ Others

FindHandler ==
    /\ pc = "lookup" /\ ~IsJwk(call.key)
    /\ \/ /\ token.header.alg \in DOMAIN algorithms
          /\ handler' = algorithms[token.header.alg]
          /\ pc' = "key"
          /\ UNCHANGED outcome
       \/ /\ token.header.alg \notin DOMAIN algorithms
          /\ pc' = "done"
          /\ outcome' = "InvalidAlgorithmError"
          /\ UNCHANGED handler
    /\ UNCHANGED now
    /\ Others

PrepareKey == Check("key", KeyVerdict(own, handler, call.key), "signature")

\* Mutant: what verify() returns is ignored.
UncheckedSignature == "ok"

SignatureVerdict ==
    First(Verifies(handler, call.key, token.header, Body, token.signature),
          "ok", "InvalidSignatureError")

VerifySignature == Check("signature", SignatureVerdict, Contents)

DecodePayload ==
    Check("payload", First(Body.form = "object", "ok", "DecodeError"),
          "audience")

-----------------------------------------------------------------------------
(* _validate_claims                                                         *)

CheckAudience == Check("audience", AudienceVerdict(call.audience), "require")

RequireClaims == Check("require", RequireVerdict(Body, Options.require), "now")

ReadClock ==
    /\ pc = "now"
    /\ now' = clock
    /\ pc' = "iat"
    /\ UNCHANGED <<handler, outcome>>
    /\ Others

\* Mutant: each check reads the time for itself.
NowOfEachCheck == clock

Now == now

ValidateIat ==
    Check("iat", IfPresent("verify_iat", Body.iat,
                           IatVerdict(Body.iat, Now, call.leeway)), "nbf")

ValidateNbf ==
    Check("nbf", IfPresent("verify_nbf", Body.nbf,
                           NbfVerdict(Body.nbf, Now, call.leeway)), "exp")

ValidateExp ==
    Check("exp", IfPresent("verify_exp", Body.exp,
                           ExpVerdict(Body.exp, Now, call.leeway)), "iss")

ValidateIss ==
    Check("iss", IfOn("verify_iss", IssVerdict(Body.iss, call.issuer)), "aud")

ValidateAud ==
    Check("aud", IfOn("verify_aud", AudVerdict(Body.aud, call.audience,
                                               Options.strict_aud)), "sub")

ValidateSub ==
    Check("sub", IfOn("verify_sub", SubVerdict(Body.sub, call.subject)), "jti")

ValidateJti ==
    Check("jti", IfOn("verify_jti", JtiVerdict(Body.jti)), "return")

Return ==
    /\ pc = "return"
    /\ pc' = "done"
    /\ outcome' = "ok"
    /\ UNCHANGED <<handler, now>>
    /\ Others

-----------------------------------------------------------------------------

(* The wall clock: time passes, and it may be set, back too.                *)
SetClock ==
    /\ pc \notin {"issue", "sent", "refused", "done"}
    /\ clock' \in Instants
    /\ seen' = seen \cup {clock'}
    /\ UNCHANGED <<registryVars, changed, decodeVars>>

\* The names that a step takes a handler from.
Displaced ==
    {name \in DOMAIN algorithms :
        name \in DOMAIN algorithms' => algorithms'[name] # algorithms[name]}

OtherThreads ==
    /\ RegistryNext
    /\ changed' = IF pc = "issue" THEN changed ELSE changed \cup Displaced
    /\ UNCHANGED <<decodeVars, clock, seen>>

OfJws ==
    \/ RequireAlgorithms \/ Load \/ ValidateHeaders \/ AttachPayload
    \/ AllowAlgorithm \/ UseHandlerOfJwk \/ FindHandler \/ PrepareKey
    \/ VerifySignature

OfJwt ==
    \/ DecodePayload \/ CheckAudience \/ RequireClaims \/ ReadClock
    \/ ValidateIat \/ ValidateNbf \/ ValidateExp \/ ValidateIss
    \/ ValidateAud \/ ValidateSub \/ ValidateJti \/ Return

Next ==
    \/ Issue \/ Damage \/ Decode
    \/ OfJws \/ OfJwt
    \/ SetClock \/ OtherThreads

Spec == Init /\ [][Next]_vars

-----------------------------------------------------------------------------
(* What a decode promises.                                                  *)

Refusals == {"DecodeError", "InvalidTokenError", "InvalidAlgorithmError",
             "InvalidKeyError", "InvalidSignatureError", "NotImplementedError",
             "TypeError", "OverflowError"}

ClaimErrors == {"ImmatureSignatureError", "ExpiredSignatureError",
                "InvalidIssuedAtError", "InvalidIssuerError",
                "InvalidAudienceError", "InvalidSubjectError",
                "InvalidJTIError", "MissingRequiredClaimError"}

Labels == {"issue", "sent", "refused", "algorithms", "load", "headers",
           "detached", "allowed", "lookup", "key", "signature", "payload",
           "audience", "require", "now", "iat", "nbf", "exp", "iss", "aud",
           "sub", "jti", "return", "done"}

(* The variables keep their types.                                          *)
TypeOK ==
    /\ RegistryTypeOK
    /\ pc \in Labels
    /\ damaged \in BOOLEAN
    /\ changed \subseteq Names
    /\ handler \in Handlers \cup {None}
    /\ outcome \in Refusals \cup ClaimErrors \cup {"none", "ok"}
    /\ clock \in Instants
    /\ seen \subseteq Instants
    /\ now \in Instants \cup {0}

Accepted == pc = "done" /\ outcome = "ok"

(* The token is what the issuer encoded, header and payload, under the key  *)
(* the verifier was given.                                                  *)
Authentic ==
    /\ call.key.id = issued.request.key.id
    /\ token.header = HeaderOf(issued.request)
    /\ Body = PayloadOf(issued.request)

\* The algorithms _verify_signature compares the header's with.
Allowed == IF call.algorithms = None THEN {call.key.jwk} ELSE call.algorithms

(* decode returns a payload, with verification on, only if the issuer       *)
(* signed that payload under that header with the verifier's key, and the   *)
(* header's algorithm is one the caller allows (or the key's, when the      *)
(* caller leaves it to a PyJWK).  Damage, a detached payload, the options   *)
(* of two levels and registrations in other threads come in between.        *)
AcceptedIsAuthentic ==
    Accepted /\ Verifying =>
        /\ Authentic
        /\ token.header.alg \in Allowed

(* A complaint about a claim is about the issuer's claim: with verification *)
(* on, ExpiredSignatureError and its kin are raised for authentic tokens    *)
(* only, so a caller may treat them as "renew the token".                   *)
ClaimErrorsAreAuthentic ==
    outcome \in ClaimErrors /\ Verifying => Authentic

\* The time claims under the flags in force, were it "t" now.
TimesHoldAt(t) ==
    /\ Options.verify_iat /\ Present(Body.iat) =>
          Body.iat.sort = "number" /\ Whole(Body.iat) <= t + call.leeway
    /\ Options.verify_nbf /\ Present(Body.nbf) =>
          Body.nbf.sort = "number" /\ Whole(Body.nbf) <= t + call.leeway
    /\ Options.verify_exp /\ Present(Body.exp) =>
          Body.exp.sort = "number" /\ t < Whole(Body.exp) + call.leeway

(* An accepted token was issued, valid and not expired at one and the same  *)
(* moment of the call, however the clock moved between the three checks.    *)
AcceptedAtOneInstant ==
    Accepted /\ call.api = "jwt" => \E t \in seen : TimesHoldAt(t)

\* The claims about parties, and the required ones, in the docs' terms.
PartiesAgree ==
    /\ \A name \in Options.require : Body[name].sort \notin {"absent", "null"}
    /\ Options.verify_iss /\ call.issuer # None =>
          /\ Body.iss.sort = "text" /\ call.issuer.sort # "other"
          /\ \A iss \in Body.iss.names : iss \in call.issuer.names
    /\ Options.verify_aud =>
          IF call.audience = None THEN Falsy(Body.aud)
          ELSE IF Options.strict_aud
            THEN /\ call.audience.sort = "text" /\ Body.aud.sort = "text"
                 /\ call.audience.names = Body.aud.names
            ELSE /\ Body.aud.sort \in {"text", "list"}
                 /\ \E aud \in call.audience.names : aud \in Body.aud.names
    /\ Options.verify_sub /\ Present(Body.sub) =>
          /\ Body.sub.sort = "text"
          /\ call.subject = None \/ call.subject.names = Body.sub.names
    /\ Options.verify_jti /\ Present(Body.jti) => Body.jti.sort = "text"

(* No claim check is skipped on the way to an accepted token, whichever     *)
(* order the checks are made in: required claims are there, and issuer,     *)
(* audience, subject and JWT ID are what the flags in force ask for.        *)
AcceptedFromTheParties ==
    Accepted /\ call.api = "jwt" => Body.form = "object" /\ PartiesAgree

(* A claim error has a reason in the claims: some claim fails what the      *)
(* flags in force ask, at a moment of the call.                             *)
RefusedForAReason ==
    outcome \in ClaimErrors =>
        ~PartiesAgree \/ \E t \in seen : ~TimesHoldAt(t)

\* The call itself gives the option, and as true.
Asks(option) ==
    /\ call.options # None
    /\ Gives(call.options, option)
    /\ call.options[option]

(* The verifier works with another handler than the issuer: the issuer's was *)
(* taken away on the way, or the PyJWK brings its own.                      *)
Exchanged ==
    \/ token.header.alg \in changed
    \/ IsJwk(call.key) /\ handler # issued.signer

(* What encode makes, decode verifies.  An undamaged token is refused for   *)
(* its header only over the "crit" its issuer wrote; for its algorithm only *)
(* if the issuer blanked it, the caller does not allow it, or a thread took *)
(* its handler away since it was made; for the key only if that is another, *)
(* or the handler is; for the signature only if key, handler or detached    *)
(* payload are not the issuer's, or the algorithm is none.  Of a call that  *)
(* asks for a minimum key length itself nothing is said here, for types.py  *)
(* and the code disagree about it: see LengthOptionCounts.                  *)
RoundTrip ==
    ~damaged /\ pc = "done" =>
        /\ outcome = "InvalidTokenError" =>
              issued.request.headers.crit # "absent"
        /\ outcome = "InvalidAlgorithmError" =>
              \/ issued.request.headers.alg = ""
              \/ token.header.alg \notin Allowed
              \/ token.header.alg \in changed
        /\ outcome = "InvalidKeyError" =>
              \/ call.key # issued.request.key
              \/ Exchanged
              \/ Asks("enforce_minimum_key_length")
        /\ outcome = "InvalidSignatureError" =>
              \/ call.key.id # issued.request.key.id
              \/ Exchanged
              \/ Body # PayloadOf(issued.request)
              \/ handler \in Unsigned

(* types.py says of enforce_minimum_key_length, an option of decode: "Raise *)
(* InvalidKeyError instead of warning when keys are below minimum           *)
(* recommended length".  So a call that gives it verifies with no short key. *)
(* The code asks the options of the instance instead.                       *)
LengthOptionCounts ==
    Accepted /\ call.api = "jwt" /\ Asks("enforce_minimum_key_length") =>
        ~Verifying \/ handler \notin call.key.short

\* The call turns verification off and names no other flag.
JustUnverified ==
    /\ call.options # None
    /\ ~Wanted(call.options)
    /\ \A flag \in VerifyFlags : ~Gives(call.options, flag)

(* Turning verify_signature off for a call turns the claim checks off too,  *)
(* whatever the instance was told: what remains is "require".               *)
UnverifiedIsLenient ==
    outcome \in ClaimErrors /\ JustUnverified =>
        /\ outcome = "MissingRequiredClaimError"
        /\ Options.require # {}

(* A flag the call turns on explicitly is in force even when the call turns *)
(* verification off: an expired token is refused.                           *)
ExplicitFlagCounts ==
    Accepted /\ call.api = "jwt" /\ Asks("verify_exp") =>
        \/ ~Present(Body.exp)
        \/ \E t \in seen : t < Whole(Body.exp) + call.leeway

-----------------------------------------------------------------------------
(* The steps of decode_complete are the inside of one answer.               *)

PhaseOf ==
    IF pc \in {"issue", "sent", "refused"} THEN "away"
    ELSE IF pc = "done" THEN "answered" ELSE "asked"

Contract == INSTANCE DecodeContract WITH
    phase   <- PhaseOf,
    outcome <- IF pc = "done" THEN outcome ELSE "none"

(* With its checks in any order and other threads and the clock between     *)
(* them, decode_complete answers as if it had looked at everything at once: *)
(* at one handler and one reading of the clock, accepting only when no      *)
(* check objects, and raising only what one of the checks that apply says.  *)
ImplementsContract == Contract!Spec
=============================================================================
