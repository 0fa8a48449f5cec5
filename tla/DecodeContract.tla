---------------------------- MODULE DecodeContract ----------------------------
(***************************************************************************)
(* What decode_complete promises, whatever the order of its checks: one     *)
(* answer, given in one step, that follows from the token, the arguments,   *)
(* one look into the dictionary of handlers and one reading of the clock.   *)
(* Other threads and the clock go on meanwhile.  JWTExchange implements     *)
(* this.                                                                   *)
(***************************************************************************)
EXTENDS JWTCall

VARIABLES
    phase,      \* "away" (no call yet), "asked" or "answered"
    handler,    \* what the look into the dictionary found
    now,        \* what the clock showed
    outcome,    \* the answer
    clock

asked == <<own, token, call>>
vars == <<algorithms, asked, phase, handler, now, outcome, clock>>

Init ==
    /\ phase = "away"
    /\ handler = None
    /\ outcome = "none"

-----------------------------------------------------------------------------
(* Everything there is to say against a token.                              *)

\* A handler that was not looked up yet leaves its verdicts "unread".
HandlerVerdicts ==
    IF handler # None
      THEN {KeyVerdict(own, handler, call.key),
            First(Verifies(handler, call.key, token.header, Body,
                           token.signature),
                  "ok", "InvalidSignatureError")}
    ELSE IF ~IsJwk(call.key) /\ token.header.alg \notin DOMAIN algorithms
      THEN {"InvalidAlgorithmError"}
    ELSE {"unread"}

SignatureVerdicts ==
    IF Verifying
      THEN {AlgVerdict(token.header, call.algorithms, call.key)}
           \cup HandlerVerdicts
      ELSE {}

HeaderVerdicts ==
    IF token = Garbage
      THEN {"DecodeError"}
      ELSE {HeaderVerdict(token.header),
            DetachedVerdict(token.header, call.detached)}
           \cup SignatureVerdicts

TokenVerdicts ==
    {AlgorithmsVerdict(Verifying, call.algorithms, call.key)}
        \cup HeaderVerdicts

\* What is said of the claims once payload and audience are such that they
\* can be looked at.
RegisteredVerdicts ==
    {RequireVerdict(Body, Options.require),
     IfPresent("verify_iat", Body.iat, IatVerdict(Body.iat, now, call.leeway)),
     IfPresent("verify_nbf", Body.nbf, NbfVerdict(Body.nbf, now, call.leeway)),
     IfPresent("verify_exp", Body.exp, ExpVerdict(Body.exp, now, call.leeway)),
     IfOn("verify_iss", IssVerdict(Body.iss, call.issuer)),
     IfOn("verify_aud",
          AudVerdict(Body.aud, call.audience, Options.strict_aud)),
     IfOn("verify_sub", SubVerdict(Body.sub, call.subject)),
     IfOn("verify_jti", JtiVerdict(Body.jti))}

ShapeVerdicts ==
    {First(Body.form = "object", "ok", "DecodeError"),
     AudienceVerdict(call.audience)}

ClaimVerdicts ==
    IF call.api # "jwt" THEN {"ok"}
    ELSE IF ShapeVerdicts = {"ok"} THEN RegisteredVerdicts
    ELSE ShapeVerdicts

Fine == {"ok"}

\* Accepted if nothing is to be said against it; refused for something said,
\* and for its claims only if nothing else is.
Justified(answer) ==
    \/ answer = "ok" /\ TokenVerdicts = Fine /\ ClaimVerdicts = Fine
    \/ answer \in TokenVerdicts \ {"ok", "unread"}
    \/ TokenVerdicts = Fine /\ answer \in ClaimVerdicts \ Fine

-----------------------------------------------------------------------------

\* The token is made and travels; the call comes.
Travel ==
    /\ phase = "away"
    /\ UNCHANGED <<algorithms, own, call, phase, handler, now, outcome, clock>>

Ask ==
    /\ phase = "away"
    /\ phase' = "asked"
    /\ UNCHANGED <<algorithms, own, token, handler, now, outcome, clock>>

LookUp ==
    /\ phase = "asked" /\ handler = None /\ token # Garbage
    /\ \/ IsJwk(call.key) /\ handler' = Defaults[call.key.jwk]
       \/ /\ ~IsJwk(call.key)
          /\ token.header.alg \in DOMAIN algorithms
          /\ handler' = algorithms[token.header.alg]
    /\ UNCHANGED <<algorithms, asked, phase, now, outcome, clock>>

ReadClock ==
    /\ phase = "asked"
    /\ now' = clock
    /\ UNCHANGED <<algorithms, asked, phase, handler, outcome, clock>>

Answer ==
    /\ phase = "asked"
    /\ phase' = "answered"
    /\ Justified(outcome')
    /\ UNCHANGED <<algorithms, asked, handler, now, clock>>

\* Other threads register and unregister, the clock is set.
World == UNCHANGED <<asked, phase, handler, now, outcome>>

Next == Travel \/ Ask \/ LookUp \/ ReadClock \/ Answer \/ World

Spec == Init /\ [][Next]_vars
=============================================================================
