----------------------- MODULE JWTExchangeAnswers_proofs -----------------------
(***************************************************************************)
(* What the answers of a decode mean: when it accepted, why it refused,     *)
(* and that an undamaged token comes back.  The invariant of the contract   *)
(* says which checks an accepted token has passed; here is added which      *)
(* check a refused one failed, when the clock was read, and what the        *)
(* issuer's token looks like as long as nothing damages it.                 *)
(***************************************************************************)
EXTENDS JWTExchangeContract_proofs

-----------------------------------------------------------------------------
(* The invariant.                                                           *)

Called == pc \notin {"issue", "sent", "refused"}
Issued == pc \notin {"issue", "refused"}

AfterNow == {"iat", "nbf", "exp", "iss", "aud", "sub", "jti", "return"}

BodyTyped ==
    Issued /\ (token # Garbage \/ ~damaged) => IsPayload(token.body)

\* The clock is read during the call, and a complaint about a time claim
\* comes after that.
Clocked ==
    /\ seen \subseteq Instants
    /\ clock \in Instants
    /\ Called => clock \in seen
    /\ Through(AfterNow) => now \in seen

RegisteredSet ==
    {RequireVerdict(Body, Options.require),
     IfPresent("verify_iat", Body.iat, IatVerdict(Body.iat, now, call.leeway)),
     IfPresent("verify_nbf", Body.nbf, NbfVerdict(Body.nbf, now, call.leeway)),
     IfPresent("verify_exp", Body.exp, ExpVerdict(Body.exp, now, call.leeway)),
     IfOn("verify_iss", IssVerdict(Body.iss, call.issuer)),
     IfOn("verify_aud",
          AudVerdict(Body.aud, call.audience, Options.strict_aud)),
     IfOn("verify_sub", SubVerdict(Body.sub, call.subject)),
     IfOn("verify_jti", JtiVerdict(Body.jti))}

\* A claim error is the verdict of one of the checks of claims.
ClaimRefused ==
    pc = "done" /\ outcome \in ClaimErrors =>
        /\ call.api = "jwt"
        /\ outcome \in RegisteredSet
        /\ outcome = "MissingRequiredClaimError" \/ now \in seen

IssuedAlg == ResolvedAlg(issued.request.algorithm, issued.request.key,
                         issued.request.headers)

\* A refusal of the token is the verdict of the check of that name; a lookup
\* that finds nothing looked for another name, or its handler was taken away.
TokenRefused ==
    pc = "done" =>
        /\ outcome = "InvalidTokenError" => ~HeaderOK
        /\ outcome = "InvalidAlgorithmError" =>
              \/ ~AlgorithmAllowed
              \/ token.header.alg # IssuedAlg
              \/ token.header.alg \in changed
        /\ outcome = "InvalidKeyError" => ~KeyOK /\ handler # None
        /\ outcome = "InvalidSignatureError" =>
              ~SignatureVerified /\ handler # None

IssueRefused ==
    pc = "refused" =>
        outcome \in {"TypeError", "InvalidTokenError", "NotImplementedError",
                     "InvalidKeyError"}

\* What encode has made, and made sure of.
Untouched ==
    Issued =>
        /\ KidAllowed(issued.request.headers)
        /\ KeyVerdict(own, issued.signer, issued.request.key) = "ok"
        /\ DOMAIN issued.request.headers = DOMAIN NoHeaders
        /\ IssuedAlg \in Names
        /\ IssuedAlg \notin changed =>
              /\ IssuedAlg \in DOMAIN algorithms
              /\ algorithms[IssuedAlg] = issued.signer
        /\ ~damaged =>
              token = Token(HeaderOf(issued.request),
                            IF Detached(issued.request)
                              THEN NoPayload ELSE PayloadOf(issued.request),
                            IssuersSignature)

\* The handler found for an undamaged token is the issuer's, as long as
\* nobody took that away.
FoundSigner ==
    /\ Called /\ ~damaged /\ ~IsJwk(call.key) /\ handler # None
    /\ token.header.alg \notin changed
    => handler = issued.signer

-----------------------------------------------------------------------------
(* The body is a payload.                                                   *)

LEMMA IssuerSteps ==
  ASSUME [Next]_vars, ~Issue, ~Damage
  PROVE  UNCHANGED <<own, token, issued, damaged>>
BY DEF Next, vars, Issue, Damage, Decode, OfJws, OfJwt, SetClock, OtherThreads,
   Others, Check, RequireAlgorithms, Load, ValidateHeaders, AttachPayload,
   AllowAlgorithm, UseHandlerOfJwk, FindHandler, PrepareKey, VerifySignature,
   DecodePayload, CheckAudience, RequireClaims, ReadClock, ValidateIat,
   ValidateNbf, ValidateExp, ValidateIss, ValidateAud, ValidateSub,
   ValidateJti, Return, tokenVars, decodeVars

LEMMA IssuedStays ==
  ASSUME [Next]_vars, ~Issue
  PROVE  Issued' = Issued
BY DEF Issued, Next, vars, Issue, Damage, Decode, OfJws, OfJwt, SetClock,
   OtherThreads, Contents,
   Others, Check, RequireAlgorithms, Load, ValidateHeaders, AttachPayload,
   AllowAlgorithm, UseHandlerOfJwk, FindHandler, PrepareKey, VerifySignature,
   DecodePayload, CheckAudience, RequireClaims, ReadClock, ValidateIat,
   ValidateNbf, ValidateExp, ValidateIss, ValidateAud, ValidateSub,
   ValidateJti, Return, tokenVars, decodeVars

(* A datetime becomes the whole seconds of it.                              *)
LEMMA PreparedIsPayload ==
  ASSUME NEW payload, IsPayload(payload)
  PROVE  IsPayload(PreparedClaims(payload))
<1> DEFINE prepared == PreparedClaims(payload)
<1>1. DOMAIN prepared = DOMAIN payload
  BY DEF PreparedClaims
<1>2. /\ prepared.iat = Seconds(payload.iat)
      /\ prepared.nbf = Seconds(payload.nbf)
      /\ prepared.exp = Seconds(payload.exp)
  BY DEF PreparedClaims, IsPayload, TimeClaims
<1>3. ASSUME NEW claim,
             claim.sort \in {"number", "moment"} => claim.halves \in Int
      PROVE  Seconds(claim).sort \in {"number", "moment"}
                => Seconds(claim).halves \in Int
  BY <1>3 DEF Seconds, Number
<1>4. \A name \in TimeClaims :
         prepared[name].sort \in {"number", "moment"}
            => prepared[name].halves \in Int
  BY <1>2, <1>3 DEF IsPayload, TimeClaims
<1>5. QED
  BY <1>1, <1>4 DEF IsPayload

LEMMA NoPayloadIsPayload == IsPayload(NoPayload)
BY DEF IsPayload, NoPayload, NoClaims, Absent, TimeClaims

LEMMA NextBodyTyped ==
  ASSUME ContractInv, BodyTyped, [Next]_vars
  PROVE  BodyTyped'
<1>1. CASE Issue
  <2>1. CASE pc' = "refused"
    BY <2>1 DEF BodyTyped, Issued
  <2>2. CASE pc' # "refused"
    <3>1. PICK request \in Requests :
             token' = Encoded(request, PayloadOf(request), NoPayload)
      BY <1>1, <2>2 DEF Issue
    <3>2. IsPayload(request.payload)
      BY ExchangeAssumption DEF ExchangeAssumption
    <3>3. IsPayload(PayloadOf(request))
      BY <3>2, PreparedIsPayload DEF PayloadOf
    <3>4. token'.body \in {NoPayload, PayloadOf(request)}
      BY <3>1 DEF Encoded, Token
    <3>5. QED
      BY <3>3, <3>4, NoPayloadIsPayload DEF BodyTyped
  <2>3. QED
    BY <2>1, <2>2
<1>2. CASE Damage
  <2>1. /\ token' \in Damaged /\ ~damaged
        /\ pc = "sent" /\ pc' = pc
    BY <1>2 DEF Damage
  <2>2. token = Token(token.header, token.body, token.signature)
    BY <2>1 DEF ContractInv, DecodeInv, NeverForged
  <2>3. token' = Garbage \/ token'.body \in {token.body} \cup StrayBodies
    BY <2>1, <2>2 DEF Damaged, Token
  <2>4. IsPayload(token.body)
    BY <2>1 DEF BodyTyped, Issued
  <2>5. damaged'
    BY <1>2 DEF Damage
  <2>6. QED
    BY <2>3, <2>4, <2>5, ExchangeAssumption DEF BodyTyped, ExchangeAssumption
<1>3. CASE ~Issue /\ ~Damage
  BY <1>3, IssuerSteps, IssuedStays DEF BodyTyped
<1>4. QED
  BY <1>1, <1>2, <1>3

-----------------------------------------------------------------------------
(* The clock.                                                               *)

(* A check reads no clock, and claims are complained about after the        *)
(* reading or over a missing one.                                           *)
LEMMA CheckClocked ==
  ASSUME ContractInv, Clocked, ClaimRefused, NEW label, NEW verdict, NEW next,
         Check(label, verdict, next),
         label \notin {"issue", "sent", "refused", "done"}, next # "done",
         next \in AfterNow /\ call.api = "jwt" => label \in AfterNow,
         verdict \in ClaimErrors =>
            /\ label \in OfClaims
            /\ verdict \in RegisteredSet
            /\ verdict = "MissingRequiredClaimError" \/ label \in AfterNow
  PROVE  Clocked' /\ ClaimRefused'
<1>1. /\ pc = label /\ UNCHANGED <<tokenVars, call, clock, seen, now>>
      /\ \/ verdict = "ok" /\ pc' = next /\ outcome' = outcome
         \/ verdict # "ok" /\ pc' = "done" /\ outcome' = verdict
  BY DEF Check, Others, tokenVars
<1>2. Clocked'
  <2>1. clock \in seen /\ seen \subseteq Instants /\ clock \in Instants
    BY <1>1 DEF Clocked, Called
  <2>2. CASE pc' = next
    <3>1. ~Accepted'
      BY <2>2 DEF Accepted
    <3>2. Through(AfterNow)' => label \in AfterNow /\ call.api = "jwt"
      BY <1>1, <2>2, <3>1 DEF Through, AfterNow
    <3>3. label \in AfterNow /\ call.api = "jwt" => now \in seen
      BY <1>1 DEF Clocked, Through
    <3>4. QED
      BY <1>1, <2>1, <3>2, <3>3 DEF Clocked
  <2>3. CASE verdict # "ok" /\ pc' = "done" /\ outcome' = verdict
    <3>1. ~Through(AfterNow)'
      BY <2>3 DEF Through, Accepted, AfterNow
    <3>2. QED
      BY <1>1, <2>1, <3>1 DEF Clocked
  <2>4. QED
    BY <1>1, <2>2, <2>3
<1>3. CASE pc' = next
  BY <1>2, <1>3 DEF ClaimRefused
<1>4. CASE pc' = "done" /\ outcome' = verdict
  <2>1. RegisteredSet' = RegisteredSet
    <3>1. call' = call /\ token' = token /\ own' = own /\ now' = now
      BY <1>1 DEF tokenVars
    <3>2. Body' = Body /\ Options' = Options
      BY <3>1 DEF Body, BodyOf, Options
    <3>3. QED
      BY <3>1, <3>2
      DEF RegisteredSet, IfPresent, IfOn
  <2>2. call.api = "jwt" \/ verdict \notin ClaimErrors
    BY <1>1 DEF ContractInv, Placed
  <2>3. label \in AfterNow /\ call.api = "jwt" => now \in seen
    BY <1>1 DEF Clocked, Through
  <2>4. QED
    BY <1>1, <1>2, <1>4, <2>1, <2>2, <2>3 DEF ClaimRefused
<1>5. QED
  BY <1>1, <1>3, <1>4

(* The checks before those of the claims raise none of their errors.        *)
LEMMA ClockedToken ==
  ASSUME ContractInv, Clocked, ClaimRefused,
         \/ RequireAlgorithms \/ Load \/ ValidateHeaders \/ AttachPayload
         \/ AllowAlgorithm \/ PrepareKey \/ VerifySignature
         \/ DecodePayload \/ CheckAudience
  PROVE  Clocked' /\ ClaimRefused'
<1> USE CheckClocked
<1> USE DEF AfterNow, ClaimErrors, First, Contents
<1>1. CASE RequireAlgorithms
  BY <1>1 DEF RequireAlgorithms, AlgorithmsVerdict
<1>2. CASE Load
  BY <1>2 DEF Load
<1>3. CASE ValidateHeaders
  BY <1>3 DEF ValidateHeaders, HeaderVerdict
<1>4. CASE AttachPayload
  BY <1>4 DEF AttachPayload, DetachedVerdict
<1>5. CASE AllowAlgorithm
  BY <1>5 DEF AllowAlgorithm, AlgVerdict
<1>6. CASE PrepareKey
  BY <1>6 DEF PrepareKey, KeyVerdict
<1>7. CASE VerifySignature
  BY <1>7 DEF VerifySignature, SignatureVerdict
<1>8. CASE DecodePayload
  BY <1>8 DEF DecodePayload
<1>9. CASE CheckAudience
  BY <1>9 DEF CheckAudience, AudienceVerdict
<1>10. QED
  BY <1>1, <1>2, <1>3, <1>4, <1>5, <1>6, <1>7, <1>8, <1>9

LEMMA ClockedClaims ==
  ASSUME ContractInv, Clocked, ClaimRefused,
         \/ RequireClaims \/ ValidateIat \/ ValidateNbf \/ ValidateExp
         \/ ValidateIss \/ ValidateAud \/ ValidateSub \/ ValidateJti
  PROVE  Clocked' /\ ClaimRefused'
<1> USE CheckClocked
<1> USE DEF AfterNow, OfClaims, Now, RegisteredSet
<1>0. RequireVerdict(Body, Options.require)
        \in {"ok", "MissingRequiredClaimError"}
  BY DEF RequireVerdict, First
<1>1. CASE RequireClaims
  BY <1>0, <1>1 DEF RequireClaims, ClaimErrors
<1>2. CASE ValidateIat
  BY <1>2 DEF ValidateIat
<1>3. CASE ValidateNbf
  BY <1>3 DEF ValidateNbf
<1>4. CASE ValidateExp
  BY <1>4 DEF ValidateExp
<1>5. CASE ValidateIss
  BY <1>5 DEF ValidateIss
<1>6. CASE ValidateAud
  BY <1>6 DEF ValidateAud
<1>7. CASE ValidateSub
  BY <1>7 DEF ValidateSub
<1>8. CASE ValidateJti
  BY <1>8 DEF ValidateJti
<1>9. QED
  BY <1>1, <1>2, <1>3, <1>4, <1>5, <1>6, <1>7, <1>8

LEMMA ClockedRest ==
  ASSUME ContractInv, Clocked, ClaimRefused,
         \/ UseHandlerOfJwk \/ FindHandler \/ ReadClock \/ Return
         \/ Issue \/ Damage \/ Decode
  PROVE  Clocked' /\ ClaimRefused'
<1> USE DEF Clocked, ClaimRefused, Called, Through, Accepted, AfterNow,
           ClaimErrors
<1>1. CASE UseHandlerOfJwk \/ FindHandler
  BY <1>1 DEF UseHandlerOfJwk, FindHandler, Others
<1>2. CASE ReadClock
  BY <1>2 DEF ReadClock, Others
<1>3. CASE Return
  BY <1>3 DEF Return, Others, tokenVars
<1>4. CASE Issue \/ Damage \/ Decode
  BY <1>4 DEF Issue, Damage, Decode
<1>5. QED
  BY <1>1, <1>2, <1>3, <1>4

(* A verdict is what it was as long as what it looks at is.                 *)
LEMMA ClockedElsewhere ==
  ASSUME ContractInv, Clocked, ClaimRefused,
         SetClock \/ OtherThreads \/ UNCHANGED vars
  PROVE  Clocked' /\ ClaimRefused'
<1>1. UNCHANGED <<own, token, call, pc, outcome, now>>
  BY DEF SetClock, OtherThreads, vars, decodeVars, tokenVars
<1>2. /\ seen \subseteq seen' /\ clock' \in {clock} \cup seen'
      /\ seen' \subseteq seen \cup {clock'} /\ clock' \in {clock} \cup Instants
  BY DEF SetClock, OtherThreads, vars
<1>3. Clocked'
  BY <1>1, <1>2 DEF Clocked, Called, Through, Accepted
<1>4. Body' = Body /\ Options' = Options
  BY <1>1 DEF Body, BodyOf, Options
<1>5. RegisteredSet' = RegisteredSet
  BY <1>1, <1>4
  DEF RegisteredSet, IfPresent, IfOn
<1>6. ClaimRefused'
  BY <1>1, <1>2, <1>5 DEF ClaimRefused
<1>7. QED
  BY <1>3, <1>6

LEMMA NextClocked ==
  ASSUME ContractInv, Clocked, ClaimRefused, [Next]_vars
  PROVE  Clocked' /\ ClaimRefused'
BY ClockedToken, ClockedClaims, ClockedRest, ClockedElsewhere
DEF Next, OfJws, OfJwt

-----------------------------------------------------------------------------
(* Refusals of the token, and the token as it was issued.                   *)

LEMMA SettledRefusals ==
  ASSUME UNCHANGED <<tokenVars, handler>>
  PROVE  /\ HeaderOK' <=> HeaderOK
         /\ AlgorithmAllowed' <=> AlgorithmAllowed
         /\ KeyOK' <=> KeyOK
         /\ SignatureVerified' <=> SignatureVerified
         /\ token' = token
BY TokenSettled, VerdictsSettled, SignatureVerdictSettled

(* A check ends the decode with its own verdict.                            *)
LEMMA RefusedToken ==
  ASSUME ContractInv, TokenRefused,
         \/ RequireAlgorithms \/ Load \/ ValidateHeaders \/ AttachPayload
         \/ AllowAlgorithm \/ PrepareKey \/ VerifySignature
         \/ DecodePayload \/ CheckAudience
  PROVE  TokenRefused'
<1>0. pc \in {"key", "signature"} => handler # None
  BY DEF ContractInv, Placed
<1>1. UNCHANGED <<tokenVars, handler>> /\ outcome # "InvalidTokenError"
  BY DEF RequireAlgorithms, Load, ValidateHeaders, AttachPayload,
     AllowAlgorithm, PrepareKey, VerifySignature, DecodePayload,
     CheckAudience, Check, Others, ContractInv, DecodeInv, OutcomeAtEnd
<1> USE <1>1, SettledRefusals
<1> USE DEF TokenRefused, Check, First, Contents
<1>2. CASE RequireAlgorithms
  BY <1>2 DEF RequireAlgorithms, AlgorithmsVerdict
<1>3. CASE Load
  BY <1>3 DEF Load
<1>4. CASE ValidateHeaders
  BY <1>4 DEF ValidateHeaders, HeaderVerdict, HeaderOK
<1>5. CASE AttachPayload
  BY <1>5 DEF AttachPayload, DetachedVerdict
<1>6. CASE AllowAlgorithm
  BY <1>6 DEF AllowAlgorithm, AlgVerdict, AlgorithmAllowed
<1>7. CASE PrepareKey
  BY <1>0, <1>7 DEF PrepareKey, KeyVerdict, KeyOK
<1>8. CASE VerifySignature
  BY <1>0, <1>8 DEF VerifySignature, SignatureVerdict, SignatureVerified
<1>9. CASE DecodePayload
  BY <1>9 DEF DecodePayload
<1>10. CASE CheckAudience
  BY <1>10 DEF CheckAudience, AudienceVerdict
<1>11. QED
  BY <1>2, <1>3, <1>4, <1>5, <1>6, <1>7, <1>8, <1>9, <1>10

LEMMA RefusedClaims ==
  ASSUME ContractInv, TokenRefused,
         \/ RequireClaims \/ ValidateIat \/ ValidateNbf \/ ValidateExp
         \/ ValidateIss \/ ValidateAud \/ ValidateSub \/ ValidateJti
  PROVE  TokenRefused'
<1>1. \A verdict \in RegisteredSet :
         verdict \notin {"InvalidTokenError", "InvalidAlgorithmError",
                         "InvalidKeyError", "InvalidSignatureError"}
  <2>1. /\ RequireVerdict(Body, Options.require)
               \in {"ok", "MissingRequiredClaimError"}
        /\ IssVerdict(Body.iss, call.issuer)
               \in {"ok", "MissingRequiredClaimError", "InvalidIssuerError"}
        /\ AudVerdict(Body.aud, call.audience, Options.strict_aud)
               \in {"ok", "MissingRequiredClaimError", "InvalidAudienceError"}
        /\ SubVerdict(Body.sub, call.subject) \in {"ok", "InvalidSubjectError"}
        /\ JtiVerdict(Body.jti) \in {"ok", "InvalidJTIError"}
    BY DEF RequireVerdict, IssVerdict, AudVerdict, SubVerdict, JtiVerdict, First
  <2>2. /\ IatVerdict(Body.iat, now, call.leeway)
               \in {"ok", "InvalidIssuedAtError", "ImmatureSignatureError",
                    "OverflowError", "TypeError"}
        /\ NbfVerdict(Body.nbf, now, call.leeway)
               \in {"ok", "DecodeError", "ImmatureSignatureError",
                    "OverflowError", "TypeError"}
        /\ ExpVerdict(Body.exp, now, call.leeway)
               \in {"ok", "DecodeError", "ExpiredSignatureError",
                    "OverflowError", "TypeError"}
    BY DEF IatVerdict, NbfVerdict, ExpVerdict, NotYet, Coerced, First
  <2>3. QED
    BY <2>1, <2>2 DEF RegisteredSet, IfPresent, IfOn
<1>2. pc' = "done" => outcome' \in RegisteredSet
  BY DEF RequireClaims, ValidateIat, ValidateNbf, ValidateExp, ValidateIss,
     ValidateAud, ValidateSub, ValidateJti, Check, Now, RegisteredSet
<1>3. QED
  BY <1>1, <1>2 DEF TokenRefused

LEMMA RefusedRest ==
  ASSUME ContractInv, TokenRefused, Untouched,
         \/ UseHandlerOfJwk \/ FindHandler \/ ReadClock \/ Return
         \/ Issue \/ Damage \/ Decode
  PROVE  TokenRefused'
<1> USE DEF TokenRefused
<1>0. CASE UseHandlerOfJwk
  BY <1>0 DEF UseHandlerOfJwk
<1>1. CASE FindHandler
  <2>1. Issued /\ UNCHANGED <<token, issued, changed>>
    BY <1>1 DEF FindHandler, Issued, Others, tokenVars
  <2>2. IssuedAlg \notin changed => IssuedAlg \in DOMAIN algorithms
    BY <2>1 DEF Untouched
  <2>3. IssuedAlg' = IssuedAlg
    BY <2>1 DEF IssuedAlg
  <2>4. QED
    BY <1>1, <2>1, <2>2, <2>3 DEF FindHandler
<1>2. CASE ReadClock \/ Return
  BY <1>2 DEF ReadClock, Return
<1>3. CASE Issue \/ Damage \/ Decode
  BY <1>3 DEF Issue, Damage, Decode
<1>4. QED
  BY <1>0, <1>1, <1>2, <1>3

LEMMA RefusedElsewhere ==
  ASSUME TokenRefused, SetClock \/ OtherThreads \/ UNCHANGED vars
  PROVE  TokenRefused'
<1>1. UNCHANGED <<tokenVars, handler, pc, outcome>>
  BY DEF SetClock, OtherThreads, vars, decodeVars
<1>2. pc = "done" => changed \subseteq changed'
  BY DEF SetClock, OtherThreads, vars
<1>3. IssuedAlg' = IssuedAlg
  BY <1>1 DEF IssuedAlg, tokenVars
<1>4. QED
  BY <1>1, <1>2, <1>3, SettledRefusals DEF TokenRefused

LEMMA NextTokenRefused ==
  ASSUME ContractInv, TokenRefused, Untouched, [Next]_vars
  PROVE  TokenRefused'
BY RefusedToken, RefusedClaims, RefusedRest, RefusedElsewhere
DEF Next, OfJws, OfJwt

(* encode's verdicts.                                                       *)
LEMMA IssueVerdicts ==
  ASSUME NEW request
  PROVE  /\ IssueVerdict(request) \in
               {"ok", "TypeError", "InvalidTokenError", "NotImplementedError",
                "InvalidKeyError"}
         /\ IssueVerdict(request) = "ok" =>
               /\ KidAllowed(request.headers)
               /\ ResolvedAlg(request.algorithm, request.key, request.headers)
                     \in DOMAIN algorithms
               /\ KeyVerdict(own, HandlerFor(request), request.key) = "ok"
<1>1. KeyVerdict(own, HandlerFor(request), request.key)
        \in {"ok", "TypeError", "InvalidKeyError"}
  BY DEF KeyVerdict, First
<1>2. EncodeVerdict(own, request) \in
         {"InvalidTokenError", "NotImplementedError",
          KeyVerdict(own, HandlerFor(request), request.key)}
  BY DEF EncodeVerdict, HandlerFor
<1>3. PrepareVerdict(request.payload) \in {"ok", "TypeError"}
  BY DEF PrepareVerdict, First
<1>4. IssueVerdict(request) = "ok" => EncodeVerdict(own, request) = "ok"
  BY <1>3 DEF IssueVerdict
<1>5. EncodeVerdict(own, request) = "ok" =>
         /\ KidAllowed(request.headers)
         /\ ResolvedAlg(request.algorithm, request.key, request.headers)
               \in DOMAIN algorithms
         /\ KeyVerdict(own, HandlerFor(request), request.key) = "ok"
  BY DEF EncodeVerdict, HandlerFor
<1>6. QED
  BY <1>1, <1>2, <1>3, <1>4, <1>5 DEF IssueVerdict

(* A name nobody has taken a handler from keeps the one it has.             *)
LEMMA DisplacedAreChanged ==
  ASSUME [Next]_vars, pc # "issue"
  PROVE  /\ changed \subseteq changed'
         /\ \A name \in DOMAIN algorithms :
               name \notin changed' => /\ name \in DOMAIN algorithms'
                                      /\ algorithms'[name] = algorithms[name]
<1>1. CASE OtherThreads
  BY <1>1 DEF OtherThreads, Displaced
<1>2. CASE ~OtherThreads
  <2>1. UNCHANGED <<algorithms, changed>>
    BY <1>2
    DEF Next, vars, Issue, Damage, Decode, OfJws, OfJwt, SetClock, Others,
        Check, RequireAlgorithms, Load, ValidateHeaders, AttachPayload,
        AllowAlgorithm, UseHandlerOfJwk, FindHandler, PrepareKey,
        VerifySignature, DecodePayload, CheckAudience, RequireClaims,
        ReadClock, ValidateIat, ValidateNbf, ValidateExp, ValidateIss,
        ValidateAud, ValidateSub, ValidateJti, Return, registryVars
  <2>2. QED
    BY <2>1
<1>3. QED
  BY <1>1, <1>2

LEMMA NextUntouched ==
  ASSUME ContractInv, Untouched, IssueRefused, pc = "issue" => ~damaged,
         [Next]_vars
  PROVE  Untouched' /\ IssueRefused' /\ (pc' = "issue" => ~damaged')
<1>1. CASE Issue
  <2>1. PICK request \in Requests :
         \/ /\ IssueVerdict(request) = "ok"
            /\ token' = Encoded(request, PayloadOf(request), NoPayload)
            /\ issued' = [request |-> request, signer |-> HandlerFor(request)]
            /\ pc' = "sent"
            /\ UNCHANGED outcome
         \/ /\ IssueVerdict(request) # "ok"
            /\ pc' = "refused"
            /\ outcome' = IssueVerdict(request)
            /\ UNCHANGED <<token, issued>>
    BY <1>1 DEF Issue
  <2>2. CASE pc' = "refused"
    BY <2>1, <2>2, IssueVerdicts DEF Untouched, Issued, IssueRefused
  <2>3. CASE pc' = "sent"
    <3>1. /\ IssueVerdict(request) = "ok"
          /\ token' = Encoded(request, PayloadOf(request), NoPayload)
          /\ issued' = [request |-> request, signer |-> HandlerFor(request)]
          /\ own' = own /\ algorithms' = algorithms
      BY <1>1, <2>1, <2>3 DEF Issue, registryVars
    <3>2. issued'.request = request /\ issued'.signer = HandlerFor(request)
      BY <3>1
    <3>3. IssuersSignature' =
             Signed(HandlerFor(request), request.key, HeaderOf(request),
                    PayloadOf(request))
      BY <3>2 DEF IssuersSignature
    <3>4. token' = Token(HeaderOf(request),
                         IF Detached(request)
                           THEN NoPayload ELSE PayloadOf(request),
                         IssuersSignature')
      BY <3>1, <3>3 DEF Encoded
    <3>5. IssuedAlg' = ResolvedAlg(request.algorithm, request.key,
                                   request.headers)
      BY <3>2 DEF IssuedAlg
    <3>6. IssuedAlg' \in DOMAIN algorithms /\ DOMAIN algorithms \subseteq Names
      BY <3>1, <3>5, IssueVerdicts
      DEF ContractInv, WorldInv, IInv, RegistryTypeOK
    <3>7. algorithms'[IssuedAlg'] = issued'.signer
      BY <3>1, <3>2, <3>5 DEF HandlerFor
    <3>8. KidAllowed(request.headers)
          /\ KeyVerdict(own, HandlerFor(request), request.key) = "ok"
          /\ DOMAIN request.headers = DOMAIN NoHeaders
      BY <3>1, IssueVerdicts, ExchangeAssumption DEF ExchangeAssumption
    <3>9. QED
      BY <2>3, <3>1, <3>2, <3>4, <3>6, <3>7, <3>8 DEF Untouched, IssueRefused
  <2>4. QED
    BY <2>1, <2>2, <2>3
<1>2. CASE Damage
  <2>1. UNCHANGED <<own, issued, pc, algorithms, changed, outcome>> /\ damaged'
    BY <1>2 DEF Damage, registryVars
  <2>2. IssuedAlg' = IssuedAlg /\ Issued' = Issued
    BY <2>1 DEF IssuedAlg, Issued
  <2>3. Untouched'
    BY <2>1, <2>2 DEF Untouched
  <2>4. QED
    BY <1>2, <2>1, <2>3 DEF IssueRefused, Damage
<1>3. CASE ~Issue /\ ~Damage
  <2>1. UNCHANGED <<own, token, issued, damaged>> /\ Issued' = Issued
    BY <1>3, IssuerSteps, IssuedStays
  <2>2. Issued =>
           /\ changed \subseteq changed'
           /\ \A name \in DOMAIN algorithms :
                 name \notin changed' => /\ name \in DOMAIN algorithms'
                                        /\ algorithms'[name] = algorithms[name]
    BY DisplacedAreChanged DEF Issued
  <2>3. IssuedAlg' = IssuedAlg /\ IssuersSignature' = IssuersSignature
    BY <2>1 DEF IssuedAlg, IssuersSignature
  <2>4. Untouched'
    BY <2>1, <2>2, <2>3 DEF Untouched
  <2>5. (pc' = "refused" <=> pc = "refused") /\ (pc' = "issue" <=> pc = "issue")
        /\ (pc = "refused" => outcome' = outcome)
    BY <1>3 DEF Next, vars, Decode, OfJws, OfJwt, SetClock, OtherThreads,
       Contents, Others, Check, RequireAlgorithms, Load, ValidateHeaders,
       AttachPayload, AllowAlgorithm, UseHandlerOfJwk, FindHandler,
       PrepareKey, VerifySignature, DecodePayload, CheckAudience,
       RequireClaims, ReadClock, ValidateIat, ValidateNbf, ValidateExp,
       ValidateIss, ValidateAud, ValidateSub, ValidateJti, Return, decodeVars
  <2>6. QED
    BY <2>1, <2>4, <2>5 DEF IssueRefused
<1>4. QED
  BY <1>1, <1>2, <1>3

(* The header encode writes names the algorithm it signs with, unless the   *)
(* issuer overrides that with an empty one.                                 *)
LEMMA IssuedHeader ==
  ASSUME NEW request, DOMAIN request.headers = DOMAIN NoHeaders
  PROVE  LET alg == ResolvedAlg(request.algorithm, request.key,
                                request.headers)
         IN  /\ HeaderOf(request).kid = request.headers.kid
             /\ HeaderOf(request).crit = request.headers.crit
             /\ HeaderOf(request).alg = IF request.headers.alg = "absent"
                                          THEN alg ELSE request.headers.alg
             /\ request.headers.alg \notin {"", "absent"}
                   => alg = request.headers.alg
BY DEF HeaderOf, BuiltHeader, NoHeaders, ResolvedAlg

(* The lookup of an undamaged token's algorithm finds the issuer's handler. *)
LEMMA NextFoundSigner ==
  ASSUME ContractInv, Untouched, FoundSigner, [Next]_vars
  PROVE  FoundSigner'
<1>1. CASE Issue \/ Damage
  BY <1>1 DEF Issue, Damage, FoundSigner, Called
<1>2. CASE Decode
  <2>1. handler' = None
    BY <1>2 DEF Decode, ContractInv, Placed, BeforeHandler
  <2>2. QED
    BY <2>1 DEF FoundSigner
<1>3. CASE UseHandlerOfJwk
  <2>1. IsJwk(call.key) /\ call' = call
    BY <1>3 DEF UseHandlerOfJwk, Others, tokenVars
  <2>2. QED
    BY <2>1 DEF FoundSigner
<1>4. CASE FindHandler
  <2>1. Issued /\ UNCHANGED <<tokenVars, changed>>
    BY <1>4 DEF FindHandler, Issued, Others
  <2>2. UNCHANGED <<token, issued, damaged>>
    BY <2>1 DEF tokenVars
  <2>3. SUFFICES ASSUME ~damaged, handler' # None,
                        token.header.alg \notin changed
                 PROVE  handler' = issued.signer
    BY <2>1, <2>2 DEF FoundSigner
  <2>4. /\ token.header.alg \in DOMAIN algorithms
        /\ handler' = algorithms[token.header.alg]
    BY <1>4, <2>3 DEF FindHandler, ContractInv, Placed, BeforeHandler
  <2>5. token.header.alg \notin {"", "absent"}
    BY <2>4, ExchangeAssumption
    DEF ExchangeAssumption, ContractInv, WorldInv, IInv, RegistryTypeOK
  <2>6. token.header.alg = IssuedAlg
    <3>1. /\ token.header = HeaderOf(issued.request)
          /\ DOMAIN issued.request.headers = DOMAIN NoHeaders
      BY <2>1, <2>3 DEF Untouched, Token
    <3>2. QED
      BY <2>5, <3>1, IssuedHeader DEF IssuedAlg
  <2>7. QED
    BY <2>1, <2>3, <2>4, <2>6 DEF Untouched
<1>5. CASE ~(Issue \/ Damage \/ Decode \/ UseHandlerOfJwk \/ FindHandler)
  <2>1. /\ UNCHANGED <<token, issued, damaged, handler>>
        /\ Called' => Called
        /\ Called => call' = call
    BY <1>5
    DEF Next, vars, OfJws, OfJwt, SetClock, OtherThreads, Others, Check,
        Called, Contents, RequireAlgorithms, Load, ValidateHeaders,
        AttachPayload, AllowAlgorithm, PrepareKey, VerifySignature,
        DecodePayload, CheckAudience, RequireClaims, ReadClock, ValidateIat,
        ValidateNbf, ValidateExp, ValidateIss, ValidateAud, ValidateSub,
        ValidateJti, Return, tokenVars, decodeVars
  <2>2. Called => changed \subseteq changed'
    BY DisplacedAreChanged DEF Called
  <2>3. QED
    BY <2>1, <2>2 DEF FoundSigner
<1>6. QED
  BY <1>1, <1>2, <1>3, <1>4, <1>5

-----------------------------------------------------------------------------
(* The whole invariant.                                                     *)

AnswersInv ==
    /\ BodyTyped
    /\ Clocked
    /\ ClaimRefused
    /\ TokenRefused
    /\ Untouched
    /\ FoundSigner
    /\ IssueRefused
    /\ pc = "issue" => ~damaged

THEOREM AnswersInvariance == Spec => [](ContractInv /\ AnswersInv)
<1>1. Init => AnswersInv
  BY ExchangeAssumption
  DEF Init, AnswersInv, BodyTyped, Clocked, ClaimRefused, TokenRefused,
      Untouched, FoundSigner, IssueRefused, Issued, Called, Through, Accepted,
      AfterNow
<1>2. ContractInv /\ AnswersInv /\ [Next]_vars => AnswersInv'
  BY NextBodyTyped, NextClocked, NextTokenRefused, NextUntouched,
     NextFoundSigner
  DEF AnswersInv
<1>3. QED
  BY <1>1, <1>2, ContractInvariance, PTL DEF Spec

-----------------------------------------------------------------------------
(* What the answers mean.                                                   *)

LEMMA BodyOfTheAnswer ==
  ASSUME ContractInv, AnswersInv, pc = "done",
         outcome \in {"ok"} \cup ClaimErrors
  PROVE  IsPayload(Body) /\ call.leeway \in Int
<1>1. DetachedOK /\ token # Garbage /\ call \in Calls
  BY DEF ContractInv, WorldInv, TokenChecked, DecodeInv, HeaderChecked, Past
<1>2. IsPayload(token.body)
  BY <1>1 DEF AnswersInv, BodyTyped, Issued
<1>3. token.header.b64 = "false" => IsPayload(call.detached)
  BY <1>1, ExchangeAssumption
  DEF DetachedOK, DetachedVerdict, First, ExchangeAssumption
<1>4. QED
  BY <1>1, <1>2, <1>3, ExchangeAssumption DEF Body, BodyOf, ExchangeAssumption

LEMMA ReadingsAreNumbers ==
  ASSUME AnswersInv, now \in seen
  PROVE  now \in Int
BY ExchangeAssumption DEF AnswersInv, Clocked, ExchangeAssumption

(* Who has accepted has passed the three checks at the reading "now".       *)
LEMMA AcceptedNow ==
  ASSUME ContractInv, AnswersInv, Accepted, call.api = "jwt"
  PROVE  now \in seen /\ TimesHoldAt(now)
<1>1. IatOK /\ NbfOK /\ ExpOK /\ now \in seen
  BY DEF ContractInv, TimesChecked, AnswersInv, Clocked, Through
<1>2. /\ IsPayload(Body) /\ call.leeway \in Int /\ now \in Int
  BY <1>1, BodyOfTheAnswer, ReadingsAreNumbers DEF Accepted
<1>3. Options["verify_iat"] /\ Present(Body.iat) =>
         Body.iat.sort = "number" /\ Whole(Body.iat) <= now + call.leeway
  <2>1. SUFFICES ASSUME Options["verify_iat"], Present(Body.iat)
                 PROVE  /\ Body.iat.sort = "number"
                        /\ Whole(Body.iat) <= now + call.leeway
    OBVIOUS
  <2>2. IatVerdict(Body.iat, now, call.leeway) = "ok"
    BY <1>1, <2>1 DEF IatOK, IfPresent
  <2>3. Body.iat.sort = "number"
    BY <2>2 DEF IatVerdict, NotYet, Coerced, First
  <2>4. ~(Whole(Body.iat) > now + call.leeway)
    BY <2>2, <2>3 DEF IatVerdict, NotYet, Coerced, First
  <2>5. Whole(Body.iat) \in Int
    BY <1>2, <2>3 DEF Whole, IsPayload, TimeClaims
  <2>6. QED
    BY <1>2, <2>3, <2>4, <2>5
<1>4. Options["verify_nbf"] /\ Present(Body.nbf) =>
         Body.nbf.sort = "number" /\ Whole(Body.nbf) <= now + call.leeway
  <2>1. SUFFICES ASSUME Options["verify_nbf"], Present(Body.nbf)
                 PROVE  /\ Body.nbf.sort = "number"
                        /\ Whole(Body.nbf) <= now + call.leeway
    OBVIOUS
  <2>2. NbfVerdict(Body.nbf, now, call.leeway) = "ok"
    BY <1>1, <2>1 DEF NbfOK, IfPresent
  <2>3. Body.nbf.sort = "number"
    BY <2>2 DEF NbfVerdict, NotYet, Coerced, First
  <2>4. ~(Whole(Body.nbf) > now + call.leeway)
    BY <2>2, <2>3 DEF NbfVerdict, NotYet, Coerced, First
  <2>5. Whole(Body.nbf) \in Int
    BY <1>2, <2>3 DEF Whole, IsPayload, TimeClaims
  <2>6. QED
    BY <1>2, <2>3, <2>4, <2>5
<1>5. Options["verify_exp"] /\ Present(Body.exp) =>
         Body.exp.sort = "number" /\ now < Whole(Body.exp) + call.leeway
  <2>1. SUFFICES ASSUME Options["verify_exp"], Present(Body.exp)
                 PROVE  /\ Body.exp.sort = "number"
                        /\ now < Whole(Body.exp) + call.leeway
    OBVIOUS
  <2>2. ExpVerdict(Body.exp, now, call.leeway) = "ok"
    BY <1>1, <2>1 DEF ExpOK, IfPresent
  <2>3. Body.exp.sort = "number"
    BY <2>2 DEF ExpVerdict, Coerced, First
  <2>4. ~(Whole(Body.exp) <= now - call.leeway)
    BY <2>2, <2>3 DEF ExpVerdict, Coerced, First
  <2>5. Whole(Body.exp) \in Int
    BY <1>2, <2>3 DEF Whole, IsPayload, TimeClaims
  <2>6. QED
    BY <1>2, <2>3, <2>4, <2>5
<1>6. QED
  BY <1>1, <1>3, <1>4, <1>5 DEF TimesHoldAt

(* An accepted token is issued, valid and not expired at one moment of the  *)
(* call: that of the one reading of the clock.                              *)
THEOREM AcceptedAtOneInstantHolds == Spec => []AcceptedAtOneInstant
<1>1. ContractInv /\ AnswersInv => AcceptedAtOneInstant
  BY AcceptedNow DEF AcceptedAtOneInstant
<1>2. QED
  BY <1>1, AnswersInvariance, PTL

LEMMA CallsOwnFlag ==
  ASSUME Asks("verify_exp")
  PROVE  Options["verify_exp"] = TRUE
BY DEF Asks, Options, MergeOptions, Over, Gives, Wanted

(* A call that turns verify_exp on accepts no token that is past its exp,   *)
(* though it turn verification off.                                         *)
THEOREM ExplicitFlagCountsHolds == Spec => []ExplicitFlagCounts
<1>1. ASSUME ContractInv, AnswersInv PROVE ExplicitFlagCounts
  <2>1. SUFFICES ASSUME Accepted, call.api = "jwt", Asks("verify_exp"),
                        Present(Body.exp)
                 PROVE  \E t \in seen : t < Whole(Body.exp) + call.leeway
    BY DEF ExplicitFlagCounts
  <2>2. now \in seen /\ TimesHoldAt(now)
    BY <1>1, <2>1, AcceptedNow
  <2>3. now < Whole(Body.exp) + call.leeway
    BY <2>1, <2>2, CallsOwnFlag DEF TimesHoldAt
  <2>4. QED
    BY <2>2, <2>3
<1>2. QED
  BY <1>1, AnswersInvariance, PTL

-----------------------------------------------------------------------------
(* Why claims are refused.                                                  *)

LEMMA ClaimErrorsAtTheEnd ==
  ASSUME ContractInv, AnswersInv, outcome \in ClaimErrors
  PROVE  /\ pc = "done"
         /\ outcome \in RegisteredSet
         /\ outcome = "MissingRequiredClaimError" \/ now \in seen
BY DEF ContractInv, DecodeInv, OutcomeAtEnd, AnswersInv, ClaimRefused,
   ClaimErrors

LEMMA PartyRefusals ==
  /\ outcome \in ClaimErrors
  /\ outcome \in
        {RequireVerdict(Body, Options.require),
         IfOn("verify_iss", IssVerdict(Body.iss, call.issuer)),
         IfOn("verify_aud",
              AudVerdict(Body.aud, call.audience, Options.strict_aud)),
         IfOn("verify_sub", SubVerdict(Body.sub, call.subject)),
         IfOn("verify_jti", JtiVerdict(Body.jti))}
  => ~PartiesAgree
<1> SUFFICES ASSUME outcome \in ClaimErrors, PartiesAgree
             PROVE  outcome \notin
        {RequireVerdict(Body, Options.require),
         IfOn("verify_iss", IssVerdict(Body.iss, call.issuer)),
         IfOn("verify_aud",
              AudVerdict(Body.aud, call.audience, Options.strict_aud)),
         IfOn("verify_sub", SubVerdict(Body.sub, call.subject)),
         IfOn("verify_jti", JtiVerdict(Body.jti))}
  OBVIOUS
<1>1. outcome # "ok"
  BY DEF ClaimErrors
<1>2. outcome # RequireVerdict(Body, Options.require)
  BY <1>1 DEF PartiesAgree, RequireVerdict, First
<1>3. outcome # IfOn("verify_iss", IssVerdict(Body.iss, call.issuer))
  BY <1>1 DEF PartiesAgree, IfOn, IssVerdict, First, Present, Absent
<1>4. outcome # IfOn("verify_aud",
              AudVerdict(Body.aud, call.audience, Options.strict_aud))
  <2>1. CASE call.audience = None
    BY <1>1, <2>1 DEF PartiesAgree, IfOn, AudVerdict, First
  <2>2. CASE call.audience # None /\ Options.strict_aud
    BY <1>1, <2>2
    DEF PartiesAgree, IfOn, AudVerdict, First, Falsy, StrictMatch
  <2>3. CASE call.audience # None /\ ~Options.strict_aud
    BY <1>1, <2>3
    DEF PartiesAgree, IfOn, AudVerdict, First, Falsy, AnyMatch
  <2>4. QED
    BY <2>1, <2>2, <2>3
<1>5. outcome # IfOn("verify_sub", SubVerdict(Body.sub, call.subject))
  BY <1>1 DEF PartiesAgree, IfOn, SubVerdict, First
<1>6. outcome # IfOn("verify_jti", JtiVerdict(Body.jti))
  BY <1>1 DEF PartiesAgree, IfOn, JtiVerdict, First
<1>7. QED
  BY <1>2, <1>3, <1>4, <1>5, <1>6

LEMMA TimeRefusals ==
  ASSUME ContractInv, AnswersInv, outcome \in ClaimErrors,
         outcome \in
           {IfPresent("verify_iat", Body.iat,
                      IatVerdict(Body.iat, now, call.leeway)),
            IfPresent("verify_nbf", Body.nbf,
                      NbfVerdict(Body.nbf, now, call.leeway)),
            IfPresent("verify_exp", Body.exp,
                      ExpVerdict(Body.exp, now, call.leeway))}
  PROVE  now \in seen /\ ~TimesHoldAt(now)
<1>1. outcome \notin {"ok", "OverflowError", "TypeError", "DecodeError"}
  BY DEF ClaimErrors
<1>2. outcome # "MissingRequiredClaimError"
  BY <1>1
  DEF IfPresent, IatVerdict, NbfVerdict, ExpVerdict, NotYet, Coerced, First
<1>3. now \in seen /\ now \in Int
  BY <1>2, ClaimErrorsAtTheEnd, ReadingsAreNumbers
<1>4. IsPayload(Body) /\ call.leeway \in Int
  BY ClaimErrorsAtTheEnd, BodyOfTheAnswer
<1>5. CASE outcome = IfPresent("verify_iat", Body.iat,
                               IatVerdict(Body.iat, now, call.leeway))
  <2>1. /\ Options["verify_iat"] /\ Present(Body.iat)
        /\ outcome = IatVerdict(Body.iat, now, call.leeway)
    BY <1>1, <1>5 DEF IfPresent
  <2>2. Body.iat.sort = "number" => Whole(Body.iat) > now + call.leeway
    BY <1>1, <2>1 DEF IatVerdict, NotYet, Coerced, First
  <2>3. Body.iat.sort = "number" => Whole(Body.iat) \in Int
    BY <1>4 DEF Whole, IsPayload, TimeClaims
  <2>4. ~(Body.iat.sort = "number" /\ Whole(Body.iat) <= now + call.leeway)
    BY <1>3, <1>4, <2>2, <2>3
  <2>5. QED
    BY <1>3, <2>1, <2>4 DEF TimesHoldAt
<1>6. CASE outcome = IfPresent("verify_nbf", Body.nbf,
                               NbfVerdict(Body.nbf, now, call.leeway))
  <2>1. /\ Options["verify_nbf"] /\ Present(Body.nbf)
        /\ outcome = NbfVerdict(Body.nbf, now, call.leeway)
    BY <1>1, <1>6 DEF IfPresent
  <2>2. Body.nbf.sort = "number" => Whole(Body.nbf) > now + call.leeway
    BY <1>1, <2>1 DEF NbfVerdict, NotYet, Coerced, First
  <2>3. Body.nbf.sort = "number" => Whole(Body.nbf) \in Int
    BY <1>4 DEF Whole, IsPayload, TimeClaims
  <2>4. ~(Body.nbf.sort = "number" /\ Whole(Body.nbf) <= now + call.leeway)
    BY <1>3, <1>4, <2>2, <2>3
  <2>5. QED
    BY <1>3, <2>1, <2>4 DEF TimesHoldAt
<1>7. CASE outcome = IfPresent("verify_exp", Body.exp,
                               ExpVerdict(Body.exp, now, call.leeway))
  <2>1. /\ Options["verify_exp"] /\ Present(Body.exp)
        /\ outcome = ExpVerdict(Body.exp, now, call.leeway)
    BY <1>1, <1>7 DEF IfPresent
  <2>2. Body.exp.sort = "number" => Whole(Body.exp) <= now - call.leeway
    BY <1>1, <2>1 DEF ExpVerdict, Coerced, First
  <2>3. Body.exp.sort = "number" => Whole(Body.exp) \in Int
    BY <1>4 DEF Whole, IsPayload, TimeClaims
  <2>4. ~(Body.exp.sort = "number" /\ now < Whole(Body.exp) + call.leeway)
    BY <1>3, <1>4, <2>2, <2>3
  <2>5. QED
    BY <1>3, <2>1, <2>4 DEF TimesHoldAt
<1>8. QED
  BY <1>5, <1>6, <1>7

(* A claim error has a reason in the claims, at a moment of the call.       *)
THEOREM RefusedForAReasonHolds == Spec => []RefusedForAReason
<1>1. ASSUME ContractInv, AnswersInv PROVE RefusedForAReason
  BY <1>1, ClaimErrorsAtTheEnd, PartyRefusals, TimeRefusals
  DEF RefusedForAReason, RegisteredSet
<1>2. QED
  BY <1>1, AnswersInvariance, PTL

(* Without verification, and without flags of its own, a call is refused    *)
(* over claims only for one the options require.                            *)
THEOREM UnverifiedIsLenientHolds == Spec => []UnverifiedIsLenient
<1>1. ASSUME ContractInv, AnswersInv, outcome \in ClaimErrors, JustUnverified
      PROVE  outcome = "MissingRequiredClaimError" /\ Options.require # {}
  <2>1. \A flag \in VerifyFlags : Options[flag] = FALSE
    BY <1>1 DEF JustUnverified, Options, MergeOptions, Over, Gives,
       UnverifiedDefaults
  <2>2. outcome # "ok"
    BY <1>1 DEF ClaimErrors
  <2>3. outcome = RequireVerdict(Body, Options.require)
    BY <1>1, <2>1, <2>2, ClaimErrorsAtTheEnd
    DEF RegisteredSet, IfPresent, IfOn, VerifyFlags
  <2>4. QED
    BY <2>2, <2>3 DEF RequireVerdict, First
<1>2. ContractInv /\ AnswersInv => UnverifiedIsLenient
  BY <1>1 DEF UnverifiedIsLenient
<1>3. QED
  BY <1>2, AnswersInvariance, PTL

-----------------------------------------------------------------------------
(* What encode makes, decode verifies.                                      *)

(* What the issuer wrote, as long as nothing damages it.                    *)
LEMMA UntouchedToken ==
  ASSUME ContractInv, AnswersInv, ~damaged, pc = "done"
  PROVE  /\ token.header = HeaderOf(issued.request)
         /\ token.signature = IssuersSignature
BY DEF AnswersInv, Untouched, Issued, Token

(* The handler the key was prepared for and the signature verified with is  *)
(* the issuer's, unless another took its place.                             *)
LEMMA SameHandler ==
  ASSUME ContractInv, AnswersInv, ~damaged, pc = "done", handler # None,
         ~Exchanged
  PROVE  /\ handler = issued.signer
         /\ KeyVerdict(own, handler, issued.request.key) = "ok"
<1>1. handler = issued.signer
  BY DEF Exchanged, AnswersInv, FoundSigner, Called
<1>2. KeyVerdict(own, issued.signer, issued.request.key) = "ok"
  BY DEF AnswersInv, Untouched, Issued
<1>3. QED
  BY <1>1, <1>2

(* An undamaged token is refused for its issuer's crit or alg, or because   *)
(* allow-list, key or payload are not those it was made with, or its        *)
(* handler was taken away, or replaced, since it was made.                  *)
THEOREM RoundTripHolds == Spec => []RoundTrip
<1>1. ASSUME ContractInv, AnswersInv, ~damaged, pc = "done"
      PROVE  RoundTrip
  <2> DEFINE alg == token.header.alg
             wrote == issued.request.headers
  <2>1. /\ token.header = HeaderOf(issued.request)
        /\ token.signature = IssuersSignature
    BY <1>1, UntouchedToken
  <2>2. /\ KidAllowed(wrote)
        /\ IssuedAlg \in Names
        /\ DOMAIN wrote = DOMAIN NoHeaders
    BY <1>1 DEF AnswersInv, Untouched, Issued
  <2>3. /\ token.header.kid = wrote.kid
        /\ token.header.crit = wrote.crit
        /\ alg = IF wrote.alg = "absent" THEN IssuedAlg ELSE wrote.alg
        /\ wrote.alg \notin {"", "absent"} => IssuedAlg = wrote.alg
    BY <2>1, <2>2, IssuedHeader DEF IssuedAlg
  <2>4. outcome = "InvalidTokenError" => wrote.crit # "absent"
    <3>1. outcome = "InvalidTokenError" => ~HeaderOK
      BY <1>1 DEF AnswersInv, TokenRefused
    <3>2. QED
      BY <2>2, <2>3, <3>1
      DEF HeaderOK, HeaderVerdict, First, CritAllowed, KidAllowed
  <2>5. outcome = "InvalidAlgorithmError" =>
           wrote.alg = "" \/ alg \notin Allowed \/ alg \in changed
    <3>1. outcome = "InvalidAlgorithmError" =>
             ~AlgorithmAllowed \/ alg # IssuedAlg \/ alg \in changed
      BY <1>1 DEF AnswersInv, TokenRefused
    <3>2. wrote.alg = "" \/ alg = IssuedAlg
      BY <2>3
    <3>3. alg = IssuedAlg => alg \notin {"", "absent"}
      BY <2>2, ExchangeAssumption DEF ExchangeAssumption
    <3>4. ~AlgorithmAllowed /\ alg \notin {"", "absent"} => alg \notin Allowed
      BY DEF AlgorithmAllowed, AlgVerdict, First, Allowed
    <3>5. QED
      BY <3>1, <3>2, <3>3, <3>4
  <2>6. outcome = "InvalidKeyError" =>
           call.key # issued.request.key \/ Exchanged
    <3>1. outcome = "InvalidKeyError" => ~KeyOK /\ handler # None
      BY <1>1 DEF AnswersInv, TokenRefused
    <3>2. QED
      BY <1>1, <3>1, SameHandler DEF KeyOK
  <2>7. outcome = "InvalidSignatureError" =>
           \/ call.key.id # issued.request.key.id
           \/ Exchanged
           \/ Body # PayloadOf(issued.request)
           \/ handler \in Unsigned
    <3>1. outcome = "InvalidSignatureError" =>
             /\ ~Verifies(handler, call.key, token.header, Body,
                          token.signature)
             /\ handler # None
      BY <1>1 DEF AnswersInv, TokenRefused, SignatureVerified,
         SignatureVerdict, First
    <3>2. handler # None => Exchanged \/ handler = issued.signer
      BY <1>1, SameHandler
    <3>3. QED
      BY <2>1, <3>1, <3>2 DEF Verifies, IssuersSignature, Signed
  <2>8. QED
    BY <2>4, <2>5, <2>6, <2>7 DEF RoundTrip
<1>2. ContractInv /\ AnswersInv => RoundTrip
  BY <1>1 DEF RoundTrip
<1>3. QED
  BY <1>2, AnswersInvariance, PTL

-----------------------------------------------------------------------------
(* Types.                                                                   *)

Verdicts == Refusals \cup ClaimErrors \cup {"ok"}

ExchangeTyped ==
    /\ pc \in Labels
    /\ damaged \in BOOLEAN
    /\ changed \subseteq Names
    /\ handler \in Handlers \cup {None}
    /\ outcome \in Verdicts \cup {"none"}
    /\ now \in Instants \cup {0}

LEMMA TokenVerdictsTyped ==
  /\ AlgorithmsVerdict(Verifying, call.algorithms, call.key) \in Verdicts
  /\ HeaderVerdict(token.header) \in Verdicts
  /\ DetachedVerdict(token.header, call.detached) \in Verdicts
  /\ AlgVerdict(token.header, call.algorithms, call.key) \in Verdicts
  /\ KeyVerdict(own, handler, call.key) \in Verdicts
  /\ SignatureVerdict \in Verdicts
  /\ AudienceVerdict(call.audience) \in Verdicts
BY DEF AlgorithmsVerdict, HeaderVerdict, DetachedVerdict, AlgVerdict,
   KeyVerdict, SignatureVerdict, AudienceVerdict, First, Verdicts, Refusals,
   ClaimErrors

LEMMA ClaimVerdictsTyped == RegisteredSet \subseteq Verdicts
<1>1. /\ RequireVerdict(Body, Options.require) \in Verdicts
      /\ IssVerdict(Body.iss, call.issuer) \in Verdicts
      /\ AudVerdict(Body.aud, call.audience, Options.strict_aud) \in Verdicts
      /\ SubVerdict(Body.sub, call.subject) \in Verdicts
      /\ JtiVerdict(Body.jti) \in Verdicts
  BY DEF RequireVerdict, IssVerdict, AudVerdict, SubVerdict, JtiVerdict, First,
     Verdicts, Refusals, ClaimErrors
<1>2. /\ IatVerdict(Body.iat, now, call.leeway) \in Verdicts
      /\ NbfVerdict(Body.nbf, now, call.leeway) \in Verdicts
      /\ ExpVerdict(Body.exp, now, call.leeway) \in Verdicts
  BY DEF IatVerdict, NbfVerdict, ExpVerdict, NotYet, Coerced, First,
     Verdicts, Refusals, ClaimErrors
<1>3. "ok" \in Verdicts
  BY DEF Verdicts
<1>4. QED
  BY <1>1, <1>2, <1>3 DEF RegisteredSet, IfPresent, IfOn

LEMMA CheckTyped ==
  ASSUME ExchangeTyped, NEW label, NEW verdict \in Verdicts, NEW next \in Labels,
         Check(label, verdict, next)
  PROVE  ExchangeTyped'
BY DEF ExchangeTyped, Check, Others, tokenVars, Labels

LEMMA TypedChecks ==
  ASSUME ExchangeTyped,
         \/ RequireAlgorithms \/ Load \/ ValidateHeaders \/ AttachPayload
         \/ AllowAlgorithm \/ PrepareKey \/ VerifySignature
         \/ DecodePayload \/ CheckAudience
  PROVE  ExchangeTyped'
<1>1. /\ \A v : First(v, "ok", "DecodeError") \in Verdicts
      /\ \A v : First(v, "DecodeError", "ok") \in Verdicts
  BY DEF First, Verdicts, Refusals
<1>2. /\ {"load", "headers", "detached", "allowed", "lookup", "signature",
          "payload", "audience", "require", "return"} \subseteq Labels
      /\ Contents \in {"payload", "return"}
  BY DEF Labels, Contents
<1>3. QED
  BY <1>1, <1>2, CheckTyped, TokenVerdictsTyped
  DEF RequireAlgorithms, Load, ValidateHeaders, AttachPayload, AllowAlgorithm,
      PrepareKey, VerifySignature, DecodePayload, CheckAudience

LEMMA TypedClaims ==
  ASSUME ExchangeTyped,
         \/ RequireClaims \/ ValidateIat \/ ValidateNbf \/ ValidateExp
         \/ ValidateIss \/ ValidateAud \/ ValidateSub \/ ValidateJti
  PROVE  ExchangeTyped'
<1>1. {"now", "nbf", "exp", "iss", "aud", "sub", "jti", "return"}
         \subseteq Labels
  BY DEF Labels
<1>2. QED
  BY <1>1, CheckTyped, ClaimVerdictsTyped
  DEF RegisteredSet, RequireClaims, ValidateIat, ValidateNbf, ValidateExp,
      ValidateIss, ValidateAud, ValidateSub, ValidateJti, Now

LEMMA TypedRest ==
  ASSUME ContractInv, AnswersInv, ExchangeTyped,
         \/ UseHandlerOfJwk \/ FindHandler \/ ReadClock \/ Return
         \/ Issue \/ Damage \/ Decode \/ SetClock \/ OtherThreads
         \/ UNCHANGED vars
  PROVE  ExchangeTyped'
<1> USE DEF ExchangeTyped, tokenVars, decodeVars
<1>1. CASE UseHandlerOfJwk
  <2>1. call \in Calls
    BY <1>1 DEF ContractInv, WorldInv, UseHandlerOfJwk
  <2>2. Defaults[call.key.jwk] \in Handlers
    BY <1>1, <2>1, ExchangeAssumption, RegistryAssumption
    DEF ExchangeAssumption, RegistryAssumption, UseHandlerOfJwk
  <2>3. QED
    BY <1>1, <2>2 DEF UseHandlerOfJwk, Others, Labels
<1>2. CASE FindHandler
  <2>1. token.header.alg \in DOMAIN algorithms
           => algorithms[token.header.alg] \in Handlers
    BY DEF ContractInv, WorldInv, IInv, RegistryTypeOK
  <2>2. QED
    BY <1>2, <2>1 DEF FindHandler, Others, Labels, Verdicts, Refusals
<1>3. CASE ReadClock
  BY <1>3 DEF ReadClock, Others, Labels, AnswersInv, Clocked
<1>4. CASE Return
  BY <1>4 DEF Return, Others, Labels, Verdicts
<1>5. CASE Issue
  BY <1>5, IssueVerdicts DEF Issue, Labels, Verdicts, Refusals
<1>6. CASE Damage \/ Decode
  BY <1>6 DEF Damage, Decode, Labels
<1>7. CASE SetClock \/ OtherThreads \/ UNCHANGED vars
  <2>1. DOMAIN algorithms \subseteq Names
    BY DEF ContractInv, WorldInv, IInv, RegistryTypeOK
  <2>2. QED
    BY <1>7, <2>1 DEF SetClock, OtherThreads, Displaced, vars
<1>8. QED
  BY <1>1, <1>2, <1>3, <1>4, <1>5, <1>6, <1>7

(* The variables keep their types: no verdict but those listed, no handler  *)
(* but Algorithm objects, no reading but the clock's.                       *)
THEOREM TypeCorrect == Spec => []TypeOK
<1>1. Init => ExchangeTyped
  BY DEF Init, ExchangeTyped, Labels
<1>2. ContractInv /\ AnswersInv /\ ExchangeTyped /\ [Next]_vars => ExchangeTyped'
  BY TypedChecks, TypedClaims, TypedRest DEF Next, OfJws, OfJwt
<1>3. ContractInv /\ AnswersInv /\ ExchangeTyped => TypeOK
  BY DEF ContractInv, WorldInv, IInv, AnswersInv, Clocked, ExchangeTyped, TypeOK,
     Verdicts
<1>4. QED
  BY <1>1, <1>2, <1>3, AnswersInvariance, PTL DEF Spec
=============================================================================
