------------------------- MODULE JWTExchange_proofs -------------------------
(***************************************************************************)
(* What a decode promises, for any keys, tokens, options and calls and any  *)
(* number of threads that register algorithms meanwhile.                    *)
(*                                                                         *)
(* The inductive invariant has two halves.  On its way a token may lose its *)
(* signature but never gains another one than its issuer's.  In the         *)
(* verifier, whoever is past a check has passed it: what the check looked   *)
(* at (token, call, options, handler) stays as it was to the end.           *)
(***************************************************************************)
EXTENDS JWTExchange, TLAPS

-----------------------------------------------------------------------------
(* The invariant.                                                           *)

IssuersSignature ==
    Signed(issued.signer, issued.request.key, HeaderOf(issued.request),
           PayloadOf(issued.request))

\* The token has its issuer's signature or none.
NeverForged ==
    pc \notin {"issue", "refused"} =>
        \/ token = Garbage /\ damaged
        \/ /\ token = Token(token.header, token.body, token.signature)
           /\ token.signature \in {NoSignature, IssuersSignature}

\* Where a verifier can be that has passed a check.
AfterSignature == {"payload", "audience", "require", "now", "iat", "nbf",
                   "exp", "iss", "aud", "sub", "jti", "return"}
AfterAllowed == {"lookup", "key", "signature"} \cup AfterSignature
AfterLoad == {"headers", "detached", "allowed"} \cup AfterAllowed
AfterAlgorithms == {"load"} \cup AfterLoad

AfterPayload == AfterSignature \ {"payload"}
AfterRequire == AfterPayload \ {"audience", "require"}
AfterIss == {"aud", "sub", "jti", "return"}
AfterAud == {"sub", "jti", "return"}
AfterSub == {"jti", "return"}
AfterJti == {"return"}

\* Only these outcomes are reached from the last steps.
Past(labels) ==
    \/ pc \in labels
    \/ pc = "done" /\ outcome \in {"ok"} \cup ClaimErrors

\* The claims are checked for PyJWT only.
Through(labels) == (pc \in labels \/ Accepted) /\ call.api = "jwt"

\* What the checks have made sure of.
AlgorithmsGiven ==
    AlgorithmsVerdict(Verifying, call.algorithms, call.key) = "ok"
AlgorithmAllowed ==
    AlgVerdict(token.header, call.algorithms, call.key) = "ok"
SignatureVerified == SignatureVerdict = "ok"
IsObject == Body.form = "object"
Required == RequireVerdict(Body, Options.require) = "ok"
IssOK == IfOn("verify_iss", IssVerdict(Body.iss, call.issuer)) = "ok"
AudOK == IfOn("verify_aud", AudVerdict(Body.aud, call.audience,
                                       Options.strict_aud)) = "ok"
SubOK == IfOn("verify_sub", SubVerdict(Body.sub, call.subject)) = "ok"
JtiOK == IfOn("verify_jti", JtiVerdict(Body.jti)) = "ok"

\* An outcome is there at the end only, and issuing ends with none of a claim.
OutcomeAtEnd ==
    /\ pc \notin {"done", "refused"} => outcome = "none"
    /\ pc = "refused" => outcome \notin ClaimErrors

HeaderChecked ==
    /\ Past(AfterAlgorithms) => AlgorithmsGiven
    /\ Past(AfterLoad) => token # Garbage
    /\ Past(AfterAllowed) /\ Verifying => AlgorithmAllowed

SignatureChecked == Past(AfterSignature) /\ Verifying => SignatureVerified

ClaimsChecked ==
    /\ Through(AfterPayload) => IsObject
    /\ Through(AfterRequire) => Required
    /\ Through(AfterIss) => IssOK
    /\ Through(AfterAud) => AudOK
    /\ Through(AfterSub) => SubOK
    /\ Through(AfterJti) => JtiOK

DecodeInv ==
    /\ NeverForged
    /\ OutcomeAtEnd
    /\ HeaderChecked
    /\ SignatureChecked
    /\ ClaimsChecked

-----------------------------------------------------------------------------
(* What the checks look at stays as it is while they run.                   *)

(* The issuer's signature is settled when the token is issued.              *)
LEMMA SignatureSettled ==
  ASSUME UNCHANGED issued
  PROVE  IssuersSignature' = IssuersSignature
BY DEF IssuersSignature

(* Token, call and options decide all verdicts but that on the signature.   *)
LEMMA VerdictsSettled ==
  ASSUME UNCHANGED tokenVars
  PROVE  /\ call' = call /\ token' = token
         /\ Verifying' = Verifying
         /\ AlgorithmsGiven' <=> AlgorithmsGiven
         /\ AlgorithmAllowed' <=> AlgorithmAllowed
         /\ IsObject' <=> IsObject
         /\ Required' <=> Required
         /\ IssOK' <=> IssOK
         /\ AudOK' <=> AudOK
         /\ SubOK' <=> SubOK
         /\ JtiOK' <=> JtiOK
<1>1. call' = call /\ token' = token /\ own' = own
  BY DEF tokenVars
<1>2. Verifying' = Verifying
  BY <1>1 DEF Verifying
<1>3. Body' = Body
  BY <1>1 DEF Body, BodyOf
<1>4. Options' = Options
  BY <1>1 DEF Options
<1>5. AlgorithmsGiven' <=> AlgorithmsGiven
  BY <1>1, <1>2 DEF AlgorithmsGiven
<1>6. AlgorithmAllowed' <=> AlgorithmAllowed
  BY <1>1 DEF AlgorithmAllowed
<1>7. (IsObject' <=> IsObject) /\ (Required' <=> Required)
  BY <1>3, <1>4 DEF IsObject, Required
<1>8. IssOK' <=> IssOK
  BY <1>1, <1>3, <1>4 DEF IssOK, IfOn
<1>9. AudOK' <=> AudOK
  BY <1>1, <1>3, <1>4 DEF AudOK, IfOn
<1>10. SubOK' <=> SubOK
  BY <1>1, <1>3, <1>4 DEF SubOK, IfOn
<1>11. JtiOK' <=> JtiOK
  BY <1>1, <1>3, <1>4 DEF JtiOK, IfOn
<1>12. QED
  BY <1>1, <1>2, <1>5, <1>6, <1>7, <1>8, <1>9, <1>10, <1>11

(* The handler, once found, decides the rest.                               *)
LEMMA SignatureVerdictSettled ==
  ASSUME UNCHANGED <<tokenVars, handler>>
  PROVE  SignatureVerified' <=> SignatureVerified
BY DEF tokenVars, SignatureVerified, SignatureVerdict, Body

-----------------------------------------------------------------------------
(* At first there is no token.                                              *)

LEMMA InitDecodeInv == Init => DecodeInv
<1> SUFFICES ASSUME Init PROVE DecodeInv
  OBVIOUS
<1> USE DEF DecodeInv, AfterAlgorithms, AfterLoad, AfterAllowed, AfterSignature,
           AfterPayload, AfterRequire, AfterIss, AfterAud, AfterSub, AfterJti
<1>1. pc = "issue" /\ outcome = "none"
  BY DEF Init
<1>2. NeverForged /\ OutcomeAtEnd
  BY <1>1 DEF NeverForged, OutcomeAtEnd
<1>3. HeaderChecked /\ SignatureChecked
  BY <1>1 DEF HeaderChecked, SignatureChecked, Past
<1>4. ClaimsChecked
  BY <1>1 DEF ClaimsChecked, Through, Accepted
<1>5. QED
  BY <1>2, <1>3, <1>4

-----------------------------------------------------------------------------
(* The issuer, the way and the start of the call.                           *)

(* encode either raises what is no complaint about a claim, or makes a      *)
(* token with its own signature.                                            *)
LEMMA StepIssue ==
  ASSUME DecodeInv, Issue
  PROVE  DecodeInv'
<1> USE DEF DecodeInv, AfterAlgorithms, AfterLoad, AfterAllowed, AfterSignature,
           AfterPayload, AfterRequire, AfterIss, AfterAud, AfterSub, AfterJti
<1>1. PICK request \in Requests :
         \/ /\ IssueVerdict(request) = "ok"
            /\ token' = Encoded(request, PayloadOf(request), NoPayload)
            /\ issued' = [request |-> request, signer |-> HandlerFor(request)]
            /\ pc' = "sent"
            /\ UNCHANGED outcome
         \/ /\ IssueVerdict(request) # "ok"
            /\ pc' = "refused"
            /\ outcome' = IssueVerdict(request)
            /\ UNCHANGED <<token, issued>>
  BY DEF Issue
<1>2. pc' \in {"sent", "refused"} /\ outcome = "none"
  BY <1>1 DEF Issue, OutcomeAtEnd
<1>3. NeverForged'
  <2>1. CASE pc' = "sent"
    <3>1. token' = Encoded(request, PayloadOf(request), NoPayload)
          /\ issued' = [request |-> request, signer |-> HandlerFor(request)]
      BY <1>1, <2>1
    <3>2. IssuersSignature' =
             Signed(HandlerFor(request), request.key, HeaderOf(request),
                    PayloadOf(request))
      BY <3>1 DEF IssuersSignature
    <3>3. /\ token' = Token(token'.header, token'.body, token'.signature)
          /\ token'.signature = IssuersSignature'
      BY <3>1, <3>2 DEF Encoded, Token
    <3>4. QED
      BY <3>3 DEF NeverForged
  <2>2. CASE pc' = "refused"
    BY <2>2 DEF NeverForged
  <2>3. QED
    BY <1>2, <2>1, <2>2
<1>4. OutcomeAtEnd'
  <2>1. IssueVerdict(request) \notin ClaimErrors
    BY DEF IssueVerdict, EncodeVerdict, PrepareVerdict, KeyVerdict, First,
           ClaimErrors
  <2>2. QED
    BY <1>1, <1>2, <2>1 DEF OutcomeAtEnd
<1>5. HeaderChecked' /\ SignatureChecked'
  BY <1>2 DEF HeaderChecked, SignatureChecked, Past
<1>6. ClaimsChecked'
  BY <1>2 DEF ClaimsChecked, Through, Accepted
<1>7. QED
  BY <1>3, <1>4, <1>5, <1>6

(* On the way a signature is lost or kept.                                  *)
LEMMA StepDamage ==
  ASSUME DecodeInv, Damage
  PROVE  DecodeInv'
<1> USE DEF DecodeInv, AfterAlgorithms, AfterLoad, AfterAllowed, AfterSignature,
           AfterPayload, AfterRequire, AfterIss, AfterAud, AfterSub, AfterJti
<1>1. /\ pc = "sent" /\ ~damaged /\ damaged' = TRUE
      /\ token' \in Damaged
      /\ UNCHANGED <<issued, pc, outcome>>
  BY DEF Damage
<1>2. token = Token(token.header, token.body, token.signature)
      /\ token.signature \in {NoSignature, IssuersSignature}
  BY <1>1 DEF NeverForged
<1>3. token' = Garbage
      \/ /\ token' = Token(token'.header, token'.body, token'.signature)
         /\ token'.signature \in {NoSignature, token.signature}
  BY <1>1, <1>2 DEF Damaged, Token
<1>4. NeverForged'
  BY <1>1, <1>2, <1>3, SignatureSettled DEF NeverForged
<1>5. OutcomeAtEnd'
  BY <1>1 DEF OutcomeAtEnd
<1>6. HeaderChecked' /\ SignatureChecked'
  BY <1>1 DEF HeaderChecked, SignatureChecked, Past
<1>7. ClaimsChecked'
  BY <1>1 DEF ClaimsChecked, Through, Accepted
<1>8. QED
  BY <1>4, <1>5, <1>6, <1>7

(* A call has no check behind it.                                           *)
LEMMA StepDecode ==
  ASSUME DecodeInv, Decode
  PROVE  DecodeInv'
<1> USE DEF DecodeInv, AfterAlgorithms, AfterLoad, AfterAllowed, AfterSignature,
           AfterPayload, AfterRequire, AfterIss, AfterAud, AfterSub, AfterJti
<1>1. /\ pc = "sent" /\ pc' = "algorithms"
      /\ UNCHANGED <<token, issued, damaged, outcome>>
  BY DEF Decode
<1>2. NeverForged'
  BY <1>1, SignatureSettled DEF NeverForged
<1>3. OutcomeAtEnd'
  BY <1>1 DEF OutcomeAtEnd
<1>4. HeaderChecked' /\ SignatureChecked'
  BY <1>1 DEF HeaderChecked, SignatureChecked, Past
<1>5. ClaimsChecked'
  BY <1>1 DEF ClaimsChecked, Through, Accepted
<1>6. QED
  BY <1>2, <1>3, <1>4, <1>5

-----------------------------------------------------------------------------
(* Steps that check nothing.                                                *)

(* Whatever the verifier does, the token stays its issuer's.                *)
LEMMA VerifierForgesNothing ==
  ASSUME NeverForged, UNCHANGED tokenVars, pc \notin {"issue", "refused"}
  PROVE  NeverForged'
BY SignatureSettled DEF NeverForged, tokenVars

(* Nothing a decode works with is changed by other threads or the clock.    *)
LEMMA StepElsewhere ==
  ASSUME DecodeInv, UNCHANGED decodeVars
  PROVE  DecodeInv'
<1> USE DEF DecodeInv
<1>1. UNCHANGED <<tokenVars, handler, pc, outcome>>
  BY DEF decodeVars
<1>2. NeverForged'
  BY <1>1, SignatureSettled DEF NeverForged, tokenVars
<1>3. OutcomeAtEnd'
  BY <1>1 DEF OutcomeAtEnd
<1>4. HeaderChecked' /\ ClaimsChecked'
  BY <1>1, VerdictsSettled DEF HeaderChecked, ClaimsChecked, Past, Through,
     Accepted
<1>5. SignatureChecked'
  BY <1>1, VerdictsSettled, SignatureVerdictSettled DEF SignatureChecked, Past
<1>6. QED
  BY <1>2, <1>3, <1>4, <1>5

(* The handler is found before the signature is verified with it.           *)
LEMMA StepHandler ==
  ASSUME DecodeInv, UseHandlerOfJwk \/ FindHandler
  PROVE  DecodeInv'
<1> USE DEF DecodeInv, AfterAlgorithms, AfterLoad, AfterAllowed, AfterSignature,
           AfterPayload, AfterRequire, AfterIss, AfterAud, AfterSub, AfterJti
<1>1. /\ UNCHANGED tokenVars /\ pc = "lookup"
      /\ \/ pc' = "key" /\ UNCHANGED outcome
         \/ pc' = "done" /\ outcome' = "InvalidAlgorithmError"
  BY DEF UseHandlerOfJwk, FindHandler, Others
<1>2. NeverForged'
  BY <1>1, VerifierForgesNothing
<1>3. OutcomeAtEnd'
  BY <1>1 DEF OutcomeAtEnd
<1>4. HeaderChecked'
  BY <1>1, VerdictsSettled DEF HeaderChecked, Past, ClaimErrors
<1>5. SignatureChecked'
  BY <1>1 DEF SignatureChecked, Past, ClaimErrors
<1>6. ClaimsChecked'
  BY <1>1 DEF ClaimsChecked, Through, Accepted
<1>7. QED
  BY <1>2, <1>3, <1>4, <1>5, <1>6

(* The reading of the clock.                                                *)
LEMMA StepReadClock ==
  ASSUME DecodeInv, ReadClock
  PROVE  DecodeInv'
<1> USE DEF DecodeInv, AfterAlgorithms, AfterLoad, AfterAllowed, AfterSignature,
           AfterPayload, AfterRequire, AfterIss, AfterAud, AfterSub, AfterJti
<1>1. /\ UNCHANGED <<tokenVars, handler, outcome>>
      /\ pc = "now" /\ pc' = "iat"
  BY DEF ReadClock, Others
<1>2. NeverForged'
  BY <1>1, VerifierForgesNothing
<1>3. OutcomeAtEnd'
  BY <1>1 DEF OutcomeAtEnd
<1>4. HeaderChecked' /\ ClaimsChecked'
  BY <1>1, VerdictsSettled DEF HeaderChecked, ClaimsChecked, Past, Through,
     Accepted
<1>5. SignatureChecked'
  BY <1>1, VerdictsSettled, SignatureVerdictSettled DEF SignatureChecked, Past
<1>6. QED
  BY <1>2, <1>3, <1>4, <1>5

(* The return of the decoded token.                                         *)
LEMMA StepReturn ==
  ASSUME DecodeInv, Return
  PROVE  DecodeInv'
<1> USE DEF DecodeInv, AfterAlgorithms, AfterLoad, AfterAllowed, AfterSignature,
           AfterPayload, AfterRequire, AfterIss, AfterAud, AfterSub, AfterJti
<1>1. /\ UNCHANGED <<tokenVars, handler>>
      /\ pc = "return" /\ pc' = "done"
  BY DEF Return, Others
<1>2. NeverForged'
  BY <1>1, VerifierForgesNothing
<1>3. OutcomeAtEnd'
  BY <1>1 DEF OutcomeAtEnd
<1>4. HeaderChecked' /\ ClaimsChecked'
  BY <1>1, VerdictsSettled DEF HeaderChecked, ClaimsChecked, Past, Through,
     Accepted
<1>5. SignatureChecked'
  BY <1>1, VerdictsSettled, SignatureVerdictSettled DEF SignatureChecked, Past
<1>6. QED
  BY <1>2, <1>3, <1>4, <1>5

-----------------------------------------------------------------------------
(* The checks, in their order.                                              *)

(* The allow-list is there, or the key is a PyJWK.                          *)
LEMMA StepRequireAlgorithms ==
  ASSUME DecodeInv, RequireAlgorithms
  PROVE  DecodeInv'
<1> USE DEF DecodeInv, AfterAlgorithms, AfterLoad, AfterAllowed, AfterSignature,
           AfterPayload, AfterRequire, AfterIss, AfterAud, AfterSub, AfterJti
<1>1. UNCHANGED <<tokenVars, handler>> /\ pc = "algorithms"
  BY DEF RequireAlgorithms, Check, Others
<1>2. NeverForged'
  BY <1>1, VerifierForgesNothing
<1>3. OutcomeAtEnd'
  BY DEF RequireAlgorithms, Check, OutcomeAtEnd
<1>4. HeaderChecked'
  BY <1>1, VerdictsSettled
  DEF RequireAlgorithms, Check, HeaderChecked, Past, ClaimErrors,
      AlgorithmsGiven, AlgorithmsVerdict, First
<1>5. SignatureChecked'
  BY <1>1, VerdictsSettled, SignatureVerdictSettled
  DEF RequireAlgorithms, Check, SignatureChecked, Past, ClaimErrors,
      AlgorithmsGiven, AlgorithmsVerdict, First
<1>6. ClaimsChecked'
  BY <1>1, VerdictsSettled
  DEF RequireAlgorithms, Check, ClaimsChecked, Through, Accepted,
      AlgorithmsGiven, AlgorithmsVerdict, First
<1>7. QED
  BY <1>2, <1>3, <1>4, <1>5, <1>6

(* What is loaded is a token.                                               *)
LEMMA StepLoad ==
  ASSUME DecodeInv, Load
  PROVE  DecodeInv'
<1> USE DEF DecodeInv, AfterAlgorithms, AfterLoad, AfterAllowed, AfterSignature,
           AfterPayload, AfterRequire, AfterIss, AfterAud, AfterSub, AfterJti
<1>1. UNCHANGED <<tokenVars, handler>> /\ pc = "load"
  BY DEF Load, Check, Others
<1>2. NeverForged'
  BY <1>1, VerifierForgesNothing
<1>3. OutcomeAtEnd'
  BY DEF Load, Check, OutcomeAtEnd
<1>4. HeaderChecked'
  BY <1>1, VerdictsSettled
  DEF Load, Check, HeaderChecked, Past, ClaimErrors,
      First
<1>5. SignatureChecked'
  BY <1>1, VerdictsSettled, SignatureVerdictSettled
  DEF Load, Check, SignatureChecked, Past, ClaimErrors,
      First
<1>6. ClaimsChecked'
  BY <1>1, VerdictsSettled
  DEF Load, Check, ClaimsChecked, Through, Accepted,
      First
<1>7. QED
  BY <1>2, <1>3, <1>4, <1>5, <1>6

(* The header is checked.                                                   *)
LEMMA StepValidateHeaders ==
  ASSUME DecodeInv, ValidateHeaders
  PROVE  DecodeInv'
<1> USE DEF DecodeInv, AfterAlgorithms, AfterLoad, AfterAllowed, AfterSignature,
           AfterPayload, AfterRequire, AfterIss, AfterAud, AfterSub, AfterJti
<1>1. UNCHANGED <<tokenVars, handler>> /\ pc = "headers"
  BY DEF ValidateHeaders, Check, Others
<1>2. NeverForged'
  BY <1>1, VerifierForgesNothing
<1>3. OutcomeAtEnd'
  BY DEF ValidateHeaders, Check, OutcomeAtEnd
<1>4. HeaderChecked'
  BY <1>1, VerdictsSettled
  DEF ValidateHeaders, Check, HeaderChecked, Past, ClaimErrors,
      HeaderVerdict, First
<1>5. SignatureChecked'
  BY <1>1, VerdictsSettled, SignatureVerdictSettled
  DEF ValidateHeaders, Check, SignatureChecked, Past, ClaimErrors,
      HeaderVerdict, First
<1>6. ClaimsChecked'
  BY <1>1, VerdictsSettled
  DEF ValidateHeaders, Check, ClaimsChecked, Through, Accepted,
      HeaderVerdict, First
<1>7. QED
  BY <1>2, <1>3, <1>4, <1>5, <1>6

(* With verification off the checks of the signature are passed over.       *)
LEMMA StepAttachPayload ==
  ASSUME DecodeInv, AttachPayload
  PROVE  DecodeInv'
<1> USE DEF DecodeInv, AfterAlgorithms, AfterLoad, AfterAllowed, AfterSignature,
           AfterPayload, AfterRequire, AfterIss, AfterAud, AfterSub, AfterJti
<1>1. UNCHANGED <<tokenVars, handler>> /\ pc = "detached"
  BY DEF AttachPayload, Check, Others
<1>2. NeverForged'
  BY <1>1, VerifierForgesNothing
<1>3. OutcomeAtEnd'
  BY DEF AttachPayload, Check, OutcomeAtEnd, Contents
<1>4. HeaderChecked'
  BY <1>1, VerdictsSettled
  DEF AttachPayload, Check, HeaderChecked, Past, ClaimErrors,
      DetachedVerdict, First, Contents
<1>5. SignatureChecked'
  BY <1>1, VerdictsSettled, SignatureVerdictSettled
  DEF AttachPayload, Check, SignatureChecked, Past, ClaimErrors,
      DetachedVerdict, First, Contents
<1>6. ClaimsChecked'
  BY <1>1, VerdictsSettled
  DEF AttachPayload, Check, ClaimsChecked, Through, Accepted,
      DetachedVerdict, First, Contents
<1>7. QED
  BY <1>2, <1>3, <1>4, <1>5, <1>6

(* The header's algorithm is compared with the allowed ones.                *)
LEMMA StepAllowAlgorithm ==
  ASSUME DecodeInv, AllowAlgorithm
  PROVE  DecodeInv'
<1> USE DEF DecodeInv, AfterAlgorithms, AfterLoad, AfterAllowed, AfterSignature,
           AfterPayload, AfterRequire, AfterIss, AfterAud, AfterSub, AfterJti
<1>1. UNCHANGED <<tokenVars, handler>> /\ pc = "allowed"
  BY DEF AllowAlgorithm, Check, Others
<1>2. NeverForged'
  BY <1>1, VerifierForgesNothing
<1>3. OutcomeAtEnd'
  BY DEF AllowAlgorithm, Check, OutcomeAtEnd
<1>4. HeaderChecked'
  BY <1>1, VerdictsSettled
  DEF AllowAlgorithm, Check, HeaderChecked, Past, ClaimErrors,
      AlgorithmAllowed, AlgVerdict, First
<1>5. SignatureChecked'
  BY <1>1, VerdictsSettled, SignatureVerdictSettled
  DEF AllowAlgorithm, Check, SignatureChecked, Past, ClaimErrors,
      AlgorithmAllowed, AlgVerdict, First
<1>6. ClaimsChecked'
  BY <1>1, VerdictsSettled
  DEF AllowAlgorithm, Check, ClaimsChecked, Through, Accepted,
      AlgorithmAllowed, AlgVerdict, First
<1>7. QED
  BY <1>2, <1>3, <1>4, <1>5, <1>6

(* The key is prepared.                                                     *)
LEMMA StepPrepareKey ==
  ASSUME DecodeInv, PrepareKey
  PROVE  DecodeInv'
<1> USE DEF DecodeInv, AfterAlgorithms, AfterLoad, AfterAllowed, AfterSignature,
           AfterPayload, AfterRequire, AfterIss, AfterAud, AfterSub, AfterJti
<1>1. UNCHANGED <<tokenVars, handler>> /\ pc = "key"
  BY DEF PrepareKey, Check, Others
<1>2. NeverForged'
  BY <1>1, VerifierForgesNothing
<1>3. OutcomeAtEnd'
  BY DEF PrepareKey, Check, OutcomeAtEnd
<1>4. HeaderChecked'
  BY <1>1, VerdictsSettled
  DEF PrepareKey, Check, HeaderChecked, Past, ClaimErrors,
      KeyVerdict, First
<1>5. SignatureChecked'
  BY <1>1, VerdictsSettled, SignatureVerdictSettled
  DEF PrepareKey, Check, SignatureChecked, Past, ClaimErrors,
      KeyVerdict, First
<1>6. ClaimsChecked'
  BY <1>1, VerdictsSettled
  DEF PrepareKey, Check, ClaimsChecked, Through, Accepted,
      KeyVerdict, First
<1>7. QED
  BY <1>2, <1>3, <1>4, <1>5, <1>6

(* The signature is verified.                                               *)
LEMMA StepVerifySignature ==
  ASSUME DecodeInv, VerifySignature
  PROVE  DecodeInv'
<1> USE DEF DecodeInv, AfterAlgorithms, AfterLoad, AfterAllowed, AfterSignature,
           AfterPayload, AfterRequire, AfterIss, AfterAud, AfterSub, AfterJti
<1>1. UNCHANGED <<tokenVars, handler>> /\ pc = "signature"
  BY DEF VerifySignature, Check, Others
<1>2. NeverForged'
  BY <1>1, VerifierForgesNothing
<1>3. OutcomeAtEnd'
  BY DEF VerifySignature, Check, OutcomeAtEnd, Contents
<1>4. HeaderChecked'
  BY <1>1, VerdictsSettled
  DEF VerifySignature, Check, HeaderChecked, Past, ClaimErrors,
      SignatureVerified, SignatureVerdict, First, Contents
<1>5. SignatureChecked'
  BY <1>1, VerdictsSettled, SignatureVerdictSettled
  DEF VerifySignature, Check, SignatureChecked, Past, ClaimErrors,
      SignatureVerified, SignatureVerdict, First, Contents
<1>6. ClaimsChecked'
  BY <1>1, VerdictsSettled
  DEF VerifySignature, Check, ClaimsChecked, Through, Accepted,
      SignatureVerified, SignatureVerdict, First, Contents
<1>7. QED
  BY <1>2, <1>3, <1>4, <1>5, <1>6

(* The payload is a JSON object.                                            *)
LEMMA StepDecodePayload ==
  ASSUME DecodeInv, DecodePayload
  PROVE  DecodeInv'
<1> USE DEF DecodeInv, AfterAlgorithms, AfterLoad, AfterAllowed, AfterSignature,
           AfterPayload, AfterRequire, AfterIss, AfterAud, AfterSub, AfterJti
<1>1. UNCHANGED <<tokenVars, handler>> /\ pc = "payload"
  BY DEF DecodePayload, Check, Others
<1>2. NeverForged'
  BY <1>1, VerifierForgesNothing
<1>3. OutcomeAtEnd'
  BY DEF DecodePayload, Check, OutcomeAtEnd
<1>4. HeaderChecked'
  BY <1>1, VerdictsSettled
  DEF DecodePayload, Check, HeaderChecked, Past, ClaimErrors,
      IsObject, First
<1>5. SignatureChecked'
  BY <1>1, VerdictsSettled, SignatureVerdictSettled
  DEF DecodePayload, Check, SignatureChecked, Past, ClaimErrors,
      IsObject, First
<1>6. ClaimsChecked'
  BY <1>1, VerdictsSettled
  DEF DecodePayload, Check, ClaimsChecked, Through, Accepted,
      IsObject, First
<1>7. QED
  BY <1>2, <1>3, <1>4, <1>5, <1>6

(* The expected audience is of a possible type.                             *)
LEMMA StepCheckAudience ==
  ASSUME DecodeInv, CheckAudience
  PROVE  DecodeInv'
<1> USE DEF DecodeInv, AfterAlgorithms, AfterLoad, AfterAllowed, AfterSignature,
           AfterPayload, AfterRequire, AfterIss, AfterAud, AfterSub, AfterJti
<1>1. UNCHANGED <<tokenVars, handler>> /\ pc = "audience"
  BY DEF CheckAudience, Check, Others
<1>2. NeverForged'
  BY <1>1, VerifierForgesNothing
<1>3. OutcomeAtEnd'
  BY DEF CheckAudience, Check, OutcomeAtEnd
<1>4. HeaderChecked'
  BY <1>1, VerdictsSettled
  DEF CheckAudience, Check, HeaderChecked, Past, ClaimErrors,
      AudienceVerdict, First
<1>5. SignatureChecked'
  BY <1>1, VerdictsSettled, SignatureVerdictSettled
  DEF CheckAudience, Check, SignatureChecked, Past, ClaimErrors,
      AudienceVerdict, First
<1>6. ClaimsChecked'
  BY <1>1, VerdictsSettled
  DEF CheckAudience, Check, ClaimsChecked, Through, Accepted,
      AudienceVerdict, First
<1>7. QED
  BY <1>2, <1>3, <1>4, <1>5, <1>6

(* The required claims are there.                                           *)
LEMMA StepRequireClaims ==
  ASSUME DecodeInv, RequireClaims
  PROVE  DecodeInv'
<1> USE DEF DecodeInv, AfterAlgorithms, AfterLoad, AfterAllowed, AfterSignature,
           AfterPayload, AfterRequire, AfterIss, AfterAud, AfterSub, AfterJti
<1>1. UNCHANGED <<tokenVars, handler>> /\ pc = "require"
  BY DEF RequireClaims, Check, Others
<1>2. NeverForged'
  BY <1>1, VerifierForgesNothing
<1>3. OutcomeAtEnd'
  BY DEF RequireClaims, Check, OutcomeAtEnd
<1>4. HeaderChecked'
  BY <1>1, VerdictsSettled
  DEF RequireClaims, Check, HeaderChecked, Past, ClaimErrors,
      Required
<1>5. SignatureChecked'
  BY <1>1, VerdictsSettled, SignatureVerdictSettled
  DEF RequireClaims, Check, SignatureChecked, Past, ClaimErrors,
      Required
<1>6. ClaimsChecked'
  BY <1>1, VerdictsSettled
  DEF RequireClaims, Check, ClaimsChecked, Through, Accepted,
      Required
<1>7. QED
  BY <1>2, <1>3, <1>4, <1>5, <1>6

(* The token was issued.                                                    *)
LEMMA StepValidateIat ==
  ASSUME DecodeInv, ValidateIat
  PROVE  DecodeInv'
<1> USE DEF DecodeInv, AfterAlgorithms, AfterLoad, AfterAllowed, AfterSignature,
           AfterPayload, AfterRequire, AfterIss, AfterAud, AfterSub, AfterJti
<1>1. UNCHANGED <<tokenVars, handler>> /\ pc = "iat"
  BY DEF ValidateIat, Check, Others
<1>2. NeverForged'
  BY <1>1, VerifierForgesNothing
<1>3. OutcomeAtEnd'
  BY DEF ValidateIat, Check, OutcomeAtEnd
<1>4. HeaderChecked'
  BY <1>1, VerdictsSettled
  DEF ValidateIat, Check, HeaderChecked, Past, ClaimErrors,
      IfPresent
<1>5. SignatureChecked'
  BY <1>1, VerdictsSettled, SignatureVerdictSettled
  DEF ValidateIat, Check, SignatureChecked, Past, ClaimErrors,
      IfPresent
<1>6. ClaimsChecked'
  BY <1>1, VerdictsSettled
  DEF ValidateIat, Check, ClaimsChecked, Through, Accepted,
      IfPresent
<1>7. QED
  BY <1>2, <1>3, <1>4, <1>5, <1>6

(* The token is valid.                                                      *)
LEMMA StepValidateNbf ==
  ASSUME DecodeInv, ValidateNbf
  PROVE  DecodeInv'
<1> USE DEF DecodeInv, AfterAlgorithms, AfterLoad, AfterAllowed, AfterSignature,
           AfterPayload, AfterRequire, AfterIss, AfterAud, AfterSub, AfterJti
<1>1. UNCHANGED <<tokenVars, handler>> /\ pc = "nbf"
  BY DEF ValidateNbf, Check, Others
<1>2. NeverForged'
  BY <1>1, VerifierForgesNothing
<1>3. OutcomeAtEnd'
  BY DEF ValidateNbf, Check, OutcomeAtEnd
<1>4. HeaderChecked'
  BY <1>1, VerdictsSettled
  DEF ValidateNbf, Check, HeaderChecked, Past, ClaimErrors,
      IfPresent
<1>5. SignatureChecked'
  BY <1>1, VerdictsSettled, SignatureVerdictSettled
  DEF ValidateNbf, Check, SignatureChecked, Past, ClaimErrors,
      IfPresent
<1>6. ClaimsChecked'
  BY <1>1, VerdictsSettled
  DEF ValidateNbf, Check, ClaimsChecked, Through, Accepted,
      IfPresent
<1>7. QED
  BY <1>2, <1>3, <1>4, <1>5, <1>6

(* The token has not expired.                                               *)
LEMMA StepValidateExp ==
  ASSUME DecodeInv, ValidateExp
  PROVE  DecodeInv'
<1> USE DEF DecodeInv, AfterAlgorithms, AfterLoad, AfterAllowed, AfterSignature,
           AfterPayload, AfterRequire, AfterIss, AfterAud, AfterSub, AfterJti
<1>1. UNCHANGED <<tokenVars, handler>> /\ pc = "exp"
  BY DEF ValidateExp, Check, Others
<1>2. NeverForged'
  BY <1>1, VerifierForgesNothing
<1>3. OutcomeAtEnd'
  BY DEF ValidateExp, Check, OutcomeAtEnd
<1>4. HeaderChecked'
  BY <1>1, VerdictsSettled
  DEF ValidateExp, Check, HeaderChecked, Past, ClaimErrors,
      IfPresent
<1>5. SignatureChecked'
  BY <1>1, VerdictsSettled, SignatureVerdictSettled
  DEF ValidateExp, Check, SignatureChecked, Past, ClaimErrors,
      IfPresent
<1>6. ClaimsChecked'
  BY <1>1, VerdictsSettled
  DEF ValidateExp, Check, ClaimsChecked, Through, Accepted,
      IfPresent
<1>7. QED
  BY <1>2, <1>3, <1>4, <1>5, <1>6

(* The issuer is as expected.                                               *)
LEMMA StepValidateIss ==
  ASSUME DecodeInv, ValidateIss
  PROVE  DecodeInv'
<1> USE DEF DecodeInv, AfterAlgorithms, AfterLoad, AfterAllowed, AfterSignature,
           AfterPayload, AfterRequire, AfterIss, AfterAud, AfterSub, AfterJti
<1>1. UNCHANGED <<tokenVars, handler>> /\ pc = "iss"
  BY DEF ValidateIss, Check, Others
<1>2. NeverForged'
  BY <1>1, VerifierForgesNothing
<1>3. OutcomeAtEnd'
  BY DEF ValidateIss, Check, OutcomeAtEnd
<1>4. HeaderChecked'
  BY <1>1, VerdictsSettled
  DEF ValidateIss, Check, HeaderChecked, Past, ClaimErrors,
      IssOK
<1>5. SignatureChecked'
  BY <1>1, VerdictsSettled, SignatureVerdictSettled
  DEF ValidateIss, Check, SignatureChecked, Past, ClaimErrors,
      IssOK
<1>6. ClaimsChecked'
  BY <1>1, VerdictsSettled
  DEF ValidateIss, Check, ClaimsChecked, Through, Accepted,
      IssOK
<1>7. QED
  BY <1>2, <1>3, <1>4, <1>5, <1>6

(* The audience is as expected.                                             *)
LEMMA StepValidateAud ==
  ASSUME DecodeInv, ValidateAud
  PROVE  DecodeInv'
<1> USE DEF DecodeInv, AfterAlgorithms, AfterLoad, AfterAllowed, AfterSignature,
           AfterPayload, AfterRequire, AfterIss, AfterAud, AfterSub, AfterJti
<1>1. UNCHANGED <<tokenVars, handler>> /\ pc = "aud"
  BY DEF ValidateAud, Check, Others
<1>2. NeverForged'
  BY <1>1, VerifierForgesNothing
<1>3. OutcomeAtEnd'
  BY DEF ValidateAud, Check, OutcomeAtEnd
<1>4. HeaderChecked'
  BY <1>1, VerdictsSettled
  DEF ValidateAud, Check, HeaderChecked, Past, ClaimErrors,
      AudOK
<1>5. SignatureChecked'
  BY <1>1, VerdictsSettled, SignatureVerdictSettled
  DEF ValidateAud, Check, SignatureChecked, Past, ClaimErrors,
      AudOK
<1>6. ClaimsChecked'
  BY <1>1, VerdictsSettled
  DEF ValidateAud, Check, ClaimsChecked, Through, Accepted,
      AudOK
<1>7. QED
  BY <1>2, <1>3, <1>4, <1>5, <1>6

(* The subject is as expected.                                              *)
LEMMA StepValidateSub ==
  ASSUME DecodeInv, ValidateSub
  PROVE  DecodeInv'
<1> USE DEF DecodeInv, AfterAlgorithms, AfterLoad, AfterAllowed, AfterSignature,
           AfterPayload, AfterRequire, AfterIss, AfterAud, AfterSub, AfterJti
<1>1. UNCHANGED <<tokenVars, handler>> /\ pc = "sub"
  BY DEF ValidateSub, Check, Others
<1>2. NeverForged'
  BY <1>1, VerifierForgesNothing
<1>3. OutcomeAtEnd'
  BY DEF ValidateSub, Check, OutcomeAtEnd
<1>4. HeaderChecked'
  BY <1>1, VerdictsSettled
  DEF ValidateSub, Check, HeaderChecked, Past, ClaimErrors,
      SubOK
<1>5. SignatureChecked'
  BY <1>1, VerdictsSettled, SignatureVerdictSettled
  DEF ValidateSub, Check, SignatureChecked, Past, ClaimErrors,
      SubOK
<1>6. ClaimsChecked'
  BY <1>1, VerdictsSettled
  DEF ValidateSub, Check, ClaimsChecked, Through, Accepted,
      SubOK
<1>7. QED
  BY <1>2, <1>3, <1>4, <1>5, <1>6

(* The JWT ID is as expected.                                               *)
LEMMA StepValidateJti ==
  ASSUME DecodeInv, ValidateJti
  PROVE  DecodeInv'
<1> USE DEF DecodeInv, AfterAlgorithms, AfterLoad, AfterAllowed, AfterSignature,
           AfterPayload, AfterRequire, AfterIss, AfterAud, AfterSub, AfterJti
<1>1. UNCHANGED <<tokenVars, handler>> /\ pc = "jti"
  BY DEF ValidateJti, Check, Others
<1>2. NeverForged'
  BY <1>1, VerifierForgesNothing
<1>3. OutcomeAtEnd'
  BY DEF ValidateJti, Check, OutcomeAtEnd
<1>4. HeaderChecked'
  BY <1>1, VerdictsSettled
  DEF ValidateJti, Check, HeaderChecked, Past, ClaimErrors,
      JtiOK
<1>5. SignatureChecked'
  BY <1>1, VerdictsSettled, SignatureVerdictSettled
  DEF ValidateJti, Check, SignatureChecked, Past, ClaimErrors,
      JtiOK
<1>6. ClaimsChecked'
  BY <1>1, VerdictsSettled
  DEF ValidateJti, Check, ClaimsChecked, Through, Accepted,
      JtiOK
<1>7. QED
  BY <1>2, <1>3, <1>4, <1>5, <1>6

-----------------------------------------------------------------------------
(* The theorems.                                                            *)

(* Every step keeps the invariant.                                          *)
LEMMA NextDecodeInv == DecodeInv /\ [Next]_vars => DecodeInv'
<1> SUFFICES ASSUME DecodeInv, [Next]_vars PROVE DecodeInv'
  OBVIOUS
<1>1. CASE Issue
  BY <1>1, StepIssue
<1>2. CASE Damage
  BY <1>2, StepDamage
<1>3. CASE Decode
  BY <1>3, StepDecode
<1>4. CASE OfJws
  BY <1>4, StepRequireAlgorithms, StepLoad, StepValidateHeaders,
     StepAttachPayload, StepAllowAlgorithm, StepHandler, StepPrepareKey,
     StepVerifySignature DEF OfJws
<1>5. CASE OfJwt
  BY <1>5, StepDecodePayload, StepCheckAudience, StepRequireClaims,
     StepReadClock, StepValidateIat, StepValidateNbf, StepValidateExp,
     StepValidateIss, StepValidateAud, StepValidateSub, StepValidateJti,
     StepReturn DEF OfJwt
<1>6. CASE SetClock \/ OtherThreads \/ UNCHANGED vars
  BY <1>6, StepElsewhere DEF SetClock, OtherThreads, vars
<1>7. QED
  BY <1>1, <1>2, <1>3, <1>4, <1>5, <1>6 DEF Next

(* The invariant holds of every behaviour.                                  *)
THEOREM DecodeInvariance == Spec => []DecodeInv
BY InitDecodeInv, NextDecodeInv, PTL DEF Spec

(* Two signatures are the same only if handler, key, header and payload     *)
(* are, and the empty one verifies for nobody.                              *)
LEMMA SignaturesTell ==
  ASSUME NEW h1, NEW key1, NEW header1, NEW body1,
         NEW h2, NEW key2, NEW header2, NEW body2, NEW signature,
         signature \in {NoSignature, Signed(h2, key2, header2, body2)},
         Verifies(h1, key1, header1, body1, signature)
  PROVE  key1.id = key2.id /\ header1 = header2 /\ body1 = body2
<1>1. h1 \notin Unsigned /\ signature = Signed(h1, key1, header1, body1)
  BY DEF Verifies
<1>2. signature =
         [by |-> h1, key |-> key1.id, header |-> header1, body |-> body1]
  BY <1>1 DEF Signed
<1>3. signature # NoSignature
  BY <1>2 DEF NoSignature
<1>4. signature =
         [by |-> h2, key |-> key2.id, header |-> header2, body |-> body2]
  BY <1>3 DEF Signed
<1>5. QED
  BY <1>2, <1>4

(* A verified signature is the issuer's, over header and payload.           *)
LEMMA VerifiedIsAuthentic ==
  ASSUME DecodeInv, Past(AfterSignature), Verifying
  PROVE  Authentic
<1>1. token # Garbage /\ SignatureVerified
  BY DEF DecodeInv, HeaderChecked, SignatureChecked, Past, AfterLoad, AfterAllowed
<1>2. Verifies(handler, call.key, token.header, Body, token.signature)
  BY <1>1 DEF SignatureVerified, SignatureVerdict, First
<1>3. token.signature \in {NoSignature, IssuersSignature}
  BY <1>1 DEF DecodeInv, NeverForged, Past, AfterSignature
<1>4. QED
  BY <1>2, <1>3, SignaturesTell DEF IssuersSignature, Authentic

(* A verified algorithm is one the caller named, or the PyJWK's.            *)
LEMMA VerifiedIsAllowed ==
  ASSUME DecodeInv, Past(AfterSignature), Verifying
  PROVE  token.header.alg \in Allowed
<1>1. AlgorithmsGiven /\ AlgorithmAllowed
  BY DEF DecodeInv, HeaderChecked, Past, AfterAlgorithms, AfterLoad, AfterAllowed
<1>2. QED
  BY <1>1 DEF AlgorithmsGiven, AlgorithmAllowed, AlgorithmsVerdict,
     AlgVerdict, First, Allowed, IsJwk

(* decode returns, with verification on, only what the issuer signed with   *)
(* the verifier's key under an allowed algorithm.                           *)
THEOREM AcceptedIsAuthenticHolds == Spec => []AcceptedIsAuthentic
<1>1. DecodeInv => AcceptedIsAuthentic
  BY VerifiedIsAuthentic, VerifiedIsAllowed
  DEF AcceptedIsAuthentic, Accepted, Past
<1>2. QED
  BY <1>1, DecodeInvariance, PTL

(* A complaint about a claim, with verification on, is about a claim the    *)
(* issuer made.                                                             *)
THEOREM ClaimErrorsAreAuthenticHolds == Spec => []ClaimErrorsAreAuthentic
<1>1. ASSUME DecodeInv, outcome \in ClaimErrors, Verifying PROVE Authentic
  <2>1. pc = "done"
    BY <1>1 DEF DecodeInv, OutcomeAtEnd, ClaimErrors
  <2>2. QED
    BY <1>1, <2>1, VerifiedIsAuthentic DEF Past
<1>2. QED
  BY <1>1, DecodeInvariance, PTL DEF ClaimErrorsAreAuthentic

(* An accepted payload is an object whose required claims are there and     *)
(* whose parties are the expected ones.                                     *)
THEOREM AcceptedFromThePartiesHolds == Spec => []AcceptedFromTheParties
<1>1. ASSUME DecodeInv, Accepted, call.api = "jwt"
      PROVE  Body.form = "object" /\ PartiesAgree
  <2>1. IsObject /\ Required /\ IssOK /\ AudOK /\ SubOK /\ JtiOK
    BY <1>1 DEF DecodeInv, ClaimsChecked, Through
  <2>2. \A name \in Options.require : Body[name].sort \notin {"absent", "null"}
    BY <2>1 DEF Required, RequireVerdict, First
  <2>3. Options.verify_iss /\ call.issuer # None =>
          /\ Body.iss.sort = "text" /\ call.issuer.sort # "other"
          /\ \A iss \in Body.iss.names : iss \in call.issuer.names
    BY <2>1 DEF IssOK, IfOn, IssVerdict, First
  <2>4. Options.verify_aud =>
          IF call.audience = None THEN Falsy(Body.aud)
          ELSE IF Options.strict_aud
            THEN /\ call.audience.sort = "text" /\ Body.aud.sort = "text"
                 /\ call.audience.names = Body.aud.names
            ELSE /\ Body.aud.sort \in {"text", "list"}
                 /\ \E aud \in call.audience.names : aud \in Body.aud.names
    BY <2>1 DEF AudOK, IfOn, AudVerdict, First, StrictMatch, AnyMatch
  <2>5. Options.verify_sub /\ Present(Body.sub) =>
          /\ Body.sub.sort = "text"
          /\ call.subject = None \/ call.subject.names = Body.sub.names
    BY <2>1 DEF SubOK, IfOn, SubVerdict, First
  <2>6. Options.verify_jti /\ Present(Body.jti) => Body.jti.sort = "text"
    BY <2>1 DEF JtiOK, IfOn, JtiVerdict, First
  <2>7. QED
    BY <2>1, <2>2, <2>3, <2>4, <2>5, <2>6 DEF IsObject, PartiesAgree
<1>2. QED
  BY <1>1, DecodeInvariance, PTL DEF AcceptedFromTheParties
=============================================================================
