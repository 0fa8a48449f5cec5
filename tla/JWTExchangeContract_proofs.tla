---------------------- MODULE JWTExchangeContract_proofs ----------------------
(***************************************************************************)
(* JWTExchange implements DecodeContract: a check that passes is a stutter  *)
(* of the contract, the look into the dictionary and the reading of the     *)
(* clock are its own, and the step that ends a decode is its answer.        *)
(*                                                                         *)
(* A refusal is justified by the check that made it.  An acceptance needs   *)
(* every check: whoever is past one has passed it, and what it looked at    *)
(* (token, call, options, handler, the reading of the clock) stays.         *)
(***************************************************************************)
EXTENDS JWTExchange_proofs, AlgorithmRegistry_proofs

-----------------------------------------------------------------------------
(* The invariant.                                                           *)

AfterHeaders == {"detached", "allowed"} \cup AfterAllowed
AfterDetached == {"allowed"} \cup AfterAllowed
AfterKey == {"signature"} \cup AfterSignature
AfterAudience == {"require", "now", "iat", "nbf", "exp", "iss", "aud", "sub",
                  "jti", "return"}
AfterIat == {"nbf", "exp", "iss", "aud", "sub", "jti", "return"}
AfterNbf == {"exp", "iss", "aud", "sub", "jti", "return"}
AfterExp == {"iss", "aud", "sub", "jti", "return"}

BeforeHandler == {"issue", "sent", "refused", "algorithms", "load", "headers",
                  "detached", "allowed", "lookup"}
OfClaims == {"payload", "audience", "require", "now", "iat", "nbf", "exp",
             "iss", "aud", "sub", "jti"}

HeaderOK == HeaderVerdict(token.header) = "ok"
DetachedOK == DetachedVerdict(token.header, call.detached) = "ok"
KeyOK == KeyVerdict(own, handler, call.key) = "ok"
AudienceOK == AudienceVerdict(call.audience) = "ok"
IatOK == IfPresent("verify_iat", Body.iat,
                   IatVerdict(Body.iat, now, call.leeway)) = "ok"
NbfOK == IfPresent("verify_nbf", Body.nbf,
                   NbfVerdict(Body.nbf, now, call.leeway)) = "ok"
ExpOK == IfPresent("verify_exp", Body.exp,
                   ExpVerdict(Body.exp, now, call.leeway)) = "ok"

\* Where a handler is there, and who gets where.
Placed ==
    /\ pc \in BeforeHandler => handler = None
    /\ pc \in {"allowed", "lookup", "key", "signature"} => Verifying
    /\ pc \in {"key", "signature"} => handler # None
    /\ Past(AfterSignature) /\ Verifying => handler # None
    /\ pc \in OfClaims => call.api = "jwt"

TokenChecked ==
    /\ Past(AfterHeaders) => HeaderOK
    /\ Past(AfterDetached) => DetachedOK
    /\ Past(AfterKey) /\ Verifying => KeyOK

TimesChecked ==
    /\ Through(AfterAudience) => AudienceOK
    /\ Through(AfterIat) => IatOK
    /\ Through(AfterNbf) => NbfOK
    /\ Through(AfterExp) => ExpOK

\* The handlers other threads register are Algorithm objects, and the key of
\* a call is one of those assumed.
WorldInv ==
    /\ IInv
    /\ pc \notin {"issue", "sent", "refused"} => call \in Calls

ContractInv ==
    /\ DecodeInv
    /\ WorldInv
    /\ Placed
    /\ TokenChecked
    /\ TimesChecked

-----------------------------------------------------------------------------
(* What the checks look at stays as it is while they run.                   *)

LEMMA TokenSettled ==
  ASSUME UNCHANGED tokenVars
  PROVE  /\ call' = call /\ token' = token /\ Verifying' = Verifying
         /\ HeaderOK' <=> HeaderOK
         /\ DetachedOK' <=> DetachedOK
         /\ AudienceOK' <=> AudienceOK
         /\ handler' = handler => (KeyOK' <=> KeyOK)
<1>1. call' = call /\ token' = token /\ own' = own
  BY DEF tokenVars
<1>2. Verifying' = Verifying
  BY <1>1 DEF Verifying
<1>3. QED
  BY <1>1, <1>2 DEF HeaderOK, DetachedOK, AudienceOK, KeyOK

LEMMA TimesSettled ==
  ASSUME UNCHANGED <<tokenVars, now>>
  PROVE  /\ IatOK' <=> IatOK
         /\ NbfOK' <=> NbfOK
         /\ ExpOK' <=> ExpOK
<1>1. call' = call /\ token' = token /\ own' = own /\ now' = now
  BY DEF tokenVars
<1>2. Body' = Body /\ Options' = Options
  BY <1>1 DEF Body, BodyOf, Options
<1>3. IatOK' <=> IatOK
  BY <1>1, <1>2 DEF IatOK, IfPresent
<1>4. NbfOK' <=> NbfOK
  BY <1>1, <1>2 DEF NbfOK, IfPresent
<1>5. ExpOK' <=> ExpOK
  BY <1>1, <1>2 DEF ExpOK, IfPresent
<1>6. QED
  BY <1>3, <1>4, <1>5

-----------------------------------------------------------------------------
(* Each step keeps the parts of the invariant that are new here.            *)

Rest == Placed /\ TokenChecked /\ TimesChecked

LEMMA InitRest == Init => Rest
<1> SUFFICES ASSUME Init PROVE Rest
  OBVIOUS
<1>1. pc = "issue" /\ handler = None
  BY DEF Init
<1>2. Placed
  BY <1>1 DEF Placed, OfClaims, Past, AfterSignature
<1>3. TokenChecked
  BY <1>1 DEF TokenChecked, Past, AfterHeaders, AfterDetached, AfterKey,
     AfterAllowed, AfterSignature
<1>4. TimesChecked
  BY <1>1 DEF TimesChecked, Through, Accepted, AfterAudience, AfterIat,
     AfterNbf, AfterExp
<1>5. QED
  BY <1>2, <1>3, <1>4 DEF Rest

(* No check has been made before the call.                                  *)
LEMMA RestBefore ==
  ASSUME ContractInv, Issue \/ Damage \/ Decode
  PROVE  Rest'
<1>1. /\ pc' \in {"sent", "refused", "algorithms"}
      /\ pc \in {"issue", "sent"} /\ handler' = handler
  BY DEF Issue, Damage, Decode
<1>2. Placed'
  BY <1>1 DEF ContractInv, Placed, BeforeHandler, OfClaims, Past,
     AfterSignature
<1>3. TokenChecked'
  BY <1>1 DEF TokenChecked, Past, AfterHeaders, AfterDetached, AfterKey,
     AfterAllowed, AfterSignature
<1>4. TimesChecked'
  BY <1>1 DEF TimesChecked, Through, Accepted, AfterAudience, AfterIat,
     AfterNbf, AfterExp
<1>5. QED
  BY <1>2, <1>3, <1>4 DEF Rest

(* Nothing is checked by other threads, by the clock or on the return.      *)
LEMMA RestElsewhere ==
  ASSUME ContractInv, UNCHANGED <<tokenVars, handler, now>>,
         UNCHANGED <<pc, outcome>> \/ Return
  PROVE  Rest'
<1> USE TokenSettled, TimesSettled
<1> USE DEF ContractInv, Return
<1>1. Placed'
  BY DEF Placed, Past, BeforeHandler, OfClaims, AfterSignature, ClaimErrors
<1>2. TokenChecked'
  BY DEF TokenChecked, Past, AfterHeaders, AfterDetached, AfterKey,
     AfterAllowed, AfterSignature
<1>3. TimesChecked'
  BY DEF TimesChecked, Through, Accepted, AfterAudience, AfterIat, AfterNbf,
     AfterExp
<1>4. QED
  BY <1>1, <1>2, <1>3 DEF Rest

(* The reading of the clock comes before the checks that use it.            *)
LEMMA RestReadClock ==
  ASSUME ContractInv, ReadClock
  PROVE  Rest'
<1>1. /\ UNCHANGED <<tokenVars, handler, outcome>>
      /\ pc = "now" /\ pc' = "iat"
  BY DEF ReadClock, Others
<1> USE TokenSettled DEF ContractInv
<1>2. Placed'
  BY <1>1 DEF Placed, Past, BeforeHandler, OfClaims, AfterSignature
<1>3. TokenChecked'
  BY <1>1 DEF TokenChecked, Past, AfterHeaders, AfterDetached, AfterKey,
     AfterAllowed, AfterSignature
<1>4. TimesChecked'
  BY <1>1 DEF TimesChecked, Through, Accepted, AfterAudience, AfterIat,
     AfterNbf, AfterExp
<1>5. QED
  BY <1>2, <1>3, <1>4 DEF Rest

(* The handlers that are found are Algorithm objects.                       *)
LEMMA FoundHandler ==
  ASSUME ContractInv, UseHandlerOfJwk \/ FindHandler, pc' = "key"
  PROVE  handler' \in Handlers /\ handler' # None
<1>1. pc = "lookup" /\ call \in Calls
  BY DEF ContractInv, WorldInv, UseHandlerOfJwk, FindHandler
<1>2. Defaults \in [DOMAIN Defaults -> Handlers]
  BY RegistryAssumption DEF RegistryAssumption
<1>3. \A n \in DOMAIN algorithms : algorithms[n] \in Handlers
  BY DEF ContractInv, WorldInv, IInv, RegistryTypeOK
<1>4. None \notin Handlers /\ (IsJwk(call.key) => call.key.jwk \in DOMAIN Defaults)
  BY <1>1, ExchangeAssumption DEF ExchangeAssumption
<1>5. handler' \in Handlers
  BY <1>1, <1>2, <1>3, <1>4 DEF UseHandlerOfJwk, FindHandler
<1>6. QED
  BY <1>4, <1>5

LEMMA RestHandler ==
  ASSUME ContractInv, UseHandlerOfJwk \/ FindHandler
  PROVE  Rest'
<1>1. /\ UNCHANGED <<tokenVars, now>> /\ pc = "lookup"
      /\ \/ pc' = "key" /\ UNCHANGED outcome
         \/ pc' = "done" /\ outcome' = "InvalidAlgorithmError"
  BY DEF UseHandlerOfJwk, FindHandler, Others
<1>a. pc' = "key" => handler' # None
  BY FoundHandler
<1> USE TokenSettled DEF ContractInv
<1>2. Placed'
  BY <1>1, <1>a DEF Placed, Past, BeforeHandler, OfClaims, AfterSignature,
     ClaimErrors
<1>3. TokenChecked'
  BY <1>1 DEF TokenChecked, Past, AfterHeaders, AfterDetached, AfterKey,
     AfterAllowed, AfterSignature, ClaimErrors
<1>4. TimesChecked'
  BY <1>1 DEF TimesChecked, Through, Accepted, AfterAudience, AfterIat,
     AfterNbf, AfterExp
<1>5. QED
  BY <1>2, <1>3, <1>4 DEF Rest

(* The allow-list.                                                          *)
LEMMA RestRequireAlgorithms ==
  ASSUME ContractInv, RequireAlgorithms
  PROVE  Rest'
<1> USE TokenSettled, TimesSettled DEF ContractInv
<1>1. UNCHANGED <<tokenVars, handler, now>>
  BY DEF RequireAlgorithms, Check, Others
<1>2. Placed'
  BY <1>1
  DEF RequireAlgorithms, Check, Placed, Past, BeforeHandler, OfClaims,
      AfterSignature, ClaimErrors, AlgorithmsVerdict, First
<1>3. TokenChecked'
  BY <1>1
  DEF RequireAlgorithms, Check, TokenChecked, Past, AfterHeaders,
      AfterDetached, AfterKey, AfterAllowed, AfterSignature, ClaimErrors,
      AlgorithmsVerdict, First
<1>4. TimesChecked'
  BY <1>1
  DEF RequireAlgorithms, Check, TimesChecked, Through, Accepted,
      AfterAudience, AfterIat, AfterNbf, AfterExp, AlgorithmsVerdict, First
<1>5. QED
  BY <1>2, <1>3, <1>4 DEF Rest

(* The token.                                                               *)
LEMMA RestLoad ==
  ASSUME ContractInv, Load
  PROVE  Rest'
<1> USE TokenSettled, TimesSettled DEF ContractInv
<1>1. UNCHANGED <<tokenVars, handler, now>>
  BY DEF Load, Check, Others
<1>2. Placed'
  BY <1>1
  DEF Load, Check, Placed, Past, BeforeHandler, OfClaims, AfterSignature,
      ClaimErrors, First
<1>3. TokenChecked'
  BY <1>1
  DEF Load, Check, TokenChecked, Past, AfterHeaders, AfterDetached,
      AfterKey, AfterAllowed, AfterSignature, ClaimErrors, First
<1>4. TimesChecked'
  BY <1>1
  DEF Load, Check, TimesChecked, Through, Accepted, AfterAudience, AfterIat,
      AfterNbf, AfterExp, First
<1>5. QED
  BY <1>2, <1>3, <1>4 DEF Rest

(* The header.                                                              *)
LEMMA RestValidateHeaders ==
  ASSUME ContractInv, ValidateHeaders
  PROVE  Rest'
<1> USE TokenSettled, TimesSettled DEF ContractInv
<1>1. UNCHANGED <<tokenVars, handler, now>>
  BY DEF ValidateHeaders, Check, Others
<1>2. Placed'
  BY <1>1
  DEF ValidateHeaders, Check, Placed, Past, BeforeHandler, OfClaims,
      AfterSignature, ClaimErrors, HeaderVerdict, First, HeaderOK
<1>3. TokenChecked'
  BY <1>1
  DEF ValidateHeaders, Check, TokenChecked, Past, AfterHeaders,
      AfterDetached, AfterKey, AfterAllowed, AfterSignature, ClaimErrors,
      HeaderVerdict, First, HeaderOK
<1>4. TimesChecked'
  BY <1>1
  DEF ValidateHeaders, Check, TimesChecked, Through, Accepted,
      AfterAudience, AfterIat, AfterNbf, AfterExp, HeaderVerdict, First,
      HeaderOK
<1>5. QED
  BY <1>2, <1>3, <1>4 DEF Rest

(* The detached payload.                                                    *)
LEMMA RestAttachPayload ==
  ASSUME ContractInv, AttachPayload
  PROVE  Rest'
<1> USE TokenSettled, TimesSettled DEF ContractInv
<1>1. UNCHANGED <<tokenVars, handler, now>>
  BY DEF AttachPayload, Check, Others
<1>2. Placed'
  BY <1>1
  DEF AttachPayload, Check, Placed, Past, BeforeHandler, OfClaims,
      AfterSignature, ClaimErrors, DetachedVerdict, First, Contents,
      DetachedOK
<1>3. TokenChecked'
  BY <1>1
  DEF AttachPayload, Check, TokenChecked, Past, AfterHeaders, AfterDetached,
      AfterKey, AfterAllowed, AfterSignature, ClaimErrors, DetachedVerdict,
      First, Contents, DetachedOK
<1>4. TimesChecked'
  BY <1>1
  DEF AttachPayload, Check, TimesChecked, Through, Accepted, AfterAudience,
      AfterIat, AfterNbf, AfterExp, DetachedVerdict, First, Contents,
      DetachedOK
<1>5. QED
  BY <1>2, <1>3, <1>4 DEF Rest

(* The algorithm.                                                           *)
LEMMA RestAllowAlgorithm ==
  ASSUME ContractInv, AllowAlgorithm
  PROVE  Rest'
<1> USE TokenSettled, TimesSettled DEF ContractInv
<1>1. UNCHANGED <<tokenVars, handler, now>>
  BY DEF AllowAlgorithm, Check, Others
<1>2. Placed'
  BY <1>1
  DEF AllowAlgorithm, Check, Placed, Past, BeforeHandler, OfClaims,
      AfterSignature, ClaimErrors, AlgVerdict, First
<1>3. TokenChecked'
  BY <1>1
  DEF AllowAlgorithm, Check, TokenChecked, Past, AfterHeaders,
      AfterDetached, AfterKey, AfterAllowed, AfterSignature, ClaimErrors,
      AlgVerdict, First
<1>4. TimesChecked'
  BY <1>1
  DEF AllowAlgorithm, Check, TimesChecked, Through, Accepted, AfterAudience,
      AfterIat, AfterNbf, AfterExp, AlgVerdict, First
<1>5. QED
  BY <1>2, <1>3, <1>4 DEF Rest

(* The key.                                                                 *)
LEMMA RestPrepareKey ==
  ASSUME ContractInv, PrepareKey
  PROVE  Rest'
<1> USE TokenSettled, TimesSettled DEF ContractInv
<1>1. UNCHANGED <<tokenVars, handler, now>>
  BY DEF PrepareKey, Check, Others
<1>2. Placed'
  BY <1>1
  DEF PrepareKey, Check, Placed, Past, BeforeHandler, OfClaims,
      AfterSignature, ClaimErrors, KeyVerdict, First, KeyOK
<1>3. TokenChecked'
  BY <1>1
  DEF PrepareKey, Check, TokenChecked, Past, AfterHeaders, AfterDetached,
      AfterKey, AfterAllowed, AfterSignature, ClaimErrors, KeyVerdict,
      First, KeyOK
<1>4. TimesChecked'
  BY <1>1
  DEF PrepareKey, Check, TimesChecked, Through, Accepted, AfterAudience,
      AfterIat, AfterNbf, AfterExp, KeyVerdict, First, KeyOK
<1>5. QED
  BY <1>2, <1>3, <1>4 DEF Rest

(* The signature.                                                           *)
LEMMA RestVerifySignature ==
  ASSUME ContractInv, VerifySignature
  PROVE  Rest'
<1> USE TokenSettled, TimesSettled DEF ContractInv
<1>1. UNCHANGED <<tokenVars, handler, now>>
  BY DEF VerifySignature, Check, Others
<1>2. Placed'
  BY <1>1
  DEF VerifySignature, Check, Placed, Past, BeforeHandler, OfClaims,
      AfterSignature, ClaimErrors, SignatureVerdict, First, Contents
<1>3. TokenChecked'
  BY <1>1
  DEF VerifySignature, Check, TokenChecked, Past, AfterHeaders,
      AfterDetached, AfterKey, AfterAllowed, AfterSignature, ClaimErrors,
      SignatureVerdict, First, Contents
<1>4. TimesChecked'
  BY <1>1
  DEF VerifySignature, Check, TimesChecked, Through, Accepted,
      AfterAudience, AfterIat, AfterNbf, AfterExp, SignatureVerdict, First,
      Contents
<1>5. QED
  BY <1>2, <1>3, <1>4 DEF Rest

(* The payload.                                                             *)
LEMMA RestDecodePayload ==
  ASSUME ContractInv, DecodePayload
  PROVE  Rest'
<1> USE TokenSettled, TimesSettled DEF ContractInv
<1>1. UNCHANGED <<tokenVars, handler, now>>
  BY DEF DecodePayload, Check, Others
<1>2. Placed'
  BY <1>1
  DEF DecodePayload, Check, Placed, Past, BeforeHandler, OfClaims,
      AfterSignature, ClaimErrors, First
<1>3. TokenChecked'
  BY <1>1
  DEF DecodePayload, Check, TokenChecked, Past, AfterHeaders, AfterDetached,
      AfterKey, AfterAllowed, AfterSignature, ClaimErrors, First
<1>4. TimesChecked'
  BY <1>1
  DEF DecodePayload, Check, TimesChecked, Through, Accepted, AfterAudience,
      AfterIat, AfterNbf, AfterExp, First
<1>5. QED
  BY <1>2, <1>3, <1>4 DEF Rest

(* The expected audience.                                                   *)
LEMMA RestCheckAudience ==
  ASSUME ContractInv, CheckAudience
  PROVE  Rest'
<1> USE TokenSettled, TimesSettled DEF ContractInv
<1>1. UNCHANGED <<tokenVars, handler, now>>
  BY DEF CheckAudience, Check, Others
<1>2. Placed'
  BY <1>1
  DEF CheckAudience, Check, Placed, Past, BeforeHandler, OfClaims,
      AfterSignature, ClaimErrors, AudienceVerdict, First, AudienceOK
<1>3. TokenChecked'
  BY <1>1
  DEF CheckAudience, Check, TokenChecked, Past, AfterHeaders, AfterDetached,
      AfterKey, AfterAllowed, AfterSignature, ClaimErrors, AudienceVerdict,
      First, AudienceOK
<1>4. TimesChecked'
  BY <1>1
  DEF CheckAudience, Check, TimesChecked, Through, Accepted, AfterAudience,
      AfterIat, AfterNbf, AfterExp, AudienceVerdict, First, AudienceOK
<1>5. QED
  BY <1>2, <1>3, <1>4 DEF Rest

(* The required claims.                                                     *)
LEMMA RestRequireClaims ==
  ASSUME ContractInv, RequireClaims
  PROVE  Rest'
<1> USE TokenSettled, TimesSettled DEF ContractInv
<1>1. UNCHANGED <<tokenVars, handler, now>>
  BY DEF RequireClaims, Check, Others
<1>2. Placed'
  BY <1>1
  DEF RequireClaims, Check, Placed, Past, BeforeHandler, OfClaims,
      AfterSignature, ClaimErrors
<1>3. TokenChecked'
  BY <1>1
  DEF RequireClaims, Check, TokenChecked, Past, AfterHeaders, AfterDetached,
      AfterKey, AfterAllowed, AfterSignature, ClaimErrors
<1>4. TimesChecked'
  BY <1>1
  DEF RequireClaims, Check, TimesChecked, Through, Accepted, AfterAudience,
      AfterIat, AfterNbf, AfterExp
<1>5. QED
  BY <1>2, <1>3, <1>4 DEF Rest

(* Issued at.                                                               *)
LEMMA RestValidateIat ==
  ASSUME ContractInv, ValidateIat
  PROVE  Rest'
<1> USE TokenSettled, TimesSettled DEF ContractInv
<1>1. UNCHANGED <<tokenVars, handler, now>>
  BY DEF ValidateIat, Check, Others
<1>2. Placed'
  BY <1>1
  DEF ValidateIat, Check, Placed, Past, BeforeHandler, OfClaims,
      AfterSignature, ClaimErrors, Now, IatOK
<1>3. TokenChecked'
  BY <1>1
  DEF ValidateIat, Check, TokenChecked, Past, AfterHeaders, AfterDetached,
      AfterKey, AfterAllowed, AfterSignature, ClaimErrors, Now, IatOK
<1>4. TimesChecked'
  BY <1>1
  DEF ValidateIat, Check, TimesChecked, Through, Accepted, AfterAudience,
      AfterIat, AfterNbf, AfterExp, Now, IatOK
<1>5. QED
  BY <1>2, <1>3, <1>4 DEF Rest

(* Not before.                                                              *)
LEMMA RestValidateNbf ==
  ASSUME ContractInv, ValidateNbf
  PROVE  Rest'
<1> USE TokenSettled, TimesSettled DEF ContractInv
<1>1. UNCHANGED <<tokenVars, handler, now>>
  BY DEF ValidateNbf, Check, Others
<1>2. Placed'
  BY <1>1
  DEF ValidateNbf, Check, Placed, Past, BeforeHandler, OfClaims,
      AfterSignature, ClaimErrors, Now, NbfOK
<1>3. TokenChecked'
  BY <1>1
  DEF ValidateNbf, Check, TokenChecked, Past, AfterHeaders, AfterDetached,
      AfterKey, AfterAllowed, AfterSignature, ClaimErrors, Now, NbfOK
<1>4. TimesChecked'
  BY <1>1
  DEF ValidateNbf, Check, TimesChecked, Through, Accepted, AfterAudience,
      AfterIat, AfterNbf, AfterExp, Now, NbfOK
<1>5. QED
  BY <1>2, <1>3, <1>4 DEF Rest

(* Expiration.                                                              *)
LEMMA RestValidateExp ==
  ASSUME ContractInv, ValidateExp
  PROVE  Rest'
<1> USE TokenSettled, TimesSettled DEF ContractInv
<1>1. UNCHANGED <<tokenVars, handler, now>>
  BY DEF ValidateExp, Check, Others
<1>2. Placed'
  BY <1>1
  DEF ValidateExp, Check, Placed, Past, BeforeHandler, OfClaims,
      AfterSignature, ClaimErrors, Now, ExpOK
<1>3. TokenChecked'
  BY <1>1
  DEF ValidateExp, Check, TokenChecked, Past, AfterHeaders, AfterDetached,
      AfterKey, AfterAllowed, AfterSignature, ClaimErrors, Now, ExpOK
<1>4. TimesChecked'
  BY <1>1
  DEF ValidateExp, Check, TimesChecked, Through, Accepted, AfterAudience,
      AfterIat, AfterNbf, AfterExp, Now, ExpOK
<1>5. QED
  BY <1>2, <1>3, <1>4 DEF Rest

(* The issuer.                                                              *)
LEMMA RestValidateIss ==
  ASSUME ContractInv, ValidateIss
  PROVE  Rest'
<1> USE TokenSettled, TimesSettled DEF ContractInv
<1>1. UNCHANGED <<tokenVars, handler, now>>
  BY DEF ValidateIss, Check, Others
<1>2. Placed'
  BY <1>1
  DEF ValidateIss, Check, Placed, Past, BeforeHandler, OfClaims,
      AfterSignature, ClaimErrors
<1>3. TokenChecked'
  BY <1>1
  DEF ValidateIss, Check, TokenChecked, Past, AfterHeaders, AfterDetached,
      AfterKey, AfterAllowed, AfterSignature, ClaimErrors
<1>4. TimesChecked'
  BY <1>1
  DEF ValidateIss, Check, TimesChecked, Through, Accepted, AfterAudience,
      AfterIat, AfterNbf, AfterExp
<1>5. QED
  BY <1>2, <1>3, <1>4 DEF Rest

(* The audience.                                                            *)
LEMMA RestValidateAud ==
  ASSUME ContractInv, ValidateAud
  PROVE  Rest'
<1> USE TokenSettled, TimesSettled DEF ContractInv
<1>1. UNCHANGED <<tokenVars, handler, now>>
  BY DEF ValidateAud, Check, Others
<1>2. Placed'
  BY <1>1
  DEF ValidateAud, Check, Placed, Past, BeforeHandler, OfClaims,
      AfterSignature, ClaimErrors
<1>3. TokenChecked'
  BY <1>1
  DEF ValidateAud, Check, TokenChecked, Past, AfterHeaders, AfterDetached,
      AfterKey, AfterAllowed, AfterSignature, ClaimErrors
<1>4. TimesChecked'
  BY <1>1
  DEF ValidateAud, Check, TimesChecked, Through, Accepted, AfterAudience,
      AfterIat, AfterNbf, AfterExp
<1>5. QED
  BY <1>2, <1>3, <1>4 DEF Rest

(* The subject.                                                             *)
LEMMA RestValidateSub ==
  ASSUME ContractInv, ValidateSub
  PROVE  Rest'
<1> USE TokenSettled, TimesSettled DEF ContractInv
<1>1. UNCHANGED <<tokenVars, handler, now>>
  BY DEF ValidateSub, Check, Others
<1>2. Placed'
  BY <1>1
  DEF ValidateSub, Check, Placed, Past, BeforeHandler, OfClaims,
      AfterSignature, ClaimErrors
<1>3. TokenChecked'
  BY <1>1
  DEF ValidateSub, Check, TokenChecked, Past, AfterHeaders, AfterDetached,
      AfterKey, AfterAllowed, AfterSignature, ClaimErrors
<1>4. TimesChecked'
  BY <1>1
  DEF ValidateSub, Check, TimesChecked, Through, Accepted, AfterAudience,
      AfterIat, AfterNbf, AfterExp
<1>5. QED
  BY <1>2, <1>3, <1>4 DEF Rest

(* The JWT ID.                                                              *)
LEMMA RestValidateJti ==
  ASSUME ContractInv, ValidateJti
  PROVE  Rest'
<1> USE TokenSettled, TimesSettled DEF ContractInv
<1>1. UNCHANGED <<tokenVars, handler, now>>
  BY DEF ValidateJti, Check, Others
<1>2. Placed'
  BY <1>1
  DEF ValidateJti, Check, Placed, Past, BeforeHandler, OfClaims,
      AfterSignature, ClaimErrors
<1>3. TokenChecked'
  BY <1>1
  DEF ValidateJti, Check, TokenChecked, Past, AfterHeaders, AfterDetached,
      AfterKey, AfterAllowed, AfterSignature, ClaimErrors
<1>4. TimesChecked'
  BY <1>1
  DEF ValidateJti, Check, TimesChecked, Through, Accepted, AfterAudience,
      AfterIat, AfterNbf, AfterExp
<1>5. QED
  BY <1>2, <1>3, <1>4 DEF Rest

-----------------------------------------------------------------------------
(* Every behaviour satisfies the invariant.                                 *)

LEMMA NextRest == ContractInv /\ [Next]_vars => Rest'
<1> SUFFICES ASSUME ContractInv, [Next]_vars PROVE Rest'
  OBVIOUS
<1>1. CASE Issue \/ Damage \/ Decode
  BY <1>1, RestBefore
<1>2. CASE OfJws
  BY <1>2, RestRequireAlgorithms, RestLoad, RestValidateHeaders,
     RestAttachPayload, RestAllowAlgorithm, RestHandler, RestPrepareKey,
     RestVerifySignature DEF OfJws
<1>3. CASE Return
  BY <1>3, RestElsewhere DEF Return, Others
<1>4. CASE OfJwt /\ ~Return
  BY <1>4, RestDecodePayload, RestCheckAudience, RestRequireClaims,
     RestReadClock, RestValidateIat, RestValidateNbf, RestValidateExp,
     RestValidateIss, RestValidateAud, RestValidateSub, RestValidateJti
  DEF OfJwt
<1>5. CASE SetClock \/ OtherThreads \/ UNCHANGED vars
  BY <1>5, RestElsewhere DEF SetClock, OtherThreads, vars, decodeVars
<1>6. QED
  BY <1>1, <1>2, <1>3, <1>4, <1>5 DEF Next

(* Only other threads change the dictionary, and only as the registry says. *)
LEMMA RegistrySteps == [Next]_vars => [RegistryNext]_registryVars
BY DEF Next, vars, Issue, Damage, Decode, OfJws, OfJwt, SetClock, OtherThreads,
   Others, Check, RequireAlgorithms, Load, ValidateHeaders, AttachPayload,
   AllowAlgorithm, UseHandlerOfJwk, FindHandler, PrepareKey, VerifySignature,
   DecodePayload, CheckAudience, RequireClaims, ReadClock, ValidateIat,
   ValidateNbf, ValidateExp, ValidateIss, ValidateAud, ValidateSub,
   ValidateJti, Return

LEMMA CallSettled ==
  ASSUME [Next]_vars, pc \notin {"issue", "sent", "refused"}
  PROVE  call' = call
BY DEF Next, vars, Issue, Damage, Decode, OfJws, OfJwt, SetClock, OtherThreads,
   Others, Check, RequireAlgorithms, Load, ValidateHeaders, AttachPayload,
   AllowAlgorithm, UseHandlerOfJwk, FindHandler, PrepareKey, VerifySignature,
   DecodePayload, CheckAudience, RequireClaims, ReadClock, ValidateIat,
   ValidateNbf, ValidateExp, ValidateIss, ValidateAud, ValidateSub,
   ValidateJti, Return, tokenVars, decodeVars

LEMMA CallBegins ==
  ASSUME [Next]_vars, pc \in {"issue", "sent", "refused"}
  PROVE  pc' \in {"issue", "sent", "refused"} \/ call' \in Calls
BY DEF Next, vars, Issue, Damage, Decode, OfJws, OfJwt, SetClock, OtherThreads,
   Check, RequireAlgorithms, Load, ValidateHeaders, AttachPayload,
   AllowAlgorithm, UseHandlerOfJwk, FindHandler, PrepareKey, VerifySignature,
   DecodePayload, CheckAudience, RequireClaims, ReadClock, ValidateIat,
   ValidateNbf, ValidateExp, ValidateIss, ValidateAud, ValidateSub,
   ValidateJti, Return, decodeVars

LEMMA NextWorld == WorldInv /\ [Next]_vars => WorldInv'
<1> SUFFICES ASSUME WorldInv, [Next]_vars PROVE WorldInv'
  OBVIOUS
<1>1. IInv'
  BY RegistrySteps, NextIInv DEF WorldInv
<1>2. CASE pc \in {"issue", "sent", "refused"}
  BY <1>1, <1>2, CallBegins DEF WorldInv
<1>3. CASE pc \notin {"issue", "sent", "refused"}
  BY <1>1, <1>3, CallSettled DEF WorldInv
<1>4. QED
  BY <1>2, <1>3

THEOREM ContractInvariance == Spec => []ContractInv
<1>1. Init => ContractInv
  <2>1. Init => IInv /\ pc = "issue"
    BY InitIInv DEF Init
  <2>2. QED
    BY <2>1, InitDecodeInv, InitRest DEF ContractInv, WorldInv, Rest
<1>2. ContractInv /\ [Next]_vars => ContractInv'
  BY NextDecodeInv, NextWorld, NextRest DEF ContractInv, Rest
<1>3. QED
  BY <1>1, <1>2, PTL DEF Spec

-----------------------------------------------------------------------------
(* The contract's terms are those of the code.                              *)

LEMMA SameCall ==
  /\ Contract!Verifying = Verifying
  /\ Contract!Options = Options
  /\ Contract!Body = Body
<1>1. Contract!Verifying = Verifying
  BY DEF Contract!Verifying, Verifying, Contract!VerifyOfJwt, VerifyOfJwt,
     Contract!VerifyOfJws, VerifyOfJws, Contract!Wanted, Wanted,
     Contract!Gives, Gives, Contract!Over, Over
<1>2. Contract!Options = Options
  BY DEF Contract!Options, Options, Contract!MergeOptions, MergeOptions,
     Contract!Wanted, Wanted, Contract!Gives, Gives, Contract!Over, Over,
     Contract!UnverifiedDefaults, UnverifiedDefaults, Contract!VerifyFlags,
     VerifyFlags
<1>3. Contract!Body = Body
  BY DEF Contract!Body, Body, Contract!BodyOf, BodyOf
<1>4. QED
  BY <1>1, <1>2, <1>3

LEMMA SameTokenVerdicts ==
  /\ \A v : Contract!AlgorithmsVerdict(v, call.algorithms, call.key)
             = AlgorithmsVerdict(v, call.algorithms, call.key)
  /\ Contract!HeaderVerdict(token.header) = HeaderVerdict(token.header)
  /\ Contract!DetachedVerdict(token.header, call.detached)
        = DetachedVerdict(token.header, call.detached)
  /\ Contract!AlgVerdict(token.header, call.algorithms, call.key)
        = AlgVerdict(token.header, call.algorithms, call.key)
  /\ Contract!KeyVerdict(own, handler, call.key)
        = KeyVerdict(own, handler, call.key)
  /\ Contract!IsJwk(call.key) = IsJwk(call.key)
BY DEF Contract!AlgorithmsVerdict, AlgorithmsVerdict, Contract!HeaderVerdict,
   HeaderVerdict, Contract!KidAllowed, KidAllowed, Contract!CritAllowed,
   CritAllowed, Contract!DetachedVerdict, DetachedVerdict,
   Contract!AlgVerdict, AlgVerdict, Contract!KeyVerdict, KeyVerdict,
   Contract!IsJwk, IsJwk, Contract!First, First

LEMMA SameSignatureVerdict ==
  Contract!First(Contract!Verifies(handler, call.key, token.header,
                                   Contract!Body, token.signature),
                 "ok", "InvalidSignatureError") = SignatureVerdict
BY SameCall DEF SignatureVerdict, Contract!Verifies, Verifies,
   Contract!Signed, Signed, Contract!NoSignature, NoSignature,
   Contract!First, First

LEMMA SameShapeVerdicts ==
  /\ Contract!First(Body.form = "object", "ok", "DecodeError")
        = First(Body.form = "object", "ok", "DecodeError")
  /\ Contract!AudienceVerdict(call.audience) = AudienceVerdict(call.audience)
BY DEF Contract!First, First, Contract!AudienceVerdict, AudienceVerdict

LEMMA SameTimeVerdicts ==
  /\ Contract!IfPresent("verify_iat", Body.iat,
             Contract!IatVerdict(Body.iat, now, call.leeway))
        = IfPresent("verify_iat", Body.iat,
                    IatVerdict(Body.iat, now, call.leeway))
  /\ Contract!IfPresent("verify_nbf", Body.nbf,
             Contract!NbfVerdict(Body.nbf, now, call.leeway))
        = IfPresent("verify_nbf", Body.nbf,
                    NbfVerdict(Body.nbf, now, call.leeway))
  /\ Contract!IfPresent("verify_exp", Body.exp,
             Contract!ExpVerdict(Body.exp, now, call.leeway))
        = IfPresent("verify_exp", Body.exp,
                    ExpVerdict(Body.exp, now, call.leeway))
BY SameCall DEF Contract!IfPresent, IfPresent, Contract!Present, Present,
   Contract!Absent, Absent, Contract!IatVerdict, IatVerdict,
   Contract!NbfVerdict, NbfVerdict, Contract!ExpVerdict, ExpVerdict,
   Contract!NotYet, NotYet, Contract!Coerced, Coerced, Contract!Whole, Whole,
   Contract!First, First

LEMMA SamePartyVerdicts ==
  /\ Contract!RequireVerdict(Body, Options.require)
        = RequireVerdict(Body, Options.require)
  /\ Contract!IfOn("verify_iss", Contract!IssVerdict(Body.iss, call.issuer))
        = IfOn("verify_iss", IssVerdict(Body.iss, call.issuer))
  /\ Contract!IfOn("verify_aud",
             Contract!AudVerdict(Body.aud, call.audience, Options.strict_aud))
        = IfOn("verify_aud",
               AudVerdict(Body.aud, call.audience, Options.strict_aud))
  /\ Contract!IfOn("verify_sub", Contract!SubVerdict(Body.sub, call.subject))
        = IfOn("verify_sub", SubVerdict(Body.sub, call.subject))
  /\ Contract!IfOn("verify_jti", Contract!JtiVerdict(Body.jti))
        = IfOn("verify_jti", JtiVerdict(Body.jti))
<1> USE SameCall DEF Contract!IfOn, IfOn, Contract!First, First,
       Contract!Present, Present, Contract!Absent, Absent
<1>1. Contract!RequireVerdict(Body, Options.require)
        = RequireVerdict(Body, Options.require)
  BY DEF Contract!RequireVerdict, RequireVerdict
<1>2. Contract!IssVerdict(Body.iss, call.issuer)
        = IssVerdict(Body.iss, call.issuer)
  BY DEF Contract!IssVerdict, IssVerdict
<1>3. Contract!AudVerdict(Body.aud, call.audience, Options.strict_aud)
        = AudVerdict(Body.aud, call.audience, Options.strict_aud)
  BY DEF Contract!AudVerdict, AudVerdict, Contract!Falsy, Falsy,
     Contract!StrictMatch, StrictMatch, Contract!AnyMatch, AnyMatch
<1>4. Contract!SubVerdict(Body.sub, call.subject)
        = SubVerdict(Body.sub, call.subject)
  BY DEF Contract!SubVerdict, SubVerdict
<1>5. Contract!JtiVerdict(Body.jti) = JtiVerdict(Body.jti)
  BY DEF Contract!JtiVerdict, JtiVerdict
<1>6. QED
  BY <1>1, <1>2, <1>3, <1>4, <1>5

-----------------------------------------------------------------------------
(* Refusals.                                                                *)

AskedLabels == {"algorithms", "load", "headers", "detached", "allowed",
                "lookup", "key"} \cup AfterSignature

(* A check that passes is not seen; one that fails gives the answer.        *)
LEMMA CheckRefines ==
  ASSUME ContractInv, NEW label \in AskedLabels \cup {"signature"},
         NEW next \in AskedLabels \cup {"signature"},
         NEW verdict, Check(label, verdict, next),
         verdict # "ok" => Contract!Justified(verdict)
  PROVE  [Contract!Next]_Contract!vars
<1>1. /\ pc = label /\ PhaseOf = "asked"
      /\ UNCHANGED <<algorithms, own, token, call, handler, now, clock>>
  BY DEF Check, Others, tokenVars, registryVars, PhaseOf, AskedLabels,
     AfterSignature
<1>2. CASE verdict = "ok"
  <2>1. pc' = next /\ PhaseOf' = "asked" /\ pc # "done" /\ pc' # "done"
    BY <1>1, <1>2 DEF Check, PhaseOf, AskedLabels, AfterSignature
  <2>2. QED
    BY <1>1, <2>1 DEF Contract!vars, Contract!asked
<1>3. CASE verdict # "ok"
  <2>1. pc' = "done" /\ PhaseOf' = "answered" /\ outcome' = verdict
    BY <1>1, <1>3 DEF Check, PhaseOf
  <2>2. Contract!Answer
    BY <1>1, <1>3, <2>1 DEF Contract!Answer, Contract!asked
  <2>3. QED
    BY <2>2 DEF Contract!Next
<1>4. QED
  BY <1>2, <1>3

LEMMA TokenRefusal ==
  ASSUME NEW verdict \in Contract!TokenVerdicts,
         verdict \notin {"ok", "unread"}
  PROVE  Contract!Justified(verdict)
BY DEF Contract!Justified

(* What verification says, it says only if it is on.                        *)
LEMMA SignatureRefusal ==
  ASSUME token # Garbage, Verifying,
         NEW verdict \in {AlgVerdict(token.header, call.algorithms, call.key)}
                         \cup Contract!HandlerVerdicts,
         verdict \notin {"ok", "unread"}
  PROVE  Contract!Justified(verdict)
<1>1. verdict \in Contract!SignatureVerdicts
  BY SameCall, SameTokenVerdicts DEF Contract!SignatureVerdicts
<1>2. verdict \in Contract!TokenVerdicts
  BY <1>1 DEF Contract!TokenVerdicts, Contract!HeaderVerdicts
<1>3. QED
  BY <1>2, TokenRefusal

(* Past the signature there is nothing to say against the token.            *)
LEMMA TokenFine ==
  ASSUME ContractInv, pc \in AfterSignature
  PROVE  Contract!TokenVerdicts = {"ok"}
<1>1. AlgorithmsGiven /\ token # Garbage /\ HeaderOK /\ DetachedOK
  BY DEF ContractInv, DecodeInv, HeaderChecked, TokenChecked, Past,
     AfterAlgorithms, AfterLoad, AfterHeaders, AfterDetached, AfterAllowed
<1>2. Verifying => AlgorithmAllowed /\ KeyOK /\ SignatureVerified
                   /\ handler # None
  BY DEF ContractInv, DecodeInv, HeaderChecked, TokenChecked, Past,
     AfterAllowed, AfterKey, SignatureChecked, Placed
<1>3. Contract!AlgorithmsVerdict(Contract!Verifying, call.algorithms, call.key)
        = "ok"
  BY <1>1, SameCall, SameTokenVerdicts DEF AlgorithmsGiven
<1>4. Contract!SignatureVerdicts \subseteq {"ok"}
  <2>1. CASE Verifying
    <3>1. Contract!HandlerVerdicts = {"ok"}
      BY <1>2, <2>1, SameTokenVerdicts, SameSignatureVerdict
      DEF Contract!HandlerVerdicts, KeyOK, SignatureVerified
    <3>2. QED
      BY <1>2, <2>1, <3>1, SameCall, SameTokenVerdicts
      DEF Contract!SignatureVerdicts, AlgorithmAllowed
  <2>2. CASE ~Verifying
    BY <2>2, SameCall DEF Contract!SignatureVerdicts
  <2>3. QED
    BY <2>1, <2>2
<1>5. Contract!HeaderVerdicts = {"ok"}
  BY <1>1, <1>4, SameTokenVerdicts
  DEF Contract!HeaderVerdicts, HeaderOK, DetachedOK
<1>6. QED
  BY <1>3, <1>5 DEF Contract!TokenVerdicts

LEMMA ShapeRefusal ==
  ASSUME ContractInv, pc \in OfClaims,
         NEW verdict \in Contract!ShapeVerdicts, verdict # "ok"
  PROVE  Contract!Justified(verdict)
<1>1. call.api = "jwt" /\ Contract!TokenVerdicts = {"ok"}
  BY TokenFine DEF ContractInv, Placed, OfClaims, AfterSignature
<1>2. Contract!ShapeVerdicts # {"ok"}
  OBVIOUS
<1>3. verdict \in Contract!ClaimVerdicts
  BY <1>1, <1>2 DEF Contract!ClaimVerdicts
<1>4. QED
  BY <1>1, <1>3 DEF Contract!Justified, Contract!Fine

LEMMA ShapeFine ==
  ASSUME ContractInv, pc \in AfterAudience, call.api = "jwt"
  PROVE  Contract!ShapeVerdicts = {"ok"}
<1>1. IsObject /\ AudienceOK
  BY DEF ContractInv, DecodeInv, ClaimsChecked, TimesChecked, Through,
     AfterAudience, AfterPayload, AfterSignature
<1>2. QED
  BY <1>1, SameCall, SameShapeVerdicts
  DEF Contract!ShapeVerdicts, IsObject, AudienceOK, First

LEMMA ClaimRefusal ==
  ASSUME ContractInv, pc \in OfClaims \cap AfterAudience,
         NEW verdict \in Contract!RegisteredVerdicts, verdict # "ok"
  PROVE  Contract!Justified(verdict)
<1>1. call.api = "jwt" /\ Contract!TokenVerdicts = {"ok"}
  BY TokenFine DEF ContractInv, Placed, OfClaims, AfterSignature
<1>2. verdict \in Contract!ClaimVerdicts
  BY <1>1, ShapeFine DEF Contract!ClaimVerdicts
<1>3. QED
  BY <1>1, <1>2 DEF Contract!Justified, Contract!Fine

(* The verdicts on claims are the contract's.                               *)
LEMMA SameRegisteredVerdicts ==
  Contract!RegisteredVerdicts =
    {RequireVerdict(Body, Options.require),
     IfPresent("verify_iat", Body.iat, IatVerdict(Body.iat, now, call.leeway)),
     IfPresent("verify_nbf", Body.nbf, NbfVerdict(Body.nbf, now, call.leeway)),
     IfPresent("verify_exp", Body.exp, ExpVerdict(Body.exp, now, call.leeway)),
     IfOn("verify_iss", IssVerdict(Body.iss, call.issuer)),
     IfOn("verify_aud",
          AudVerdict(Body.aud, call.audience, Options.strict_aud)),
     IfOn("verify_sub", SubVerdict(Body.sub, call.subject)),
     IfOn("verify_jti", JtiVerdict(Body.jti))}
BY SameCall, SameTimeVerdicts, SamePartyVerdicts
DEF Contract!RegisteredVerdicts

-----------------------------------------------------------------------------
(* The checks, one by one.                                                  *)

LEMMA RefinesRequireAlgorithms ==
  ASSUME ContractInv, RequireAlgorithms
  PROVE  [Contract!Next]_Contract!vars
<1> DEFINE verdict == AlgorithmsVerdict(Verifying, call.algorithms, call.key)
<1>1. pc = "algorithms" /\ Check("algorithms", verdict,
                 "load")
  BY DEF RequireAlgorithms, Check
<1>2. verdict # "ok" => Contract!Justified(verdict)
  BY TokenRefusal, SameCall, SameTokenVerdicts
  DEF Contract!TokenVerdicts, AlgorithmsVerdict, First
<1>3. QED
  BY <1>1, <1>2, CheckRefines DEF AskedLabels, AfterSignature

LEMMA RefinesLoad ==
  ASSUME ContractInv, Load
  PROVE  [Contract!Next]_Contract!vars
<1> DEFINE verdict == First(token = Garbage, "DecodeError", "ok")
<1>1. pc = "load" /\ Check("load", verdict,
                 "headers")
  BY DEF Load, Check
<1>2. verdict # "ok" => Contract!Justified(verdict)
  BY TokenRefusal DEF Contract!TokenVerdicts, Contract!HeaderVerdicts, First
<1>3. QED
  BY <1>1, <1>2, CheckRefines DEF AskedLabels, AfterSignature

LEMMA RefinesValidateHeaders ==
  ASSUME ContractInv, ValidateHeaders
  PROVE  [Contract!Next]_Contract!vars
<1> DEFINE verdict == HeaderVerdict(token.header)
<1>1. pc = "headers" /\ Check("headers", verdict,
                 "detached")
  BY DEF ValidateHeaders, Check
<1>a. token # Garbage
  BY <1>1 DEF ContractInv, DecodeInv, HeaderChecked, Past, AfterLoad
<1>b. verdict \in Contract!TokenVerdicts
  BY <1>a, SameTokenVerdicts DEF Contract!TokenVerdicts, Contract!HeaderVerdicts
<1>2. verdict # "ok" => Contract!Justified(verdict)
  BY <1>b, TokenRefusal DEF HeaderVerdict, First
<1>3. QED
  BY <1>1, <1>2, CheckRefines DEF AskedLabels, AfterSignature

LEMMA RefinesAttachPayload ==
  ASSUME ContractInv, AttachPayload
  PROVE  [Contract!Next]_Contract!vars
<1> DEFINE verdict == DetachedVerdict(token.header, call.detached)
<1>1. pc = "detached" /\ Check("detached", verdict,
                 IF Verifying THEN "allowed" ELSE Contents)
  BY DEF AttachPayload, Check
<1>a. token # Garbage
  BY <1>1 DEF ContractInv, DecodeInv, HeaderChecked, Past, AfterLoad
<1>b. verdict \in Contract!TokenVerdicts
  BY <1>a, SameTokenVerdicts DEF Contract!TokenVerdicts, Contract!HeaderVerdicts
<1>2. verdict # "ok" => Contract!Justified(verdict)
  BY <1>b, TokenRefusal DEF DetachedVerdict, First
<1>3. QED
  BY <1>1, <1>2, CheckRefines DEF AskedLabels, AfterSignature, Contents

LEMMA RefinesAllowAlgorithm ==
  ASSUME ContractInv, AllowAlgorithm
  PROVE  [Contract!Next]_Contract!vars
<1> DEFINE verdict == AlgVerdict(token.header, call.algorithms, call.key)
<1>1. pc = "allowed" /\ Check("allowed", verdict,
                 "lookup")
  BY DEF AllowAlgorithm, Check
<1>a. token # Garbage /\ Verifying
  BY <1>1 DEF ContractInv, DecodeInv, HeaderChecked, Past, AfterLoad,
     AfterAllowed, Placed
<1>2. verdict # "ok" => Contract!Justified(verdict)
  BY <1>a, SignatureRefusal DEF AlgVerdict, First
<1>3. QED
  BY <1>1, <1>2, CheckRefines DEF AskedLabels, AfterSignature

LEMMA RefinesPrepareKey ==
  ASSUME ContractInv, PrepareKey
  PROVE  [Contract!Next]_Contract!vars
<1> DEFINE verdict == KeyVerdict(own, handler, call.key)
<1>1. pc = "key" /\ Check("key", verdict,
                 "signature")
  BY DEF PrepareKey, Check
<1>a. token # Garbage /\ Verifying
  BY <1>1 DEF ContractInv, DecodeInv, HeaderChecked, Past, AfterLoad,
     AfterAllowed, Placed
<1>b. handler # None
  BY <1>1 DEF ContractInv, Placed
<1>c. verdict \in Contract!HandlerVerdicts
  BY <1>b, SameTokenVerdicts, SameSignatureVerdict DEF Contract!HandlerVerdicts
<1>2. verdict # "ok" => Contract!Justified(verdict)
  BY <1>a, <1>c, SignatureRefusal DEF KeyVerdict, First
<1>3. QED
  BY <1>1, <1>2, CheckRefines DEF AskedLabels, AfterSignature

LEMMA RefinesVerifySignature ==
  ASSUME ContractInv, VerifySignature
  PROVE  [Contract!Next]_Contract!vars
<1> DEFINE verdict == SignatureVerdict
<1>1. pc = "signature" /\ Check("signature", verdict,
                 Contents)
  BY DEF VerifySignature, Check
<1>a. token # Garbage /\ Verifying
  BY <1>1 DEF ContractInv, DecodeInv, HeaderChecked, Past, AfterLoad,
     AfterAllowed, Placed
<1>b. handler # None
  BY <1>1 DEF ContractInv, Placed
<1>c. verdict \in Contract!HandlerVerdicts
  BY <1>b, SameTokenVerdicts, SameSignatureVerdict DEF Contract!HandlerVerdicts
<1>2. verdict # "ok" => Contract!Justified(verdict)
  BY <1>a, <1>c, SignatureRefusal DEF SignatureVerdict, First
<1>3. QED
  BY <1>1, <1>2, CheckRefines DEF AskedLabels, AfterSignature, Contents

LEMMA RefinesDecodePayload ==
  ASSUME ContractInv, DecodePayload
  PROVE  [Contract!Next]_Contract!vars
<1> DEFINE verdict == First(Body.form = "object", "ok", "DecodeError")
<1>1. pc = "payload" /\ Check("payload", verdict,
                 "audience")
  BY DEF DecodePayload, Check
<1>b. verdict \in Contract!ShapeVerdicts
  BY SameCall, SameShapeVerdicts DEF Contract!ShapeVerdicts
<1>2. verdict # "ok" => Contract!Justified(verdict)
  BY <1>1, <1>b, ShapeRefusal DEF OfClaims
<1>3. QED
  BY <1>1, <1>2, CheckRefines DEF AskedLabels, AfterSignature

LEMMA RefinesCheckAudience ==
  ASSUME ContractInv, CheckAudience
  PROVE  [Contract!Next]_Contract!vars
<1> DEFINE verdict == AudienceVerdict(call.audience)
<1>1. pc = "audience" /\ Check("audience", verdict,
                 "require")
  BY DEF CheckAudience, Check
<1>b. verdict \in Contract!ShapeVerdicts
  BY SameCall, SameShapeVerdicts DEF Contract!ShapeVerdicts
<1>2. verdict # "ok" => Contract!Justified(verdict)
  BY <1>1, <1>b, ShapeRefusal DEF OfClaims
<1>3. QED
  BY <1>1, <1>2, CheckRefines DEF AskedLabels, AfterSignature

(* The registered claims have one argument: their verdict is among those of *)
(* the contract.                                                            *)
LEMMA RefinesRegistered ==
  ASSUME ContractInv, NEW label \in OfClaims \cap AfterAudience,
         NEW next \in AskedLabels, NEW verdict \in Contract!RegisteredVerdicts,
         Check(label, verdict, next)
  PROVE  [Contract!Next]_Contract!vars
<1>1. pc = label /\ label \in AskedLabels
  BY DEF Check, AskedLabels, OfClaims, AfterSignature
<1>2. verdict # "ok" => Contract!Justified(verdict)
  BY <1>1, ClaimRefusal
<1>3. QED
  BY <1>1, <1>2, CheckRefines

LEMMA RefinesClaims ==
  ASSUME ContractInv,
         \/ RequireClaims \/ ValidateIat \/ ValidateNbf \/ ValidateExp
         \/ ValidateIss \/ ValidateAud \/ ValidateSub \/ ValidateJti
  PROVE  [Contract!Next]_Contract!vars
<1> USE SameRegisteredVerdicts, RefinesRegistered
<1> USE DEF OfClaims, AfterAudience, AskedLabels, AfterSignature, Now
<1>1. CASE RequireClaims
  BY <1>1 DEF RequireClaims
<1>2. CASE ValidateIat
  BY <1>2 DEF ValidateIat
<1>3. CASE ValidateNbf
  BY <1>3 DEF ValidateNbf
<1>4. CASE ValidateExp
  BY <1>4 DEF ValidateExp
<1>5. CASE ValidateIss
  BY <1>5 DEF ValidateIss
<1>6. CASE ValidateAud
  BY <1>6 DEF ValidateAud
<1>7. CASE ValidateSub
  BY <1>7 DEF ValidateSub
<1>8. CASE ValidateJti
  BY <1>8 DEF ValidateJti
<1>9. QED
  BY <1>1, <1>2, <1>3, <1>4, <1>5, <1>6, <1>7, <1>8

-----------------------------------------------------------------------------
(* The steps that check nothing.                                            *)

LEMMA RefinesBefore ==
  ASSUME ContractInv, Issue \/ Damage \/ Decode
  PROVE  [Contract!Next]_Contract!vars
<1>1. CASE Issue \/ Damage
  <2>1. /\ pc \in {"issue", "sent"} /\ pc' \in {"sent", "refused"}
        /\ UNCHANGED <<registryVars, own, call, handler, now, clock>>
    BY <1>1 DEF Issue, Damage
  <2>2. Contract!Travel
    BY <2>1 DEF Contract!Travel, PhaseOf, registryVars
  <2>3. QED
    BY <2>2 DEF Contract!Next
<1>2. CASE Decode
  <2>1. Contract!Ask
    BY <1>2 DEF Decode, Contract!Ask, PhaseOf, registryVars
  <2>2. QED
    BY <2>1 DEF Contract!Next
<1>3. QED
  BY <1>1, <1>2

LEMMA RefinesHandler ==
  ASSUME ContractInv, UseHandlerOfJwk \/ FindHandler
  PROVE  [Contract!Next]_Contract!vars
<1>1. /\ pc = "lookup" /\ handler = None /\ Verifying /\ token # Garbage
      /\ UNCHANGED <<algorithms, own, token, call, now, clock>>
  BY DEF UseHandlerOfJwk, FindHandler, Others, tokenVars, registryVars,
     ContractInv, Placed, BeforeHandler, DecodeInv, HeaderChecked, Past,
     AfterLoad, AfterAllowed
<1>2. CASE pc' = "key"
  <2>1. Contract!LookUp
    BY <1>1, <1>2, SameTokenVerdicts
    DEF UseHandlerOfJwk, FindHandler, Contract!LookUp, Contract!asked, PhaseOf
  <2>2. QED
    BY <2>1 DEF Contract!Next
<1>3. CASE pc' # "key"
  <2>1. /\ ~IsJwk(call.key) /\ token.header.alg \notin DOMAIN algorithms
        /\ pc' = "done" /\ outcome' = "InvalidAlgorithmError"
        /\ UNCHANGED handler
    BY <1>3 DEF UseHandlerOfJwk, FindHandler
  <2>2. "InvalidAlgorithmError" \in Contract!HandlerVerdicts
    BY <1>1, <2>1, SameTokenVerdicts DEF Contract!HandlerVerdicts
  <2>3. Contract!Justified("InvalidAlgorithmError")
    BY <1>1, <2>2, SignatureRefusal
  <2>4. Contract!Answer
    BY <1>1, <2>1, <2>3 DEF Contract!Answer, Contract!asked, PhaseOf
  <2>5. QED
    BY <2>4 DEF Contract!Next
<1>4. QED
  BY <1>2, <1>3

LEMMA RefinesReadClock ==
  ASSUME ReadClock
  PROVE  [Contract!Next]_Contract!vars
<1>1. Contract!ReadClock
  BY DEF ReadClock, Others, tokenVars, registryVars, Contract!ReadClock,
     Contract!asked, PhaseOf
<1>2. QED
  BY <1>1 DEF Contract!Next

(* Nothing is to be said against what is returned.                          *)
LEMMA ReturnedFine ==
  ASSUME ContractInv, pc = "return"
  PROVE  Contract!Justified("ok")
<1>1. Contract!TokenVerdicts = {"ok"}
  BY TokenFine DEF AfterSignature
<1>2. Contract!ClaimVerdicts = {"ok"}
  <2>1. CASE call.api # "jwt"
    BY <2>1 DEF Contract!ClaimVerdicts
  <2>2. CASE call.api = "jwt"
    <3>1. Contract!ShapeVerdicts = {"ok"}
      BY <2>2, ShapeFine DEF AfterAudience
    <3>2. Required /\ IssOK /\ AudOK /\ SubOK /\ JtiOK
      BY <2>2 DEF ContractInv, DecodeInv, ClaimsChecked, Through,
         AfterRequire, AfterPayload, AfterSignature, AfterIss, AfterAud,
         AfterSub, AfterJti
    <3>3. IatOK /\ NbfOK /\ ExpOK
      BY <2>2 DEF ContractInv, TimesChecked, Through, AfterIat, AfterNbf,
         AfterExp
    <3>4. Contract!RegisteredVerdicts = {"ok"}
      BY <3>2, <3>3, SameRegisteredVerdicts
      DEF Required, IssOK, AudOK, SubOK, JtiOK, IatOK, NbfOK, ExpOK
    <3>5. QED
      BY <2>2, <3>1, <3>4 DEF Contract!ClaimVerdicts
  <2>3. QED
    BY <2>1, <2>2
<1>3. QED
  BY <1>1, <1>2 DEF Contract!Justified, Contract!Fine

LEMMA RefinesReturn ==
  ASSUME ContractInv, Return
  PROVE  [Contract!Next]_Contract!vars
<1>1. Contract!Answer
  BY ReturnedFine DEF Return, Others, tokenVars, registryVars,
     Contract!Answer, Contract!asked, PhaseOf
<1>2. QED
  BY <1>1 DEF Contract!Next

LEMMA RefinesElsewhere ==
  ASSUME SetClock \/ OtherThreads \/ UNCHANGED vars
  PROVE  [Contract!Next]_Contract!vars
<1>1. UNCHANGED decodeVars
  BY DEF SetClock, OtherThreads, vars
<1>2. Contract!World
  BY <1>1 DEF decodeVars, tokenVars, Contract!World, Contract!asked, PhaseOf
<1>3. QED
  BY <1>2 DEF Contract!Next

-----------------------------------------------------------------------------
(* decode_complete answers as one step would that looks at everything, at   *)
(* one handler and one reading of the clock.                                *)
THEOREM ContractImplemented == Spec => ImplementsContract
<1>1. Init => Contract!Init
  BY DEF Init, Contract!Init, PhaseOf
<1>2. ContractInv /\ [Next]_vars => [Contract!Next]_Contract!vars
  <2> SUFFICES ASSUME ContractInv, [Next]_vars
               PROVE  [Contract!Next]_Contract!vars
    OBVIOUS
  <2>1. CASE Issue \/ Damage \/ Decode
    BY <2>1, RefinesBefore
  <2>2. CASE OfJws
    BY <2>2, RefinesRequireAlgorithms, RefinesLoad, RefinesValidateHeaders,
       RefinesAttachPayload, RefinesAllowAlgorithm, RefinesHandler,
       RefinesPrepareKey, RefinesVerifySignature DEF OfJws
  <2>3. CASE OfJwt
    BY <2>3, RefinesDecodePayload, RefinesCheckAudience, RefinesClaims,
       RefinesReadClock, RefinesReturn DEF OfJwt
  <2>4. CASE SetClock \/ OtherThreads \/ UNCHANGED vars
    BY <2>4, RefinesElsewhere
  <2>5. QED
    BY <2>1, <2>2, <2>3, <2>4 DEF Next
<1>3. QED
  BY <1>1, <1>2, ContractInvariance, PTL
  DEF Spec, ImplementsContract, Contract!Spec
=============================================================================
