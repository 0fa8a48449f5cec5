------------------------------ MODULE JWTClaims ------------------------------
(***************************************************************************)
(* The checks of PyJWT._validate_claims (jwt/api_jwt.py), one operator per  *)
(* registered claim.  Each yields "ok" or the class of the exception the    *)
(* check raises.                                                            *)
(*                                                                         *)
(* Time is counted in half seconds, so that a claim or the clock may hold   *)
(* a fraction of a second.  A claim's value is known by its sort:           *)
(*   absent     no such key in the payload                                  *)
(*   null       None, for a time claim also any list, object: int() raises  *)
(*              TypeError                                                   *)
(*   number     a number, or for a time claim a string of digits            *)
(*   infinite   Infinity, which json.loads accepts: int() overflows         *)
(*   word       a string int() cannot read, or NaN                          *)
(*   text       a string, when strings are expected                         *)
(*   empty      a value that is false: "", [], 0                            *)
(*   list       a list of strings;  mixed: a list with another item         *)
(*   other      any other value                                             *)
(***************************************************************************)
EXTENDS Integers, JWTOptions

Absent == [sort |-> "absent"]
Number(n) == [sort |-> "number", halves |-> n]
Text(s) == [sort |-> "text", names |-> {s}]
Listed(names) == [sort |-> "list", names |-> names]
OfSort(sort) == [sort |-> sort]

Present(claim) == claim # Absent

TimeClaims == {"iat", "nbf", "exp"}

IsPayload(payload) ==
    /\ TimeClaims \subseteq DOMAIN payload
    /\ \A name \in TimeClaims :
          payload[name].sort \in {"number", "moment"}
             => payload[name].halves \in Int

-----------------------------------------------------------------------------
(* Time claims.                                                             *)

\* int() of a number cuts the fraction off: it goes towards zero.
Whole(claim) ==
    IF claim.halves >= 0 THEN claim.halves - (claim.halves % 2)
                         ELSE claim.halves + (claim.halves % 2)

\* Mutant: a string int() cannot read is nobody's business.
CoercedUncaught(claim, notANumber, verdict) ==
    CASE claim.sort = "number"   -> verdict
      [] claim.sort = "word"     -> "ValueError"
      [] claim.sort = "infinite" -> "OverflowError"
      [] OTHER                   -> "TypeError"

\* _coerce_int_claim translates a ValueError only.
Coerced(claim, notANumber, verdict) ==
    CASE claim.sort = "number"   -> verdict
      [] claim.sort = "word"     -> notANumber
      [] claim.sort = "infinite" -> "OverflowError"
      [] OTHER                   -> "TypeError"

\* Mutant: a token is not valid yet in the first instant it is.
NotYetAtFirst(claim, notANumber, now, leeway) ==
    Coerced(claim, notANumber,
            First(Whole(claim) >= now + leeway, "ImmatureSignatureError", "ok"))

NotYet(claim, notANumber, now, leeway) ==
    Coerced(claim, notANumber,
            First(Whole(claim) > now + leeway, "ImmatureSignatureError", "ok"))

IatVerdict(claim, now, leeway) ==
    NotYet(claim, "InvalidIssuedAtError", now, leeway)

NbfVerdict(claim, now, leeway) == NotYet(claim, "DecodeError", now, leeway)

ExpVerdict(claim, now, leeway) ==
    Coerced(claim, "DecodeError",
            First(Whole(claim) <= now - leeway, "ExpiredSignatureError", "ok"))

-----------------------------------------------------------------------------
(* Claims about parties.  An expectation is None, a string ("text"), a      *)
(* collection of strings ("list"), or something neither ("other").          *)

IssVerdict(claim, issuer) ==
    CASE issuer = None           -> "ok"
      [] issuer # None /\ ~Present(claim) -> "MissingRequiredClaimError"
      [] issuer # None /\ Present(claim) ->
            First(\/ claim.sort # "text"
                  \/ issuer.sort = "other"
                  \/ ~(claim.names \subseteq issuer.names),
                  "InvalidIssuerError", "ok")

Falsy(claim) == claim.sort \in {"absent", "null", "empty"}

\* strict_aud: one string against one string
StrictMatch(claim, audience) ==
    /\ audience.sort = "text"
    /\ claim.sort = "text"
    /\ audience.names = claim.names

\* Mutant: every expected audience must be among the claim's.
AllMatch(claim, audience) ==
    claim.sort \in {"text", "list"} /\ audience.names \subseteq claim.names

AnyMatch(claim, audience) ==
    claim.sort \in {"text", "list"} /\ audience.names \cap claim.names # {}

AudVerdict(claim, audience, strict) ==
    CASE audience = None -> First(Falsy(claim), "ok", "InvalidAudienceError")
      [] audience # None /\ Falsy(claim) -> "MissingRequiredClaimError"
      [] audience # None /\ ~Falsy(claim) ->
            First(IF strict THEN StrictMatch(claim, audience)
                            ELSE AnyMatch(claim, audience),
                  "ok", "InvalidAudienceError")

SubVerdict(claim, subject) ==
    First(/\ Present(claim)
          /\ \/ claim.sort # "text"
             \/ subject # None /\ subject.names # claim.names,
          "InvalidSubjectError", "ok")

JtiVerdict(claim) ==
    First(Present(claim) /\ claim.sort # "text", "InvalidJTIError", "ok")

-----------------------------------------------------------------------------
(* Checks that come before the claims' own.                                 *)

AudienceVerdict(audience) ==
    First(audience # None /\ audience.sort = "other", "TypeError", "ok")

\* payload.get(claim) is None: null is as good as absent
RequireVerdict(payload, require) ==
    First(\E name \in require : payload[name].sort \in {"absent", "null"},
          "MissingRequiredClaimError", "ok")

-----------------------------------------------------------------------------
(* PyJWT._prepare_payload_claims: a datetime ("moment") becomes the whole   *)
(* seconds of its time tuple, which has dropped the microseconds and so goes  *)
(* down before 1970 too; and iss must be a string if it is there.           *)

Seconds(claim) ==
    IF claim.sort = "moment"
      THEN Number(claim.halves - (claim.halves % 2)) ELSE claim

PreparedClaims(payload) ==
    [payload EXCEPT !.exp = Seconds(@), !.iat = Seconds(@), !.nbf = Seconds(@)]

PrepareVerdict(payload) ==
    First(\/ payload.form # "object"
          \/ Present(payload.iss) /\ payload.iss.sort # "text",
          "TypeError", "ok")
=============================================================================
