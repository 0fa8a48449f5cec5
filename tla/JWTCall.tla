------------------------------- MODULE JWTCall -------------------------------
(***************************************************************************)
(* One call of PyJWT.decode_complete or PyJWS.decode_complete: what it is   *)
(* about, the options in force, whether the signature is verified, and the  *)
(* payload the checks look at.                                             *)
(***************************************************************************)
EXTENDS JWS, JWTClaims

VARIABLES
    own,        \* self.options
    token,      \* the token the call is given
    call        \* its other arguments

Options == MergeOptions(own, call.options)

Verifying ==
    IF call.api = "jwt" THEN VerifyOfJwt(call.options)
                        ELSE VerifyOfJws(own, call.options)

Body == BodyOf(token, call.detached)

\* A time claim is checked if it is there and its flag is on.
IfPresent(flag, claim, verdict) ==
    IF Options[flag] /\ Present(claim) THEN verdict ELSE "ok"

IfOn(flag, verdict) == IF Options[flag] THEN verdict ELSE "ok"
=============================================================================
