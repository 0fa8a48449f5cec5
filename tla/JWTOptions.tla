----------------------------- MODULE JWTOptions -----------------------------
(***************************************************************************)
(* The options of PyJWT and PyJWS (jwt/api_jwt.py, jwt/api_jws.py): a       *)
(* dictionary given to the instance and one given to the call, either of    *)
(* which may be absent (None) or name any of the options.  "require" is the *)
(* set of its claims.                                                       *)
(***************************************************************************)
EXTENDS TLC

CONSTANT None

\* The verdict of a check: an exception's class, or what comes after it.
First(failed, error, otherwise) == IF failed THEN error ELSE otherwise

\* {**base, **top}
Over(top, base) ==
    [option \in DOMAIN top \cup DOMAIN base |->
        IF option \in DOMAIN top THEN top[option] ELSE base[option]]

VerifyFlags == {"verify_exp", "verify_nbf", "verify_iat", "verify_aud",
                "verify_iss", "verify_sub", "verify_jti"}

\* PyJWT._get_default_options
DefaultOptions ==
    Over([verify_signature |-> TRUE, require |-> {}, strict_aud |-> FALSE,
          enforce_minimum_key_length |-> FALSE],
         [flag \in VerifyFlags |-> TRUE])

\* PyJWT._UNVERIFIED_DEFAULTS
UnverifiedDefaults == [flag \in VerifyFlags |-> FALSE]

Gives(options, option) == option \in DOMAIN options

\* options.get("verify_signature", True)
Wanted(options) ==
    Gives(options, "verify_signature") => options.verify_signature

\* Mutant: what the instance says counts more than the unverified defaults.
InstanceFirst(own, options) ==
    CASE options = None -> own
      [] options # None /\ ~Wanted(options) ->
            Over(options, Over(own, UnverifiedDefaults))
      [] options # None /\ Wanted(options) -> Over(options, own)

\* Mutant: the unverified defaults override the call's explicit flags.
DefaultsLast(own, options) ==
    CASE options = None -> own
      [] options # None /\ ~Wanted(options) ->
            Over(UnverifiedDefaults, Over(options, own))
      [] options # None /\ Wanted(options) -> Over(options, own)

MergeOptions(own, options) ==
    CASE options = None -> own
      [] options # None /\ ~Wanted(options) ->
            Over(options, Over(UnverifiedDefaults, own))
      [] options # None /\ Wanted(options) -> Over(options, own)

\* PyJWT(options)
InstanceOptionsOf(options) == MergeOptions(DefaultOptions, options)

\* What decode_complete passes on as "verify_signature".
VerifyOfJwt(options) == options = None \/ Wanted(options)

\* PyJWS.decode_complete merges the call's options over the instance's.
VerifyOfJws(own, options) ==
    IF options = None THEN own.verify_signature
                      ELSE Over(options, own).verify_signature
=============================================================================
