--------------------------------- MODULE JWS ---------------------------------
(***************************************************************************)
(* PyJWS (jwt/api_jws.py): how a token is put together and which checks     *)
(* decode_complete makes on its header and signature.                       *)
(*                                                                         *)
(* A token is its header, the body in its middle segment and a signature.   *)
(* Cryptography is symbolic: a signature tells the handler, the key and the *)
(* input it was made from, and verifies for those only.  The none           *)
(* algorithm signs with b"" and verifies nothing.                           *)
(***************************************************************************)
EXTENDS AlgorithmRegistry, JWTOptions

CONSTANTS
    Accepts,    \* the forms of keys a handler's prepare_key accepts
    Unsigned,   \* handlers that are NoneAlgorithm objects
    Garbage     \* what _load finds no token in

ASSUME HandlerAssumption ==
    /\ DOMAIN Accepts = Handlers
    /\ Unsigned \subseteq Handlers

(* A key is a "secret", the "empty" string, a "pem" or ssh text, or an      *)
(* "object" no algorithm takes.  "short" has the handlers whose             *)
(* check_key_length objects to it;  "jwk" is PyJWK.algorithm_name, or ""    *)
(* when the key is no PyJWK.                                                *)
KeyRecord(id, form, short, jwk) ==
    [id |-> id, form |-> form, short |-> short, jwk |-> jwk]

IsJwk(key) == key.jwk # ""

(* The header fields the code reads: "alg" a name, "" (any false value) or  *)
(* "absent";  "kid" a "text", "other" or "absent";  "crit" is "b64" for     *)
(* ["b64"], "unknown" with another extension, "malformed", or "absent";     *)
(* "b64" is "false", "true" (any other value) or "absent".                  *)
NoHeaders == [alg |-> "absent", kid |-> "absent", crit |-> "absent",
              b64 |-> "absent"]

NoSignature == [by |-> "nobody"]            \* b"", or a damaged signature

Token(header, body, signature) ==
    [header |-> header, body |-> body, signature |-> signature]

Signed(handler, key, header, body) ==
    IF handler \in Unsigned
      THEN NoSignature
      ELSE [by |-> handler, key |-> key.id, header |-> header, body |-> body]

Verifies(handler, key, header, body, signature) ==
    /\ handler \notin Unsigned
    /\ signature = Signed(handler, key, header, body)

-----------------------------------------------------------------------------

\* _prepare_signing_key: only the instance's option enforces key lengths.
KeyVerdict(own, handler, key) ==
    First(key.form = "object" /\ handler \notin Unsigned, "TypeError",
    First(\/ key.form \notin Accepts[handler]
          \/ handler \in key.short /\ own.enforce_minimum_key_length,
          "InvalidKeyError", "ok"))

KidAllowed(header) == header.kid # "other"

\* _validate_crit
CritAllowed(header) ==
    \/ header.crit = "absent"
    \/ header.crit = "b64" /\ header.b64 # "absent"

HeaderVerdict(header) ==
    First(KidAllowed(header) /\ CritAllowed(header), "ok", "InvalidTokenError")

-----------------------------------------------------------------------------
(* encode                                                                   *)

\* _resolve_algorithm; "unset" is the default argument.
ResolvedAlg(algorithm, key, headers) ==
    CASE headers.alg \notin {"", "absent"} -> headers.alg
      [] headers.alg \in {"", "absent"} /\ algorithm \notin {"unset", None} ->
            algorithm
      [] headers.alg \in {"", "absent"} /\ algorithm \in {"unset", None} ->
            IF IsJwk(key) THEN key.jwk
            ELSE IF algorithm = None THEN "none" ELSE "HS256"

\* _build_header
BuiltHeader(algorithm, headers, detached) ==
    [headers EXCEPT !.alg = IF @ = "absent" THEN algorithm ELSE @,
                    !.b64 = IF detached THEN "false" ELSE "absent"]

Detached(request) == request.detached \/ request.headers.b64 = "false"

HeaderOf(request) ==
    BuiltHeader(ResolvedAlg(request.algorithm, request.key, request.headers),
                request.headers, Detached(request))

HandlerFor(request) ==
    algorithms[ResolvedAlg(request.algorithm, request.key, request.headers)]

EncodeVerdict(own, request) ==
    LET alg == ResolvedAlg(request.algorithm, request.key, request.headers)
    IN  CASE ~KidAllowed(request.headers) -> "InvalidTokenError"
          [] KidAllowed(request.headers) /\ alg \notin DOMAIN algorithms ->
                "NotImplementedError"
          [] KidAllowed(request.headers) /\ alg \in DOMAIN algorithms ->
                KeyVerdict(own, algorithms[alg], request.key)

\* Mutant: a detached token is signed over its empty segment.
SignedBlank(request, payload, nothing) ==
    LET body == IF Detached(request) THEN nothing ELSE payload
    IN  Token(HeaderOf(request), body,
              Signed(HandlerFor(request), request.key, HeaderOf(request), body))

\* Mutant: encode signs with the default handler, not the registered one.
SignedByDefault(request, payload, nothing) ==
    Token(HeaderOf(request), payload,
          Signed(Defaults["HS256"], request.key, HeaderOf(request), payload))

(* The signing input has the payload, though a detached token leaves it out. *)
Encoded(request, payload, nothing) ==
    Token(HeaderOf(request),
          IF Detached(request) THEN nothing ELSE payload,
          Signed(HandlerFor(request), request.key, HeaderOf(request), payload))

-----------------------------------------------------------------------------
(* decode_complete                                                          *)

AlgorithmsVerdict(verify, algs, key) ==
    First(verify /\ algs \in {None, {}} /\ ~IsJwk(key), "DecodeError", "ok")

\* Mutant: a PyJWK stands for its algorithm even against the allow-list.
JwkFirst(header, algs, key) ==
    First(\/ header.alg \in {"", "absent"}
          \/ header.alg \notin (IF IsJwk(key) THEN {key.jwk} ELSE algs),
          "InvalidAlgorithmError", "ok")

\* Mutant: a header without "alg" raises the KeyError of the dictionary.
AlgKeyError(header, algs, key) ==
    CASE header.alg = "absent" -> "KeyError"
      [] header.alg # "absent" ->
            First(header.alg = "" \/ (algs # None /\ header.alg \notin algs),
                  "InvalidAlgorithmError", "ok")

\* _verify_signature, up to the handler
AlgVerdict(header, algs, key) ==
    First(\/ header.alg \in {"", "absent"}
          \/ algs # None /\ header.alg \notin algs
          \/ algs = None /\ IsJwk(key) /\ header.alg # key.jwk,
          "InvalidAlgorithmError", "ok")

DetachedVerdict(header, detached) ==
    First(header.b64 = "false" /\ detached = None, "DecodeError", "ok")

\* What was signed, and what is returned: the payload given for a token
\* without one.
BodyOf(token, detached) ==
    IF token.header.b64 = "false" THEN detached ELSE token.body
=============================================================================
