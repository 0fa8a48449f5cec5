# PyJWT in TLA+

Models, checks and proofs for the `jwt` package of this repository: JSON Web
Tokens are made and verified (`api_jwt.py`, `api_jws.py`), algorithms are
registered in an object all threads share, and a client fetches and caches the
keys of an issuer (`jwks_client.py`, `jwk_set_cache.py`).

## The system

| Part | State | Operations | Talks to |
|---|---|---|---|
| `JWKSetCache` | `_jwk_set`, `_timestamp`; no lock | `put`, `get`, `is_expired` | monotonic clock |
| `PyJWKClient` | the cache, an `lru_cache` around `get_signing_key` | `fetch_data`, `get_jwk_set`, `get_signing_keys`, `get_signing_key`, `get_signing_key_from_jwt` | HTTP endpoint, `JWKSetCache`, `PyJWKSet` |
| Algorithm registry (`PyJWS`) | `_algorithms` (name to handler), `_valid_algs` (names listed) | constructor, `register_algorithm`, `unregister_algorithm`, `get_algorithms`, `get_algorithm_by_name` | handlers |
| JWS encode and decode (`PyJWS`) | `options`; otherwise locals of one call | `encode`, `decode_complete`, `decode`, `get_unverified_header` | registry, handler, key |
| JWT encode and decode (`PyJWT`) | `options`, one `PyJWS` | `encode`, `decode_complete`, `decode` | `PyJWS`, wall clock |
| Claim validation (`PyJWT`) | none | `_validate_claims` and one method per claim | one reading of the clock |
| `PyJWK`, `PyJWKSet` | the parsed key and its handler | constructors, `find_by_kid` | handlers' `from_jwk` |
| Handlers (`algorithms/`) | none | `prepare_key`, `check_key_length`, `sign`, `verify`, `from_jwk`, `to_jwk` | `hmac`, the `cryptography` package |
| Conversions (`utils.py`) | none | base64url, integers and bytes, DER and raw signatures, PEM and SSH recognition | – |
| Rest | none | exceptions, warnings, types, version report | – |

The module-level functions `jwt.encode`, `jwt.decode`,
`jwt.register_algorithm` and their kin work on one global `PyJWT` and one global
`PyJWS`, so every thread of a process shares one registry. A `PyJWKClient` is
meant to be kept and shared too: its caches live in it. Nothing in the package
takes a lock.

### What is hard here

- **Interleaving.** `put()` and `get()` of the response cache are several loads
  and stores; so are `register_algorithm` and `unregister_algorithm`, which
  change two structures one after the other. A decode looks its handler up in
  the middle of that.
- **A changing world.** The endpoint rotates keys, answers late, fails, or
  answers something unfit; answers of two requests may be stored in the wrong
  order. The wall clock may be set while claims are checked.
- **Partial failure.** `fetch_data` stores what it has in a `finally` clause,
  also when the exchange failed; only some exceptions are translated.
- **Order of checks and sources of truth.** The algorithm comes from header,
  allow-list and `PyJWK`; options come from the instance and the call, at two
  levels with different defaults; a payload may be detached. A JWK's handler is
  chosen by an argument, its `alg`, or its `kty` and `crv`, in this order.
- **Boundaries.** `int()` truncates, `iat` and `nbf` are compared strictly the
  other way round than `exp`; null, empty and mixed claim values branch apart.
  Numbers of keys and signatures keep their width in bytes only where the
  curve's size is passed along.

`PROJECT.json` lists each of them as a hazard, at its line, with the properties
that would catch it.

### What makes each part correct

- *Response cache, client*: no answer older than the lifespan (one thread); a
  key handed out was published under the kid asked for; "not found" is only said
  of a document that was current during the call; at most one retry; one failed
  or unfit answer is not blamed on another document; rotation reaches callers.
- *Registry*: the two structures agree, a handler is never replaced silently,
  and a removal is complete, for every name no two calls met on.
- *Encode and decode*: a decode with verification on returns, or complains of a
  claim of, only what the issuer signed with that key under an allowed
  algorithm; what encode makes, decode accepts.
- *Claims*: accepted means that required claims are there, the parties are the
  expected ones and the three time claims held at one moment of the call; and a
  refusal has a reason.
- *Keys*: a key gets a handler of its own family, and one that fits its curve; a
  set keeps every usable key, and says so when a missing package is the reason.
- *Handlers*: a prepared key is one its algorithm can use; the tables of formats
  that HMAC refuses have every format another handler reads; what `to_jwk` writes `from_jwk` reads as the same key; what a
  key signs it verifies, in one writing only.
- *Options*: a call that turns verification off turns the claim checks off, but
  what it asks for explicitly counts.

## Modules

| Module | Models | Role |
|---|---|---|
| `JWKSetCache` | `jwt/jwk_set_cache.py` | loads and stores of the cache |
| `JWKSClient` | `jwt/jwks_client.py` | threads, endpoint, both caches; composes `JWKSetCache` |
| `KeyDirectory` | what `PyJWKClient` promises | a directory without caches that answers in one step; `JWKSClient` implements it |
| `JWKSClient_proofs` | | theorems about `JWKSClient`, and that it implements `KeyDirectory` |
| `AlgorithmRegistry` | registration in `jwt/api_jws.py` | threads that register and unregister |
| `AlgorithmRegistry_proofs` | | theorems about `AlgorithmRegistry` |
| `JWTOptions` | options of `jwt/api_jwt.py`, `jwt/api_jws.py` | defaults and merges |
| `JWTClaims` | `_validate_*` of `jwt/api_jwt.py` | a verdict per claim |
| `JWS` | encode and decode of `jwt/api_jws.py`, `algorithms_hmac.py`, `algorithms_none.py` | what a token is and which checks it must pass; extends `AlgorithmRegistry` and `JWTOptions` |
| `JWTCall` | one call of `decode_complete` | the options in force, whether the signature is verified, the payload the checks look at; shared by the next two |
| `DecodeContract` | what `decode_complete` promises | one answer from one look at the handlers and one at the clock; `JWTExchange` implements it |
| `JWTExchange` | `jwt/api_jwt.py` over `jwt/api_jws.py` | issuer, way and verifier as a state machine, beside registering threads and a clock; composes options, claims, JWS and registry |
| `JWTExchange_proofs`, `JWTExchangeContract_proofs`, `JWTExchangeAnswers_proofs` | | theorems about `JWTExchange`: what is accepted, that it implements `DecodeContract`, and why it answers as it does |
| `JWK` | `PyJWK`, `PyJWKSet` (`jwt/api_jwk.py`), `from_jwk` of all handlers | which key comes out of a JWK, and which keys a set keeps |
| `JWK_proofs` | | theorems about `JWK` |
| `Codec` | the conversions of `jwt/utils.py` | numbers, bytes, base64url and signatures, byte by byte |
| `Codec_proofs` | | theorems about `Codec` |
| `KeyFamilies` | the handlers in `jwt/algorithms/` | `prepare_key`, `check_key_length`, `to_jwk`, `sign`, `verify` of each, and the key `from_jwk` makes; instantiates `JWK` |
| `KeyLife` | a key on its way through a handler | prepared, written, carried, read, signing, verified |
| `KeyLife_proofs` | | theorems about `KeyLife` |
| `MCJWKSClient`, `MCRegistry`, `MCJWT`, `MCJWK`, `MCKeyLife` | | small instances |

The client, the exchange, the construction of keys and the life of a key are
separate state machines: a decode uses a key the client returned as a value, the
client a set that was constructed in one thread, and a handler has no state of
its own; they share none. `KeyLife` asks `JWK` for the verdict on each document
it reads.

### The client

Every thread runs one call at a time; `pc[t]` says where it is and `call[t]` is
its frame. A step ends where another thread can change what this one has seen:

| Code | Actions |
|---|---|
| entry of `get_jwk_set`, `get_signing_keys`, `get_signing_key` | `CallWithRefresh`, `CallGetSigningKey` |
| `lru_cache` wrapper | `LruHit`, `LruMiss`, `LruStore` |
| `get()` and `is_expired()` | `CacheCheck`, `CacheRecheck`, `CacheCompare`, `CacheTake`, one per load of a field |
| `fetch_data` | `Answer`, `FailExchange`, then `StoreSet`, `StoreStamp` (the two assignments of `put`), `RaiseFetchError`, `DeliverFetched` |
| the rest of `get_jwk_set`, `get_signing_keys`, `get_signing_key` | `RaiseNotObject`, `RaiseSetError`, `ReturnSet`, `RaiseNoSigningKeys`, `ReturnKeys`, `ReturnMatch`, `Retry`, `RaiseNoMatch` |
| endpoint, clock | `Publish`, `Tick` |

A document is known by its version (its place in `published`), its shape and the
kids of its signing keys; time is the distance from the last stamp, which stops
growing one tick past the lifespan, since only "older than the lifespan" is ever
asked. `get_signing_key_from_jwt` is `get_signing_key` of a kid read from an
unverified header; the errors of reading that header are left out. The clock is
read and stored in one step (`StoreStamp`): a thread held up between the two
leaves a set that expires early, not late. `CacheCompare` reads clock and stamp in
one step too: a thread held up there judges by an old clock what it would, held
up after the comparison, return just as late, or meets the stamp of a newer set.
The guard `lifespan > -1` is always true of a lifespan the constructor takes.
History variables: `writer` and `held` (who stored the
present set, and how long ago), `fetches` and `since` in a frame.

### The registry

One action per access to the two structures: `FindFree` (with `RefuseDuplicate`
and `RefuseType`), `Assign`, `List` for `register_algorithm`; `FindKnown` (with
`RefuseUnknown`), `Delete`, `Unlist` (with the bare `KeyError`s `FailDelete`,
`FailUnlist`) for `unregister_algorithm`. `contended` is history: the names two
calls were busy with at once. Most promises hold of the other names only: two
registrations of one name can pass the check together, and the second replaces
the first.

### The exchange

A behaviour issues one token, may damage it once (nothing left, signature lost,
another header, another body) and decodes it once; another decode would share
with this one only the registry and the clock, both of which change freely
anyway. `issued` and `changed` are history: request and handler the token was
made from, and the names whose handler another thread took away, or replaced,
since. Each check of `decode_complete`, `_verify_signature` and
`_validate_claims` is an action, in the code's order, and ends the call with the
class of the exception when it fails. `FindHandler` reads the shared dictionary
and `ReadClock` the clock; the others read the call's own data, and are steps so
that their order is part of the model. `encode` reads shared state once, at the
lookup of its handler, so it is one step.

What the data is reduced to:

- **Signatures** are symbolic: a signature tells the handler, key, header and
  payload it was made from, and verifies for those only. `none` signs with `b""`
  and verifies nothing, as in `algorithms_none.py`.
- **Keys** have an identity, a form (`secret`, `empty`, `pem`, or `object` for a
  value of a wrong type), the handlers that find them too short, and the
  algorithm they bring when they are a `PyJWK`. In the instances keys are
  symmetric: `none` and HMAC.
- **Headers** have the four fields the code reads, `alg`, `kid`, `crit`, `b64`.
  A segment that is no base64, or a header that is no JSON object, is `Garbage`.
- **Claims** are known by their sort (see `JWTClaims`), time in half seconds, so
  that fractions exist. `int()` cuts a fraction off towards zero, the time tuple
  of a datetime goes down to the whole second; before 1970 these differ.
- **Left out**: warnings, the deprecated `verify` argument, custom JSON
  encoders, subclasses that override the payload hooks, `typ`, header values of
  unhashable types, required claims beyond the registered ones, expectations
  whose iteration raises.

### The keys

A call of `PyJWK` is one step (`BuildKey`); `PyJWKSet` is one step per JWK of its
list (`KeepKey`, `SkipKey`, `AbandonSet`) and `FinishSet` after the last.
`KeyVerdict` is `PyJWK.__init__`: "ok" or the class of what it raises, the checks
in the code's order, with `FromJwk` for the handler's `from_jwk`. A JWK is known
by `kty`, `alg` and `crv` and by what its values are good for (`Sorts`): what
base64 decodes and which numbers the `cryptography` package accepts is given
with the JWK, what the code does about it is modelled. Whether the package is
installed is a variable. The empty list also stands for a value that is no list,
which `PyJWKSet` refuses with the same class. Left out: `kty`, `alg` or `crv` of
unhashable types (a `TypeError`), an empty string as an argument apart from
`None`, and the JSON of `from_json`.

### The handlers

`KeyLife` follows one key. `Prepare` is `_prepare_signing_key`, with
`prepare_key` and `check_key_length` of the handler; `Export` is `to_jwk`,
called on a prepared key or on what the caller has; `Carry` is the way of the
document, where one text may get pads, a line break, or lose its end; `Import`
is `PyJWK`, with or without an algorithm, after which the key is prepared again;
`SignIt`, `Alter` and `VerifyIt` make a signature, change its bytes, and verify
it with the key or with its public half.

Which exception a loader raises decides what a handler tries next, so
`KeyFamilies` has each loader's verdict on each text. A text is its marker (the
PEM label or the ssh prefix) and its state: whole, in another layout
than `_PEM_RE` matches ("loose"), without its last line, broken, encrypted, or of
a kind the package does not support. `Codec` is exact:
numbers are numbers, texts are sequences of the 64 letters, pads and other
characters, with what `urlsafe_b64decode` makes of misplaced ones. The `Sorts`
that `JWK` is given are worked out from these texts (`SortOf`).

External, from the way the code uses it: which texts the loaders of the
`cryptography` package read, which numbers it refuses (`Refused`: those of a
private key, or of a point, that do not belong together), and that a signature
verifies for the key and algorithm it was made with; an ECDSA signature also
with its second number negated (`Twins`). An ECDSA signature is its two numbers,
any other one is opaque bytes. `bytes` and `str` are one thing, so the empty
secret of `none` is `""`.

## Runs

Passing runs of the client. Two threads are where every race of its two-field
cache shows: a load of one thread between two stores of another. Two versions
suffice for old against new, two kids with room for one for eviction.

| Run | Instance | Shows |
|---|---|---|
| `client_threads` | 2 threads, 2 versions out of two keys, response cache | `ImplementsDirectory`, `NotFoundIsCurrent`, `FetchedIsCurrent`, `FetchBudget`, `ErrorsBlameTheEndpoint` under every interleaving |
| `client_one_thread` | 1 thread, both caches, 2 kids with room for one, one unfit document of each kind, lifespan 2, fair | `TypeOK` with the bound on the key cache, `Provenance`, `ServedWithinLifespan`, `EveryCallReturns`, `UnfitAnswersEnd` |
| `client_rotation` | 2 threads, 2 versions, response cache, fair | `RotationReachesCallers` |

Passing runs of the registry, the exchange and the keys. In each run of the exchange one
side varies and the others stand still, because the checks are a conjunction:
each looks at its own part of token and call.

| Run | Instance | Shows |
|---|---|---|
| `registry_pair` | 2 threads, 2 names, 2 handlers | all five properties of the registry; two threads are one more than a name's owner |
| `exchange_signature` | 4 keys and 6 header dictionaries to encode with, 6 keys, 4 allow-lists and detached payloads to decode with, all damages | `TypeOK`, `AcceptedIsAuthentic`, `RoundTrip` |
| `exchange_claims` | time claims of every sort, whole, half and negative seconds, and a clock that shows three instants in any order; every sort of `iss`, `aud`, `sub`, `jti` and expectation, `strict_aud`, a required claim | `TypeOK` (which exceptions of `int()` come out), `AcceptedFromTheParties`, `AcceptedAtOneInstant`, `RefusedForAReason`, `ImplementsContract`; the instants lie before, on and after the claims' |
| `exchange_options` | 8 by 8 option dictionaries of instance and call, both APIs, good, short and wrong keys; a thread that unregisters and registers the token's algorithm | `UnverifiedIsLenient`, `ExplicitFlagCounts`, `ClaimErrorsAreAuthentic`; `ImplementsContract`, `RoundTrip` while the registry changes |
| `jwk_set` | 6 by 8 by 6 headers with 112 materials for `PyJWK`, with and without the package, three values of `algorithm`; lists of up to three keys of ten kinds for `PyJWKSet` | `TypeOK`, `FamilyMatches`, `InferredAlgorithmFits`, `KeepsTheUsable`, `CryptographyIsMissed`; three places are a key before and a key after the one that fails |
| `key_life` | 11 keys of four families, as objects and as 23 texts in up to six states, 6 secrets, None and another type, through all 16 algorithms, with lengths enforced or not | `ExportedKeyComesBack`, `SignatureVerifies`, `AcceptedSignatureIsExact`, `PreparedFits`, `KeyTextsAreRecognised` |

The runs of the exchange and the keys do not check deadlock: they end when the
call does. Those of the client and the registry do: somebody can always call.

The key cache is run with one thread. `functools.lru_cache` is external and takes
care of threads itself; that keys of several threads in it are those asked for,
and not too many, is proved (`ProvenanceHolds`, `TypeCorrect`).

`EveryCallReturns` is checked of one thread: threads share caches but never wait
for each other, so what another thread could do to a call is to change what it
finds in the cache, and every outcome of that (nothing, an expired set, a set
without the kid) also arises alone.

The keys of `key_life` are scaled down, so that numbers with leading zero bytes,
the zero itself and numbers of full width all occur: two bytes for P-256 and
secp256k1, 17 bits in three bytes for P-521 (one bit more than bytes hold, as
521 is), two and three bytes for the Ed keys, a modulus of 16 and one of 14
bits. The conversions depend on a width only through `(bits + 7) // 8`.

Violated on purpose, one statement of the documentation each (the quotations are
in `PROJECT.json`):

| Run | The documentation | The code |
|---|---|---|
| `client_torn_put` | a set expires after `lifespan` | the stamp of one thread's `put` lands on the set of another |
| `jwk_unusable` | unusable keys of a set are skipped | a `KeyError`, `NotImplementedError`, `ValueError` or `TypeError` of one key fails the set |
| `exchange_key_length` | `enforce_minimum_key_length`, an option of `decode`, raises `InvalidKeyError` for a short key | `_prepare_signing_key` looks at the object's options, not at the merged ones of the call |

`RoundTrip` says nothing of a call that gives `enforce_minimum_key_length`, for
its documentation and the code disagree on what is right.

Other disagreements met while modelling. The modules contain the behaviour, and
no property is stated that it would violate:

- a document without usable keys, or that is no object, is cached before it is
  inspected (`jwks_client.py:122`), and raises from the cache until it expires,
  though the docstring promises a refresh before a lookup fails;
- a body that is not JSON escapes `get_jwk_set` as the JSON parser's error, not
  as `PyJWKClientError` (`jwks_client.py:112`);
- two threads that register one name pass the duplicate check together, and the
  second handler replaces the first (`api_jws.py:67`);
- `PyJWS(algorithms=[...])` lists names it has no handler for (`api_jws.py:42`);
- a null `iat` raises `TypeError` (`api_jwt.py:487`), where `docs/usage.rst:348`
  says that an `iat` that is not a number raises `InvalidIssuedAtError`; so do a
  list and an object;
- `InvalidKeyError` is "raised when the specified key is not in the proper
  format" (`exceptions.py:60`), but a text that is no key leaves `prepare_key` of
  the EC and OKP handlers as the loader's `ValueError` (`algorithms_ec.py:96`,
  `algorithms_okp.py:63`), and an encrypted one as `TypeError`;
- `verify` of RSA fails with `AttributeError` on a private key, which EC and OKP
  reduce to the public one (`algorithms_rsa.py:161`);
- `to_jwk` of RSA looks for methods, not for types: a key of another family
  raises `AttributeError` there, `InvalidKeyError` elsewhere
  (`algorithms_rsa.py:99`);
- an Ed448 key that `to_jwk` wrote cannot be read by `PyJWK` without naming its
  algorithm: only Ed25519 is inferred (`api_jwk.py:89`);
- a fractional `nbf` is truncated, and the token accepted up to a second early
  (`api_jwt.py:486`);
- HMAC refuses a key in PEM format "or x509 certificate" by the layout `_PEM_RE`
  matches (`utils.py:116`): a line break after the label and one before the end.
  A PEM text in another layout (on one line, with blanks after the label) passes
  as a secret, though a loader that is laxer reads it as a key. In the model such
  a text is `loose`, and whether the package reads it is external; all that
  `KeyTextsAreRecognised` says is that nothing but the layout lets it pass;
- an instance with `verify_signature` off leaves `verify_exp` off for a call
  without options, which does verify the signature (`api_jwt.py:268`).

Bounds: `MaxPublished` (versions the endpoint publishes), `Horizon` (the clock
and the ages stop one tick past the lifespan), `fetches` counted up to 3.
Numbers and texts of `Codec` have no bound. The sets of requests, calls, headers,
instants, keys and texts are constants.

### Refinements

`KeyDirectory` is what a caller of `PyJWKClient` may rely on: a question, and in
one step an answer justified by a published document; a refresh or a miss is
justified by one that was current during the call. Caches, retries and other
threads do not occur in it. `ImplementsDirectory` maps a thread's `pc` to idle,
asked, answered, and its frame to question and answer.

`DecodeContract` is what a caller of `decode` may rely on: its answer follows
from the token, the arguments, one look into the dictionary of handlers and one
reading of the clock. Accepted means that no check objects; refused that one of
the checks that apply does, and for a claim only if nothing is to be said
against the token itself. `ImplementsContract` maps the chain of checks to one
`Answer`, `FindHandler` to `LookUp`, `ReadClock` to its own.

### Fairness

Only `client_one_thread` and `client_rotation` assume any (`FairSpec`): every thread in a call keeps
running, weakly fair, because `urlopen` is given a timeout and the rest is
straight-line code of a thread that the scheduler runs again; and the clock
advances. Nobody has to call, the endpoint neither has to answer well nor to
publish. The exchange has no liveness property: a decode has no loop.

## Proofs

TLAPS proves, for any number of threads, names, keys, documents, requests and
calls:

- `JWKSClient_proofs`: `TypeOK`, `FetchBudget`, `Provenance`,
  `NotFoundIsCurrent`, `FetchedIsCurrent`, `ErrorsBlameTheEndpoint`. The inductive invariant adds to them what a frame
  may hold at each place (`CallStates`), that what a call fetched was current
  since it began (`FetchedDuringCall`), and that a `None` no exception explains
  is a null document (`NullIsNone`). Without the last two, the errors and the
  answers after a fetch cannot be traced to a document. It rests on
  `ClientAssumption` (types of the constants, at least one place in the key
  cache) and `LifespanAssumption` (the constructor rejects other lifespans).
  For `ImplementsDirectory` a step inside a call is a stutter of the directory
  (`Quiet`), the step that ends it is an `Answer` (`Answered`), justified by the
  same invariant. `ServedWithinLifespan` is proved of a client with one thread,
  which the theorem names as its hypothesis, since two threads break it: the
  stamp is then the time of the set that is there (`AloneInv`).
- `AlgorithmRegistry_proofs`: `RegistryTypeOK`, `HandlersAreListed`,
  `OnlyRacesBreakUnregister`, `NeverReplaced`, `UnregisterRemovesBoth`. The
  invariant says what the one busy call of an uncontended name relies on at each
  of its steps (`Promises`), that such a name is settled when nobody is busy
  with it (`Settled`), and that two busy calls make it contended (`Alone`). It
  rests on `RegistryAssumption`.
- `JWTExchange_proofs`: `AcceptedIsAuthentic`, `ClaimErrorsAreAuthentic`,
  `AcceptedFromTheParties`. On its way a token keeps its issuer's signature or
  loses it (`NeverForged`); a verifier past a check has passed it
  (`HeaderChecked`, `SignatureChecked`, `ClaimsChecked`), because nothing the
  check looked at changes afterwards (`VerdictsSettled`). That the signature is
  symbolic is an assumption of the model, not of the proof. No assumption on
  the constants is needed.
- `JWTExchangeContract_proofs`: `ImplementsContract`. A refusal is justified by
  the check that made it; an acceptance needs that whoever is past a check has
  passed it, with the handler and the reading of the clock it still holds.
- `JWTExchangeAnswers_proofs`: `AcceptedAtOneInstant`, `RefusedForAReason`,
  `RoundTrip`, `UnverifiedIsLenient`, `ExplicitFlagCounts`, `TypeOK`. To the
  contract's invariant it adds which check a refusal is the word of, that the
  clock was read during the call, and what the issuer's token looks like until
  something damages it. For `RoundTrip` it also follows the handlers: as long as
  nobody took the issuer's away (`changed`), the dictionary has it under the
  token's name (`Untouched`) and a lookup finds it (`FoundSigner`). It rests on `ExchangeAssumption` (types of the
  constants; header dictionaries have the four fields).
- `JWK_proofs`: `TypeOK`, `FamilyMatches`, `InferredAlgorithmFits`,
  `KeepsTheUsable`, `CryptographyIsMissed`, for lists of any length. What was
  constructed passed the checks of its construction (`ConstructedFamily`,
  `ConstructedCurve`); the invariant carries that through the loop: kept keys
  were usable (`KeptUsable`), and what the loop has passed is kept or was no use
  (`PassedSettled`). It rests on `JWKAssumption` (the constants are JWKs).

- `Codec_proofs`: what the conversions of `jwt/utils.py` promise, for numbers and
  bytes of any length: `BytesSurviveText`, `NumberSurvivesText`,
  `SignatureSurvivesRaw`, `RawIsTheOneWriting`. A text with a line break in it is
  decoded if the number of bytes is a multiple of three and refused otherwise,
  because the break is counted when pads are added (`LettersSurvive`). The recursive functions of
  `Codec` are shown to exist first (`Iteration`, `Recursion`). What is true of
  every length is proved from a least counterexample (`Induction`), because the
  library's induction theorems take an operator. The decoder's scan is followed
  letter by letter, with the letters read so far as its invariant. No assumption.
- `KeyLife_proofs`: `PreparedFits`, `KeyTextsAreRecognised`, `SignatureVerifies`,
  `AcceptedSignatureIsExact` and `ExportedKeyComesBack`, for any keys and texts.
  Each handler takes an object of its family or a text its loaders read (`RsaTakes`,
  `EcTakes`, `OkpTakes`), and every format a loader reads is in the tables HMAC
  compares with (`Loaders`). The invariant says that a key from
  `ready` on is what `prepare_key` made of something (`Usable`). Preparing such
  a key again, or its public half, changes nothing but the half (`PreparedAgain`,
  `HalfIsUsable`), so the verifier has the key that signed (`Signed`), and the
  theorems of `Codec_proofs` say what the bytes of the signature stand for. It
  rests on `KeyLifeAssumption`, on `SignatureAssumption` (the numbers of a
  signature are below the order of the curve, and the order takes no more bytes
  than the curve's size), and on the loaders' formats as `KeyFamilies` gives
  them.

  For `ExportedKeyComesBack` a document is taken by what its texts stand for
  (`RsaDoc`, `EcDoc`, `OkpDoc`, `HmacDoc`): `to_jwk` writes one that says what the
  key is (`RsaWrites` and its like), a text on its way keeps its meaning or loses
  its last byte (`CarriedText`), and from a document of the same meaning
  `from_jwk` makes the same key (`WrittenReads`), which no check of the handler
  refuses (`WrittenIsAccepted`), under the name PyJWK is given or infers
  (`ReadUnder`), with the length that name asks for (`UsableUnder`). A shorter
  text is "short" on a curve, and numbers the package refuses in a private RSA
  key (`CutReads`). The invariant (`JInv`) adds that the document is what `to_jwk`
  made of `exported`, but for one text, and that a key whose document was not
  harmed is still good for its name. What the property alone does not say, and a
  step needs, is where the key came from: only an object that is its key, and a
  text that is its bytes (`Told`), can be told apart after the way through a JWK.
  Besides the assumptions above it rests on `GenuineAssumption` (what a generated
  key consists of; no two RSA keys have all numbers but one in common, and the
  private bytes of an Ed key determine it), `WidthAssumption` (the bytes in
  `_JWK_EC_CURVES` are those `key_size` takes) and `LengthAssumption` (HS256 and
  RS256, the names PyJWK infers, ask for the shortest keys). TLC evaluates all of
  them for the keys of `key_life`.

Model-checked only: `EveryCallReturns`, `RotationReachesCallers` and
`UnfitAnswersEnd` (liveness under fairness, out of the prover's reach).

## Not modelled

- The `cryptography` package, `hmac`, `base64` and HTTP below `urlopen`: external.
- `compute_hash_digest` (a call of the package), the JSON of `_parse_jwk_json`
  and `_serialize_jwk`, the deprecation and key length warnings.
- `jwt/algorithms.py` is shadowed by the package of that name; `help.py`,
  `exceptions.py`, `warnings.py`, `types.py` and `__init__.py` keep no state.
- A thread killed in the middle of a call: nothing outlives the process.

## Plan

Done, in this order: the client and its cache (most state, most interleavings);
the registry; options, claims, JWS, the exchange; the keys; the abstract
specifications of the client and of a decode; the handlers and the conversions;
proofs of each.

Next:

1. Documents of `JWKSClient` given by their keys instead of their shape, with the
   verdicts of `JWK`: which of the three errors a caller sees follows from them.
2. `kid` in `KeyLife`: a set of keys written, carried and looked up again.
