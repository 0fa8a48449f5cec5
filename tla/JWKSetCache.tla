---------------------------- MODULE JWKSetCache ----------------------------
(***************************************************************************)
(* The response cache of PyJWKClient (jwt/jwk_set_cache.py).  The object    *)
(* has two fields and no lock.  A method is a handful of loads and stores,  *)
(* and another thread may run between any two of them, so this module      *)
(* offers the loads and stores; JWKSClient strings them together in the    *)
(* order of put() and get().                                               *)
(*                                                                         *)
(* A cached JWK Set is the version of the endpoint's document it was        *)
(* parsed from.  The timestamp is kept as its distance from                *)
(* time.monotonic(): only "distance > lifespan" is ever asked, so the      *)
(* distance and the clock stop growing at Horizon.                         *)
(***************************************************************************)
EXTENDS Naturals

CONSTANT Lifespan       \* JWKSetCache.lifespan, in ticks of the clock

ASSUME LifespanAssumption == Lifespan \in Nat \ {0}

VARIABLES
    jwkSet,             \* _jwk_set: a version, or NoSet for None
    age,                \* time.monotonic() - _timestamp, up to Horizon
    uptime              \* time.monotonic(), up to Horizon

cacheVars == <<jwkSet, age, uptime>>

NoSet == 0
Horizon == Lifespan + 1
Older(n) == IF n < Horizon THEN n + 1 ELSE n

(* monotonic() starts anywhere: its zero may be the boot of the machine. *)
CacheInit ==
    /\ jwkSet = NoSet
    /\ uptime \in 0..Horizon
    /\ age = uptime

\* put(): "self._jwk_set = ..."
PutSet(v) ==
    /\ jwkSet' = v
    /\ UNCHANGED <<age, uptime>>

(* put(): "self._timestamp = time.monotonic()", or 0.0 when clearing.  The  *)
(* clock is read and the field stored in one step: a thread held up between *)
(* the two leaves a set that expires early, never late.                     *)
PutStamp(v) ==
    /\ age' = IF v = NoSet THEN uptime ELSE 0
    /\ UNCHANGED <<jwkSet, uptime>>

\* Mutant: a set about to expire is dropped, one past its time kept.
ExpiredSwapped == age < Lifespan

(* is_expired(), after its own None check: the clock and the two fields are *)
(* read in one step.  "lifespan > -1" always holds, for PyJWKClient refuses *)
(* a lifespan that is not above zero (LifespanAssumption).                  *)
Expired == age > Lifespan

CacheTick ==
    /\ uptime' = Older(uptime)
    /\ age' = Older(age)
    /\ UNCHANGED jwkSet
=============================================================================
