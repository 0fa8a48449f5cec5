----------------------------- MODULE JWKSClient -----------------------------
(***************************************************************************)
(* PyJWKClient (jwt/jwks_client.py) called by several threads against an    *)
(* endpoint that rotates its keys, may answer late and may fail.            *)
(*                                                                         *)
(* Every thread runs one call at a time.  The steps between which another   *)
(* thread can change what this one has seen are steps of the model: the     *)
(* lookup and the store of the lru_cache wrapper, the loads of              *)
(* JWKSetCache.get, the HTTP exchange, and the two stores of                *)
(* JWKSetCache.put.  What follows the fetch reads only the thread's own     *)
(* data: it is one step per way it can end.                                *)
(***************************************************************************)
EXTENDS JWKSetCache, Sequences
SX == INSTANCE SequencesExt

CONSTANTS
    Threads,
    Kids,           \* key ids a caller asks for (or a token's header names)
    NoKid,          \* the "kid" of a call that takes none
    Docs,           \* bodies the endpoint may publish
    CacheJwkSet,    \* cache_jwk_set
    CacheKeys,      \* cache_keys
    MaxCachedKeys,  \* max_cached_keys
    MaxPublished    \* bound: versions the endpoint publishes in a behaviour

(* A body is JSON, and "null", some other non-object, an object PyJWKSet    *)
(* cannot build a set from ("unusable"), or one it can ("set"); "keys" are  *)
(* the kids that get_signing_keys keeps.                                    *)
Shapes == {"null", "notobject", "unusable", "set"}

ASSUME ClientAssumption ==
    /\ Docs \subseteq [shape : Shapes, keys : SUBSET Kids]
    /\ NoKid \notin Kids
    /\ CacheJwkSet \in BOOLEAN
    /\ CacheKeys \in BOOLEAN
    /\ MaxCachedKeys \in Nat \ {0}
    /\ MaxPublished \in Nat

VARIABLES
    published,      \* the documents the endpoint has served, oldest first
    pc,             \* where each thread is
    call,           \* the frame of each thread's call
    lru,            \* the wrapper's entries, least recently used first
    writer,         \* history: the thread that stored the present _jwk_set
    held            \* history: time since that thread's put(), up to Horizon

vars == <<cacheVars, published, pc, call, lru, writer, held>>

Ops == {"get_jwk_set", "get_signing_keys", "get_signing_key"}

(* How an exchange fails: urlopen or the timeout ("connection"), a body     *)
(* that is not JSON, a connection cut while the body is read.               *)
Failures == {"connection", "not_json", "cut_off"}

Raises == Failures \cup
          {"not_object", "set_error", "no_signing_keys", "no_match"}

Outcomes == {"none", "ok", "cached_key"} \cup Raises

Labels == {"idle", "lookup", "check", "recheck", "compare", "take",
           "request", "put", "stamp", "fetched", "parse", "store", "done"}

Version == 0..Len(published)        \* NoSet, or a document's index

Frame ==
    [op      : Ops \cup {"none"},
     kid     : Kids \cup {NoKid},
     refresh : BOOLEAN,
     data    : Nat,                 \* "data" of get_jwk_set: a version
     failure : Failures \cup {"none"}, \* the exception fetch_data has in flight
     outcome : Outcomes,
     fetches : 0..3,                \* history: requests sent, up to 3
     since   : Nat]                 \* history: Len(published) at the call

Blank ==
    [op |-> "none", kid |-> NoKid, refresh |-> FALSE, data |-> NoSet,
     failure |-> "none", outcome |-> "none", fetches |-> 0, since |-> 0]

KeyEntry == [kid : Kids \cup {NoKid}, ver : Nat]

Init ==
    /\ CacheInit
    /\ \E d \in Docs : published = <<d>>
    /\ pc = [t \in Threads |-> "idle"]
    /\ call = [t \in Threads |-> Blank]
    /\ lru = <<>>
    /\ writer \in Threads
    /\ held = 0

-----------------------------------------------------------------------------
(* What a document says.                                                    *)

Body(v) == published[v]
KeysOf(v) == Body(v).keys
Usable(v) == Body(v).shape = "set"

Goto(t, label) == pc' = [pc EXCEPT ![t] = label]

Finish(t, result) ==
    /\ call' = [call EXCEPT ![t].outcome = result]
    /\ Goto(t, "done")

LocalOnly == UNCHANGED <<cacheVars, published, lru, writer, held>>

\* Mutant: a refresh is answered from the cache as well.
FirstStepCached(refresh) == IF CacheJwkSet THEN "check" ELSE "request"

\* Where get_jwk_set(refresh) starts: the cache unless bypassed or absent.
FirstStep(refresh) ==
    IF CacheJwkSet /\ ~refresh THEN "check" ELSE "request"

-----------------------------------------------------------------------------
(* A call arrives.  get_signing_key_from_jwt is get_signing_key of the kid  *)
(* it reads in the unverified header: a kid of no document stands for a     *)
(* header without one, since match_kid then finds nothing either.           *)

Begin(t, op, kid, refresh, label) ==
    /\ pc[t] = "idle"
    /\ call' = [call EXCEPT ![t] =
                  [Blank EXCEPT !.op = op, !.kid = kid, !.refresh = refresh,
                                !.since = Len(published)]]
    /\ Goto(t, label)
    /\ LocalOnly

CallWithRefresh(t) ==
    \E op \in {"get_jwk_set", "get_signing_keys"}, refresh \in BOOLEAN :
        Begin(t, op, NoKid, refresh, FirstStep(refresh))

\* get_signing_key_from_jwt too, with the kid of a token that decode_token
\* can read: of any other it raises before it looks at the client.
CallGetSigningKey(t) ==
    \E kid \in Kids :
        Begin(t, "get_signing_key", kid, FALSE,
              IF CacheKeys THEN "lookup" ELSE FirstStep(FALSE))

-----------------------------------------------------------------------------
(* functools.lru_cache around get_signing_key (external).                   *)

EntriesFor(kid) == {i \in 1..Len(lru) : lru[i].kid = kid}

LruHit(t) ==
    /\ pc[t] = "lookup"
    /\ \E i \in EntriesFor(call[t].kid) :
         /\ lru' = Append(SX!RemoveAt(lru, i), lru[i])
         /\ call' = [call EXCEPT ![t].data = lru[i].ver,
                                 ![t].outcome = "cached_key"]
    /\ Goto(t, "done")
    /\ UNCHANGED <<cacheVars, published, writer, held>>

LruMiss(t) ==
    /\ pc[t] = "lookup"
    /\ EntriesFor(call[t].kid) = {}
    /\ Goto(t, FirstStep(FALSE))
    /\ UNCHANGED call
    /\ LocalOnly

\* Mutant: the client asks lru_cache for one entry more than max_cached_keys.
LruAddOneTooMany(entry) ==
    IF EntriesFor(entry.kid) # {} THEN lru
    ELSE IF Len(lru) <= MaxCachedKeys THEN Append(lru, entry)
    ELSE Append(Tail(lru), entry)

LruAdd(entry) ==
    IF EntriesFor(entry.kid) # {} THEN lru
    ELSE IF Len(lru) < MaxCachedKeys THEN Append(lru, entry)
    ELSE Append(Tail(lru), entry)

LruStore(t) ==
    /\ pc[t] = "store"
    /\ lru' = LruAdd([kid |-> call[t].kid, ver |-> call[t].data])
    /\ Goto(t, "done")
    /\ UNCHANGED <<cacheVars, published, call, writer, held>>

-----------------------------------------------------------------------------
(* JWKSetCache.get: three loads of _jwk_set and one of _timestamp.          *)

\* "self._jwk_set is None"
CacheCheck(t) ==
    /\ pc[t] = "check"
    /\ Goto(t, IF jwkSet = NoSet THEN "request" ELSE "recheck")
    /\ UNCHANGED call
    /\ LocalOnly

\* is_expired: "self._jwk_set is not None"
CacheRecheck(t) ==
    /\ pc[t] = "recheck"
    /\ Goto(t, IF jwkSet = NoSet THEN "take" ELSE "compare")
    /\ UNCHANGED call
    /\ LocalOnly

\* is_expired: the comparison with the clock
CacheCompare(t) ==
    /\ pc[t] = "compare"
    /\ Goto(t, IF Expired THEN "request" ELSE "take")
    /\ UNCHANGED call
    /\ LocalOnly

\* Mutant: a set handed out is as good as new.
CacheTakeSliding(t) ==
    /\ pc[t] = "take"
    /\ call' = [call EXCEPT ![t].data = jwkSet]
    /\ Goto(t, IF jwkSet = NoSet THEN "request" ELSE "parse")
    /\ PutStamp(jwkSet)
    /\ UNCHANGED <<published, lru, writer, held>>

\* Mutant: a set that was there at the check is taken to be there still.
CacheTakeUnchecked(t) ==
    /\ pc[t] = "take"
    /\ call' = [call EXCEPT ![t].data = jwkSet]
    /\ Goto(t, "parse")
    /\ LocalOnly

\* "return self._jwk_set", and "if data is None" of get_jwk_set
CacheTake(t) ==
    /\ pc[t] = "take"
    /\ call' = [call EXCEPT ![t].data = jwkSet]
    /\ Goto(t, IF jwkSet = NoSet THEN "request" ELSE "parse")
    /\ LocalOnly

-----------------------------------------------------------------------------
(* fetch_data.  The document is chosen when the endpoint answers; the       *)
(* thread may be delayed arbitrarily before it stores it.                   *)

\* Where the exchange ends: "finally: self.jwk_set_cache.put(jwk_set)"
AfterExchange == IF CacheJwkSet THEN "put" ELSE "fetched"

Sent(t) == IF call[t].fetches < 3 THEN call[t].fetches + 1 ELSE 3

Answer(t) ==
    /\ pc[t] = "request"
    /\ call' = [call EXCEPT
                  ![t].data = IF Body(Len(published)).shape = "null"
                              THEN NoSet ELSE Len(published),
                  ![t].fetches = Sent(t)]
    /\ Goto(t, AfterExchange)
    /\ LocalOnly

\* An exception is in flight and jwk_set stays None.  URLError and
\* TimeoutError are translated, the others escape as they are.
FailExchange(t) ==
    /\ pc[t] = "request"
    /\ \E failure \in Failures :
         /\ call' = [call EXCEPT ![t].data = NoSet,
                                 ![t].failure = failure,
                                 ![t].fetches = Sent(t)]
         /\ Goto(t, AfterExchange)
    /\ LocalOnly

StoreSet(t) ==
    /\ pc[t] = "put"
    /\ PutSet(call[t].data)
    /\ writer' = t
    /\ held' = 0
    /\ Goto(t, "stamp")
    /\ UNCHANGED <<published, call, lru>>

StoreStamp(t) ==
    /\ pc[t] = "stamp"
    /\ PutStamp(call[t].data)
    /\ held' = IF writer = t THEN 0 ELSE held
    /\ Goto(t, "fetched")
    /\ UNCHANGED <<published, call, lru, writer>>

RaiseFetchError(t) ==
    /\ pc[t] = "fetched"
    /\ call[t].failure # "none"
    /\ Finish(t, call[t].failure)
    /\ LocalOnly

\* Mutant: the answer is read back from the cache it was stored in.
DeliverCached(t) ==
    /\ pc[t] = "fetched"
    /\ call[t].failure = "none"
    /\ call' = [call EXCEPT ![t].data = jwkSet]
    /\ Goto(t, "parse")
    /\ LocalOnly

DeliverFetched(t) ==
    /\ pc[t] = "fetched"
    /\ call[t].failure = "none"
    /\ Goto(t, "parse")
    /\ UNCHANGED call
    /\ LocalOnly

-----------------------------------------------------------------------------
(* The rest of the call, in the order of the code: the isinstance check,    *)
(* PyJWKSet.from_dict, the filter of get_signing_keys, match_kid.           *)

HasObject(t) ==
    /\ call[t].data # NoSet
    /\ Body(call[t].data).shape # "notobject"

HasSet(t) == HasObject(t) /\ Usable(call[t].data)

HasKeys(t) == HasSet(t) /\ KeysOf(call[t].data) # {}

\* Mutant: any key of the set will do.
MatchesAny(t) == KeysOf(call[t].data) # {}

Matches(t) == call[t].kid \in KeysOf(call[t].data)

RaiseNotObject(t) ==
    /\ pc[t] = "parse"
    /\ ~HasObject(t)
    /\ Finish(t, "not_object")
    /\ LocalOnly

RaiseSetError(t) ==
    /\ pc[t] = "parse"
    /\ HasObject(t)
    /\ ~HasSet(t)
    /\ Finish(t, "set_error")
    /\ LocalOnly

ReturnSet(t) ==
    /\ pc[t] = "parse"
    /\ HasSet(t)
    /\ call[t].op = "get_jwk_set"
    /\ Finish(t, "ok")
    /\ LocalOnly

RaiseNoSigningKeys(t) ==
    /\ pc[t] = "parse"
    /\ HasSet(t)
    /\ call[t].op # "get_jwk_set"
    /\ ~HasKeys(t)
    /\ Finish(t, "no_signing_keys")
    /\ LocalOnly

ReturnKeys(t) ==
    /\ pc[t] = "parse"
    /\ HasKeys(t)
    /\ call[t].op = "get_signing_keys"
    /\ Finish(t, "ok")
    /\ LocalOnly

ReturnMatch(t) ==
    /\ pc[t] = "parse"
    /\ HasKeys(t)
    /\ call[t].op = "get_signing_key"
    /\ Matches(t)
    /\ call' = [call EXCEPT ![t].outcome = "ok"]
    /\ Goto(t, IF CacheKeys THEN "store" ELSE "done")
    /\ LocalOnly

\* Mutant: every miss retries.
RetryForever(t) ==
    /\ pc[t] = "parse"
    /\ HasKeys(t)
    /\ call[t].op = "get_signing_key"
    /\ ~Matches(t)
    /\ call' = [call EXCEPT ![t].refresh = TRUE]
    /\ Goto(t, FirstStep(TRUE))
    /\ LocalOnly

\* Mutant: the retry does not bypass the cache.
RetryFromCache(t) ==
    /\ pc[t] = "parse"
    /\ HasKeys(t)
    /\ call[t].op = "get_signing_key"
    /\ ~Matches(t)
    /\ ~call[t].refresh
    /\ call' = [call EXCEPT ![t].refresh = TRUE]
    /\ Goto(t, FirstStep(FALSE))
    /\ LocalOnly

\* No match: once more, with refresh=True.
Retry(t) ==
    /\ pc[t] = "parse"
    /\ HasKeys(t)
    /\ call[t].op = "get_signing_key"
    /\ ~Matches(t)
    /\ ~call[t].refresh
    /\ call' = [call EXCEPT ![t].refresh = TRUE]
    /\ Goto(t, FirstStep(TRUE))
    /\ LocalOnly

RaiseNoMatch(t) ==
    /\ pc[t] = "parse"
    /\ HasKeys(t)
    /\ call[t].op = "get_signing_key"
    /\ ~Matches(t)
    /\ call[t].refresh
    /\ Finish(t, "no_match")
    /\ LocalOnly

\* The caller has its answer; the frame is gone.
Return(t) ==
    /\ pc[t] = "done"
    /\ call' = [call EXCEPT ![t] = Blank]
    /\ Goto(t, "idle")
    /\ LocalOnly

-----------------------------------------------------------------------------
(* The world: the endpoint publishes its next document, the clock ticks.    *)

Publish ==
    /\ Len(published) < MaxPublished
    /\ \E d \in Docs : published' = Append(published, d)
    /\ UNCHANGED <<cacheVars, pc, call, lru, writer, held>>

Tick ==
    /\ uptime < Horizon \/ age < Horizon \/ held < Horizon
    /\ CacheTick
    /\ held' = Older(held)
    /\ UNCHANGED <<published, pc, call, lru, writer>>

Running(t) ==
    \/ LruHit(t) \/ LruMiss(t) \/ LruStore(t)
    \/ CacheCheck(t) \/ CacheRecheck(t) \/ CacheCompare(t) \/ CacheTake(t)
    \/ Answer(t) \/ FailExchange(t)
    \/ StoreSet(t) \/ StoreStamp(t)
    \/ RaiseFetchError(t) \/ DeliverFetched(t)
    \/ RaiseNotObject(t) \/ RaiseSetError(t) \/ ReturnSet(t)
    \/ RaiseNoSigningKeys(t) \/ ReturnKeys(t)
    \/ ReturnMatch(t) \/ Retry(t) \/ RaiseNoMatch(t)
    \/ Return(t)

Next ==
    \/ \E t \in Threads :
         CallWithRefresh(t) \/ CallGetSigningKey(t) \/ Running(t)
    \/ Publish
    \/ Tick

Spec == Init /\ [][Next]_vars

(* A call in progress is never abandoned: urlopen has a timeout, so the     *)
(* exchange ends one way or the other, and the rest is the thread's code.   *)
(* The clock advances.  Nobody has to call, publish or succeed.             *)
FairSpec == Spec /\ WF_vars(Tick) /\ \A t \in Threads : WF_vars(Running(t))

-----------------------------------------------------------------------------
(* Properties.                                                              *)

(* Every variable keeps to the values the code can give it; the key cache   *)
(* never outgrows max_cached_keys.                                          *)
TypeOK ==
    /\ published \in Seq(Docs)
    /\ Len(published) > 0
    /\ jwkSet \in Version
    /\ age \in 0..Horizon
    /\ uptime \in 0..Horizon
    /\ held \in 0..Horizon
    /\ writer \in Threads
    /\ pc \in [Threads -> Labels]
    /\ call \in [Threads -> Frame]
    /\ \A t \in Threads : call[t].data \in Version /\ call[t].since \in Version
    /\ lru \in Seq(KeyEntry)
    /\ \A i \in 1..Len(lru) : lru[i].ver \in Version
    /\ Len(lru) <= MaxCachedKeys

HoldsKey(v, kid) ==
    /\ v \in 1..Len(published)
    /\ Usable(v)
    /\ kid \in KeysOf(v)

(* A key that get_signing_key hands out, from the response or from the key  *)
(* cache, is one the endpoint published under the kid that was asked for,   *)
(* whatever other threads did to the caches in between.                     *)
Provenance ==
    /\ \A i \in 1..Len(lru) : HoldsKey(lru[i].ver, lru[i].kid)
    /\ \A t \in Threads :
         /\ call[t].op = "get_signing_key"
         /\ call[t].outcome \in {"ok", "cached_key"}
         => HoldsKey(call[t].data, call[t].kid)

(* "Unable to find a signing key that matches" is never said because of a   *)
(* stale set: a document without the kid was the endpoint's current one at  *)
(* some moment of this very call.                                           *)
NotFoundIsCurrent ==
    \A t \in Threads : call[t].outcome = "no_match" =>
        /\ call[t].data \in call[t].since..Len(published)
        /\ ~HoldsKey(call[t].data, call[t].kid)

(* A call that went to the network answers from what it fetched itself: not *)
(* from an older set another thread left in the cache meanwhile.            *)
FetchedIsCurrent ==
    \A t \in Threads : call[t].outcome = "ok" /\ call[t].fetches > 0 =>
        call[t].data \in call[t].since..Len(published)

(* One request per call, and one more when get_signing_key misses.          *)
FetchBudget ==
    \A t \in Threads :
        call[t].fetches <= IF call[t].op = "get_signing_key" THEN 2 ELSE 1

(* An error that blames the endpoint's document is about a document the     *)
(* endpoint really published: the None another thread leaves in the cache   *)
(* between the loads of get() is never taken for an answer.                 *)
ErrorsBlameTheEndpoint ==
    \A t \in Threads :
        /\ call[t].outcome = "not_object" =>
             \E v \in 1..Len(published) :
                Body(v).shape \in {"null", "notobject"}
        /\ call[t].outcome = "set_error" =>
             \E v \in 1..Len(published) : Body(v).shape = "unusable"
        /\ call[t].outcome = "no_signing_keys" =>
             \E v \in 1..Len(published) : Usable(v) /\ KeysOf(v) = {}

(* lifespan is "Time in seconds before the cached JWK Set expires": get()   *)
(* finds a set fresh only within lifespan of the put() that stored it.      *)
ServedWithinLifespan ==
    [][\A t \in Threads :
          pc[t] = "compare" /\ pc'[t] = "take" => held <= Lifespan]_vars

(* The parts of the inductive invariant that the properties above rest on.  *)

\* How many requests a call can have behind it, and what it can carry, by
\* where it is.
CallState(t) ==
    LET c == call[t]
        again == IF c.op = "get_signing_key" /\ c.refresh THEN 1 ELSE 0
    IN  /\ pc[t] \in {"idle", "lookup", "check", "recheck", "compare", "take"}
             => c.fetches = 0 /\ ~c.refresh
        /\ pc[t] = "request" => c.fetches <= again
        /\ pc[t] \in {"put", "stamp", "fetched", "parse", "store", "done"}
             => c.fetches <= 1 + again
        /\ pc[t] \in {"put", "stamp", "fetched"} => c.fetches > 0
        /\ pc[t] = "parse" /\ c.refresh => c.fetches > 0
        /\ pc[t] \notin {"put", "stamp", "fetched", "done"}
             => c.failure = "none"
        /\ pc[t] \notin {"store", "done"} => c.outcome = "none"
        /\ pc[t] = "store" => c.op = "get_signing_key" /\ c.outcome = "ok"

CallStates == \A t \in Threads : CallState(t)

Fetched(t) ==
    pc[t] \in {"put", "stamp", "fetched", "parse"} /\ call[t].fetches > 0

\* What a call holds after a fetch is what the endpoint served during it.
FetchedDuringCall ==
    \A t \in Threads : Fetched(t) =>
        call[t].data = NoSet \/ call[t].since <= call[t].data

\* A "null" body is None everywhere, and None without an exception in
\* flight is a "null" body.
NullIsNone ==
    /\ jwkSet # NoSet => Body(jwkSet).shape # "null"
    /\ \A t \in Threads :
         /\ call[t].data # NoSet => Body(call[t].data).shape # "null"
         /\ /\ pc[t] \in {"put", "stamp", "fetched", "parse"}
            /\ call[t].data = NoSet
            /\ call[t].failure = "none"
            => \E v \in 1..Len(published) : Body(v).shape = "null"

IInv ==
    /\ TypeOK
    /\ CallStates
    /\ Provenance
    /\ FetchedDuringCall
    /\ NotFoundIsCurrent
    /\ FetchedIsCurrent
    /\ FetchBudget
    /\ NullIsNone
    /\ ErrorsBlameTheEndpoint

(* Every call ends, whatever the endpoint and the other threads do.         *)
EveryCallReturns ==
    \A t \in Threads : pc[t] # "idle" ~> pc[t] = "idle"

(* Once the endpoint stops rotating, what calls answer from is its current  *)
(* document: no interleaving keeps an old set alive in the cache for ever.  *)
(* (Without the key cache, which never expires.)                            *)
RotationReachesCallers ==
    <>[](\A t \in Threads :
            call[t].outcome = "ok" => call[t].data = Len(published))

(* A bad document is not served for ever: once the endpoint's last one has  *)
(* usable keys, there comes a time after which no call blames a document,   *)
(* although fetch_data caches a body before anyone has looked at it.        *)
UnfitAnswersEnd ==
    <>[](Usable(Len(published)) /\ KeysOf(Len(published)) # {} =>
            \A t \in Threads : call[t].outcome \notin
                {"not_object", "set_error", "no_signing_keys"})

-----------------------------------------------------------------------------
(* The client is a directory of the endpoint's documents: what happens      *)
(* between a call and its answer is nobody else's business.                 *)

PhaseOf(t) ==
    IF pc[t] = "idle" THEN "idle"
    ELSE IF pc[t] = "done" THEN "answered" ELSE "asked"

\* The retry of get_signing_key refreshes on its own account.
QueryOf(t) ==
    [op |-> call[t].op, kid |-> call[t].kid,
     refresh |-> call[t].refresh /\ call[t].op # "get_signing_key",
     since |-> call[t].since]

AnswerOf(t) ==
    IF pc[t] = "done" THEN [outcome |-> call[t].outcome, data |-> call[t].data]
                      ELSE [outcome |-> "none", data |-> 0]

Directory == INSTANCE KeyDirectory WITH
    phase  <- [t \in Threads |-> PhaseOf(t)],
    query  <- [t \in Threads |-> QueryOf(t)],
    answer <- [t \in Threads |-> AnswerOf(t)]

(* With both caches, its retries and any number of threads, the client      *)
(* answers as a directory without a cache could have answered: every result *)
(* and every error is justified by a document of the endpoint, misses and   *)
(* refreshes by one that was current during the call.                       *)
ImplementsDirectory == Directory!Spec
=============================================================================
