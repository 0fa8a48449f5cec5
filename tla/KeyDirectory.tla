---------------------------- MODULE KeyDirectory ----------------------------
(***************************************************************************)
(* What PyJWKClient promises its callers, whatever it caches and however    *)
(* its threads meet: a directory of the documents the endpoint has          *)
(* published.  A caller asks, the directory answers once, in one step, and  *)
(* every answer is justified by a document.  JWKSClient implements this.    *)
(***************************************************************************)
EXTENDS Naturals, Sequences

CONSTANTS Threads, Kids, NoKid, Docs

VARIABLES
    published,      \* the documents, oldest first
    phase,          \* of each thread: "idle", "asked" or "answered"
    query,          \* what it asked, and Len(published) when it did
    answer          \* the outcome, and the document behind it

vars == <<published, phase, query, answer>>

Nothing == [op |-> "none", kid |-> NoKid, refresh |-> FALSE, since |-> 0]
Pending == [outcome |-> "none", data |-> 0]

Queries(now) ==
    [op : {"get_jwk_set", "get_signing_keys"}, kid : {NoKid},
     refresh : BOOLEAN, since : {now}]
    \cup [op : {"get_signing_key"}, kid : Kids, refresh : {FALSE},
          since : {now}]

Init ==
    /\ \E d \in Docs : published = <<d>>
    /\ phase = [t \in Threads |-> "idle"]
    /\ query = [t \in Threads |-> Nothing]
    /\ answer = [t \in Threads |-> Pending]

-----------------------------------------------------------------------------

Versions == 1..Len(published)

Since(q) == {v \in Versions : q.since <= v}

HoldsKey(v, kid) == published[v].shape = "set" /\ kid \in published[v].keys

(* A set or its keys come from a document with a usable set, from one of    *)
(* this call if it asked for a refresh;  a key was published under its kid. *)
Delivers(q, v) ==
    /\ v \in Versions
    /\ published[v].shape = "set"
    /\ q.refresh => v \in Since(q)
    /\ q.op = "get_signing_keys" => published[v].keys # {}
    /\ q.op = "get_signing_key" => HoldsKey(v, q.kid)

(* A cached key may be old, but was published under its kid.  A key is      *)
(* missed only in a document that was the current one during the call.  A   *)
(* complaint about the document is about a published one.  The network may  *)
(* fail at any time.                                                        *)
Justified(q, a) ==
    \/ a.outcome = "ok" /\ Delivers(q, a.data)
    \/ /\ a.outcome = "cached_key"
       /\ a.data \in Versions /\ HoldsKey(a.data, q.kid)
    \/ /\ a.outcome = "no_match" /\ q.op = "get_signing_key"
       /\ a.data \in Since(q) /\ ~HoldsKey(a.data, q.kid)
    \/ /\ a.outcome = "no_signing_keys" /\ q.op # "get_jwk_set"
       /\ \E v \in Versions : published[v].shape = "set"
                              /\ published[v].keys = {}
    \/ /\ a.outcome = "not_object"
       /\ \E v \in Versions : published[v].shape \in {"null", "notobject"}
    \/ /\ a.outcome = "set_error"
       /\ \E v \in Versions : published[v].shape = "unusable"
    \/ a.outcome \in {"connection", "not_json", "cut_off"}

Ask(t) ==
    /\ phase[t] = "idle"
    /\ phase' = [phase EXCEPT ![t] = "asked"]
    /\ \E q \in Queries(Len(published)) : query' = [query EXCEPT ![t] = q]
    /\ UNCHANGED <<published, answer>>

Answer(t) ==
    /\ phase[t] = "asked"
    /\ phase' = [phase EXCEPT ![t] = "answered"]
    /\ answer' = [answer EXCEPT ![t] = answer'[t]]
    /\ Justified(query[t], answer'[t])
    /\ UNCHANGED <<published, query>>

Forget(t) ==
    /\ phase[t] = "answered"
    /\ phase' = [phase EXCEPT ![t] = "idle"]
    /\ query' = [query EXCEPT ![t] = Nothing]
    /\ answer' = [answer EXCEPT ![t] = Pending]
    /\ UNCHANGED published

Publish ==
    /\ \E d \in Docs : published' = Append(published, d)
    /\ UNCHANGED <<phase, query, answer>>

Next == (\E t \in Threads : Ask(t) \/ Answer(t) \/ Forget(t)) \/ Publish

Spec == Init /\ [][Next]_vars
=============================================================================
