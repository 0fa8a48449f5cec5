-------------------------- MODULE AlgorithmRegistry --------------------------
(***************************************************************************)
(* The algorithms a PyJWS object knows (jwt/api_jws.py): a dictionary from  *)
(* names to handlers and, beside it, the set of names get_algorithms()      *)
(* lists.  register_algorithm and unregister_algorithm change first the     *)
(* one, then the other, after a check, without a lock; the module-level     *)
(* functions share one object among all threads of the process.  Each      *)
(* access to the object is a step.                                         *)
(***************************************************************************)
EXTENDS TLC

CONSTANTS
    Registrars,     \* threads that register and unregister
    Names,          \* names of algorithms
    Handlers,       \* Algorithm objects
    NotAnAlgorithm, \* an object of another type
    Defaults        \* get_default_algorithms()

ASSUME RegistryAssumption ==
    /\ Defaults \in [DOMAIN Defaults -> Handlers]
    /\ DOMAIN Defaults \subseteq Names
    /\ NotAnAlgorithm \notin Handlers
    /\ Names # {}

VARIABLES
    algorithms,     \* _algorithms
    validAlgs,      \* _valid_algs
    at,             \* where each registrar is
    job,            \* the frame of its call
    contended       \* history: names two calls were busy with at once

registryVars == <<algorithms, validAlgs, at, job, contended>>

RaisesOfRegistry == {"ValueError", "TypeError", "KeyError", "bare KeyError"}

Jobs == [name : Names,
         object : Handlers \cup {NotAnAlgorithm},
         outcome : RaisesOfRegistry \cup {"none", "ok"}]

Places == {"idle", "check_free", "assign", "list",
           "check_known", "delete", "unlist", "done"}

Put(f, name, h) ==
    [n \in DOMAIN f \cup {name} |-> IF n = name THEN h ELSE f[n]]

Del(f, name) == [n \in DOMAIN f \ {name} |-> f[n]]

(* PyJWS(algorithms) restricts the instance to any names, known or not;     *)
(* None is the names of the defaults.                                       *)
RegistryInit ==
    /\ validAlgs \in SUBSET Names
    /\ algorithms = [n \in DOMAIN Defaults \cap validAlgs |-> Defaults[n]]
    /\ at = [r \in Registrars |-> "idle"]
    /\ job = [r \in Registrars |-> [name |-> CHOOSE n \in Names : TRUE,
                                    object |-> NotAnAlgorithm,
                                    outcome |-> "none"]]
    /\ contended = {}

-----------------------------------------------------------------------------

Busy(name) == {r \in Registrars : at[r] \notin {"idle", "done"}
                                  /\ job[r].name = name}

Call(r, name, object, place) ==
    /\ at[r] = "idle"
    /\ at' = [at EXCEPT ![r] = place]
    /\ job' = [job EXCEPT ![r] = [name |-> name, object |-> object,
                                  outcome |-> "none"]]
    /\ contended' = IF Busy(name) = {} THEN contended
                                       ELSE contended \cup {name}
    /\ UNCHANGED <<algorithms, validAlgs>>

Step(r, from, to) ==
    /\ at[r] = from
    /\ at' = [at EXCEPT ![r] = to]
    /\ UNCHANGED <<job, contended>>

End(r, from, outcome) ==
    /\ at[r] = from
    /\ at' = [at EXCEPT ![r] = "done"]
    /\ job' = [job EXCEPT ![r].outcome = outcome]
    /\ UNCHANGED contended

Registered(r) == job[r].name \in DOMAIN algorithms

-----------------------------------------------------------------------------
(* register_algorithm                                                       *)

CallRegister(r) ==
    \E name \in Names, object \in Handlers \cup {NotAnAlgorithm} :
        Call(r, name, object, "check_free")

RefuseDuplicate(r) ==
    /\ Registered(r)
    /\ End(r, "check_free", "ValueError")
    /\ UNCHANGED <<algorithms, validAlgs>>

RefuseType(r) ==
    /\ ~Registered(r)
    /\ job[r].object = NotAnAlgorithm
    /\ End(r, "check_free", "TypeError")
    /\ UNCHANGED <<algorithms, validAlgs>>

\* Mutant: a name that has a handler may be registered again.
FindFreeUnchecked(r) ==
    /\ job[r].object # NotAnAlgorithm
    /\ Step(r, "check_free", "assign")
    /\ UNCHANGED <<algorithms, validAlgs>>

\* Mutant: any object will do.
FindFreeUntyped(r) ==
    /\ ~Registered(r)
    /\ Step(r, "check_free", "assign")
    /\ UNCHANGED <<algorithms, validAlgs>>

FindFree(r) ==
    /\ ~Registered(r)
    /\ job[r].object # NotAnAlgorithm
    /\ Step(r, "check_free", "assign")
    /\ UNCHANGED <<algorithms, validAlgs>>

Assign(r) ==
    /\ Step(r, "assign", "list")
    /\ algorithms' = Put(algorithms, job[r].name, job[r].object)
    /\ UNCHANGED validAlgs

\* Mutant: the second structure is forgotten.
NotListed(r) ==
    /\ End(r, "list", "ok")
    /\ UNCHANGED <<algorithms, validAlgs>>

List(r) ==
    /\ End(r, "list", "ok")
    /\ validAlgs' = validAlgs \cup {job[r].name}
    /\ UNCHANGED algorithms

-----------------------------------------------------------------------------
(* unregister_algorithm: "del" and "remove" raise a KeyError of their own   *)
(* when another thread has taken the name away since the check.             *)

CallUnregister(r) ==
    \E name \in Names : Call(r, name, NotAnAlgorithm, "check_known")

RefuseUnknown(r) ==
    /\ ~Registered(r)
    /\ End(r, "check_known", "KeyError")
    /\ UNCHANGED <<algorithms, validAlgs>>

FindKnown(r) ==
    /\ Registered(r)
    /\ Step(r, "check_known", "delete")
    /\ UNCHANGED <<algorithms, validAlgs>>

Delete(r) ==
    /\ Registered(r)
    /\ Step(r, "delete", "unlist")
    /\ algorithms' = Del(algorithms, job[r].name)
    /\ UNCHANGED validAlgs

FailDelete(r) ==
    /\ ~Registered(r)
    /\ End(r, "delete", "bare KeyError")
    /\ UNCHANGED <<algorithms, validAlgs>>

\* Mutant: a listed name outlives its handler.
UnlistLeaves(r) ==
    /\ End(r, "unlist", "ok")
    /\ UNCHANGED <<algorithms, validAlgs>>

Unlist(r) ==
    /\ job[r].name \in validAlgs
    /\ End(r, "unlist", "ok")
    /\ validAlgs' = validAlgs \ {job[r].name}
    /\ UNCHANGED algorithms

FailUnlist(r) ==
    /\ job[r].name \notin validAlgs
    /\ End(r, "unlist", "bare KeyError")
    /\ UNCHANGED <<algorithms, validAlgs>>

Leave(r) ==
    /\ at[r] = "done"
    /\ at' = [at EXCEPT ![r] = "idle"]
    /\ UNCHANGED <<algorithms, validAlgs, job, contended>>

-----------------------------------------------------------------------------

Registering(r) ==
    \/ CallRegister(r) \/ RefuseDuplicate(r) \/ RefuseType(r) \/ FindFree(r)
    \/ Assign(r) \/ List(r)
    \/ CallUnregister(r) \/ RefuseUnknown(r) \/ FindKnown(r)
    \/ Delete(r) \/ FailDelete(r) \/ Unlist(r) \/ FailUnlist(r)
    \/ Leave(r)

RegistryNext == \E r \in Registrars : Registering(r)

RegistrySpec == RegistryInit /\ [][RegistryNext]_registryVars

-----------------------------------------------------------------------------
(* What holds of the registry.                                              *)

(* The fields keep their types.                                             *)
RegistryTypeOK ==
    /\ algorithms \in [DOMAIN algorithms -> Handlers]
    /\ DOMAIN algorithms \subseteq Names
    /\ validAlgs \subseteq Names
    /\ at \in [Registrars -> Places]
    /\ job \in [Registrars -> Jobs]
    /\ contended \subseteq Names

(* As long as no two calls were busy with one name at the same time, the    *)
(* two structures agree on it between calls, whatever the other threads do  *)
(* to other names: a name with a handler is listed by get_algorithms().     *)
HandlersAreListed ==
    \A name \in DOMAIN algorithms \ contended :
        Busy(name) = {} => name \in validAlgs

(* unregister_algorithm fails between its check and its two removals only   *)
(* when two calls met on the name: the KeyError a caller sees is otherwise  *)
(* the documented one, raised before anything has changed.                  *)
OnlyRacesBreakUnregister ==
    \A r \in Registrars :
        at[r] = "done" /\ job[r].outcome = "bare KeyError"
            => job[r].name \in contended

(* A completed unregister_algorithm leaves no trace of the name: no handler *)
(* for decode to use, nothing for get_algorithms() to offer.                *)
UnregisterRemovesBoth ==
    [][\A r \in Registrars :
          at[r] = "unlist" /\ at'[r] = "done" /\ job[r].name \notin contended
              => job[r].name \notin DOMAIN algorithms' \cup validAlgs'
      ]_registryVars

(* A registered handler is never replaced, only removed, unless two calls   *)
(* met on its name: "Algorithm already has a handler" is raised instead.    *)
NeverReplaced ==
    [][\A name \in (DOMAIN algorithms \cap DOMAIN algorithms') \ contended :
          algorithms'[name] = algorithms[name]]_registryVars
=============================================================================
