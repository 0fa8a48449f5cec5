----------------------- MODULE AlgorithmRegistry_proofs -----------------------
(***************************************************************************)
(* The registry's properties for any number of threads, names and handlers. *)
(*                                                                         *)
(* Each property speaks of names no two calls have met on.  The inductive   *)
(* invariant says what such a name's one busy call may rely on at each of   *)
(* its steps, and that the name is settled when no call is busy with it.    *)
(***************************************************************************)
EXTENDS AlgorithmRegistry, TLAPS

BusyPlaces == Places \ {"idle", "done"}

\* A busy call has its name to itself, or the name is contended.
Alone ==
    \A r, s \in Registrars :
        /\ r # s
        /\ at[r] \in BusyPlaces /\ at[s] \in BusyPlaces
        /\ job[r].name = job[s].name
        => job[r].name \in contended

\* A name nobody is busy with is listed if it has a handler.
Settled ==
    \A name \in Names \ contended :
        (\A r \in Registrars : at[r] \in BusyPlaces => job[r].name # name)
            => (name \in DOMAIN algorithms => name \in validAlgs)

\* What a call relies on where it is.
Promise(r) ==
    /\ at[r] \in {"check_free", "check_known"} =>
          (job[r].name \in DOMAIN algorithms => job[r].name \in validAlgs)
    /\ at[r] = "assign" => job[r].name \notin DOMAIN algorithms
    /\ at[r] = "delete" =>
          job[r].name \in DOMAIN algorithms /\ job[r].name \in validAlgs
    /\ at[r] = "unlist" =>
          job[r].name \notin DOMAIN algorithms /\ job[r].name \in validAlgs

Promises ==
    \A r \in Registrars :
        at[r] \in BusyPlaces /\ job[r].name \notin contended => Promise(r)

\* Only a handler comes as far as the assignment.
Typed ==
    \A r \in Registrars : at[r] = "assign" => job[r].object \in Handlers

IInv ==
    /\ RegistryTypeOK
    /\ Typed
    /\ Alone
    /\ Settled
    /\ Promises
    /\ OnlyRacesBreakUnregister

-----------------------------------------------------------------------------
(* Types of the two shapes a step has.                                      *)

LEMMA EndType ==
  ASSUME RegistryTypeOK, NEW r \in Registrars, NEW from,
         NEW outcome \in RaisesOfRegistry \cup {"none", "ok"},
         End(r, from, outcome)
  PROVE  /\ at' \in [Registrars -> Places]
         /\ job' \in [Registrars -> Jobs]
<1>1. job[r] \in Jobs
  BY DEF RegistryTypeOK
<1> DEFINE ended == [job[r] EXCEPT !.outcome = outcome]
<1>2. ended \in Jobs
  BY <1>1 DEF Jobs
<1>3. job' = [job EXCEPT ![r] = ended]
  BY DEF End
<1> HIDE DEF ended
<1>4. QED
  BY <1>2, <1>3 DEF RegistryTypeOK, End, Places

LEMMA StepType ==
  ASSUME RegistryTypeOK, NEW r \in Registrars, NEW from, NEW to \in Places,
         Step(r, from, to)
  PROVE  /\ at' \in [Registrars -> Places]
         /\ job' \in [Registrars -> Jobs]
  BY DEF RegistryTypeOK, Step

-----------------------------------------------------------------------------
(* The invariant holds at first.                                            *)

LEMMA InitIInv == RegistryInit => IInv
<1> SUFFICES ASSUME RegistryInit PROVE IInv
  OBVIOUS
<1>1. RegistryTypeOK
  BY RegistryAssumption
  DEF RegistryInit, RegistryTypeOK, Places, Jobs, RaisesOfRegistry
<1>2. Typed /\ Alone /\ Promises /\ OnlyRacesBreakUnregister
  BY DEF RegistryInit, Typed, Alone, Promises, OnlyRacesBreakUnregister,
         BusyPlaces
<1>3. Settled
  BY DEF RegistryInit, Settled
<1>4. QED
  BY <1>1, <1>2, <1>3 DEF IInv

-----------------------------------------------------------------------------
(* Every step of a call keeps it.                                           *)

(* A call to register_algorithm.                                            *)
LEMMA StepCallRegister ==
  ASSUME IInv, NEW r \in Registrars, CallRegister(r)
  PROVE  IInv'
<1> USE DEF IInv
<1>a. /\ at \in [Registrars -> Places]
      /\ job \in [Registrars -> Jobs]
  BY DEF RegistryTypeOK
<1>b. at' \in [Registrars -> Places] /\ job' \in [Registrars -> Jobs]
  BY <1>a DEF CallRegister, Call, Places, Jobs
<1>c. contended' \subseteq Names
  BY DEF CallRegister, Call, RegistryTypeOK
<1>1. RegistryTypeOK'
  BY <1>b, <1>c DEF CallRegister, Call, Busy, RegistryTypeOK, Places, Jobs, RaisesOfRegistry
<1>2. Typed'
  BY <1>b, <1>c DEF CallRegister, Call, Busy, Typed, RegistryTypeOK, Places, Jobs
<1>3. Alone'
  BY <1>b, <1>c DEF CallRegister, Call, Busy, Alone, RegistryTypeOK, BusyPlaces, Places
<1>4. Settled'
  BY <1>b, <1>c DEF CallRegister, Call, Busy, Settled, Alone, Promises, Promise, RegistryTypeOK, BusyPlaces, Places, Jobs
<1>5. Promises'
  BY <1>b, <1>c DEF CallRegister, Call, Busy, Promises, Promise, Settled, Alone, RegistryTypeOK, BusyPlaces, Places, Jobs
<1>6. OnlyRacesBreakUnregister'
  BY <1>b, <1>c DEF CallRegister, Call, Busy, OnlyRacesBreakUnregister, Promises, Promise, RegistryTypeOK, BusyPlaces, Places, Jobs, RaisesOfRegistry
<1>7. QED
  BY <1>1, <1>2, <1>3, <1>4, <1>5, <1>6

(* A call to unregister_algorithm.                                          *)
LEMMA StepCallUnregister ==
  ASSUME IInv, NEW r \in Registrars, CallUnregister(r)
  PROVE  IInv'
<1> USE DEF IInv
<1>a. /\ at \in [Registrars -> Places]
      /\ job \in [Registrars -> Jobs]
  BY DEF RegistryTypeOK
<1>b. at' \in [Registrars -> Places] /\ job' \in [Registrars -> Jobs]
  BY <1>a DEF CallUnregister, Call, Places, Jobs
<1>c. contended' \subseteq Names
  BY DEF CallUnregister, Call, RegistryTypeOK
<1>1. RegistryTypeOK'
  BY <1>b, <1>c DEF CallUnregister, Call, Busy, RegistryTypeOK, Places, Jobs, RaisesOfRegistry
<1>2. Typed'
  BY <1>b, <1>c DEF CallUnregister, Call, Busy, Typed, RegistryTypeOK, Places, Jobs
<1>3. Alone'
  BY <1>b, <1>c DEF CallUnregister, Call, Busy, Alone, RegistryTypeOK, BusyPlaces, Places
<1>4. Settled'
  BY <1>b, <1>c DEF CallUnregister, Call, Busy, Settled, Alone, Promises, Promise, RegistryTypeOK, BusyPlaces, Places, Jobs
<1>5. Promises'
  BY <1>b, <1>c DEF CallUnregister, Call, Busy, Promises, Promise, Settled, Alone, RegistryTypeOK, BusyPlaces, Places, Jobs
<1>6. OnlyRacesBreakUnregister'
  BY <1>b, <1>c DEF CallUnregister, Call, Busy, OnlyRacesBreakUnregister, Promises, Promise, RegistryTypeOK, BusyPlaces, Places, Jobs, RaisesOfRegistry
<1>7. QED
  BY <1>1, <1>2, <1>3, <1>4, <1>5, <1>6

(* The refusal of a duplicate.                                              *)
LEMMA StepRefuseDuplicate ==
  ASSUME IInv, NEW r \in Registrars, RefuseDuplicate(r)
  PROVE  IInv'
<1> USE DEF IInv
<1>1. RegistryTypeOK'
  <2>1. at' \in [Registrars -> Places] /\ job' \in [Registrars -> Jobs]
    BY EndType DEF RefuseDuplicate, RaisesOfRegistry
  <2>2. QED
    BY <2>1 DEF RefuseDuplicate, End, RegistryTypeOK
<1>2. Typed'
  BY DEF RefuseDuplicate, End, Registered, Typed, RegistryTypeOK, Places, Jobs
<1>3. Alone'
  BY DEF RefuseDuplicate, End, Registered, Alone, RegistryTypeOK, BusyPlaces, Places
<1>4. Settled'
  BY DEF RefuseDuplicate, End, Registered, Settled, Alone, Promises, Promise, RegistryTypeOK, BusyPlaces, Places, Jobs
<1>5. Promises'
  BY DEF RefuseDuplicate, End, Registered, Promises, Promise, Settled, Alone, RegistryTypeOK, BusyPlaces, Places, Jobs
<1>6. OnlyRacesBreakUnregister'
  BY DEF RefuseDuplicate, End, Registered, OnlyRacesBreakUnregister, Promises, Promise, RegistryTypeOK, BusyPlaces, Places, Jobs, RaisesOfRegistry
<1>7. QED
  BY <1>1, <1>2, <1>3, <1>4, <1>5, <1>6

(* The refusal of an object that is no Algorithm.                           *)
LEMMA StepRefuseType ==
  ASSUME IInv, NEW r \in Registrars, RefuseType(r)
  PROVE  IInv'
<1> USE DEF IInv
<1>1. RegistryTypeOK'
  <2>1. at' \in [Registrars -> Places] /\ job' \in [Registrars -> Jobs]
    BY EndType DEF RefuseType, RaisesOfRegistry
  <2>2. QED
    BY <2>1 DEF RefuseType, End, RegistryTypeOK
<1>2. Typed'
  BY DEF RefuseType, End, Registered, Typed, RegistryTypeOK, Places, Jobs
<1>3. Alone'
  BY DEF RefuseType, End, Registered, Alone, RegistryTypeOK, BusyPlaces, Places
<1>4. Settled'
  BY DEF RefuseType, End, Registered, Settled, Alone, Promises, Promise, RegistryTypeOK, BusyPlaces, Places, Jobs
<1>5. Promises'
  BY DEF RefuseType, End, Registered, Promises, Promise, Settled, Alone, RegistryTypeOK, BusyPlaces, Places, Jobs
<1>6. OnlyRacesBreakUnregister'
  BY DEF RefuseType, End, Registered, OnlyRacesBreakUnregister, Promises, Promise, RegistryTypeOK, BusyPlaces, Places, Jobs, RaisesOfRegistry
<1>7. QED
  BY <1>1, <1>2, <1>3, <1>4, <1>5, <1>6

(* The check that lets a registration pass.                                 *)
LEMMA StepFindFree ==
  ASSUME IInv, NEW r \in Registrars, FindFree(r)
  PROVE  IInv'
<1> USE DEF IInv
<1>1. RegistryTypeOK'
  <2>1. at' \in [Registrars -> Places] /\ job' \in [Registrars -> Jobs]
    BY StepType DEF FindFree, Places
  <2>2. QED
    BY <2>1 DEF FindFree, Step, RegistryTypeOK
<1>2. Typed'
  BY DEF FindFree, Step, Registered, Typed, RegistryTypeOK, Places, Jobs
<1>3. Alone'
  BY DEF FindFree, Step, Registered, Alone, RegistryTypeOK, BusyPlaces, Places
<1>4. Settled'
  BY DEF FindFree, Step, Registered, Settled, Alone, Promises, Promise, RegistryTypeOK, BusyPlaces, Places, Jobs
<1>5. Promises'
  BY DEF FindFree, Step, Registered, Promises, Promise, Settled, Alone, RegistryTypeOK, BusyPlaces, Places, Jobs
<1>6. OnlyRacesBreakUnregister'
  BY DEF FindFree, Step, Registered, OnlyRacesBreakUnregister, Promises, Promise, RegistryTypeOK, BusyPlaces, Places, Jobs, RaisesOfRegistry
<1>7. QED
  BY <1>1, <1>2, <1>3, <1>4, <1>5, <1>6

(* The store of the handler.                                                *)
LEMMA StepAssign ==
  ASSUME IInv, NEW r \in Registrars, Assign(r)
  PROVE  IInv'
<1> USE DEF IInv
<1>a. /\ DOMAIN algorithms' = DOMAIN algorithms \cup {job[r].name}
      /\ algorithms'[job[r].name] = job[r].object
      /\ \A n \in DOMAIN algorithms \ {job[r].name} :
            algorithms'[n] = algorithms[n]
      /\ algorithms' = [n \in DOMAIN algorithms' |-> algorithms'[n]]
  BY DEF Assign, Put
<1>b. job[r].object \in Handlers /\ job[r].name \in Names
  BY DEF Assign, Step, Typed, RegistryTypeOK, Jobs
<1>1. RegistryTypeOK'
  BY <1>a, <1>b DEF Assign, Step, RegistryTypeOK, Places, Jobs, RaisesOfRegistry
<1>2. Typed'
  BY <1>a, <1>b DEF Assign, Step, Typed, RegistryTypeOK, Places, Jobs
<1>3. Alone'
  BY <1>a, <1>b DEF Assign, Step, Alone, RegistryTypeOK, BusyPlaces, Places
<1>4. Settled'
  BY <1>a, <1>b DEF Assign, Step, Settled, Alone, Promises, Promise, RegistryTypeOK, BusyPlaces, Places, Jobs
<1>5. Promises'
  BY <1>a, <1>b DEF Assign, Step, Promises, Promise, Settled, Alone, RegistryTypeOK, BusyPlaces, Places, Jobs
<1>6. OnlyRacesBreakUnregister'
  BY <1>a, <1>b DEF Assign, Step, OnlyRacesBreakUnregister, Promises, Promise, RegistryTypeOK, BusyPlaces, Places, Jobs, RaisesOfRegistry
<1>7. QED
  BY <1>1, <1>2, <1>3, <1>4, <1>5, <1>6

(* The name joins the list.                                                 *)
LEMMA StepList ==
  ASSUME IInv, NEW r \in Registrars, List(r)
  PROVE  IInv'
<1> USE DEF IInv
<1>1. RegistryTypeOK'
  BY DEF List, End, RegistryTypeOK, Places, Jobs, RaisesOfRegistry
<1>2. Typed'
  BY DEF List, End, Typed, RegistryTypeOK, Places, Jobs
<1>3. Alone'
  BY DEF List, End, Alone, RegistryTypeOK, BusyPlaces, Places
<1>4. Settled'
  BY DEF List, End, Settled, Alone, Promises, Promise, RegistryTypeOK, BusyPlaces, Places, Jobs
<1>5. Promises'
  BY DEF List, End, Promises, Promise, Settled, Alone, RegistryTypeOK, BusyPlaces, Places, Jobs
<1>6. OnlyRacesBreakUnregister'
  BY DEF List, End, OnlyRacesBreakUnregister, Promises, Promise, RegistryTypeOK, BusyPlaces, Places, Jobs, RaisesOfRegistry
<1>7. QED
  BY <1>1, <1>2, <1>3, <1>4, <1>5, <1>6

(* The refusal of an unknown name.                                          *)
LEMMA StepRefuseUnknown ==
  ASSUME IInv, NEW r \in Registrars, RefuseUnknown(r)
  PROVE  IInv'
<1> USE DEF IInv
<1>1. RegistryTypeOK'
  <2>1. at' \in [Registrars -> Places] /\ job' \in [Registrars -> Jobs]
    BY EndType DEF RefuseUnknown, RaisesOfRegistry
  <2>2. QED
    BY <2>1 DEF RefuseUnknown, End, RegistryTypeOK
<1>2. Typed'
  BY DEF RefuseUnknown, End, Registered, Typed, RegistryTypeOK, Places, Jobs
<1>3. Alone'
  BY DEF RefuseUnknown, End, Registered, Alone, RegistryTypeOK, BusyPlaces, Places
<1>4. Settled'
  BY DEF RefuseUnknown, End, Registered, Settled, Alone, Promises, Promise, RegistryTypeOK, BusyPlaces, Places, Jobs
<1>5. Promises'
  BY DEF RefuseUnknown, End, Registered, Promises, Promise, Settled, Alone, RegistryTypeOK, BusyPlaces, Places, Jobs
<1>6. OnlyRacesBreakUnregister'
  BY DEF RefuseUnknown, End, Registered, OnlyRacesBreakUnregister, Promises, Promise, RegistryTypeOK, BusyPlaces, Places, Jobs, RaisesOfRegistry
<1>7. QED
  BY <1>1, <1>2, <1>3, <1>4, <1>5, <1>6

(* The check that lets an unregistration pass.                              *)
LEMMA StepFindKnown ==
  ASSUME IInv, NEW r \in Registrars, FindKnown(r)
  PROVE  IInv'
<1> USE DEF IInv
<1>1. RegistryTypeOK'
  <2>1. at' \in [Registrars -> Places] /\ job' \in [Registrars -> Jobs]
    BY StepType DEF FindKnown, Places
  <2>2. QED
    BY <2>1 DEF FindKnown, Step, RegistryTypeOK
<1>2. Typed'
  BY DEF FindKnown, Step, Registered, Typed, RegistryTypeOK, Places, Jobs
<1>3. Alone'
  BY DEF FindKnown, Step, Registered, Alone, RegistryTypeOK, BusyPlaces, Places
<1>4. Settled'
  BY DEF FindKnown, Step, Registered, Settled, Alone, Promises, Promise, RegistryTypeOK, BusyPlaces, Places, Jobs
<1>5. Promises'
  BY DEF FindKnown, Step, Registered, Promises, Promise, Settled, Alone, RegistryTypeOK, BusyPlaces, Places, Jobs
<1>6. OnlyRacesBreakUnregister'
  BY DEF FindKnown, Step, Registered, OnlyRacesBreakUnregister, Promises, Promise, RegistryTypeOK, BusyPlaces, Places, Jobs, RaisesOfRegistry
<1>7. QED
  BY <1>1, <1>2, <1>3, <1>4, <1>5, <1>6

(* The removal of the handler.                                              *)
LEMMA StepDelete ==
  ASSUME IInv, NEW r \in Registrars, Delete(r)
  PROVE  IInv'
<1> USE DEF IInv
<1>a. /\ DOMAIN algorithms' = DOMAIN algorithms \ {job[r].name}
      /\ \A n \in DOMAIN algorithms' : algorithms'[n] = algorithms[n]
      /\ algorithms' = [n \in DOMAIN algorithms' |-> algorithms'[n]]
  BY DEF Delete, Del
<1>1. RegistryTypeOK'
  <2>1. at' \in [Registrars -> Places] /\ job' \in [Registrars -> Jobs]
    BY StepType DEF Delete, Places
  <2>2. QED
    BY <1>a, <2>1 DEF Delete, Step, RegistryTypeOK
<1>2. Typed'
  BY <1>a DEF Delete, Step, Registered, Typed, RegistryTypeOK, Places, Jobs
<1>3. Alone'
  BY <1>a DEF Delete, Step, Registered, Alone, RegistryTypeOK, BusyPlaces, Places
<1>4. Settled'
  BY <1>a DEF Delete, Step, Registered, Settled, Alone, Promises, Promise, RegistryTypeOK, BusyPlaces, Places, Jobs
<1>5. Promises'
  BY <1>a DEF Delete, Step, Registered, Promises, Promise, Settled, Alone, RegistryTypeOK, BusyPlaces, Places, Jobs
<1>6. OnlyRacesBreakUnregister'
  BY <1>a DEF Delete, Step, Registered, OnlyRacesBreakUnregister, Promises, Promise, RegistryTypeOK, BusyPlaces, Places, Jobs, RaisesOfRegistry
<1>7. QED
  BY <1>1, <1>2, <1>3, <1>4, <1>5, <1>6

(* The removal of a handler that is gone.                                   *)
LEMMA StepFailDelete ==
  ASSUME IInv, NEW r \in Registrars, FailDelete(r)
  PROVE  IInv'
<1> USE DEF IInv
<1>1. RegistryTypeOK'
  <2>1. at' \in [Registrars -> Places] /\ job' \in [Registrars -> Jobs]
    BY EndType DEF FailDelete, RaisesOfRegistry
  <2>2. QED
    BY <2>1 DEF FailDelete, End, RegistryTypeOK
<1>2. Typed'
  BY DEF FailDelete, End, Registered, Typed, RegistryTypeOK, Places, Jobs
<1>3. Alone'
  BY DEF FailDelete, End, Registered, Alone, RegistryTypeOK, BusyPlaces, Places
<1>4. Settled'
  BY DEF FailDelete, End, Registered, Settled, Alone, Promises, Promise, RegistryTypeOK, BusyPlaces, Places, Jobs
<1>5. Promises'
  BY DEF FailDelete, End, Registered, Promises, Promise, Settled, Alone, RegistryTypeOK, BusyPlaces, Places, Jobs
<1>6. OnlyRacesBreakUnregister'
  BY DEF FailDelete, End, Registered, OnlyRacesBreakUnregister, Promises, Promise, RegistryTypeOK, BusyPlaces, Places, Jobs, RaisesOfRegistry
<1>7. QED
  BY <1>1, <1>2, <1>3, <1>4, <1>5, <1>6

(* The name leaves the list.                                                *)
LEMMA StepUnlist ==
  ASSUME IInv, NEW r \in Registrars, Unlist(r)
  PROVE  IInv'
<1> USE DEF IInv
<1>1. RegistryTypeOK'
  BY DEF Unlist, End, RegistryTypeOK, Places, Jobs, RaisesOfRegistry
<1>2. Typed'
  BY DEF Unlist, End, Typed, RegistryTypeOK, Places, Jobs
<1>3. Alone'
  BY DEF Unlist, End, Alone, RegistryTypeOK, BusyPlaces, Places
<1>4. Settled'
  BY DEF Unlist, End, Settled, Alone, Promises, Promise, RegistryTypeOK, BusyPlaces, Places, Jobs
<1>5. Promises'
  BY DEF Unlist, End, Promises, Promise, Settled, Alone, RegistryTypeOK, BusyPlaces, Places, Jobs
<1>6. OnlyRacesBreakUnregister'
  BY DEF Unlist, End, OnlyRacesBreakUnregister, Promises, Promise, RegistryTypeOK, BusyPlaces, Places, Jobs, RaisesOfRegistry
<1>7. QED
  BY <1>1, <1>2, <1>3, <1>4, <1>5, <1>6

(* The removal of a name that is not listed.                                *)
LEMMA StepFailUnlist ==
  ASSUME IInv, NEW r \in Registrars, FailUnlist(r)
  PROVE  IInv'
<1> USE DEF IInv
<1>1. RegistryTypeOK'
  BY DEF FailUnlist, End, RegistryTypeOK, Places, Jobs, RaisesOfRegistry
<1>2. Typed'
  BY DEF FailUnlist, End, Typed, RegistryTypeOK, Places, Jobs
<1>3. Alone'
  BY DEF FailUnlist, End, Alone, RegistryTypeOK, BusyPlaces, Places
<1>4. Settled'
  BY DEF FailUnlist, End, Settled, Alone, Promises, Promise, RegistryTypeOK, BusyPlaces, Places, Jobs
<1>5. Promises'
  BY DEF FailUnlist, End, Promises, Promise, Settled, Alone, RegistryTypeOK, BusyPlaces, Places, Jobs
<1>6. OnlyRacesBreakUnregister'
  BY DEF FailUnlist, End, OnlyRacesBreakUnregister, Promises, Promise, RegistryTypeOK, BusyPlaces, Places, Jobs, RaisesOfRegistry
<1>7. QED
  BY <1>1, <1>2, <1>3, <1>4, <1>5, <1>6

(* The call is over.                                                        *)
LEMMA StepLeave ==
  ASSUME IInv, NEW r \in Registrars, Leave(r)
  PROVE  IInv'
<1> USE DEF IInv
<1>1. RegistryTypeOK'
  BY DEF Leave, RegistryTypeOK, Places, Jobs, RaisesOfRegistry
<1>2. Typed'
  BY DEF Leave, Typed, RegistryTypeOK, Places, Jobs
<1>3. Alone'
  BY DEF Leave, Alone, RegistryTypeOK, BusyPlaces, Places
<1>4. Settled'
  BY DEF Leave, Settled, Alone, Promises, Promise, RegistryTypeOK, BusyPlaces, Places, Jobs
<1>5. Promises'
  BY DEF Leave, Promises, Promise, Settled, Alone, RegistryTypeOK, BusyPlaces, Places, Jobs
<1>6. OnlyRacesBreakUnregister'
  BY DEF Leave, OnlyRacesBreakUnregister, Promises, Promise, RegistryTypeOK, BusyPlaces, Places, Jobs, RaisesOfRegistry
<1>7. QED
  BY <1>1, <1>2, <1>3, <1>4, <1>5, <1>6

-----------------------------------------------------------------------------

LEMMA NextIInv == IInv /\ [RegistryNext]_registryVars => IInv'
<1> SUFFICES ASSUME IInv, [RegistryNext]_registryVars PROVE IInv'
  OBVIOUS
<1>1. ASSUME NEW r \in Registrars, Registering(r) PROVE IInv'
  <2>1. CASE \/ CallRegister(r) \/ RefuseDuplicate(r) \/ RefuseType(r)
             \/ FindFree(r) \/ Assign(r) \/ List(r)
    BY <2>1, StepCallRegister, StepRefuseDuplicate, StepRefuseType,
       StepFindFree, StepAssign, StepList
  <2>2. CASE \/ CallUnregister(r) \/ RefuseUnknown(r) \/ FindKnown(r)
             \/ Delete(r) \/ FailDelete(r) \/ Unlist(r) \/ FailUnlist(r)
    BY <2>2, StepCallUnregister, StepRefuseUnknown, StepFindKnown,
       StepDelete, StepFailDelete, StepUnlist, StepFailUnlist
  <2>3. CASE Leave(r)
    BY <2>3, StepLeave
  <2>4. QED
    BY <1>1, <2>1, <2>2, <2>3 DEF Registering
<1>2. CASE UNCHANGED registryVars
  BY <1>2 DEF registryVars, IInv, RegistryTypeOK, Typed, Alone, Settled,
     Promises, Promise, OnlyRacesBreakUnregister
<1>3. QED
  BY <1>1, <1>2 DEF RegistryNext

(* The invariant holds in every state of the registry.                      *)
THEOREM Invariance == RegistrySpec => []IInv
<1>1. QED
  BY InitIInv, NextIInv, PTL DEF RegistrySpec

(* The fields keep their types, for any threads and names.                  *)
THEOREM RegistryTyped == RegistrySpec => []RegistryTypeOK
<1>1. IInv => RegistryTypeOK
  BY DEF IInv
<1>2. QED
  BY <1>1, Invariance, PTL

(* The dictionary and the list agree on every name no two calls met on: the *)
(* assignments of register_algorithm and the removals of                    *)
(* unregister_algorithm come in pairs.                                      *)
THEOREM HandlersAreListedHolds == RegistrySpec => []HandlersAreListed
<1>1. IInv => HandlersAreListed
  BY DEF IInv, Settled, HandlersAreListed, Busy, BusyPlaces, RegistryTypeOK,
         Places
<1>2. QED
  BY <1>1, Invariance, PTL

(* A KeyError of "del" or "remove" takes two calls on one name.             *)
THEOREM OnlyRacesBreakUnregisterHolds ==
  RegistrySpec => []OnlyRacesBreakUnregister
<1>1. IInv => OnlyRacesBreakUnregister
  BY DEF IInv
<1>2. QED
  BY <1>1, Invariance, PTL

(* A registered handler is not replaced unless two calls met on its name:   *)
(* the check of register_algorithm still holds when it stores.              *)
THEOREM NeverReplacedHolds == RegistrySpec => NeverReplaced
<1> DEFINE Kept == \A name \in (DOMAIN algorithms \cap DOMAIN algorithms')
                              \ contended :
                      algorithms'[name] = algorithms[name]
<1>1. ASSUME IInv, [RegistryNext]_registryVars PROVE [Kept]_registryVars
  <2>1. ASSUME NEW r \in Registrars, Assign(r) PROVE Kept
    <3>1. \A n \in DOMAIN algorithms \ {job[r].name} :
             algorithms'[n] = algorithms[n]
      BY <2>1 DEF Assign, Put
    <3>2. job[r].name \notin contended => job[r].name \notin DOMAIN algorithms
      BY <1>1, <2>1 DEF IInv, Promises, Promise, BusyPlaces, Places, Assign, Step
    <3>3. QED
      BY <3>1, <3>2
  <2>2. ASSUME NEW r \in Registrars, Delete(r) PROVE Kept
    BY <2>2 DEF Delete, Del
  <2>3. ASSUME NEW r \in Registrars, Registering(r), ~Assign(r), ~Delete(r)
        PROVE  UNCHANGED algorithms
    BY <2>3 DEF Registering, CallRegister, CallUnregister, Call,
       RefuseDuplicate, RefuseType, FindFree, List, RefuseUnknown, FindKnown,
       FailDelete, Unlist, FailUnlist, Leave
  <2>4. QED
    BY <1>1, <2>1, <2>2, <2>3 DEF RegistryNext
<1>2. QED
  BY <1>1, Invariance, PTL DEF RegistrySpec, NeverReplaced

(* A completed unregister_algorithm leaves neither a handler nor a listed   *)
(* name behind.                                                             *)
THEOREM UnregisterRemovesBothHolds == RegistrySpec => UnregisterRemovesBoth
<1> DEFINE Gone == \A r \in Registrars :
                     at[r] = "unlist" /\ at'[r] = "done"
                       /\ job[r].name \notin contended
                     => job[r].name \notin DOMAIN algorithms' \cup validAlgs'
<1>1. ASSUME IInv, [RegistryNext]_registryVars PROVE [Gone]_registryVars
  <2> SUFFICES ASSUME NEW s \in Registrars, Registering(s),
                      NEW r \in Registrars,
                      at[r] = "unlist", at'[r] = "done",
                      job[r].name \notin contended
               PROVE  job[r].name \notin DOMAIN algorithms' \cup validAlgs'
    BY <1>1 DEF RegistryNext
  <2>1. job[r].name \notin DOMAIN algorithms /\ job[r].name \in validAlgs
    BY <1>1 DEF IInv, Promises, Promise, BusyPlaces, Places
  <2>2. s = r
    BY <1>1 DEF IInv, RegistryTypeOK, Registering, CallRegister, CallUnregister,
       Call, Step, End, RefuseDuplicate, RefuseType, FindFree, Assign, List,
       RefuseUnknown, FindKnown, Delete, FailDelete, Unlist, FailUnlist, Leave
  <2>3. Unlist(r)
    BY <2>1, <2>2 DEF Registering, CallRegister, CallUnregister, Call, Step,
       End, RefuseDuplicate, RefuseType, FindFree, Assign, List, RefuseUnknown,
       FindKnown, Delete, FailDelete, FailUnlist, Leave
  <2>4. QED
    BY <2>1, <2>3 DEF Unlist
<1>2. QED
  BY <1>1, Invariance, PTL DEF RegistrySpec, UnregisterRemovesBoth
=============================================================================
