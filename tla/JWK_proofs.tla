----------------------------- MODULE JWK_proofs -----------------------------
(***************************************************************************)
(* Theorems about JWK.  A key that is kept was constructed, and what the    *)
(* checks of its construction say of it holds for any JWKs; the loop's      *)
(* invariant carries that through the list.                                 *)
(***************************************************************************)
EXTENDS JWK, TLAPS

KeptUsable ==
    \A j \in 1..Len(kept) : KeyVerdict(given[kept[j]]) = "ok"

\* What the loop has passed is kept, or was no key of use.
PassedSettled ==
    op = "set" => \A i \in 1..(next - 1) :
        \/ /\ KeyVerdict(given[i]) = "ok"
           /\ \E j \in 1..Len(kept) : kept[j] = i
        \/ KeyVerdict(given[i]) \in Unusable

KeptInOrder ==
    op = "set" =>
        /\ \A j \in 1..Len(kept) : kept[j] < next
        /\ \A i, j \in 1..Len(kept) : i < j => kept[i] < kept[j]

EndsBehindTheList ==
    op = "set" /\ outcome \in {"ok", "PyJWKSetError"} => next = Len(given) + 1

OneKey ==
    op = "key" =>
        /\ Len(given) = 1
        /\ outcome # "PyJWKSetError"
        /\ outcome = "ok" => KeyVerdict(given[1]) = "ok"

IInv ==
    /\ TypeOK
    /\ OneKey
    /\ KeptUsable
    /\ PassedSettled
    /\ KeptInOrder
    /\ EndsBehindTheList

-----------------------------------------------------------------------------
(* What a verdict is, and what "ok" says of the key.                        *)

Verdicts ==
    {"ok", "MissingCryptographyError"} \cup Unusable \cup Escapes

(* Every check ends in one of the classes the model names.                  *)
LEMMA VerdictType == \A jwk : KeyVerdict(jwk) \in Verdicts
<1>1. \A jwk : HmacKey(jwk) \in Verdicts
  BY DEF HmacKey, Then, Raise, Read, Verdicts, Unusable, Escapes
<1>2. \A jwk : RsaKey(jwk) \in Verdicts
  BY DEF RsaKey, RsaPrivate, RsaPublic, Then, Raise, Read, Verdicts, Unusable,
         Escapes
<1>3. \A jwk : EcKey(jwk) \in Verdicts
  BY DEF EcKey, EcPrivate, EcPublic, EcCurveVerdict, Then, Raise, Read,
         Verdicts, Unusable, Escapes
<1>4. \A jwk : OkpKey(jwk) \in Verdicts
  BY DEF OkpKey, Then, Raise, Read, Verdicts, Unusable, Escapes
<1>5. \A alg, jwk : FromJwk(alg, jwk) \in Verdicts
  BY <1>1, <1>2, <1>3, <1>4 DEF FromJwk, Verdicts, Escapes
<1>6. QED
  BY <1>5 DEF KeyVerdict, Then, Raise, Verdicts, Unusable, Escapes

(* from_jwk of a handler accepts keys of its own type only.                 *)
LEMMA HandlersCheckType ==
  /\ \A jwk : HmacKey(jwk) = "ok" => jwk.kty = "oct"
  /\ \A jwk : RsaKey(jwk) = "ok" => jwk.kty = "RSA"
  /\ \A jwk : EcKey(jwk) = "ok" => jwk.kty = "EC"
  /\ \A jwk : OkpKey(jwk) = "ok" => jwk.kty = "OKP"
  BY DEF HmacKey, RsaKey, EcKey, OkpKey, Then, Raise

(* A constructed key has an algorithm of the library, and its handler       *)
(* accepted it.                                                             *)
LEMMA ConstructedKey ==
  \A jwk : KeyVerdict(jwk) = "ok" =>
      /\ AlgorithmName(jwk) \in DefaultAlgorithms
      /\ FromJwk(AlgorithmName(jwk), jwk) = "ok"
  BY DEF KeyVerdict, Then, Raise

(* The families share no name.                                              *)
LEMMA FamiliesApart ==
  /\ HmacNames \cap RequiresCryptography = {}
  /\ RsaNames \cap EcNames = {}
  /\ RsaNames \cap OkpNames = {}
  /\ EcNames \cap OkpNames = {}
  /\ "none" \notin HmacNames \cup RequiresCryptography
  BY DEF HmacNames, RequiresCryptography, RsaNames, EcNames, OkpNames,
         ExpectedCurve

(* The curves, name by name.                                                *)
LEMMA Curves ==
  /\ EcNames = {"ES256", "ES256K", "ES384", "ES521", "ES512"}
  /\ ExpectedCurve["ES256"] = "P-256" /\ ExpectedCurve["ES384"] = "P-384"
  /\ ExpectedCurve["ES512"] = "P-521" /\ ExpectedCurve["ES521"] = "P-521"
  /\ ExpectedCurve["ES256K"] = "secp256k1"
  BY DEF EcNames, ExpectedCurve

LEMMA ConstructedFamily ==
  \A jwk : KeyVerdict(jwk) = "ok" =>
      /\ AlgorithmName(jwk) \in HmacNames \cup RequiresCryptography
      /\ Family(AlgorithmName(jwk)) = jwk.kty
<1> SUFFICES ASSUME NEW jwk, KeyVerdict(jwk) = "ok"
             PROVE  /\ AlgorithmName(jwk) \in HmacNames \cup RequiresCryptography
                    /\ Family(AlgorithmName(jwk)) = jwk.kty
  OBVIOUS
<1> DEFINE alg == AlgorithmName(jwk)
<1>1. alg \in DefaultAlgorithms /\ FromJwk(alg, jwk) = "ok"
  BY ConstructedKey
<1>2. alg \in HmacNames \cup RequiresCryptography
  <2>1. alg # "none"
    BY <1>1, FamiliesApart DEF FromJwk, RequiresCryptography
  <2>2. QED
    BY <1>1, <2>1 DEF DefaultAlgorithms
<1>3. Family(alg) = jwk.kty
  <2>1. CASE alg \in HmacNames
    BY <1>1, <2>1, FamiliesApart, HandlersCheckType
    DEF FromJwk, Family, RequiresCryptography
  <2>2. CASE alg \in RsaNames
    BY <1>1, <2>2, FamiliesApart, HandlersCheckType
    DEF FromJwk, Family, RequiresCryptography
  <2>3. CASE alg \in EcNames
    BY <1>1, <2>3, FamiliesApart, HandlersCheckType
    DEF FromJwk, Family, RequiresCryptography
  <2>4. CASE alg \in OkpNames
    BY <1>1, <2>4, FamiliesApart, HandlersCheckType
    DEF FromJwk, Family, RequiresCryptography
  <2>5. QED
    BY <1>2, <2>1, <2>2, <2>3, <2>4 DEF RequiresCryptography
<1>4. QED
  BY <1>2, <1>3

(* The curve an inferred EC algorithm expects is the key's, unless the key  *)
(* names none; and such a key is not constructed.                           *)
LEMMA ConstructedCurve ==
  \A jwk : /\ KeyVerdict(jwk) = "ok"
           /\ algorithm = EmptyName /\ jwk.alg = EmptyName /\ jwk.kty = "EC"
      => /\ AlgorithmName(jwk) \in EcNames
         /\ ExpectedCurve[AlgorithmName(jwk)] = jwk.crv
<1> SUFFICES ASSUME NEW jwk, KeyVerdict(jwk) = "ok",
                    algorithm = EmptyName, jwk.alg = EmptyName, jwk.kty = "EC"
             PROVE  /\ AlgorithmName(jwk) \in EcNames
                    /\ ExpectedCurve[AlgorithmName(jwk)] = jwk.crv
  OBVIOUS
<1>1. AlgorithmName(jwk) = Inferred(jwk)
  BY DEF AlgorithmName
<1>2. Inferred(jwk) \in EcNames \cup {EmptyName}
  BY DEF Inferred, EcNames, ExpectedCurve, EmptyName
<1>3. Inferred(jwk) # EmptyName
  BY <1>1 DEF KeyVerdict, Then, Raise, EmptyName
<1>4. EcKey(jwk) = "ok"
  BY <1>1, <1>2, <1>3, ConstructedKey, FamiliesApart
  DEF FromJwk, RequiresCryptography
<1>5. EcCurveVerdict(jwk) = "ok"
  BY <1>4 DEF EcKey, Then
<1>6. jwk.crv # EmptyName
  BY <1>5, Curves DEF EcCurveVerdict, Raise, EmptyName
<1>7. QED
  BY <1>1, <1>3, <1>6, Curves DEF Inferred, EmptyName

(* Without the package, a key that needs it is reported.                    *)
LEMMA MissingIsReported ==
  \A jwk : ~hasCrypto /\ NeedsCryptography(jwk) =>
      KeyVerdict(jwk) = "MissingCryptographyError"
  BY DEF KeyVerdict, NeedsCryptography, Then, Raise, RequiresCryptography,
         RsaNames, EcNames, OkpNames, ExpectedCurve, EmptyName

-----------------------------------------------------------------------------
(* The loop.                                                                *)

(* A list of one.                                                           *)
LEMMA Alone ==
  \A S : \A a \in S : <<a>> \in Seq(S) /\ Len(<<a>>) = 1 /\ <<a>>[1] = a
  OBVIOUS

LEMMA InitIInv == Init => IInv
<1> SUFFICES ASSUME Init PROVE IInv
  OBVIOUS
<1>1. given \in Seq(JWKs) /\ op \in {"key", "set"} /\ OneKey
  <2>1. CASE op = "key"
    <3>1. PICK jwk \in Singles : given = <<jwk>>
      BY <2>1 DEF Init
    <3>2. given \in Seq(JWKs) /\ Len(given) = 1
      BY <3>1, Alone, JWKAssumption
    <3>3. QED
      BY <2>1, <3>2 DEF Init, OneKey
  <2>2. CASE op = "set"
    BY <2>2, JWKAssumption DEF Init, OneKey
  <2>3. QED
    BY <2>1, <2>2 DEF Init
<1>2. TypeOK
  BY <1>1 DEF Init, TypeOK
<1>3. KeptUsable /\ PassedSettled /\ KeptInOrder /\ EndsBehindTheList
  BY DEF Init, KeptUsable, PassedSettled, KeptInOrder, EndsBehindTheList
<1>4. QED
  BY <1>1, <1>2, <1>3 DEF IInv

(* A verdict is about what a step leaves alone.                             *)
LEMMA VerdictsStay ==
  ASSUME UNCHANGED inputs
  PROVE  /\ given' = given /\ op' = op
         /\ \A jwk : KeyVerdict(jwk)' = KeyVerdict(jwk)
<1>1. UNCHANGED <<hasCrypto, op, algorithm, given>>
  BY DEF inputs
<1>2. \A jwk : AlgorithmName(jwk)' = AlgorithmName(jwk)
  BY <1>1 DEF AlgorithmName
<1>3. DefaultAlgorithms' = DefaultAlgorithms
  BY <1>1 DEF DefaultAlgorithms
<1>4. QED
  BY <1>1, <1>2, <1>3 DEF KeyVerdict, NeedsCryptography

LEMMA BuildKeyKeeps == IInv /\ BuildKey => IInv'
<1> SUFFICES ASSUME IInv, BuildKey PROVE IInv'
  OBVIOUS
<1>1. /\ given' = given /\ op' = op /\ hasCrypto' = hasCrypto
      /\ \A jwk : KeyVerdict(jwk)' = KeyVerdict(jwk)
  BY VerdictsStay DEF BuildKey, inputs
<1>2. op = "key" /\ given \in Seq(JWKs) /\ Len(given) = 1
  BY DEF IInv, OneKey, TypeOK, BuildKey
<1>3. outcome' = KeyVerdict(given[1]) /\ outcome' \in Verdicts
  BY VerdictType DEF BuildKey
<1>4. /\ kept' \in Seq(1..1) /\ next' = 2
      /\ outcome' = "ok" \/ Len(kept') = 0
      /\ \A j \in 1..Len(kept') : kept'[j] = 1
  <2>1. CASE outcome' = "ok"
    <3>1. kept' = <<1>> /\ next' = 2
      BY <2>1 DEF BuildKey
    <3>2. 1 \in 1..1
      OBVIOUS
    <3>3. kept' \in Seq(1..1) /\ Len(kept') = 1 /\ kept'[1] = 1
      BY <3>1, <3>2, Alone
    <3>4. QED
      BY <2>1, <3>1, <3>3
  <2>2. CASE outcome' # "ok"
    BY <2>2 DEF BuildKey
  <2>3. QED
    BY <2>1, <2>2
<1>5. TypeOK'
  BY <1>1, <1>2, <1>3, <1>4 DEF IInv, TypeOK, Verdicts
<1>6. KeptUsable'
  BY <1>1, <1>3, <1>4 DEF KeptUsable
<1>7. OneKey'
  BY <1>1, <1>2, <1>3 DEF OneKey, Verdicts, Unusable, Escapes
<1>8. QED
  BY <1>1, <1>2, <1>5, <1>6, <1>7
  DEF IInv, PassedSettled, KeptInOrder, EndsBehindTheList

LEMMA KeepKeyKeeps == IInv /\ KeepKey => IInv'
<1> SUFFICES ASSUME IInv, KeepKey PROVE IInv'
  OBVIOUS
<1>1. /\ given' = given /\ op' = op /\ hasCrypto' = hasCrypto
      /\ \A jwk : KeyVerdict(jwk)' = KeyVerdict(jwk)
  BY VerdictsStay DEF KeepKey, inputs
<1>2. /\ op = "set" /\ outcome = "none" /\ outcome' = "none"
      /\ next \in 1..Len(given) /\ next' = next + 1
      /\ KeyVerdict(given[next]) = "ok"
      /\ given \in Seq(JWKs) /\ kept \in Seq(1..Len(given))
  BY DEF KeepKey, AtKey, IInv, TypeOK
<1>3. /\ kept' \in Seq(1..Len(given)) /\ Len(kept') = Len(kept) + 1
      /\ \A j \in 1..Len(kept) : kept'[j] = kept[j]
      /\ kept'[Len(kept) + 1] = next
  BY <1>2 DEF KeepKey
<1>4. TypeOK'
  BY <1>1, <1>2, <1>3 DEF IInv, TypeOK
<1>5. KeptUsable'
  BY <1>1, <1>2, <1>3 DEF IInv, KeptUsable
<1>6. PassedSettled'
  <2> SUFFICES ASSUME NEW i \in 1..next
               PROVE  \/ /\ KeyVerdict(given[i]) = "ok"
                         /\ \E j \in 1..Len(kept') : kept'[j] = i
                      \/ KeyVerdict(given[i]) \in Unusable
    BY <1>1, <1>2 DEF PassedSettled
  <2>1. CASE i = next
    <3>1. Len(kept) + 1 \in 1..Len(kept')
      BY <1>2, <1>3
    <3>2. QED
      BY <1>2, <1>3, <2>1, <3>1
  <2>2. CASE i # next
    <3>1. i \in 1..(next - 1)
      BY <1>2, <2>2
    <3>2. \/ /\ KeyVerdict(given[i]) = "ok"
             /\ \E j \in 1..Len(kept) : kept[j] = i
          \/ KeyVerdict(given[i]) \in Unusable
      BY <1>2, <3>1 DEF IInv, PassedSettled
    <3>3. 1..Len(kept) \subseteq 1..Len(kept')
      BY <1>2, <1>3
    <3>4. QED
      BY <1>3, <3>2, <3>3
  <2>3. QED
    BY <2>1, <2>2
<1>7. KeptInOrder'
  <2>1. /\ Len(kept) \in Nat /\ next \in Nat
        /\ \A j \in 1..Len(kept) : kept[j] \in Nat /\ kept[j] < next
        /\ \A i, j \in 1..Len(kept) : i < j => kept[i] < kept[j]
    BY <1>2 DEF IInv, KeptInOrder
  <2>2. \A j \in 1..(Len(kept) + 1) :
           j \in 1..Len(kept) \/ j = Len(kept) + 1
    BY <2>1
  <2>3. \A j \in 1..(Len(kept) + 1) : kept'[j] < next + 1
    <3> SUFFICES ASSUME NEW j \in 1..(Len(kept) + 1)
                 PROVE  kept'[j] < next + 1
      OBVIOUS
    <3>1. CASE j \in 1..Len(kept)
      <4>1. kept'[j] = kept[j] /\ kept[j] < next /\ kept[j] \in Nat
        BY <1>3, <2>1, <3>1
      <4>2. QED
        BY <2>1, <4>1
    <3>2. CASE j = Len(kept) + 1
      <4>1. kept'[j] = next
        BY <1>3, <2>1, <3>2
      <4>2. QED
        BY <2>1, <4>1
    <3>3. QED
      BY <2>2, <3>1, <3>2
  <2>4. \A i, j \in 1..(Len(kept) + 1) : i < j => kept'[i] < kept'[j]
    <3> SUFFICES ASSUME NEW i \in 1..(Len(kept) + 1),
                        NEW j \in 1..(Len(kept) + 1), i < j
                 PROVE  kept'[i] < kept'[j]
      OBVIOUS
    <3>1. i \in 1..Len(kept) /\ kept'[i] = kept[i]
      BY <1>3, <2>1
    <3>2. CASE j \in 1..Len(kept)
      BY <1>3, <2>1, <3>1, <3>2
    <3>3. CASE j = Len(kept) + 1
      BY <1>3, <2>1, <3>1, <3>3
    <3>4. QED
      BY <2>2, <3>2, <3>3
  <2>5. QED
    BY <1>2, <1>3, <2>3, <2>4 DEF KeptInOrder
<1>8. QED
  BY <1>1, <1>2, <1>4, <1>5, <1>6, <1>7 DEF IInv, OneKey, EndsBehindTheList

LEMMA SkipKeyKeeps == IInv /\ SkipKey => IInv'
<1> SUFFICES ASSUME IInv, SkipKey PROVE IInv'
  OBVIOUS
<1>1. /\ given' = given /\ op' = op /\ hasCrypto' = hasCrypto
      /\ \A jwk : KeyVerdict(jwk)' = KeyVerdict(jwk)
  BY VerdictsStay DEF SkipKey, inputs
<1>2. /\ op = "set" /\ outcome = "none" /\ outcome' = "none" /\ kept' = kept
      /\ next \in 1..Len(given) /\ next' = next + 1
      /\ KeyVerdict(given[next]) \in Unusable
      /\ given \in Seq(JWKs) /\ kept \in Seq(1..Len(given))
  BY DEF SkipKey, AtKey, IInv, TypeOK
<1>3. TypeOK'
  BY <1>1, <1>2 DEF IInv, TypeOK
<1>4. KeptUsable'
  BY <1>1, <1>2 DEF IInv, KeptUsable
<1>5. PassedSettled'
  <2> SUFFICES ASSUME NEW i \in 1..next
               PROVE  \/ /\ KeyVerdict(given[i]) = "ok"
                         /\ \E j \in 1..Len(kept) : kept[j] = i
                      \/ KeyVerdict(given[i]) \in Unusable
    BY <1>1, <1>2 DEF PassedSettled
  <2>1. CASE i = next
    BY <1>2, <2>1
  <2>2. CASE i # next
    <3>1. i \in 1..(next - 1)
      BY <1>2, <2>2
    <3>2. QED
      BY <1>2, <3>1 DEF IInv, PassedSettled
  <2>3. QED
    BY <2>1, <2>2
<1>6. KeptInOrder'
  BY <1>1, <1>2 DEF IInv, KeptInOrder
<1>7. QED
  BY <1>1, <1>2, <1>3, <1>4, <1>5, <1>6 DEF IInv, OneKey, EndsBehindTheList

LEMMA AbandonSetKeeps == IInv /\ AbandonSet => IInv'
<1> SUFFICES ASSUME IInv, AbandonSet PROVE IInv'
  OBVIOUS
<1>1. /\ given' = given /\ op' = op /\ hasCrypto' = hasCrypto
      /\ \A jwk : KeyVerdict(jwk)' = KeyVerdict(jwk)
  BY VerdictsStay DEF AbandonSet, inputs
<1>2. op = "set" /\ next' = next /\ kept' = kept
  BY DEF AbandonSet, AtKey
<1>3. outcome' \in Verdicts \ (Unusable \cup {"ok"})
  BY VerdictType DEF AbandonSet
<1>4. TypeOK'
  BY <1>1, <1>2, <1>3 DEF IInv, TypeOK, Verdicts
<1>5. KeptUsable' /\ PassedSettled' /\ KeptInOrder'
  BY <1>1, <1>2 DEF IInv, KeptUsable, PassedSettled, KeptInOrder
<1>6. EndsBehindTheList'
  BY <1>3 DEF EndsBehindTheList, Verdicts, Escapes, Unusable
<1>7. QED
  BY <1>1, <1>2, <1>4, <1>5, <1>6 DEF IInv, OneKey

LEMMA FinishSetKeeps == IInv /\ FinishSet => IInv'
<1> SUFFICES ASSUME IInv, FinishSet PROVE IInv'
  OBVIOUS
<1>1. /\ given' = given /\ op' = op /\ hasCrypto' = hasCrypto
      /\ \A jwk : KeyVerdict(jwk)' = KeyVerdict(jwk)
  BY VerdictsStay DEF FinishSet, inputs
<1>2. /\ op = "set" /\ next' = next /\ kept' = kept /\ next > Len(given)
      /\ outcome' \in {"ok", "PyJWKSetError"}
  BY DEF FinishSet
<1>3. TypeOK'
  BY <1>1, <1>2 DEF IInv, TypeOK
<1>4. KeptUsable' /\ PassedSettled' /\ KeptInOrder'
  BY <1>1, <1>2 DEF IInv, KeptUsable, PassedSettled, KeptInOrder
<1>5. EndsBehindTheList'
  <2>1. Len(given) \in Nat /\ next \in 1..(Len(given) + 1)
    BY DEF IInv, TypeOK
  <2>2. QED
    BY <1>1, <1>2, <2>1 DEF EndsBehindTheList
<1>6. QED
  BY <1>1, <1>2, <1>3, <1>4, <1>5 DEF IInv, OneKey

LEMMA StutterKeeps == IInv /\ UNCHANGED vars => IInv'
<1> SUFFICES ASSUME IInv, UNCHANGED vars PROVE IInv'
  OBVIOUS
<1>1. \A jwk : KeyVerdict(jwk)' = KeyVerdict(jwk)
  BY VerdictsStay DEF vars, inputs
<1>2. QED
  BY <1>1 DEF vars, IInv, TypeOK, OneKey, KeptUsable, PassedSettled,
              KeptInOrder, EndsBehindTheList

(* The invariant holds in every state of every call.                        *)
THEOREM Invariance == Spec => []IInv
<1>1. Init => IInv
  BY InitIInv
<1>2. IInv /\ [Next]_vars => IInv'
  BY BuildKeyKeeps, KeepKeyKeeps, SkipKeyKeeps, AbandonSetKeeps,
     FinishSetKeeps, StutterKeeps DEF Next
<1>3. QED
  BY <1>1, <1>2, PTL DEF Spec

-----------------------------------------------------------------------------
(* The properties.                                                          *)

(* Types, for any JWKs and lists.                                           *)
THEOREM TypeCorrect == Spec => []TypeOK
<1>1. IInv => TypeOK
  BY DEF IInv
<1>2. QED
  BY <1>1, Invariance, PTL

(* The handler of every key handed out is of the key's own family.          *)
THEOREM FamilyMatchesHolds == Spec => []FamilyMatches
<1>1. IInv => FamilyMatches
  BY ConstructedFamily DEF IInv, KeptUsable, FamilyMatches, Handed
<1>2. QED
  BY <1>1, Invariance, PTL

(* An inferred algorithm can be used with the curve of its key.             *)
THEOREM InferredAlgorithmFitsHolds == Spec => []InferredAlgorithmFits
<1>1. IInv => InferredAlgorithmFits
  BY ConstructedCurve DEF IInv, KeptUsable, InferredAlgorithmFits, Handed
<1>2. QED
  BY <1>1, Invariance, PTL

(* A set has all the keys that can be used, and no other.                   *)
THEOREM KeepsTheUsableHolds == Spec => []KeepsTheUsable
<1>1. IInv => KeepsTheUsable
  <2> SUFFICES ASSUME IInv, op = "set", outcome \in {"ok", "PyJWKSetError"}
               PROVE  /\ \A i \in 1..Len(given) :
                            KeyVerdict(given[i]) = "ok"
                               <=> \E j \in 1..Len(kept) : kept[j] = i
                      /\ \A i, j \in 1..Len(kept) : i < j => kept[i] < kept[j]
    BY DEF KeepsTheUsable
  <2>1. next - 1 = Len(given)
    BY DEF IInv, EndsBehindTheList, TypeOK
  <2>2. ASSUME NEW i \in 1..Len(given)
        PROVE  KeyVerdict(given[i]) = "ok"
                  <=> \E j \in 1..Len(kept) : kept[j] = i
    <3>1. \/ /\ KeyVerdict(given[i]) = "ok"
             /\ \E j \in 1..Len(kept) : kept[j] = i
          \/ KeyVerdict(given[i]) \in Unusable
      BY <2>1 DEF IInv, PassedSettled
    <3>2. "ok" \notin Unusable
      BY DEF Unusable
    <3>3. QED
      BY <3>1, <3>2 DEF IInv, KeptUsable
  <2>3. QED
    BY <2>2 DEF IInv, KeptInOrder
<1>2. QED
  BY <1>1, Invariance, PTL

(* A key that needs the missing package is not passed over in silence.      *)
THEOREM CryptographyIsMissedHolds == Spec => []CryptographyIsMissed
<1>1. IInv => CryptographyIsMissed
  <2> SUFFICES ASSUME IInv, ~hasCrypto, outcome \in {"ok", "PyJWKSetError"},
                      NEW i \in 1..Len(given), NeedsCryptography(given[i])
               PROVE  FALSE
    BY DEF CryptographyIsMissed
  <2>1. KeyVerdict(given[i]) = "MissingCryptographyError"
    BY MissingIsReported
  <2>2. KeyVerdict(given[i]) \notin Unusable \cup {"ok"}
    BY <2>1 DEF Unusable
  <2>3. CASE op = "set"
    <3>1. next - 1 = Len(given)
      BY <2>3 DEF IInv, EndsBehindTheList, TypeOK
    <3>2. QED
      BY <2>2, <2>3, <3>1 DEF IInv, PassedSettled
  <2>4. CASE op = "key"
    <3>1. outcome = "ok" /\ KeyVerdict(given[1]) = "ok" /\ Len(given) = 1
      BY <2>4 DEF IInv, OneKey
    <3>2. i = 1
      BY <3>1
    <3>3. QED
      BY <2>1, <3>1, <3>2
  <2>5. QED
    BY <2>3, <2>4 DEF IInv, TypeOK
<1>2. QED
  BY <1>1, Invariance, PTL
=============================================================================
