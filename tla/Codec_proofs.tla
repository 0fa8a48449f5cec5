----------------------------- MODULE Codec_proofs -----------------------------
(***************************************************************************)
(* The conversions of jwt/utils.py give back what they are given, for       *)
(* numbers and bytes of any length.                                         *)
(*                                                                         *)
(* What a recursive function computes is shown by least counterexample: a   *)
(* set of naturals that is not empty has a least element.                   *)
(***************************************************************************)
EXTENDS Codec, SequenceTheorems, WellFoundedInduction, TLAPS

-----------------------------------------------------------------------------
(* Induction and recursion over the naturals.                               *)

(* A set of naturals that is not empty has a least element.                *)
LEMMA Least ==
  ASSUME NEW S, S \subseteq Nat, S # {}
  PROVE  \E m \in S : \A k \in S : m <= k
<1> DEFINE R == OpToRel(<, Nat)
<1>1. IsWellFoundedOn(R, Nat)
  BY NatLessThanWellFounded, Zenon
<1>2. \A x, y \in Nat : y < x => <<y, x>> \in R
  BY DEF OpToRel
<1> HIDE DEF R
<1>3. PICK m \in S : \A k \in S : ~ (<<k, m>> \in R)
  BY <1>1, WFMin, Zenon
<1>4. ASSUME NEW k \in S PROVE m <= k
  <2>1. k \in Nat /\ m \in Nat
    OBVIOUS
  <2>2. ~(k < m)
    BY <1>2, <1>3, <2>1, Zenon
  <2> QED
    BY <2>1, <2>2
<1> QED
  BY <1>4

(* What holds of 0, and of a number's successor with the number, holds up   *)
(* to n.                                                                    *)
LEMMA Induction ==
  ASSUME NEW n \in Nat, NEW S, 0 \in S,
         \A i \in 0..(n - 1) : i \in S => i + 1 \in S
  PROVE  0..n \subseteq S
<1> DEFINE Bad == (0..n) \ S
<1>1. SUFFICES ASSUME Bad # {} PROVE FALSE
  OBVIOUS
<1>2. PICK m \in Bad : \A k \in Bad : m <= k
  <2>1. Bad \subseteq Nat
    OBVIOUS
  <2> HIDE DEF Bad
  <2> QED
    BY <1>1, <2>1, Least
<1>3. m \in 0..n /\ m \notin S /\ m # 0
  OBVIOUS
<1>4. m - 1 \in 0..(n - 1) /\ m - 1 \notin Bad
  <2>1. m - 1 \in 0..(n - 1)
    BY <1>3
  <2>2. ~(m <= m - 1)
    BY <1>3
  <2> HIDE DEF Bad
  <2> QED
    BY <1>2, <2>1, <2>2
<1>5. m - 1 \in S
  BY <1>4
<1>6. (m - 1) + 1 \in S
  BY <1>4, <1>5
<1> QED
  BY <1>3, <1>6

(* A function whose value at n is worked out from its value at the smaller  *)
(* p[n] exists.                                                             *)
Recursive(g, D, c, p, step) ==
    \A n \in D : g[n] = IF n = 0 THEN c ELSE step[n][g[p[n]]]

LEMMA Recursion ==
  ASSUME NEW D, D \subseteq Nat, NEW S, NEW c \in S,
         NEW p \in [D -> D], \A n \in D : n > 0 => p[n] < n,
         NEW step \in [D -> [S -> S]]
  PROVE  \E g \in [D -> S] : Recursive(g, D, c, p, step)
<1> DEFINE At(g, n) == IF n = 0 THEN c ELSE step[n][g[p[n]]]
           Approx(m) == {g \in [D -> S] : \A n \in D : n <= m => g[n] = At(g, n)}
<1>0. \A n \in D : /\ n \in Nat
                    /\ n > 0 => p[n] \in D /\ p[n] \in Nat /\ p[n] < n
  OBVIOUS
<1>1. \A g \in [D -> S], n \in D : At(g, n) \in S
  OBVIOUS
<1>a. ASSUME NEW g, NEW h, NEW n \in D, n > 0 => g[p[n]] = h[p[n]]
      PROVE  At(g, n) = At(h, n)
  BY <1>0, <1>a
<1>b. \A g : At(g, 0) = c
  OBVIOUS
<1> HIDE DEF At
<1>2. \A m \in Nat : Approx(m) # {}
  <2> DEFINE Bad == {m \in Nat : Approx(m) = {}}
  <2>1. SUFFICES ASSUME Bad # {} PROVE FALSE
    OBVIOUS
  <2>2. PICK m \in Bad : \A k \in Bad : m <= k
    <3>1. Bad \subseteq Nat
      OBVIOUS
    <3> HIDE DEF Bad
    <3> QED
      BY <2>1, <3>1, Least
  <2>3. m \in Nat /\ Approx(m) = {}
    OBVIOUS
  <2>4. CASE m = 0
    <3>1. [n \in D |-> c] \in Approx(0)
      <4> DEFINE g == [n \in D |-> c]
      <4>1. \A n \in D : n <= 0 => g[n] = At(g, n)
        BY <1>0, <1>b
      <4> QED
        BY <4>1
    <3> QED
      BY <2>3, <2>4, <3>1
  <2>5. CASE m > 0
    <3>1. m - 1 \in Nat /\ m - 1 \notin Bad
      BY <2>2, <2>5
    <3>2. PICK g \in [D -> S] : \A n \in D : n <= m - 1 => g[n] = At(g, n)
      BY <3>1
    <3> DEFINE h == [n \in D |-> IF n = m THEN At(g, n) ELSE g[n]]
    <3>3. h \in [D -> S]
      BY <1>1
    <3>4. ASSUME NEW n \in D, n <= m PROVE h[n] = At(h, n)
      <4>1. n > 0 => h[p[n]] = g[p[n]]
        <5>1. n > 0 => p[n] \in D /\ p[n] # m
          <6>1. n > 0 => p[n] \in D /\ p[n] \in Nat /\ p[n] < n
            BY <1>0
          <6>2. n \in Nat /\ m \in Nat /\ n <= m
            BY <1>0, <2>3, <3>4
          <6> HIDE DEF Bad, Approx
          <6> QED
            BY <6>1, <6>2, SMT
        <5> QED
          BY <5>1
      <4>2. At(h, n) = At(g, n)
        <5> HIDE DEF h, Bad, Approx
        <5> QED
          BY <4>1, <1>a
      <4>3. CASE n = m
        BY <4>2, <4>3
      <4>4. CASE n # m
        <5>1. n <= m - 1 /\ n \in Nat
          BY <2>3, <3>4, <4>4
        <5> QED
          BY <3>2, <4>2, <4>4, <5>1
      <4> QED
        BY <4>3, <4>4
    <3>5. h \in Approx(m)
      BY <3>3, <3>4
    <3> QED
      BY <2>3, <3>5
  <2> QED
    BY <2>3, <2>4, <2>5
<1>3. ASSUME NEW m \in Nat, NEW g \in Approx(m), NEW h \in Approx(m),
             NEW i \in D, i <= m
      PROVE  g[i] = h[i]
  <2> DEFINE Bad == {n \in D : n <= m /\ g[n] # h[n]}
  <2>1. SUFFICES ASSUME Bad # {} PROVE FALSE
    BY <1>3
  <2>2. PICK n \in Bad : \A k \in Bad : n <= k
    <3>1. Bad \subseteq Nat
      OBVIOUS
    <3> HIDE DEF Bad
    <3> QED
      BY <2>1, <3>1, Least
  <2>3. n \in D /\ n <= m /\ g[n] # h[n]
    OBVIOUS
  <2>4. g[n] = At(g, n) /\ h[n] = At(h, n)
    BY <2>3
  <2>5. n > 0
    <3>1. n # 0
      BY <1>b, <2>3, <2>4
    <3> QED
      BY <1>0, <2>3, <3>1
  <2>6. p[n] \in D /\ p[n] < n /\ p[n] <= m
    <3>1. n \in Nat /\ p[n] \in D /\ p[n] \in Nat /\ p[n] < n
      BY <1>0, <2>3, <2>5
    <3> QED
      BY <2>3, <3>1
  <2>7. p[n] \notin Bad
    <3>1. n \in Nat /\ p[n] \in Nat
      BY <2>3, <2>6
    <3> HIDE DEF Bad
    <3> QED
      BY <2>2, <2>6, <3>1
  <2>8. g[p[n]] = h[p[n]]
    BY <2>6, <2>7
  <2> QED
    BY <1>a, <2>3, <2>4, <2>8
<1> DEFINE some(n) == CHOOSE g : g \in Approx(n)
           G == [n \in D |-> some(n)[n]]
<1>4. \A n \in D : some(n) \in Approx(n)
  BY <1>2
<1>5. G \in [D -> S]
  <2>1. \A n \in D : some(n) \in [D -> S]
    BY <1>4
  <2> HIDE DEF some
  <2>2. \A n \in D : some(n)[n] \in S
    BY <2>1
  <2> QED
    BY <2>2
<1>6. ASSUME NEW n \in D PROVE G[n] = At(G, n)
  <2>1. some(n) \in [D -> S] /\ some(n)[n] = At(some(n), n)
    <3>1. some(n) \in Approx(n)
      BY <1>4
    <3> HIDE DEF some
    <3> QED
      BY <1>0, <3>1
  <2>a. G[n] = some(n)[n]
    OBVIOUS
  <2> HIDE DEF G
  <2>2. CASE n = 0
    BY <1>b, <2>1, <2>2, <2>a
  <2>3. CASE n > 0
    <3>1. p[n] \in D /\ p[n] < n /\ p[n] \in Nat
      BY <1>0, <2>3
    <3>2. some(p[n]) \in Approx(p[n])
      BY <1>4, <3>1
    <3>3. some(n) \in Approx(p[n])
      <4>1. \A k \in D : k <= p[n] => some(n)[k] = At(some(n), k)
        <5>1. some(n) \in Approx(n)
          BY <1>4
        <5>2. \A k \in D : k <= p[n] => k <= n
          BY <1>0, <3>1
        <5> HIDE DEF some
        <5> QED
          BY <5>1, <5>2
      <4> HIDE DEF At, some
      <4> QED
        BY <2>1, <4>1
    <3>4. some(n)[p[n]] = some(p[n])[p[n]]
      <4> HIDE DEF some, Approx
      <4> QED
        BY <1>3, <3>1, <3>2, <3>3
    <3>5. G[p[n]] = some(n)[p[n]]
      <4> HIDE DEF some, Approx
      <4>1. G[p[n]] = some(p[n])[p[n]]
        BY <3>1 DEF G
      <4> QED
        BY <3>4, <4>1
    <3>6. At(G, n) = At(some(n), n)
      BY <1>a, <3>5
    <3> QED
      BY <2>1, <2>a, <3>6
  <2> QED
    BY <1>0, <2>2, <2>3
<1> HIDE DEF G
<1> QED
  BY <1>5, <1>6 DEF At, Recursive

(* The same, with the number before as the smaller one.                     *)
Iterative(g, D, c, step) ==
    \A n \in D : g[n] = IF n = 0 THEN c ELSE step[n][g[n - 1]]

LEMMA Iteration ==
  ASSUME NEW D, D \subseteq Nat, 0 \in D, \A n \in D : n > 0 => n - 1 \in D,
         NEW S, NEW c \in S, NEW step \in [D -> [S -> S]]
  PROVE  \E g \in [D -> S] : Iterative(g, D, c, step)
<1> DEFINE before == [n \in D |-> IF n = 0 THEN 0 ELSE n - 1]
<1>1. before \in [D -> D]
  <2>1. \A n \in D : n \in Nat
    OBVIOUS
  <2>2. \A n \in D : (IF n = 0 THEN 0 ELSE n - 1) \in D
    BY <2>1
  <2> QED
    BY <2>2
<1>2. \A n \in D : n > 0 => before[n] = n - 1 /\ before[n] < n
  <2>1. \A n \in D : n \in Nat /\ (n > 0 => n # 0 /\ n - 1 < n)
    OBVIOUS
  <2> QED
    BY <2>1
<1> HIDE DEF before
<1>3. PICK g \in [D -> S] : Recursive(g, D, c, before, step)
  <2>1. \A n \in D : n > 0 => before[n] < n
    BY <1>2
  <2> QED
    BY <1>1, <2>1, Recursion
<1>4. \A n \in D : n # 0 => before[n] = n - 1
  BY <1>2
<1> QED
  BY <1>3, <1>4 DEF Recursive, Iterative

-----------------------------------------------------------------------------
(* Numbers.                                                                 *)

Byte == 0..255

LEMMA ShiftedSteps ==
  ASSUME NEW n \in Nat
  PROVE  /\ Shifted(n, 0) = n
         /\ \A k \in Nat : /\ Shifted(n, k) \in Nat
                           /\ Shifted(n, k + 1) = Shifted(n, k) \div 256
<1> DEFINE Rest(f) == f = [i \in Nat |-> IF i = 0 THEN n ELSE f[i - 1] \div 256]
           rest == CHOOSE f : Rest(f)
           step == [i \in Nat |-> [m \in Nat |-> m \div 256]]
<1>1. \A k : Shifted(n, k) = rest[k]
  BY DEF Shifted
<1>2. \E g : Rest(g)
  <2>1. step \in [Nat -> [Nat -> Nat]]
    OBVIOUS
  <2>2. \A i \in Nat : i > 0 => i - 1 \in Nat
    OBVIOUS
  <2> HIDE DEF step
  <2>3. PICK g \in [Nat -> Nat] : Iterative(g, Nat, n, step)
    BY <2>1, <2>2, Iteration
  <2>4. \A i \in Nat : i # 0 => step[i][g[i - 1]] = g[i - 1] \div 256
    BY DEF step
  <2>5. \A i \in Nat : g[i] = IF i = 0 THEN n ELSE g[i - 1] \div 256
    BY <2>3, <2>4 DEF Iterative
  <2>6. g = [i \in Nat |-> g[i]]
    OBVIOUS
  <2>7. g = [i \in Nat |-> IF i = 0 THEN n ELSE g[i - 1] \div 256]
    BY <2>5, <2>6, Zenon
  <2> QED
    BY <2>7
<1>4. Rest(rest)
  <2> HIDE DEF Rest
  <2> QED
    BY <1>2
<1> HIDE DEF rest
<1>5. rest[0] = n /\ \A k \in Nat : rest[k + 1] = rest[k] \div 256
  <2>1. rest[0] = n
    BY <1>4
  <2>2. ASSUME NEW k \in Nat PROVE rest[k + 1] = rest[k] \div 256
    <3>1. k + 1 \in Nat /\ k + 1 # 0 /\ (k + 1) - 1 = k
      OBVIOUS
    <3>2. \A i \in Nat : i # 0 => rest[i] = rest[i - 1] \div 256
      BY <1>4
    <3> QED
      BY <3>1, <3>2
  <2> QED
    BY <2>1, <2>2
<1>6. ASSUME NEW k \in Nat PROVE rest[k] \in Nat
  <2> DEFINE S == {i \in Nat : rest[i] \in Nat}
  <2>1. 0 \in S
    BY <1>5
  <2>2. \A i \in 0..(k - 1) : i \in S => i + 1 \in S
    BY <1>5
  <2>3. 0..k \subseteq S
    <3> HIDE DEF S
    <3> QED
      BY <2>1, <2>2, Induction
  <2> QED
    BY <2>3
<1> QED
  BY <1>1, <1>5, <1>6

Halving(n) == \A k \in Nat : /\ Shifted(n, k) \in Nat
                            /\ Shifted(n, k + 1) = Shifted(n, k) \div 256

LEMMA ShiftedHalves == \A n \in Nat : Halving(n)
  BY ShiftedSteps DEF Halving

(* The larger number has the larger rest: what a bound fits into, what is   *)
(* below it fits into.                                                      *)
LEMMA ShiftedGrows ==
  ASSUME NEW n \in Nat, NEW m \in Nat, n <= m, NEW k \in Nat
  PROVE  Shifted(n, k) <= Shifted(m, k)
<1> DEFINE S == {i \in Nat : Shifted(n, i) <= Shifted(m, i)}
<1>1. 0 \in S
  BY ShiftedSteps
<1>2. ASSUME NEW i \in 0..(k - 1), i \in S PROVE i + 1 \in S
  <2>1. /\ Shifted(n, i) \in Nat /\ Shifted(m, i) \in Nat
        /\ Shifted(n, i) <= Shifted(m, i)
        /\ Shifted(n, i + 1) = Shifted(n, i) \div 256
        /\ Shifted(m, i + 1) = Shifted(m, i) \div 256
    BY <1>2, ShiftedSteps
  <2>2. \A a, b \in Nat : a <= b => a \div 256 <= b \div 256
    OBVIOUS
  <2> QED
    BY <2>1, <2>2
<1>3. 0..k \subseteq S
  <2> HIDE DEF S
  <2> QED
    BY <1>1, <1>2, Induction
<1> QED
  BY <1>3

LEMMA BigEndianBytes ==
  ASSUME NEW n \in Nat, NEW width \in Nat
  PROVE  /\ BigEndian(n, width) \in Seq(Byte)
         /\ Len(BigEndian(n, width)) = width
<1>1. \A i \in 1..width : Shifted(n, width - i) \in Nat
  BY ShiftedSteps
<1>2. \A i \in 1..width : Shifted(n, width - i) % 256 \in Byte
  BY <1>1 DEF Byte
<1> QED
  BY <1>2 DEF BigEndian

LEMMA Digit ==
  ASSUME NEW n \in Nat, NEW digit \in Byte,
         NEW m, m = 256 * n + digit
  PROVE  m \div 256 = n /\ m % 256 = digit
  BY DEF Byte

LEMMA Digits ==
  ASSUME NEW n \in Nat
  PROVE  /\ 256 * (n \div 256) + (n % 256) = n
         /\ n \div 256 \in Nat
         /\ n % 256 \in Byte
  BY DEF Byte

(* The number of the first i bytes, for each i.                             *)
Takes(bytes, value) ==
    /\ value \in [0..Len(bytes) -> Nat]
    /\ value[0] = 0
    /\ \A i \in 1..Len(bytes) : value[i] = 256 * value[i - 1] + bytes[i]
    /\ Value(bytes) = value[Len(bytes)]

LEMMA ValueSteps ==
  ASSUME NEW bytes \in Seq(Byte)
  PROVE  \E value : Takes(bytes, value)
<1> DEFINE D == 0..Len(bytes)
           From(f, i) == 256 * f[i - 1] + bytes[i]
           Is(f) == f = [i \in D |-> IF i = 0 THEN 0 ELSE From(f, i)]
           value == CHOOSE f : Is(f)
           step == [i \in D |-> [n \in Nat |->
                       IF i = 0 THEN 0 ELSE 256 * n + bytes[i]]]
<1>0. Len(bytes) \in Nat /\ \A i \in 1..Len(bytes) : bytes[i] \in Nat
  <2>1. Len(bytes) \in Nat /\ \A i \in 1..Len(bytes) : bytes[i] \in Byte
    OBVIOUS
  <2>2. Byte \subseteq Nat
    BY DEF Byte
  <2> QED
    BY <2>1, <2>2
<1>1. Value(bytes) = value[Len(bytes)]
  BY DEF Value
<1>2. step \in [D -> [Nat -> Nat]]
  <2>1. \A i \in D : i = 0 \/ i \in 1..Len(bytes)
    BY <1>0
  <2>2. \A i \in D, n \in Nat : (IF i = 0 THEN 0 ELSE 256 * n + bytes[i]) \in Nat
    BY <1>0, <2>1
  <2> QED
    BY <2>2
<1>3. PICK g \in [D -> Nat] : Iterative(g, D, 0, step)
  <2>1. D \subseteq Nat /\ 0 \in D /\ \A i \in D : i > 0 => i - 1 \in D
    BY <1>0
  <2> HIDE DEF D, step
  <2> QED
    BY <1>2, <2>1, Iteration
<1>4. Is(g)
  <2>1. \A i \in D : i # 0 => i - 1 \in D /\ g[i - 1] \in Nat
    <3>1. \A i \in D : i # 0 => i - 1 \in D
      BY <1>0
    <3> HIDE DEF D
    <3> QED
      BY <3>1
  <2>2. \A i \in D : i # 0 => step[i][g[i - 1]] = From(g, i)
    BY <2>1
  <2> HIDE DEF step, D, From
  <2>3. \A i \in D : g[i] = IF i = 0 THEN 0 ELSE From(g, i)
    BY <1>3, <2>2 DEF Iterative
  <2>4. g = [i \in D |-> g[i]]
    OBVIOUS
  <2> QED
    BY <2>3, <2>4, Zenon
<1>5. Is(value)
  <2> HIDE DEF Is
  <2> QED
    BY <1>4
<1> HIDE DEF value, step
<1>6. value[0] = 0 /\ \A i \in 1..Len(bytes) : value[i] = From(value, i)
  <2>1. 0 \in D /\ \A i \in 1..Len(bytes) : i \in D /\ i # 0
    BY <1>0
  <2> HIDE DEF D, From
  <2> QED
    BY <1>5, <2>1
<1>7. ASSUME NEW i \in D PROVE value[i] \in Nat
  <2> DEFINE S == {k \in D : value[k] \in Nat}
  <2>1. 0 \in S
    BY <1>0, <1>6
  <2>2. \A k \in 0..(Len(bytes) - 1) : k \in S => k + 1 \in S
    <3>1. \A k \in 0..(Len(bytes) - 1) :
             /\ k + 1 \in 1..Len(bytes)
             /\ value[k + 1] = 256 * value[(k + 1) - 1] + bytes[k + 1]
             /\ (k + 1) - 1 = k
             /\ bytes[k + 1] \in Nat
      BY <1>0, <1>6
    <3> QED
      BY <3>1
  <2>3. 0..Len(bytes) \subseteq S
    <3> HIDE DEF S
    <3> QED
      BY <1>0, <2>1, <2>2, Induction
  <2> QED
    BY <2>3
<1>8. value \in [D -> Nat]
  <2>1. value = [i \in D |-> value[i]]
    BY <1>5
  <2> HIDE DEF D
  <2> QED
    BY <1>7, <2>1
<1> QED
  BY <1>1, <1>6, <1>8, Zenon DEF Takes

(* int.from_bytes of int.to_bytes, for a number that fits.                  *)
LEMMA ValueOfBigEndian ==
  ASSUME NEW n \in Nat, NEW width \in Nat, Shifted(n, width) = 0
  PROVE  Value(BigEndian(n, width)) = n
<1>0. Halving(n)
  BY ShiftedHalves
<1> USE DEF Halving
<1> DEFINE bytes == BigEndian(n, width)
<1>1. bytes \in Seq(Byte) /\ Len(bytes) = width
  BY BigEndianBytes
<1>2. \A i \in 1..width : bytes[i] = Shifted(n, width - i) % 256
  BY DEF BigEndian
<1> HIDE DEF bytes
<1>3. PICK value : Takes(bytes, value)
  BY <1>1, ValueSteps
<1> DEFINE S == {i \in 0..width : value[i] = Shifted(n, width - i)}
<1>4. 0 \in S
  BY <1>3 DEF Takes
<1>5. ASSUME NEW i \in 0..(width - 1), i \in S PROVE i + 1 \in S
  <2> DEFINE rest == Shifted(n, width - (i + 1))
  <2>1. rest \in Nat /\ Shifted(n, width - i) = rest \div 256
    <3> DEFINE k == width - (i + 1)
    <3>1. k \in Nat /\ k + 1 = width - i
      OBVIOUS
    <3> HIDE DEF k
    <3>2. Shifted(n, k) \in Nat /\ Shifted(n, k + 1) = Shifted(n, k) \div 256
      BY <1>0, <3>1
    <3> QED
      BY <3>1, <3>2 DEF k
  <2>2. value[i + 1] = 256 * value[i] + bytes[i + 1]
    <3>1. i + 1 \in 1..Len(bytes) /\ (i + 1) - 1 = i
      BY <1>1
    <3> QED
      BY <1>3, <3>1 DEF Takes
  <2>3. bytes[i + 1] = rest % 256 /\ value[i] = Shifted(n, width - i)
    BY <1>2, <1>5
  <2>4. 256 * (rest \div 256) + (rest % 256) = rest
    <3> HIDE DEF rest
    <3> QED
      BY <2>1, Digits
  <2> HIDE DEF rest
  <2>5. value[i + 1] = rest
    BY <2>1, <2>2, <2>3, <2>4
  <2> QED
    BY <2>5 DEF rest
<1>6. width \in S
  <2>1. width \in 0..width
    OBVIOUS
  <2> HIDE DEF S
  <2> QED
    BY <1>4, <1>5, <2>1, Induction
<1>7. value[width] = Shifted(n, 0)
  <2>1. width - width = 0
    OBVIOUS
  <2> QED
    BY <1>6, <2>1
<1>8. value[width] = n
  BY <1>7, ShiftedSteps
<1> QED
  BY <1>1, <1>3, <1>8 DEF Takes, bytes

(* int.to_bytes of int.from_bytes, in as many bytes.                        *)
LEMMA BigEndianOfValue ==
  ASSUME NEW bytes \in Seq(Byte)
  PROVE  /\ Value(bytes) \in Nat
         /\ Shifted(Value(bytes), Len(bytes)) = 0
         /\ BigEndian(Value(bytes), Len(bytes)) = bytes
<1> DEFINE width == Len(bytes)
<1>1. width \in Nat /\ \A i \in 1..width : bytes[i] \in Byte
  OBVIOUS
<1>2. PICK value : Takes(bytes, value)
  BY ValueSteps
<1>3. Value(bytes) \in Nat
  BY <1>2 DEF Takes
<1>h. Halving(Value(bytes))
  BY <1>3, ShiftedHalves
<1> DEFINE S == {k \in 0..width : Shifted(Value(bytes), k) = value[width - k]}
<1>4. 0 \in S
  <2>1. width - 0 = width /\ 0 \in 0..width
    BY <1>1
  <2>2. Shifted(Value(bytes), 0) = value[width]
    BY <1>2, <1>3, ShiftedSteps DEF Takes
  <2> QED
    BY <2>1, <2>2
<1>5. ASSUME NEW k \in 0..(width - 1), k \in S PROVE k + 1 \in S
  <2> DEFINE i == width - k
             rest == value[i - 1]
             digit == bytes[i]
             all == value[i]
  <2>1. i \in 1..width /\ i - 1 \in 0..width /\ i - 1 = width - (k + 1)
    BY <1>1
  <2>2. k \in Nat /\ k + 1 \in 0..width
    BY <1>1
  <2>3. Shifted(Value(bytes), k) = all
    BY <1>5
  <2> HIDE DEF i, S
  <2>4. rest \in Nat /\ digit \in Byte /\ all = 256 * rest + digit
    BY <1>1, <1>2, <2>1 DEF Takes
  <2>5. all \div 256 = rest
    <3> HIDE DEF rest, digit, all
    <3> QED
      BY <2>4 DEF Byte
  <2>6. Shifted(Value(bytes), k + 1) = Shifted(Value(bytes), k) \div 256
    BY <1>h, <2>2 DEF Halving
  <2>7. Shifted(Value(bytes), k + 1) = value[width - (k + 1)]
    BY <2>1, <2>3, <2>5, <2>6
  <2> QED
    BY <2>2, <2>7 DEF S
<1>6. \A k \in 0..width : Shifted(Value(bytes), k) = value[width - k]
  <2>1. 0..width \subseteq S
    <3> HIDE DEF S
    <3> QED
      BY <1>1, <1>4, <1>5, Induction
  <2> QED
    BY <2>1
<1>7. Shifted(Value(bytes), width) = 0
  BY <1>1, <1>2, <1>6 DEF Takes
<1>8. ASSUME NEW i \in 1..width
      PROVE  BigEndian(Value(bytes), width)[i] = bytes[i]
  <2>1. /\ width - i \in 0..width /\ width - (width - i) = i
        /\ i - 1 \in 0..width
    BY <1>1
  <2>2. Shifted(Value(bytes), width - i) = value[i]
    BY <1>6, <2>1
  <2>3. /\ value[i - 1] \in Nat
        /\ value[i] = 256 * value[i - 1] + bytes[i]
        /\ bytes[i] \in Byte
    BY <1>1, <1>2, <2>1 DEF Takes
  <2>4. value[i] % 256 = bytes[i]
    <3> DEFINE last == value[i - 1]
               digit == bytes[i]
    <3>1. last \in Nat /\ digit \in Byte /\ value[i] = 256 * last + digit
      BY <2>3
    <3> HIDE DEF S, width, last, digit
    <3>2. value[i] % 256 = digit
      BY <3>1 DEF Byte
    <3> QED
      BY <3>2 DEF digit
  <2> QED
    BY <2>2, <2>4 DEF BigEndian
<1>9. BigEndian(Value(bytes), width) = bytes
  <2>1. /\ BigEndian(Value(bytes), width) \in Seq(Byte)
        /\ Len(BigEndian(Value(bytes), width)) = width
    BY <1>1, <1>3, BigEndianBytes
  <2> QED
    BY <1>8, <2>1
<1> QED
  BY <1>3, <1>7, <1>9

-----------------------------------------------------------------------------
(* base64url: bytes to letters and back.                                    *)

Letter == 0..63

LEMMA EncodedLength ==
  ASSUME NEW n \in Nat
  PROVE  /\ (4 * n + 2) \div 3 \in Nat
         /\ (3 * ((4 * n + 2) \div 3)) \div 4 = n
         /\ ((4 * n + 2) \div 3) % 4 # 1
         /\ ((4 * n + 2) \div 3) % 4 = 0 <=> n % 3 = 0
         /\ n > 0 => /\ (4 * n + 2) \div 3 > 0
                     /\ \/ ((4 * n + 2) \div 3 - 1) % 4 = 1
                        \/ (3 * ((4 * n + 2) \div 3 - 1)) \div 4 = n - 1
  OBVIOUS

LEMMA LetterRange ==
  ASSUME NEW hi \in Byte, NEW lo \in Byte
  PROVE  /\ lo \div 4 \in Letter
         /\ (hi % 4) * 16 + lo \div 16 \in Letter
         /\ (hi % 16) * 4 + lo \div 64 \in Letter
         /\ hi % 64 \in Letter
  BY DEF Byte, Letter

LEMMA EncodedLetters ==
  ASSUME NEW bytes \in Seq(Byte)
  PROVE  /\ Base64urlEncode(bytes) \in Seq(Letter)
         /\ Len(Base64urlEncode(bytes)) = (4 * Len(bytes) + 2) \div 3
<1> DEFINE At(i) == IF i \in DOMAIN bytes THEN bytes[i] ELSE 0
           L(hi, lo, place) == CASE place = 0 -> lo \div 4
                                 [] place = 1 -> (hi % 4) * 16 + lo \div 16
                                 [] place = 2 -> (hi % 16) * 4 + lo \div 64
                                 [] place = 3 -> hi % 64
           size == (4 * Len(bytes) + 2) \div 3
           E == [j \in 1..size |-> L(At(j - (j - 1) \div 4 - 1),
                                     At(j - (j - 1) \div 4), (j - 1) % 4)]
<1>1. Base64urlEncode(bytes) = E
  BY DEF Base64urlEncode
<1>2. \A i : At(i) \in Byte
  <2>1. \A i \in DOMAIN bytes : bytes[i] \in Byte
    OBVIOUS
  <2>2. 0 \in Byte
    BY DEF Byte
  <2> QED
    BY <2>1, <2>2
<1>3. size \in Nat
  BY EncodedLength
<1> HIDE DEF At, size
<1>4. ASSUME NEW hi \in Byte, NEW lo \in Byte, NEW place \in 0..3
      PROVE  L(hi, lo, place) \in Letter
  <2>1. place = 0 \/ place = 1 \/ place = 2 \/ place = 3
    OBVIOUS
  <2> QED
    BY <2>1, LetterRange
<1> HIDE DEF L
<1>5. ASSUME NEW j \in 1..size PROVE E[j] \in Letter
  <2>1. (j - 1) % 4 \in 0..3
    BY <1>3
  <2> QED
    BY <1>2, <1>4, <2>1
<1> QED
  BY <1>1, <1>3, <1>5 DEF size


(* Three of four bytes, from the letters that hold them.                    *)
LEMMA Reassembled ==
  ASSUME NEW a \in Byte, NEW b \in Byte, NEW c \in Byte
  PROVE  /\ (b \div 4) * 4 + ((b % 4) * 16 + c \div 16) \div 16 = b
         /\ (((a % 4) * 16 + b \div 16) % 16) * 16
               + ((b % 16) * 4 + c \div 64) \div 4 = b
         /\ (((a % 16) * 4 + b \div 64) % 4) * 64 + (b % 64) = b
  BY DEF Byte

LEMMA BytesOfEncoded ==
  ASSUME NEW bytes \in Seq(Byte)
  PROVE  BytesOf(Base64urlEncode(bytes)) = bytes
<1> DEFINE At(i) == IF i \in DOMAIN bytes THEN bytes[i] ELSE 0
           L(hi, lo, place) == CASE place = 0 -> lo \div 4
                                 [] place = 1 -> (hi % 4) * 16 + lo \div 16
                                 [] place = 2 -> (hi % 16) * 4 + lo \div 64
                                 [] place = 3 -> hi % 64
           B(hi, lo, place) == CASE place = 0 -> hi * 4 + lo \div 16
                                 [] place = 1 -> (hi % 16) * 16 + lo \div 4
                                 [] place = 2 -> (hi % 4) * 64 + lo
           n == Len(bytes)
           size == (4 * n + 2) \div 3
           E == Base64urlEncode(bytes)
<1>1. \A j \in 1..size :
         E[j] = L(At(j - (j - 1) \div 4 - 1), At(j - (j - 1) \div 4), (j - 1) % 4)
  BY DEF Base64urlEncode
<1>2. BytesOf(E) = [i \in 1..((3 * Len(E)) \div 4) |->
                      B(E[i + (i - 1) \div 3], E[i + (i - 1) \div 3 + 1], (i - 1) % 3)]
  BY DEF BytesOf
<1>3. \A i : At(i) \in Byte
  <2>1. \A i \in DOMAIN bytes : bytes[i] \in Byte
    OBVIOUS
  <2>2. 0 \in Byte
    BY DEF Byte
  <2> QED
    BY <2>1, <2>2
<1>4. n \in Nat /\ (3 * Len(E)) \div 4 = n
  BY EncodedLetters, EncodedLength
<1>5. \A i \in 1..n : At(i) = bytes[i]
  OBVIOUS
<1> HIDE DEF At
<1>6. ASSUME NEW a \in Byte, NEW b \in Byte, NEW c \in Byte, NEW place \in 0..2
      PROVE  B(L(a, b, place), L(b, c, place + 1), place) = b
  <2>1. CASE place = 0
    <3>1. L(a, b, place) = b \div 4 /\ L(b, c, place + 1) = (b % 4) * 16 + c \div 16
      BY <2>1
    <3> QED
      BY <2>1, <3>1, Reassembled
  <2>2. CASE place = 1
    <3>1. /\ L(a, b, place) = (a % 4) * 16 + b \div 16
          /\ L(b, c, place + 1) = (b % 16) * 4 + c \div 64
      BY <2>2
    <3> QED
      BY <2>2, <3>1, Reassembled
  <2>3. CASE place = 2
    <3>1. L(a, b, place) = (a % 16) * 4 + b \div 64 /\ L(b, c, place + 1) = b % 64
      BY <2>3
    <3> QED
      BY <2>3, <3>1, Reassembled
  <2> QED
    BY <2>1, <2>2, <2>3
<1> HIDE DEF B, L, E
<1>7. ASSUME NEW i \in 1..n
      PROVE  B(E[i + (i - 1) \div 3], E[i + (i - 1) \div 3 + 1], (i - 1) % 3) = bytes[i]
  <2> DEFINE g == (i - 1) \div 3
             j == i + g
             place == (i - 1) % 3
  <2>1. /\ j \in 1..size /\ j + 1 \in 1..size
        /\ place \in 0..2
        /\ (j - 1) \div 4 = g /\ (j - 1) % 4 = place
        /\ ((j + 1) - 1) \div 4 = g /\ ((j + 1) - 1) % 4 = place + 1
        /\ j - g = i /\ (j + 1) - g = i + 1
    <3>1. n \in Nat /\ g = (i - 1) \div 3 /\ j = i + g /\ place = (i - 1) % 3
      BY <1>4
    <3> HIDE DEF n, g, j, place
    <3> QED
      BY <3>1
  <2> HIDE DEF g, j, place, n, size
  <2>2. E[j] = L(At(i - 1), At(i), place)
    BY <1>1, <2>1
  <2>3. E[j + 1] = L(At((i + 1) - 1), At(i + 1), place + 1)
    BY <1>1, <2>1
  <2>4. (i + 1) - 1 = i
    BY <1>4
  <2>5. B(E[j], E[j + 1], place) = At(i)
    BY <1>3, <1>6, <2>1, <2>2, <2>3, <2>4
  <2> QED
    BY <1>5, <2>5 DEF g, j, place
<1>8. BytesOf(E) = [i \in 1..n |-> bytes[i]]
  BY <1>2, <1>4, <1>7
<1>9. bytes = [i \in 1..n |-> bytes[i]]
  OBVIOUS
<1> QED
  BY <1>8, <1>9 DEF E

-----------------------------------------------------------------------------
(* base64url: what is read from a text.                                     *)

Char == 0..65
ReadState == [letters : Seq(Letter), pads : Nat]
NothingRead == [letters |-> <<>>, pads |-> 0]

LEMMA ReadLetter ==
  ASSUME NEW state, NEW char \in Letter, ~Ended(state)
  PROVE  Read(state, char) = [letters |-> Append(state.letters, char), pads |-> 0]
<1>1. char < Pad
  BY DEF Pad, Letter
<1> QED
  BY <1>1 DEF Read

LEMMA ReadPad ==
  ASSUME NEW state
  PROVE  Read(state, Pad) = IF ~Ended(state) /\ Len(state.letters) % 4 >= 2
                              THEN [state EXCEPT !.pads = @ + 1] ELSE state
<1>1. ~(Pad < Pad)
  BY DEF Pad
<1> QED
  BY <1>1 DEF Read

LEMMA ReadPadOf ==
  ASSUME NEW letters, NEW pads
  PROVE  Read([letters |-> letters, pads |-> pads], Pad) =
           IF ~Ended([letters |-> letters, pads |-> pads]) /\ Len(letters) % 4 >= 2
             THEN [letters |-> letters, pads |-> pads + 1]
             ELSE [letters |-> letters, pads |-> pads]
<1> DEFINE state == [letters |-> letters, pads |-> pads]
<1>1. /\ [state EXCEPT !.pads = state.pads + 1] =
             [letters |-> letters, pads |-> pads + 1]
      /\ state.letters = letters
  OBVIOUS
<1>2. Read(state, Pad) = IF ~Ended(state) /\ Len(state.letters) % 4 >= 2
                           THEN [state EXCEPT !.pads = state.pads + 1] ELSE state
  <2> HIDE DEF state
  <2> QED
    BY ReadPad
<1> QED
  BY <1>1, <1>2

LEMMA ReadJunk ==
  ASSUME NEW state
  PROVE  Read(state, Junk) = state
<1>1. ~(Junk < Pad) /\ Junk # Pad
  BY DEF Pad, Junk
<1> QED
  BY <1>1 DEF Read

LEMMA ReadStates ==
  ASSUME NEW state \in ReadState, NEW char \in Char
  PROVE  Read(state, char) \in ReadState
<1>1. char \in Letter \/ char = Pad \/ char = Junk
  BY DEF Char, Letter, Pad, Junk
<1>2. CASE Ended(state)
  BY <1>2 DEF Read
<1>3. CASE char \in Letter /\ ~Ended(state)
  <2>1. Append(state.letters, char) \in Seq(Letter)
    BY <1>3 DEF ReadState
  <2> QED
    BY <1>3, <2>1, ReadLetter DEF ReadState
<1>4. CASE char = Pad
  <2>1. [state EXCEPT !.pads = @ + 1] \in ReadState
    BY DEF ReadState
  <2> QED
    BY <1>4, <2>1, ReadPad
<1>5. CASE char = Junk
  BY <1>5, ReadJunk
<1> QED
  BY <1>1, <1>2, <1>3, <1>4, <1>5

(* What was read after i characters, for each i.                            *)
Scans(text, scan) ==
    /\ scan \in [0..Len(text) -> ReadState]
    /\ scan[0] = NothingRead
    /\ \A i \in 1..Len(text) : scan[i] = Read(scan[i - 1], text[i])
    /\ Scanned(text) = scan[Len(text)]

LEMMA ScanSteps ==
  ASSUME NEW text \in Seq(Char)
  PROVE  \E scan : Scans(text, scan)
<1> DEFINE D == 0..Len(text)
           From(f, i) == Read(f[i - 1], text[i])
           Is(f) == f = [i \in D |-> IF i = 0 THEN NothingRead ELSE From(f, i)]
           scan == CHOOSE f : Is(f)
           step == [i \in D |-> [state \in ReadState |->
                       IF i = 0 THEN state ELSE Read(state, text[i])]]
<1>0. Len(text) \in Nat /\ \A i \in 1..Len(text) : text[i] \in Char
  OBVIOUS
<1>1. Scanned(text) = scan[Len(text)]
  BY DEF Scanned, NothingRead
<1>a. \A i \in D : i = 0 \/ i \in 1..Len(text)
  BY <1>0
<1>2. step \in [D -> [ReadState -> ReadState]]
  <2>1. \A i \in D, state \in ReadState :
           (IF i = 0 THEN state ELSE Read(state, text[i])) \in ReadState
    BY <1>0, <1>a, ReadStates
  <2> HIDE DEF D
  <2> QED
    BY <2>1
<1>b. NothingRead \in ReadState
  BY DEF NothingRead, ReadState
<1>3. PICK g \in [D -> ReadState] : Iterative(g, D, NothingRead, step)
  <2>1. D \subseteq Nat /\ 0 \in D /\ \A i \in D : i > 0 => i - 1 \in D
    BY <1>0
  <2> HIDE DEF D, step
  <2> QED
    BY <1>2, <1>b, <2>1, Iteration
<1>4. Is(g)
  <2>1. \A i \in D : i # 0 => i - 1 \in D /\ g[i - 1] \in ReadState
    BY <1>0
  <2>2. \A i \in D : i # 0 => step[i][g[i - 1]] = From(g, i)
    BY <2>1
  <2> HIDE DEF step, D, From
  <2>3. \A i \in D : g[i] = IF i = 0 THEN NothingRead ELSE From(g, i)
    BY <1>3, <2>2 DEF Iterative
  <2>4. g = [i \in D |-> g[i]]
    OBVIOUS
  <2> QED
    BY <2>3, <2>4, Zenon
<1>5. Is(scan)
  <2> HIDE DEF Is
  <2> QED
    BY <1>4
<1> HIDE DEF scan, step
<1>6. scan[0] = NothingRead /\ \A i \in 1..Len(text) : scan[i] = From(scan, i)
  <2>1. 0 \in D /\ \A i \in 1..Len(text) : i \in D /\ i # 0
    BY <1>0
  <2> HIDE DEF D, From
  <2> QED
    BY <1>5, <2>1
<1>7. ASSUME NEW i \in D PROVE scan[i] \in ReadState
  <2> DEFINE S == {k \in D : scan[k] \in ReadState}
  <2>1. 0 \in S
    BY <1>0, <1>6, <1>b
  <2>2. ASSUME NEW k \in 0..(Len(text) - 1), k \in S PROVE k + 1 \in S
    <3>1. /\ k + 1 \in 1..Len(text)
          /\ (k + 1) - 1 = k
      BY <1>0
    <3>2. scan[k + 1] = Read(scan[k], text[k + 1]) /\ text[k + 1] \in Char
      BY <1>0, <1>6, <3>1
    <3>3. scan[k + 1] \in ReadState
      BY <2>2, <3>2, ReadStates
    <3> QED
      BY <1>0, <3>1, <3>3
  <2>3. 0..Len(text) \subseteq S
    <3> HIDE DEF S
    <3> QED
      BY <1>0, <2>1, <2>2, Induction
  <2> QED
    BY <2>3
<1>8. scan \in [D -> ReadState]
  <2>1. scan = [i \in D |-> scan[i]]
    BY <1>5
  <2> HIDE DEF D
  <2> QED
    BY <1>7, <2>1
<1> QED
  BY <1>1, <1>6, <1>8 DEF Scans

LEMMA PrefixGrows ==
  ASSUME NEW S, NEW s \in Seq(S), NEW n \in 0..(Len(s) - 1)
  PROVE  Append(SubSeq(s, 1, n), s[n + 1]) = SubSeq(s, 1, n + 1)
<1>1. /\ n \in Nat /\ n + 1 \in 1..Len(s) /\ Len(s) \in Nat
      /\ s[n + 1] \in S
  OBVIOUS
<1>2. /\ SubSeq(s, 1, n + 1) \in Seq(S)
      /\ Len(SubSeq(s, 1, n + 1)) = n + 1
      /\ \A i \in 1..(n + 1) : SubSeq(s, 1, n + 1)[i] = s[i]
  BY <1>1
<1>3. /\ SubSeq(s, 1, n) \in Seq(S)
      /\ Len(SubSeq(s, 1, n)) = n
      /\ \A i \in 1..n : SubSeq(s, 1, n)[i] = s[i]
  BY <1>1
<1>4. /\ Append(SubSeq(s, 1, n), s[n + 1]) \in Seq(S)
      /\ Len(Append(SubSeq(s, 1, n), s[n + 1])) = n + 1
      /\ \A i \in 1..(n + 1) : Append(SubSeq(s, 1, n), s[n + 1])[i] = s[i]
  BY <1>1, <1>3
<1> QED
  BY <1>2, <1>4

LEMMA Joined ==
  ASSUME NEW S, NEW s \in Seq(S), NEW t \in Seq(S)
  PROVE  /\ s \o t \in Seq(S)
         /\ Len(s \o t) = Len(s) + Len(t)
         /\ \A i \in 1..Len(s) : (s \o t)[i] = s[i]
         /\ \A i \in 1..Len(t) : (s \o t)[Len(s) + i] = t[i]
<1>1. \A i \in 1..Len(t) : Len(s) + i \in (Len(s) + 1)..(Len(s) + Len(t))
                           /\ (Len(s) + i) - Len(s) = i
  OBVIOUS
<1> QED
  BY <1>1, ConcatProperties

(* Behind its place p the text goes on like the letters e behind q, for m   *)
(* letters.                                                                 *)
Follows(text, p, e, q, m) ==
    /\ p + m <= Len(text) /\ q + m <= Len(e)
    /\ \A k \in 1..m : text[p + k] = e[q + k]

Kept(e, q) == [letters |-> SubSeq(e, 1, q), pads |-> 0]

(* Letters that follow each other are all kept.                             *)
LEMMA LettersGoOn ==
  ASSUME NEW text \in Seq(Char), NEW scan, Scans(text, scan),
         NEW e \in Seq(Letter), NEW p \in Nat, NEW q \in Nat, NEW m \in Nat,
         Follows(text, p, e, q, m), scan[p] = Kept(e, q)
  PROVE  scan[p + m] = Kept(e, q + m)
<1> USE DEF Follows, Kept
<1> DEFINE S == {k \in 0..m :
                   scan[p + k] = [letters |-> SubSeq(e, 1, q + k), pads |-> 0]}
<1>0. /\ Len(text) \in Nat /\ Len(e) \in Nat
      /\ p + m <= Len(text) /\ q + m <= Len(e)
  OBVIOUS
<1>1. 0 \in S
  <2>1. p + 0 = p /\ q + 0 = q /\ 0 \in 0..m
    OBVIOUS
  <2> QED
    BY <2>1
<1>2. ASSUME NEW k \in 0..(m - 1), k \in S PROVE k + 1 \in S
  <2> DEFINE state == scan[p + k]
             before == SubSeq(e, 1, q + k)
             char == text[p + (k + 1)]
  <2>1. /\ k + 1 \in 1..m /\ p + (k + 1) \in 1..Len(text)
        /\ (p + (k + 1)) - 1 = p + k
        /\ q + k \in 0..Len(e) /\ q + (k + 1) \in 1..Len(e)
        /\ (q + k) + 1 = q + (k + 1)
    <3> HIDE DEF S, Follows, Kept, state, before, char
    <3> QED
      BY <1>0
  <2>2. state = [letters |-> before, pads |-> 0]
    BY <1>2
  <2>3. before \in Seq(Letter) /\ Len(before) = q + k
    BY <2>1
  <2>4. ~Ended(state)
    <3>1. state.letters = before /\ state.pads = 0
      BY <2>2
    <3>2. ~(((q + k) % 4) + 0 >= 4)
      BY <2>1
    <3>3. Len(state.letters) = q + k
      BY <2>3, <3>1
    <3> HIDE DEF state, before
    <3> QED
      BY <3>1, <3>2, <3>3 DEF Ended
  <2>5. char = e[q + (k + 1)] /\ char \in Letter
    <3>1. \A i \in 1..Len(e) : e[i] \in Letter
      OBVIOUS
    <3>2. e[q + (k + 1)] \in Letter
      BY <2>1, <3>1, Zenon
    <3> QED
      BY <1>0, <2>1, <3>2
  <2>6. scan[p + (k + 1)] = Read(state, char)
    BY <2>1 DEF Scans
  <2>7. Append(before, e[q + (k + 1)]) = SubSeq(e, 1, q + (k + 1))
    <3>1. q + k \in 0..(Len(e) - 1)
      BY <1>0, <2>1
    <3>2. Append(SubSeq(e, 1, q + k), e[(q + k) + 1]) = SubSeq(e, 1, (q + k) + 1)
      BY <3>1, PrefixGrows
    <3> QED
      BY <2>1, <3>2
  <2> HIDE DEF state, before, char
  <2>8. Read(state, char) = [letters |-> Append(before, char), pads |-> 0]
    <3>1. Read(state, char) = [letters |-> Append(state.letters, char), pads |-> 0]
      BY <2>4, <2>5, ReadLetter
    <3>2. state.letters = before
      BY <2>2
    <3> QED
      BY <3>1, <3>2
  <2>9. scan[p + (k + 1)] = [letters |-> SubSeq(e, 1, q + (k + 1)), pads |-> 0]
    BY <2>5, <2>6, <2>7, <2>8
  <2> QED
    BY <2>1, <2>9
<1>3. m \in S
  <2>1. m \in 0..m
    OBVIOUS
  <2> HIDE DEF S
  <2> QED
    BY <1>1, <1>2, <2>1, Induction
<1> QED
  BY <1>3

(* Pads at the end change no letter.                                        *)
LEMMA PadsKeepLetters ==
  ASSUME NEW text \in Seq(Char), NEW scan, Scans(text, scan),
         NEW p \in 0..Len(text), \A i \in (p + 1)..Len(text) : text[i] = Pad
  PROVE  Scanned(text).letters = scan[p].letters
<1> DEFINE m == Len(text) - p
           S == {k \in 0..m : scan[p + k].letters = scan[p].letters}
<1>0. m \in Nat /\ p + m = Len(text) /\ p \in Nat
  OBVIOUS
<1>1. 0 \in S
  <2>1. p + 0 = p /\ 0 \in 0..m
    BY <1>0
  <2> QED
    BY <2>1
<1>2. ASSUME NEW k \in 0..(m - 1), k \in S PROVE k + 1 \in S
  <2>1. /\ p + (k + 1) \in 1..Len(text) /\ p + (k + 1) \in (p + 1)..Len(text)
        /\ (p + (k + 1)) - 1 = p + k
        /\ p + k \in 0..Len(text) /\ k + 1 \in 0..m
    BY <1>0
  <2>2. scan[p + (k + 1)] = Read(scan[p + k], Pad) /\ scan[p + k] \in ReadState
    BY <2>1 DEF Scans
  <2>3. Read(scan[p + k], Pad).letters = scan[p + k].letters
    BY <2>2, ReadPad DEF ReadState
  <2> QED
    BY <1>2, <2>1, <2>2, <2>3
<1>3. m \in S
  <2>1. m \in 0..m
    BY <1>0
  <2> HIDE DEF S, m
  <2> QED
    BY <1>0, <1>1, <1>2, <2>1, Induction
<1> QED
  BY <1>0, <1>3 DEF Scans

LEMMA PaddedText ==
  ASSUME NEW text \in Seq(Char)
  PROVE  \E k \in 0..3 :
            /\ Padded(text) \in Seq(Char)
            /\ Len(Padded(text)) = Len(text) + k
            /\ (Len(text) + k) % 4 = 0
            /\ \A i \in 1..Len(text) : Padded(text)[i] = text[i]
            /\ \A i \in (Len(text) + 1)..(Len(text) + k) : Padded(text)[i] = Pad
            /\ k = 0 => Padded(text) = text
<1> DEFINE k == (0 - Len(text)) % 4
           pads == [i \in 1..k |-> Pad]
<1>1. k \in 0..3 /\ (Len(text) + k) % 4 = 0
  OBVIOUS
<1>2. Padded(text) = text \o pads
  BY DEF Padded
<1>3. pads \in Seq(Char) /\ Len(pads) = k /\ \A i \in 1..k : pads[i] = Pad
  <2>1. Pad \in Char
    BY DEF Pad, Char
  <2> HIDE DEF k
  <2> QED
    BY <1>1, <2>1
<1> HIDE DEF k, pads
<1>4. /\ text \o pads \in Seq(Char)
      /\ Len(text \o pads) = Len(text) + k
      /\ \A i \in 1..Len(text) : (text \o pads)[i] = text[i]
      /\ \A i \in (Len(text) + 1)..(Len(text) + k) : (text \o pads)[i] = Pad
  <2>1. /\ text \o pads \in Seq(Char) /\ Len(text \o pads) = Len(text) + k
    BY <1>1, <1>3
  <2>2. \A i \in 1..Len(text) : (text \o pads)[i] = text[i]
    BY <1>1, <1>3
  <2>3. ASSUME NEW i \in (Len(text) + 1)..(Len(text) + k)
        PROVE  (text \o pads)[i] = Pad
    <3>1. i - Len(text) \in 1..k
      BY <1>1
    <3>2. (text \o pads)[i] = pads[i - Len(text)]
      BY <1>1, <1>3
    <3> QED
      BY <1>3, <3>1, <3>2
  <2> QED
    BY <2>1, <2>2, <2>3
<1>5. k = 0 => text \o pads = text
  BY <1>3, <1>4
<1> QED
  BY <1>1, <1>2, <1>4, <1>5

LEMMA PadsFor ==
  ASSUME NEW n \in Nat, NEW k \in 0..3, (n + k) % 4 = 0
  PROVE  /\ n % 4 = 0 \/ n % 4 = 1 \/ n % 4 = 2 \/ n % 4 = 3
         /\ n % 4 = 1 => k = 3
         /\ n % 4 = 2 => k = 2
         /\ n % 4 = 3 => k = 1
  OBVIOUS

LEMMA PadsForOneMore ==
  ASSUME NEW n \in Nat, NEW k \in 0..3, ((n + 1) + k) % 4 = 0
  PROVE  /\ n % 4 = 0 \/ n % 4 = 1 \/ n % 4 = 2 \/ n % 4 = 3
         /\ n % 4 = 1 => k = 2
         /\ n % 4 = 2 => k = 1
         /\ n % 4 = 3 => k = 0
  OBVIOUS

LEMMA LettersAreText == Seq(Letter) \subseteq Seq(Char)
<1>1. Letter \subseteq Char
  BY DEF Letter, Char
<1> QED
  BY <1>1

(* A text of letters is read as it is.  One more letter than a multiple of  *)
(* four is the one length no bytes have.                                    *)
LEMMA LettersDecoded ==
  ASSUME NEW text \in Seq(Letter)
  PROVE  /\ Decoded(text) = text
         /\ Decodable(text) <=> Len(text) % 4 # 1
<1> DEFINE n == Len(text)
           padded == Padded(text)
           end == Scanned(padded)
<1>0. text \in Seq(Char) /\ n \in Nat
  BY LettersAreText
<1>1. PICK k \in 0..3 :
         /\ padded \in Seq(Char)
         /\ Len(padded) = n + k
         /\ (n + k) % 4 = 0
         /\ \A i \in 1..n : padded[i] = text[i]
         /\ \A i \in (n + 1)..(n + k) : padded[i] = Pad
  BY <1>0, PaddedText
<1>9. /\ n % 4 = 0 \/ n % 4 = 1 \/ n % 4 = 2 \/ n % 4 = 3
      /\ n % 4 = 1 => k = 3
      /\ n % 4 = 2 => k = 2
      /\ n % 4 = 3 => k = 1
  <2> HIDE DEF n, padded
  <2> QED
    BY <1>0, <1>1, PadsFor
<1> HIDE DEF padded
<1>2. PICK scan : Scans(padded, scan)
  BY <1>1, ScanSteps
<1>3. scan[n] = [letters |-> text, pads |-> 0]
  <2>1. scan[0] = Kept(text, 0)
    BY <1>2 DEF Scans, NothingRead, Kept
  <2>2. Follows(padded, 0, text, 0, n)
    BY <1>0, <1>1 DEF Follows
  <2>3. scan[0 + n] = Kept(text, 0 + n)
    BY <1>0, <1>1, <1>2, <2>1, <2>2, LettersGoOn
  <2>4. SubSeq(text, 1, n) = text
    BY <1>0
  <2>5. 0 + n = n
    BY <1>0
  <2> QED
    BY <2>3, <2>4, <2>5 DEF Kept
<1>4. end.letters = text
  <2>1. n \in 0..Len(padded) /\ \A i \in (n + 1)..Len(padded) : padded[i] = Pad
    BY <1>0, <1>1
  <2> HIDE DEF n
  <2>2. Scanned(padded).letters = scan[n].letters
    BY <1>1, <1>2, <2>1, PadsKeepLetters
  <2> QED
    BY <1>3, <2>2
<1>5. \A i \in 1..k : scan[n + i] = Read(scan[n + (i - 1)], Pad)
  <2>1. ASSUME NEW i \in 1..k PROVE scan[n + i] = Read(scan[n + (i - 1)], Pad)
    <3>1. /\ n + i \in 1..Len(padded) /\ n + i \in (n + 1)..(n + k)
          /\ (n + i) - 1 = n + (i - 1)
      BY <1>0, <1>1
    <3> QED
      BY <1>1, <1>2, <3>1 DEF Scans
  <2> QED
    BY <2>1
<1>6. end = scan[n + k]
  BY <1>1, <1>2 DEF Scans
<1> HIDE DEF end
<1>7. Ended(end) \/ n % 4 = 0 <=> n % 4 # 1
  <2> HIDE DEF n
  <2>0. scan[n + 0] = scan[n]
    BY <1>0
  <2> DEFINE state(pads) == [letters |-> text, pads |-> pads]
  <2>1. \A pads \in Nat : Ended(state(pads)) <=> (n % 4) + pads >= 4
    BY DEF Ended, n
  <2>2. \A pads \in Nat :
           Read(state(pads), Pad) = IF ~Ended(state(pads)) /\ n % 4 >= 2
                                      THEN state(pads + 1) ELSE state(pads)
    BY ReadPadOf DEF n
  <2>3. scan[n] = state(0)
    BY <1>3
  <2> HIDE DEF state
  <2>4. CASE n % 4 = 0
    BY <2>4
  <2>5. CASE n % 4 = 1
    <3>1. k = 3
      BY <1>9, <2>5
    <3>e. ~Ended(state(0)) /\ ~(n % 4 >= 2)
      BY <2>1, <2>5
    <3>2. ~Ended(state(0)) /\ Read(state(0), Pad) = state(0)
      <4>1. 0 \in Nat
        OBVIOUS
      <4> QED
        BY <2>2, <3>e, <4>1, Zenon
    <3>3. scan[n + 1] = state(0) /\ scan[n + 2] = state(0) /\ scan[n + 3] = state(0)
      <4>1. /\ scan[n + 1] = Read(scan[n + 0], Pad)
            /\ scan[n + 2] = Read(scan[n + 1], Pad)
            /\ scan[n + 3] = Read(scan[n + 2], Pad)
        <5>1. 1 - 1 = 0 /\ 2 - 1 = 1 /\ 3 - 1 = 2
          OBVIOUS
        <5>2. 1 \in 1..k /\ 2 \in 1..k /\ 3 \in 1..k
          BY <3>1
        <5> QED
          BY <1>5, <5>1, <5>2
      <4> QED
        BY <2>0, <2>3, <3>2, <4>1
    <3> QED
      BY <1>6, <2>5, <3>1, <3>2, <3>3
  <2>6. CASE n % 4 = 2
    <3>1. k = 2
      BY <1>9, <2>6
    <3>2. /\ scan[n + 1] = Read(scan[n + 0], Pad)
          /\ scan[n + 2] = Read(scan[n + 1], Pad)
      <4>1. 1 - 1 = 0 /\ 2 - 1 = 1
        OBVIOUS
      <4>2. 1 \in 1..k /\ 2 \in 1..k
        BY <3>1
      <4> QED
        BY <1>5, <4>1, <4>2
    <3>3. Read(state(0), Pad) = state(0 + 1) /\ Read(state(1), Pad) = state(1 + 1)
      BY <2>1, <2>2, <2>6
    <3>4. scan[n + 2] = state(2)
      BY <2>0, <2>3, <3>2, <3>3
    <3>5. Ended(state(2))
      BY <2>1, <2>6
    <3> QED
      BY <1>6, <2>6, <3>1, <3>4, <3>5
  <2>7. CASE n % 4 = 3
    <3>1. k = 1
      BY <1>9, <2>7
    <3>2. scan[n + 1] = Read(scan[n + 0], Pad)
      <4>1. 1 - 1 = 0 /\ 1 \in 1..k
        BY <3>1
      <4> QED
        BY <1>5, <4>1
    <3>3. Read(state(0), Pad) = state(0 + 1)
      BY <2>1, <2>2, <2>7
    <3>4. Ended(state(1))
      BY <2>1, <2>7
    <3> QED
      BY <1>6, <2>0, <2>3, <2>7, <3>1, <3>2, <3>3, <3>4
  <2> QED
    BY <1>9, <2>4, <2>5, <2>6, <2>7
<1> QED
  BY <1>4, <1>7 DEF Decoded, Decodable, padded, end

(* One character that is none, anywhere, is passed over.  It counts when the *)
(* pads are added, so that there are too few of them, if any are needed.    *)
LEMMA WrappedDecoded ==
  ASSUME NEW text \in Seq(Letter), NEW i \in 1..Len(text)
  PROVE  /\ Decoded(InsertAt(text, i, Junk)) = text
         /\ Decodable(InsertAt(text, i, Junk)) <=> Len(text) % 4 = 0
<1> DEFINE n == Len(text)
           left == SubSeq(text, 1, i - 1)
           right == SubSeq(text, i, n)
           wrapped == (left \o <<Junk>>) \o right
           padded == Padded(wrapped)
<1>0. n \in Nat /\ i \in 1..n
  OBVIOUS
<1>1. InsertAt(text, i, Junk) = wrapped
  BY DEF InsertAt
<1>2. /\ wrapped \in Seq(Char)
      /\ Len(wrapped) = n + 1
      /\ \A j \in 1..(i - 1) : wrapped[j] = text[j]
      /\ wrapped[i] = Junk
      /\ \A j \in i..n : wrapped[j + 1] = text[j]
  <2>1. /\ left \in Seq(Letter) /\ Len(left) = i - 1
        /\ \A j \in 1..(i - 1) : left[j] = text[j]
    BY <1>0
  <2>2. /\ right \in Seq(Letter) /\ Len(right) = n - i + 1
        /\ \A j \in 1..(n - i + 1) : right[j] = text[(j + i) - 1]
    BY <1>0
  <2>j. Junk \in Char
    BY DEF Junk, Char
  <2> HIDE DEF left, right
  <2>l. left \in Seq(Char)
    BY <2>1, LettersAreText
  <2>r. right \in Seq(Char)
    BY <2>2, LettersAreText
  <2> DEFINE first == left \o <<Junk>>
  <2>4. /\ first \in Seq(Char) /\ Len(first) = i
        /\ \A j \in 1..(i - 1) : first[j] = text[j]
        /\ first[i] = Junk
    <3> DEFINE it == <<Junk>>
    <3>t. it \in Seq(Char)
      BY <2>j
    <3>1. Len(it) = 1 /\ it[1] = Junk
      OBVIOUS
    <3> HIDE DEF it, n
    <3>2. /\ left \o it \in Seq(Char) /\ Len(left \o it) = (i - 1) + 1
          /\ \A j \in 1..(i - 1) : (left \o it)[j] = left[j]
          /\ \A j \in 1..1 : (left \o it)[(i - 1) + j] = it[j]
      <4>1. left \o it \in Seq(Char)
        BY <2>l, <3>t
      <4>2. Len(left \o it) = Len(left) + Len(it)
        BY <2>l, <3>t, Joined
      <4>3. \A j \in 1..Len(left) : (left \o it)[j] = left[j]
        BY <2>l, <3>t, Joined
      <4>4. \A j \in 1..Len(it) : (left \o it)[Len(left) + j] = it[j]
        BY <2>l, <3>t, Joined
      <4>5. Len(left) = i - 1 /\ Len(it) = 1
        BY <2>1, <3>1
      <4> QED
        BY <4>1, <4>2, <4>3, <4>4, <4>5, Zenon
    <3> QED
      <4>1. (i - 1) + 1 = i /\ 1 \in 1..1
        BY <1>0
      <4> QED
        BY <2>1, <3>1, <3>2, <4>1 DEF it
  <2> HIDE DEF first, n
  <2>f. first \in Seq(Char)
    BY <2>4
  <2>5. /\ first \o right \in Seq(Char) /\ Len(first \o right) = n + 1
        /\ \A j \in 1..i : (first \o right)[j] = first[j]
    <3>1. first \o right \in Seq(Char)
      BY <2>f, <2>r
    <3>2. Len(first \o right) = Len(first) + Len(right)
      BY <2>f, <2>r, Joined
    <3>3. \A j \in 1..Len(first) : (first \o right)[j] = first[j]
      BY <2>f, <2>r, Joined
    <3>4. Len(first) = i /\ Len(first) + Len(right) = n + 1
      BY <1>0, <2>2, <2>4
    <3> QED
      BY <3>1, <3>2, <3>3, <3>4, Zenon
  <2>6. ASSUME NEW j \in i..n PROVE (first \o right)[j + 1] = text[j]
    <3>1. /\ j + 1 \in (i + 1)..(n + 1) /\ (j + 1) - i \in 1..(n - i + 1)
          /\ (((j + 1) - i) + i) - 1 = j
      BY <1>0
    <3>2. (first \o right)[j + 1] = right[(j + 1) - i]
      <4>1. \A m \in 1..Len(right) : (first \o right)[Len(first) + m] = right[m]
        BY <2>f, <2>r, Joined
      <4>2. (j + 1) - i \in 1..Len(right) /\ i + ((j + 1) - i) = j + 1
        BY <1>0, <2>2, <3>1
      <4>3. Len(first) = i
        BY <2>4
      <4> QED
        BY <4>1, <4>2, <4>3
    <3> QED
      BY <2>2, <3>1, <3>2
  <2> QED
    BY <1>0, <2>4, <2>5, <2>6 DEF first
<1> HIDE DEF wrapped
<1>p. PICK k \in 0..3 :
         /\ padded \in Seq(Char)
         /\ Len(padded) = Len(wrapped) + k
         /\ (Len(wrapped) + k) % 4 = 0
         /\ \A j \in 1..Len(wrapped) : padded[j] = wrapped[j]
         /\ \A j \in (Len(wrapped) + 1)..(Len(wrapped) + k) : padded[j] = Pad
  BY <1>2, PaddedText
<1>3. /\ padded \in Seq(Char)
      /\ Len(padded) = Len(wrapped) + k
      /\ \A j \in 1..Len(wrapped) : padded[j] = wrapped[j]
      /\ \A j \in (Len(wrapped) + 1)..(Len(wrapped) + k) : padded[j] = Pad
  BY <1>p
<1> HIDE DEF padded
<1>4. PICK scan : Scans(padded, scan)
  BY <1>3, ScanSteps
<1>5. scan[i - 1] = Kept(text, i - 1)
  <2>1. scan[0] = Kept(text, 0)
    BY <1>4 DEF Scans, NothingRead, Kept
  <2>2. Follows(padded, 0, text, 0, i - 1)
    BY <1>0, <1>2, <1>3 DEF Follows
  <2>3. i - 1 \in Nat /\ 0 + (i - 1) = i - 1
    BY <1>0
  <2>4. scan[0 + (i - 1)] = Kept(text, 0 + (i - 1))
    BY <1>3, <1>4, <2>1, <2>2, <2>3, LettersGoOn
  <2> QED
    BY <2>3, <2>4
<1>6. scan[i] = Kept(text, i - 1)
  <2>1. /\ i \in 1..Len(padded) /\ i - 1 \in 0..Len(padded)
        /\ padded[i] = Junk
    BY <1>0, <1>2, <1>3
  <2>2. scan[i] = Read(scan[i - 1], Junk)
    BY <1>4, <2>1 DEF Scans
  <2> QED
    BY <1>5, <2>2, ReadJunk
<1>7. scan[n + 1] = Kept(text, n)
  <2>1. Follows(padded, i, text, i - 1, (n - i) + 1)
    <3>1. ASSUME NEW j \in 1..((n - i) + 1)
          PROVE  padded[i + j] = text[(i - 1) + j]
      <4>1. /\ (i - 1) + j \in i..n /\ ((i - 1) + j) + 1 = i + j
            /\ i + j \in 1..(n + 1)
        BY <1>0
      <4> HIDE DEF n
      <4> QED
        BY <1>2, <1>3, <4>1
    <3>2. /\ i + ((n - i) + 1) <= Len(padded)
          /\ (i - 1) + ((n - i) + 1) <= Len(text)
      BY <1>0, <1>2, <1>3
    <3> QED
      BY <3>1, <3>2 DEF Follows
  <2>2. /\ i \in Nat /\ i - 1 \in Nat /\ (n - i) + 1 \in Nat
        /\ i + ((n - i) + 1) = n + 1 /\ (i - 1) + ((n - i) + 1) = n
    BY <1>0
  <2>3. scan[i + ((n - i) + 1)] = Kept(text, (i - 1) + ((n - i) + 1))
    <3> HIDE DEF n
    <3> QED
      BY <1>3, <1>4, <1>6, <2>1, <2>2, LettersGoOn
  <2> QED
    BY <2>2, <2>3
<1>8. Scanned(padded).letters = scan[n + 1].letters
  <2>1. /\ n + 1 \in 0..Len(padded)
        /\ \A j \in ((n + 1) + 1)..Len(padded) : padded[j] = Pad
    BY <1>0, <1>2, <1>3
  <2> HIDE DEF n
  <2> QED
    BY <1>3, <1>4, <2>1, PadsKeepLetters
<1>9. SubSeq(text, 1, n) = text
  BY <1>0
<1>10. /\ n % 4 = 0 \/ n % 4 = 1 \/ n % 4 = 2 \/ n % 4 = 3
       /\ n % 4 = 1 => k = 2
       /\ n % 4 = 2 => k = 1
       /\ n % 4 = 3 => k = 0
  <2> HIDE DEF n
  <2> QED
    BY <1>0, <1>2, <1>p, PadsForOneMore
<1>11. ASSUME NEW j \in 1..k
       PROVE  scan[(n + 1) + j] = Read(scan[(n + 1) + (j - 1)], Pad)
  <2>1. /\ (n + 1) + j \in 1..Len(padded)
        /\ (n + 1) + j \in (Len(wrapped) + 1)..(Len(wrapped) + k)
        /\ ((n + 1) + j) - 1 = (n + 1) + (j - 1)
    BY <1>0, <1>2, <1>3
  <2> QED
    BY <1>3, <1>4, <2>1 DEF Scans
<1> DEFINE end == Scanned(padded)
           state(pads) == [letters |-> text, pads |-> pads]
<1>12. end = scan[(n + 1) + k]
  BY <1>2, <1>3, <1>4 DEF Scans
<1>13. end.letters = text
  BY <1>7, <1>8, <1>9 DEF Kept
<1>14. \A pads \in Nat : Ended(state(pads)) <=> (n % 4) + pads >= 4
  BY DEF Ended, n
<1>15. \A pads \in Nat :
          Read(state(pads), Pad) = IF ~Ended(state(pads)) /\ n % 4 >= 2
                                     THEN state(pads + 1) ELSE state(pads)
  BY ReadPadOf DEF n
<1>16. scan[n + 1] = state(0) /\ scan[(n + 1) + 0] = state(0)
  BY <1>0, <1>7, <1>9 DEF Kept
<1> HIDE DEF end, state
<1>17. n % 4 # 0 => ~Ended(end)
  <2> HIDE DEF n
  <2>1. CASE n % 4 = 1
    <3>1. k = 2
      BY <1>10, <2>1
    <3>2. /\ scan[(n + 1) + 1] = Read(scan[(n + 1) + 0], Pad)
          /\ scan[(n + 1) + 2] = Read(scan[(n + 1) + 1], Pad)
      <4>1. 1 - 1 = 0 /\ 2 - 1 = 1 /\ 1 \in 1..k /\ 2 \in 1..k
        BY <3>1
      <4> QED
        BY <1>11, <4>1
    <3>3. 0 \in Nat /\ ~(n % 4 >= 2)
      BY <2>1
    <3>4. Read(state(0), Pad) = state(0)
      BY <1>15, <3>3, Zenon
    <3>5. end = state(0)
      BY <1>12, <1>16, <3>1, <3>2, <3>4
    <3>6. ~((n % 4) + 0 >= 4)
      BY <2>1
    <3> QED
      BY <1>14, <3>3, <3>5, <3>6, Zenon
  <2>2. CASE n % 4 = 2
    <3>1. k = 1
      BY <1>10, <2>2
    <3>2. scan[(n + 1) + 1] = Read(scan[(n + 1) + 0], Pad)
      <4>1. 1 - 1 = 0 /\ 1 \in 1..k
        BY <3>1
      <4> QED
        BY <1>11, <4>1
    <3>3. Read(state(0), Pad) = state(0 + 1)
      BY <1>14, <1>15, <2>2
    <3>4. end = state(1)
      BY <1>12, <1>16, <3>1, <3>2, <3>3
    <3> QED
      BY <1>14, <2>2, <3>4
  <2>3. CASE n % 4 = 3
    <3>1. end = state(0)
      BY <1>10, <1>12, <1>16, <2>3
    <3> QED
      BY <1>14, <2>3, <3>1
  <2> QED
    BY <1>10, <2>1, <2>2, <2>3
<1>18. Decoded(InsertAt(text, i, Junk)) = text
  BY <1>1, <1>13 DEF Decoded, padded, end
<1>19. Decodable(InsertAt(text, i, Junk)) <=> Ended(end) \/ n % 4 = 0
  BY <1>1, <1>13 DEF Decodable, padded, end
<1> QED
  BY <1>17, <1>18, <1>19

(* Pads that are there already are not added again.                         *)
LEMMA PaddedTwice ==
  ASSUME NEW text \in Seq(Char)
  PROVE  Padded(Padded(text)) = Padded(text)
<1>1. PICK k \in 0..3 :
         /\ Padded(text) \in Seq(Char)
         /\ Len(Padded(text)) % 4 = 0
  BY PaddedText
<1>2. PICK m \in 0..3 :
         /\ (Len(Padded(text)) + m) % 4 = 0
         /\ m = 0 => Padded(Padded(text)) = Padded(text)
  BY <1>1, PaddedText
<1>3. m = 0
  BY <1>1, <1>2
<1> QED
  BY <1>2, <1>3

LEMMA PaddedDecoded ==
  ASSUME NEW text \in Seq(Letter)
  PROVE  /\ Decoded(Padded(text)) = Decoded(text)
         /\ Decodable(Padded(text)) <=> Decodable(text)
  BY LettersAreText, PaddedTwice DEF Decoded, Decodable

-----------------------------------------------------------------------------
(* The conversions together.                                                *)

(* The letters of a text stand for the bytes it was made of, with pads and  *)
(* with a break inside, but a break may leave too few pads.                 *)
LEMMA LettersSurvive ==
  ASSUME NEW bytes \in Seq(Byte)
  PROVE  LET text == Base64urlEncode(bytes)
         IN  /\ Decodable(text) /\ Base64urlDecode(text) = bytes
             /\ Decodable(Padded(text)) /\ Base64urlDecode(Padded(text)) = bytes
             /\ \A i \in DOMAIN text :
                   LET broken == InsertAt(text, i, Junk)
                   IN  /\ Base64urlDecode(broken) = bytes
                       /\ Decodable(broken) <=> Len(bytes) % 3 = 0
<1> DEFINE text == Base64urlEncode(bytes)
<1>1. text \in Seq(Letter)
  BY EncodedLetters
<1>2. Len(text) % 4 # 1 /\ (Len(text) % 4 = 0 <=> Len(bytes) % 3 = 0)
  <2>1. Len(bytes) \in Nat /\ Len(text) = (4 * Len(bytes) + 2) \div 3
    BY EncodedLetters
  <2> QED
    BY <2>1, EncodedLength
<1>3. BytesOf(text) = bytes
  BY BytesOfEncoded
<1> HIDE DEF text
<1>4. Decoded(text) = text /\ Decodable(text)
  BY <1>1, <1>2, LettersDecoded
<1>5. Decoded(Padded(text)) = text /\ Decodable(Padded(text))
  BY <1>1, <1>4, PaddedDecoded
<1>6. ASSUME NEW i \in DOMAIN text
      PROVE  /\ Decoded(InsertAt(text, i, Junk)) = text
             /\ Decodable(InsertAt(text, i, Junk)) <=> Len(text) % 4 = 0
  <2>1. i \in 1..Len(text)
    BY <1>1
  <2> QED
    BY <1>1, <2>1, WrappedDecoded
<1>7. /\ Base64urlDecode(text) = bytes /\ Base64urlDecode(Padded(text)) = bytes
      /\ \A i \in DOMAIN text : Base64urlDecode(InsertAt(text, i, Junk)) = bytes
  BY <1>3, <1>4, <1>5, <1>6 DEF Base64urlDecode
<1> QED
  BY <1>2, <1>4, <1>5, <1>6, <1>7 DEF text

(* base64url_decode gives back what base64url_encode was given, bytes of any *)
(* length, with the pads of other encoders too.  A text over two lines it   *)
(* refuses, unless the number of bytes is a multiple of three: it counts the *)
(* break when it adds the pads.  When it does not refuse, the bytes are the *)
(* same.                                                                    *)
THEOREM BytesSurviveText ==
  ASSUME NEW bytes \in Seq(Byte)
  PROVE  LET text == Base64urlEncode(bytes)
         IN  /\ Decodable(text) /\ Base64urlDecode(text) = bytes
             /\ Decodable(Padded(text)) /\ Base64urlDecode(Padded(text)) = bytes
             /\ \A i \in DOMAIN text :
                   LET broken == InsertAt(text, i, Junk)
                   IN  IF Len(bytes) % 3 = 0
                         THEN Decodable(broken) /\ Base64urlDecode(broken) = bytes
                         ELSE ~Decodable(broken)
  BY LettersSurvive

(* What a text without its last letter says: nothing that can be decoded,   *)
(* or one byte less.                                                        *)
LEMMA CutText ==
  ASSUME NEW bytes \in Seq(Byte), bytes # <<>>,
         Decodable(Front(Base64urlEncode(bytes)))
  PROVE  Len(Base64urlDecode(Front(Base64urlEncode(bytes)))) = Len(bytes) - 1
<1> DEFINE text == Base64urlEncode(bytes)
           n == Len(bytes)
<1>1. n \in Nat /\ n > 0
  OBVIOUS
<1>2. text \in Seq(Letter) /\ Len(text) = (4 * n + 2) \div 3
  BY EncodedLetters
<1>3. /\ Len(text) > 0
      /\ (Len(text) - 1) % 4 = 1 \/ (3 * (Len(text) - 1)) \div 4 = n - 1
  BY <1>1, <1>2, EncodedLength
<1> HIDE DEF text
<1>4. Front(text) \in Seq(Letter) /\ Len(Front(text)) = Len(text) - 1
  BY <1>2, <1>3 DEF Front
<1>5. Decodable(Front(text))
  BY DEF text
<1>6. Decoded(Front(text)) = Front(text) /\ Len(Front(text)) % 4 # 1
  BY <1>4, <1>5, LettersDecoded
<1>7. Len(BytesOf(Front(text))) = (3 * Len(Front(text))) \div 4
  <2>1. (3 * Len(Front(text))) \div 4 \in Nat
    BY <1>2, <1>3, <1>4
  <2> QED
    BY <2>1 DEF BytesOf
<1> QED
  BY <1>3, <1>4, <1>6, <1>7 DEF Base64urlDecode, text

LEMMA ZeroByte == Value(<<0>>) = 0
<1>1. BigEndian(0, 1) = <<0>>
  <2>1. Shifted(0, 0) = 0
    BY ShiftedSteps
  <2> QED
    BY <2>1 DEF BigEndian
<1>2. Shifted(0, 1) = 0
  <2>1. Shifted(0, 0) = 0 /\ Shifted(0, 0 + 1) = Shifted(0, 0) \div 256
    BY ShiftedSteps
  <2> QED
    BY <2>1
<1> QED
  BY <1>1, <1>2, ValueOfBigEndian

(* to_base64url_uint loses nothing of a number that fits the bit length it  *)
(* is given: leading zeros come and go, and zero has a byte of its own.  A  *)
(* text over two lines is refused or is the number still.                   *)
THEOREM NumberSurvivesText ==
  ASSUME NEW n \in Nat, NEW bits \in Nat, Shifted(n, WidthOf(bits)) = 0
  PROVE  LET text == ToBase64urlUint(n, bits)
         IN  /\ text \in Seq(Letter)
             /\ Decodable(text) /\ FromBase64urlUint(text) = n
             /\ Decodable(Padded(text)) /\ FromBase64urlUint(Padded(text)) = n
             /\ \A i \in DOMAIN text :
                   LET broken == InsertAt(text, i, Junk)
                   IN  Decodable(broken) => FromBase64urlUint(broken) = n
<1> DEFINE width == WidthOf(bits)
           bytes == IF width = 0 THEN <<0>> ELSE BigEndian(n, width)
<1>1. width \in Nat
  BY DEF WidthOf
<1>2. bytes \in Seq(Byte) /\ Value(bytes) = n
  <2>1. CASE width = 0
    <3>1. n = 0
      BY <2>1, ShiftedSteps
    <3>2. <<0>> \in Seq(Byte)
      BY DEF Byte
    <3> QED
      BY <2>1, <3>1, <3>2, ZeroByte
  <2>2. CASE width # 0
    <3>1. BigEndian(n, width) \in Seq(Byte)
      BY <1>1, BigEndianBytes
    <3>2. Value(BigEndian(n, width)) = n
      BY <1>1, ValueOfBigEndian
    <3> QED
      BY <2>2, <3>1, <3>2
  <2> QED
    BY <2>1, <2>2
<1>3. ToBase64urlUint(n, bits) = Base64urlEncode(bytes)
  BY DEF ToBase64urlUint, BytesFromInt
<1> HIDE DEF bytes, width
<1>4. Base64urlEncode(bytes) \in Seq(Letter)
  BY <1>2, EncodedLetters
<1> QED
  BY <1>2, <1>3, <1>4, LettersSurvive DEF FromBase64urlUint

LEMMA BitLengthSteps ==
  /\ BitLength[0] = 0
  /\ \A n \in Nat : n > 0 => BitLength[n] = 1 + BitLength[n \div 2]
  /\ \A n \in Nat : BitLength[n] \in Nat
<1> DEFINE Body(f) == f = [n \in Nat |-> IF n = 0 THEN 0 ELSE 1 + f[n \div 2]]
           p == [n \in Nat |-> n \div 2]
           step == [n \in Nat |-> [m \in Nat |-> 1 + m]]
<1>1. \E g : Body(g)
  <2>1. p \in [Nat -> Nat] /\ \A n \in Nat : n > 0 => p[n] < n
    OBVIOUS
  <2>2. step \in [Nat -> [Nat -> Nat]]
    OBVIOUS
  <2> HIDE DEF p, step
  <2>3. PICK g \in [Nat -> Nat] : Recursive(g, Nat, 0, p, step)
    BY <2>1, <2>2, Recursion
  <2>4. \A n \in Nat : step[n][g[p[n]]] = 1 + g[n \div 2]
    BY DEF p, step
  <2>5. \A n \in Nat : g[n] = IF n = 0 THEN 0 ELSE 1 + g[n \div 2]
    BY <2>3, <2>4 DEF Recursive
  <2>6. g = [n \in Nat |-> g[n]]
    OBVIOUS
  <2>7. g = [n \in Nat |-> IF n = 0 THEN 0 ELSE 1 + g[n \div 2]]
    BY <2>5, <2>6, Zenon
  <2> QED
    BY <2>7
<1>2. Body(BitLength)
  <2>1. BitLength = CHOOSE f : Body(f)
    BY DEF BitLength
  <2> HIDE DEF Body
  <2> QED
    BY <1>1, <2>1
<1>3. /\ BitLength[0] = 0
      /\ \A n \in Nat : n > 0 => BitLength[n] = 1 + BitLength[n \div 2]
  BY <1>2
<1>4. ASSUME NEW n \in Nat, BitLength[n] \notin Nat PROVE FALSE
  <2> DEFINE S == {m \in Nat : BitLength[m] \notin Nat}
  <2>1. PICK m \in S : \A k \in S : m <= k
    <3>1. S \subseteq Nat /\ S # {}
      BY <1>4
    <3> HIDE DEF S
    <3> QED
      BY <3>1, Least
  <2>2. m \in Nat /\ m > 0 /\ BitLength[m] \notin Nat
    BY <1>3
  <2>3. m \div 2 \in Nat /\ m \div 2 < m
    BY <2>2
  <2>4. BitLength[m \div 2] \in Nat
    BY <2>1, <2>2, <2>3
  <2> QED
    BY <1>3, <2>2, <2>4
<1> QED
  BY <1>3, <1>4

(* Eight bits less are one byte less.                                       *)
LEMMA ByteOfBits ==
  ASSUME NEW n \in Nat, NEW k \in Nat, BitLength[n] <= 8 * (k + 1)
  PROVE  BitLength[n \div 256] <= 8 * k
<1> DEFINE Halved(a, b) == BitLength[b] <= IF BitLength[a] = 0 THEN 0
                                           ELSE BitLength[a] - 1
<1>1. ASSUME NEW a \in Nat
      PROVE  /\ a \div 2 \in Nat /\ BitLength[a] \in Nat
             /\ BitLength[a \div 2] \in Nat /\ Halved(a, a \div 2)
  <2>1. a \div 2 \in Nat /\ (a = 0 => a \div 2 = 0)
    OBVIOUS
  <2>2. BitLength[a] \in Nat /\ BitLength[a \div 2] \in Nat /\ BitLength[0] = 0
    BY <2>1, BitLengthSteps
  <2>3. a > 0 => BitLength[a] = 1 + BitLength[a \div 2]
    BY BitLengthSteps
  <2> QED
    BY <2>1, <2>2, <2>3
<1> DEFINE n1 == n \div 2   n2 == n1 \div 2   n3 == n2 \div 2   n4 == n3 \div 2
           n5 == n4 \div 2  n6 == n5 \div 2   n7 == n6 \div 2   n8 == n7 \div 2
<1>2. n \div 256 = n8
  OBVIOUS
<1>3. /\ n1 \in Nat /\ BitLength[n] \in Nat /\ Halved(n, n1)
      /\ n2 \in Nat /\ BitLength[n1] \in Nat /\ Halved(n1, n2)
      /\ n3 \in Nat /\ BitLength[n2] \in Nat /\ Halved(n2, n3)
      /\ n4 \in Nat /\ BitLength[n3] \in Nat /\ Halved(n3, n4)
      /\ n5 \in Nat /\ BitLength[n4] \in Nat /\ Halved(n4, n5)
      /\ n6 \in Nat /\ BitLength[n5] \in Nat /\ Halved(n5, n6)
      /\ n7 \in Nat /\ BitLength[n6] \in Nat /\ Halved(n6, n7)
      /\ BitLength[n8] \in Nat /\ BitLength[n7] \in Nat /\ Halved(n7, n8)
  <2> HIDE DEF Halved
  <2> QED
    BY <1>1
<1> HIDE DEF n1, n2, n3, n4, n5, n6, n7, n8
<1> QED
  BY <1>2, <1>3

LEMMA ShiftedFirst ==
  ASSUME NEW n \in Nat, NEW k \in Nat
  PROVE  Shifted(n \div 256, k) = Shifted(n, k + 1)
<1> DEFINE S == {i \in Nat : Shifted(n \div 256, i) = Shifted(n, i + 1)}
<1>0. n \div 256 \in Nat
  OBVIOUS
<1>1. 0 \in S
  <2>1. Shifted(n \div 256, 0) = n \div 256
    BY <1>0, ShiftedSteps
  <2>2. Shifted(n, 0) = n /\ Shifted(n, 0 + 1) = Shifted(n, 0) \div 256
    BY ShiftedSteps
  <2> QED
    BY <2>1, <2>2
<1>2. ASSUME NEW i \in 0..(k - 1), i \in S PROVE i + 1 \in S
  <2>1. i \in Nat /\ i + 1 \in Nat
    OBVIOUS
  <2>2. Shifted(n \div 256, i + 1) = Shifted(n \div 256, i) \div 256
    BY <1>0, <2>1, ShiftedSteps
  <2>3. Shifted(n, (i + 1) + 1) = Shifted(n, i + 1) \div 256
    BY <2>1, ShiftedSteps
  <2> QED
    BY <1>2, <2>1, <2>2, <2>3
<1>3. 0..k \subseteq S
  <2> HIDE DEF S
  <2> QED
    BY <1>1, <1>2, Induction
<1> QED
  BY <1>3

(* A number's own bit length has room for it.                               *)
LEMMA OwnLength ==
  ASSUME NEW n \in Nat
  PROVE  BitLength[n] \in Nat /\ Shifted(n, WidthOf(BitLength[n])) = 0
<1> DEFINE S == {k \in Nat : \A m \in Nat :
                   BitLength[m] <= 8 * k => Shifted(m, k) = 0}
           width == WidthOf(BitLength[n])
<1>1. 0 \in S
  <2>1. ASSUME NEW m \in Nat, BitLength[m] <= 8 * 0 PROVE m = 0
    <3>1. ASSUME m > 0 PROVE FALSE
      <4>1. m \div 2 \in Nat
        OBVIOUS
      <4>2. BitLength[m] = 1 + BitLength[m \div 2] /\ BitLength[m \div 2] \in Nat
        BY <3>1, <4>1, BitLengthSteps
      <4> QED
        BY <2>1, <4>2
    <3> QED
      BY <3>1
  <2>2. \A m \in Nat : Shifted(m, 0) = m
    BY ShiftedSteps
  <2> QED
    BY <2>1, <2>2
<1>2. ASSUME NEW k \in 0..(width - 1), k \in S PROVE k + 1 \in S
  <2>1. k \in Nat
    OBVIOUS
  <2>2. ASSUME NEW m \in Nat, BitLength[m] <= 8 * (k + 1)
        PROVE  Shifted(m, k + 1) = 0
    <3>1. m \div 256 \in Nat
      OBVIOUS
    <3>2. BitLength[m \div 256] <= 8 * k
      BY <2>1, <2>2, ByteOfBits
    <3>3. Shifted(m \div 256, k) = 0
      BY <1>2, <3>1, <3>2
    <3> QED
      BY <2>1, <3>3, ShiftedFirst
  <2> QED
    BY <2>1, <2>2
<1>3. BitLength[n] \in Nat
  BY BitLengthSteps
<1>4. width \in Nat /\ BitLength[n] <= 8 * width
  BY <1>3 DEF WidthOf
<1>5. width \in 0..width
  BY <1>4
<1> HIDE DEF width
<1>6. 0..width \subseteq S
  <2> HIDE DEF S
  <2> QED
    BY <1>1, <1>2, <1>4, Induction
<1>7. Shifted(n, width) = 0
  BY <1>4, <1>5, <1>6
<1> QED
  BY <1>3, <1>7 DEF width

(* A signature that was made for a curve comes back as the two numbers it   *)
(* was made of.                                                             *)
THEOREM SignatureSurvivesRaw ==
  ASSUME NEW r \in Nat, NEW s \in Nat, NEW bits \in Nat,
         Shifted(r, WidthOf(bits)) = 0, Shifted(s, WidthOf(bits)) = 0
  PROVE  LET raw == DerToRaw(<<r, s>>, bits)
         IN  /\ raw \in Seq(Byte) /\ RawFits(raw, bits)
             /\ RawToDer(raw, bits) = <<r, s>>
<1> DEFINE width == WidthOf(bits)
           one == BigEndian(r, width)
           two == BigEndian(s, width)
           raw == one \o two
<1>1. width \in Nat
  BY DEF WidthOf
<1>2. one \in Seq(Byte) /\ Len(one) = width /\ Value(one) = r
  BY <1>1, BigEndianBytes, ValueOfBigEndian
<1>3. two \in Seq(Byte) /\ Len(two) = width /\ Value(two) = s
  BY <1>1, BigEndianBytes, ValueOfBigEndian
<1>4. DerToRaw(<<r, s>>, bits) = raw
  BY DEF DerToRaw, NumberToBytes
<1> HIDE DEF width, one, two
<1>5. raw \in Seq(Byte) /\ Len(raw) = 2 * width
  BY <1>1, <1>2, <1>3
<1>6. (2 * width) \div 2 = width
  BY <1>1
<1>7. SubSeq(raw, 1, width) = one /\ SubSeq(raw, width + 1, 2 * width) = two
  BY <1>1, <1>2, <1>3
<1> HIDE DEF raw
<1>8. RawToDer(raw, bits) = <<r, s>>
  BY <1>2, <1>3, <1>5, <1>6, <1>7 DEF RawToDer
<1> QED
  BY <1>4, <1>5, <1>8 DEF RawFits, width

(* And a raw signature of the length of the curve is the only one its       *)
(* numbers have.                                                            *)
THEOREM RawIsTheOneWriting ==
  ASSUME NEW raw \in Seq(Byte), NEW bits \in Nat, RawFits(raw, bits)
  PROVE  LET pair == RawToDer(raw, bits)
         IN  /\ pair[1] \in Nat /\ pair[2] \in Nat
             /\ pair = <<pair[1], pair[2]>>
             /\ DerToRaw(pair, bits) = raw
<1> DEFINE width == WidthOf(bits)
           one == SubSeq(raw, 1, width)
           two == SubSeq(raw, width + 1, 2 * width)
<1>1. width \in Nat /\ Len(raw) = 2 * width /\ (2 * width) \div 2 = width
  BY DEF WidthOf, RawFits
<1> HIDE DEF width
<1>2. one \in Seq(Byte) /\ Len(one) = width
  BY <1>1
<1>3. two \in Seq(Byte) /\ Len(two) = width
  BY <1>1
<1>4. one \o two = raw
  BY <1>1
<1>5. RawToDer(raw, bits) = <<Value(one), Value(two)>>
  BY <1>1 DEF RawToDer
<1> HIDE DEF one, two
<1>6. Value(one) \in Nat /\ BigEndian(Value(one), width) = one
  BY <1>2, BigEndianOfValue
<1>7. Value(two) \in Nat /\ BigEndian(Value(two), width) = two
  BY <1>3, BigEndianOfValue
<1>8. DerToRaw(<<Value(one), Value(two)>>, bits) = raw
  BY <1>4, <1>6, <1>7 DEF DerToRaw, NumberToBytes, width
<1> QED
  BY <1>5, <1>6, <1>7, <1>8
=============================================================================
