--------------------------- MODULE SequenceLemmas ---------------------------
(***************************************************************************)
(* Facts about numbers and sequences that the proofs of several components *)
(* need: induction in the form of a set of numbers, division, extremes of  *)
(* sets, what FlattenSeq returns of any parts and of two nested loops,     *)
(* sequences that are embedded in others, functions that are defined by    *)
(* recursion, and the order and the sum of a finite set.                   *)
(***************************************************************************)
EXTENDS SequencesExt, FiniteSetsExt, Integers, SequenceTheorems, FiniteSetTheorems,
        WellFoundedInduction, TLAPS

(* A set of numbers has a least element.  (The numbers below n grow with   *)
(* n, and no sequence of finite sets shrinks for ever.)                    *)
LEMMA Least ==
    ASSUME NEW S \in SUBSET Nat, S # {}
    PROVE  \E m \in S : \A n \in S : m <= n
<1> DEFINE Below == {0 .. (n - 1) : n \in S}
<1>1. Below # {} /\ Below \subseteq FiniteSubsetsOf(Nat)
  <2>1. \A n \in S : 0 .. (n - 1) \subseteq Nat /\ IsFiniteSet(0 .. (n - 1))
    BY FS_Interval
  <2> QED
    BY <2>1 DEF FiniteSubsetsOf
<1>2. PICK x \in Below : \A y \in Below : ~ (<<y, x>> \in StrictSubsetOrdering(Nat))
  BY <1>1, WFMin, FS_StrictSubsetOrderingWellFounded
<1>3. PICK m \in S : x = 0 .. (m - 1)
  OBVIOUS
<1>4. ASSUME NEW n \in S
      PROVE  m <= n
  <2> SUFFICES ASSUME n < m PROVE FALSE
    OBVIOUS
  <2>1. 0 .. (n - 1) \in SUBSET Nat /\ 0 .. (m - 1) \in SUBSET Nat
    OBVIOUS
  <2>2. /\ 0 .. (n - 1) \subseteq 0 .. (m - 1)
        /\ n \in 0 .. (m - 1) /\ n \notin 0 .. (n - 1)
    OBVIOUS
  <2>3. <<0 .. (n - 1), 0 .. (m - 1)>> \in StrictSubsetOrdering(Nat)
    BY <2>1, <2>2 DEF StrictSubsetOrdering
  <2> QED
    BY <1>2, <1>3, <2>3
<1> QED
  BY <1>4

(* Induction up to a bound: the set holds the numbers that have the        *)
(* property to be proved.                                                  *)
LEMMA Induction ==
    ASSUME NEW S, NEW low \in Nat, NEW high \in Nat,
           low \in S,
           \A n \in low .. (high - 1) : n \in S => n + 1 \in S
    PROVE  \A n \in low .. high : n \in S
<1> DEFINE Rest == {n \in low .. high : n \notin S}
<1> SUFFICES ASSUME Rest # {} PROVE FALSE
  OBVIOUS
<1>1. PICK m \in Rest : \A n \in Rest : m <= n
  <2>1. Rest \in SUBSET Nat
    OBVIOUS
  <2> HIDE DEF Rest
  <2> QED
    BY <2>1, Least
<1>2. m \in low .. high /\ m \notin S /\ m # low
  OBVIOUS
<1>3. m - 1 \in low .. (high - 1) /\ m - 1 + 1 = m
  BY <1>2
<1>4. m - 1 \notin Rest
  BY <1>1, <1>3
<1>5. m - 1 \in S
  BY <1>3, <1>4
<1> QED
  BY <1>2, <1>3, <1>5
-----------------------------------------------------------------------------
(* Nothing was added.                                                      *)
LEMMA SameLength ==
    ASSUME NEW m \in Nat, NEW n, n = m
    PROVE  m <= n /\ n # m + 1 /\ n <= m + 1
<1>1. \A k \in Nat : k <= k /\ k # k + 1 /\ k <= k + 1
  OBVIOUS
<1> QED
  BY <1>1, Zenon

(* Multiples of n are at least n apart.                                    *)
LEMMA MultiplesApart ==
    ASSUME NEW n \in Nat \ {0}, NEW p \in Int, NEW q \in Int, p < q
    PROVE  n * q >= n * p + n
<1>1. PICK d \in Nat : q = p + 1 + d
  <2>1. q - p - 1 \in Nat
    OBVIOUS
  <2>2. q = p + 1 + (q - p - 1)
    OBVIOUS
  <2>3. QED BY <2>1, <2>2
<1>2. n * q = n * p + n + n * d
  BY <1>1
<1>3. n * d >= 0
  BY SMT
<1>4. QED BY <1>2, <1>3

(* A quotient and a remainder are determined by the number they make.      *)
LEMMA DivUnique ==
    ASSUME NEW n \in Nat \ {0}, NEW p \in Int, NEW q \in Int,
           NEW r \in 0 .. (n - 1), NEW s \in 0 .. (n - 1),
           n * p + r = n * q + s
    PROVE  p = q /\ r = s
<1>1. n * p \in Int /\ n * q \in Int
  OBVIOUS
<1>2. ~ (p < q)
  <2>1. SUFFICES ASSUME p < q PROVE FALSE
    OBVIOUS
  <2>2. n * q >= n * p + n
    BY <2>1, MultiplesApart
  <2>3. QED BY <1>1, <2>2
<1>3. ~ (q < p)
  <2>1. SUFFICES ASSUME q < p PROVE FALSE
    OBVIOUS
  <2>2. n * p >= n * q + n
    BY <2>1, MultiplesApart
  <2>3. QED BY <1>1, <2>2
<1>4. p = q
  BY <1>2, <1>3
<1>5. n * p = n * q
  BY <1>4
<1>6. QED BY <1>1, <1>4, <1>5

(* Division with remainder.                                                *)
LEMMA DivMod ==
    ASSUME NEW n \in Nat \ {0}, NEW a \in Int
    PROVE  /\ a \div n \in Int
           /\ a % n \in 0 .. (n - 1)
           /\ a = n * (a \div n) + (a % n)
OBVIOUS

(* The remainder of a number written as a multiple plus a remainder.       *)
LEMMA ModOf ==
    ASSUME NEW n \in Nat \ {0}, NEW q \in Int, NEW r \in 0 .. (n - 1)
    PROVE  (n * q + r) % n = r
<1> DEFINE a == n * q + r
           k == a \div n
           s == a % n
<1>1. a \in Int
  OBVIOUS
<1>2. k \in Int /\ s \in 0 .. (n - 1) /\ a = n * k + s
  BY <1>1, DivMod
<1>3. n * k + s = n * q + r
  BY <1>2
<1>4. s = r
  <2> HIDE DEF k, s
  <2>1. QED BY <1>2, <1>3, DivUnique
<1>5. QED BY <1>4

(* Extremes.                                                               *)
LEMMA MinOf ==
    ASSUME NEW S \in SUBSET Nat, S # {}
    PROVE  Min(S) \in S /\ \A n \in S : Min(S) <= n
BY Least DEF Min

(* Of two numbers.                                                         *)
LEMMA MinOfTwo ==
    ASSUME NEW a \in Int, NEW b \in Int
    PROVE  Min({a, b}) = IF a <= b THEN a ELSE b
BY DEF Min

(* The larger of two numbers.                                              *)
LEMMA MaxOfTwo ==
    ASSUME NEW a \in Int, NEW b \in Int
    PROVE  Max({a, b}) = IF a >= b THEN a ELSE b
BY DEF Max
-----------------------------------------------------------------------------
(* The parts of a flattened sequence stand one after the other: part i     *)
(* begins behind place start[i].                                           *)
Parts(s, whole, start) ==
    /\ start \in [1 .. (Len(s) + 1) -> Nat]
    /\ start[1] = 0 /\ start[Len(s) + 1] = Len(whole)
    /\ \A i \in 1 .. Len(s) :
         /\ start[i + 1] = start[i] + Len(s[i])
         /\ \A j \in 1 .. Len(s[i]) : whole[start[i] + j] = s[i][j]

(* FlattenSeq is defined by recursion over the parts; this function is the *)
(* one that its definition chooses.                                        *)
LEMMA FlattenFunction ==
    ASSUME NEW A, NEW s \in Seq(Seq(A)), Len(s) > 0
    PROVE  \E f \in [1 .. Len(s) -> Seq(A)] :
             /\ FlattenSeq(s) = f[Len(s)]
             /\ f[1] = s[1]
             /\ \A i \in 1 .. (Len(s) - 1) : f[i + 1] = f[i] \o s[i + 1]
<1> DEFINE n == Len(s)
           Step(f, i) == IF i = 1 THEN s[i] ELSE f[i - 1] \o s[i]
           Good == {m \in 1 .. n : \E f \in [1 .. m -> Seq(A)] :
                                      \A i \in 1 .. m : f[i] = Step(f, i)}
<1>1. n \in Nat /\ 1 \in 1 .. n /\ \A i \in 1 .. n : s[i] \in Seq(A)
  BY LenProperties, ElementOfSeq
<1>2. 1 \in Good
  <2>1. [i \in 1 .. 1 |-> s[1]] \in [1 .. 1 -> Seq(A)]
    BY <1>1
  <2> DEFINE f == [i \in 1 .. 1 |-> s[1]]
  <2>2. \A i \in 1 .. 1 : f[i] = Step(f, i)
    OBVIOUS
  <2> QED
    BY <1>1, <2>1, <2>2
<1>3. ASSUME NEW m \in 1 .. (n - 1), m \in Good
      PROVE  m + 1 \in Good
  <2>1. PICK f \in [1 .. m -> Seq(A)] : \A i \in 1 .. m : f[i] = Step(f, i)
    BY <1>3
  <2> DEFINE g == [i \in 1 .. (m + 1) |-> IF i = m + 1 THEN f[m] \o s[m + 1] ELSE f[i]]
  <2>2. m + 1 \in 1 .. n /\ m \in 1 .. m /\ m \in Nat
    BY <1>1
  <2>3. f[m] \o s[m + 1] \in Seq(A)
    BY <1>1, <2>2, ConcatProperties
  <2>4. g \in [1 .. (m + 1) -> Seq(A)]
    BY <2>3, <2>2
  <2>5. ASSUME NEW i \in 1 .. (m + 1)
        PROVE  g[i] = Step(g, i)
    <3>1. CASE i = m + 1
      <4>1. g[m + 1] = f[m] \o s[m + 1] /\ m + 1 # 1 /\ (m + 1) - 1 = m
        BY <2>2
      <4>2. g[m] = f[m]
        BY <2>2
      <4> QED
        BY <3>1, <4>1, <4>2
    <3>2. CASE i # m + 1
      <4>1. i \in 1 .. m /\ g[i] = f[i] /\ (i # 1 => i - 1 \in 1 .. m /\ g[i - 1] = f[i - 1])
        BY <2>2, <3>2
      <4> QED
        BY <2>1, <4>1
    <3> QED
      BY <3>1, <3>2
  <2> HIDE DEF g
  <2> QED
    BY <2>2, <2>4, <2>5
<1>4. n \in Good
  <2> HIDE DEF Good
  <2>1. \A m \in 1 .. n : m \in Good
    BY <1>1, <1>2, <1>3, Induction
  <2> QED
    BY <1>1, <2>1
<1>5. PICK f \in [1 .. n -> Seq(A)] : \A i \in 1 .. n : f[i] = Step(f, i)
  BY <1>4
<1> DEFINE chosen == CHOOSE g : g = [i \in 1 .. Len(s) |-> IF i = 1 THEN s[i] ELSE g[i - 1] \o s[i]]
<1>6. f = [i \in 1 .. Len(s) |-> IF i = 1 THEN s[i] ELSE f[i - 1] \o s[i]]
  BY <1>5
<1>7. chosen = [i \in 1 .. Len(s) |-> IF i = 1 THEN s[i] ELSE chosen[i - 1] \o s[i]]
  BY <1>6
<1>8. FlattenSeq(s) = chosen[Len(s)]
  <2>1. Len(s) # 0
    BY <1>1
  <2> QED
    BY <2>1 DEF FlattenSeq
<1> HIDE DEF chosen
<1>9. chosen \in [1 .. n -> Seq(A)]
  <2> DEFINE Typed == {m \in 1 .. n : chosen[m] \in Seq(A)}
  <2>1. 1 \in Typed
    BY <1>1, <1>7
  <2>2. ASSUME NEW m \in 1 .. (n - 1), m \in Typed PROVE m + 1 \in Typed
    <3>1. m + 1 \in 1 .. n /\ m + 1 # 1 /\ (m + 1) - 1 = m
      BY <1>1
    <3>2. chosen[m + 1] = chosen[m] \o s[m + 1]
      BY <1>7, <3>1
    <3>3. chosen[m] \in Seq(A) /\ s[m + 1] \in Seq(A)
      BY <1>1, <2>2, <3>1
    <3>4. chosen[m + 1] \in Seq(A)
      BY <3>2, <3>3, ConcatProperties
    <3> QED
      BY <3>1, <3>4
  <2> HIDE DEF Typed
  <2>3. \A m \in 1 .. n : m \in Typed
    BY <1>1, <2>1, <2>2, Induction
  <2>4. \A m \in 1 .. n : chosen[m] \in Seq(A)
    BY <2>3 DEF Typed
  <2>5. chosen = [m \in 1 .. n |-> chosen[m]]
    BY <1>7
  <2> QED
    BY <2>4, <2>5
<1>10. chosen[1] = s[1]
  BY <1>1, <1>7
<1>11. ASSUME NEW i \in 1 .. (n - 1)
       PROVE  chosen[i + 1] = chosen[i] \o s[i + 1]
  <2>1. i + 1 \in 1 .. n /\ i + 1 # 1 /\ (i + 1) - 1 = i
    BY <1>1
  <2> QED
    BY <1>7, <2>1
<1> QED
  BY <1>8, <1>9, <1>10, <1>11

(* What FlattenSeq returns.                                                *)
LEMMA Flattened ==
    ASSUME NEW A, NEW s \in Seq(Seq(A))
    PROVE  /\ FlattenSeq(s) \in Seq(A)
           /\ \E start : Parts(s, FlattenSeq(s), start)
<1> DEFINE n == Len(s)
<1>1. n \in Nat /\ \A i \in 1 .. n : s[i] \in Seq(A) /\ Len(s[i]) \in Nat
  <2>1. n \in Nat /\ \A i \in 1 .. n : s[i] \in Seq(A)
    BY LenProperties, ElementOfSeq
  <2> QED
    BY <2>1, LenProperties
<1>2. CASE n = 0
  <2>1. s = <<>> /\ FlattenSeq(s) = <<>>
    BY <1>2, EmptySeq DEF FlattenSeq
  <2> DEFINE start == [i \in 1 .. (Len(s) + 1) |-> 0]
  <2>2. Parts(s, FlattenSeq(s), start)
    BY <1>2, <2>1 DEF Parts
  <2>3. FlattenSeq(s) \in Seq(A)
    BY <2>1, EmptySeq
  <2> QED
    BY <2>2, <2>3
<1>3. CASE n > 0
  <2>1. PICK f \in [1 .. n -> Seq(A)] :
          /\ FlattenSeq(s) = f[n]
          /\ f[1] = s[1]
          /\ \A i \in 1 .. (n - 1) : f[i + 1] = f[i] \o s[i + 1]
    BY <1>3, FlattenFunction
  <2> DEFINE start == [i \in 1 .. (n + 1) |-> IF i = 1 THEN 0 ELSE Len(f[i - 1])]
  <2>2. \A i \in 1 .. n : f[i] \in Seq(A) /\ Len(f[i]) \in Nat
    <3>1. \A i \in 1 .. n : f[i] \in Seq(A)
      OBVIOUS
    <3> QED
      BY <3>1, LenProperties
  <2>3. start \in [1 .. (n + 1) -> Nat]
    <3>1. \A i \in 1 .. (n + 1) : i # 1 => i - 1 \in 1 .. n
      BY <1>1
    <3> QED
      BY <2>2, <3>1
  <2>4. start[1] = 0 /\ start[n + 1] = Len(f[n])
    <3>1. n + 1 # 1 /\ (n + 1) - 1 = n /\ 1 \in 1 .. (n + 1) /\ n + 1 \in 1 .. (n + 1)
      BY <1>1, <1>3
    <3> QED
      BY <3>1
  <2>5. \A i \in 1 .. n : start[i + 1] = Len(f[i])
    <3>1. \A i \in 1 .. n : i + 1 # 1 /\ (i + 1) - 1 = i /\ i + 1 \in 1 .. (n + 1)
      BY <1>1
    <3> QED
      BY <3>1
  <2> HIDE DEF start
  <2>6. ASSUME NEW i \in 1 .. n
        PROVE  /\ start[i + 1] = start[i] + Len(s[i])
               /\ \A j \in 1 .. Len(s[i]) : f[i][start[i] + j] = s[i][j]
    <3>1. CASE i = 1
      BY <1>1, <2>1, <2>4, <2>5, <3>1
    <3>2. CASE i # 1
      <4>1. i - 1 \in 1 .. (n - 1) /\ i - 1 \in 1 .. n /\ (i - 1) + 1 = i
        BY <1>1, <3>2
      <4>2. f[i] = f[i - 1] \o s[i] /\ start[i] = Len(f[i - 1])
        BY <2>1, <2>5, <4>1
      <4>3. f[i - 1] \in Seq(A) /\ s[i] \in Seq(A)
        BY <1>1, <2>2, <4>1
      <4> DEFINE both == f[i - 1] \o s[i]
      <4>a. /\ Len(both) = Len(f[i - 1]) + Len(s[i])
            /\ \A k \in 1 .. (Len(f[i - 1]) + Len(s[i])) :
                  both[k] = IF k <= Len(f[i - 1]) THEN f[i - 1][k] ELSE s[i][k - Len(f[i - 1])]
        BY <4>3, ConcatProperties
      <4>b. f[i] = both
        BY <4>2
      <4> HIDE DEF both
      <4>4. /\ Len(f[i]) = Len(f[i - 1]) + Len(s[i])
            /\ \A k \in 1 .. (Len(f[i - 1]) + Len(s[i])) :
                  f[i][k] = IF k <= Len(f[i - 1]) THEN f[i - 1][k] ELSE s[i][k - Len(f[i - 1])]
        BY <4>a, <4>b
      <4>5. ASSUME NEW j \in 1 .. Len(s[i])
            PROVE  f[i][start[i] + j] = s[i][j]
        <5>1. /\ start[i] + j \in 1 .. (Len(f[i - 1]) + Len(s[i]))
              /\ ~ start[i] + j <= Len(f[i - 1])
              /\ (start[i] + j) - Len(f[i - 1]) = j
          BY <1>1, <2>2, <4>1, <4>2
        <5> QED
          BY <4>4, <5>1
      <4> QED
        BY <2>5, <4>2, <4>4, <4>5
    <3> QED
      BY <3>1, <3>2
  <2>7. ASSUME NEW i \in 1 .. n, NEW j \in 1 .. Len(s[i])
        PROVE  f[n][start[i] + j] = s[i][j]
    <3> DEFINE Kept == {k \in i .. n : /\ start[i] + j \in 1 .. Len(f[k])
                                      /\ f[k][start[i] + j] = s[i][j]}
    <3>1. i \in Kept
      <4>a. i \in 1 .. (n + 1)
        BY <1>1
      <4>b. start[i] \in Nat
        BY <2>3, <4>a
      <4>1. start[i] \in Nat /\ Len(s[i]) \in Nat /\ Len(f[i]) = start[i] + Len(s[i])
        BY <1>1, <4>b, <2>5, <2>6
      <4>2. start[i] + j \in 1 .. Len(f[i])
        BY <4>1
      <4> QED
        BY <1>1, <2>6, <4>2
    <3>2. ASSUME NEW k \in i .. (n - 1), k \in Kept
          PROVE  k + 1 \in Kept
      <4>1. k \in 1 .. (n - 1) /\ k \in 1 .. n /\ k + 1 \in i .. n /\ k + 1 \in 1 .. n
        BY <1>1
      <4>2. f[k + 1] = f[k] \o s[k + 1] /\ f[k] \in Seq(A) /\ s[k + 1] \in Seq(A)
        BY <1>1, <2>1, <2>2, <4>1
      <4> DEFINE both == f[k] \o s[k + 1]
      <4>a. /\ Len(both) = Len(f[k]) + Len(s[k + 1])
            /\ \A q \in 1 .. (Len(f[k]) + Len(s[k + 1])) :
                  both[q] = IF q <= Len(f[k]) THEN f[k][q] ELSE s[k + 1][q - Len(f[k])]
        BY <4>2, ConcatProperties
      <4>b. f[k + 1] = both
        BY <4>2
      <4> HIDE DEF both
      <4>3. /\ Len(f[k + 1]) = Len(f[k]) + Len(s[k + 1])
            /\ \A q \in 1 .. (Len(f[k]) + Len(s[k + 1])) :
                  f[k + 1][q] = IF q <= Len(f[k]) THEN f[k][q] ELSE s[k + 1][q - Len(f[k])]
        BY <4>a, <4>b
      <4>4. Len(f[k]) \in Nat /\ Len(s[k + 1]) \in Nat
        BY <1>1, <2>2, <4>1
      <4>5. start[i] + j \in 1 .. Len(f[k]) /\ f[k][start[i] + j] = s[i][j]
        BY <3>2
      <4>6. start[i] + j \in 1 .. (Len(f[k]) + Len(s[k + 1])) /\ start[i] + j <= Len(f[k])
        <5>1. \A a, b \in Nat : \A p \in 1 .. a : p \in 1 .. (a + b) /\ p <= a
          OBVIOUS
        <5> HIDE DEF Kept
        <5> QED
          BY <4>4, <4>5, <5>1
      <4>7. f[k + 1][start[i] + j] = s[i][j]
        BY <4>3, <4>5, <4>6
      <4>8. start[i] + j \in 1 .. Len(f[k + 1])
        BY <4>3, <4>6
      <4> QED
        BY <4>1, <4>7, <4>8
    <3> HIDE DEF Kept
    <3>a. i \in Nat /\ n \in Nat
      BY <1>1
    <3> HIDE DEF n
    <3>3. \A k \in i .. n : k \in Kept
      BY <3>a, <3>1, <3>2, Induction
    <3> QED
      BY <1>1, <3>3 DEF Kept
  <2>8. f[n] \in Seq(A)
    BY <1>1, <1>3, <2>2
  <2> QED
    BY <2>1, <2>3, <2>4, <2>6, <2>7, <2>8 DEF Parts
<1> QED
  BY <1>1, <1>2, <1>3

(* A part ends before a later one begins.                                  *)
LEMMA PartsInOrder ==
    ASSUME NEW A, NEW s \in Seq(Seq(A)), NEW whole, NEW start, Parts(s, whole, start),
           NEW i \in 1 .. Len(s), NEW k \in (i + 1) .. (Len(s) + 1)
    PROVE  start[i] + Len(s[i]) <= start[k]
<1> DEFINE Later == {m \in (i + 1) .. (Len(s) + 1) : start[i] + Len(s[i]) <= start[m]}
<1>1. /\ Len(s) \in Nat /\ \A m \in 1 .. (Len(s) + 1) : start[m] \in Nat
      /\ \A m \in 1 .. Len(s) : start[m + 1] = start[m] + Len(s[m]) /\ Len(s[m]) \in Nat
  <2>1. Len(s) \in Nat /\ \A m \in 1 .. Len(s) : s[m] \in Seq(A)
    BY LenProperties, ElementOfSeq
  <2>2. \A m \in 1 .. Len(s) : Len(s[m]) \in Nat
    BY <2>1, LenProperties
  <2> QED
    BY <2>1, <2>2 DEF Parts
<1>2. i + 1 \in Later
  <2>1. i + 1 \in (i + 1) .. (Len(s) + 1) /\ i + 1 \in 1 .. (Len(s) + 1)
    BY <1>1
  <2>2. start[i + 1] \in Nat /\ start[i + 1] = start[i] + Len(s[i])
    BY <1>1, <2>1
  <2> QED
    BY <2>1, <2>2
<1>3. ASSUME NEW m \in (i + 1) .. (Len(s) + 1 - 1), m \in Later
      PROVE  m + 1 \in Later
  <2>1. m \in 1 .. Len(s) /\ m + 1 \in (i + 1) .. (Len(s) + 1)
    BY <1>1
  <2>2. /\ start[m + 1] = start[m] + Len(s[m]) /\ Len(s[m]) \in Nat
        /\ start[m] \in Nat /\ start[i] \in Nat /\ Len(s[i]) \in Nat
    BY <1>1, <2>1
  <2>3. start[i] + Len(s[i]) <= start[m]
    BY <1>3
  <2>4. start[i] + Len(s[i]) <= start[m + 1]
    BY <2>2, <2>3
  <2> QED
    BY <2>1, <2>4
<1> DEFINE low == i + 1
           high == Len(s) + 1
<1>4. \A m \in low .. high : m \in Later
  <2>1. low \in Nat /\ high \in Nat
    BY <1>1
  <2>2. low \in Later
    BY <1>2
  <2>3. \A m \in low .. (high - 1) : m \in Later => m + 1 \in Later
    BY <1>3
  <2> HIDE DEF Later, low, high
  <2> QED
    BY <2>1, <2>2, <2>3, Induction
<1> QED
  BY <1>4 DEF Later

(* Every place of the whole is in a part.                                  *)
LEMMA PartsCover ==
    ASSUME NEW A, NEW s \in Seq(Seq(A)), NEW whole, NEW start, Parts(s, whole, start),
           NEW p \in 1 .. Len(whole)
    PROVE  \E i \in 1 .. Len(s) : \E j \in 1 .. Len(s[i]) : p = start[i] + j
<1> DEFINE Behind == {m \in 1 .. (Len(s) + 1) : p <= start[m]}
<1>1. /\ Len(s) \in Nat /\ \A m \in 1 .. (Len(s) + 1) : start[m] \in Nat
      /\ \A m \in 1 .. Len(s) : start[m + 1] = start[m] + Len(s[m]) /\ Len(s[m]) \in Nat
      /\ start[1] = 0 /\ start[Len(s) + 1] = Len(whole)
  <2>1. Len(s) \in Nat /\ \A m \in 1 .. Len(s) : s[m] \in Seq(A)
    BY LenProperties, ElementOfSeq
  <2>2. \A m \in 1 .. Len(s) : Len(s[m]) \in Nat
    BY <2>1, LenProperties
  <2> QED
    BY <2>1, <2>2 DEF Parts
<1>2. Len(s) + 1 \in Behind
  <2>1. start[Len(s) + 1] \in Nat /\ Len(s) + 1 \in 1 .. (Len(s) + 1)
    BY <1>1
  <2> QED
    BY <1>1, <2>1
<1>3. PICK m \in Behind : \A k \in Behind : m <= k
  <2>1. Behind \in SUBSET Nat
    BY <1>1
  <2> HIDE DEF Behind
  <2> QED
    BY <1>2, <2>1, Least
<1>4. m # 1
  BY <1>1
<1>5. m - 1 \in 1 .. Len(s) /\ (m - 1) + 1 = m /\ m - 1 \in 1 .. (Len(s) + 1)
  BY <1>1, <1>4
<1>6. m - 1 \notin Behind
  BY <1>3, <1>5
<1>7. /\ start[m - 1] \in Nat /\ Len(s[m - 1]) \in Nat
      /\ start[m - 1] < p /\ p <= start[m - 1] + Len(s[m - 1])
  BY <1>1, <1>5, <1>6
<1>8. p - start[m - 1] \in 1 .. Len(s[m - 1]) /\ p = start[m - 1] + (p - start[m - 1])
  BY <1>7
<1> QED
  BY <1>5, <1>8

(* The elements of s, each with every element of t, one row after the      *)
(* other.                                                                  *)
RowByRow(s, t, whole, start) ==
    /\ \A p \in 1 .. Len(whole) : \E i \in 1 .. Len(s), j \in 1 .. Len(t) : p = start[i] + j
    /\ \A i \in 1 .. Len(s), j \in 1 .. Len(t) :
         start[i] + j \in 1 .. Len(whole) /\ whole[start[i] + j] = <<s[i], t[j]>>
    /\ \A i, k \in 1 .. Len(s), j, l \in 1 .. Len(t) :
         start[i] + j < start[k] + l => i < k \/ (i = k /\ j < l)

Rows(s, t) == [i \in DOMAIN s |-> [j \in DOMAIN t |-> <<s[i], t[j]>>]]

(* Two loops, one inside the other, pass through the pairs in that order.  *)
LEMMA NestedLoops ==
    ASSUME NEW A, NEW B, NEW s \in Seq(A), NEW t \in Seq(B)
    PROVE  /\ FlattenSeq(Rows(s, t)) \in Seq(A \X B)
           /\ \E start : RowByRow(s, t, FlattenSeq(Rows(s, t)), start)
<1> DEFINE n == Len(s)
           m == Len(t)
           rows == Rows(s, t)
           whole == FlattenSeq(rows)
<1>1. /\ n \in Nat /\ DOMAIN s = 1 .. n /\ \A i \in 1 .. n : s[i] \in A
      /\ m \in Nat /\ DOMAIN t = 1 .. m /\ \A j \in 1 .. m : t[j] \in B
  BY LenProperties, ElementOfSeq
<1>2. rows = [i \in 1 .. n |-> [j \in 1 .. m |-> <<s[i], t[j]>>]]
  BY <1>1 DEF Rows
<1> HIDE DEF n, m, rows
<1>3. \A i \in 1 .. n : [j \in 1 .. m |-> <<s[i], t[j]>>] \in [1 .. m -> A \X B]
  BY <1>1
<1>4. \A i \in 1 .. n : [j \in 1 .. m |-> <<s[i], t[j]>>] \in Seq(A \X B)
  BY <1>1, <1>3, SeqDef
<1>5. rows \in [1 .. n -> Seq(A \X B)]
  BY <1>2, <1>4
<1>6. rows \in Seq(Seq(A \X B)) /\ Len(rows) = n
  BY <1>1, <1>5, SeqDef
<1>7. \A i \in 1 .. n : /\ Len(rows[i]) = m
                        /\ \A j \in 1 .. m : rows[i][j] = <<s[i], t[j]>>
  <2>1. SUFFICES ASSUME NEW i \in 1 .. n
                 PROVE  Len(rows[i]) = m /\ \A j \in 1 .. m : rows[i][j] = <<s[i], t[j]>>
    OBVIOUS
  <2>2. rows[i] = [j \in 1 .. m |-> <<s[i], t[j]>>]
    BY <1>2
  <2> QED
    BY <1>1, <2>2
<1> DEFINE P == A \X B
<1>8. rows \in Seq(Seq(P)) /\ Len(rows) = n
  BY <1>6
<1>9. whole \in Seq(P) /\ \E start : Parts(rows, whole, start)
  BY <1>6, Flattened
<1> HIDE DEF whole, P
<1>10. PICK start : Parts(rows, whole, start)
  BY <1>9
<1>11. /\ start \in [1 .. (n + 1) -> Nat] /\ start[n + 1] = Len(whole) /\ Len(whole) \in Nat
       /\ \A i \in 1 .. n : \A j \in 1 .. m : whole[start[i] + j] = rows[i][j]
  <2>1. Len(whole) \in Nat
    BY <1>9, LenProperties
  <2> QED
    BY <1>6, <1>7, <1>10, <2>1 DEF Parts
<1>12. ASSUME NEW i \in 1 .. n, NEW k \in (i + 1) .. (n + 1)
       PROVE  start[i] + m <= start[k]
  <2>1. i \in 1 .. Len(rows) /\ k \in (i + 1) .. (Len(rows) + 1)
    BY <1>6
  <2>2. start[i] + Len(rows[i]) <= start[k]
    BY <1>8, <1>10, <2>1, PartsInOrder
  <2> QED
    BY <1>7, <2>2
<1>13. ASSUME NEW p \in 1 .. Len(whole)
       PROVE  \E i \in 1 .. n, j \in 1 .. m : p = start[i] + j
  <2>1. \E i \in 1 .. Len(rows) : \E j \in 1 .. Len(rows[i]) : p = start[i] + j
    BY <1>8, <1>10, PartsCover
  <2> QED
    BY <1>6, <1>7, <2>1
<1>14. ASSUME NEW i \in 1 .. n, NEW j \in 1 .. m
       PROVE  start[i] + j \in 1 .. Len(whole) /\ whole[start[i] + j] = <<s[i], t[j]>>
  <2>1. n + 1 \in (i + 1) .. (n + 1) /\ i \in 1 .. (n + 1)
    BY <1>1
  <2>2. start[i] + m <= Len(whole) /\ start[i] \in Nat
    BY <1>11, <1>12, <2>1
  <2>3. start[i] + j \in 1 .. Len(whole)
    BY <1>1, <1>11, <2>2
  <2>4. whole[start[i] + j] = rows[i][j] /\ rows[i][j] = <<s[i], t[j]>>
    BY <1>7, <1>11
  <2> QED
    BY <2>3, <2>4
<1>15. ASSUME NEW i \in 1 .. n, NEW k \in 1 .. n, NEW j \in 1 .. m, NEW l \in 1 .. m,
              start[i] + j < start[k] + l
       PROVE  i < k \/ (i = k /\ j < l)
  <2>1. i \in 1 .. (n + 1) /\ k \in 1 .. (n + 1) /\ start[i] \in Nat /\ start[k] \in Nat
    BY <1>1, <1>11
  <2>2. CASE i = k
    BY <1>1, <1>15, <2>1, <2>2
  <2>3. CASE k < i
    <3>1. i \in (k + 1) .. (n + 1)
      BY <1>1, <2>3
    <3>2. start[k] + m <= start[i]
      BY <1>12, <3>1
    <3> QED
      BY <1>1, <1>15, <2>1, <3>2
  <2> QED
    BY <1>1, <2>2, <2>3
<1>16. RowByRow(s, t, whole, start)
  BY <1>13, <1>14, <1>15 DEF RowByRow, n, m
<1> QED
  BY <1>9, <1>16 DEF whole, rows, P
-----------------------------------------------------------------------------
(* `old` is what is left of `new` when some of its elements are taken out. *)
EmbeddedBy(g, old, new) ==
    /\ g \in [1 .. Len(old) -> 1 .. Len(new)]
    /\ \A i, j \in 1 .. Len(old) : i < j => g[i] < g[j]
    /\ \A i \in 1 .. Len(old) : new[g[i]] = old[i]

Embeds(old, new) == \E g : EmbeddedBy(g, old, new)

(* A sequence is embedded in itself.                                       *)
LEMMA EmbedsSelf ==
    ASSUME NEW A, NEW s \in Seq(A)
    PROVE  Embeds(s, s)
<1> DEFINE g == [i \in 1 .. Len(s) |-> i]
<1>1. EmbeddedBy(g, s, s)
  BY DEF EmbeddedBy
<1> QED
  BY <1>1 DEF Embeds

(* And in what the one it is embedded in is embedded in.                   *)
LEMMA EmbedsTransitive ==
    ASSUME NEW r, NEW s, NEW t, Embeds(r, s), Embeds(s, t)
    PROVE  Embeds(r, t)
<1>1. PICK g : EmbeddedBy(g, r, s)
  BY DEF Embeds
<1>2. PICK h : EmbeddedBy(h, s, t)
  BY DEF Embeds
<1> DEFINE k == [i \in 1 .. Len(r) |-> h[g[i]]]
<1>3. EmbeddedBy(k, r, t)
  BY <1>1, <1>2 DEF EmbeddedBy
<1> QED
  BY <1>3 DEF Embeds

(* No element comes to stand before its old place.                         *)
LEMMA EmbeddedBehind ==
    ASSUME NEW A, NEW old \in Seq(A), NEW new \in Seq(A), NEW g, EmbeddedBy(g, old, new),
           NEW i \in 1 .. Len(old)
    PROVE  i <= g[i]
<1> DEFINE Behind == {k \in 1 .. Len(old) : k <= g[k]}
<1>1. /\ Len(old) \in Nat /\ Len(new) \in Nat
      /\ \A k \in 1 .. Len(old) : g[k] \in 1 .. Len(new)
  BY LenProperties DEF EmbeddedBy
<1>2. 1 \in Behind
  BY <1>1
<1>3. ASSUME NEW k \in 1 .. (Len(old) - 1), k \in Behind
      PROVE  k + 1 \in Behind
  <2>1. k \in 1 .. Len(old) /\ k + 1 \in 1 .. Len(old) /\ k < k + 1
    BY <1>1
  <2>2. g[k] < g[k + 1]
    BY <2>1 DEF EmbeddedBy
  <2>3. g[k] \in Nat /\ g[k + 1] \in Nat /\ k <= g[k]
    BY <1>1, <1>3, <2>1
  <2> QED
    BY <2>1, <2>2, <2>3
<1> HIDE DEF Behind
<1>4. \A k \in 1 .. Len(old) : k \in Behind
  BY <1>1, <1>2, <1>3, Induction
<1> QED
  BY <1>4 DEF Behind

(* The longer sequence is the one with the elements put in.                *)
LEMMA EmbedsLength ==
    ASSUME NEW A, NEW old \in Seq(A), NEW new \in Seq(A), Embeds(old, new)
    PROVE  Len(old) <= Len(new)
<1>1. PICK g : EmbeddedBy(g, old, new)
  BY DEF Embeds
<1>2. /\ Len(old) \in Nat /\ Len(new) \in Nat
      /\ \A k \in 1 .. Len(old) : g[k] \in 1 .. Len(new) /\ k <= g[k]
  <2>1. \A k \in 1 .. Len(old) : k <= g[k]
    BY <1>1, EmbeddedBehind
  <2> QED
    BY <1>1, <2>1, LenProperties DEF EmbeddedBy
<1>3. CASE Len(old) = 0
  BY <1>2, <1>3
<1>4. CASE Len(old) # 0
  <2>1. Len(old) \in 1 .. Len(old)
    BY <1>2, <1>4
  <2>2. g[Len(old)] \in 1 .. Len(new) /\ Len(old) <= g[Len(old)]
    BY <1>2, <2>1
  <2> QED
    BY <1>2, <2>2
<1> QED
  BY <1>3, <1>4

(* An element before which nothing has been put in is where it was: the    *)
(* first n of the new sequence are embedded in the old one, and neither    *)
(* embedding can move the nth.                                             *)
LEMMA EmbedsPrefix ==
    ASSUME NEW A, NEW old \in Seq(A), NEW new \in Seq(A), Embeds(old, new), IsInjective(new),
           NEW n \in 1 .. Len(old), \A i \in 1 .. n : new[i] \in Range(old)
    PROVE  new[n] = old[n]
<1>1. PICK g : EmbeddedBy(g, old, new)
  BY DEF Embeds
<1>2. /\ Len(old) \in Nat /\ Len(new) \in Nat /\ Len(old) <= Len(new)
      /\ DOMAIN old = 1 .. Len(old) /\ DOMAIN new = 1 .. Len(new)
  BY LenProperties, EmbedsLength
<1>3. /\ \A k \in 1 .. Len(old) : g[k] \in 1 .. Len(new) /\ new[g[k]] = old[k]
      /\ \A j, k \in 1 .. Len(old) : j < k => g[j] < g[k]
      /\ \A k \in 1 .. Len(old) : k <= g[k]
  <2>1. \A k \in 1 .. Len(old) : k <= g[k]
    BY <1>1, EmbeddedBehind
  <2> QED
    BY <1>1, <2>1 DEF EmbeddedBy
<1> DEFINE prefix == [i \in 1 .. n |-> new[i]]
           m      == [i \in 1 .. n |-> CHOOSE k \in 1 .. Len(old) : g[k] = i]
<1>4. ASSUME NEW i \in 1 .. n
      PROVE  m[i] \in 1 .. Len(old) /\ g[m[i]] = i
  <2>1. PICK k \in 1 .. Len(old) : new[i] = old[k]
    BY <1>2 DEF Range
  <2>2. i \in 1 .. Len(new) /\ g[k] \in 1 .. Len(new) /\ new[g[k]] = new[i]
    BY <1>2, <1>3, <2>1
  <2>3. g[k] = i
    BY <1>2, <2>2 DEF IsInjective
  <2> QED
    BY <2>3
<1> HIDE DEF m
<1>5. ASSUME NEW i \in 1 .. n, NEW j \in 1 .. n, i < j
      PROVE  m[i] < m[j]
  <2>1. /\ m[i] \in 1 .. Len(old) /\ m[j] \in 1 .. Len(old)
        /\ g[m[i]] = i /\ g[m[j]] = j
    BY <1>4
  <2>2. m[j] < m[i] => j < i
    BY <1>3, <2>1
  <2> QED
    BY <1>2, <1>5, <2>1, <2>2
<1>6. prefix \in Seq(A) /\ Len(prefix) = n
  <2>1. \A i \in 1 .. n : new[i] \in A
    BY <1>2, ElementOfSeq
  <2> QED
    BY <1>2, <2>1
<1>7. EmbeddedBy(m, prefix, old)
  <2>1. m \in [1 .. n -> 1 .. Len(old)]
    BY <1>4 DEF m
  <2>2. ASSUME NEW i \in 1 .. n PROVE old[m[i]] = prefix[i]
    BY <1>3, <1>4
  <2> HIDE DEF prefix
  <2> QED
    BY <1>5, <1>6, <2>1, <2>2 DEF EmbeddedBy
<1>8. n <= m[n]
  <2>1. n \in 1 .. n
    BY <1>2
  <2> HIDE DEF prefix
  <2> QED
    BY <1>6, <1>7, <2>1, EmbeddedBehind
<1>9. m[n] <= n /\ m[n] \in 1 .. Len(old) /\ g[m[n]] = n
  <2>1. n \in 1 .. n
    BY <1>2
  <2>2. m[n] \in 1 .. Len(old) /\ g[m[n]] = n
    BY <1>4, <2>1
  <2> QED
    BY <1>3, <2>2
<1>10. m[n] = n
  BY <1>2, <1>8, <1>9
<1> QED
  BY <1>3, <1>9, <1>10
-----------------------------------------------------------------------------
(* f takes the steps, one after the other, from a.                         *)
Iterates(f, A, a, n, step) ==
    /\ f \in [0 .. n -> A] /\ f[0] = a
    /\ \A k \in 1 .. n : f[k] = step[k][f[k - 1]]

(* A function that is defined by recursion over the numbers up to n exists *)
(* when each step is a function.                                           *)
LEMMA Recursion ==
    ASSUME NEW A, NEW a \in A, NEW n \in Nat, NEW step \in [1 .. n -> [A -> A]]
    PROVE  \E f : Iterates(f, A, a, n, step)
<1> DEFINE Defines(f, m) == /\ f \in [0 .. m -> A] /\ f[0] = a
                            /\ \A k \in 1 .. m : f[k] = step[k][f[k - 1]]
           Reached == {m \in 0 .. n : \E f : Defines(f, m)}
<1>1. 0 \in Reached
  <2> DEFINE f == [k \in 0 .. 0 |-> a]
  <2>1. Defines(f, 0) /\ 0 \in 0 .. n
    OBVIOUS
  <2> HIDE DEF f, Defines
  <2> QED
    BY <2>1
<1>2. ASSUME NEW m \in 0 .. (n - 1), m \in Reached
      PROVE  m + 1 \in Reached
  <2>1. PICK f : Defines(f, m)
    BY <1>2
  <2> DEFINE g == [k \in 0 .. (m + 1) |-> IF k <= m THEN f[k] ELSE step[m + 1][f[m]]]
  <2>2. m + 1 \in 1 .. n /\ m + 1 \in 0 .. n /\ m \in 0 .. m /\ 0 \in 0 .. (m + 1)
    OBVIOUS
  <2>3. f[m] \in A /\ step[m + 1] \in [A -> A]
    BY <2>1, <2>2
  <2>4. step[m + 1][f[m]] \in A
    BY <2>3
  <2>5. g \in [0 .. (m + 1) -> A]
    BY <2>1, <2>4
  <2>6. \A k \in 0 .. m : g[k] = f[k]
    OBVIOUS
  <2>7. g[m + 1] = step[m + 1][f[m]]
    BY <2>2
  <2>8. ASSUME NEW k \in 1 .. (m + 1) PROVE g[k] = step[k][g[k - 1]]
    <3>1. CASE k \in 1 .. m
      <4>1. k - 1 \in 0 .. m /\ k \in 0 .. m
        BY <3>1
      <4> QED
        BY <2>1, <2>6, <3>1, <4>1
    <3>2. CASE k = m + 1
      <4>1. k - 1 = m
        BY <3>2
      <4> QED
        BY <2>2, <2>6, <2>7, <3>2, <4>1
    <3> QED
      BY <3>1, <3>2
  <2>9. g[0] = a
    BY <2>1, <2>6
  <2> HIDE DEF g
  <2>10. Defines(g, m + 1)
    BY <2>5, <2>8, <2>9
  <2> QED
    BY <2>2, <2>10
<1> HIDE DEF Reached
<1>3. \A m \in 0 .. n : m \in Reached
  BY <1>1, <1>2, Induction
<1>4. n \in Reached
  BY <1>3
<1> QED
  BY <1>4 DEF Reached, Iterates

(* And two such functions agree as far as their steps do.                  *)
LEMMA RecursionAgrees ==
    ASSUME NEW n \in Nat, NEW f, NEW g, f[0] = g[0],
           \A k \in 1 .. n : f[k - 1] = g[k - 1] => f[k] = g[k]
    PROVE  f[n] = g[n]
<1> DEFINE Same == {k \in 0 .. n : f[k] = g[k]}
<1>1. 0 \in Same
  OBVIOUS
<1>2. ASSUME NEW k \in 0 .. (n - 1), k \in Same
      PROVE  k + 1 \in Same
  <2>1. k + 1 \in 1 .. n /\ k + 1 \in 0 .. n /\ (k + 1) - 1 = k
    OBVIOUS
  <2> QED
    BY <1>2, <2>1
<1> HIDE DEF Same
<1>3. \A k \in 0 .. n : k \in Same
  BY <1>1, <1>2, Induction
<1> QED
  BY <1>3 DEF Same
-----------------------------------------------------------------------------
(* Finite sets.                                                            *)

(* R is a set of pairs that orders S: any two elements, one way, and so on *)
(* through a third.                                                        *)
Orders(R, S) ==
    /\ \A x, y \in S : x # y => <<x, y>> \in R \/ <<y, x>> \in R
    /\ \A x, y, z \in S : <<x, y>> \in R /\ <<y, z>> \in R => <<x, z>> \in R

(* One element more, which every set that is not empty has.                *)
LEMMA OneElementLess ==
    ASSUME NEW S, IsFiniteSet(S), NEW n \in Nat, Cardinality(S) = n + 1, NEW x \in S
    PROVE  /\ IsFiniteSet(S \ {x}) /\ Cardinality(S \ {x}) = n
           /\ x \notin S \ {x} /\ S = (S \ {x}) \cup {x}
<1>1. IsFiniteSet(S \ {x}) /\ Cardinality(S \ {x}) = Cardinality(S) - 1
  BY FS_RemoveElement
<1> QED
  BY <1>1

(* A finite set has a last element.                                        *)
LEMMA LastInOrder ==
    ASSUME NEW S, IsFiniteSet(S), S # {}, NEW R, Orders(R, S)
    PROVE  \E m \in S : \A x \in S : x # m => <<x, m>> \in R
<1> DEFINE Latest(T, m) == m \in T /\ \A x \in T : x # m => <<x, m>> \in R
           n == Cardinality(S)
           Good == {k \in 0 .. n : \A T \in SUBSET S :
                       Cardinality(T) = k /\ T # {} => \E m : Latest(T, m)}
<1>1. n \in Nat /\ \A T \in SUBSET S : IsFiniteSet(T)
  BY FS_CardinalityType, FS_Subset
<1> HIDE DEF n
<1>2. 0 \in Good
  BY <1>1, FS_EmptySet
<1>3. ASSUME NEW k \in 0 .. (n - 1), k \in Good
      PROVE  k + 1 \in Good
  <2>1. SUFFICES ASSUME NEW T \in SUBSET S, Cardinality(T) = k + 1, T # {}
                 PROVE  \E m : Latest(T, m)
    BY <1>1
  <2>2. PICK x : x \in T
    BY <2>1
  <2>3. /\ Cardinality(T \ {x}) = k /\ T = (T \ {x}) \cup {x}
        /\ T \ {x} \in SUBSET S /\ x \in S
    BY <1>1, <2>1, <2>2, OneElementLess
  <2>4. CASE T \ {x} = {}
    BY <2>2, <2>3, <2>4
  <2>5. CASE T \ {x} # {}
    <3>1. PICK m : Latest(T \ {x}, m)
      BY <1>3, <2>3, <2>5
    <3>2. m \in S /\ m # x
      BY <2>3, <3>1
    <3>3. CASE <<x, m>> \in R
      <4>1. Latest(T, m)
        BY <2>3, <3>1, <3>3
      <4> QED
        BY <4>1
    <3>4. CASE <<m, x>> \in R
      <4>1. \A y \in T : y # x => <<y, x>> \in R
        BY <2>3, <3>1, <3>2, <3>4 DEF Orders
      <4>2. Latest(T, x)
        BY <2>2, <4>1
      <4> QED
        BY <4>2
    <3> QED
      BY <2>3, <3>2, <3>3, <3>4 DEF Orders
  <2> QED
    BY <2>4, <2>5
<1>4. n \in Good
  <2> HIDE DEF Good
  <2>1. \A k \in 0 .. n : k \in Good
    BY <1>1, <1>2, <1>3, Induction
  <2> QED
    BY <1>1, <2>1
<1> QED
  BY <1>4 DEF n

(* A finite set can be put in order.                                       *)
LEMMA Sortable ==
    ASSUME NEW S, IsFiniteSet(S), NEW R, Orders(R, S)
    PROVE  \E t \in SetToSeqs(S) :
             \A i, j \in 1 .. Cardinality(S) : i < j => <<t[i], t[j]>> \in R
<1> DEFINE InOrder(t, T, k) ==
             /\ t \in [1 .. k -> T]
             /\ \A i, j \in 1 .. k : i # j => t[i] # t[j]
             /\ \A i, j \in 1 .. k : i < j => <<t[i], t[j]>> \in R
           n == Cardinality(S)
           Good == {k \in 0 .. n : \A T \in SUBSET S :
                       Cardinality(T) = k => \E t : InOrder(t, T, k)}
<1>1. n \in Nat /\ \A T \in SUBSET S : IsFiniteSet(T)
  BY FS_CardinalityType, FS_Subset
<1> HIDE DEF n
<1>2. 0 \in Good
  <2>1. SUFFICES ASSUME NEW T \in SUBSET S PROVE \E t : InOrder(t, T, 0)
    BY <1>1
  <2> DEFINE t == [i \in 1 .. 0 |-> i]
  <2>2. InOrder(t, T, 0)
    OBVIOUS
  <2> HIDE DEF t, InOrder
  <2> QED
    BY <2>2
<1>3. ASSUME NEW k \in 0 .. (n - 1), k \in Good
      PROVE  k + 1 \in Good
  <2>1. SUFFICES ASSUME NEW T \in SUBSET S, Cardinality(T) = k + 1
                 PROVE  \E t : InOrder(t, T, k + 1)
    BY <1>1
  <2>2. T # {} /\ Orders(R, T) /\ IsFiniteSet(T) /\ k \in Nat
    BY <1>1, <2>1, FS_EmptySet DEF Orders
  <2>3. PICK m \in T : \A x \in T : x # m => <<x, m>> \in R
    BY <2>2, LastInOrder
  <2>4. /\ Cardinality(T \ {m}) = k /\ m \notin T \ {m} /\ T = (T \ {m}) \cup {m}
        /\ T \ {m} \in SUBSET S
    BY <2>1, <2>2, OneElementLess
  <2>5. PICK t : InOrder(t, T \ {m}, k)
    BY <1>3, <2>4
  <2> DEFINE u == [i \in 1 .. (k + 1) |-> IF i = k + 1 THEN m ELSE t[i]]
  <2>6. \A i \in 1 .. (k + 1) :
          \/ i = k + 1 /\ u[i] = m
          \/ i \in 1 .. k /\ i # k + 1 /\ u[i] = t[i] /\ t[i] \in T \ {m}
    BY <2>5
  <2>7. u \in [1 .. (k + 1) -> T]
    BY <2>4, <2>5
  <2> HIDE DEF u
  <2>8. \A i, j \in 1 .. (k + 1) : i # j => u[i] # u[j]
    BY <2>4, <2>5, <2>6
  <2>9. \A i, j \in 1 .. (k + 1) : i < j => <<u[i], u[j]>> \in R
    BY <2>3, <2>4, <2>5, <2>6
  <2>10. InOrder(u, T, k + 1)
    BY <2>7, <2>8, <2>9
  <2> HIDE DEF InOrder
  <2> QED
    BY <2>10
<1> HIDE DEF InOrder
<1>4. n \in Good
  <2> HIDE DEF Good
  <2>1. \A k \in 0 .. n : k \in Good
    BY <1>1, <1>2, <1>3, Induction
  <2> QED
    BY <1>1, <2>1
<1>5. PICK t : InOrder(t, S, n)
  BY <1>4 DEF n
<1> QED
  BY <1>5 DEF InOrder, SetToSeqs, n

(* A sequence of the elements of a finite set has them all, each once.     *)
LEMMA Listed ==
    ASSUME NEW S, IsFiniteSet(S), NEW t \in SetToSeqs(S)
    PROVE  /\ t \in Seq(S) /\ Len(t) = Cardinality(S) /\ DOMAIN t = 1 .. Cardinality(S)
           /\ Range(t) = S
           /\ \A i, j \in DOMAIN t : i # j => t[i] # t[j]
<1> DEFINE n == Cardinality(S)
<1>1. n \in Nat
  BY FS_CardinalityType
<1>2. t \in [1 .. n -> S] /\ \A i, j \in 1 .. n : i # j => t[i] # t[j]
  BY DEF SetToSeqs
<1>3. t \in Seq(S) /\ Len(t) = n /\ DOMAIN t = 1 .. n
  BY <1>1, <1>2, SeqDef
<1>4. ASSUME NEW x \in S, \A i \in 1 .. n : t[i] # x
      PROVE  FALSE
  <2> DEFINE T == S \ {x}
  <2>1. IsFiniteSet(T) /\ Cardinality(T) = n - 1
    BY FS_RemoveElement
  <2>2. IsFiniteSet(1 .. n) /\ Cardinality(1 .. n) = n
    BY <1>1, FS_Interval
  <2>3. t \in [1 .. n -> T]
    BY <1>2, <1>4
  <2> HIDE DEF T, n
  <2>4. Cardinality(T) < Cardinality(1 .. n)
    BY <1>1, <2>1, <2>2
  <2>5. \E i, j \in 1 .. n : i # j /\ t[i] = t[j]
    BY <2>1, <2>2, <2>3, <2>4, FS_PigeonHole
  <2> QED
    BY <1>2, <2>5
<1>5. Range(t) = S
  BY <1>2, <1>3, <1>4 DEF Range
<1> QED
  BY <1>2, <1>3, <1>5

(* The extremes of a finite set of numbers.                                *)
LEMMA ExtremesOf ==
    ASSUME NEW S \in SUBSET Int, IsFiniteSet(S), S # {}
    PROVE  /\ Max(S) \in S /\ \A x \in S : x <= Max(S)
           /\ Min(S) \in S /\ \A x \in S : Min(S) <= x
<1> DEFINE Up == {p \in Int \X Int : p[1] <= p[2]}
           Down == {p \in Int \X Int : p[2] <= p[1]}
<1>1. \A x, y \in Int : (<<x, y>> \in Up <=> x <= y) /\ (<<x, y>> \in Down <=> y <= x)
  OBVIOUS
<1> HIDE DEF Up, Down
<1>2. Orders(Up, S) /\ Orders(Down, S)
  BY <1>1 DEF Orders
<1>3. PICK a \in S : \A x \in S : x # a => <<x, a>> \in Up
  BY <1>2, LastInOrder
<1>4. PICK b \in S : \A x \in S : x # b => <<x, b>> \in Down
  BY <1>2, LastInOrder
<1>5. ASSUME NEW x \in S PROVE x <= a /\ b <= x
  <2>1. x # a => x <= a
    BY <1>1, <1>3
  <2>2. x # b => b <= x
    BY <1>1, <1>4
  <2>3. x \in Int
    OBVIOUS
  <2> QED
    BY <2>1, <2>2, <2>3
<1> QED
  BY <1>5 DEF Max, Min
(* A bound that is in the set is its extreme.                              *)
LEMMA ExtremeIs ==
    ASSUME NEW S \in SUBSET Int, NEW m \in S
    PROVE  /\ (\A x \in S : m <= x) => Min(S) = m
           /\ (\A x \in S : x <= m) => Max(S) = m
<1>1. \A a, b \in Int : a <= b /\ b <= a => a = b
  OBVIOUS
<1>2. ASSUME \A x \in S : m <= x PROVE Min(S) = m
  <2>1. Min(S) \in S /\ \A x \in S : Min(S) <= x
    BY <1>2 DEF Min
  <2> QED
    BY <1>1, <1>2, <2>1
<1>3. ASSUME \A x \in S : x <= m PROVE Max(S) = m
  <2>1. Max(S) \in S /\ \A x \in S : x <= Max(S)
    <3>1. \A x \in S : m >= x
      BY <1>3
    <3>2. Max(S) \in S /\ \A x \in S : Max(S) >= x
      BY <3>1 DEF Max
    <3> QED
      BY <3>2
  <2> QED
    BY <1>1, <1>3, <2>1
<1> QED
  BY <1>2, <1>3
-----------------------------------------------------------------------------
(* Sums.  SumFunctionOnSet takes the elements of the set in an order of    *)
(* its own; g is the function that its recursion chooses.                  *)
Sums(g, f, S) ==
    /\ g \in [SUBSET S -> Int] /\ g[{}] = 0
    /\ \A T \in SUBSET S : T # {} =>
         g[T] = f[CHOOSE x \in T : TRUE] + g[T \ {CHOOSE x \in T : TRUE}]

LEMMA SumsExist ==
    ASSUME NEW S, IsFiniteSet(S), NEW f, \A x \in S : f[x] \in Int
    PROVE  \E g : Sums(g, f, S)
<1> DEFINE Some(T) == CHOOSE x \in T : TRUE
           A == [SUBSET S -> Int]
           a == [T \in SUBSET S |-> 0]
           Further(h) == [T \in SUBSET S |-> IF T = {} THEN 0 ELSE f[Some(T)] + h[T \ {Some(T)}]]
           n == Cardinality(S)
           step == [k \in 1 .. (n + 1) |-> [h \in A |-> Further(h)]]
<1>1. n \in Nat /\ \A T \in SUBSET S : IsFiniteSet(T)
  BY FS_CardinalityType, FS_Subset
<1>2. \A T \in SUBSET S : T # {} => Some(T) \in T /\ Some(T) \in S
  OBVIOUS
<1>3. \A T \in SUBSET S : T # {} => T \ {Some(T)} \in SUBSET S
  OBVIOUS
<1> HIDE DEF Some, n
<1>4. a \in A /\ \A h \in A : Further(h) \in A
  <2>1. ASSUME NEW h \in A, NEW T \in SUBSET S
        PROVE  (IF T = {} THEN 0 ELSE f[Some(T)] + h[T \ {Some(T)}]) \in Int
    <3>1. CASE T # {}
      <4>1. f[Some(T)] \in Int /\ h[T \ {Some(T)}] \in Int
        BY <1>2, <1>3, <3>1
      <4> QED
        BY <3>1, <4>1
    <3> QED
      BY <3>1
  <2>2. a \in A
    OBVIOUS
  <2>3. ASSUME NEW h \in A PROVE Further(h) \in A
    BY <2>1, Zenon
  <2> QED
    BY <2>2, <2>3
<1>5. step \in [1 .. (n + 1) -> [A -> A]] /\ n + 1 \in Nat
  <2> HIDE DEF Further, A
  <2> QED
    BY <1>1, <1>4
<1>6. PICK h : Iterates(h, A, a, n + 1, step)
  <2> HIDE DEF step, A, a
  <2> QED
    BY <1>4, <1>5, Recursion
<1>7. /\ \A k \in 0 .. (n + 1) : h[k] \in A
      /\ h[0] = a /\ \A k \in 1 .. (n + 1) : h[k] = Further(h[k - 1])
  <2> HIDE DEF A, a, Further
  <2>1. ASSUME NEW k \in 1 .. (n + 1) PROVE h[k] = Further(h[k - 1])
    <3>1. k - 1 \in 0 .. (n + 1)
      BY <1>1
    <3>2. h[k - 1] \in A /\ h[k] = step[k][h[k - 1]]
      BY <1>6, <3>1 DEF Iterates
    <3> QED
      BY <3>2
  <2> QED
    BY <1>6, <2>1 DEF Iterates
<1> HIDE DEF step
<1>8. \A k \in 1 .. (n + 1) : \A T \in SUBSET S :
        h[k][T] = IF T = {} THEN 0 ELSE f[Some(T)] + h[k - 1][T \ {Some(T)}]
  BY <1>7, ZenonT(60)
(* After k steps the sums of all sets up to k elements are final.          *)
<1> DEFINE Final == {k \in 0 .. n : \A T \in SUBSET S :
                        Cardinality(T) <= k => h[k + 1][T] = h[k][T]}
<1>9. 0 \in Final
  <2>1. ASSUME NEW T \in SUBSET S, Cardinality(T) <= 0
        PROVE  h[1][T] = h[0][T]
    <3>1. T = {}
      BY <1>1, <2>1, FS_CardinalityType, FS_EmptySet
    <3>2. 1 \in 1 .. (n + 1)
      BY <1>1
    <3>3. h[0][T] = 0
      BY <1>7
    <3> QED
      BY <1>8, <3>1, <3>2, <3>3
  <2>2. 0 \in 0 .. n /\ 0 + 1 = 1
    BY <1>1
  <2> QED
    BY <2>1, <2>2
<1>10. ASSUME NEW k \in 0 .. (n - 1), k \in Final
       PROVE  k + 1 \in Final
  <2>1. /\ k + 1 \in 0 .. n /\ k + 1 \in 1 .. (n + 1) /\ k + 2 \in 1 .. (n + 1)
        /\ (k + 1) - 1 = k /\ (k + 2) - 1 = k + 1 /\ (k + 1) + 1 = k + 2
    BY <1>1
  <2>2. ASSUME NEW T \in SUBSET S, Cardinality(T) <= k + 1
        PROVE  h[k + 2][T] = h[k + 1][T]
    <3>1. CASE T = {}
      BY <1>8, <2>1, <3>1
    <3>2. CASE T # {}
      <4>1. IsFiniteSet(T) /\ Cardinality(T) \in Nat /\ Some(T) \in T
        BY <1>1, <1>2, <3>2, FS_CardinalityType
      <4>2. Cardinality(T \ {Some(T)}) = Cardinality(T) - 1
        BY <4>1, FS_RemoveElement
      <4>3. Cardinality(T \ {Some(T)}) <= k
        BY <2>2, <4>1, <4>2
      <4>4. h[k + 1][T \ {Some(T)}] = h[k][T \ {Some(T)}]
        BY <1>3, <1>10, <3>2, <4>3
      <4> QED
        BY <1>8, <2>1, <3>2, <4>4
    <3> QED
      BY <3>1, <3>2
  <2> QED
    BY <2>1, <2>2
<1>11. n \in Final
  <2> HIDE DEF Final
  <2>1. \A k \in 0 .. n : k \in Final
    BY <1>1, <1>9, <1>10, Induction
  <2> QED
    BY <1>1, <2>1
<1> DEFINE g == h[n]
<1>12. g \in A
  <2>1. n \in 0 .. (n + 1)
    BY <1>1
  <2> HIDE DEF A
  <2> QED
    BY <1>7, <2>1
<1>13. \A T \in SUBSET S : g[T] = h[n + 1][T]
  <2>1. \A T \in SUBSET S : Cardinality(T) <= n
    BY FS_Subset DEF n
  <2> QED
    BY <1>11, <2>1
<1>14. \A T \in SUBSET S : g[T] = IF T = {} THEN 0 ELSE f[Some(T)] + g[T \ {Some(T)}]
  <2>1. n + 1 \in 1 .. (n + 1) /\ (n + 1) - 1 = n
    BY <1>1
  <2> QED
    BY <1>8, <1>13, <2>1
<1> HIDE DEF g
<1>15. Sums(g, f, S)
  BY <1>12, <1>14 DEF Sums, Some
<1> QED
  BY <1>15

(* The order does not matter.                                              *)
LEMMA SumsAnyOrder ==
    ASSUME NEW S, IsFiniteSet(S), NEW f, \A x \in S : f[x] \in Int,
           NEW g, Sums(g, f, S), NEW T \in SUBSET S, NEW z \in T
    PROVE  g[T] = f[z] + g[T \ {z}]
<1> DEFINE Some(U) == CHOOSE x \in U : TRUE
           n == Cardinality(S)
           Good == {k \in 0 .. n : \A U \in SUBSET S : Cardinality(U) = k =>
                       \A x \in U : g[U] = f[x] + g[U \ {x}]}
<1>1. n \in Nat /\ \A U \in SUBSET S : IsFiniteSet(U) /\ Cardinality(U) \in 0 .. n
  BY FS_CardinalityType, FS_Subset
<1>2. \A U \in SUBSET S : U # {} => Some(U) \in U
  OBVIOUS
<1>3. \A U \in SUBSET S : U # {} => g[U] = f[Some(U)] + g[U \ {Some(U)}]
  BY DEF Sums
<1>4. \A U \in SUBSET S : g[U] \in Int
  BY DEF Sums
<1> HIDE DEF Some, n
<1>5. 0 \in Good
  BY <1>1, FS_EmptySet
<1>6. ASSUME NEW k \in 0 .. (n - 1), k \in Good
      PROVE  k + 1 \in Good
  <2>1. SUFFICES ASSUME NEW U \in SUBSET S, Cardinality(U) = k + 1, NEW x \in U
                 PROVE  g[U] = f[x] + g[U \ {x}]
    BY <1>1
  <2> DEFINE y == Some(U)
             V == U \ {x, y}
  <2>2. y \in U /\ g[U] = f[y] + g[U \ {y}]
    BY <1>2, <1>3
  <2>3. CASE x = y
    BY <2>2, <2>3
  <2>4. CASE x # y
    <3>1. /\ U \ {x} \in SUBSET S /\ U \ {y} \in SUBSET S /\ V \in SUBSET S
          /\ (U \ {x}) \ {y} = V /\ (U \ {y}) \ {x} = V
          /\ y \in U \ {x} /\ x \in U \ {y}
      BY <2>2, <2>4
    <3>2. Cardinality(U \ {x}) = k /\ Cardinality(U \ {y}) = k
      BY <1>1, <2>1, <2>2, OneElementLess
    <3>3. g[U \ {y}] = f[x] + g[V] /\ g[U \ {x}] = f[y] + g[V]
      BY <1>6, <3>1, <3>2
    <3>4. f[x] \in Int /\ f[y] \in Int /\ g[V] \in Int
      BY <1>4, <2>2, <3>1
    <3>5. \A a, b, c \in Int : a + (b + c) = b + (a + c)
      OBVIOUS
    <3> HIDE DEF y, V
    <3> QED
      BY <2>2, <3>3, <3>4, <3>5
  <2> QED
    BY <2>3, <2>4
<1>7. \A k \in 0 .. n : k \in Good
  <2> HIDE DEF Good
  <2> QED
    BY <1>1, <1>5, <1>6, Induction
<1> QED
  BY <1>1, <1>7

(* Nor does the set the elements are taken from.                           *)
LEMMA SumsAgree ==
    ASSUME NEW S, IsFiniteSet(S), NEW R \in SUBSET S, NEW f, NEW g, NEW h,
           Sums(g, f, S), Sums(h, f, R)
    PROVE  \A T \in SUBSET R : g[T] = h[T]
<1> DEFINE Some(U) == CHOOSE x \in U : TRUE
           n == Cardinality(R)
           Good == {k \in 0 .. n : \A U \in SUBSET R : Cardinality(U) = k => g[U] = h[U]}
<1>1. n \in Nat /\ \A U \in SUBSET R : IsFiniteSet(U) /\ Cardinality(U) \in 0 .. n
  BY FS_CardinalityType, FS_Subset
<1>2. \A U \in SUBSET R : U # {} => /\ Some(U) \in U
                                    /\ g[U] = f[Some(U)] + g[U \ {Some(U)}]
                                    /\ h[U] = f[Some(U)] + h[U \ {Some(U)}]
  BY DEF Sums
<1>3. g[{}] = 0 /\ h[{}] = 0
  BY DEF Sums
<1> HIDE DEF Some, n
<1>4. 0 \in Good
  BY <1>1, <1>3, FS_EmptySet
<1>5. ASSUME NEW k \in 0 .. (n - 1), k \in Good
      PROVE  k + 1 \in Good
  <2>1. SUFFICES ASSUME NEW U \in SUBSET R, Cardinality(U) = k + 1
                 PROVE  g[U] = h[U]
    BY <1>1
  <2>2. U # {}
    BY <1>1, <2>1, FS_EmptySet
  <2>3. U \ {Some(U)} \in SUBSET R /\ Cardinality(U \ {Some(U)}) = k
    BY <1>1, <1>2, <2>1, <2>2, OneElementLess
  <2> QED
    BY <1>2, <1>5, <2>2, <2>3
<1> HIDE DEF Good
<1>6. \A k \in 0 .. n : k \in Good
  BY <1>1, <1>4, <1>5, Induction
<1> QED
  BY <1>1, <1>6 DEF Good

(* The library's sum is such a function's value.                           *)
LEMMA SumIs ==
    ASSUME NEW S, IsFiniteSet(S), NEW f, \A x \in S : f[x] \in Int
    PROVE  \E g : Sums(g, f, S) /\ SumFunctionOnSet(f, S) = g[S]
<1> DEFINE Turn(g) == [T \in SUBSET S |->
                         IF T = {} THEN 0
                         ELSE f[CHOOSE x \in T : TRUE] + g[T \ {CHOOSE x \in T : TRUE}]]
           iter == CHOOSE g : g = Turn(g)
<1>1. PICK g : Sums(g, f, S)
  BY SumsExist
<1>2. g = Turn(g)
  BY <1>1 DEF Sums
<1>3. iter = Turn(iter)
  <2> HIDE DEF Turn
  <2> QED
    BY <1>2
<1>4. SumFunctionOnSet(f, S) = iter[S]
  BY DEF SumFunctionOnSet, FoldFunctionOnSet, MapThenFoldSet
<1> HIDE DEF iter
<1>5. Sums(iter, f, S)
  BY <1>3 DEF Sums
<1> QED
  BY <1>4, <1>5

(* So a sum grows by what is added to the set, and of no numbers is 0.     *)
LEMMA SumAdds ==
    ASSUME NEW S, IsFiniteSet(S), NEW x, x \notin S, NEW f,
           \A y \in S \cup {x} : f[y] \in Int
    PROVE  SumFunctionOnSet(f, S \cup {x}) = SumFunctionOnSet(f, S) + f[x]
<1> DEFINE U == S \cup {x}
<1>1. IsFiniteSet(U) /\ S \in SUBSET U /\ U \ {x} = S /\ U \in SUBSET U
  BY FS_AddElement
<1>2. PICK g : Sums(g, f, U) /\ SumFunctionOnSet(f, U) = g[U]
  BY <1>1, SumIs
<1>3. PICK h : Sums(h, f, S) /\ SumFunctionOnSet(f, S) = h[S]
  BY SumIs
<1>4. g[U] = f[x] + g[S] /\ g[S] = h[S]
  <2>1. x \in U /\ S \in SUBSET S /\ \A y \in U : f[y] \in Int
    OBVIOUS
  <2> HIDE DEF U
  <2>2. g[U] = f[x] + g[U \ {x}]
    BY <1>1, <1>2, <2>1, SumsAnyOrder
  <2>3. \A T \in SUBSET S : g[T] = h[T]
    BY <1>1, <1>2, <1>3, <2>1, SumsAgree
  <2> QED
    BY <1>1, <2>1, <2>2, <2>3
<1>5. h[S] \in Int /\ f[x] \in Int
  BY <1>3 DEF Sums
<1> HIDE DEF U
<1>6. \A a, b \in Int : a + b = b + a
  OBVIOUS
<1>7. SumFunctionOnSet(f, U) = SumFunctionOnSet(f, S) + f[x]
  BY <1>2, <1>3, <1>4, <1>5, <1>6
<1> QED
  BY <1>7 DEF U

LEMMA SumOfNone ==
    ASSUME NEW f
    PROVE  SumFunctionOnSet(f, {}) = 0
<1>1. PICK g : Sums(g, f, {}) /\ SumFunctionOnSet(f, {}) = g[{}]
  BY SumIs, FS_EmptySet
<1> QED
  BY <1>1 DEF Sums

=============================================================================
