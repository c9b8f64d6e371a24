---------------------------- MODULE SequenceLemmas ----------------------------
(***************************************************************************)
(* What taking members out of a sequence does (OrderedRemoval), for every   *)
(* sequence.  The library's induction theorems take an operator, which the  *)
(* provers cannot instantiate; an induction is therefore done here and in   *)
(* the modules that extend this one by taking the least number for which a  *)
(* fact would fail (LeastNumber) and refuting it.                           *)
(***************************************************************************)
EXTENDS OrderedRemoval, SequencesExt, FiniteSetTheorems, WellFoundedInduction, TLAPS

\* A set of numbers that is not empty has a least one.
LEMMA LeastNumber ==
  ASSUME NEW B \in SUBSET Nat, B # {}
  PROVE  \E n \in B : \A m \in B : n <= m
<1>1. \E n \in B : \A m \in B : ~(<<m, n>> \in OpToRel(<, Nat))
  BY WFMin, NatLessThanWellFounded
<1>2. PICK n \in B : \A m \in B : ~(m < n)
  BY <1>1 DEF OpToRel
<1> QED BY <1>2

\* Two sets that differ in x at most.
LEMMA DifferInOne ==
  ASSUME NEW U, IsFiniteSet(U), NEW S \in SUBSET U, NEW T \in SUBSET U, NEW x,
         \A y \in U \ {x} : y \in S <=> y \in T
  PROVE  /\ Cardinality(S) \in Nat /\ Cardinality(T) \in Nat
         /\ Cardinality(T) = Cardinality(S) + (IF x \in T THEN 1 ELSE 0)
                                            - (IF x \in S THEN 1 ELSE 0)
<1>1. IsFiniteSet(S) /\ IsFiniteSet(T)
  BY FS_Subset
<1>2. S \ {x} = T \ {x}
  OBVIOUS
<1>3. /\ Cardinality(S \ {x}) = IF x \in S THEN Cardinality(S) - 1 ELSE Cardinality(S)
      /\ Cardinality(T \ {x}) = IF x \in T THEN Cardinality(T) - 1 ELSE Cardinality(T)
  BY <1>1, FS_RemoveElement
<1>4. Cardinality(S) \in Nat /\ Cardinality(T) \in Nat
  BY <1>1, FS_CardinalityType
<1> QED BY <1>2, <1>3, <1>4

\* The head of a sequence and what follows it; an element put at its end.
LEMMA HeadAndTail ==
  ASSUME NEW S, NEW s \in Seq(S), s # <<>>
  PROVE  /\ Head(s) \in S /\ Tail(s) \in Seq(S)
         /\ ToSet(s) = {Head(s)} \cup ToSet(Tail(s))
         /\ IsInjective(s) => IsInjective(Tail(s)) /\ Head(s) \notin ToSet(Tail(s))
<1>1. /\ Len(s) \in Nat /\ Len(s) > 0 /\ Head(s) = s[1] /\ Tail(s) \in Seq(S)
      /\ Len(Tail(s)) = Len(s) - 1 /\ \A i \in 1..(Len(s) - 1) : Tail(s)[i] = s[i + 1]
  OBVIOUS
<1> DEFINE t == Tail(s)
<1> HIDE DEF t
<1>2. /\ DOMAIN s = 1..Len(s) /\ DOMAIN t = 1..(Len(s) - 1)
      /\ \A i \in 1..(Len(s) - 1) : t[i] = s[i + 1]
  BY <1>1 DEF t
<1>3. \A i \in 1..(Len(s) - 1) : i + 1 \in 1..Len(s) /\ i + 1 # 1
  BY <1>1
<1>4. \A i \in 1..Len(s) : i = 1 \/ (i - 1 \in 1..(Len(s) - 1) /\ (i - 1) + 1 = i)
  BY <1>1
<1>5. ToSet(s) = {s[1]} \cup ToSet(t)
  <2>1. ToSet(s) = {s[i] : i \in 1..Len(s)} /\ ToSet(t) = {t[i] : i \in 1..(Len(s) - 1)}
    BY <1>2 DEF ToSet
  <2>2. ASSUME NEW i \in 1..Len(s) PROVE s[i] \in {s[1]} \cup ToSet(t)
    BY <1>2, <1>4, <2>1
  <2>3. ASSUME NEW i \in 1..(Len(s) - 1) PROVE t[i] \in ToSet(s)
    BY <1>2, <1>3, <2>1
  <2>4. s[1] \in ToSet(s)
    BY <1>1, <2>1
  <2> QED BY <2>1, <2>2, <2>3, <2>4
<1>6. ASSUME IsInjective(s) PROVE IsInjective(t) /\ s[1] \notin ToSet(t)
  <2>1. \A i, j \in 1..Len(s) : s[i] = s[j] => i = j
    BY <1>2, <1>6 DEF IsInjective
  <2>2. ASSUME NEW i \in 1..(Len(s) - 1), NEW j \in 1..(Len(s) - 1), t[i] = t[j] PROVE i = j
    <3>1. i + 1 = j + 1
      BY <2>1, <2>2, <1>2, <1>3
    <3> QED BY <3>1, <1>1
  <2>3. 1 \in 1..Len(s)
    BY <1>1
  <2>4. \A i \in 1..(Len(s) - 1) : t[i] # s[1]
    BY <2>1, <2>3, <1>2, <1>3
  <2> QED BY <2>2, <2>4, <1>2 DEF IsInjective, ToSet
<1> QED BY <1>1, <1>5, <1>6 DEF t

LEMMA AppendOne ==
  ASSUME NEW S, NEW s \in Seq(S), NEW x \in S
  PROVE  /\ Append(s, x) \in Seq(S) /\ Append(s, x) # <<>>
         /\ ToSet(Append(s, x)) = ToSet(s) \cup {x}
         /\ IsInjective(s) /\ x \notin ToSet(s) => IsInjective(Append(s, x))
<1> DEFINE t == Append(s, x)
           n == Len(s)
<1>1. /\ n \in Nat /\ t \in Seq(S) /\ t # <<>> /\ Len(t) = n + 1
      /\ t[n + 1] = x /\ \A i \in 1..n : t[i] = s[i]
  OBVIOUS
<1>2. DOMAIN s = 1..n /\ DOMAIN t = 1..(n + 1)
  BY <1>1
<1> HIDE DEF t, n
<1>3. 1..(n + 1) = 1..n \cup {n + 1}
  BY <1>1
<1>4. ToSet(t) = ToSet(s) \cup {x}
  BY <1>1, <1>2, <1>3 DEF ToSet
<1>5. IsInjective(s) /\ x \notin ToSet(s) => IsInjective(t)
  BY <1>1, <1>2, <1>3 DEF IsInjective, ToSet
<1> QED BY <1>1, <1>4, <1>5 DEF t

\* The recursive function of Without(s, T), over the first k elements.
KeptUpTo(s, T, k, f) ==
  f = [n \in 0..k |->
         IF n = 0 THEN <<>>
         ELSE IF s[n] \in T THEN f[n - 1] ELSE Append(f[n - 1], s[n])]

\* There is a function that drops the elements of T, for every length.
LEMMA KeptExists ==
  ASSUME NEW s, NEW T, NEW k \in Nat
  PROVE  \E f : KeptUpTo(s, T, k, f)
<1> DEFINE B == {m \in Nat : ~ \E f : KeptUpTo(s, T, m, f)}
<1>1. SUFFICES ASSUME B # {} PROVE FALSE
  OBVIOUS
<1>2. PICK m \in B : \A j \in B : m <= j
  <2>1. B \in SUBSET Nat OBVIOUS
  <2> HIDE DEF B
  <2> QED BY <1>1, <2>1, LeastNumber
<1>3. m # 0
  <2>1. KeptUpTo(s, T, 0, [n \in 0..0 |-> <<>>])
    BY DEF KeptUpTo
  <2> QED BY <2>1
<1>4. m - 1 \in Nat /\ ~(m <= m - 1)
  BY <1>3
<1>5. PICK f : KeptUpTo(s, T, m - 1, f)
  BY <1>2, <1>4
<1> DEFINE v == IF s[m] \in T THEN f[m - 1] ELSE Append(f[m - 1], s[m])
           g == [n \in 0..m |-> IF n = m THEN v ELSE f[n]]
<1>6. KeptUpTo(s, T, m, g)
  <2> SUFFICES ASSUME NEW n \in 0..m
               PROVE  g[n] = IF n = 0 THEN <<>>
                      ELSE IF s[n] \in T THEN g[n - 1] ELSE Append(g[n - 1], s[n])
    BY DEF KeptUpTo
  <2>1. CASE n = m
    BY <2>1, <1>3, <1>4
  <2>2. CASE n # m
    <3>1. n \in 0..m-1 /\ g[n] = f[n] /\ (n # 0 => g[n - 1] = f[n - 1])
      BY <2>2, <1>4
    <3>2. f[n] = IF n = 0 THEN <<>>
               ELSE IF s[n] \in T THEN f[n - 1] ELSE Append(f[n - 1], s[n])
      BY <3>1, <1>5 DEF KeptUpTo
    <3> QED BY <3>1, <3>2
  <2> QED BY <2>1, <2>2
<1> QED BY <1>6, <1>2

\* The elements of a sequence.
LEMMA ToSetIs ==
  ASSUME NEW S, NEW s \in Seq(S)
  PROVE  ToSet(s) = {s[i] : i \in 1..Len(s)}
BY DEF ToSet

\* Without is that function, at the end of the sequence.
LEMMA WithoutUnfolds ==
  ASSUME NEW s, NEW T, Len(s) \in Nat
  PROVE  \E f : KeptUpTo(s, T, Len(s), f) /\ Without(s, T) = f[Len(s)]
<1> DEFINE f == CHOOSE g : KeptUpTo(s, T, Len(s), g)
<1>1. KeptUpTo(s, T, Len(s), f)
  BY KeptExists
<1>2. Without(s, T) = f[Len(s)]
  BY DEF Without, KeptUpTo
<1> QED BY <1>1, <1>2

\* q is what is left of the first n elements of s without those in T.
Kept(S, s, T, q, n) ==
  /\ q \in Seq(S)
  /\ Len(q) <= n
  /\ (\E i \in 1..n : s[i] \in T) => Len(q) < n
  /\ ToSet(q) = {s[i] : i \in 1..n} \ T
  /\ IsInjective(s) => IsInjective(q)

\* What is left has exactly the elements outside T, none twice if none was twice before,
\* and is shorter if there was one in T.
LEMMA WithoutKeeps ==
  ASSUME NEW S, NEW s \in Seq(S), NEW T
  PROVE  /\ Without(s, T) \in Seq(S)
         /\ Len(Without(s, T)) <= Len(s)
         /\ ToSet(s) \cap T # {} => Len(Without(s, T)) < Len(s)
         /\ ToSet(Without(s, T)) = ToSet(s) \ T
         /\ IsInjective(s) => IsInjective(Without(s, T))
<1>1. PICK f : KeptUpTo(s, T, Len(s), f) /\ Without(s, T) = f[Len(s)]
  BY WithoutUnfolds
<1> DEFINE B == {n \in 0..Len(s) : ~Kept(S, s, T, f[n], n)}
<1>2. ASSUME B # {} PROVE FALSE
  <2>1. PICK n \in B : \A j \in B : n <= j
    <3>1. B \in SUBSET Nat OBVIOUS
    <3> HIDE DEF B
    <3> QED BY <1>2, <3>1, LeastNumber
  <2>2. n \in 0..Len(s) /\ f[n] = IF n = 0 THEN <<>>
               ELSE IF s[n] \in T THEN f[n - 1] ELSE Append(f[n - 1], s[n])
    BY <1>1 DEF KeptUpTo
  <2>3. CASE n = 0
    <3>1. f[n] = <<>> BY <2>2, <2>3
    <3>2. Kept(S, s, T, <<>>, 0)
      BY DEF Kept, ToSet, IsInjective
    <3> QED BY <3>1, <3>2, <2>3
  <2>4. CASE n # 0
    <3>1. n \in 1..Len(s) /\ n - 1 \in 0..Len(s) /\ ~(n <= n - 1)
      BY <2>2, <2>4
    <3>2. Kept(S, s, T, f[n - 1], n - 1)
      BY <3>1, <2>1
    <3> DEFINE q == f[n - 1]
    <3> HIDE DEF q
    <3>3. q \in Seq(S) /\ Len(q) <= n - 1 /\ ToSet(q) = {s[i] : i \in 1..(n-1)} \ T
          /\ (IsInjective(s) => IsInjective(q))
          /\ ((\E i \in 1..(n - 1) : s[i] \in T) => Len(q) < n - 1)
      BY <3>2 DEF Kept, q
    <3>4. {s[i] : i \in 1..n} = {s[i] : i \in 1..(n-1)} \cup {s[n]}
      BY <3>1
    <3>5. CASE s[n] \in T
      <4>1. f[n] = q BY <2>2, <2>4, <3>5 DEF q
      <4>2. ToSet(q) = {s[i] : i \in 1..n} \ T BY <3>3, <3>4, <3>5
      <4>3. Len(q) <= n /\ Len(q) < n BY <3>1, <3>3
      <4>4. Kept(S, s, T, q, n) BY <3>3, <4>2, <4>3 DEF Kept
      <4> QED BY <4>1, <4>4
    <3>6. CASE s[n] \notin T
      <4> DEFINE r == Append(q, s[n])
      <4>1. f[n] = r BY <2>2, <2>4, <3>6 DEF q
      <4>2. s[n] \in S BY <3>1
      <4>3. r \in Seq(S) /\ Len(r) <= n /\ Len(r) = Len(q) + 1
            /\ (\A i \in 1..Len(q) : r[i] = q[i]) /\ r[Len(q) + 1] = s[n]
        BY <3>3, <3>1, <4>2
      <4>4. ToSet(r) = ToSet(q) \cup {s[n]}
        <5> HIDE DEF r
        <5>1. ToSet(r) = {r[i] : i \in 1..Len(r)} /\ ToSet(q) = {q[i] : i \in 1..Len(q)}
          <6> HIDE DEF B
          <6> QED BY <4>3, <3>3, ToSetIs
        <5> QED BY SMTT(30), <5>1, <4>3, <3>3
      <4>5. ToSet(r) = {s[i] : i \in 1..n} \ T
        BY <4>4, <3>3, <3>4, <3>6
      <4>6. ASSUME IsInjective(s) PROVE IsInjective(r)
        <5> HIDE DEF r
        <5>1. \A i \in 1..Len(q) : q[i] # s[n]
          <6> SUFFICES ASSUME NEW i \in 1..Len(q), q[i] = s[n] PROVE FALSE
            OBVIOUS
          <6>1. q[i] \in ToSet(q) BY <3>3 DEF ToSet
          <6>2. PICK j \in 1..(n-1) : s[j] = s[n] BY <6>1, <3>3
          <6> QED BY <6>2, <4>6, <3>1 DEF IsInjective
        <5>2. \A i, j \in 1..Len(q) : q[i] = q[j] => i = j
          BY <4>6, <3>3 DEF IsInjective
        <5>3. \A i, j \in 1..(Len(q) + 1) : r[i] = r[j] => i = j
          BY <5>1, <5>2, <4>3, <3>3
        <5> QED BY <5>3, <4>3, <3>3 DEF IsInjective
      <4>7. ASSUME NEW i \in 1..n, s[i] \in T PROVE Len(r) < n
        <5>1. i \in 1..(n - 1)
          BY <3>1, <3>6, <4>7
        <5>2. Len(q) < n - 1 /\ Len(q) \in Nat
          BY <3>3, <4>7, <5>1
        <5> HIDE DEF r
        <5> QED BY <3>1, <4>3, <5>2
      <4>8. Kept(S, s, T, r, n)
        <5> HIDE DEF r
        <5> QED BY <4>3, <4>5, <4>6, <4>7 DEF Kept
      <4> QED BY <4>1, <4>8
    <3> QED BY <3>5, <3>6
  <2> QED BY <2>2, <2>3, <2>4
<1>3. Kept(S, s, T, f[Len(s)], Len(s))
  BY <1>2
<1>4. ToSet(s) = {s[i] : i \in 1..Len(s)}
  BY DEF ToSet
<1>5. ToSet(s) \cap T # {} => \E i \in 1..Len(s) : s[i] \in T
  BY <1>4
<1> QED BY <1>1, <1>3, <1>4, <1>5 DEF Kept
=============================================================================
