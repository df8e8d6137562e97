----------------------------- MODULE ListFacts -----------------------------
(***************************************************************************)
(* What the calls that list a finite set of resources or namespaces        *)
(* return: facts about SetToSeq and about the sequences built from it.     *)
(***************************************************************************)
EXTENDS SequencesExt, SequenceTheorems, FiniteSetTheorems, TLAPS

(* SetToSeq lists a finite set, each of its elements once.                 *)
LEMMA SetToSeqFacts ==
    ASSUME NEW S, IsFiniteSet(S)
    PROVE  /\ SetToSeq(S) \in Seq(S)
           /\ IsInjective(SetToSeq(S))
           /\ ToSet(SetToSeq(S)) = S
<1> DEFINE n == Cardinality(S)
           s == SetToSeq(S)
<1>1. n \in Nat /\ ExistsBijection(1 .. n, S)
  BY FS_CardinalityType
<1>2. \E f \in [1 .. n -> S] : IsInjective(f)
  BY <1>1, Zenon DEF ExistsBijection, Bijection, Injection
<1>3. s \in [1 .. n -> S] /\ IsInjective(s)
  BY <1>2, Zenon DEF SetToSeq
<1>4. s \in Seq(S)
  BY <1>1, <1>3
<1>5. s \in Surjection(1 .. n, S)
  <2>1. s \in Injection(1 .. n, S)
    BY <1>3, Zenon DEF Injection
  <2>2. Cardinality(1 .. n) = n
    BY <1>1, FS_Interval
  <2> QED
    BY <2>1, <2>2, FS_Injection
<1>6. ToSet(s) = S
  <2>1. DOMAIN s = 1 .. n
    BY <1>3
  <2>2. \A e \in S : \E i \in 1 .. n : s[i] = e
    BY <1>5, Zenon DEF Surjection
  <2>3. \A i \in 1 .. n : s[i] \in S
    BY <1>3
  <2> HIDE DEF s, n
  <2> QED
    BY <2>1, <2>2, <2>3 DEF ToSet
<1> QED
  BY <1>3, <1>4, <1>6

(* Two lists without a common element, one after the other. *)
LEMMA JoinedFacts ==
    ASSUME NEW S, NEW s \in Seq(S), NEW t \in Seq(S)
    PROVE  /\ s \o t \in Seq(S)
           /\ ToSet(s \o t) = ToSet(s) \union ToSet(t)
           /\ IsInjective(s) /\ IsInjective(t) /\ ToSet(s) \intersect ToSet(t) = {}
              => IsInjective(s \o t)
<1> DEFINE u == s \o t
           m == Len(s)
           n == Len(t)
<1>1. /\ m \in Nat /\ n \in Nat
      /\ u \in Seq(S) /\ Len(u) = m + n
      /\ \A i \in 1 .. m + n : u[i] = IF i <= m THEN s[i] ELSE t[i - m]
  BY ConcatProperties
<1>2. DOMAIN u = 1 .. m + n /\ DOMAIN s = 1 .. m /\ DOMAIN t = 1 .. n
  BY <1>1, LenProperties, Zenon
<1> HIDE DEF u, m, n
<1>3. /\ \A i \in 1 .. m : u[i] = s[i]
      /\ \A i \in 1 .. n : u[m + i] = t[i]
  <2>1. ASSUME NEW i \in 1 .. m
        PROVE  u[i] = s[i]
    BY <1>1
  <2>2. ASSUME NEW i \in 1 .. n
        PROVE  u[m + i] = t[i]
    <3>1. m + i \in 1 .. m + n /\ ~(m + i <= m) /\ (m + i) - m = i
      BY <1>1
    <3> QED
      BY <1>1, <3>1
  <2> QED
    BY <2>1, <2>2
<1>4. ToSet(u) = ToSet(s) \union ToSet(t)
  <2>1. ASSUME NEW e \in ToSet(u)
        PROVE  e \in ToSet(s) \union ToSet(t)
    <3>1. PICK i \in 1 .. m + n : u[i] = e
      BY <1>2 DEF ToSet
    <3>2. CASE i <= m
      <4>1. i \in 1 .. m /\ s[i] = e
        BY <1>1, <3>1, <3>2
      <4> QED
        BY <1>2, <4>1 DEF ToSet
    <3>3. CASE ~(i <= m)
      <4>1. i - m \in 1 .. n /\ t[i - m] = e
        BY <1>1, <3>1, <3>3
      <4> QED
        BY <1>2, <4>1 DEF ToSet
    <3> QED
      BY <3>2, <3>3
  <2>2. ASSUME NEW e \in ToSet(s)
        PROVE  e \in ToSet(u)
    <3>1. PICK i \in 1 .. m : s[i] = e
      BY <1>2 DEF ToSet
    <3>2. i \in 1 .. m + n /\ u[i] = e
      BY <1>1, <1>3, <3>1
    <3> QED
      BY <1>2, <3>2 DEF ToSet
  <2>3. ASSUME NEW e \in ToSet(t)
        PROVE  e \in ToSet(u)
    <3>1. PICK i \in 1 .. n : t[i] = e
      BY <1>2 DEF ToSet
    <3>2. m + i \in 1 .. m + n /\ u[m + i] = e
      BY <1>1, <1>3, <3>1
    <3> QED
      BY <1>2, <3>2 DEF ToSet
  <2> QED
    BY <2>1, <2>2, <2>3
<1>5. ASSUME IsInjective(s), IsInjective(t), ToSet(s) \intersect ToSet(t) = {}
      PROVE  IsInjective(u)
  <2>1. \A i \in 1 .. m, j \in 1 .. n : s[i] # t[j]
    BY <1>2, <1>5 DEF ToSet
  <2>2. /\ \A i, j \in 1 .. m : s[i] = s[j] => i = j
        /\ \A i, j \in 1 .. n : t[i] = t[j] => i = j
    BY <1>2, <1>5 DEF IsInjective
  <2>3. ASSUME NEW i \in 1 .. m + n, NEW j \in 1 .. m + n, u[i] = u[j]
        PROVE  i = j
    <3>1. CASE i <= m /\ j <= m
      BY <1>1, <2>2, <2>3, <3>1
    <3>2. CASE ~(i <= m) /\ ~(j <= m)
      <4>1. i - m \in 1 .. n /\ j - m \in 1 .. n /\ t[i - m] = t[j - m]
        BY <1>1, <2>3, <3>2
      <4>2. i - m = j - m
        BY <2>2, <4>1
      <4> QED
        BY <1>1, <4>2
    <3>3. CASE i <= m /\ ~(j <= m)
      <4>1. j - m \in 1 .. n /\ s[i] = t[j - m] /\ i \in 1 .. m
        BY <1>1, <2>3, <3>3
      <4> QED
        BY <2>1, <4>1
    <3>4. CASE ~(i <= m) /\ j <= m
      <4>1. i - m \in 1 .. n /\ s[j] = t[i - m] /\ j \in 1 .. m
        BY <1>1, <2>3, <3>4
      <4> QED
        BY <2>1, <4>1
    <3> QED
      BY <3>1, <3>2, <3>3, <3>4
  <2> QED
    BY <1>2, <2>3 DEF IsInjective
<1> QED
  BY <1>1, <1>4, <1>5 DEF u

(* A list without its first element. *)
LEMMA RestFacts ==
    ASSUME NEW S, NEW s \in Seq(S), s # << >>
    PROVE  /\ Head(s) \in S /\ Tail(s) \in Seq(S)
           /\ ToSet(s) = {Head(s)} \union ToSet(Tail(s))
           /\ IsInjective(s) => IsInjective(Tail(s)) /\ Head(s) \notin ToSet(Tail(s))
<1> DEFINE n == Len(s)
           t == Tail(s)
<1>1. /\ n \in Nat /\ n >= 1
      /\ t \in Seq(S) /\ Len(t) = n - 1 /\ Head(s) = s[1] /\ Head(s) \in S
      /\ \A i \in 1 .. n - 1 : t[i] = s[i + 1]
  OBVIOUS
<1>2. DOMAIN s = 1 .. n /\ DOMAIN t = 1 .. n - 1
  BY <1>1
<1> HIDE DEF t
<1>3. ASSUME NEW e \in ToSet(s)
      PROVE  e \in {Head(s)} \union ToSet(t)
  <2>1. PICK i \in 1 .. n : s[i] = e
    BY <1>2 DEF ToSet
  <2>2. CASE i # 1
    <3>1. i - 1 \in 1 .. n - 1 /\ t[i - 1] = e
      BY <1>1, <2>1, <2>2
    <3> QED
      BY <1>2, <3>1 DEF ToSet
  <2> QED
    BY <1>1, <2>1, <2>2
<1>4. ASSUME NEW e \in {Head(s)} \union ToSet(t)
      PROVE  e \in ToSet(s)
  <2>1. CASE e = Head(s)
    BY <1>1, <1>2, <2>1 DEF ToSet
  <2>2. CASE e \in ToSet(t)
    <3>1. PICK i \in 1 .. n - 1 : t[i] = e
      BY <1>2, <2>2 DEF ToSet
    <3>2. i + 1 \in 1 .. n /\ s[i + 1] = e
      BY <1>1, <3>1
    <3> QED
      BY <1>2, <3>2 DEF ToSet
  <2> QED
    BY <1>4, <2>1, <2>2
<1>5. ASSUME IsInjective(s)
      PROVE  IsInjective(t) /\ Head(s) \notin ToSet(t)
  <2>1. \A i, j \in 1 .. n : s[i] = s[j] => i = j
    BY <1>2, <1>5 DEF IsInjective
  <2>2. \A i, j \in 1 .. n - 1 : t[i] = t[j] => i = j
    BY <1>1, <2>1
  <2>3. \A i \in 1 .. n - 1 : t[i] # s[1]
    BY <1>1, <2>1
  <2> QED
    BY <1>1, <1>2, <2>2, <2>3 DEF IsInjective, ToSet
<1> QED
  BY <1>1, <1>3, <1>4, <1>5 DEF t
=============================================================================
