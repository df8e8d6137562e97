--------------------------- MODULE ExecutorProofs ---------------------------
(***************************************************************************)
(* Theorems about Executor, for any number of Cleaners and of workers.     *)
(***************************************************************************)
EXTENDS Executor, SequenceTheorems, FiniteSetTheorems, TLAPS

(* The loops find what they look for: the first index of a slice that      *)
(* holds k is an index of the slice, and holds k.                          *)
LEMMA IndexOfInDomain ==
    ASSUME NEW S, NEW s \in Seq(S), NEW k, Contains(s, k)
    PROVE  IndexOf(s, k) \in DOMAIN s /\ s[IndexOf(s, k)] = k
<1> DEFINE I == {i \in 1 .. Len(s) : s[i] = k}
<1>1. I # {} /\ I \subseteq Nat
  BY DEF Contains
<1>2. PICK m \in I : \A j \in I : m <= j
  <2>1. PICK m \in I : \A j \in I : ~(<<j, m>> \in OpToRel(<, Nat))
    BY <1>1, WFMin, NatLessThanWellFounded
  <2>2. \A j \in I : m <= j
    <3> TAKE j \in I
    <3>1. j \in Nat /\ m \in Nat
      BY <1>1
    <3>2. <<j, m>> \in OpToRel(<, Nat) <=> j < m
      BY <3>1, Zenon DEF OpToRel
    <3>3. ~(j < m)
      BY <2>1, <3>2, Zenon
    <3> QED
      BY <3>1, <3>3
  <2> QED
    BY <2>2, Zenon
<1>3. IndexOf(s, k) = Min(I)
  BY <1>1 DEF IndexOf, SelectInSeq
<1>4. Min(I) \in I
  BY <1>2 DEF Min
<1>5. QED
  BY <1>3, <1>4

(* Overwrite keeps the length and the type of a slice. *)
LEMMA OverwriteFacts ==
    ASSUME NEW S, NEW s \in Seq(S), NEW i \in DOMAIN s
    PROVE  /\ Overwrite(s, i) \in Seq(S)
           /\ Len(Overwrite(s, i)) = Len(s)
           /\ \A j \in 1 .. Len(s) :
                Overwrite(s, i)[j] = IF j = i THEN s[Len(s)] ELSE s[j]
<1>1. Len(s) \in Nat /\ i \in 1 .. Len(s) /\ Last(s) = s[Len(s)] /\ Last(s) \in S
  BY DEF Last
<1>2. QED
  BY <1>1 DEF Overwrite

(* removeFromSlice moves the last element over element i and drops it from *)
(* the end.                                                                *)
LEMMA RemoveFromSliceFacts ==
    ASSUME NEW S, NEW s \in Seq(S), NEW i \in DOMAIN s
    PROVE  /\ RemoveFromSlice(s, i) \in Seq(S)
           /\ Len(RemoveFromSlice(s, i)) = Len(s) - 1
           /\ \A j \in 1 .. Len(s) - 1 :
                RemoveFromSlice(s, i)[j] = IF j = i THEN s[Len(s)] ELSE s[j]
<1> DEFINE o == Overwrite(s, i)
<1>1. /\ o \in Seq(S)
      /\ Len(o) = Len(s)
      /\ \A j \in 1 .. Len(s) : o[j] = IF j = i THEN s[Len(s)] ELSE s[j]
  BY OverwriteFacts
<1>2. Len(s) \in Nat /\ Len(s) >= 1
  BY DEF Last
<1>3. RemoveFromSlice(s, i) = SubSeq(o, 1, Len(o) - 1)
  BY DEF RemoveFromSlice, Front
<1> HIDE DEF o
<1>4. QED
  BY <1>1, <1>2, <1>3

(* s = removeFromSlice(s, i) at the first i with s[i] = k removes one k    *)
(* and nothing else.                                                       *)
LEMMA RemoveKeyFacts ==
    ASSUME NEW S, NEW s \in Seq(S), NEW k
    PROVE  /\ RemoveKey(s, k) \in Seq(S)
           /\ \A x : Contains(RemoveKey(s, k), x) => Contains(s, x)
           /\ \A x : x # k /\ Contains(s, x) => Contains(RemoveKey(s, k), x)
           /\ IsInjective(s) => /\ IsInjective(RemoveKey(s, k))
                               /\ ~Contains(RemoveKey(s, k), k)
<1>1. CASE ~Contains(s, k)
  BY <1>1 DEF RemoveKey
<1>2. CASE Contains(s, k)
  <2> DEFINE i == IndexOf(s, k)
             n == Len(s)
             r == RemoveKey(s, k)
  <2>1. i \in DOMAIN s /\ s[i] = k
    BY <1>2, IndexOfInDomain
  <2>2. r = RemoveFromSlice(s, i)
    BY <1>2 DEF RemoveKey
  <2> HIDE DEF i, r
  <2>3. /\ r \in Seq(S)
        /\ Len(r) = n - 1
        /\ \A j \in 1 .. n - 1 : r[j] = IF j = i THEN s[n] ELSE s[j]
    BY <2>1, <2>2, RemoveFromSliceFacts
  <2>4. n \in Nat /\ i \in 1 .. n
    BY <2>1
  <2>5. ASSUME NEW x, Contains(r, x)
        PROVE  Contains(s, x)
    BY <2>3, <2>4, <2>5 DEF Contains
  <2>6. ASSUME NEW x, x # k, Contains(s, x)
        PROVE  Contains(r, x)
    <3>1. PICK j \in 1 .. n : s[j] = x
      BY <2>6 DEF Contains
    <3>2. j # i
      BY <2>1, <2>6, <3>1
    <3>3. CASE j = n
      <4>1. i \in 1 .. n - 1
        BY <2>4, <3>2, <3>3
      <4>2. r[i] = x
        BY <2>3, <3>1, <3>3, <4>1
      <4> QED
        BY <2>3, <4>1, <4>2 DEF Contains
    <3>4. CASE j # n
      <4>1. j \in 1 .. n - 1
        BY <2>4, <3>4
      <4>2. r[j] = x
        BY <2>3, <3>1, <3>2, <4>1
      <4> QED
        BY <2>3, <4>1, <4>2 DEF Contains
    <3> QED
      BY <3>3, <3>4
  <2>7. ASSUME IsInjective(s)
        PROVE  IsInjective(r) /\ ~Contains(r, k)
    <3>1. \A a, b \in 1 .. n : s[a] = s[b] => a = b
      BY <2>4, <2>7 DEF IsInjective
    <3>2. \A j \in 1 .. n - 1 : r[j] # k
      BY <2>1, <2>3, <2>4, <3>1
    <3>3. \A a, b \in 1 .. n - 1 : r[a] = r[b] => a = b
      BY <2>3, <2>4, <3>1
    <3> QED
      BY <2>3, <3>2, <3>3 DEF IsInjective, Contains
  <2> QED
    BY <2>3, <2>5, <2>6, <2>7 DEF r
<1>3. QED
  BY <1>1, <1>2

(* A removal whose result is discarded brings in no new name and loses no  *)
(* other one: the last element is there once more, over the removed one.   *)
LEMMA OverwriteKeyFacts ==
    ASSUME NEW S, NEW s \in Seq(S), NEW k
    PROVE  /\ OverwriteKey(s, k) \in Seq(S)
           /\ Len(OverwriteKey(s, k)) = Len(s)
           /\ \A x : Contains(OverwriteKey(s, k), x) => Contains(s, x)
           /\ \A x : x # k /\ Contains(s, x) => Contains(OverwriteKey(s, k), x)
<1>1. CASE ~Contains(s, k)
  BY <1>1 DEF OverwriteKey
<1>2. CASE Contains(s, k)
  <2> DEFINE i == IndexOf(s, k)
             n == Len(s)
             o == OverwriteKey(s, k)
  <2>1. i \in DOMAIN s /\ s[i] = k
    BY <1>2, IndexOfInDomain
  <2>2. o = Overwrite(s, i)
    BY <1>2 DEF OverwriteKey
  <2> HIDE DEF i, o
  <2>3. /\ o \in Seq(S)
        /\ Len(o) = n
        /\ \A j \in 1 .. n : o[j] = IF j = i THEN s[n] ELSE s[j]
    BY <2>1, <2>2, OverwriteFacts
  <2>4. n \in Nat /\ n >= 1
    BY <2>1
  <2>5. ASSUME NEW x, Contains(o, x)
        PROVE  Contains(s, x)
    BY <2>3, <2>4, <2>5 DEF Contains
  <2>6. ASSUME NEW x, x # k, Contains(s, x)
        PROVE  Contains(o, x)
    <3>1. PICK j \in 1 .. n : s[j] = x
      BY <2>6 DEF Contains
    <3>2. o[j] = x
      BY <2>1, <2>3, <2>6, <3>1
    <3> QED
      BY <2>3, <3>2 DEF Contains
  <2> QED
    BY <2>3, <2>5, <2>6 DEF o
<1>3. QED
  BY <1>1, <1>2

(* What append does to the names in a slice. *)
LEMMA AppendFacts ==
    ASSUME NEW S, NEW s \in Seq(S), NEW e \in S
    PROVE  /\ Append(s, e) \in Seq(S)
           /\ \A x : Contains(Append(s, e), x) <=> Contains(s, x) \/ x = e
           /\ IsInjective(s) /\ ~Contains(s, e) => IsInjective(Append(s, e))
<1> DEFINE n == Len(s)
           t == Append(s, e)
<1>1. /\ t \in Seq(S)
      /\ Len(t) = n + 1
      /\ \A i \in 1 .. n : t[i] = s[i]
      /\ t[n + 1] = e
      /\ n \in Nat
  BY AppendProperties
<1> HIDE DEF t
<1>2. \A x : Contains(t, x) <=> Contains(s, x) \/ x = e
  <2> TAKE x
  <2>1. ASSUME Contains(t, x)
        PROVE  Contains(s, x) \/ x = e
    <3>1. PICK i \in 1 .. n + 1 : t[i] = x
      BY <1>1, <2>1 DEF Contains
    <3> QED
      BY <1>1, <3>1 DEF Contains
  <2>2. ASSUME Contains(s, x)
        PROVE  Contains(t, x)
    BY <1>1, <2>2 DEF Contains
  <2>3. Contains(t, e)
    BY <1>1 DEF Contains
  <2> QED
    BY <2>1, <2>2, <2>3
<1>3. ASSUME IsInjective(s), ~Contains(s, e)
      PROVE  IsInjective(t)
  <2>1. \A i, j \in 1 .. n : s[i] = s[j] => i = j
    BY <1>3 DEF IsInjective
  <2>2. \A i \in 1 .. n : s[i] # e
    BY <1>3 DEF Contains
  <2>3. \A i, j \in 1 .. n + 1 : t[i] = t[j] => i = j
    BY <1>1, <2>1, <2>2
  <2> QED
    BY <1>1, <2>3 DEF IsInjective
<1>4. QED
  BY <1>1, <1>2, <1>3 DEF t

(* The head and the tail of a queue hold what the queue holds. *)
LEMMA HeadTailFacts ==
    ASSUME NEW S, NEW s \in Seq(S), s # << >>
    PROVE  /\ Head(s) \in S
           /\ Tail(s) \in Seq(S)
           /\ Contains(s, Head(s))
           /\ \A x : Contains(s, x) <=> x = Head(s) \/ Contains(Tail(s), x)
<1> DEFINE n == Len(s)
           t == Tail(s)
<1>1. /\ n \in Nat
      /\ n >= 1
      /\ Head(s) = s[1]
      /\ Head(s) \in S
      /\ t \in Seq(S)
      /\ Len(t) = n - 1
      /\ \A i \in 1 .. n - 1 : t[i] = s[i + 1]
  BY HeadTailProperties, EmptySeq
<1> HIDE DEF t
<1>2. Contains(s, Head(s))
  BY <1>1 DEF Contains
<1>3. ASSUME NEW x, Contains(s, x), x # Head(s)
      PROVE  Contains(t, x)
  <2>1. PICK i \in 1 .. n : s[i] = x
    BY <1>3 DEF Contains
  <2>2. i - 1 \in 1 .. n - 1 /\ t[i - 1] = s[i]
    BY <1>1, <1>3, <2>1
  <2> QED
    BY <1>1, <2>1, <2>2 DEF Contains
<1>4. ASSUME NEW x, Contains(t, x)
      PROVE  Contains(s, x)
  <2>1. PICK i \in 1 .. n - 1 : t[i] = x
    BY <1>1, <1>4 DEF Contains
  <2>2. i + 1 \in 1 .. n /\ s[i + 1] = x
    BY <1>1, <2>1
  <2> QED
    BY <2>2 DEF Contains
<1>5. QED
  BY <1>1, <1>2, <1>3, <1>4 DEF t

-----------------------------------------------------------------------------
(* A step keeps the types, from whatever state with these types: module    *)
(* LifecycleProofs takes such steps in a larger system.                    *)
LEMMA TypeStep ==
    ASSUME TypeOK, [Next]_vars
    PROVE  TypeOK'
<1> USE DEF TypeOK
<1>1. ASSUME NEW c \in Cleaners, Process(c)
      PROVE  TypeOK'
  BY <1>1, AppendFacts DEF Process, Outcomes
<1>2. ASSUME NEW c \in Cleaners, GetResult(c)
      PROVE  TypeOK'
  BY <1>2 DEF GetResult, Outcomes
<1>3. ASSUME NEW c \in Deletable, RemoveEntries(c)
      PROVE  TypeOK'
  BY <1>3, OverwriteKeyFacts, DeletableAssumption DEF RemoveEntries, Outcomes
<1>4. ASSUME NEW w \in Workers, TakeRequest(w)
      PROVE  TypeOK'
  BY <1>4, AppendFacts, HeadTailFacts, RemoveKeyFacts DEF TakeRequest
<1>5. ASSUME NEW w \in Workers, NEW err \in Outcomes \ {"none"}, StoreResult(w, err)
      PROVE  TypeOK'
  <2>1. running[w] \in Cleaners
    BY <1>5 DEF StoreResult
  <2> QED
    BY <1>5, <2>1, AppendFacts, RemoveKeyFacts DEF StoreResult, Outcomes
<1>6. CASE UNCHANGED vars
  BY <1>6 DEF vars
<1> QED
  BY <1>1, <1>2, <1>3, <1>4, <1>5, <1>6 DEF Next, Caller, Worker

(* Whatever is requested, run and removed, the slices hold names of        *)
(* Cleaners and a worker runs a Cleaner or nothing.                        *)
THEOREM TypeCorrect == Spec => []TypeOK
<1>1. Init => TypeOK
  BY DEF Init, TypeOK, Outcomes
<1>2. TypeOK /\ [Next]_vars => TypeOK'
  BY TypeStep
<1>3. QED
  BY <1>1, <1>2, PTL DEF Spec

(* No step leaves a result for a Cleaner with an unstarted request. *)
LEMMA FreshStep ==
    ASSUME TypeOK, NoStaleResult, [Next]_vars
    PROVE  NoStaleResult'
<1> SUFFICES ASSUME NEW x \in Cleaners, results'[x] # "none"
             PROVE  ~Contains(dirty', x)
  BY DEF NoStaleResult
<1> USE DEF TypeOK, NoStaleResult
<1>1. ASSUME NEW c \in Cleaners, Process(c)
      PROVE  ~Contains(dirty', x)
  BY <1>1, AppendFacts DEF Process
<1>2. ASSUME NEW c \in Cleaners, GetResult(c)
      PROVE  ~Contains(dirty', x)
  BY <1>2 DEF GetResult
<1>3. ASSUME NEW c \in Deletable, RemoveEntries(c)
      PROVE  ~Contains(dirty', x)
  <2>1. results[x] # "none"
    BY <1>3, DeletableAssumption DEF RemoveEntries
  <2> QED
    BY <1>3, <2>1, OverwriteKeyFacts DEF RemoveEntries
<1>4. ASSUME NEW w \in Workers, TakeRequest(w)
      PROVE  ~Contains(dirty', x)
  BY <1>4, RemoveKeyFacts DEF TakeRequest
<1>5. ASSUME NEW w \in Workers, NEW err \in Outcomes \ {"none"}, StoreResult(w, err)
      PROVE  ~Contains(dirty', x)
  <2> DEFINE key == running[w]
  <2>1. key \in Cleaners /\ dirty' = RemoveKey(dirty, key)
    BY <1>5 DEF StoreResult
  <2>2. ~Contains(dirty, x)
    <3>1. CASE x = key
      BY <1>5, <3>1 DEF StoreResult
    <3>2. CASE x # key
      BY <1>5, <3>2 DEF StoreResult
    <3> QED
      BY <3>1, <3>2
  <2> QED
    BY <2>1, <2>2, RemoveKeyFacts
<1>6. CASE UNCHANGED vars
  BY <1>6 DEF vars
<1> QED
  BY <1>1, <1>2, <1>3, <1>4, <1>5, <1>6 DEF Next, Caller, Worker

(* Also with removals and runs of the same Cleaner side by side, a stored  *)
(* result is never older than the Cleaner's last request: Process and      *)
(* storeResult drop it.                                                    *)
THEOREM ResultsAreFresh == Spec => []NoStaleResult
<1>1. Init => NoStaleResult
  BY DEF Init, NoStaleResult
<1>2. TypeOK /\ NoStaleResult /\ [Next]_vars => NoStaleResult'
  BY FreshStep
<1>3. QED
  BY <1>1, <1>2, TypeCorrect, PTL DEF Spec

(* The length of a slice after removeFromSlice. *)
LEMMA RemoveKeyLen ==
    ASSUME NEW S, NEW s \in Seq(S), NEW k
    PROVE  Len(RemoveKey(s, k)) >= Len(s) - 1
<1>1. CASE Contains(s, k)
  <2>1. IndexOf(s, k) \in DOMAIN s
    BY <1>1, IndexOfInDomain
  <2>2. RemoveKey(s, k) = RemoveFromSlice(s, IndexOf(s, k))
    BY <1>1 DEF RemoveKey
  <2>3. Len(RemoveFromSlice(s, IndexOf(s, k))) = Len(s) - 1
    BY <2>1, RemoveFromSliceFacts
  <2> QED
    BY <2>2, <2>3
<1>2. CASE ~Contains(s, k)
  BY <1>2 DEF RemoveKey
<1> QED
  BY <1>1, <1>2

(* However the removals scramble inProgress, it has an entry for every     *)
(* busy worker: a worker that takes a request adds one and storeResult     *)
(* takes away at most one.                                                 *)
THEOREM BusyWorkersCounted == Spec => []BusyCounted
<1>1. Init => BusyCounted
  <2> SUFFICES ASSUME Init
               PROVE  BusyCounted
    OBVIOUS
  <2>1. Busy = {} /\ Len(inProgress) = 0
    BY NoneAssumption DEF Init, Busy
  <2> QED
    BY <2>1, FS_EmptySet DEF BusyCounted
<1>2. TypeOK /\ BusyCounted /\ [Next]_vars => BusyCounted'
  <2> SUFFICES ASSUME TypeOK, BusyCounted, [Next]_vars
               PROVE  BusyCounted'
    OBVIOUS
  <2> USE DEF TypeOK, BusyCounted
  <2>0. IsFiniteSet(Busy) /\ Cardinality(Busy) \in Nat /\ Len(inProgress) \in Nat
    <3>1. IsFiniteSet(Busy)
      BY WorkersAssumption, FS_Subset DEF Busy
    <3> QED
      BY <3>1, FS_CardinalityType
  <2>1. ASSUME NEW c \in Cleaners, Process(c) \/ GetResult(c)
        PROVE  BusyCounted'
    BY <2>1 DEF Process, GetResult, Busy
  <2>2. ASSUME NEW c \in Deletable, RemoveEntries(c)
        PROVE  BusyCounted'
    BY <2>2, OverwriteKeyFacts DEF RemoveEntries, Busy
  <2>3. ASSUME NEW w \in Workers, TakeRequest(w)
        PROVE  BusyCounted'
    <3>1. Head(jobQueue) \in Cleaners
      BY <2>3, HeadTailFacts DEF TakeRequest
    <3>2. Len(inProgress') = Len(inProgress) + 1
      BY <2>3, <3>1, AppendProperties DEF TakeRequest
    <3>3. Busy' = Busy \union {w} /\ w \notin Busy
      BY <2>3, <3>1, NoneAssumption DEF TakeRequest, Busy
    <3>4. Cardinality(Busy') = Cardinality(Busy) + 1
      BY <2>0, <3>3, FS_AddElement
    <3> QED
      BY <2>0, <3>2, <3>4
  <2>4. ASSUME NEW w \in Workers, NEW err \in Outcomes \ {"none"}, StoreResult(w, err)
        PROVE  BusyCounted'
    <3>1. /\ RemoveKey(inProgress, running[w]) \in Seq(Cleaners)
          /\ Len(RemoveKey(inProgress, running[w])) >= Len(inProgress) - 1
      BY RemoveKeyFacts, RemoveKeyLen
    <3>2. inProgress' = RemoveKey(inProgress, running[w])
      BY <2>4 DEF StoreResult
    <3>3. Len(inProgress') \in Nat /\ Len(inProgress') >= Len(inProgress) - 1
      BY <3>1, <3>2
    <3>4. Busy' = Busy \ {w} /\ w \in Busy
      BY <2>4 DEF StoreResult, Busy
    <3>5. Cardinality(Busy') = Cardinality(Busy) - 1
      BY <2>0, <3>4, FS_RemoveElement
    <3> QED
      BY <2>0, <3>3, <3>5
  <2>5. CASE UNCHANGED vars
    BY <2>5 DEF vars, Busy
  <2> QED
    BY <2>1, <2>2, <2>3, <2>4, <2>5 DEF Next, Caller, Worker
<1>3. QED
  BY <1>1, <1>2, TypeCorrect, PTL DEF Spec

-----------------------------------------------------------------------------
(* Requests merge: as long as no Cleaner is removed, however often a run   *)
(* is asked for, dirty holds the name once.                                *)
THEOREM RequestsMerge ==
    ASSUME Deletable = {}
    PROVE  Spec => []DirtyOnce
<1>1. Init => DirtyOnce
  BY DEF Init, DirtyOnce, IsInjective
<1>2. TypeOK /\ DirtyOnce /\ [Next]_vars => DirtyOnce'
  <2> SUFFICES ASSUME TypeOK, DirtyOnce, [Next]_vars
               PROVE  DirtyOnce'
    OBVIOUS
  <2> USE DEF TypeOK, DirtyOnce
  <2>1. ASSUME NEW c \in Cleaners, Process(c)
        PROVE  DirtyOnce'
    BY <2>1, AppendFacts DEF Process
  <2>2. ASSUME NEW k, dirty' = RemoveKey(dirty, k)
        PROVE  DirtyOnce'
    BY <2>2, RemoveKeyFacts
  <2>3. ASSUME UNCHANGED dirty
        PROVE  DirtyOnce'
    BY <2>3
  <2>4. ASSUME NEW w \in Workers, Worker(w)
        PROVE  DirtyOnce'
    BY <2>2, <2>4 DEF Worker, TakeRequest, StoreResult
  <2>5. ASSUME NEW c \in Cleaners, GetResult(c)
        PROVE  DirtyOnce'
    BY <2>3, <2>5 DEF GetResult
  <2>6. CASE UNCHANGED vars
    BY <2>3, <2>6 DEF vars
  <2> QED
    BY <2>1, <2>4, <2>5, <2>6 DEF Next, Caller
<1> QED
  BY <1>1, <1>2, TypeCorrect, PTL DEF Spec

(* No request of a Cleaner that stays is lost, whatever is removed: one    *)
(* that is not started is queued, or behind a run that will queue it.      *)
(* storeResult takes a name out of inProgress only when it has looked into *)
(* dirty for it, and a removal keeps every other name in each slice.       *)
THEOREM RequestsAreKept == Spec => []DirtyPending
<1>1. Init => DirtyPending
  BY DEF Init, DirtyPending, Contains
<1>2. TypeOK /\ DirtyPending /\ [Next]_vars => DirtyPending'
  <2> SUFFICES ASSUME TypeOK, DirtyPending, [Next]_vars,
                      NEW x \in Survivors, Contains(dirty', x)
               PROVE  Contains(jobQueue', x) \/ Contains(inProgress', x)
    BY DEF DirtyPending
  <2>0. /\ dirty \in Seq(Cleaners) /\ inProgress \in Seq(Cleaners) /\ jobQueue \in Seq(Cleaners)
        /\ x \in Cleaners /\ x \notin Deletable
        /\ Contains(dirty, x) => Contains(jobQueue, x) \/ Contains(inProgress, x)
    BY DEF TypeOK, DirtyPending, Survivors
  <2>1. ASSUME NEW c \in Cleaners, Process(c)
        PROVE  Contains(jobQueue', x) \/ Contains(inProgress', x)
    BY <2>0, <2>1, AppendFacts DEF Process
  <2>2. ASSUME NEW c \in Cleaners, GetResult(c)
        PROVE  Contains(jobQueue', x) \/ Contains(inProgress', x)
    BY <2>0, <2>2 DEF GetResult
  <2>3. ASSUME NEW c \in Deletable, RemoveEntries(c)
        PROVE  Contains(jobQueue', x) \/ Contains(inProgress', x)
    <3>1. x # c /\ Contains(dirty, x)
      BY <2>0, <2>3, OverwriteKeyFacts DEF RemoveEntries
    <3> QED
      BY <2>0, <2>3, <3>1, OverwriteKeyFacts DEF RemoveEntries
  <2>4. ASSUME NEW w \in Workers, TakeRequest(w)
        PROVE  Contains(jobQueue', x) \/ Contains(inProgress', x)
    <3> DEFINE key == Head(jobQueue)
    <3>1. /\ key \in Cleaners
          /\ \A y : Contains(jobQueue, y) => y = key \/ Contains(Tail(jobQueue), y)
      BY <2>0, <2>4, HeadTailFacts DEF TakeRequest
    <3>2. /\ dirty' = RemoveKey(dirty, key)
          /\ inProgress' = Append(inProgress, key)
          /\ jobQueue' = Tail(jobQueue)
      BY <2>4 DEF TakeRequest
    <3> HIDE DEF key
    <3>3. Contains(dirty, x)
      BY <2>0, <3>2, RemoveKeyFacts
    <3>4. \A y : Contains(inProgress', y) <=> Contains(inProgress, y) \/ y = key
      BY <2>0, <3>1, <3>2, AppendFacts
    <3> QED
      BY <2>0, <3>1, <3>2, <3>3, <3>4
  <2>5. ASSUME NEW w \in Workers, NEW err \in Outcomes \ {"none"}, StoreResult(w, err)
        PROVE  Contains(jobQueue', x) \/ Contains(inProgress', x)
    <3> DEFINE key == running[w]
    <3>1. /\ key \in Cleaners
          /\ dirty' = RemoveKey(dirty, key)
          /\ inProgress' = RemoveKey(inProgress, key)
          /\ jobQueue' = IF Contains(dirty, key) THEN Append(jobQueue, key) ELSE jobQueue
      BY <2>5 DEF StoreResult, TypeOK
    <3> HIDE DEF key
    <3>2. Contains(dirty, x)
      BY <2>0, <3>1, RemoveKeyFacts
    <3>3. Contains(jobQueue, x) => Contains(jobQueue', x)
      BY <2>0, <3>1, AppendFacts
    <3>4. CASE x = key
      <4>1. jobQueue' = Append(jobQueue, key)
        BY <3>1, <3>2, <3>4
      <4> QED
        BY <2>0, <3>1, <3>4, <4>1, AppendFacts
    <3>5. CASE x # key
      BY <2>0, <3>1, <3>2, <3>3, <3>5, RemoveKeyFacts
    <3> QED
      BY <3>4, <3>5
  <2>6. CASE UNCHANGED vars
    BY <2>0, <2>6 DEF vars
  <2> QED
    BY <2>1, <2>2, <2>3, <2>4, <2>5, <2>6 DEF Next, Caller, Worker
<1>3. QED
  BY <1>1, <1>2, TypeCorrect, PTL DEF Spec

-----------------------------------------------------------------------------
(* The refinement of RunQueue. *)

(* What is owed, in terms of the slices, before and after a step. *)
LEMMA OwedFacts ==
    ASSUME TypeOK, TypeOK'
    PROVE  \A x :
             /\ x \in Owed <=>
                  x \in Survivors /\ (Contains(dirty, x) \/ Contains(jobQueue, x))
             /\ x \in Owed' <=>
                  x \in Survivors /\ (Contains(dirty', x) \/ Contains(jobQueue', x))
<1>1. ASSUME NEW s \in Seq(Cleaners), NEW x
      PROVE  x \in ToSet(s) <=> Contains(s, x)
  BY DEF ToSet, Contains
<1> QED
  BY <1>1 DEF TypeOK, Owed, Survivors

(* Whatever is removed, every step of the slices is a step of RunQueue for *)
(* the Cleaners that stay, or none: only a request makes a run owed, only  *)
(* the start of that very Cleaner ends the debt, no Cleaner is started     *)
(* that is not owed a run, and the outcome of a run is dropped only if     *)
(* another one is owed.                                                    *)
THEOREM ImplementsSafely == Spec => ImplementsSafety
<1> DEFINE outcome == [c \in Survivors |-> results[c]]
           serves == [w \in Workers |-> IF running[w] \in Survivors THEN running[w] ELSE None]
<1>1. Init => RQ!Init
  <2> SUFFICES ASSUME Init
               PROVE  RQ!Init
    OBVIOUS
  <2>1. Owed = {}
    BY DEF Init, Owed, ToSet
  <2>2. outcome = [c \in Survivors |-> "none"]
    BY DEF Init, Survivors
  <2>3. serves = [w \in Workers |-> None]
    BY NoneAssumption DEF Init, Survivors
  <2> QED
    BY <2>1, <2>2, <2>3 DEF RQ!Init
<1>2. TypeOK /\ [Next]_vars => [RQ!Next]_(RQ!vars)
  <2> SUFFICES ASSUME TypeOK, [Next]_vars
               PROVE  [RQ!Next]_(RQ!vars)
    OBVIOUS
  <2>0. TypeOK'
    BY TypeStep
  <2> DEFINE Held(x) == Contains(dirty, x) \/ Contains(jobQueue, x)
  <2>1. \A x : /\ x \in Owed <=> x \in Survivors /\ Held(x)
               /\ x \in Owed' <=> x \in Survivors /\ Held(x)'
    BY <2>0, OwedFacts
  <2>2. /\ dirty \in Seq(Cleaners) /\ inProgress \in Seq(Cleaners) /\ jobQueue \in Seq(Cleaners)
        /\ results \in [Cleaners -> Outcomes]
        /\ running \in [Workers -> Cleaners \union {None}]
        /\ Survivors \subseteq Cleaners /\ None \notin Survivors
    BY NoneAssumption DEF TypeOK, Survivors
  <2>3. ASSUME UNCHANGED <<Owed, outcome, serves>>
        PROVE  UNCHANGED RQ!vars
    BY <2>3, Zenon DEF RQ!vars
  <2> HIDE DEF Held
  <2>4. ASSUME NEW c \in Cleaners, Process(c)
        PROVE  (c \in Survivors /\ RQ!Request(c)) \/ UNCHANGED RQ!vars
    <3>1. \A x : Held(x)' <=> Held(x) \/ x = c
      BY <2>2, <2>4, AppendFacts DEF Process, Held
    <3>2. results' = [results EXCEPT ![c] = "none"] /\ serves' = serves
      BY <2>4 DEF Process
    <3>3. CASE c \in Survivors
      <4>1. Owed' = Owed \union {c}
        BY <2>1, <3>1, <3>3
      <4>2. outcome' = [outcome EXCEPT ![c] = "none"]
        BY <2>2, <3>2
      <4> QED
        BY <3>2, <3>3, <4>1, <4>2, Zenon DEF RQ!Request
    <3>4. CASE c \notin Survivors
      <4>1. Owed' = Owed
        BY <2>1, <3>1, <3>4
      <4>2. outcome' = outcome
        BY <2>2, <3>2, <3>4
      <4> QED
        BY <2>3, <3>2, <4>1, <4>2
    <3> QED
      BY <3>3, <3>4
  <2>5. ASSUME NEW c \in Cleaners, GetResult(c)
        PROVE  (c \in Survivors /\ RQ!Collect(c)) \/ UNCHANGED RQ!vars
    <3>1. results[c] # "none"
      BY <2>5 DEF GetResult, RequestStatus
    <3>2. /\ results' = [results EXCEPT ![c] = "none"]
          /\ serves' = serves
          /\ Owed' = Owed
      BY <2>5 DEF GetResult, Owed
    <3>3. CASE c \in Survivors
      <4>1. outcome[c] # "none" /\ outcome' = [outcome EXCEPT ![c] = "none"]
        BY <2>2, <3>1, <3>2, <3>3
      <4> QED
        BY <3>2, <3>3, <4>1, Zenon DEF RQ!Collect
    <3>4. CASE c \notin Survivors
      <4>1. outcome' = outcome
        BY <2>2, <3>2, <3>4
      <4> QED
        BY <2>3, <3>2, <4>1
    <3> QED
      BY <3>3, <3>4
  <2>6. ASSUME NEW c \in Deletable, RemoveEntries(c)
        PROVE  UNCHANGED RQ!vars
    <3>1. /\ dirty' = OverwriteKey(dirty, c)
          /\ jobQueue' = OverwriteKey(jobQueue, c)
          /\ results' = [results EXCEPT ![c] = "none"]
          /\ running' = running
          /\ c \notin Survivors
      BY <2>6 DEF RemoveEntries, Survivors
    <3>2. \A x \in Survivors : Held(x)' <=> Held(x)
      BY <2>2, <3>1, OverwriteKeyFacts DEF Held
    <3>3. Owed' = Owed
      BY <2>1, <3>2
    <3>4. outcome' = outcome
      BY <2>2, <3>1
    <3>5. serves' = serves
      BY <3>1
    <3> QED
      BY <2>3, <3>3, <3>4, <3>5
  <2>7. ASSUME NEW w \in Workers, TakeRequest(w)
        PROVE  (\E c \in Survivors : RQ!Start(w, c)) \/ UNCHANGED RQ!vars
    <3>1. PICK key \in Cleaners :
            /\ key = Head(jobQueue)
            /\ \A x : Contains(jobQueue, x) <=> x = key \/ Contains(Tail(jobQueue), x)
      BY <2>2, <2>7, HeadTailFacts DEF TakeRequest
    <3>2. /\ running[w] = None
          /\ running' = [running EXCEPT ![w] = key]
          /\ dirty' = RemoveKey(dirty, key)
          /\ jobQueue' = Tail(jobQueue)
          /\ outcome' = outcome
      BY <2>7, <3>1 DEF TakeRequest
    <3>3. /\ Held(key)
          /\ \A x : Held(x)' => Held(x)
          /\ \A x : x # key => (Held(x)' <=> Held(x))
      BY <2>2, <3>1, <3>2, RemoveKeyFacts DEF Held
    <3> HIDE DEF outcome
    <3>4. CASE key \in Survivors
      <4>1. key \in Owed /\ Owed' \in {Owed, Owed \ {key}}
        <5>1. CASE Held(key)'
          <6>1. Owed' = Owed
            BY <2>1, <3>3, <5>1
          <6> QED
            BY <2>1, <3>3, <3>4, <6>1
        <5>2. CASE ~Held(key)'
          <6>1. Owed' = Owed \ {key}
            BY <2>1, <3>3, <5>2
          <6> QED
            BY <2>1, <3>3, <3>4, <6>1
        <5> QED
          BY <5>1, <5>2
      <4>2. serves[w] = None /\ serves' = [serves EXCEPT ![w] = key]
        BY <2>2, <3>2, <3>4
      <4>3. RQ!Start(w, key)
        BY <3>2, <4>1, <4>2, Zenon DEF RQ!Start, outcome
      <4> QED
        BY <3>4, <4>3
    <3>5. CASE key \notin Survivors
      <4>1. Owed' = Owed
        BY <2>1, <3>3, <3>5
      <4>2. serves' = serves
        BY <2>2, <3>2, <3>5
      <4> QED
        BY <2>3, <3>2, <4>1, <4>2
    <3> QED
      BY <3>4, <3>5
  <2>8. ASSUME NEW w \in Workers, NEW err \in Outcomes \ {"none"}, StoreResult(w, err)
        PROVE  RQ!Finish(w) \/ UNCHANGED RQ!vars
    <3> DEFINE key == running[w]
               again == Contains(dirty, key)
               o == IF again THEN "none" ELSE err
    <3>1. /\ key \in Cleaners
          /\ running' = [running EXCEPT ![w] = None]
          /\ dirty' = RemoveKey(dirty, key)
          /\ jobQueue' = IF again THEN Append(jobQueue, key) ELSE jobQueue
          /\ results' = [results EXCEPT ![key] = o]
      BY <2>2, <2>8 DEF StoreResult
    <3>2. /\ o \in {"none", "ok", "error"}
          /\ o = "none" => Held(key)
      BY DEF Outcomes, Held
    <3>3. \A x : Held(x)' <=> Held(x)
      <4>1. CASE again
        <5>1. \A x : Contains(jobQueue', x) <=> Contains(jobQueue, x) \/ x = key
          BY <2>2, <3>1, <4>1, AppendFacts
        <5>2. \A x : /\ Contains(dirty', x) => Contains(dirty, x)
                     /\ x # key /\ Contains(dirty, x) => Contains(dirty', x)
          BY <2>2, <3>1, RemoveKeyFacts
        <5> QED
          BY <4>1, <5>1, <5>2 DEF Held
      <4>2. CASE ~again
        <5>1. dirty' = dirty /\ jobQueue' = jobQueue
          BY <3>1, <4>2 DEF RemoveKey
        <5> QED
          BY <5>1 DEF Held
      <4> QED
        BY <4>1, <4>2
    <3>4. Owed' = Owed
      BY <2>1, <3>3
    <3> HIDE DEF again, o
    <3>5. CASE key \in Survivors
      <4>1. /\ serves[w] = key /\ key # None
            /\ serves' = [serves EXCEPT ![w] = None]
        BY <2>2, <3>1, <3>5
      <4>2. outcome' = [outcome EXCEPT ![key] = o]
        BY <2>2, <3>1, <3>5
      <4>3. o = "none" => key \in Owed
        BY <2>1, <3>2, <3>5
      <4> HIDE DEF key, outcome, serves
      <4>4. \E p \in {"none", "ok", "error"} :
              /\ p = "none" => serves[w] \in Owed
              /\ outcome' = [outcome EXCEPT ![serves[w]] = p]
        BY <3>2, <4>1, <4>2, <4>3
      <4> QED
        BY <3>4, <4>1, <4>4, Zenon DEF RQ!Finish, outcome, serves
    <3>6. CASE key \notin Survivors
      <4>1. serves' = serves
        BY <2>2, <3>1, <3>6
      <4>2. outcome' = outcome
        BY <2>2, <3>1, <3>6
      <4> QED
        BY <2>3, <3>4, <4>1, <4>2
    <3> QED
      BY <3>5, <3>6
  <2>9. CASE UNCHANGED vars
    BY <2>3, <2>9 DEF vars, Owed
  <2> QED
    BY <2>4, <2>5, <2>6, <2>7, <2>8, <2>9, Zenon DEF Next, Caller, Worker, RQ!Next
<1>3. QED
  BY <1>1, <1>2, TypeCorrect, PTL DEF Spec, ImplementsSafety, RQ!Safety

-----------------------------------------------------------------------------
(* How often a slice holds a name. *)

LEMMA OccurrencesFacts ==
    ASSUME NEW S, NEW s \in Seq(S), NEW x
    PROVE  /\ IsFiniteSet({i \in DOMAIN s : s[i] = x})
           /\ Occurrences(s, x) \in Nat
           /\ Occurrences(s, x) = 0 <=> ~Contains(s, x)
<1> DEFINE P == {i \in DOMAIN s : s[i] = x}
<1>1. Len(s) \in Nat /\ DOMAIN s = 1 .. Len(s)
  OBVIOUS
<1>2. P \subseteq 1 .. Len(s)
  BY <1>1
<1>3. P = {} <=> ~Contains(s, x)
  BY <1>1 DEF Contains
<1>4. IsFiniteSet(1 .. Len(s))
  BY <1>1, FS_Interval
<1> HIDE DEF P
<1>5. IsFiniteSet(P)
  BY <1>2, <1>4, FS_Subset
<1>6. Cardinality(P) \in Nat /\ (Cardinality(P) = 0 <=> P = {})
  BY <1>5, FS_CardinalityType, FS_EmptySet
<1> QED
  BY <1>3, <1>5, <1>6, Zenon DEF Occurrences, P

LEMMA OccurrencesAppend ==
    ASSUME NEW S, NEW s \in Seq(S), NEW e \in S, NEW x
    PROVE  Occurrences(Append(s, e), x) = Occurrences(s, x) + (IF x = e THEN 1 ELSE 0)
<1> DEFINE n == Len(s)
           t == Append(s, e)
           P == {i \in DOMAIN s : s[i] = x}
           Q == {i \in DOMAIN t : t[i] = x}
<1>1. /\ n \in Nat /\ DOMAIN s = 1 .. n /\ DOMAIN t = 1 .. n + 1
      /\ \A i \in 1 .. n : t[i] = s[i]
      /\ t[n + 1] = e
  OBVIOUS
<1>2. IsFiniteSet(P) /\ Cardinality(P) \in Nat
  BY OccurrencesFacts, FS_CardinalityType
<1>3. n + 1 \notin P
  BY <1>1
<1>4. Q = IF x = e THEN P \union {n + 1} ELSE P
  <2>1. CASE x = e
    BY <1>1, <2>1
  <2>2. CASE x # e
    BY <1>1, <2>2
  <2> QED
    BY <2>1, <2>2
<1> HIDE DEF P, Q
<1>5. Cardinality(P \union {n + 1}) = Cardinality(P) + 1
  BY <1>2, <1>3, FS_AddElement
<1>6. Cardinality(Q) = Cardinality(P) + (IF x = e THEN 1 ELSE 0)
  BY <1>2, <1>4, <1>5
<1> QED
  BY <1>6 DEF Occurrences, P, Q

(* s = removeFromSlice(s, i) takes away one occurrence of the element at i *)
(* and none of any other.                                                  *)
LEMMA OccurrencesRemove ==
    ASSUME NEW S, NEW s \in Seq(S), NEW k, Contains(s, k), NEW x
    PROVE  Occurrences(RemoveKey(s, k), x) = Occurrences(s, x) - (IF x = k THEN 1 ELSE 0)
<1> DEFINE n == Len(s)
           a == IndexOf(s, k)
           r == RemoveKey(s, k)
           P == {i \in DOMAIN s : s[i] = x}
           Q == {i \in DOMAIN r : r[i] = x}
<1>1. a \in 1 .. n /\ s[a] = k
  BY IndexOfInDomain
<1>2. r = RemoveFromSlice(s, a)
  BY DEF RemoveKey
<1>3. /\ r \in Seq(S) /\ Len(r) = n - 1
      /\ \A j \in 1 .. n - 1 : r[j] = IF j = a THEN s[n] ELSE s[j]
  BY <1>1, <1>2, RemoveFromSliceFacts
<1> HIDE DEF a, r
<1>4. n \in Nat /\ n >= 1 /\ DOMAIN s = 1 .. n /\ DOMAIN r = 1 .. n - 1
  BY <1>1, <1>3
<1>5. IsFiniteSet(P) /\ Cardinality(P) \in Nat
  BY OccurrencesFacts, FS_CardinalityType
<1>6. a \in P <=> x = k
  BY <1>1, <1>4
<1>7. CASE s[n] = x
  <2>1. n \in P
    BY <1>4, <1>7
  <2>2. Q = IF a = n THEN P \ {n} ELSE (P \ {n}) \union {a}
    <3>1. CASE a = n
      BY <1>3, <1>4, <1>7, <3>1
    <3>2. CASE a # n
      BY <1>1, <1>3, <1>4, <1>7, <3>2
    <3> QED
      BY <3>1, <3>2
  <2> HIDE DEF P, Q
  <2>3. IsFiniteSet(P \ {n}) /\ Cardinality(P \ {n}) = Cardinality(P) - 1
    BY <1>5, <2>1, FS_RemoveElement
  <2>4. CASE x = k
    <3>1. Q = P \ {n}
      BY <1>6, <2>2, <2>4
    <3> QED
      <4>1. Occurrences(r, x) = Occurrences(s, x) - 1
        BY <2>3, <3>1 DEF Occurrences, P, Q
      <4> QED
        BY <2>4, <4>1 DEF r
  <2>5. CASE x # k
    <3>1. a # n /\ a \notin P \ {n}
      BY <1>1, <1>6, <1>7, <2>5
    <3>2. Cardinality((P \ {n}) \union {a}) = (Cardinality(P) - 1) + 1
      BY <2>3, <3>1, FS_AddElement
    <3>3. Cardinality(Q) = Cardinality(P)
      BY <1>5, <2>2, <3>1, <3>2
    <3>4. Occurrences(r, x) = Occurrences(s, x) /\ Occurrences(s, x) \in Nat
      BY <1>5, <3>3 DEF Occurrences, P, Q
    <3> QED
      BY <2>5, <3>4 DEF r
  <2> QED
    BY <2>4, <2>5
<1>8. CASE s[n] # x
  <2>1. Q = P \ {a}
    <3>1. ASSUME NEW i \in Q
          PROVE  i \in P \ {a}
      BY <1>1, <1>3, <1>4, <1>8, <3>1
    <3>2. ASSUME NEW i \in P \ {a}
          PROVE  i \in Q
      <4>1. i \in 1 .. n - 1
        BY <1>4, <1>8, <3>2
      <4> QED
        BY <1>3, <1>4, <3>2, <4>1
    <3> QED
      BY <3>1, <3>2
  <2> HIDE DEF P, Q
  <2>2. Cardinality(P \ {a}) = IF a \in P THEN Cardinality(P) - 1 ELSE Cardinality(P)
    BY <1>5, FS_RemoveElement
  <2>3. Cardinality(Q) = Cardinality(P) - (IF x = k THEN 1 ELSE 0)
    BY <1>5, <1>6, <2>1, <2>2
  <2> QED
    BY <2>3 DEF Occurrences, P, Q, r
<1> QED
  BY <1>7, <1>8

(* A removal whose result is discarded takes away an occurrence of the     *)
(* name it is about, if any, and none of any other.                        *)
LEMMA OccurrencesOverwrite ==
    ASSUME NEW S, NEW s \in Seq(S), NEW k, NEW x, x # k
    PROVE  Occurrences(OverwriteKey(s, k), x) >= Occurrences(s, x)
<1> DEFINE n == Len(s)
           o == OverwriteKey(s, k)
           P == {i \in DOMAIN s : s[i] = x}
           Q == {i \in DOMAIN o : o[i] = x}
<1>1. CASE ~Contains(s, k)
  <2>1. OverwriteKey(s, k) = s /\ Occurrences(s, x) \in Nat
    BY <1>1, OccurrencesFacts DEF OverwriteKey
  <2> QED
    BY <2>1
<1>2. CASE Contains(s, k)
  <2> DEFINE a == IndexOf(s, k)
  <2>1. a \in DOMAIN s /\ s[a] = k
    BY <1>2, IndexOfInDomain
  <2>2. o = Overwrite(s, a)
    BY <1>2 DEF OverwriteKey
  <2> HIDE DEF a, o
  <2>3. /\ o \in Seq(S)
        /\ Len(o) = n
        /\ \A j \in 1 .. n : o[j] = IF j = a THEN s[n] ELSE s[j]
    BY <2>1, <2>2, OverwriteFacts
  <2>4. P \subseteq Q
    BY <2>1, <2>3
  <2>5. IsFiniteSet(P) /\ IsFiniteSet(Q)
    BY <2>3, OccurrencesFacts
  <2> HIDE DEF P, Q
  <2>6. Cardinality(P) <= Cardinality(Q)
    BY <2>4, <2>5, FS_Subset
  <2>7. Cardinality(P) \in Nat /\ Cardinality(Q) \in Nat
    BY <2>5, FS_CardinalityType
  <2> QED
    BY <2>6, <2>7 DEF Occurrences, P, Q, o
<1> QED
  BY <1>1, <1>2

(* The workers that serve a name are finitely many. *)
LEMMA ServingFacts ==
    ASSUME NEW c
    PROVE  /\ IsFiniteSet(Serving(c))
           /\ Cardinality(Serving(c)) \in Nat
           /\ Cardinality(Serving(c)) = 0 <=> Serving(c) = {}
<1>1. IsFiniteSet(Serving(c))
  BY WorkersAssumption, FS_Subset DEF Serving
<1> QED
  BY <1>1, FS_CardinalityType, FS_EmptySet

(* What the two steps of a worker do to the workers that serve a name. *)
LEMMA ServingTaken ==
    ASSUME TypeOK, NEW w \in Workers, TakeRequest(w), NEW x \in Cleaners
    PROVE  Cardinality(Serving(x)')
             = Cardinality(Serving(x)) + (IF x = Head(jobQueue) THEN 1 ELSE 0)
<1> DEFINE key == Head(jobQueue)
<1>1. /\ key \in Cleaners /\ key # None /\ x # None
      /\ running[w] = None /\ running' = [running EXCEPT ![w] = key]
  BY HeadTailFacts, NoneAssumption DEF TakeRequest, TypeOK
<1> HIDE DEF key
<1>2. w \notin Serving(x)
  BY <1>1 DEF Serving
<1>3. CASE x = key
  <2>1. Serving(x)' = Serving(x) \union {w}
    BY <1>1, <1>3 DEF TypeOK, Serving
  <2>2. Cardinality(Serving(x) \union {w}) = Cardinality(Serving(x)) + 1
    BY <1>2, ServingFacts, FS_AddElement
  <2> QED
    BY <1>3, <2>1, <2>2 DEF key
<1>4. CASE x # key
  <2>1. Serving(x)' = Serving(x)
    BY <1>1, <1>4 DEF TypeOK, Serving
  <2> QED
    BY <1>4, <2>1, ServingFacts DEF key
<1> QED
  BY <1>3, <1>4

LEMMA ServingLeft ==
    ASSUME TypeOK, NEW w \in Workers, NEW err, StoreResult(w, err), NEW x \in Cleaners
    PROVE  /\ x = running[w] => Cardinality(Serving(x)) # 0
           /\ Cardinality(Serving(x)')
                = Cardinality(Serving(x)) - (IF x = running[w] THEN 1 ELSE 0)
<1>1. x # None /\ running' = [running EXCEPT ![w] = None]
  BY NoneAssumption DEF StoreResult
<1>2. Serving(x)' = Serving(x) \ {w}
  BY <1>1 DEF TypeOK, Serving
<1>3. w \in Serving(x) <=> x = running[w]
  BY DEF Serving
<1>4. Cardinality(Serving(x) \ {w})
        = IF w \in Serving(x) THEN Cardinality(Serving(x)) - 1 ELSE Cardinality(Serving(x))
  BY ServingFacts, FS_RemoveElement
<1>5. Cardinality(Serving(x)) = 0 => Serving(x) = {}
  BY ServingFacts
<1>6. Cardinality(Serving(x)) \in Nat
  BY ServingFacts
<1> QED
  BY <1>2, <1>3, <1>4, <1>5, <1>6

(* At the beginning no worker serves a name. *)
LEMMA ServingInit ==
    ASSUME Init, NEW c \in Cleaners
    PROVE  Occurrences(inProgress, c) = 0 /\ Cardinality(Serving(c)) = 0
<1>1. Serving(c) = {}
  BY NoneAssumption DEF Init, Serving
<1>2. Cardinality(Serving(c)) = 0
  BY <1>1, ServingFacts
<1>3. inProgress \in Seq(Cleaners) /\ ~Contains(inProgress, c)
  BY DEF Init, Contains
<1> QED
  BY <1>2, <1>3, OccurrencesFacts

(* However inProgress is scrambled, it holds a Cleaner that stays at least *)
(* as often as workers run it: the end of a run of it takes one occurrence *)
(* away, and the end of any other run and a removal take none.             *)
THEOREM TracksRuns == Spec => []RunsAreTracked
<1>1. Init => RunsAreTracked
  BY ServingInit DEF RunsAreTracked, Survivors
<1>2. TypeOK /\ RunsAreTracked /\ [Next]_vars => RunsAreTracked'
  <2> SUFFICES ASSUME TypeOK, RunsAreTracked, [Next]_vars, NEW x \in Survivors
               PROVE  Occurrences(inProgress', x) >= Cardinality(Serving(x)')
    BY DEF RunsAreTracked
  <2>0. /\ inProgress \in Seq(Cleaners)
        /\ x \in Cleaners /\ x \notin Deletable
        /\ Occurrences(inProgress, x) >= Cardinality(Serving(x))
        /\ Occurrences(inProgress, x) \in Nat
        /\ Cardinality(Serving(x)) \in Nat
    <3>1. inProgress \in Seq(Cleaners)
      BY DEF TypeOK
    <3> QED
      BY <3>1, OccurrencesFacts, ServingFacts DEF RunsAreTracked, Survivors
  <2>1. CASE UNCHANGED <<inProgress, running>>
    <3>1. Serving(x)' = Serving(x)
      BY <2>1 DEF Serving
    <3> QED
      BY <2>0, <2>1, <3>1
  <2>2. ASSUME NEW c \in Cleaners, Process(c) \/ GetResult(c)
        PROVE  UNCHANGED <<inProgress, running>>
    BY <2>2 DEF Process, GetResult
  <2>3. ASSUME NEW c \in Deletable, RemoveEntries(c)
        PROVE  Occurrences(inProgress', x) >= Cardinality(Serving(x)')
    <3>1. inProgress' = OverwriteKey(inProgress, c) /\ x # c
      BY <2>0, <2>3 DEF RemoveEntries
    <3>2. Occurrences(OverwriteKey(inProgress, c), x) >= Occurrences(inProgress, x)
      BY <2>0, <3>1, OccurrencesOverwrite
    <3>3. OverwriteKey(inProgress, c) \in Seq(Cleaners)
      BY <2>0, OverwriteKeyFacts
    <3>4. Occurrences(OverwriteKey(inProgress, c), x) \in Nat
      BY <3>3, OccurrencesFacts
    <3>5. Serving(x)' = Serving(x)
      BY <2>3 DEF RemoveEntries, Serving
    <3> QED
      BY <2>0, <3>1, <3>2, <3>4, <3>5
  <2>4. ASSUME NEW w \in Workers, TakeRequest(w)
        PROVE  Occurrences(inProgress', x) >= Cardinality(Serving(x)')
    <3>1. /\ Head(jobQueue) \in Cleaners
          /\ inProgress' = Append(inProgress, Head(jobQueue))
      BY <2>4, HeadTailFacts DEF TakeRequest, TypeOK
    <3>2. Occurrences(inProgress', x)
            = Occurrences(inProgress, x) + (IF x = Head(jobQueue) THEN 1 ELSE 0)
      BY <2>0, <3>1, OccurrencesAppend
    <3>3. Cardinality(Serving(x)')
            = Cardinality(Serving(x)) + (IF x = Head(jobQueue) THEN 1 ELSE 0)
      BY <2>0, <2>4, ServingTaken
    <3> QED
      BY <2>0, <3>2, <3>3
  <2>5. ASSUME NEW w \in Workers, NEW err \in Outcomes \ {"none"}, StoreResult(w, err)
        PROVE  Occurrences(inProgress', x) >= Cardinality(Serving(x)')
    <3> DEFINE key == running[w]
    <3>1. inProgress' = RemoveKey(inProgress, key)
      BY <2>5 DEF StoreResult
    <3>2. /\ x = key => Cardinality(Serving(x)) # 0
          /\ Cardinality(Serving(x)') = Cardinality(Serving(x)) - (IF x = key THEN 1 ELSE 0)
      BY <2>0, <2>5, ServingLeft
    <3> HIDE DEF key
    <3>3. CASE Contains(inProgress, key)
      <4>1. Occurrences(inProgress', x)
              = Occurrences(inProgress, x) - (IF x = key THEN 1 ELSE 0)
        BY <2>0, <3>1, <3>3, OccurrencesRemove
      <4> QED
        BY <2>0, <3>2, <4>1
    <3>4. CASE ~Contains(inProgress, key)
      <4>1. x # key
        <5>1. ASSUME x = key
              PROVE  FALSE
          <6>1. Occurrences(inProgress, x) = 0
            BY <2>0, <3>4, <5>1, OccurrencesFacts
          <6> QED
            BY <2>0, <3>2, <5>1, <6>1
        <5> QED
          BY <5>1
      <4>2. inProgress' = inProgress
        BY <3>1, <3>4 DEF RemoveKey
      <4> QED
        BY <2>0, <3>2, <4>1, <4>2
    <3> QED
      BY <3>3, <3>4
  <2>6. CASE UNCHANGED vars
    BY <2>1, <2>6 DEF vars
  <2> QED
    BY <2>1, <2>2, <2>3, <2>4, <2>5, <2>6 DEF Next, Caller, Worker
<1>3. QED
  BY <1>1, <1>2, TypeCorrect, PTL DEF Spec

(* As long as no Cleaner is removed, inProgress is the multiset of the     *)
(* names the workers are serving: nothing is left in it either.            *)
THEOREM InProgressIsServed ==
    ASSUME Deletable = {}
    PROVE  Spec => []InProgressIsRunning
<1>1. Init => InProgressIsRunning
  BY ServingInit DEF InProgressIsRunning
<1>2. TypeOK /\ InProgressIsRunning /\ [Next]_vars => InProgressIsRunning'
  <2> SUFFICES ASSUME TypeOK, InProgressIsRunning, [Next]_vars, NEW x \in Cleaners
               PROVE  Occurrences(inProgress', x) = Cardinality(Serving(x)')
    BY DEF InProgressIsRunning
  <2>0. Occurrences(inProgress, x) = Cardinality(Serving(x)) /\ inProgress \in Seq(Cleaners)
    BY DEF InProgressIsRunning, TypeOK
  <2>1. CASE UNCHANGED <<inProgress, running>>
    <3>1. Serving(x)' = Serving(x)
      BY <2>1 DEF Serving
    <3> QED
      BY <2>0, <2>1, <3>1
  <2>2. ASSUME NEW w \in Workers, TakeRequest(w)
        PROVE  Occurrences(inProgress', x) = Cardinality(Serving(x)')
    <3>1. /\ Head(jobQueue) \in Cleaners
          /\ inProgress' = Append(inProgress, Head(jobQueue))
      BY <2>2, HeadTailFacts DEF TakeRequest, TypeOK
    <3>2. Occurrences(inProgress', x)
            = Occurrences(inProgress, x) + (IF x = Head(jobQueue) THEN 1 ELSE 0)
      BY <2>0, <3>1, OccurrencesAppend
    <3> QED
      BY <2>0, <2>2, <3>2, ServingTaken
  <2>3. ASSUME NEW w \in Workers, NEW err \in Outcomes \ {"none"}, StoreResult(w, err)
        PROVE  Occurrences(inProgress', x) = Cardinality(Serving(x)')
    <3> DEFINE key == running[w]
    <3>1. key \in Cleaners /\ inProgress' = RemoveKey(inProgress, key)
      BY <2>3 DEF StoreResult, TypeOK
    <3>2. Contains(inProgress, key)
      <4>1. Occurrences(inProgress, key) # 0
        BY <2>3, <3>1, ServingLeft DEF InProgressIsRunning
      <4> QED
        BY <2>0, <4>1, OccurrencesFacts
    <3>3. Occurrences(inProgress', x) = Occurrences(inProgress, x) - (IF x = key THEN 1 ELSE 0)
      BY <2>0, <3>1, <3>2, OccurrencesRemove
    <3> QED
      BY <2>0, <2>3, <3>3, ServingLeft
  <2>4. ASSUME NEW c \in Cleaners, Process(c) \/ GetResult(c)
        PROVE  UNCHANGED <<inProgress, running>>
    BY <2>4 DEF Process, GetResult
  <2>5. CASE UNCHANGED vars
    BY <2>1, <2>5 DEF vars
  <2> QED
    BY <2>1, <2>2, <2>3, <2>4, <2>5 DEF Next, Caller, Worker
<1>3. QED
  BY <1>1, <1>2, TypeCorrect, PTL DEF Spec

(* For a Cleaner that stays, GetResult answers Unavailable only when       *)
(* nothing is owed to the caller, whatever is removed meanwhile: a request *)
(* that waits is in jobQueue or inProgress, and so is one that runs, and   *)
(* getRequestStatus looks at both.                                         *)
THEOREM UnavailableMeansIdle == Spec => []UnavailableIsIdle
<1>1. TypeOK /\ DirtyPending /\ RunsAreTracked => UnavailableIsIdle
  <2> SUFFICES ASSUME TypeOK, DirtyPending, RunsAreTracked, NEW c \in Survivors,
                      RequestStatus(c) = "Unavailable"
               PROVE  ~Contains(dirty, c) /\ Serving(c) = {}
    BY DEF UnavailableIsIdle
  <2>1. ~Contains(inProgress, c) /\ ~Contains(jobQueue, c)
    BY DEF RequestStatus, TypeOK, Outcomes, Survivors
  <2>2. Occurrences(inProgress, c) = 0 /\ Occurrences(inProgress, c) >= Cardinality(Serving(c))
    BY <2>1, OccurrencesFacts DEF RunsAreTracked, TypeOK
  <2>3. Serving(c) = {}
    BY <2>2, ServingFacts
  <2> QED
    BY <2>1, <2>3 DEF DirtyPending
<1>2. QED
  BY <1>1, TypeCorrect, RequestsAreKept, TracksRuns, PTL
=============================================================================
