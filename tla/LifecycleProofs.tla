--------------------------- MODULE LifecycleProofs ---------------------------
(***************************************************************************)
(* Theorems about Lifecycle, for any number of names and workers, and any  *)
(* number of faults and of Cleaners created under a name.                  *)
(***************************************************************************)
EXTENDS Lifecycle, TLAPS

-----------------------------------------------------------------------------
(* The executor of Lifecycle is the one ExecutorProofs is about.           *)
P == INSTANCE ExecutorProofs WITH Cleaners <- Names, Deletable <- Names

(* The two instances of Executor have the same slices... *)
LEMMA SameSlices ==
    /\ \A s, k : E!Contains(s, k) <=> P!Contains(s, k)
    /\ \A s, k : E!OverwriteKey(s, k) = P!OverwriteKey(s, k)
    /\ \A s, k : E!RemoveKey(s, k) = P!RemoveKey(s, k)
<1>1. \A s, k : E!Contains(s, k) <=> P!Contains(s, k)
  BY DEF E!Contains, P!Contains
<1>2. \A s, k : E!OverwriteKey(s, k) = P!OverwriteKey(s, k)
  BY DEF E!OverwriteKey, P!OverwriteKey, E!Overwrite, P!Overwrite, E!IndexOf, P!IndexOf,
         E!Contains, P!Contains, E!Last, P!Last, E!SelectInSeq, P!SelectInSeq, E!Min, P!Min
<1>3. \A s, k : E!RemoveKey(s, k) = P!RemoveKey(s, k)
  BY DEF E!RemoveKey, P!RemoveKey, E!Overwrite, P!Overwrite, E!IndexOf, P!IndexOf,
         E!Contains, P!Contains, E!Last, P!Last, E!SelectInSeq, P!SelectInSeq, E!Min, P!Min,
         E!RemoveFromSlice, P!RemoveFromSlice, E!Front, P!Front
<1> QED
  BY <1>1, <1>2, <1>3

(* ...and the same steps. *)
LEMMA SameExecutor == [E!Next]_(E!vars) <=> [P!Next]_(P!vars)
<1>1. \A s, k : E!Contains(s, k) <=> P!Contains(s, k)
  BY SameSlices
<1>2. \A s, k : E!OverwriteKey(s, k) = P!OverwriteKey(s, k)
  BY SameSlices
<1>3. \A s, k : E!RemoveKey(s, k) = P!RemoveKey(s, k)
  BY SameSlices
<1>4. \A c : E!RequestStatus(c) = P!RequestStatus(c)
  BY DEF E!RequestStatus, P!RequestStatus, E!Contains, P!Contains
<1>5. ASSUME NEW c
      PROVE  /\ E!Process(c) <=> P!Process(c)
             /\ E!GetResult(c) <=> P!GetResult(c)
             /\ E!RemoveEntries(c) <=> P!RemoveEntries(c)
  <2>1. E!Process(c) <=> P!Process(c)
    BY <1>1 DEF E!Process, P!Process
  <2>2. E!GetResult(c) <=> P!GetResult(c)
    BY <1>4 DEF E!GetResult, P!GetResult
  <2>3. E!RemoveEntries(c) <=> P!RemoveEntries(c)
    BY <1>2 DEF E!RemoveEntries, P!RemoveEntries
  <2> QED
    BY <2>1, <2>2, <2>3
<1>6. ASSUME NEW w
      PROVE  /\ E!TakeRequest(w) <=> P!TakeRequest(w)
             /\ \A err : E!StoreResult(w, err) <=> P!StoreResult(w, err)
  <2>1. E!TakeRequest(w) <=> P!TakeRequest(w)
    BY <1>3 DEF E!TakeRequest, P!TakeRequest
  <2>2. ASSUME NEW err
        PROVE  E!StoreResult(w, err) <=> P!StoreResult(w, err)
    BY <1>1, <1>3 DEF E!StoreResult, P!StoreResult
  <2> QED
    BY <2>1, <2>2
<1>7. E!Caller <=> P!Caller
  BY <1>5, Zenon DEF E!Caller, P!Caller
<1>8. \A w : E!Worker(w) <=> P!Worker(w)
  BY <1>6, Zenon DEF E!Worker, P!Worker, E!Outcomes, P!Outcomes
<1>9. E!Next <=> P!Next
  BY <1>7, <1>8, Zenon DEF E!Next, P!Next
<1>10. UNCHANGED E!vars <=> UNCHANGED P!vars
  BY DEF E!vars, P!vars
<1> QED
  BY <1>9, <1>10, Zenon

(* What is invariant of the executor, the restarts included. *)
ExecutorOK == E!TypeOK /\ E!NoStaleResult

(* Its steps keep it... *)
LEMMA ExecutorStepOK ==
    ASSUME ExecutorOK, [E!Next]_(E!vars)
    PROVE  ExecutorOK'
<1> DEFINE Same == ExecutorOK <=> P!TypeOK /\ P!NoStaleResult
<1>1. Same
  BY DEF ExecutorOK, E!TypeOK, P!TypeOK, E!NoStaleResult, P!NoStaleResult, E!Outcomes, P!Outcomes,
         E!Contains, P!Contains
<1>2. Same'
  BY DEF ExecutorOK, E!TypeOK, P!TypeOK, E!NoStaleResult, P!NoStaleResult, E!Outcomes, P!Outcomes,
         E!Contains, P!Contains
<1>3. P!TypeOK /\ P!NoStaleResult /\ [P!Next]_(P!vars)
  BY <1>1, SameExecutor, Zenon
<1>4. P!IsFiniteSet(Workers)
  BY WorkersAssumption DEF P!IsFiniteSet, IsFiniteSet
<1>5. P!TypeOK'
  BY <1>3, <1>4, P!TypeStep, NoneAssumption, MaxLenAssumption
<1>6. P!NoStaleResult'
  BY <1>3, <1>4, P!FreshStep, NoneAssumption, MaxLenAssumption
<1> QED
  BY <1>2, <1>5, <1>6, Zenon

(* ...and so does a start with nothing in memory. *)
LEMMA ExecutorStartOK == E!Init => ExecutorOK
BY DEF E!Init, ExecutorOK, E!TypeOK, E!NoStaleResult, E!Outcomes

(* Whatever else happens in a step of Lifecycle, the executor makes one of *)
(* its own steps or none, or is started again.                             *)
LEMMA ExecutorMoves ==
    ASSUME [Next]_vars
    PROVE  [E!Next]_(E!vars) \/ E!Init'
<1>1. ASSUME UNCHANGED executor
      PROVE  [E!Next]_(E!vars)
  BY <1>1 DEF executor, E!vars
<1>2. ASSUME NEW n \in Names, AskExecutor(n)
      PROVE  [E!Next]_(E!vars)
  BY <1>1, <1>2 DEF AskExecutor, E!Next, E!Caller
<1>3. ASSUME NEW n \in Names, Reconcile(n)
      PROVE  [E!Next]_(E!vars)
  <2>1. CASE ReconcileGone(n) \/ ReconcileFails(n) \/ AddFinalizerFails(n)
    BY <1>1, <2>1 DEF ReconcileGone, ReconcileFails, AddFinalizerFails
  <2>2. CASE ReconcileNormal(n)
    BY <1>2, <2>2 DEF ReconcileNormal
  <2>3. CASE ScheduleFails(n)
    BY <1>1, <2>3 DEF ScheduleFails, E!Next, E!Caller
  <2>4. CASE ReconcileDelete(n)
    BY <2>4 DEF ReconcileDelete, E!Next, E!Caller
  <2> QED
    BY <1>3, <2>1, <2>2, <2>3, <2>4 DEF Reconcile
<1>4. ASSUME NEW w \in Workers,
             TakeRequest(w) \/ ReadCleaner(w) \/ WriteReport(w) \/ StoreResult(w)
      PROVE  [E!Next]_(E!vars)
  BY <1>1, <1>4
  DEF TakeRequest, ReadCleaner, WriteReport, StoreResult, E!Next, E!Worker
<1>5. ASSUME NEW n \in Names, Create(n) \/ Delete(n) \/ InformerSync(n)
      PROVE  UNCHANGED executor
  BY <1>5 DEF Create, Delete, InformerSync
<1>6. ASSUME ReportSync \/ UNCHANGED vars
      PROVE  UNCHANGED executor
  BY <1>6 DEF ReportSync, vars
<1>7. ASSUME Crash
      PROVE  E!Init'
  BY <1>7 DEF Crash, E!Init
<1> QED
  BY <1>1, <1>3, <1>4, <1>5, <1>6, <1>7 DEF Next

(* The lifecycle implements the executor, started again now and then: what *)
(* ExecutorProofs says of every step of it holds in the whole system.      *)
THEOREM ExecutorRestarts == Spec => E!Init /\ [][E!Next \/ E!Init']_(E!vars)
<1>1. Init => E!Init
  BY DEF Init
<1>2. [Next]_vars => [E!Next \/ E!Init']_(E!vars)
  BY ExecutorMoves
<1> QED
  BY <1>1, <1>2, PTL DEF Spec

LEMMA ExecutorInvariant == Spec => []ExecutorOK
<1>1. Init => ExecutorOK
  BY ExecutorStartOK DEF Init
<1>2. E!Init' => ExecutorOK'
  BY DEF E!Init, ExecutorOK, E!TypeOK, E!NoStaleResult, E!Outcomes
<1>3. ExecutorOK /\ [Next]_vars => ExecutorOK'
  BY <1>2, ExecutorMoves, ExecutorStepOK
<1> QED
  BY <1>1, <1>3, PTL DEF Spec

-----------------------------------------------------------------------------

ObjectsOK ==
    /\ cleaners \in [Names -> Objects \union {Absent}]
    /\ cached \in [Names -> Objects \union {Absent}]
    /\ born \in [Names -> 0 .. MaxUid]

(* A finalizer the cache shows on a Cleaner that is not being deleted is   *)
(* there: only reconcileDelete takes it away, and only from a Cleaner that *)
(* the cache shows as being deleted.  This is also what makes it harmless  *)
(* to patch by name: the Cleaner is still the one of the cache.            *)
CacheIsRight ==
    \A n \in Names :
        (cached[n] # Absent /\ cached[n].finalizer /\ ~cached[n].deleting)
        => (cleaners[n] # Absent /\ cleaners[n].finalizer)

(* While the cache shows a Cleaner being deleted, another one of that name *)
(* is not scheduled: the finalizer that is then removed is not yet needed. *)
NotScheduledYet ==
    \A n \in Names :
        (cached[n] # Absent /\ cached[n].deleting)
        => (cleaners[n] = Absent \/ cleaners[n].deleting \/ ~cleaners[n].scheduled)

ProtectionInv == ObjectsOK /\ FinalizerProtects /\ CacheIsRight /\ NotScheduledYet

Safe(o) == o # Absent /\ o.scheduled => o.finalizer \/ o.old

Matches(c, o) ==
    /\ (c # Absent /\ c.finalizer /\ ~c.deleting) => (o # Absent /\ o.finalizer)
    /\ (c # Absent /\ c.deleting) => (o = Absent \/ o.deleting \/ ~o.scheduled)

(* What a step that changes one Cleaner has to show for the invariant.     *)
LEMMA OneCleanerChanges ==
    ASSUME ProtectionInv, NEW n \in Names, NEW o \in Objects \union {Absent},
           cleaners' = [cleaners EXCEPT ![n] = o], cached' = cached,
           born' \in [Names -> 0 .. MaxUid],
           Safe(o), Matches(cached[n], o)
    PROVE  ProtectionInv'
BY DEF ProtectionInv, ObjectsOK, FinalizerProtects, CacheIsRight, NotScheduledYet, Existing,
       Safe, Matches

(* The records a patch makes are Cleaners, and these are their fields.     *)
LEMMA PatchedObjects ==
    ASSUME NEW o \in Objects
    PROVE  /\ o # Absent
           /\ \A b \in BOOLEAN :
                /\ [o EXCEPT !.deleting = b] \in Objects
                /\ [o EXCEPT !.deleting = b].deleting = b
                /\ [o EXCEPT !.deleting = b].finalizer = o.finalizer
                /\ [o EXCEPT !.deleting = b].old = o.old
                /\ [o EXCEPT !.deleting = b].scheduled = o.scheduled
           /\ \A b \in BOOLEAN :
                /\ [o EXCEPT !.scheduled = b] \in Objects
                /\ [o EXCEPT !.scheduled = b].deleting = o.deleting
                /\ [o EXCEPT !.scheduled = b].finalizer = o.finalizer
                /\ [o EXCEPT !.scheduled = b].old = o.old
                /\ [o EXCEPT !.scheduled = b].scheduled = b
                /\ [o EXCEPT !.scheduled = b].failure = o.failure
           /\ \A b \in BOOLEAN :
                /\ [o EXCEPT !.failure = b] \in Objects
                /\ [o EXCEPT !.failure = b].deleting = o.deleting
                /\ [o EXCEPT !.failure = b].finalizer = o.finalizer
                /\ [o EXCEPT !.failure = b].old = o.old
                /\ [o EXCEPT !.failure = b].scheduled = o.scheduled
                /\ [o EXCEPT !.failure = b].failure = b
           /\ \A f, d \in BOOLEAN :
                /\ [o EXCEPT !.finalizer = f, !.old = d] \in Objects
                /\ [o EXCEPT !.finalizer = f, !.old = d].deleting = o.deleting
                /\ [o EXCEPT !.finalizer = f, !.old = d].finalizer = f
                /\ [o EXCEPT !.finalizer = f, !.old = d].old = d
                /\ [o EXCEPT !.finalizer = f, !.old = d].scheduled = o.scheduled
BY AbsentAssumption DEF Objects

LEMMA ProtectionInvariant == Spec => []ProtectionInv
<1>1. Init => ProtectionInv
  <2> SUFFICES ASSUME Init
               PROVE  ProtectionInv
    OBVIOUS
  <2>1. cleaners \in [Names -> Inherited \union {Absent}] /\ cached = cleaners
    BY DEF Init
  <2>2. \A n \in Names : cleaners[n] = Absent \/ (cleaners[n] \in Objects /\ cleaners[n].old
                                                  /\ ~cleaners[n].finalizer)
    BY <2>1 DEF Inherited
  <2>3. ObjectsOK
    BY <2>1, MaxUidAssumption DEF Init, Inherited, ObjectsOK
  <2> QED
    BY <2>1, <2>2, <2>3
    DEF ProtectionInv, FinalizerProtects, CacheIsRight, NotScheduledYet, Existing
<1>2. ProtectionInv /\ [Next]_vars => ProtectionInv'
  <2> SUFFICES ASSUME ProtectionInv, [Next]_vars
               PROVE  ProtectionInv'
    OBVIOUS
  <2>0. /\ \A n \in Names : cleaners[n] \in Objects \union {Absent}
        /\ \A n \in Names : cached[n] \in Objects \union {Absent}
        /\ \A n \in Names : Safe(cleaners[n]) /\ Matches(cached[n], cleaners[n])
        /\ born \in [Names -> 0 .. MaxUid]
        /\ DOMAIN cleaners = Names
    BY DEF ProtectionInv, ObjectsOK, FinalizerProtects, CacheIsRight, NotScheduledYet,
           Existing, Safe, Matches
  <2>1. ASSUME NEW n \in Names, Create(n)
        PROVE  ProtectionInv'
    <3> DEFINE o == [uid |-> born[n] + 1, finalizer |-> FALSE, old |-> FALSE, deleting |-> FALSE,
                     scheduled |-> FALSE, failure |-> FALSE]
    <3>1. o \in Objects /\ born' \in [Names -> 0 .. MaxUid]
      BY <2>0, <2>1, MaxUidAssumption DEF Create, Objects
    <3>2. Safe(o) /\ Matches(cached[n], o)
      BY <2>0, <2>1 DEF Create, Safe, Matches
    <3> QED
      BY <2>1, <3>1, <3>2, OneCleanerChanges DEF Create
  <2>2. ASSUME NEW n \in Names, Delete(n)
        PROVE  ProtectionInv'
    <3> DEFINE d == [cleaners[n] EXCEPT !.deleting = TRUE]
    <3>1. cleaners[n] \in Objects
      BY <2>0, <2>2 DEF Delete
    <3>2. /\ d \in Objects /\ d.deleting = TRUE /\ d.finalizer = cleaners[n].finalizer
          /\ d.old = cleaners[n].old /\ d # Absent /\ cleaners[n] # Absent
      BY <3>1, AbsentAssumption DEF Objects
    <3> HIDE DEF d
    <3>3. Held(d) \in Objects \union {Absent}
      BY <3>2 DEF Held
    <3>4. Safe(Held(d)) /\ Matches(cached[n], Held(d))
      BY <2>0, <2>2, <3>2 DEF Delete, Held, Safe, Matches
    <3>5. cleaners' = [cleaners EXCEPT ![n] = Held(d)] /\ cached' = cached /\ born' = born
      BY <2>2 DEF Delete, d
    <3> QED
      BY <2>0, <3>3, <3>4, <3>5, OneCleanerChanges
  <2>3. ASSUME NEW n \in Names, InformerSync(n)
        PROVE  ProtectionInv'
    BY <2>3 DEF InformerSync, ProtectionInv, ObjectsOK, FinalizerProtects, CacheIsRight,
                NotScheduledYet, Existing
  <2>4. ASSUME NEW n \in Names, AddFinalizerFails(n)
        PROVE  ProtectionInv'
    <3> DEFINE o == IF cleaners[n] = Absent \/ cleaners[n].deleting THEN cleaners[n]
                    ELSE [cleaners[n] EXCEPT !.finalizer = TRUE, !.old = FALSE]
    <3>1. cleaners' = [cleaners EXCEPT ![n] = o] /\ cached' = cached /\ born' = born
      BY <2>0, <2>4 DEF AddFinalizerFails, ProtectionInv, ObjectsOK
    <3>2. CASE cleaners[n] = Absent \/ cleaners[n].deleting
      BY <2>0, <3>1, <3>2, OneCleanerChanges
    <3>3. CASE ~(cleaners[n] = Absent \/ cleaners[n].deleting)
      <4>1. cleaners[n] \in Objects
        BY <2>0, <3>3
      <4>2. o \in Objects /\ o # Absent /\ o.finalizer = TRUE
        BY <3>3, <4>1, AbsentAssumption DEF Objects
      <4> HIDE DEF o
      <4>3. Safe(o) /\ Matches(cached[n], o)
        BY <2>4, <4>2 DEF AddFinalizerFails, Safe, Matches
      <4> QED
        BY <2>0, <3>1, <4>2, <4>3, OneCleanerChanges
    <3> QED
      BY <3>2, <3>3
  <2>5. ASSUME NEW n \in Names, n \in pending, cached[n] # Absent, ~cached[n].deleting,
               cleaners[n] # Absent, NEW m \in BOOLEAN
        PROVE  /\ WithFinalizer(n) \in Objects /\ Patched(n, m) \in Objects
               /\ WithFinalizer(n).finalizer = TRUE /\ Patched(n, m).finalizer = TRUE
    <3>1. cleaners[n] \in Objects /\ cached[n] \in Objects
      BY <2>0, <2>5
    <3>2. cached[n].finalizer => cleaners[n].finalizer
      BY <2>0, <2>5 DEF Matches
    <3>3. cleaners[n].finalizer \in BOOLEAN
      BY <3>1 DEF Objects
    <3>4. WithFinalizer(n) \in Objects /\ WithFinalizer(n).finalizer = TRUE
      BY <3>1, <3>2, <3>3, PatchedObjects DEF WithFinalizer
    <3>5. Patched(n, m) = [WithFinalizer(n) EXCEPT !.failure = m]
          \/ Patched(n, m) = [WithFinalizer(n) EXCEPT !.failure = WithFinalizer(n).failure]
      BY <2>5 DEF Patched
    <3>6. WithFinalizer(n).failure \in BOOLEAN
      BY <3>4 DEF Objects
    <3>7. \A b \in BOOLEAN : [WithFinalizer(n) EXCEPT !.failure = b] \in Objects
                            /\ [WithFinalizer(n) EXCEPT !.failure = b].finalizer = TRUE
      <4> DEFINE o == WithFinalizer(n)
      <4> HIDE DEF o
      <4>1. o \in Objects /\ o.finalizer = TRUE
        BY <3>4 DEF o
      <4>2. \A b \in BOOLEAN : [o EXCEPT !.failure = b] \in Objects
                              /\ [o EXCEPT !.failure = b].finalizer = TRUE
        BY <4>1 DEF Objects
      <4> QED
        BY <4>2, Zenon DEF o
    <3>8. PICK b \in BOOLEAN : Patched(n, m) = [WithFinalizer(n) EXCEPT !.failure = b]
      <4>1. CASE Patched(n, m) = [WithFinalizer(n) EXCEPT !.failure = m]
        BY <2>5, <4>1, Zenon
      <4>2. CASE Patched(n, m) = [WithFinalizer(n) EXCEPT !.failure = WithFinalizer(n).failure]
        BY <3>6, <4>2, Zenon
      <4> QED
        BY <3>5, <4>1, <4>2
    <3>9. Patched(n, m) \in Objects /\ Patched(n, m).finalizer = TRUE
      BY <3>7, <3>8, Zenon
    <3> QED
      BY <3>4, <3>9
  <2>6. ASSUME NEW n \in Names, NEW o \in Objects, o.finalizer = TRUE, ~cached[n].deleting,
               cleaners' = [cleaners EXCEPT ![n] = o], cached' = cached, born' = born
        PROVE  ProtectionInv'
    <3>1. Safe(o) /\ Matches(cached[n], o)
      BY <2>6, PatchedObjects DEF Safe, Matches
    <3> QED
      BY <2>0, <2>6, <3>1, OneCleanerChanges
  <2>7. ASSUME NEW n \in Names, ReconcileNormal(n)
        PROVE  ProtectionInv'
    <3>1. CASE cleaners' = cleaners
      BY <2>7, <3>1 DEF ReconcileNormal, ProtectionInv, ObjectsOK, FinalizerProtects,
                        CacheIsRight, NotScheduledYet, Existing
    <3>2. CASE cleaners[n] # Absent /\ cleaners' = [cleaners EXCEPT ![n] =
                    [Patched(n, FailureMessage(n)) EXCEPT !.scheduled = TRUE]]
      <4>1. FailureMessage(n) \in BOOLEAN
        <5>1. cached[n] \in Objects
          BY <2>0, <2>7 DEF ReconcileNormal
        <5>2. cached[n].failure \in BOOLEAN
          BY <5>1 DEF Objects
        <5> QED
          BY <5>2 DEF FailureMessage
      <4>2. Patched(n, FailureMessage(n)) \in Objects
            /\ Patched(n, FailureMessage(n)).finalizer = TRUE
        BY <2>5, <2>7, <3>2, <4>1 DEF ReconcileNormal
      <4> DEFINE o == [Patched(n, FailureMessage(n)) EXCEPT !.scheduled = TRUE]
      <4>3. o \in Objects /\ o.finalizer = TRUE
        BY <4>2 DEF Objects
      <4> QED
        BY <2>6, <2>7, <3>2, <4>3 DEF ReconcileNormal
    <3>3. CASE cleaners[n] # Absent /\ cleaners' = [cleaners EXCEPT ![n] =
                    IF cached[n].finalizer THEN @ ELSE WithFinalizer(n)]
      <4>1. CASE cached[n].finalizer
        BY <2>0, <2>7, <3>3, <4>1, OneCleanerChanges DEF ReconcileNormal
      <4>2. CASE ~cached[n].finalizer
        <5>1. WithFinalizer(n) \in Objects /\ WithFinalizer(n).finalizer = TRUE
          BY <2>5, <2>7, <3>3 DEF ReconcileNormal
        <5> QED
          BY <2>6, <2>7, <3>3, <4>2, <5>1 DEF ReconcileNormal
      <4> QED
        BY <4>1, <4>2
    <3> QED
      BY <2>7, <3>1, <3>2, <3>3 DEF ReconcileNormal
  <2>8. ASSUME NEW n \in Names, ScheduleFails(n)
        PROVE  ProtectionInv'
    <3>1. CASE cleaners[n] = Absent
      BY <2>8, <3>1 DEF ScheduleFails, ProtectionInv, ObjectsOK, FinalizerProtects,
                        CacheIsRight, NotScheduledYet, Existing
    <3>2. CASE cleaners[n] # Absent
      <4>1. Patched(n, TRUE) \in Objects /\ Patched(n, TRUE).finalizer = TRUE
        BY <2>5, <2>8, <3>2 DEF ScheduleFails
      <4> QED
        BY <2>6, <2>8, <3>2, <4>1 DEF ScheduleFails
    <3> QED
      BY <3>1, <3>2
  <2>9. ASSUME NEW n \in Names, ReconcileDelete(n)
        PROVE  ProtectionInv'
    <3>1. CASE cleaners' = cleaners
      BY <2>9, <3>1 DEF ReconcileDelete, ProtectionInv, ObjectsOK, FinalizerProtects,
                        CacheIsRight, NotScheduledYet, Existing
    <3>2. CASE cleaners[n] # Absent /\ cleaners' = [cleaners EXCEPT ![n] =
                    Held([@ EXCEPT !.finalizer = FALSE, !.old = cached[n].old])]
      <4> DEFINE d == [cleaners[n] EXCEPT !.finalizer = FALSE, !.old = cached[n].old]
      <4>1. cleaners[n] \in Objects /\ cached[n] \in Objects
        BY <2>0, <2>9, <3>2 DEF ReconcileDelete
      <4>2. cached[n].old \in BOOLEAN
        BY <4>1 DEF Objects
      <4>3. /\ d \in Objects /\ d # Absent
            /\ d.finalizer = FALSE /\ d.old = cached[n].old
            /\ d.deleting = cleaners[n].deleting /\ d.scheduled = cleaners[n].scheduled
        <5> DEFINE c == cleaners[n]
                   b == cached[n].old
        <5> HIDE DEF c, b
        <5>1. c \in Objects /\ b \in BOOLEAN
          BY <4>1, <4>2 DEF c, b
        <5>2. LET e == [c EXCEPT !.finalizer = FALSE, !.old = b]
              IN  /\ e \in Objects /\ e # Absent
                  /\ e.finalizer = FALSE /\ e.old = b
                  /\ e.deleting = c.deleting /\ e.scheduled = c.scheduled
          BY <5>1, AbsentAssumption DEF Objects
        <5> QED
          BY <5>2 DEF c, b
      <4>4. cleaners' = [cleaners EXCEPT ![n] = Held(d)] /\ cached' = cached /\ born' = born
        BY <2>0, <2>9, <3>2 DEF ReconcileDelete
      <4> HIDE DEF d
      <4>5. Held(d) \in Objects \union {Absent}
        BY <4>3 DEF Held
      <4>6. Safe(Held(d)) /\ Matches(cached[n], Held(d))
        BY <2>0, <2>9, <3>2, <4>3 DEF ReconcileDelete, Held, Safe, Matches
      <4> QED
        BY <2>0, <4>4, <4>5, <4>6, OneCleanerChanges
    <3> QED
      BY <2>9, <3>1, <3>2 DEF ReconcileDelete, RemoveReport, RemoveFinalizer
  <2>10. CASE Crash
    BY <2>10 DEF Crash, ProtectionInv, ObjectsOK, FinalizerProtects, CacheIsRight,
                NotScheduledYet, Existing
  <2>11. ASSUME UNCHANGED <<cleaners, cached, born>>
         PROVE  ProtectionInv'
    BY <2>11 DEF ProtectionInv, ObjectsOK, FinalizerProtects, CacheIsRight, NotScheduledYet,
                 Existing
  <2> QED
    BY <2>1, <2>2, <2>3, <2>4, <2>7, <2>8, <2>9, <2>10, <2>11
    DEF Next, vars, Reconcile, ReconcileGone, ReconcileFails, ReportSync, TakeRequest,
        ReadCleaner, WriteReport, StoreResult
<1>3. QED
  BY <1>1, <1>2, PTL DEF Spec

(* Whatever goes stale in the cache, fails, is deleted and created again,  *)
(* a Cleaner with a schedule is held by a finalizer.                       *)
THEOREM ScheduledIsProtected == Spec => []FinalizerProtects
<1>1. ProtectionInv => FinalizerProtects
  BY DEF ProtectionInv
<1> QED
  BY <1>1, ProtectionInvariant, PTL

-----------------------------------------------------------------------------
(* The variables that are neither the executor's nor Cleaners. *)
RestOK ==
    /\ reports \in [Names -> 0 .. MaxUid]
    /\ seen \subseteq Names
    /\ pending \subseteq Names
    /\ reading \in [Workers -> 0 .. MaxUid]
    /\ quiet \subseteq Names
    /\ faults \in 0 .. MaxFaults

LEMMA RestStep ==
    ASSUME ProtectionInv, ExecutorOK, RestOK, [Next]_vars
    PROVE  RestOK'
<1> USE MaxUidAssumption, MaxFaultsAssumption DEF RestOK
<1>1. ASSUME NEW n \in Names, Create(n) \/ Delete(n) \/ InformerSync(n)
      PROVE  RestOK'
  BY <1>1 DEF Create, Delete, InformerSync
<1>2. CASE ReportSync
  BY <1>2 DEF ReportSync, Reported
<1>3. ASSUME NEW n \in Names, Reconcile(n)
      PROVE  RestOK'
  <2>1. CASE ReconcileGone(n) \/ ReconcileFails(n) \/ AddFinalizerFails(n)
    BY <2>1 DEF ReconcileGone, ReconcileFails, AddFinalizerFails, Fault
  <2>2. CASE ReconcileNormal(n) \/ ScheduleFails(n)
    <3>1. UNCHANGED <<reports, seen, pending, reading, quiet>>
      BY <2>2 DEF ReconcileNormal, ScheduleFails
    <3>2. faults' = faults \/ Fault
      BY <2>2 DEF ReconcileNormal, ScheduleFails
    <3> QED
      BY <3>1, <3>2 DEF Fault
  <2>3. CASE ReconcileDelete(n)
    <3>1. seen' = seen /\ reading' = reading
      BY <2>3 DEF ReconcileDelete
    <3>2. CASE RemoveReport(n)
      BY <3>1, <3>2 DEF RemoveReport, Fault
    <3>3. CASE RemoveFinalizer(n)
      <4>1. /\ reports' = reports
            /\ pending' = pending \/ pending' = pending \ {n}
            /\ quiet' = quiet \/ quiet' = quiet \union {n}
        BY <3>3 DEF RemoveFinalizer
      <4>2. faults' = faults \/ (faults' = faults + 1 /\ faults < MaxFaults)
        BY <3>3 DEF RemoveFinalizer
      <4> QED
        BY <3>1, <4>1, <4>2
    <3> QED
      BY <2>3, <3>2, <3>3 DEF ReconcileDelete
  <2> QED
    BY <1>3, <2>1, <2>2, <2>3 DEF Reconcile
<1>4. ASSUME NEW w \in Workers, TakeRequest(w) \/ StoreResult(w)
      PROVE  RestOK'
  BY <1>4 DEF TakeRequest, StoreResult
<1>5. ASSUME NEW w \in Workers, ReadCleaner(w)
      PROVE  RestOK'
  <2>1. running[w] \in Names
    BY <1>5 DEF ReadCleaner, ExecutorOK, E!TypeOK
  <2>2. cached[running[w]] \in Objects
    BY <1>5, <2>1 DEF ReadCleaner, ProtectionInv, ObjectsOK
  <2>3. cached[running[w]].uid \in 0 .. MaxUid
    BY <2>2 DEF Objects
  <2> QED
    BY <1>5, <2>3 DEF ReadCleaner
<1>6. ASSUME NEW w \in Workers, WriteReport(w)
      PROVE  RestOK'
  BY <1>6 DEF WriteReport
<1>7. CASE Crash
  BY <1>7 DEF Crash, Fault, Reported, Existing
<1>8. CASE UNCHANGED vars
  BY <1>8 DEF vars
<1> QED
  BY <1>1, <1>2, <1>3, <1>4, <1>5, <1>6, <1>7, <1>8 DEF Next

LEMMA RestInvariant == Spec => []RestOK
<1>1. Init => RestOK
  BY MaxUidAssumption, MaxFaultsAssumption DEF Init, RestOK, Existing
<1>2. ProtectionInv /\ ExecutorOK /\ RestOK /\ [Next]_vars => RestOK'
  BY RestStep
<1> QED
  BY <1>1, <1>2, ProtectionInvariant, ExecutorInvariant, PTL DEF Spec

(* Every patch, also of a stale copy over another Cleaner of that name,    *)
(* and every restart leaves Cleaners, Reports and queues well-formed.      *)
THEOREM LifecycleTypes == Spec => []TypeOK
<1>1. ProtectionInv /\ ExecutorOK /\ RestOK => TypeOK
  BY DEF ProtectionInv, ObjectsOK, ExecutorOK, RestOK, TypeOK
<1> QED
  BY <1>1, ProtectionInvariant, ExecutorInvariant, RestInvariant, PTL

-----------------------------------------------------------------------------
(* Only three steps take an error out of results: the reconciliations that *)
(* show it, and a storeResult with a newer request of the same Cleaner,    *)
(* which NoStaleResult excludes.                                           *)
LEMMA ErrorStep ==
    ASSUME ProtectionInv, ExecutorOK, RestOK, [Next]_vars,
           NEW n \in Names, cleaners[n] # Absent,
           results[n] = "error", results'[n] = "none", faults' = faults,
           cached[n] = cleaners[n], ~cached[n].deleting
    PROVE  cleaners'[n].failure
<1>0. /\ results \in [Names -> {"none", "ok", "error"}]
      /\ cleaners \in [Names -> Objects \union {Absent}]
      /\ cleaners[n] \in Objects
      /\ faults \in Nat
      /\ ~E!Contains(dirty, n)
  BY DEF ExecutorOK, E!TypeOK, E!Outcomes, E!NoStaleResult, ProtectionInv, ObjectsOK, RestOK
<1>1. ~Fault
  BY <1>0 DEF Fault
<1>2. E!RequestStatus(n) = "Failed"
  BY DEF E!RequestStatus
<1>3. ASSUME NEW m \in Names, AskExecutor(m) \/ E!GetResult(m)
      PROVE  m = n
  BY <1>0, <1>3 DEF AskExecutor, E!Process, E!GetResult, executor
<1>4. Patched(n, TRUE).failure = TRUE /\ [Patched(n, TRUE) EXCEPT !.scheduled = TRUE].failure = TRUE
  <2>1. WithFinalizer(n) \in Objects /\ WithFinalizer(n).failure = cached[n].failure
    BY <1>0 DEF WithFinalizer, Objects
  <2>2. cached[n].failure \in BOOLEAN
    BY <1>0 DEF Objects
  <2>3. Patched(n, TRUE) \in Objects /\ Patched(n, TRUE).failure = TRUE
    BY <2>1, <2>2 DEF Patched, Objects
  <2> QED
    BY <2>3 DEF Objects
<1>5. ASSUME NEW m \in Names, ReconcileNormal(m)
      PROVE  cleaners'[n].failure
  <2>1. m = n
    BY <1>3, <1>5 DEF ReconcileNormal
  <2>2. FailureMessage(n) = TRUE
    BY <1>2 DEF FailureMessage
  <2>3. cleaners' = [cleaners EXCEPT ![n] =
                        [Patched(n, FailureMessage(n)) EXCEPT !.scheduled = TRUE]]
    BY <1>1, <1>5, <2>1 DEF ReconcileNormal
  <2> QED
    BY <1>0, <1>4, <2>2, <2>3
<1>6. ASSUME NEW m \in Names, ScheduleFails(m)
      PROVE  cleaners'[n].failure
  <2>1. m = n
    BY <1>3, <1>6 DEF ScheduleFails, executor
  <2>2. cleaners' = [cleaners EXCEPT ![n] = Patched(n, TRUE)]
    BY <1>6, <2>1 DEF ScheduleFails
  <2> QED
    BY <1>0, <1>4, <2>2
<1>7. ASSUME NEW m \in Names, ReconcileDelete(m)
      PROVE  FALSE
  BY <1>0, <1>7 DEF ReconcileDelete, E!RemoveEntries
<1>8. ASSUME NEW m \in Names, Reconcile(m)
      PROVE  cleaners'[n].failure
  BY <1>5, <1>6, <1>7, <1>8
  DEF Reconcile, ReconcileGone, ReconcileFails, AddFinalizerFails, executor
<1>9. ASSUME NEW w \in Workers, StoreResult(w)
      PROVE  FALSE
  <2>1. PICK err \in {"ok", "error"} : E!StoreResult(w, err)
    BY <1>9 DEF StoreResult, E!Outcomes
  <2> QED
    BY <1>0, <2>1 DEF E!StoreResult
<1>10. ASSUME NEW w \in Workers, TakeRequest(w) \/ ReadCleaner(w) \/ WriteReport(w)
       PROVE  FALSE
  BY <1>10 DEF TakeRequest, ReadCleaner, WriteReport, E!TakeRequest, executor
<1>11. ASSUME NEW m \in Names, Create(m) \/ Delete(m) \/ InformerSync(m)
       PROVE  FALSE
  BY <1>11 DEF Create, Delete, InformerSync, executor
<1>12. ~(ReportSync \/ UNCHANGED vars)
  BY DEF ReportSync, vars, executor
<1>13. ~Crash
  BY <1>1 DEF Crash
<1> QED
  BY <1>8, <1>9, <1>10, <1>11, <1>12, <1>13 DEF Next

(* The error of a run is shown when it is handed out, unless the patch     *)
(* fails or the cache lags.                                                *)
THEOREM ErrorsAreShown == Spec => ErrorIsShown
<1>1. ProtectionInv /\ ExecutorOK /\ RestOK /\ [Next]_vars =>
      [\A n \in Existing(cleaners) :
        (results[n] = "error" /\ results'[n] = "none" /\ faults' = faults
         /\ cached[n] = cleaners[n] /\ ~cached[n].deleting)
        => cleaners'[n].failure]_vars
  BY ErrorStep DEF Existing
<1> QED
  BY <1>1, ProtectionInvariant, ExecutorInvariant, RestInvariant, PTL DEF Spec, ErrorIsShown

-----------------------------------------------------------------------------
(* A name without a Cleaner, a run, an outcome and a Report stays without  *)
(* them until a Cleaner is created: the cache may lag, but the copy it     *)
(* then holds is marked for deletion, and nothing is asked to be run.      *)
NoRunOf(n) ==
    /\ ~E!Contains(jobQueue, n)
    /\ \A w \in Workers : running[w] # n

NothingOf(n) == NoRunOf(n) /\ results[n] = "none"

QuietInv ==
    \A n \in quiet :
        /\ NothingOf(n)
        /\ cleaners[n] = Absent
        /\ cached[n] = Absent \/ cached[n].deleting
        /\ reports[n] = 0

(* What ExecutorProofs says of the names in a slice. *)
LEMMA SliceFacts ==
    /\ \A s \in Seq(Names), m, n \in Names :
        E!Contains(E!OverwriteKey(s, m), n) => E!Contains(s, n)
    /\ \A s \in Seq(Names), m, n \in Names :
        E!Contains(Append(s, m), n) => E!Contains(s, n) \/ n = m
    /\ \A s \in Seq(Names), n \in Names :
        s # << >> => /\ Head(s) = n => E!Contains(s, n)
                     /\ E!Contains(Tail(s), n) => E!Contains(s, n)
<1>1. P!IsFiniteSet(Workers)
  BY WorkersAssumption DEF P!IsFiniteSet, IsFiniteSet
<1>2. ASSUME NEW s \in Seq(Names), NEW m \in Names, NEW n \in Names,
             P!Contains(P!OverwriteKey(s, m), n)
      PROVE  P!Contains(s, n)
  BY <1>1, <1>2, P!OverwriteKeyFacts, NoneAssumption, MaxLenAssumption
<1>3. ASSUME NEW s \in Seq(Names), NEW m \in Names, NEW n \in Names,
             P!Contains(Append(s, m), n)
      PROVE  P!Contains(s, n) \/ n = m
  BY <1>1, <1>3, P!AppendFacts, NoneAssumption, MaxLenAssumption
<1>4. ASSUME NEW s \in Seq(Names), NEW n \in Names, s # << >>
      PROVE  /\ Head(s) = n => P!Contains(s, n)
             /\ P!Contains(Tail(s), n) => P!Contains(s, n)
  BY <1>1, <1>4, P!HeadTailFacts, NoneAssumption, MaxLenAssumption
<1> QED
  BY <1>2, <1>3, <1>4, SameSlices

(* Only Process brings in a run of a Cleaner that had none, and without a  *)
(* run there is no outcome.                                                *)
LEMMA NoRunAppears ==
    ASSUME E!TypeOK, NEW n \in Names, NothingOf(n)
    PROVE  /\ \A m \in Names : E!RemoveEntries(m) => NothingOf(n)'
           /\ \A m \in Names : m # n /\ E!Process(m) => NothingOf(n)'
           /\ \A m \in Names : E!GetResult(m) => NothingOf(n)'
           /\ \A w \in Workers : E!TakeRequest(w) => NothingOf(n)'
           /\ \A w \in Workers : \A err : E!StoreResult(w, err) => NothingOf(n)'
<1> USE DEF E!TypeOK, NoRunOf, NothingOf
<1>1. ASSUME NEW m \in Names, E!RemoveEntries(m)
      PROVE  NothingOf(n)'
  <2>1. /\ jobQueue' = E!OverwriteKey(jobQueue, m) /\ running' = running
        /\ results' = [results EXCEPT ![m] = "none"]
    BY <1>1 DEF E!RemoveEntries
  <2>2. ~E!Contains(E!OverwriteKey(jobQueue, m), n)
    BY SliceFacts
  <2> QED
    BY <2>1, <2>2
<1>2. ASSUME NEW m \in Names, m # n, E!Process(m)
      PROVE  NothingOf(n)'
  <2>1. /\ running' = running /\ (jobQueue' = jobQueue \/ jobQueue' = Append(jobQueue, m))
        /\ results' = [results EXCEPT ![m] = "none"]
    BY <1>2 DEF E!Process
  <2>2. ~E!Contains(Append(jobQueue, m), n)
    BY <1>2, SliceFacts
  <2> QED
    BY <2>1, <2>2
<1>3. ASSUME NEW m \in Names, E!GetResult(m)
      PROVE  NothingOf(n)'
  BY <1>3 DEF E!GetResult
<1>4. ASSUME NEW w \in Workers, E!TakeRequest(w)
      PROVE  NothingOf(n)'
  <2>1. /\ jobQueue' = Tail(jobQueue) /\ jobQueue # << >> /\ results' = results
        /\ running' = [running EXCEPT ![w] = Head(jobQueue)]
    BY <1>4 DEF E!TakeRequest
  <2>2. Head(jobQueue) # n /\ ~E!Contains(Tail(jobQueue), n)
    BY <2>1, SliceFacts
  <2> QED
    BY <2>1, <2>2
<1>5. ASSUME NEW w \in Workers, NEW err, E!StoreResult(w, err)
      PROVE  NothingOf(n)'
  <2>1. /\ running' = [running EXCEPT ![w] = None]
        /\ running[w] \in Names /\ running[w] # n
        /\ jobQueue' = jobQueue \/ jobQueue' = Append(jobQueue, running[w])
        /\ \E o : results' = [results EXCEPT ![running[w]] = o]
    BY <1>5 DEF E!StoreResult
  <2>2. ~E!Contains(Append(jobQueue, running[w]), n)
    BY <2>1, SliceFacts
  <2> QED
    BY <2>1, <2>2, NoneAssumption
<1> QED
  BY <1>1, <1>2, <1>3, <1>4, <1>5

(* A Cleaner whose runs were over, and whose Report the cache knew, is     *)
(* removed together with its Report and its outcome: the next Cleaner of   *)
(* that name starts from nothing.                                          *)
THEOREM QuietRemovalsAreClean == Spec => []QuietRemovalIsClean
<1>1. Init => QuietInv
  BY DEF Init, QuietInv
<1>2. ProtectionInv /\ ExecutorOK /\ RestOK /\ QuietInv /\ [Next]_vars => QuietInv'
  <2> SUFFICES ASSUME ProtectionInv, ExecutorOK, RestOK, QuietInv, [Next]_vars
               PROVE  QuietInv'
    OBVIOUS
  <2>a. RestOK'
    BY RestStep
  <2>b. quiet' \subseteq Names
    BY <2>a DEF RestOK
  <2> SUFFICES ASSUME NEW n \in Names, n \in quiet'
               PROVE  /\ NothingOf(n)'
                      /\ cleaners'[n] = Absent
                      /\ cached'[n] = Absent \/ cached'[n].deleting
                      /\ reports'[n] = 0
    BY <2>b DEF QuietInv
  <2> DEFINE Goal == /\ NothingOf(n)'
                     /\ cleaners'[n] = Absent
                     /\ cached'[n] = Absent \/ cached'[n].deleting
                     /\ reports'[n] = 0
  <2>0. /\ E!TypeOK
        /\ cleaners \in [Names -> Objects \union {Absent}]
        /\ reports \in [Names -> 0 .. MaxUid]
        /\ cached \in [Names -> Objects \union {Absent}]
        /\ n \in quiet => NothingOf(n) /\ cleaners[n] = Absent /\ reports[n] = 0
                        /\ (cached[n] = Absent \/ cached[n].deleting)
    BY DEF ExecutorOK, ProtectionInv, ObjectsOK, RestOK, QuietInv
  <2>1. ASSUME UNCHANGED executor
        PROVE  NothingOf(n)' <=> NothingOf(n)
    BY <2>1 DEF executor, NoRunOf, NothingOf
  <2>2. ASSUME NEW m \in Names, Create(m)
        PROVE  Goal
    BY <2>0, <2>1, <2>2 DEF Create
  <2>3. ASSUME NEW m \in Names, Delete(m) \/ InformerSync(m)
        PROVE  Goal
    BY <2>0, <2>1, <2>3 DEF Delete, InformerSync
  <2>4. CASE ReportSync \/ UNCHANGED vars
    BY <2>0, <2>1, <2>4 DEF ReportSync, vars, executor
  <2>5. ASSUME NEW m \in Names,
               ReconcileGone(m) \/ ReconcileFails(m) \/ AddFinalizerFails(m)
        PROVE  Goal
    BY <2>0, <2>1, <2>5 DEF ReconcileGone, ReconcileFails, AddFinalizerFails
  <2>6. ASSUME NEW m \in Names, ReconcileNormal(m) \/ ScheduleFails(m)
        PROVE  Goal
    <3>1. n \in quiet /\ m # n
      BY <2>0, <2>6 DEF ReconcileNormal, ScheduleFails
    <3>2. NothingOf(n)'
      BY <2>0, <2>1, <2>6, <3>1, NoRunAppears
      DEF ReconcileNormal, ScheduleFails, AskExecutor
    <3> QED
      BY <2>0, <2>6, <3>1, <3>2 DEF ReconcileNormal, ScheduleFails
  <2>7. ASSUME NEW m \in Names, ReconcileDelete(m)
        PROVE  Goal
    <3>1. E!RemoveEntries(m) /\ cached' = cached /\ cached[m] # Absent /\ cached[m].deleting
      BY <2>7 DEF ReconcileDelete
    <3>2. CASE n \in quiet
      <4>1. NothingOf(n)'
        BY <2>0, <3>1, <3>2, NoRunAppears
      <4>2. cleaners'[n] = Absent
        BY <2>0, <2>7, <3>2 DEF ReconcileDelete, RemoveReport, RemoveFinalizer
      <4>3. reports'[n] = 0
        BY <2>0, <2>7, <3>2 DEF ReconcileDelete, RemoveReport, RemoveFinalizer
      <4> QED
        BY <2>0, <3>1, <3>2, <4>1, <4>2, <4>3
    <3>3. CASE n \notin quiet
      <4>1. m = n /\ cleaners'[n] = Absent /\ Settled(n) /\ n \notin seen /\ reports' = reports
        BY <2>7, <3>3 DEF ReconcileDelete, RemoveReport, RemoveFinalizer
      <4>2. NoRunOf(n)
        BY <4>1 DEF Settled, NoRunOf, Contains, E!Contains
      <4>3. NothingOf(n)'
        <5>1. /\ jobQueue' = E!OverwriteKey(jobQueue, n) /\ running' = running
              /\ results' = [results EXCEPT ![n] = "none"]
          BY <3>1, <4>1 DEF E!RemoveEntries
        <5>2. ~E!Contains(E!OverwriteKey(jobQueue, n), n)
          BY <2>0, <4>2, SliceFacts DEF E!TypeOK, NoRunOf
        <5> QED
          BY <2>0, <4>2, <5>1, <5>2 DEF E!TypeOK, NoRunOf, NothingOf
      <4>4. reports[n] = 0
        BY <4>1 DEF Settled, Reported
      <4> QED
        BY <3>1, <4>1, <4>3, <4>4
    <3> QED
      BY <3>2, <3>3
  <2>8. ASSUME NEW w \in Workers, TakeRequest(w) \/ StoreResult(w)
        PROVE  Goal
    <3>1. n \in quiet /\ UNCHANGED <<cleaners, cached, reports>>
      BY <2>8 DEF TakeRequest, StoreResult
    <3>2. NothingOf(n)'
      BY <2>0, <2>8, <3>1, NoRunAppears DEF TakeRequest, StoreResult
    <3> QED
      BY <2>0, <3>1, <3>2
  <2>9. ASSUME NEW w \in Workers, ReadCleaner(w) \/ WriteReport(w)
        PROVE  Goal
    <3>1. n \in quiet /\ running[w] # n
      BY <2>0, <2>9 DEF ReadCleaner, WriteReport, NoRunOf, NothingOf
    <3> QED
      BY <2>0, <2>1, <2>9, <3>1 DEF ReadCleaner, WriteReport
  <2>10. CASE Crash
    <3>1. NothingOf(n)'
      BY <2>10, NoneAssumption DEF Crash, NoRunOf, NothingOf, E!Contains
    <3> QED
      BY <2>0, <2>10, <3>1 DEF Crash
  <2> QED
    BY <2>2, <2>3, <2>4, <2>5, <2>6, <2>7, <2>8, <2>9, <2>10 DEF Next, Reconcile
<1>3. QuietInv => QuietRemovalIsClean
  BY DEF QuietInv, QuietRemovalIsClean, NothingOf
<1> QED
  BY <1>1, <1>2, <1>3, ProtectionInvariant, ExecutorInvariant, RestInvariant, PTL DEF Spec

-----------------------------------------------------------------------------
(* The life of the Cleaners of a name. *)

(* How a Cleaner may change while it is not created: it keeps its uid, its *)
(* deletionTimestamp and its schedule, and vanishes only if it was being   *)
(* deleted or was never on a schedule.                                     *)
Evolves(c, o) ==
    /\ c \in Objects
    /\ o \in Objects \union {Absent}
    /\ o = Absent => c.deleting \/ ~c.scheduled
    /\ o # Absent => /\ o.uid = c.uid
                     /\ c.deleting => o.deleting
                     /\ c.scheduled => o.scheduled

(* What the patches leave as it is. *)
LEMMA PatchKeeps ==
    ASSUME NEW o \in Objects
    PROVE  /\ Evolves(o, o)
           /\ \A f, d \in BOOLEAN : Evolves(o, [o EXCEPT !.finalizer = f, !.old = d])
           /\ \A m \in BOOLEAN : Evolves(o, [o EXCEPT !.failure = m])
           /\ Evolves(o, [o EXCEPT !.scheduled = TRUE])
<1>1. /\ DOMAIN o = {"uid", "finalizer", "old", "deleting", "scheduled", "failure"}
      /\ o # Absent
  BY AbsentAssumption DEF Objects
<1>2. ASSUME NEW p \in Objects, p.uid = o.uid, p.deleting = o.deleting,
             p.scheduled = o.scheduled \/ p.scheduled = TRUE
      PROVE  Evolves(o, p)
  BY <1>1, <1>2, AbsentAssumption DEF Evolves
<1>3. ASSUME NEW f \in BOOLEAN, NEW d \in BOOLEAN
      PROVE  Evolves(o, [o EXCEPT !.finalizer = f, !.old = d])
  <2> DEFINE p == [o EXCEPT !.finalizer = f, !.old = d]
  <2>1. p \in Objects /\ p.uid = o.uid /\ p.deleting = o.deleting /\ p.scheduled = o.scheduled
    BY DEF Objects
  <2> HIDE DEF p
  <2>2. Evolves(o, p)
    BY <1>2, <2>1
  <2> QED
    BY <2>2 DEF p
<1>4. ASSUME NEW m \in BOOLEAN
      PROVE  Evolves(o, [o EXCEPT !.failure = m])
  <2> DEFINE p == [o EXCEPT !.failure = m]
  <2>1. p \in Objects /\ p.uid = o.uid /\ p.deleting = o.deleting /\ p.scheduled = o.scheduled
    BY DEF Objects
  <2> HIDE DEF p
  <2>2. Evolves(o, p)
    BY <1>2, <2>1
  <2> QED
    BY <2>2 DEF p
<1>5. Evolves(o, [o EXCEPT !.scheduled = TRUE])
  <2> DEFINE p == [o EXCEPT !.scheduled = TRUE]
  <2>1. p \in Objects /\ p.uid = o.uid /\ p.deleting = o.deleting /\ p.scheduled = TRUE
    BY <1>1 DEF Objects
  <2> HIDE DEF p
  <2>2. Evolves(o, p)
    BY <1>2, <2>1
  <2> QED
    BY <2>2 DEF p
<1> QED
  BY <1>2, <1>3, <1>4, <1>5

LEMMA EvolvesAgain ==
    ASSUME NEW c, NEW o \in Objects, NEW p \in Objects, Evolves(c, o), Evolves(o, p)
    PROVE  Evolves(c, p)
BY AbsentAssumption DEF Evolves

(* The Cleaner of n evolves, or it is not touched. *)
Evolution(n) ==
    \/ cleaners' = cleaners
    \/ \E o : Evolves(cleaners[n], o) /\ cleaners' = [cleaners EXCEPT ![n] = o]

LEMMA NormalEvolution ==
    ASSUME ProtectionInv, NEW n \in Names, ReconcileNormal(n) \/ ScheduleFails(n)
    PROVE  Evolution(n)
<1> SUFFICES ASSUME cleaners[n] # Absent
             PROVE  Evolution(n)
  BY DEF ReconcileNormal, ScheduleFails, Evolution
<1>1. cleaners[n] \in Objects /\ cached[n] \in Objects
  BY DEF ProtectionInv, ObjectsOK, ReconcileNormal, ScheduleFails
<1>2. cached[n].failure \in BOOLEAN
  BY <1>1 DEF Objects
<1>3. WithFinalizer(n) \in Objects /\ Evolves(cleaners[n], WithFinalizer(n))
  BY <1>1, PatchKeeps, PatchedObjects DEF WithFinalizer
<1>4. ASSUME NEW m \in BOOLEAN
      PROVE  Patched(n, m) \in Objects /\ Evolves(cleaners[n], Patched(n, m))
  <2>1. PICK o \in Objects : o = WithFinalizer(n)
    BY <1>3
  <2>2. PICK b \in BOOLEAN : Patched(n, m) = [o EXCEPT !.failure = b]
    <3>1. o.failure \in BOOLEAN
      BY DEF Objects
    <3> QED
      BY <2>1, <3>1 DEF Patched
  <2>3. [o EXCEPT !.failure = b] \in Objects /\ Evolves(o, [o EXCEPT !.failure = b])
    BY PatchKeeps, PatchedObjects
  <2> QED
    BY <1>3, <2>1, <2>2, <2>3, EvolvesAgain
<1>5. CASE ScheduleFails(n)
  <2>1. cleaners' = [cleaners EXCEPT ![n] = Patched(n, TRUE)]
    BY <1>5 DEF ScheduleFails
  <2> QED
    BY <1>4, <2>1 DEF Evolution
<1>6. CASE ReconcileNormal(n)
  <2>1. FailureMessage(n) \in BOOLEAN
    BY <1>2 DEF FailureMessage
  <2>2. PICK p \in Objects : p = Patched(n, FailureMessage(n)) /\ Evolves(cleaners[n], p)
    BY <1>4, <2>1
  <2>3. Evolves(cleaners[n], [p EXCEPT !.scheduled = TRUE])
    BY <2>2, PatchKeeps, PatchedObjects, EvolvesAgain
  <2>4. \/ cleaners' = [cleaners EXCEPT ![n] = [p EXCEPT !.scheduled = TRUE]]
        \/ cleaners' = [cleaners EXCEPT ![n] = cleaners[n]]
        \/ cleaners' = [cleaners EXCEPT ![n] = WithFinalizer(n)]
    BY <1>6, <2>2 DEF ReconcileNormal
  <2> QED
    BY <1>1, <1>3, <2>3, <2>4, PatchKeeps DEF Evolution
<1> QED
  BY <1>5, <1>6

LEMMA OtherEvolution ==
    ASSUME ProtectionInv, NEW n \in Names,
           Delete(n) \/ AddFinalizerFails(n) \/ ReconcileDelete(n)
    PROVE  Evolution(n)
<1>0. /\ cleaners \in [Names -> Objects \union {Absent}]
      /\ cached \in [Names -> Objects \union {Absent}]
  BY DEF ProtectionInv, ObjectsOK
<1>1. CASE Delete(n)
  <2>1. PICK c \in Objects : c = cleaners[n]
    BY <1>0, <1>1 DEF Delete
  <2>2. c.scheduled => c.finalizer \/ c.old
    BY <2>1, AbsentAssumption DEF ProtectionInv, FinalizerProtects, Existing
  <2>3. PICK d \in Objects : d = [c EXCEPT !.deleting = TRUE]
    BY PatchedObjects
  <2>4. /\ d # Absent /\ d.uid = c.uid /\ d.deleting = TRUE /\ d.scheduled = c.scheduled
        /\ d.finalizer = c.finalizer /\ d.old = c.old
    BY <2>3, AbsentAssumption DEF Objects
  <2>5. Evolves(c, Held(d))
    BY <2>2, <2>4 DEF Held, Evolves
  <2>6. cleaners' = [cleaners EXCEPT ![n] = Held(d)]
    BY <1>1, <2>1, <2>3 DEF Delete
  <2> QED
    BY <2>1, <2>5, <2>6 DEF Evolution
<1>2. CASE AddFinalizerFails(n)
  BY <1>0, <1>2, PatchKeeps DEF AddFinalizerFails, Evolution
<1>3. CASE ReconcileDelete(n)
  <2> SUFFICES ASSUME cleaners[n] # Absent,
                      cleaners' = [cleaners EXCEPT ![n] =
                            Held([@ EXCEPT !.finalizer = FALSE, !.old = cached[n].old])]
               PROVE  Evolution(n)
    BY <1>3 DEF ReconcileDelete, RemoveReport, RemoveFinalizer, Evolution
  <2>1. PICK c \in Objects : c = cleaners[n]
    BY <1>0
  <2>2. PICK b \in BOOLEAN : b = cached[n].old
    BY <1>0, <1>3 DEF ReconcileDelete, Objects
  <2>3. PICK d \in Objects : d = [c EXCEPT !.finalizer = FALSE, !.old = b]
    BY PatchedObjects
  <2>4. Evolves(c, d) /\ d # Absent /\ d.deleting = c.deleting
    <3>1. Evolves(c, d)
      BY <2>3, PatchKeeps
    <3>2. d.deleting = c.deleting
      BY <2>3 DEF Objects
    <3> QED
      BY <3>1, <3>2, AbsentAssumption
  <2>5. Evolves(c, Held(d))
    BY <2>4 DEF Held, Evolves
  <2>6. cleaners' = [cleaners EXCEPT ![n] = Held(d)]
    BY <1>0, <2>1, <2>2, <2>3
  <2> QED
    BY <2>1, <2>5, <2>6 DEF Evolution
<1> QED
  BY <1>1, <1>2, <1>3

(* Neither a Report nor what a worker has read is from a Cleaner the cache *)
(* has yet to learn of, and a Cleaner the cache shows as being deleted is  *)
(* being deleted, or gone: the Report a reconcileDelete finds is its own   *)
(* or older, however late it comes.                                        *)
Known(n, u) == u <= born[n] /\ (cached[n] # Absent => u <= cached[n].uid)

LifeInv ==
    /\ \A n \in Names :
        /\ cleaners[n] # Absent => cleaners[n].uid = born[n]
        /\ cached[n] # Absent => cached[n].uid <= born[n]
        /\ cached[n] # Absent /\ cached[n].deleting /\ cached[n].uid = born[n] =>
               cleaners[n] = Absent \/ cleaners[n].deleting
        /\ Known(n, reports[n])
    /\ \A w \in Workers :
        IF running[w] = None THEN reading[w] = 0 ELSE Known(running[w], reading[w])

LifeTypes == ProtectionInv /\ ExecutorOK /\ RestOK

LEMMA LifeTypesFacts ==
    ASSUME LifeTypes
    PROVE  /\ cleaners \in [Names -> Objects \union {Absent}]
           /\ cached \in [Names -> Objects \union {Absent}]
           /\ \A n \in Names :
                /\ born[n] \in Nat /\ reports[n] \in Nat
                /\ cleaners[n] # Absent => cleaners[n].uid \in Nat
                /\ cached[n] # Absent => cached[n].uid \in Nat
           /\ born \in [Names -> 0 .. MaxUid] /\ reports \in [Names -> 0 .. MaxUid]
           /\ running \in [Workers -> Names \union {None}]
           /\ reading \in [Workers -> 0 .. MaxUid]
           /\ None \notin Names
BY NoneAssumption, MaxUidAssumption
DEF LifeTypes, ProtectionInv, ObjectsOK, ExecutorOK, E!TypeOK, RestOK, Objects

(* The steps in which a Cleaner evolves, and the Report is removed or not. *)
LEMMA EvolutionStep ==
    ASSUME LifeTypes, LifeInv, NEW n \in Names, Evolution(n),
           UNCHANGED <<cached, born, running, reading>>,
           reports' = reports \/ reports' = [reports EXCEPT ![n] = 0]
    PROVE  LifeInv'
<1>1. \A m \in Names : cleaners'[m] # Absent =>
        /\ cleaners[m] # Absent /\ cleaners'[m].uid = cleaners[m].uid
        /\ cleaners[m].deleting => cleaners'[m].deleting
  BY LifeTypesFacts, AbsentAssumption DEF Evolution, Evolves
<1>2. \A m \in Names : Known(m, reports[m]) => Known(m, reports'[m])
  BY LifeTypesFacts DEF Known
<1>3. \A m, u : Known(m, u)' <=> Known(m, u')
  BY DEF Known
<1> QED
  BY <1>1, <1>2 DEF LifeInv, Known

LEMMA LifeStep ==
    ASSUME LifeTypes, LifeInv, [Next]_vars
    PROVE  LifeInv'
<1>0. /\ cleaners \in [Names -> Objects \union {Absent}]
      /\ cached \in [Names -> Objects \union {Absent}]
      /\ \A n \in Names :
            /\ born[n] \in Nat /\ reports[n] \in Nat
            /\ cleaners[n] # Absent => cleaners[n].uid \in Nat
            /\ cached[n] # Absent => cached[n].uid \in Nat
      /\ born \in [Names -> 0 .. MaxUid] /\ reports \in [Names -> 0 .. MaxUid]
      /\ running \in [Workers -> Names \union {None}]
      /\ reading \in [Workers -> 0 .. MaxUid]
      /\ None \notin Names
  BY LifeTypesFacts
<1>1. ASSUME NEW n \in Names, Create(n)
      PROVE  LifeInv'
  <2>1. /\ cleaners[n] = Absent
        /\ born' = [born EXCEPT ![n] = @ + 1]
        /\ UNCHANGED <<cached, reports, running, reading>>
        /\ cleaners' = [cleaners EXCEPT ![n] =
            [uid |-> born[n] + 1, finalizer |-> FALSE, old |-> FALSE, deleting |-> FALSE,
             scheduled |-> FALSE, failure |-> FALSE]]
    BY <1>1 DEF Create, executor
  <2>2. cleaners'[n].uid = born'[n] /\ born'[n] = born[n] + 1
    BY <1>0, <2>1
  <2>3. \A m \in Names : born[m] <= born'[m] /\ (m # n => born'[m] = born[m])
    BY <1>0, <2>1
  <2> QED
    BY <1>0, <2>1, <2>2, <2>3 DEF LifeInv, Known
<1>2. ASSUME NEW n \in Names, InformerSync(n)
      PROVE  LifeInv'
  <2>1. /\ cached' = [cached EXCEPT ![n] = cleaners[n]]
        /\ UNCHANGED <<cleaners, born, reports, running, reading>>
    BY <1>2 DEF InformerSync, executor
  <2> QED
    BY <1>0, <2>1 DEF LifeInv, Known
<1>3. ASSUME NEW n \in Names,
             Delete(n) \/ AddFinalizerFails(n) \/ ReconcileNormal(n) \/ ScheduleFails(n)
      PROVE  LifeInv'
  <2>1. Evolution(n)
    BY <1>3, NormalEvolution, OtherEvolution DEF LifeTypes
  <2>2. UNCHANGED <<cached, born, reports, reading>>
    BY <1>3 DEF Delete, AddFinalizerFails, ReconcileNormal, ScheduleFails
  <2>3. running' = running
    BY <1>3 DEF Delete, AddFinalizerFails, ReconcileNormal, ScheduleFails, AskExecutor,
                E!Process, E!GetResult, executor
  <2> QED
    BY <2>1, <2>2, <2>3, EvolutionStep
<1>4. ASSUME NEW n \in Names, ReconcileDelete(n)
      PROVE  LifeInv'
  <2>1. Evolution(n)
    BY <1>4, OtherEvolution DEF LifeTypes
  <2>2. UNCHANGED <<cached, born, running, reading>>
    BY <1>4 DEF ReconcileDelete, E!RemoveEntries
  <2>3. reports' = reports \/ reports' = [reports EXCEPT ![n] = 0]
    BY <1>4 DEF ReconcileDelete, RemoveReport, RemoveFinalizer
  <2> QED
    BY <2>1, <2>2, <2>3, EvolutionStep
<1>5. ASSUME UNCHANGED <<cleaners, cached, born, reports, running, reading>>
      PROVE  LifeInv'
  BY <1>5 DEF LifeInv, Known
<1>6. ASSUME NEW w \in Workers, TakeRequest(w)
      PROVE  LifeInv'
  <2>1. /\ running[w] = None /\ \E k : running' = [running EXCEPT ![w] = k]
        /\ UNCHANGED <<cleaners, cached, born, reports, reading>>
    BY <1>6 DEF TakeRequest, E!TakeRequest
  <2>2. running' \in [Workers -> Names \union {None}]
    <3>1. ExecutorOK'
      BY <1>6, ExecutorStepOK DEF LifeTypes, TakeRequest, E!Next, E!Worker
    <3> QED
      BY <3>1 DEF ExecutorOK, E!TypeOK
  <2>3. reading[w] = 0
    BY <2>1 DEF LifeInv
  <2>4. \A n \in Names : Known(n, 0)
    BY <1>0 DEF Known
  <2> QED
    BY <1>0, <2>1, <2>2, <2>3, <2>4 DEF LifeInv, Known
<1>7. ASSUME NEW w \in Workers, ReadCleaner(w)
      PROVE  LifeInv'
  <2>1. /\ running[w] \in Names /\ cached[running[w]] # Absent
        /\ reading' = [reading EXCEPT ![w] = cached[running[w]].uid]
        /\ UNCHANGED <<cleaners, cached, born, reports, running>>
    BY <1>0, <1>7 DEF ReadCleaner, executor
  <2> QED
    BY <1>0, <2>1 DEF LifeInv, Known
<1>8. ASSUME NEW w \in Workers, WriteReport(w)
      PROVE  LifeInv'
  <2>1. /\ running[w] \in Names /\ running[w] # None
        /\ reports' = [reports EXCEPT ![running[w]] = reading[w]]
        /\ UNCHANGED <<cleaners, cached, born, running, reading>>
    BY <1>0, <1>8 DEF WriteReport, executor
  <2> QED
    BY <1>0, <2>1 DEF LifeInv, Known
<1>9. ASSUME NEW w \in Workers, StoreResult(w)
      PROVE  LifeInv'
  <2>1. /\ running' = [running EXCEPT ![w] = None] /\ reading' = [reading EXCEPT ![w] = 0]
        /\ UNCHANGED <<cleaners, cached, born, reports>>
    BY <1>9 DEF StoreResult, E!StoreResult
  <2> QED
    BY <1>0, <2>1 DEF LifeInv, Known
<1>10. CASE Crash
  <2>1. /\ running' = [w \in Workers |-> None] /\ reading' = [w \in Workers |-> 0]
        /\ cached' = cleaners /\ UNCHANGED <<cleaners, born, reports>>
    BY <1>10 DEF Crash
  <2> QED
    BY <1>0, <2>1 DEF LifeInv, Known
<1>11. ASSUME NEW n \in Names, ReconcileGone(n) \/ ReconcileFails(n)
       PROVE  LifeInv'
  BY <1>5, <1>11 DEF ReconcileGone, ReconcileFails, executor
<1>12. CASE ReportSync \/ UNCHANGED vars
  BY <1>5, <1>12 DEF ReportSync, vars, executor
<1> QED
  BY <1>1, <1>2, <1>3, <1>4, <1>6, <1>7, <1>8, <1>9, <1>10, <1>11, <1>12 DEF Next, Reconcile

LEMMA LifeInvariant == Spec => []LifeInv
<1>1. Init => LifeInv
  BY MaxUidAssumption, AbsentAssumption DEF Init, Inherited, Objects, LifeInv, Known, E!Init
<1>2. LifeTypes /\ LifeInv /\ [Next]_vars => LifeInv'
  BY LifeStep
<1>3. ProtectionInv /\ ExecutorOK /\ RestOK => LifeTypes
  BY DEF LifeTypes
<1> QED
  BY <1>1, <1>2, <1>3, ProtectionInvariant, ExecutorInvariant, RestInvariant, PTL DEF Spec

(* An evolution is a step of CleanerLife, or none.                         *)
LEMMA EvolutionImplements ==
    ASSUME LifeTypes, NEW n \in Names, Evolution(n), UNCHANGED <<born, reports>>
    PROVE  [Life!Next]_(Life!vars)
<1> DEFINE stage == [m \in Names |-> StageOf(cleaners[m])]
<1>1. CASE cleaners' = cleaners
  BY <1>1 DEF Life!vars
<1>2. CASE cleaners' # cleaners
  <2>1. PICK o : Evolves(cleaners[n], o) /\ cleaners' = [cleaners EXCEPT ![n] = o]
    BY <1>2 DEF Evolution
  <2>2. stage' = [stage EXCEPT ![n] = StageOf(o)]
    BY <2>1, LifeTypesFacts
  <2>3. cleaners[n] \in Objects /\ cleaners[n] # Absent /\ stage[n] = StageOf(cleaners[n])
    BY <2>1, AbsentAssumption DEF Evolves
  <2>4. \/ stage[n] = StageOf(o)
        \/ stage[n] = "new" /\ StageOf(o) = "active"
        \/ stage[n] \in {"new", "active"} /\ StageOf(o) = "leaving"
        \/ stage[n] \in {"new", "leaving"} /\ StageOf(o) = "none"
    <3>1. o # Absent => o \in Objects
      BY <2>1 DEF Evolves
    <3>2. /\ cleaners[n].deleting \in BOOLEAN /\ cleaners[n].scheduled \in BOOLEAN
          /\ o # Absent => o.deleting \in BOOLEAN /\ o.scheduled \in BOOLEAN
      BY <2>3, <3>1 DEF Objects
    <3> QED
      BY <2>1, <2>3, <3>2 DEF Evolves, StageOf
  <2> HIDE DEF stage
  <2>5. CASE stage[n] = StageOf(o)
    <3>1. stage' = stage
      BY <2>2, <2>5 DEF stage
    <3> QED
      BY <3>1 DEF Life!vars, stage
  <2>6. CASE stage[n] = "new" /\ StageOf(o) = "active"
    BY <2>2, <2>6 DEF Life!Next, Life!Activate, Life!Become, stage
  <2>7. CASE stage[n] \in {"new", "active"} /\ StageOf(o) = "leaving"
    BY <2>2, <2>7 DEF Life!Next, Life!Leave, Life!Become, stage
  <2>8. CASE stage[n] \in {"new", "leaving"} /\ StageOf(o) = "none"
    BY <2>2, <2>8 DEF Life!Next, Life!Vanish, Life!Become, stage
  <2> QED
    BY <2>4, <2>5, <2>6, <2>7, <2>8
<1> QED
  BY <1>1, <1>2

LEMMA LifeMoves ==
    ASSUME LifeTypes, LifeInv, [Next]_vars
    PROVE  [Life!Next]_(Life!vars)
<1>1. ASSUME NEW n \in Names, Create(n)
      PROVE  Life!Appear(n)
  <2>1. /\ cleaners[n] = Absent /\ reports' = reports
        /\ born' = [born EXCEPT ![n] = @ + 1]
        /\ \E o : o \in Objects /\ ~o.deleting /\ ~o.scheduled
                  /\ cleaners' = [cleaners EXCEPT ![n] = o]
    <3> DEFINE o == [uid |-> born[n] + 1, finalizer |-> FALSE, old |-> FALSE, deleting |-> FALSE,
                     scheduled |-> FALSE, failure |-> FALSE]
    <3>1. o \in Objects /\ ~o.deleting /\ ~o.scheduled
      BY <1>1, LifeTypesFacts, MaxUidAssumption DEF Create, Objects
    <3>2. cleaners' = [cleaners EXCEPT ![n] = o]
      BY <1>1 DEF Create
    <3> QED
      BY <1>1, <3>1, <3>2 DEF Create
  <2>2. PICK o \in Objects : ~o.deleting /\ ~o.scheduled
                             /\ cleaners' = [cleaners EXCEPT ![n] = o]
    BY <2>1
  <2>3. StageOf(cleaners[n]) = "none" /\ StageOf(o) = "new"
    BY <2>1, <2>2, AbsentAssumption DEF StageOf
  <2>4. [m \in Names |-> StageOf(cleaners[m])]'
        = [[m \in Names |-> StageOf(cleaners[m])] EXCEPT ![n] = "new"]
    BY <2>2, <2>3, LifeTypesFacts
  <2> QED
    BY <2>1, <2>3, <2>4 DEF Life!Appear, Life!Become
<1>2. ASSUME NEW n \in Names,
             Delete(n) \/ AddFinalizerFails(n) \/ ReconcileNormal(n) \/ ScheduleFails(n)
      PROVE  [Life!Next]_(Life!vars)
  <2>1. Evolution(n)
    BY <1>2, NormalEvolution, OtherEvolution DEF LifeTypes
  <2>2. UNCHANGED <<born, reports>>
    BY <1>2 DEF Delete, AddFinalizerFails, ReconcileNormal, ScheduleFails
  <2> QED
    BY <2>1, <2>2, EvolutionImplements
<1>3. ASSUME NEW n \in Names, ReconcileDelete(n)
      PROVE  [Life!Next]_(Life!vars)
  <2>1. CASE RemoveFinalizer(n)
    <3>1. Evolution(n) /\ UNCHANGED <<born, reports>>
      BY <1>3, <2>1, OtherEvolution DEF LifeTypes, ReconcileDelete, RemoveFinalizer
    <3> QED
      BY <3>1, EvolutionImplements
  <2>2. CASE RemoveReport(n)
    <3>1. /\ cached[n] # Absent /\ cached[n].deleting
          /\ reports' = [reports EXCEPT ![n] = 0] \/ UNCHANGED reports
          /\ UNCHANGED <<cleaners, born>>
      BY <1>3, <2>2 DEF ReconcileDelete, RemoveReport
    <3>2. reports[n] < born[n] \/ cleaners[n] = Absent \/ cleaners[n].deleting
      <4>1. reports[n] <= cached[n].uid /\ cached[n].uid <= born[n]
            /\ (cached[n].uid = born[n] => cleaners[n] = Absent \/ cleaners[n].deleting)
        BY <3>1 DEF LifeInv, Known
      <4>2. reports[n] \in Nat /\ born[n] \in Nat /\ cached[n].uid \in Nat
        BY <3>1, LifeTypesFacts
      <4> QED
        BY <4>1, <4>2
    <3>3. reports[n] < born[n] \/ StageOf(cleaners[n]) \in {"none", "leaving"}
      BY <3>2 DEF StageOf
    <3> QED
      BY <3>1, <3>3 DEF Life!Next, Life!Withdraw, Life!vars
  <2> QED
    BY <1>3, <2>1, <2>2 DEF ReconcileDelete
<1>4. ASSUME NEW w \in Workers, WriteReport(w)
      PROVE  \E n \in Names : Life!Publish(n)
  <2>1. /\ running[w] \in Names /\ reading[w] # 0
        /\ reports' = [reports EXCEPT ![running[w]] = reading[w]]
        /\ UNCHANGED <<cleaners, born>>
    BY <1>4, LifeTypesFacts DEF WriteReport
  <2>2. reading[w] \in 1 .. born[running[w]]
    <3>1. reading[w] \in Nat /\ born[running[w]] \in Nat
      BY <2>1, LifeTypesFacts, MaxUidAssumption
    <3>2. reading[w] <= born[running[w]]
      BY <2>1, LifeTypesFacts DEF LifeInv, Known
    <3> QED
      BY <2>1, <3>1, <3>2
  <2> QED
    BY <2>1, <2>2 DEF Life!Publish
<1>5. ASSUME UNCHANGED <<cleaners, born, reports>>
      PROVE  UNCHANGED Life!vars
  BY <1>5 DEF Life!vars
<1>6. ASSUME NEW n \in Names, InformerSync(n) \/ ReconcileGone(n) \/ ReconcileFails(n)
      PROVE  UNCHANGED Life!vars
  BY <1>5, <1>6 DEF InformerSync, ReconcileGone, ReconcileFails
<1>7. ASSUME NEW w \in Workers, TakeRequest(w) \/ ReadCleaner(w) \/ StoreResult(w)
      PROVE  UNCHANGED Life!vars
  BY <1>5, <1>7 DEF TakeRequest, ReadCleaner, StoreResult
<1>8. CASE ReportSync \/ Crash \/ UNCHANGED vars
  BY <1>5, <1>8 DEF ReportSync, Crash, vars
<1> QED
  BY <1>1, <1>2, <1>3, <1>4, <1>6, <1>7, <1>8 DEF Next, Reconcile, Life!Next

(* The Cleaners of a name live as CleanerLife says: one on a schedule      *)
(* leaves before it vanishes, and no reconcileDelete, however stale the    *)
(* copy it was called for, takes the Report of a Cleaner that stays.       *)
THEOREM ImplementsCleanerLife == Spec => ImplementsLife
<1>1. Init => Life!Init
  <2> SUFFICES ASSUME Init
               PROVE  Life!Init
    OBVIOUS
  <2>1. born \in [Names -> Nat] /\ reports = [n \in Names |-> 0]
    BY DEF Init
  <2>2. \A o : StageOf(o) \in {"none", "new", "active", "leaving"}
    BY DEF StageOf
  <2> QED
    BY <2>1, <2>2 DEF Life!Init, Life!Stages
<1>2. LifeTypes /\ LifeInv /\ [Next]_vars => [Life!Next]_(Life!vars)
  BY LifeMoves
<1>3. ProtectionInv /\ ExecutorOK /\ RestOK => LifeTypes
  BY DEF LifeTypes
<1> QED
  BY <1>1, <1>2, <1>3, ProtectionInvariant, ExecutorInvariant, RestInvariant, LifeInvariant, PTL
  DEF Spec, ImplementsLife, Life!Spec
=============================================================================
