--------------------------- MODULE SchedulerProofs ---------------------------
(***************************************************************************)
(* Theorems about Scheduler, for every schedule, jitter and bound.         *)
(***************************************************************************)
EXTENDS Scheduler, FiniteSetTheorems, TLAPS

(* sched.Next(t) is a time after t, so that RequeueAfter is positive and   *)
(* the loop that counts the missed starts ends; and it is at most one      *)
(* period away.                                                            *)
LEMMA NextSlotIsLater ==
    ASSUME NEW spec \in Specs, NEW t \in Nat
    PROVE  /\ NextSlot(spec, t) \in Nat
           /\ NextSlot(spec, t) > t
           /\ NextSlot(spec, t) <= t + spec.period
<1> DEFINE p == spec.period
           q == t \div p
<1>1. p \in Nat \ {0}
  BY SpecsAssumption
<1>2. CASE spec.kind = "every"
  BY <1>1, <1>2 DEF NextSlot
<1>3. CASE spec.kind # "every"
  <2>1. /\ q \in Nat
        /\ q * p <= t
        /\ t < (q + 1) * p
        /\ (q + 1) * p = q * p + p
    BY <1>1
  <2>2. NextSlot(spec, t) = (q + 1) * p
    BY <1>3 DEF NextSlot
  <2>3. (q + 1) * p \in Nat /\ q * p \in Nat
    BY <1>1, <2>1
  <2> HIDE DEF q, p
  <2> QED
    BY <1>1, <2>1, <2>2, <2>3 DEF p
<1> QED
  BY <1>2, <1>3

LEMMA NeverIsNoTime == Never \notin Nat
  BY NeverAssumption

LEMMA SoonerIsTime ==
    ASSUME NEW s \in Time, NEW t \in Nat
    PROVE  Sooner(s, t) \in Time
  BY DEF Sooner, Time

(* The patch of a reconciliation leaves a well-formed object. *)
LEMMA PatchedIsObject ==
    ASSUME TypeOK, work # Idle
    PROVE  PatchedStatus \in Objects
  BY DEF TypeOK, Works, Objects, PatchedStatus

(* A reconciliation that succeeded will ask for a positive RequeueAfter.   *)
RequeueIsPositive ==
    work # Idle /\ work.ok => work.next \in Nat /\ work.next > work.at

(* Whatever is edited, fails or crashes, the clock, the persisted object,  *)
(* the cached one and the timers are what their types say; the timer in    *)
(* particular is a time: RequeueAfter never goes below zero.               *)
THEOREM TypeCorrect == Spec => [](TypeOK /\ RequeueIsPositive)
<1>1. Init => TypeOK /\ RequeueIsPositive
  <2> SUFFICES ASSUME Init
               PROVE  TypeOK /\ RequeueIsPositive
    OBVIOUS
  <2>1. PICK s \in Specs :
          cleaner = [spec |-> s, generation |-> 0, last |-> Never, next |-> Never]
    BY DEF Init
  <2>2. cleaner \in Objects
    BY <2>1 DEF Objects, Time
  <2> QED
    BY <2>2 DEF Init, TypeOK, Time, RequeueIsPositive
<1>2. TypeOK /\ RequeueIsPositive /\ [Next]_vars => TypeOK' /\ RequeueIsPositive'
  <2> SUFFICES ASSUME TypeOK, RequeueIsPositive, [Next]_vars
               PROVE  TypeOK' /\ RequeueIsPositive'
    OBVIOUS
  <2>a. ASSUME NEW d \in 1 .. MaxBackoff
        PROVE  Sooner(timer, now + d) \in Time
    <3>1. now + d \in Nat
      BY TimesAssumption DEF TypeOK
    <3> QED
      BY <3>1, SoonerIsTime DEF TypeOK
  <2>1. CASE Reconcile
    <3> DEFINE ok == HasNext(cache, now)
               run == ok /\ cache.next # Never /\ ShouldSchedule(cache, now)
               l == IF run THEN now ELSE cache.last
               n == IF ok THEN NextSlot(cache.spec, now) ELSE cache.next
    <3>1. cache \in Objects /\ cache.spec \in Specs /\ now \in Nat
      BY DEF TypeOK, Objects
    <3>2. l \in Time /\ n \in Time
      BY <3>1, NextSlotIsLater DEF Objects, Time
    <3>3. ok \in BOOLEAN
      BY DEF HasNext
    <3>4. work' = [at |-> now, base |-> cache, ok |-> ok, last |-> l, next |-> n]
      BY <2>1 DEF Reconcile
    <3>5. work' \in Works
      <4> HIDE DEF ok, l, n
      <4> QED
        BY <3>1, <3>2, <3>3, <3>4, Zenon DEF Works
    <3>6. /\ ready' = Never
          /\ lastCall' \in {now, lastCall}
          /\ UNCHANGED <<now, cleaner, cache, up, crashes, timer, stale>>
      BY <2>1 DEF Reconcile
    <3>7. TypeOK'
      BY <3>5, <3>6 DEF TypeOK, Time
    <3>8. RequeueIsPositive'
      <4> SUFFICES ASSUME ok
                   PROVE  n \in Nat /\ n > now
        BY <3>4 DEF RequeueIsPositive
      <4> QED
        BY <3>1, NextSlotIsLater
    <3> QED
      BY <3>7, <3>8
  <2>2. CASE ReconcileFails
    BY <2>2, <2>a DEF ReconcileFails, TypeOK, Time, RequeueIsPositive
  <2>3. CASE Close
    <3>1. cleaner' \in Objects
      BY <2>3, PatchedIsObject DEF Close
    <3>2. timer' \in Time
      <4>1. CASE ~work.ok
        BY <2>3, <2>a, <4>1 DEF Close
      <4>2. CASE work.ok
        <5>1. work \in Works /\ now \in Nat
          BY <2>3 DEF Close, TypeOK
        <5>2. work.at \in Nat /\ work.next \in Nat /\ work.next > work.at
          BY <2>3, <4>2, <5>1 DEF Close, RequeueIsPositive, Works
        <5>3. now + (work.next - work.at) \in Nat
          BY <5>1, <5>2
        <5>4. timer' = Sooner(timer, now + (work.next - work.at))
          BY <2>3, <4>2 DEF Close
        <5> QED
          BY <5>3, <5>4, SoonerIsTime DEF TypeOK
      <4> QED
        BY <4>1, <4>2
    <3> QED
      BY <2>3, <3>1, <3>2 DEF Close, TypeOK, RequeueIsPositive
  <2>4. CASE CloseFails
    BY <2>4, <2>a DEF CloseFails, TypeOK, RequeueIsPositive
  <2>5. CASE TimerFires
    BY <2>5 DEF TimerFires, Enqueued, TypeOK, Time, RequeueIsPositive
  <2>6. CASE InformerSync
    BY <2>6 DEF InformerSync, Enqueued, TypeOK, Time, RequeueIsPositive
  <2>7. CASE EditSpec
    <3>1. PICK s \in Specs :
            cleaner' = [cleaner EXCEPT !.spec = s, !.generation = @ + 1]
      BY <2>7 DEF EditSpec
    <3>a. /\ cleaner.generation + 1 \in Nat
          /\ cleaner.last \in Time
          /\ cleaner.next \in Time
      BY DEF TypeOK, Objects
    <3>b. cleaner' = [spec |-> s, generation |-> cleaner.generation + 1,
                      last |-> cleaner.last, next |-> cleaner.next]
      BY <3>1 DEF TypeOK, Objects
    <3>2. cleaner' \in Objects
      BY <3>a, <3>b DEF Objects
    <3> QED
      BY <2>7, <3>2 DEF EditSpec, TypeOK, RequeueIsPositive
  <2>8. CASE Crash
    <3>1. work' = Idle /\ up' = FALSE /\ crashes' = crashes + 1
      BY <2>8 DEF Crash
    <3>2. crashes' \in Nat
      BY <3>1 DEF TypeOK
    <3>3. ready' = Never /\ timer' = Never /\ UNCHANGED <<now, cleaner, cache, lastCall, stale>>
      BY <2>8 DEF Crash
    <3>4. TypeOK'
      BY <3>1, <3>2, <3>3 DEF TypeOK, Time
    <3> QED
      BY <3>1, <3>4 DEF RequeueIsPositive
  <2>9. CASE Restart
    BY <2>9 DEF Restart, TypeOK, Time, RequeueIsPositive
  <2>10. CASE Tick
    BY <2>10 DEF Tick, TypeOK, RequeueIsPositive
  <2>11. CASE UNCHANGED vars
    BY <2>11 DEF vars, TypeOK, RequeueIsPositive
  <2> QED
    BY <2>1, <2>2, <2>3, <2>4, <2>5, <2>6, <2>7, <2>8, <2>9, <2>10, <2>11 DEF Next
<1>3. QED
  BY <1>1, <1>2, PTL DEF Spec

-----------------------------------------------------------------------------
(* Where a run known to an object comes from: a call of Process. *)
LEMMA KnownRunGrows ==
    ASSUME TypeOK, NEW t \in Time, KnownRun(t), lastCall # Never => lastCall <= now
    PROVE  t # Never => t <= now /\ t \in Nat
<1>1. ASSUME t # Never
      PROVE  t <= now /\ t \in Nat
  <2>1. t \in Nat /\ lastCall \in Nat /\ now \in Nat
    BY <1>1 DEF TypeOK, Time, KnownRun
  <2>2. t <= lastCall /\ lastCall <= now
    BY <1>1 DEF KnownRun
  <2> QED
    BY <2>1, <2>2
<1> QED
  BY <1>1

(* The strengthening behind NoSlotSkipped: a reconciliation that finds its *)
(* slot come either calls Process now, or leaves it because of a run less  *)
(* than Ignore - Jitter before, which is less than Ignore before the slot. *)
THEOREM SlotsAreKept == Spec => []SlotInv
<1>1. Init => SlotInv
  BY DEF Init, SlotInv, KnownRun
<1>2. TypeOK /\ SlotInv /\ [Next]_vars => SlotInv'
  <2> SUFFICES ASSUME TypeOK, SlotInv, [Next]_vars
               PROVE  SlotInv'
    OBVIOUS
  <2>0. /\ now \in Nat
        /\ lastCall \in Time
        /\ cleaner \in Objects /\ cleaner.last \in Time /\ cleaner.next \in Time
        /\ cache \in Objects /\ cache.last \in Time /\ cache.next \in Time
        /\ Jitter \in Nat /\ Ignore \in Nat /\ Ignore > 0
    BY TimesAssumption, IgnoreAssumption DEF TypeOK, Objects
  <2>1. CASE Reconcile
    <3> DEFINE ok == HasNext(cache, now)
               run == ok /\ cache.next # Never /\ ShouldSchedule(cache, now)
               l == IF run THEN now ELSE cache.last
               n == IF ok THEN NextSlot(cache.spec, now) ELSE cache.next
    <3>1. work' = [at |-> now, base |-> cache, ok |-> ok, last |-> l, next |-> n]
      BY <2>1 DEF Reconcile
    <3>2. /\ lastCall' = IF run THEN now ELSE lastCall
          /\ UNCHANGED <<now, cleaner, cache>>
      BY <2>1 DEF Reconcile
    <3>3. /\ KnownRun(cleaner.last)
          /\ KnownRun(cache.last)
          /\ lastCall # Never => lastCall <= now
      BY DEF SlotInv
    <3>4. /\ cleaner.last # Never => cleaner.last <= now
          /\ cache.last # Never => cache.last <= now
      BY <2>0, <3>3, KnownRunGrows
    <3>5. now # Never
      BY <2>0, NeverIsNoTime
    <3>6. lastCall' # Never => lastCall' <= now'
      BY <2>0, <3>2, <3>3
    <3>7. KnownRun(cleaner.last)' /\ KnownRun(cache.last)'
      BY <3>2, <3>3, <3>4, <3>5 DEF KnownRun
    <3>8. KnownRun(work.last)'
      <4>1. work'.last = l
        BY <3>1
      <4> QED
        BY <2>0, <3>2, <3>3, <3>5, <4>1 DEF KnownRun
    <3>9. ASSUME n # cache.next, cache.next # Never, cache.next <= now
          PROVE  lastCall' # Never /\ lastCall' > cache.next - Ignore
      <4>1. ok /\ cache.next \in Nat
        BY <2>0, <3>9 DEF Time
      <4>2. CASE run
        BY <2>0, <3>2, <3>5, <3>9, <4>1, <4>2
      <4>3. CASE ~run
        <5>1. ~ShouldSchedule(cache, now)
          BY <3>9, <4>1, <4>3
        <5>2. cache.last # Never /\ ~(now + Jitter - cache.last >= Ignore)
          BY <2>0, <3>9, <4>1, <5>1 DEF ShouldSchedule
        <5>3. cache.last \in Nat /\ lastCall \in Nat /\ cache.last <= lastCall
          BY <2>0, <3>3, <5>2 DEF KnownRun, Time
        <5>4. lastCall > cache.next - Ignore
          BY <2>0, <3>9, <4>1, <5>2, <5>3
        <5> QED
          BY <3>2, <4>3, <5>3, <5>4, NeverIsNoTime
      <4> QED
        BY <4>2, <4>3
    <3>10. work'.at = now /\ work'.base = cache /\ work'.next = n
      BY <3>1
    <3> HIDE DEF n, l, run, ok
    <3> QED
      BY <3>6, <3>7, <3>8, <3>9, <3>10 DEF SlotInv
  <2>2. CASE ReconcileFails
    BY <2>2 DEF ReconcileFails, SlotInv, KnownRun
  <2>3. CASE Close
    <3>1. /\ work # Idle
          /\ work' = Idle
          /\ cleaner' = PatchedStatus
          /\ UNCHANGED <<now, cache, lastCall>>
      BY <2>3 DEF Close
    <3>2. PatchedStatus.last \in {cleaner.last, work.last}
      BY <2>0 DEF PatchedStatus, Objects
    <3>3. KnownRun(cleaner.last)'
      BY <3>1, <3>2 DEF SlotInv, KnownRun
    <3> QED
      BY <3>1, <3>3 DEF SlotInv, KnownRun
  <2>4. CASE CloseFails
    BY <2>4 DEF CloseFails, SlotInv, KnownRun
  <2>5. CASE TimerFires
    BY <2>5 DEF TimerFires, SlotInv, KnownRun
  <2>6. CASE InformerSync
    BY <2>6 DEF InformerSync, SlotInv, KnownRun
  <2>7. CASE EditSpec
    <3>1. cleaner'.last = cleaner.last
      BY <2>0, <2>7 DEF EditSpec, Objects
    <3> QED
      BY <2>7, <3>1 DEF EditSpec, SlotInv, KnownRun
  <2>8. CASE Crash
    BY <2>8 DEF Crash, SlotInv, KnownRun
  <2>9. CASE Restart
    BY <2>9 DEF Restart, SlotInv, KnownRun
  <2>10. CASE Tick
    <3>1. /\ now' = now + 1
          /\ UNCHANGED <<cleaner, cache, work, lastCall>>
      BY <2>10 DEF Tick
    <3>2. lastCall' # Never => lastCall' <= now'
      BY <2>0, <3>1 DEF SlotInv, Time
    <3> QED
      BY <3>1, <3>2 DEF SlotInv, KnownRun
  <2>11. CASE UNCHANGED vars
    BY <2>11 DEF vars, SlotInv, KnownRun
  <2> QED
    BY <2>1, <2>2, <2>3, <2>4, <2>5, <2>6, <2>7, <2>8, <2>9, <2>10, <2>11 DEF Next
<1>3. QED
  BY <1>1, <1>2, TypeCorrect, PTL DEF Spec

(* No slot is passed over without a run: the step that replaces a schedule *)
(* time that has come is the patch of a reconciliation that ran it.        *)
THEOREM SlotsAreServed == Spec => NoSlotSkipped
<1> DEFINE A == /\ cleaner'.next # cleaner.next
                /\ cleaner.next # Never
                /\ work # Idle
                /\ cleaner.next = work.base.next
                /\ cleaner.next <= work.at
           B == lastCall # Never /\ lastCall > cleaner.next - Ignore
<1>1. TypeOK /\ SlotInv /\ [Next]_vars => [A => B]_vars
  <2> SUFFICES ASSUME TypeOK, SlotInv, Next, A
               PROVE  B
    BY DEF vars
  <2>0. cleaner \in Objects
    BY DEF TypeOK
  <2>1. CASE Close
    <3>1. cleaner' = PatchedStatus
      BY <2>1 DEF Close
    <3>2. work.next # work.base.next
      BY <2>0, <3>1 DEF PatchedStatus, Objects
    <3> QED
      BY <3>2 DEF SlotInv
  <2>2. CASE EditSpec
    <3>1. cleaner'.next = cleaner.next
      BY <2>0, <2>2 DEF EditSpec, Objects
    <3> QED
      BY <3>1
  <2>3. ASSUME cleaner' = cleaner
        PROVE  B
    BY <2>3
  <2> QED
    BY <2>1, <2>2, <2>3 DEF Next, Reconcile, ReconcileFails, CloseFails, TimerFires,
                            InformerSync, Crash, Restart, Tick
<1>2. QED
  BY <1>1, TypeCorrect, SlotsAreKept, PTL DEF Spec, NoSlotSkipped

-----------------------------------------------------------------------------
(* Once the status of a run is saved, the next run is not asked for before *)
(* Ignore - Jitter have passed.                                            *)
THEOREM RunsAreSpaced == Spec => SpacedRuns
<1>1. TypeOK /\ [Next]_vars =>
      [(Runs /\ lastCall # Never /\ cleaner.last = lastCall /\ cache = cleaner)
       => lastCall' - lastCall >= Ignore - Jitter]_vars
  <2> SUFFICES ASSUME TypeOK, Next, Runs, lastCall # Never, cleaner.last = lastCall,
                      cache = cleaner
               PROVE  lastCall' - lastCall >= Ignore - Jitter
    BY DEF vars
  <2>1. Reconcile
    BY DEF Next, Runs, ReconcileFails, Close, CloseFails, TimerFires, InformerSync, EditSpec,
           Crash, Restart, Tick
  <2>2. lastCall' = now /\ ShouldSchedule(cache, now)
    BY <2>1 DEF Reconcile, Runs
  <2>3. now \in Nat /\ lastCall \in Nat /\ Jitter \in Nat /\ Ignore \in Nat
    BY TimesAssumption DEF TypeOK, Time
  <2>4. now + Jitter - lastCall >= Ignore
    BY <2>2 DEF ShouldSchedule
  <2> QED
    BY <2>2, <2>3, <2>4
<1> QED
  BY <1>1, TypeCorrect, PTL DEF Spec, SpacedRuns

-----------------------------------------------------------------------------
(* Whatever the cache shows: a controller that is up, and neither works on *)
(* the Cleaner nor has it queued, has a timer for it; and a reconciliation *)
(* is younger than MaxReconcile.                                           *)
WakeInv ==
    /\ work # Idle => up /\ now - work.at <= MaxReconcile
    /\ (up /\ ready = Never /\ work = Idle) =>
        /\ timer # Never
        /\ (cleaner.next # Never /\ ~stale) =>
             \/ timer <= cleaner.next + MaxReconcile
             \/ timer <= now + MaxBackoff

(* Whatever failed, crashed or was edited, the reconciler does not sleep   *)
(* through a slot.                                                         *)
THEOREM NeverOversleeps == Spec => []WakesForNextSlot
<1>1. Init => WakeInv
  BY NeverIsNoTime DEF Init, WakeInv
<1>2. TypeOK /\ RequeueIsPositive /\ WakeInv /\ [Next]_vars => WakeInv'
  <2> SUFFICES ASSUME TypeOK, RequeueIsPositive, WakeInv, [Next]_vars
               PROVE  WakeInv'
    OBVIOUS
  <2>0. /\ now \in Nat /\ timer \in Time /\ MaxReconcile \in Nat /\ MaxBackoff \in Nat
        /\ now # Never
        /\ work # Idle => /\ work.at \in Nat /\ work.base.next \in Time /\ work.next \in Time
    BY TimesAssumption, NeverIsNoTime DEF TypeOK, Works, Objects
  <2>1. ASSUME NEW s \in Time, NEW t \in Nat
        PROVE  Sooner(s, t) \in Nat /\ Sooner(s, t) <= t
    BY <2>1 DEF Sooner, Time
  <2>2. ASSUME NEW d \in 1 .. MaxBackoff, timer' = Sooner(timer, now + d)
        PROVE  timer' \in Nat /\ timer' <= now + MaxBackoff
    <3>1. now + d \in Nat /\ now + d <= now + MaxBackoff
      BY <2>0
    <3>2. timer' \in Nat /\ timer' <= now + d
      BY <2>0, <2>1, <2>2, <3>1
    <3> QED
      BY <2>0, <3>1, <3>2
  <2>3. CASE Reconcile
    <3>1. work'.at = now /\ now' = now /\ up' = up /\ up /\ work' # Idle
      <4>1. work'.at = now /\ now' = now /\ up' = up /\ up
        BY <2>3 DEF Reconcile
      <4> QED
        BY <2>0, <4>1 DEF Idle
    <3> QED
      BY <2>0, <3>1 DEF WakeInv
  <2>4. CASE ReconcileFails
    <3>1. timer' \in Nat /\ timer' <= now + MaxBackoff /\ work = Idle
      BY <2>2, <2>4 DEF ReconcileFails
    <3> QED
      BY <2>4, <3>1, NeverIsNoTime DEF ReconcileFails, WakeInv
  <2>5. CASE Close
    <3>1. work # Idle /\ work' = Idle /\ UNCHANGED <<now, up, ready>>
      BY <2>5 DEF Close
    <3>2. CASE ~work.ok
      <4>1. timer' \in Nat /\ timer' <= now + MaxBackoff
        BY <2>2, <2>5, <3>2 DEF Close
      <4> QED
        BY <3>1, <4>1, NeverIsNoTime DEF WakeInv
    <3>3. CASE work.ok
      <4>1. work.next \in Nat /\ work.next > work.at /\ now - work.at <= MaxReconcile
        BY <3>1, <3>3 DEF RequeueIsPositive, WakeInv
      <4>2. /\ now + (work.next - work.at) \in Nat
            /\ now + (work.next - work.at) <= work.next + MaxReconcile
        BY <2>0, <3>1, <4>1
      <4>3. timer' = Sooner(timer, now + (work.next - work.at))
        BY <2>5, <3>3 DEF Close
      <4>4. timer' \in Nat /\ timer' <= work.next + MaxReconcile
        <5>1. timer' \in Nat /\ timer' <= now + (work.next - work.at)
          BY <2>0, <2>1, <4>2, <4>3
        <5> QED
          BY <2>0, <4>1, <4>2, <5>1
      <4>5. ~stale' => cleaner'.next = work.next
        <5>1. cleaner' = PatchedStatus /\ stale' = (cleaner.next # work.base.next)
          BY <2>5 DEF Close
        <5>2. cleaner'.next = IF work.next = work.base.next THEN cleaner.next ELSE work.next
          BY <5>1 DEF TypeOK, Objects, PatchedStatus
        <5> QED
          BY <5>1, <5>2
      <4> QED
        BY <3>1, <4>4, <4>5, NeverIsNoTime DEF WakeInv
    <3> QED
      BY <3>2, <3>3
  <2>6. CASE CloseFails
    <3>1. /\ timer' \in Nat /\ timer' <= now + MaxBackoff
          /\ work' = Idle /\ UNCHANGED <<now, cleaner, stale>>
      BY <2>2, <2>6 DEF CloseFails
    <3> QED
      BY <3>1, NeverIsNoTime DEF WakeInv
  <2>7. CASE TimerFires
    <3>1. ready' # Never /\ UNCHANGED <<now, up, work>>
      BY <2>0, <2>7 DEF TimerFires, Enqueued
    <3> QED
      BY <3>1 DEF WakeInv
  <2>8. CASE InformerSync
    <3>1. ready' # Never \/ ready' = ready
      BY <2>0, <2>8 DEF InformerSync, Enqueued
    <3> QED
      BY <2>8, <3>1 DEF InformerSync, WakeInv
  <2>9. CASE EditSpec
    <3>1. cleaner'.next = cleaner.next /\ UNCHANGED <<now, up, ready, timer, work, stale>>
      BY <2>9 DEF EditSpec, TypeOK, Objects
    <3> QED
      BY <3>1 DEF WakeInv
  <2>10. CASE Crash
    BY <2>10 DEF Crash, WakeInv
  <2>11. CASE Restart
    <3>1. work = Idle
      BY <2>11 DEF Restart, WakeInv
    <3> QED
      BY <2>0, <2>11, <3>1 DEF Restart, WakeInv
  <2>12. CASE Tick
    <3>1. /\ now' = now + 1
          /\ UNCHANGED <<cleaner, up, ready, timer, work, stale>>
          /\ up /\ work # Idle => now - work.at < MaxReconcile
      BY <2>12 DEF Tick
    <3>2. work' # Idle => up' /\ now' - work'.at <= MaxReconcile
      BY <2>0, <3>1 DEF WakeInv
    <3>3. timer # Never /\ timer <= now + MaxBackoff => timer' <= now' + MaxBackoff
      BY <2>0, <3>1 DEF Time
    <3> QED
      BY <3>1, <3>2, <3>3 DEF WakeInv
  <2>13. CASE UNCHANGED vars
    BY <2>13 DEF vars, WakeInv
  <2> QED
    BY <2>3, <2>4, <2>5, <2>6, <2>7, <2>8, <2>9, <2>10, <2>11, <2>12, <2>13 DEF Next
<1>3. WakeInv => WakesForNextSlot
  BY DEF WakeInv, WakesForNextSlot
<1> QED
  BY <1>1, <1>2, <1>3, TypeCorrect, PTL DEF Spec

-----------------------------------------------------------------------------
(* Between two multiples of a number the quotient does not change. *)
LEMMA SameQuotient ==
    ASSUME NEW p \in Nat \ {0}, NEW u \in Nat, NEW t \in Nat, u <= t,
           (u \div p + 1) * p > t
    PROVE  t \div p = u \div p
<1> DEFINE q == u \div p
           r == t \div p
<1>1. q \in Nat /\ q * p <= u
  BY Z3
<1>2. r \in Nat /\ r * p <= t /\ t < (r + 1) * p
  BY Z3
<1>3. (q + 1) * p > t
  OBVIOUS
<1> HIDE DEF q, r
<1>4. ~(q < r)
  <2> SUFFICES ASSUME q < r
               PROVE  FALSE
    OBVIOUS
  <2>1. q + 1 <= r
    BY <1>1, <1>2
  <2>2. (q + 1) * p <= r * p
    BY <1>1, <1>2, <2>1, Z3
  <2>3. (q + 1) * p \in Nat /\ r * p \in Nat
    BY <1>1, <1>2
  <2> QED
    BY <1>2, <1>3, <2>2, <2>3
<1>5. ~(r < q)
  <2> SUFFICES ASSUME r < q
               PROVE  FALSE
    OBVIOUS
  <2>1. r + 1 <= q
    BY <1>1, <1>2
  <2>2. (r + 1) * p <= q * p
    BY <1>1, <1>2, <2>1, Z3
  <2>3. (r + 1) * p \in Nat /\ q * p \in Nat
    BY <1>1, <1>2
  <2> QED
    BY <1>1, <1>2, <2>2, <2>3
<1>6. q = r
  BY <1>1, <1>2, <1>4, <1>5
<1> QED
  BY <1>6 DEF q, r

(* A slot that was the next one some time before t. *)
SlotBefore(spec, slot, t) ==
    slot # Never => \E u \in 0 .. t : slot = NextSlot(spec, u)

(* As long as the spec is the first one, what is persisted is a slot of    *)
(* it, and a reconciliation replaces it by the slot after its own time.    *)
FirstSpecInv ==
    cleaner.generation = 0 =>
        /\ cache.spec = cleaner.spec
        /\ SlotBefore(cleaner.spec, cleaner.next, now)
        /\ work # Idle =>
             /\ work.base.spec = cleaner.spec
             /\ work.at <= now
             /\ work.next = work.base.next \/ work.next = NextSlot(cleaner.spec, work.at)
             /\ SlotBefore(cleaner.spec, cleaner.next, work.at)

LEMMA FirstSpec == Spec => []FirstSpecInv
<1>1. Init => FirstSpecInv
  BY DEF Init, FirstSpecInv, SlotBefore
<1>2. TypeOK /\ FirstSpecInv /\ [Next]_vars => FirstSpecInv'
  <2> SUFFICES ASSUME TypeOK, FirstSpecInv, [Next]_vars, cleaner'.generation = 0
               PROVE  FirstSpecInv'
    BY DEF FirstSpecInv
  <2>0. /\ now \in Nat
        /\ cleaner \in Objects /\ cleaner.generation \in Nat /\ cache \in Objects
        /\ work # Idle => work.at \in Nat
    BY DEF TypeOK, Objects, Works
  <2>1. CASE Reconcile
    <3>1. /\ work'.at = now /\ work'.base = cache
          /\ work'.next = cache.next \/ work'.next = NextSlot(cache.spec, now)
          /\ UNCHANGED <<now, cleaner, cache>>
      BY <2>1 DEF Reconcile
    <3> QED
      BY <2>0, <3>1 DEF FirstSpecInv
  <2>2. CASE Close
    <3>1. /\ work # Idle /\ work' = Idle /\ cleaner' = PatchedStatus
          /\ UNCHANGED <<now, cache>>
      BY <2>2 DEF Close
    <3>2. /\ cleaner'.generation = cleaner.generation /\ cleaner'.spec = cleaner.spec
          /\ cleaner'.next = IF work.next = work.base.next THEN cleaner.next ELSE work.next
      BY <2>0, <3>1 DEF PatchedStatus, Objects
    <3>3. SlotBefore(cleaner.spec, cleaner'.next, now)
      <4>1. CASE work.next = work.base.next
        BY <3>2, <4>1 DEF FirstSpecInv
      <4>2. CASE work.next # work.base.next
        <5>1. cleaner'.next = NextSlot(cleaner.spec, work.at) /\ work.at \in 0 .. now
          BY <2>0, <3>1, <3>2, <4>2 DEF FirstSpecInv
        <5> QED
          BY <5>1 DEF SlotBefore
      <4> QED
        BY <4>1, <4>2
    <3> QED
      BY <3>1, <3>2, <3>3 DEF FirstSpecInv
  <2>3. CASE EditSpec
    <3>1. cleaner'.generation = cleaner.generation + 1
      BY <2>0, <2>3 DEF EditSpec, Objects
    <3> QED
      BY <2>0, <3>1
  <2>4. CASE InformerSync
    BY <2>4 DEF InformerSync, FirstSpecInv
  <2>5. CASE Crash
    BY <2>5 DEF Crash, FirstSpecInv
  <2>6. CASE Restart
    BY <2>6 DEF Restart, FirstSpecInv
  <2>7. CASE CloseFails
    BY <2>7 DEF CloseFails, FirstSpecInv
  <2>8. CASE Tick
    <3>1. now' = now + 1 /\ UNCHANGED <<cleaner, cache, work>>
      BY <2>8 DEF Tick
    <3>2. 0 .. now \subseteq 0 .. now'
      BY <2>0, <3>1
    <3>3. SlotBefore(cleaner.spec, cleaner.next, now')
      BY <3>1, <3>2 DEF FirstSpecInv, SlotBefore
    <3>4. work # Idle => work.at <= now'
      BY <2>0, <3>1 DEF FirstSpecInv
    <3> QED
      BY <3>1, <3>3, <3>4 DEF FirstSpecInv
  <2>9. CASE ReconcileFails \/ TimerFires \/ UNCHANGED vars
    BY <2>9 DEF ReconcileFails, TimerFires, vars, FirstSpecInv
  <2> QED
    BY <2>1, <2>2, <2>3, <2>4, <2>5, <2>6, <2>7, <2>8, <2>9 DEF Next
<1> QED
  BY <1>1, <1>2, TypeCorrect, PTL DEF Spec

(* The slot of a cron schedule that is still to come is not put off by     *)
(* what happens before it.                                                 *)
THEOREM CronSlotsStay == Spec => SlotNotPutOff
<1> DEFINE A == /\ cleaner'.next # cleaner.next
                /\ cleaner.next # Never
                /\ cleaner.generation = 0
                /\ cleaner.spec.kind = "cron"
<1>1. TypeOK /\ FirstSpecInv /\ [Next]_vars => [A => cleaner.next <= now]_vars
  <2> SUFFICES ASSUME TypeOK, FirstSpecInv, Next, A
               PROVE  cleaner.next <= now
    BY DEF vars
  <2>0. /\ cleaner \in Objects /\ cleaner.next \in Nat /\ now \in Nat
        /\ cleaner.spec \in Specs
    BY DEF TypeOK, Objects, Time
  <2>1. Close
    <3>1. CASE EditSpec
      BY <2>0, <3>1 DEF EditSpec, Objects
    <3> QED
      BY <3>1 DEF Next, Reconcile, ReconcileFails, CloseFails, TimerFires, InformerSync, Crash,
                  Restart, Tick
  <2>2. /\ work # Idle
        /\ work.next = NextSlot(cleaner.spec, work.at)
        /\ cleaner.next # work.next
    <3>1. work # Idle /\ cleaner' = PatchedStatus
      BY <2>1 DEF Close
    <3>2. cleaner'.next = IF work.next = work.base.next THEN cleaner.next ELSE work.next
      BY <2>0, <3>1 DEF PatchedStatus, Objects
    <3> QED
      BY <3>1, <3>2 DEF FirstSpecInv
  <2>3. work.at \in Nat /\ work.at <= now
    BY <2>2 DEF TypeOK, Works, FirstSpecInv
  <2>4. PICK u \in 0 .. work.at : cleaner.next = NextSlot(cleaner.spec, u)
    BY <2>2 DEF FirstSpecInv, SlotBefore
  <2> DEFINE p == cleaner.spec.period
  <2>5. p \in Nat \ {0}
    BY <2>0, SpecsAssumption
  <2>6. NextSlot(cleaner.spec, u) = (u \div p + 1) * p
        /\ NextSlot(cleaner.spec, work.at) = (work.at \div p + 1) * p
    BY DEF NextSlot
  <2> HIDE DEF p
  <2>7. ~(cleaner.next > work.at)
    <3> SUFFICES ASSUME cleaner.next > work.at
                 PROVE  FALSE
      OBVIOUS
    <3>1. u \in Nat /\ u <= work.at /\ (u \div p + 1) * p > work.at
      BY <2>3, <2>4, <2>6
    <3>2. work.at \div p = u \div p
      BY <2>3, <2>5, <3>1, SameQuotient
    <3> QED
      BY <2>2, <2>4, <2>6, <3>2
  <2> QED
    BY <2>0, <2>3, <2>7
<1> QED
  BY <1>1, TypeCorrect, FirstSpec, PTL DEF Spec, SlotNotPutOff

-----------------------------------------------------------------------------
(* Two numbers less than p apart that fire at the same phase are the same. *)
LEMMA SamePhase ==
    ASSUME NEW p \in Nat \ {0}, NEW x \in Int, NEW y \in Int,
           x % p = 0, y % p = 0, x - y < p, y - x < p
    PROVE  x = y
<1> DEFINE q == x \div p
           r == y \div p
<1>1. q \in Int /\ r \in Int /\ x = p * q /\ y = p * r
  OBVIOUS
<1> HIDE DEF q, r
<1>2. p * q - p * r = p * (q - r)
  BY <1>1
<1>3. CASE q - r >= 1
  <2>1. p * (q - r) >= p * 1
    BY <1>1, <1>3
  <2> QED
    BY <1>1, <1>2, <2>1
<1>4. CASE r - q >= 1
  <2>1. p * (r - q) >= p * 1 /\ p * r - p * q = p * (r - q)
    BY <1>1, <1>4
  <2> QED
    BY <1>1, <2>1
<1> QED
  BY <1>1, <1>3, <1>4

(* An interval of m periods holds at most m starts. *)
LEMMA MissedAreFew ==
    ASSUME NEW spec \in Specs, NEW from \in Nat, NEW to \in Nat, NEW m \in Nat,
           to - from <= m * spec.period
    PROVE  Cardinality(MissedStarts(spec, from, to)) <= m
<1> DEFINE p == spec.period
           origin == IF spec.kind = "every" THEN from ELSE 0
           S == {x \in (from + 1) .. (to - 1) : (x - origin) % p = 0}
           f == [x \in S |-> (x - from - 1) \div p]
<1>1. p \in Nat \ {0} /\ origin \in Nat
  BY SpecsAssumption
<1>2. MissedStarts(spec, from, to) = S
  BY DEF MissedStarts
<1>3. ASSUME NEW x \in S
      PROVE  f[x] \in 0 .. (m - 1)
  <2> DEFINE d == x - from - 1
             q == d \div p
  <2>1. d \in Nat /\ d < m * p
    <3>1. x \in (from + 1) .. (to - 1) /\ m * p \in Nat /\ to - from <= m * p
      BY <1>1, <1>3
    <3> HIDE DEF p
    <3> QED
      BY <3>1
  <2>2. q \in Nat /\ p * q <= d
    BY <1>1, <2>1
  <2>3. q < m
    <3> SUFFICES ASSUME q >= m
                 PROVE  FALSE
      BY <2>2
    <3>1. p * q >= p * m /\ p * m = m * p
      BY <1>1, <2>2
    <3> QED
      BY <1>1, <2>1, <2>2, <3>1
  <2> QED
    BY <2>2, <2>3
<1>4. ASSUME NEW x \in S, NEW y \in S, f[x] = f[y]
      PROVE  x = y
  <2> DEFINE d == x - from - 1
             e == y - from - 1
  <2>1. d \in Nat /\ e \in Nat /\ d \div p = e \div p
    BY <1>4
  <2>2. d - e < p /\ e - d < p
    <3> DEFINE q == d \div p
    <3> HIDE DEF d, e, p
    <3>1. q \in Nat /\ p * q \in Nat /\ p * q <= d /\ d < p * q + p
      BY <1>1, <2>1
    <3>2. p * q <= e /\ e < p * q + p
      BY <1>1, <2>1
    <3> HIDE DEF q
    <3> QED
      BY <1>1, <2>1, <3>1, <3>2
  <2>3. x - origin = y - origin
    <3>1. x - origin \in Int /\ y - origin \in Int
      BY <1>1
    <3>2. (x - origin) - (y - origin) < p /\ (y - origin) - (x - origin) < p
      BY <1>1, <2>2
    <3> HIDE DEF p, origin
    <3> QED
      BY <1>1, <3>1, <3>2, SamePhase
  <2> QED
    BY <1>1, <2>3
<1>5. f \in Injection(S, 0 .. (m - 1))
  <2> HIDE DEF S
  <2>1. f \in [S -> 0 .. (m - 1)]
    BY <1>3
  <2> HIDE DEF f
  <2> QED
    BY <1>4, <2>1 DEF Injection, IsInjective
<1>6. IsFiniteSet(0 .. (m - 1)) /\ Cardinality(0 .. (m - 1)) <= m
  <2>1. 0 \in Int /\ m - 1 \in Int
    OBVIOUS
  <2>2. /\ IsFiniteSet(0 .. (m - 1))
        /\ Cardinality(0 .. (m - 1)) = IF 0 > m - 1 THEN 0 ELSE (m - 1) - 0 + 1
    BY <2>1, FS_Interval, Zenon
  <2> QED
    BY <2>2
<1> HIDE DEF f, S
<1>7. Cardinality(S) <= Cardinality(0 .. (m - 1)) /\ IsFiniteSet(S)
  BY <1>5, <1>6, FS_Injection
<1>8. Cardinality(S) \in Nat /\ Cardinality(0 .. (m - 1)) \in Nat
  BY <1>6, <1>7, FS_CardinalityType
<1> QED
  BY <1>2, <1>6, <1>7, <1>8

(* What a reconciliation holds was computed from the object it read. *)
OutcomeInv == work # Idle => work.at \in Nat /\ work.base \in Objects
                             /\ work.ok = HasNext(work.base, work.at)

(* With a starting deadline that spans no more than MaxMissed starts the   *)
(* reconciler never gives up, however long it was down.                    *)
THEOREM DeadlineIsARemedy == Spec => []RemedyWorks
<1>1. Init => OutcomeInv
  BY DEF Init, OutcomeInv
<1>2. TypeOK /\ OutcomeInv /\ [Next]_vars => OutcomeInv'
  <2> SUFFICES ASSUME TypeOK, OutcomeInv, [Next]_vars
               PROVE  OutcomeInv'
    OBVIOUS
  <2>1. CASE Reconcile
    <3>1. work'.at = now /\ work'.base = cache /\ work'.ok = HasNext(cache, now)
      BY <2>1 DEF Reconcile
    <3> QED
      BY <3>1 DEF TypeOK, OutcomeInv
  <2>2. CASE work' \in {work, Idle}
    BY <2>2 DEF OutcomeInv
  <2> QED
    BY <2>1, <2>2 DEF Next, ReconcileFails, Close, CloseFails, TimerFires, InformerSync, EditSpec,
                      Crash, Restart, Tick, vars
<1>3. OutcomeInv => RemedyWorks
  <2> SUFFICES ASSUME NEW c \in Objects, NEW t \in Nat,
                      c.spec.kind # "bad", c.spec.deadline # Never,
                      c.spec.deadline <= MaxMissed * c.spec.period
               PROVE  HasNext(c, t)
    BY DEF OutcomeInv, RemedyWorks
  <2> DEFINE from == EarliestTime(c, t)
  <2>1. /\ c.spec \in Specs /\ c.last \in Time
        /\ c.spec.period \in Nat \ {0} /\ c.spec.deadline \in Nat /\ MaxMissed \in Nat
    BY SpecsAssumption, TimesAssumption DEF Objects
  <2>2. from \in Nat /\ t - from <= c.spec.deadline
    BY <2>1 DEF EarliestTime, Time
  <2>3. MaxMissed * c.spec.period \in Nat
    BY <2>1
  <2>4. t - from <= MaxMissed * c.spec.period
    BY <2>1, <2>2, <2>3
  <2> HIDE DEF from
  <2>5. Cardinality(MissedStarts(c.spec, from, t)) <= MaxMissed
    BY <2>1, <2>2, <2>4, MissedAreFew
  <2> QED
    BY <2>5 DEF HasNext, from
<1> QED
  BY <1>1, <1>2, <1>3, TypeCorrect, PTL DEF Spec
=============================================================================
