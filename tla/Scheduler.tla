------------------------------ MODULE Scheduler ------------------------------
(***************************************************************************)
(* When a Cleaner runs: reconcileNormal, schedule, getNextScheduleTime and *)
(* shouldSchedule of internal/controller/cleaner_controller.go, and the    *)
(* CleanerScope of pkg/scope that persists what they decide, for one       *)
(* Cleaner.  The reconciler reads the Cleaner from the informer's cache,   *)
(* asks the executor for a run when one is due and, when it returns,       *)
(* patches status; the manager wakes it up after RequeueAfter, after an    *)
(* error, after a change of the spec and after a restart.                  *)
(*                                                                         *)
(* Time is counted in units of a few seconds.  A schedule is a cron        *)
(* expression that fires at the multiples of its period, an "@every        *)
(* period", which fires that long after the time it is asked about, or a   *)
(* string cron.ParseStandard refuses.                                      *)
(***************************************************************************)
EXTENDS Integers, FiniteSets

CONSTANTS
    Specs,         \* the specs a user may give: [kind, period, deadline]
    Never,         \* a nil time, an empty timer, no deadline
    Jitter,        \* JitterWindowInSeconds
    Ignore,        \* ignoreTimeInSecond
    MaxMissed,     \* maxNumberOfFailures
    MaxWait,       \* how long a queued Cleaner waits for a reconciler
    MaxReconcile,  \* how long a reconciliation takes
    MaxBackoff,    \* the longest delay of the rate limiter
    Horizon,       \* bound on time
    MaxEdits,      \* bound on the changes of the spec
    MaxCrashes     \* bound on the crashes of the controller

Kinds == {"cron", "every", "bad"}

ASSUME TimesAssumption ==
    {Jitter, Ignore, MaxMissed, MaxWait, MaxReconcile, MaxBackoff,
     Horizon, MaxEdits, MaxCrashes} \subseteq Nat
ASSUME IgnoreAssumption == Ignore > 0
ASSUME NeverAssumption == Never \notin Int
ASSUME SpecsAssumption ==
    Specs \subseteq [kind : Kinds, period : Nat \ {0}, deadline : Nat \union {Never}]

VARIABLES
    now,       \* the clock
    cleaner,   \* the object at the API server: spec, generation and status
    cache,     \* the informer's copy of it
    up,        \* whether the controller runs
    crashes,   \* how often it crashed
    ready,     \* since when the Cleaner is in the work queue, or Never
    timer,     \* when the delaying queue will add it, or Never
    work,      \* the reconciliation that is running, or Idle
    lastCall,  \* when Process was last called, or Never
    stale      \* history: the last reconciliation to return had read an old status

vars == <<now, cleaner, cache, up, crashes, ready, timer, work, lastCall, stale>>

Time == Nat \union {Never}

Objects == [spec : Specs, generation : Nat, last : Time, next : Time]

(* What a reconciliation holds until it returns: when it read the clock,   *)
(* the object it read, whether schedule succeeded and the status it set.   *)
Works == [at : Nat, base : Objects, ok : BOOLEAN, last : Time, next : Time]

Idle == [at |-> Never]

-----------------------------------------------------------------------------
(* The clockwork. *)

(* A slip: a cron schedule too is counted from the time it is asked about. *)
NextSlotDrifts(spec, t) == t + spec.period

(* sched.Next(t): the first time after t at which the schedule fires. *)
NextSlot(spec, t) ==
    IF spec.kind = "every" THEN t + spec.period
                           ELSE (t \div spec.period + 1) * spec.period

(* The times the loop of getNextScheduleTime counts as missed starts.      *)
MissedStarts(spec, from, to) ==
    LET origin == IF spec.kind = "every" THEN from ELSE 0
    IN  {t \in (from + 1) .. (to - 1) : (t - origin) % spec.period = 0}

(* A slip: the starting deadline is not looked at. *)
EarliestTimeNoDeadline(c, t) == IF c.last = Never THEN 0 ELSE c.last

(* earliestTime: the last run, or else the creation of the Cleaner, but    *)
(* not before the starting deadline.                                       *)
EarliestTime(c, t) ==
    LET start == IF c.last = Never THEN 0 ELSE c.last
    IN  IF c.spec.deadline # Never /\ t - c.spec.deadline > start
        THEN t - c.spec.deadline
        ELSE start

(* getNextScheduleTime returns no error. *)
HasNext(c, t) ==
    /\ c.spec.kind # "bad"
    /\ Cardinality(MissedStarts(c.spec, EarliestTime(c, t), t)) <= MaxMissed

(* A slip: the jitter window is applied on both sides of the slot. *)
ShouldScheduleInWindow(c, t) ==
    /\ t + Jitter >= c.next
    /\ t <= c.next + Jitter
    /\ c.last # Never => t + Jitter - c.last >= Ignore

(* A slip: the last run is not looked at. *)
ShouldScheduleAgain(c, t) == t + Jitter >= c.next

(* shouldSchedule: the next schedule time is past or within the jitter     *)
(* window, and the last run is not too recent.  Its "now" is jitterWindow  *)
(* ahead of the clock in both comparisons.                                 *)
ShouldSchedule(c, t) ==
    /\ t + Jitter >= c.next
    /\ c.last # Never => t + Jitter - c.last >= Ignore

(* The delaying queue keeps the earlier of two times for the same item.    *)
Sooner(s, t) == IF s # Never /\ s <= t THEN s ELSE t

Enqueued(r) == IF r = Never THEN now ELSE r

-----------------------------------------------------------------------------
TypeOK ==
    /\ now \in Nat
    /\ cleaner \in Objects
    /\ cache \in Objects
    /\ up \in BOOLEAN
    /\ crashes \in Nat
    /\ ready \in Time
    /\ timer \in Time
    /\ work \in Works \union {Idle}
    /\ lastCall \in Time
    /\ stale \in BOOLEAN

(* The Cleaner was just created and the informer told the controller. *)
Init ==
    /\ now = 0
    /\ \E s \in Specs :
        cleaner = [spec |-> s, generation |-> 0, last |-> Never, next |-> Never]
    /\ cache = cleaner
    /\ up = TRUE
    /\ crashes = 0
    /\ ready = 0
    /\ timer = Never
    /\ work = Idle
    /\ lastCall = Never
    /\ stale = FALSE

(* A slip: the zero time that goes with an error becomes the next one. *)
ReconcileZeroTime ==
    /\ up
    /\ ready # Never
    /\ work = Idle
    /\ ready' = Never
    /\ LET ok == HasNext(cache, now)
           run == ok /\ cache.next # Never /\ ShouldSchedule(cache, now)
       IN  /\ work' = [at |-> now, base |-> cache, ok |-> ok,
                       last |-> IF run THEN now ELSE cache.last,
                       next |-> IF ok THEN NextSlot(cache.spec, now) ELSE -1]
           /\ lastCall' = IF run THEN now ELSE lastCall
    /\ UNCHANGED <<now, cleaner, cache, up, crashes, timer, stale>>

(* Reconcile up to the return of reconcileNormal: schedule calls Process   *)
(* before anything is persisted.  The first reconciliation of a Cleaner    *)
(* only computes NextScheduleTime.                                         *)
Reconcile ==
    /\ up
    /\ ready # Never
    /\ work = Idle
    /\ ready' = Never
    /\ LET ok == HasNext(cache, now)
           run == ok /\ cache.next # Never /\ ShouldSchedule(cache, now)
       IN  /\ work' = [at |-> now, base |-> cache, ok |-> ok,
                       last |-> IF run THEN now ELSE cache.last,
                       next |-> IF ok THEN NextSlot(cache.spec, now) ELSE cache.next]
           /\ lastCall' = IF run THEN now ELSE lastCall
    /\ UNCHANGED <<now, cleaner, cache, up, crashes, timer, stale>>

(* Reconcile fails before it gets to schedule: reading the Cleaner or      *)
(* adding the finalizer returned an error.                                 *)
ReconcileFails ==
    /\ up
    /\ ready # Never
    /\ work = Idle
    /\ ready' = Never
    /\ \E d \in 1 .. MaxBackoff : timer' = Sooner(timer, now + d)
    /\ UNCHANGED <<now, cleaner, cache, up, crashes, work, lastCall, stale>>

(* cleanerScope.Close: the patch carries the fields in which the object    *)
(* differs from the one that was read.                                     *)
PatchedStatus ==
    [cleaner EXCEPT
        !.last = IF work.last = work.base.last THEN @ ELSE work.last,
        !.next = IF work.next = work.base.next THEN @ ELSE work.next]

(* A slip: Reconcile returns without RequeueAfter. *)
CloseNoRequeue ==
    /\ work # Idle
    /\ cleaner' = PatchedStatus
    /\ stale' = (cleaner.next # work.base.next)
    /\ \/ /\ work.ok
          /\ UNCHANGED timer
       \/ /\ ~work.ok
          /\ \E d \in 1 .. MaxBackoff : timer' = Sooner(timer, now + d)
    /\ work' = Idle
    /\ UNCHANGED <<now, cache, up, crashes, ready, lastCall>>

(* Reconcile returns.  RequeueAfter was computed when the reconciliation   *)
(* began and counts from its end; an error of schedule means a retry after *)
(* the rate limiter's delay, and its patch carries a FailureMessage only.  *)
Close ==
    /\ work # Idle
    /\ cleaner' = PatchedStatus
    /\ stale' = (cleaner.next # work.base.next)
    /\ \/ /\ work.ok
          /\ timer' = Sooner(timer, now + (work.next - work.at))
       \/ /\ ~work.ok
          /\ \E d \in 1 .. MaxBackoff : timer' = Sooner(timer, now + d)
    /\ work' = Idle
    /\ UNCHANGED <<now, cache, up, crashes, ready, lastCall>>

(* The patch fails: Reconcile returns its error and is retried. *)
CloseFails ==
    /\ work # Idle
    /\ \E d \in 1 .. MaxBackoff : timer' = Sooner(timer, now + d)
    /\ work' = Idle
    /\ UNCHANGED <<now, cleaner, cache, up, crashes, ready, lastCall, stale>>

(* The delaying queue moves the Cleaner to the work queue. *)
TimerFires ==
    /\ timer # Never
    /\ timer <= now
    /\ timer' = Never
    /\ ready' = Enqueued(ready)
    /\ UNCHANGED <<now, cleaner, cache, up, crashes, work, lastCall, stale>>

(* The informer's watch delivers the object; GenerationChangedPredicate    *)
(* lets only a change of the spec through to the work queue.               *)
InformerSync ==
    /\ up
    /\ cache # cleaner
    /\ cache' = cleaner
    /\ ready' = IF cache.generation # cleaner.generation THEN Enqueued(ready) ELSE ready
    /\ UNCHANGED <<now, cleaner, up, crashes, timer, work, lastCall, stale>>

(* A user changes the spec: the schedule, or anything else in it. *)
EditSpec ==
    /\ cleaner.generation < MaxEdits
    /\ \E s \in Specs :
        cleaner' = [cleaner EXCEPT !.spec = s, !.generation = @ + 1]
    /\ UNCHANGED <<now, cache, up, crashes, ready, timer, work, lastCall, stale>>

(* The controller goes down with its queues. *)
Crash ==
    /\ up
    /\ crashes < MaxCrashes
    /\ up' = FALSE
    /\ crashes' = crashes + 1
    /\ ready' = Never
    /\ timer' = Never
    /\ work' = Idle
    /\ UNCHANGED <<now, cleaner, cache, lastCall, stale>>

(* It comes back, lists the Cleaners and queues each of them. *)
Restart ==
    /\ ~up
    /\ up' = TRUE
    /\ cache' = cleaner
    /\ ready' = now
    /\ UNCHANGED <<now, cleaner, crashes, timer, work, lastCall, stale>>

(* Time passes, no further than the timer, the waiting reconciliation and  *)
(* the running one allow; the informer's lag is shorter than a unit.       *)
Tick ==
    /\ now < Horizon
    /\ up => /\ cache = cleaner
             /\ timer # Never => now < timer
             /\ ready # Never => now - ready < MaxWait
             /\ work # Idle => now - work.at < MaxReconcile
    /\ now' = now + 1
    /\ UNCHANGED <<cleaner, cache, up, crashes, ready, timer, work, lastCall, stale>>

Next ==
    \/ Reconcile
    \/ ReconcileFails
    \/ Close
    \/ CloseFails
    \/ TimerFires
    \/ InformerSync
    \/ EditSpec
    \/ Crash
    \/ Restart
    \/ Tick

Spec == Init /\ [][Next]_vars

-----------------------------------------------------------------------------
(* Process is called. *)
Runs == lastCall' # lastCall

(* No slot is passed over: when the NextScheduleTime a reconciliation read *)
(* has come and its patch replaces it, a run was asked for at the slot,    *)
(* after it or less than Ignore before it; whatever failed, crashed or was *)
(* edited in between.  (A reconciliation that read a NextScheduleTime      *)
(* older than the persisted one may pass over the persisted one.)          *)
NoSlotSkipped ==
    [][(/\ cleaner'.next # cleaner.next
        /\ cleaner.next # Never
        /\ work # Idle
        /\ cleaner.next = work.base.next
        /\ cleaner.next <= work.at)
       => lastCall # Never /\ lastCall > cleaner.next - Ignore]_vars

(* A slot of a cron schedule is not put off: no reconciliation, retry or   *)
(* restart that comes before it changes NextScheduleTime.  (The slot of an *)
(* "@every" schedule is counted from the last reconciliation: whatever     *)
(* makes the Cleaner be reconciled within the period, an edit or a         *)
(* restart, puts its run off by a whole period.)                           *)
SlotNotPutOff ==
    [][(/\ cleaner'.next # cleaner.next
        /\ cleaner.next # Never
        /\ cleaner.generation = 0
        /\ cleaner.spec.kind = "cron")
       => cleaner.next <= now]_vars

(* Runs are not asked for back to back: once the status of a run is saved  *)
(* the next one is at least Ignore - Jitter later, also across restarts,   *)
(* edits and slots.  The code says "if last processed request was within   *)
(* 30 seconds, ignore it", but counts the jitter window to the later run.  *)
SpacedRuns ==
    [][(Runs /\ lastCall # Never /\ cleaner.last = lastCall /\ cache = cleaner)
       => lastCall' - lastCall >= Ignore - Jitter]_vars

(* The reconciler never sleeps through a slot: while nothing is queued the *)
(* delaying queue wakes it up for the persisted NextScheduleTime, or for a *)
(* retry, late by at most the length of a reconciliation, unless it had    *)
(* read an older NextScheduleTime than the persisted one.                  *)
WakesForNextSlot ==
    (up /\ ready = Never /\ work = Idle /\ cache = cleaner) =>
        /\ timer # Never
        /\ (cleaner.next # Never /\ ~stale) =>
             \/ timer <= cleaner.next + MaxReconcile
             \/ timer <= now + MaxBackoff

(* The remedy in the error message works: with a starting deadline that    *)
(* spans no more than MaxMissed starts, no downtime makes the reconciler   *)
(* fail.                                                                   *)
RemedyWorks ==
    work # Idle =>
        LET s == work.base.spec
        IN  (/\ s.kind # "bad"
             /\ s.deadline # Never
             /\ s.deadline <= MaxMissed * s.period) => work.ok

(* Why no slot is skipped: no object knows a later run than the last call  *)
(* of Process, and a reconciliation that is about to replace a schedule    *)
(* time that has come has called Process for it, or less than Ignore       *)
(* before it.                                                              *)
KnownRun(t) == t # Never => lastCall # Never /\ t <= lastCall

SlotInv ==
    /\ lastCall # Never => lastCall <= now
    /\ KnownRun(cleaner.last)
    /\ KnownRun(cache.last)
    /\ work # Idle =>
        /\ KnownRun(work.last)
        /\ (/\ work.next # work.base.next
            /\ work.base.next # Never
            /\ work.base.next <= work.at)
           => lastCall # Never /\ lastCall > work.base.next - Ignore
=============================================================================
