------------------------------ MODULE Lifecycle ------------------------------
(***************************************************************************)
(* The life of a Cleaner, from its creation to its removal: the            *)
(* reconciler (internal/controller/cleaner_controller.go) composed with    *)
(* the executor (module Executor, an instance of which shares this         *)
(* module's variables), the informer cache both of them read, the Report   *)
(* the workers write and the API server.                                   *)
(*                                                                         *)
(* A Cleaner may be deleted, and created again under its name, while its   *)
(* runs are queued or running.  Its finalizer holds it until               *)
(* reconcileDelete has told the executor and removed the Report.  Calls of *)
(* the API server fail and the process crashes, MaxFaults times in all.    *)
(* When a run is due is the concern of module Scheduler: here any          *)
(* reconciliation of a scheduled Cleaner may find that one is.             *)
(***************************************************************************)
EXTENDS Naturals, Sequences, SequencesExt

CONSTANTS
    Names,      \* the names of Cleaner instances
    Workers,    \* the worker goroutines
    None,       \* "cleanerName == nil"
    Absent,     \* no such Cleaner
    MaxLen,     \* bound on the slices of the executor
    MaxUid,     \* bound on the Cleaners created under one name
    MaxFaults   \* bound on the crashes and failed calls

ASSUME NoneAssumption == None \notin Names
ASSUME WorkersAssumption == IsFiniteSet(Workers)
ASSUME MaxLenAssumption == MaxLen \in Nat
ASSUME MaxUidAssumption == MaxUid \in Nat \ {0}
ASSUME MaxFaultsAssumption == MaxFaults \in Nat

VARIABLES
    dirty, inProgress, jobQueue, results, running,  \* see Executor
    cleaners,  \* the Cleaner of each name at the API server
    cached,    \* the Cleaner of each name in the informer's cache
    born,      \* how many Cleaners each name had
    reports,   \* the Cleaner whose run wrote the Report of each name, 0 if none
    seen,      \* the names whose Report is in the cache
    pending,   \* the names in the controller's work queue, now or after a delay
    reading,   \* the Cleaner a worker has read, 0 if it found none or not yet
    quiet,     \* history: the names removed while no run of theirs was left
    faults     \* how many calls failed, crashes included

E == INSTANCE Executor WITH Cleaners <- Names, Deletable <- Names

executor == <<dirty, inProgress, jobQueue, results, running>>
vars == <<executor, cleaners, cached, born, reports, seen, pending, reading, quiet, faults>>

(* What this module tells apart of a Cleaner: the two finalizers, the      *)
(* deletionTimestamp, NextScheduleTime and FailureMessage.                 *)
Objects == [uid : 1 .. MaxUid, finalizer : BOOLEAN, old : BOOLEAN, deleting : BOOLEAN,
            scheduled : BOOLEAN, failure : BOOLEAN]

ASSUME AbsentAssumption == Absent \notin Objects

TypeOK ==
    /\ E!TypeOK
    /\ cleaners \in [Names -> Objects \union {Absent}]
    /\ cached \in [Names -> Objects \union {Absent}]
    /\ born \in [Names -> 0 .. MaxUid]
    /\ reports \in [Names -> 0 .. MaxUid]
    /\ seen \subseteq Names
    /\ pending \subseteq Names
    /\ reading \in [Workers -> 0 .. MaxUid]
    /\ quiet \subseteq Names
    /\ faults \in 0 .. MaxFaults

Existing(f) == {n \in Names : f[n] # Absent}
Reported == {n \in Names : reports[n] # 0}

(* What an earlier release, which had another finalizer, left behind.      *)
Inherited == {o \in Objects : o.uid = 1 /\ o.old /\ ~o.finalizer /\ ~o.failure}

(* The informer delivers every Cleaner when it starts. *)
Init ==
    /\ E!Init
    /\ cleaners \in [Names -> Inherited \union {Absent}]
    /\ cached = cleaners
    /\ born = [n \in Names |-> IF cleaners[n] = Absent THEN 0 ELSE 1]
    /\ reports = [n \in Names |-> 0]
    /\ seen = {}
    /\ pending = Existing(cleaners)
    /\ reading = [w \in Workers |-> 0]
    /\ quiet = {}
    /\ faults = 0

-----------------------------------------------------------------------------
(* The users of the API server, and what the cache learns of it. *)

Create(n) ==
    /\ cleaners[n] = Absent
    /\ born[n] < MaxUid
    /\ born' = [born EXCEPT ![n] = @ + 1]
    /\ cleaners' = [cleaners EXCEPT ![n] =
            [uid |-> born[n] + 1, finalizer |-> FALSE, old |-> FALSE, deleting |-> FALSE,
             scheduled |-> FALSE, failure |-> FALSE]]
    /\ quiet' = quiet \ {n}
    /\ UNCHANGED <<executor, cached, reports, seen, pending, reading, faults>>

(* An object that is marked for deletion goes with its last finalizer.     *)
Held(o) == IF o.deleting /\ ~o.finalizer /\ ~o.old THEN Absent ELSE o

Delete(n) ==
    /\ cleaners[n] # Absent
    /\ ~cleaners[n].deleting
    /\ cleaners' = [cleaners EXCEPT ![n] = Held([@ EXCEPT !.deleting = TRUE])]
    /\ UNCHANGED <<executor, cached, born, reports, seen, pending, reading, quiet, faults>>

(* The events GenerationChangedPredicate lets through: a creation, a       *)
(* removal, a deletionTimestamp; not a finalizer or a status.              *)
Passes(c, o) ==
    IF c = Absent \/ o = Absent THEN c # o
    ELSE c.uid # o.uid \/ c.deleting # o.deleting

InformerSync(n) ==
    /\ cached[n] # cleaners[n]
    /\ cached' = [cached EXCEPT ![n] = cleaners[n]]
    /\ pending' = IF Passes(cached[n], cleaners[n]) THEN pending \union {n} ELSE pending
    /\ UNCHANGED <<executor, cleaners, born, reports, seen, reading, quiet, faults>>

ReportSync ==
    /\ seen # Reported
    /\ seen' = Reported
    /\ UNCHANGED <<executor, cleaners, cached, born, reports, pending, reading, quiet, faults>>

-----------------------------------------------------------------------------
(* The reconciler.  What it computes it computes from the cache; what it   *)
(* patches it patches by name, without a precondition.                     *)

Fault ==
    /\ faults < MaxFaults
    /\ faults' = faults + 1

(* Reconcile of a name that is not in the cache. *)
ReconcileGone(n) ==
    /\ n \in pending
    /\ cached[n] = Absent
    /\ pending' = pending \ {n}
    /\ UNCHANGED <<executor, cleaners, cached, born, reports, seen, reading, quiet, faults>>

(* r.Get fails: the name is queued again. *)
ReconcileFails(n) ==
    /\ n \in pending
    /\ Fault
    /\ UNCHANGED <<executor, cleaners, cached, born, reports, seen, pending, reading, quiet>>

(* addFinalizer with an error: its Update carries the resourceVersion of   *)
(* the cache and is refused when the Cleaner has changed since.  The       *)
(* deferred Close then patches the finalizers it has set in memory, which  *)
(* the API server accepts unless the Cleaner is marked for deletion.       *)
AddFinalizerFails(n) ==
    /\ n \in pending
    /\ cached[n] # Absent
    /\ ~cached[n].deleting
    /\ ~cached[n].finalizer
    /\ \/ cleaners[n] # cached[n] /\ UNCHANGED faults
       \/ Fault
    /\ cleaners' = IF cleaners[n] = Absent \/ cleaners[n].deleting THEN cleaners
                   ELSE [cleaners EXCEPT ![n] = [@ EXCEPT !.finalizer = TRUE, !.old = FALSE]]
    /\ UNCHANGED <<executor, cached, born, reports, seen, pending, reading, quiet>>

(* FailureMessage, as GetResult tells: an outcome replaces it, and a run   *)
(* that is queued or running clears it.                                    *)
FailureMessage(n) ==
    CASE E!RequestStatus(n) = "Failed" -> TRUE
      [] E!RequestStatus(n) = "Unavailable" -> cached[n].failure
      [] OTHER -> FALSE

(* The Update of addFinalizer, which also persists what removeOldFinalizer *)
(* did, or the patch that persists it when there is nothing to add.        *)
WithFinalizer(n) ==
    IF cached[n].finalizer /\ ~cached[n].old THEN cleaners[n]
    ELSE [cleaners[n] EXCEPT !.finalizer = TRUE, !.old = FALSE]

(* The patch of Close: it writes what differs from the copy in the cache.  *)
Patched(n, message) ==
    [WithFinalizer(n) EXCEPT !.failure = IF message # cached[n].failure THEN message ELSE @]

(* The executor after GetResult and then, when a run is due, Process,      *)
(* which clears the result that was read.                                  *)
AskExecutor(n) ==
    \/ cached[n].scheduled /\ E!Process(n)
    \/ E!GetResult(n)
    \/ /\ E!RequestStatus(n) \in {"InProgress", "Unavailable"}
       /\ UNCHANGED executor

(* A slip: the Cleaner is scheduled before the finalizer is added. *)
ReconcileNormalAnyway(n) ==
    /\ n \in pending
    /\ cached[n] # Absent
    /\ ~cached[n].deleting
    /\ AskExecutor(n)
    /\ IF cleaners[n] = Absent THEN UNCHANGED cleaners
       ELSE cleaners' = [cleaners EXCEPT ![n].scheduled = TRUE]
    /\ UNCHANGED <<cached, born, reports, seen, pending, reading, quiet, faults>>

(* A slip: the message of the cache is kept when an outcome is read. *)
ReconcileNormalSilent(n) ==
    /\ n \in pending
    /\ cached[n] # Absent
    /\ ~cached[n].deleting
    /\ cached[n].finalizer \/ cleaners[n] = cached[n]
    /\ AskExecutor(n)
    /\ IF cleaners[n] = Absent THEN UNCHANGED cleaners
       ELSE cleaners' = [cleaners EXCEPT ![n] = [WithFinalizer(n) EXCEPT !.scheduled = TRUE]]
    /\ UNCHANGED <<cached, born, reports, seen, pending, reading, quiet, faults>>

(* A slip: no RequeueAfter. *)
ReconcileNormalOnce(n) ==
    /\ n \in pending
    /\ cached[n] # Absent
    /\ ~cached[n].deleting
    /\ cached[n].finalizer \/ cleaners[n] = cached[n]
    /\ AskExecutor(n)
    /\ IF cleaners[n] = Absent THEN UNCHANGED cleaners
       ELSE cleaners' = [cleaners EXCEPT ![n] =
                            [Patched(n, FailureMessage(n)) EXCEPT !.scheduled = TRUE]]
    /\ pending' = pending \ {n}
    /\ UNCHANGED <<cached, born, reports, seen, reading, quiet, faults>>

(* reconcileNormal: the finalizer is there or is added, the executor is    *)
(* asked, and Close patches the Cleaner, or fails after all of it.         *)
(* RequeueAfter, or the error, keeps the name pending.                     *)
ReconcileNormal(n) ==
    /\ n \in pending
    /\ cached[n] # Absent
    /\ ~cached[n].deleting
    /\ cached[n].finalizer \/ cleaners[n] = cached[n]
    /\ AskExecutor(n)
    /\ \/ /\ cleaners[n] # Absent
          /\ cleaners' = [cleaners EXCEPT ![n] =
                            [Patched(n, FailureMessage(n)) EXCEPT !.scheduled = TRUE]]
          /\ UNCHANGED faults
       \/ /\ cleaners[n] = Absent
          /\ UNCHANGED <<cleaners, faults>>
       \/ /\ cleaners[n] # Absent
          /\ Fault
          /\ cleaners' = [cleaners EXCEPT ![n] = IF cached[n].finalizer THEN @ ELSE WithFinalizer(n)]
    /\ UNCHANGED <<cached, born, reports, seen, pending, reading, quiet>>

(* The same with an error of schedule: nothing is asked to be run, and the *)
(* error becomes the FailureMessage.                                       *)
ScheduleFails(n) ==
    /\ n \in pending
    /\ cached[n] # Absent
    /\ ~cached[n].deleting
    /\ cached[n].finalizer \/ cleaners[n] = cached[n]
    /\ E!GetResult(n) \/ UNCHANGED executor
    /\ cleaners' = IF cleaners[n] = Absent THEN cleaners
                   ELSE [cleaners EXCEPT ![n] = Patched(n, TRUE)]
    /\ UNCHANGED <<cached, born, reports, seen, pending, reading, quiet, faults>>

(* removeReport, when the cache holds a Report: it is deleted, if it is    *)
(* still there, or the call fails, and either way the answer is an error   *)
(* that makes the reconciliation be tried again.                           *)
RemoveReport(n) ==
    /\ n \in seen
    /\ \/ reports' = [reports EXCEPT ![n] = 0] /\ UNCHANGED faults
       \/ Fault /\ UNCHANGED reports
    /\ UNCHANGED <<cleaners, pending, quiet>>

(* No run of n is queued or running, and the cache is right on its Report. *)
Settled(n) ==
    /\ ~Contains(jobQueue, n)
    /\ \A w \in Workers : running[w] # n
    /\ n \in seen <=> n \in Reported

(* The patch that takes the finalizer away, refused when the Cleaner is    *)
(* gone or the call fails.  An old finalizer stays.                        *)
RemoveFinalizer(n) ==
    /\ UNCHANGED reports
    /\ \/ /\ cleaners[n] # Absent \/ ~cached[n].finalizer
          /\ cleaners' = IF ~cached[n].finalizer THEN cleaners
                         ELSE [cleaners EXCEPT ![n] =
                                Held([@ EXCEPT !.finalizer = FALSE, !.old = cached[n].old])]
          /\ quiet' = IF cleaners'[n] = Absent /\ Settled(n) THEN quiet \union {n} ELSE quiet
          /\ pending' = pending \ {n}
          /\ UNCHANGED faults
       \/ /\ cached[n].finalizer
          /\ cleaners[n] = Absent \/ faults < MaxFaults
          /\ faults' = IF cleaners[n] = Absent THEN faults ELSE faults + 1
          /\ UNCHANGED <<cleaners, pending, quiet>>

(* A slip: the Report that was just deleted is no error. *)
ReconcileDeleteOnce(n) ==
    /\ n \in pending
    /\ cached[n] # Absent
    /\ cached[n].deleting
    /\ E!RemoveEntries(n)
    /\ \/ /\ n \in seen
          /\ reports' = [reports EXCEPT ![n] = 0]
          /\ pending' = pending \ {n}
          /\ UNCHANGED <<cleaners, quiet, faults>>
       \/ n \notin seen /\ RemoveFinalizer(n)
    /\ UNCHANGED <<cached, born, seen, reading>>

(* A slip: the finalizer is removed whatever removeReport says. *)
ReconcileDeleteAnyway(n) ==
    /\ n \in pending
    /\ cached[n] # Absent
    /\ cached[n].deleting
    /\ E!RemoveEntries(n)
    /\ RemoveFinalizer(n)
    /\ UNCHANGED <<cached, born, seen, reading>>

(* reconcileDelete. *)
ReconcileDelete(n) ==
    /\ n \in pending
    /\ cached[n] # Absent
    /\ cached[n].deleting
    /\ E!RemoveEntries(n)
    /\ \/ RemoveReport(n)
       \/ n \notin seen /\ RemoveFinalizer(n)
    /\ UNCHANGED <<cached, born, seen, reading>>

-----------------------------------------------------------------------------
(* The workers. *)

TakeRequest(w) ==
    /\ E!TakeRequest(w)
    /\ UNCHANGED <<cleaners, cached, born, reports, seen, pending, reading, quiet, faults>>

(* getCleanerInstance reads the cache, whatever the deletionTimestamp.  It *)
(* hides NotFound: the worker then runs an empty Cleaner, which selects    *)
(* nothing and has no notification, so that reading is as good as 0.       *)
ReadCleaner(w) ==
    /\ running[w] # None
    /\ reading[w] = 0
    /\ cached[running[w]] # Absent
    /\ reading' = [reading EXCEPT ![w] = cached[running[w]].uid]
    /\ UNCHANGED <<executor, cleaners, cached, born, reports, seen, pending, quiet, faults>>

(* createReportInstance: an update of the Report the cache holds, or a     *)
(* creation when it holds none; each is refused when the cache is wrong.   *)
WriteReport(w) ==
    /\ running[w] # None
    /\ reading[w] # 0
    /\ running[w] \in seen <=> running[w] \in Reported
    /\ reports' = [reports EXCEPT ![running[w]] = reading[w]]
    /\ UNCHANGED <<executor, cleaners, cached, born, seen, pending, reading, quiet, faults>>

(* processCleanerInstance returns, with an error if anything failed. *)
StoreResult(w) ==
    /\ \E err \in E!Outcomes \ {"none"} : E!StoreResult(w, err)
    /\ reading' = [reading EXCEPT ![w] = 0]
    /\ UNCHANGED <<cleaners, cached, born, reports, seen, pending, quiet, faults>>

(* The process ends, at any point of any of the above, and starts again:   *)
(* what was in memory is gone, and the informers list everything.          *)
Crash ==
    /\ Fault
    /\ dirty' = << >> /\ inProgress' = << >> /\ jobQueue' = << >>
    /\ results' = [n \in Names |-> "none"]
    /\ running' = [w \in Workers |-> None]
    /\ reading' = [w \in Workers |-> 0]
    /\ cached' = cleaners
    /\ seen' = Reported
    /\ pending' = Existing(cleaners)
    /\ UNCHANGED <<cleaners, born, reports, quiet>>

-----------------------------------------------------------------------------
Reconcile(n) ==
    \/ ReconcileGone(n)
    \/ ReconcileFails(n)
    \/ AddFinalizerFails(n)
    \/ ReconcileNormal(n)
    \/ ScheduleFails(n)
    \/ ReconcileDelete(n)

Next ==
    \/ \E n \in Names : Create(n) \/ Delete(n) \/ InformerSync(n) \/ Reconcile(n)
    \/ ReportSync
    \/ \E w \in Workers : TakeRequest(w) \/ ReadCleaner(w) \/ WriteReport(w) \/ StoreResult(w)
    \/ Crash

Spec == Init /\ [][Next]_vars

(* The informers deliver, the controller takes what is in its work queue,  *)
(* a run returns.  Nobody has to create or delete a Cleaner, and a worker  *)
(* may never get as far as the Report.                                     *)
Fairness ==
    /\ \A n \in Names : WF_vars(InformerSync(n)) /\ WF_vars(Reconcile(n))
    /\ WF_vars(ReportSync)
    /\ \A w \in Workers : WF_vars(TakeRequest(w)) /\ WF_vars(StoreResult(w))

FairSpec == Spec /\ Fairness

-----------------------------------------------------------------------------
(* A Cleaner that reconcileNormal has put on a schedule cannot vanish      *)
(* behind the reconciler's back: a finalizer holds it, whatever stale copy *)
(* of it, or of an earlier Cleaner of that name, was patched in between.   *)
FinalizerProtects ==
    \A n \in Existing(cleaners) :
        cleaners[n].scheduled => cleaners[n].finalizer \/ cleaners[n].old

(* A Cleaner removed when no run of it was left, and the cache had its     *)
(* Report right, leaves no Report behind, and no outcome that the next     *)
(* Cleaner of its name would take for its own: what it takes for either is *)
(* a run or a cache that lags, never a reconciliation that comes too late. *)
QuietRemovalIsClean == \A n \in quiet : reports[n] = 0 /\ results[n] = "none"

(* A Cleaner as the users of the API server see it.                        *)
StageOf(o) ==
    CASE o = Absent -> "none"
      [] o # Absent /\ o.deleting -> "leaving"
      [] o # Absent /\ ~o.deleting -> IF o.scheduled THEN "active" ELSE "new"

Life == INSTANCE CleanerLife WITH
            uid <- born,
            stage <- [n \in Names |-> StageOf(cleaners[n])],
            report <- reports

(* Whatever a stale copy in the cache makes the reconciler do, a Cleaner   *)
(* on a schedule leaves before it vanishes, and no reconciliation for an   *)
(* earlier Cleaner of its name takes its Report away.                      *)
ImplementsLife == Life!Spec

(* A deletion ends: whatever the runs of the Cleaner write meanwhile, and  *)
(* whatever fails, the Cleaner is removed.  (One with the finalizer of an  *)
(* earlier release is not: see OldFinalizerRemoved.)                       *)
DeletionEnds ==
    \A n \in Names, u \in 1 .. MaxUid :
        (cleaners[n] # Absent /\ cleaners[n].uid = u /\ cleaners[n].deleting /\ ~cleaners[n].old)
        ~> (cleaners[n] = Absent \/ cleaners[n].uid # u)

(* The error of a run reaches FailureMessage when it is handed out, once:  *)
(* it is lost only when the patch fails, or when the copy in the cache     *)
(* shows another message than the Cleaner does, so that there seems to be  *)
(* nothing to patch.                                                       *)
ErrorIsShown ==
    [][\A n \in Existing(cleaners) :
        (results[n] = "error" /\ results'[n] = "none" /\ faults' = faults
         /\ cached[n] = cleaners[n] /\ ~cached[n].deleting)
        => cleaners'[n].failure]_vars

(* No outcome is forgotten in the executor while its Cleaner lives: some   *)
(* reconciliation comes for it, whatever failed before.                    *)
OutcomeIsRead ==
    \A n \in Names :
        results[n] # "none"
        ~> (results[n] = "none" \/ cleaners[n] = Absent \/ cleaners[n].deleting)

(* cleaner_controller.go: "Since we switched to new one, remove old one if *)
(* ever set."                                                              *)
OldFinalizerRemoved ==
    \A n \in Names :
        (cleaners[n] # Absent /\ cleaners[n].old)
        ~> ~(cleaners[n] # Absent /\ cleaners[n].old)
=============================================================================
