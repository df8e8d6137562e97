# A verification of k8s-cleaner

k8s-cleaner is a Kubernetes controller. A *Cleaner* instance says when to run (a cron
schedule), what to select (kinds, namespaces, labels, a Lua predicate) and what to do
with the selection (delete, transform, only report). This directory holds TLA+ modules
of the controller's own logic, the TLC configurations that check them on small
instances, and proofs that TLAPS checks for every instance. `PROJECT.json` lists the
components, the runs, the source lines of every definition, the hazards and the
theorems.

To check it: `tlc -workers 2 -config MCExecutor_queue.cfg MCExecutor.tla` (and so on
for the other `.cfg` files), and `tlapm` on `ExecutorProofs.tla`, `SchedulerProofs.tla`,
`LifecycleProofs.tla`, `CleanerRunProofs.tla`, `SelectionProofs.tla`,
`LuaValuesProofs.tla` and `ListFacts.tla`.

## The system

| part | code | state | operations |
| --- | --- | --- | --- |
| reconciler and scheduler | `internal/controller/cleaner_controller.go`, `pkg/scope/pruner.go` | the Cleaner's `status` (LastRunTime, NextScheduleTime, FailureMessage) and finalizers, the informers' caches, the work queue and the delaying queue of controller-runtime | `Reconcile`, `reconcileNormal`, `reconcileDelete`, `schedule`, `getNextScheduleTime`, `shouldSchedule`, `addFinalizer`, `removeReport`, `Close` |
| executor | `executor/client.go`, `executor/worker.go` (107-151, 700-791) | `Manager`: `dirty`, `inProgress`, `jobQueue`, `results`, all under `mu`; what each worker runs | `Process`, `GetResult`, `RemoveEntries`, the worker loop, `storeResult` |
| run pipeline | `executor/worker.go` (153-338) | the selected and the processed resources of one run | `processCleanerInstance` and what it calls |
| selection | `executor/worker.go` (340-503) | what was listed so far | `fetchResources`, `getNamespaces`, `collectFromNamespaces` |
| Lua | `executor/worker.go` (505-687, 793-911) | none | `isMatch`, `transform`, `aggregatedSelection`, `mapToTable`, `toGoValue` |
| notifications, store, metrics | `executor/notifications.go`, `store.go`, `metrics.go` | the Report instance, files, four counters | `sendNotifications` and one sender per kind, `storeResources`, `report...Event` |
| telemetry, startup | `internal/telemetry`, `cmd/main.go` | none shared | not modelled |

They interact by calls and shared state. The reconciler (up to 10 at a time, never two
for the same Cleaner) calls the executor's `Manager`; the workers (5) read and write the
same `Manager`; a run reads the Cleaner again from the cache and talks to the API
server, where other clients act on the same resources; the reconciler persists the
schedule in the Cleaner's status, from which it continues after a restart. The
executor's queue is in memory only. A Cleaner can be deleted while its runs are queued
or running; its finalizer holds it until the reconciler has told the executor and has
removed the Report that runs write.

What makes it correct, part by part:

* executor: a request is never lost, coalesced only with an unstarted one, a result is
  never older than the last request, every Cleaner gets its turn;
* scheduler: every slot is served once, also across failures, edits and restarts, and
  the reconciler is always going to wake up for the next one;
* lifecycle: a scheduled Cleaner does not vanish unseen, a deletion ends and leaves
  nothing behind, the outcome of a run reaches the Cleaner's status;
* run: what it reports, announces and counts is what it did, `nil` means that all was
  done, a transformation never overwrites what it has not read;
* selection: nothing that fits is missed, nothing is found twice, nothing else is found;
* Lua: what goes through a script unchanged comes back unchanged where the conversions
  have a case for it, and what they lose is lost once.

## The modules

| module | models | shape |
| --- | --- | --- |
| `RunQueue` | what the executor promises: a set of owed runs, outcomes, workers | abstract specification |
| `Executor` | the `Manager` and the worker pool | one action per locked region; refines `RunQueue` |
| `CleanerLife` | the Cleaners of a name and their Report as the users of the API server see them | abstract specification |
| `Scheduler` | the reconciler of one Cleaner with time, cache, queues, crashes | one action per handler |
| `Lifecycle` | the reconciler, an instance of `Executor`, the caches and the Report, from a Cleaner's creation to its removal | composition; refines `CleanerLife` |
| `CleanerRun` | one worker running one Cleaner against a changing API server | one action per call that can fail |
| `Selection` | one selector against a changing cluster | one action per list call |
| `LuaValues` | a resource on its way through the Lua scripts, run after run | conversions of trees, one action per caller |
| `ExecutorProofs`, `SchedulerProofs`, `LifecycleProofs`, `CleanerRunProofs`, `SelectionProofs`, `LuaValuesProofs` | | theorems about these modules |
| `ListFacts` | | lemmas about sequences the proofs share |
| `MC...` | instances for TLC | |

The operators called "a slip" next to some definitions are variants of those
definitions with one plausible mistake. No specification uses them; each shows that a
property would notice the mistake.

### Executor

The variables are the fields of `Manager`, plus `running`, the `cleanerName` of each
worker. `dirty`, `inProgress` and `jobQueue` are sequences because `removeFromSlice`
(write the last element over the removed one, shorten by one) makes the order matter;
`RemoveEntries` discards the shorter slice, which is `OverwriteKey`. Every operation
holds `mu` from its first to its last access, so each is one action: `Process`,
`GetResult` (with `RequestStatus`), `RemoveEntries`, `TakeRequest` (the locked part of
the worker loop), `StoreResult`. The run itself is the time between `TakeRequest` and
`StoreResult`. `Deletable` names the Cleaners whose deletion may happen, at any moment
and any number of times (`reconcileDelete` is retried until the Report is gone).

`cleanerName = &jobQueue[0]` in the worker is a pointer into the array under the slice.
It stays valid without the lock: nothing writes to that element once the slice starts
behind it, so a name is enough in the model.

`RunQueue` is seen through the `Survivors`, the Cleaners that are never removed: owed =
their names in `dirty` or `jobQueue`, outcome = their `results`, running = the workers
that run one of them. With `Deletable = {}` the slices implement it, its fairness
included. A removal scrambles the slices of all: it duplicates the last name and moves
it. Its safety survives that (`ImplementsSafety`, `DirtyPending`, `RunsAreTracked`,
`UnavailableIsIdle`): the Cleaners that stay lose no request and get no wrong answer.
What does not survive is the exactness of the bookkeeping (`DirtyOnce`,
`InProgressIsRunning`), and with it the liveness: a name left in `inProgress` is not
queued again (`ReleasedWhenDone`).

### Scheduler

One Cleaner, since reconcilers of different Cleaners share nothing but the executor.
`cleaner` is the object at the API server and `cache` the informer's copy; `work` holds
what a reconciliation read and decided until its deferred `Close` patches it. The patch
carries the fields that differ from what was *read*, which is `PatchedStatus`. `ready`
and `timer` are the work queue and the delaying queue (the earlier of two times wins);
`InformerSync` delivers a change and queues the Cleaner if the generation changed
(`GenerationChangedPredicate`, which also keeps the resyncs of the cache out).
`lastCall` is when `Process` was last called; `stale` is a history variable. `Crash`
loses queues, timers and the running reconciliation at any point between reading and
patching.

Time is in units of five seconds: `Ignore = 6` is `ignoreTimeInSecond`, `Jitter = 3` the
default jitter window of 15 seconds. `MaxMissed` stands for `maxNumberOfFailures`, 100
in the code. cron expressions are multiples of a period; `@every` counts from the time
it is asked about, as robfig/cron does; a schedule that does not parse is `bad`.

Assumed of the environment: the informer's lag is shorter than a unit of time (`Tick`),
while a reconciliation may start before the informer catches up with the last patch.

### Lifecycle

The other half of the reconciler: finalizers, deletion, outcomes. It shares its
variables with `E == INSTANCE Executor`, so that each call of the `Manager` is the
executor's own action. *When* a run is due is the business of `Scheduler`; here any
reconciliation of a scheduled Cleaner may find one due.

`cleaners` and `cached` are the Cleaners of each name at the API server and in the
informer's cache, with a `uid` because one may be created again under the name of a
deleted one; `reports` says whose run wrote the Report of a name, `seen` which Reports
the cache shows. The actions are the outcomes of `Reconcile`: `ReconcileGone` and
`ReconcileFails`, `AddFinalizerFails` (the update is refused, yet the deferred `Close`
patches the finalizer that is already set in memory), `ReconcileNormal` (the finalizer,
`GetResult` and `Process` through `AskExecutor`, the patch or its failure after the
executor was asked), `ScheduleFails`, `ReconcileDelete` (`RemoveEntries`, then
`RemoveReport`, which deletes the Report or fails and is retried until the cache shows
none, then `RemoveFinalizer`). Patches go by name, as in the code, and carry what differs from the
cached copy. The worker is `TakeRequest`, `ReadCleaner` (from the cache, whatever its
deletionTimestamp), `WriteReport`, `StoreResult`. `Crash` empties the memory at any
point; `MaxFaults` bounds crashes and failed calls together.

`quiet` is a history variable: the names whose Cleaner was removed when no run of it was
queued or running and the cache had its Report right.

`CleanerLife` is what the users may rely on, whatever the caches show and the patches
hit: a Cleaner is new, then active, then leaving, then gone; an active one leaves before
it vanishes; the Report of a name is of one of the Cleaners it had, and is withdrawn
only when it is of an earlier one or its Cleaner is leaving or gone. The mapping takes
`born` to `uid`, `StageOf` each Cleaner to `stage`, and `reports` to `report`. That a
Report is never replaced by one of an *earlier* Cleaner is not promised: a run that
outlived its Cleaner may do that.

### CleanerRun

The phases of `processCleanerInstance` in the order of the code: one `SelectNext` per
selector, `Aggregate`, one `DeleteNext` or `TransformNext` per selected resource (or
`ScanAll`), one action per notification, `Store`. Between any two of them other clients
create, change and delete resources and remove finalizers. A resource is its UID, its
resourceVersion, the verdict of the Lua predicate on its contents, and its finalizer and
deletion marks; a script is what it decides. An aggregated selection keeps any part of
what it is given, in any order.

Each sender is an action: `WriteReport` writes the Report also when nothing was
processed; `SendEvent` tells an event recorder that never answers; `SendSlack`,
`SendDiscord`, `SendTelegram`, `SendSmtp` and `SendWebex` skip an empty run, read their
credentials and call a service, either of which may fail; `SendTeams` may in addition
deliver nothing and return nil, as the code does for a webhook that is not valid. The
first failure ends the run. `sent` holds the notifications delivered by this run,
`counted` the Prometheus counters it incremented. `acted` is a history variable: what
the API server really did for the run.

An update that changes nothing keeps the resourceVersion, as the API server has it, so
that a resource two selectors reach may be updated twice in a run only if the first
update changed nothing (`Transformed`, `NoBlindUpdate`).

Assumed: the Lua script of a transformation carries `metadata.resourceVersion` over, as
every script of the documentation does, since it changes the object it is given; the
list calls of one selector are one step here (they are apart in `Selection`).

### Selection

`ListNamespaces`, then one list call per namespace (`CollectFromNext`) or one for the
cluster (`CollectEverywhere`), with `ClusterChanges` between them. Label filters are
evaluated as the API server does. A namespace that is being deleted does not match
(`NsStates`). Three history variables tell what there was to find: `steady`, the
resources that fitted the selector from the beginning on; `eligible`, the namespaces it
reached at some time since; `fitting`, the resources that passed its filters at some
time since.

### LuaValues

The content of a resource is a tree. It is given as a function from paths to values: a
path is a sequence of fields of maps and elements of lists, and the value at its end has
its kind (int, float, string, bool, null, map, list) and its data. What the recursion of
`mapToTable` does to the whole, `MapToTable` says of each path: it is in the table if
there is a case for every value on its way (`HasCase`), and has there what the case makes
of it (`LuaValue`). `ToGoValue` does the same for `toGoValue`, where a table with
elements is a list and its fields are lost. Depth and width are not bounded by the
definitions, and they need no recursion. Elements of lists are named by numbers in their
order; `Append` moves the elements behind one that is left out, the model leaves them
their names, because nothing tells more than their order. `Decoded` is what JSON makes of
a float64, and `IsMatch`, `AggregatedSelection` and `Transform` are the three callers with
their error returns and their nil dereferences. A Lua script is named by what it does
with its table: returns it, takes an element out of the spec, leaves out the kind, returns
something that is no table, and so on. The module is a state machine and not only a
function because a Cleaner that transforms runs again over its own output: fetch,
evaluate, aggregate, update, and a user's edits between runs.

Numbers are counted in halves, so that there are some that are no integer. `Exact`
stands for 2^53; rounding is modelled as it is between `Exact` and `2 * Exact`, where
every other integer is a float64. Beyond that the gaps grow, and what happens at the
largest int64 is left out; negative numbers are as positive ones. `IsContent` and
`IsResource` are what the API machinery guarantees: a map at the root, nothing below a
value that is neither map nor list, and a kind that is a string.

## The runs

| configuration | instance | what it shows |
| --- | --- | --- |
| `MCExecutor_queue` | 3 Cleaners, 2 workers, slices up to 4, no removal, fair | `InProgressIsRunning`, `NoStarvation`, `EveryRunEnds`, refinement of `RunQueue` |
| `MCExecutor_removal` | 3 Cleaners, one of them removed at any time, 2 workers, slices up to 3 | `NoStaleResult`, `DirtyPending`, `RunsAreTracked`, `UnavailableIsIdle`, `ImplementsSafety` |
| `MCExecutor_parallel` | 1 Cleaner, 2 workers | **violated**: `NoParallelRuns` |
| `MCExecutor_ghost` | 2 Cleaners, one removed | **violated**: `ReleasedWhenDone` |
| `MCScheduler_schedule` | four schedules (two cron expressions, one with a deadline, one `@every`, one that does not parse), 2 edits, 1 crash, 26 units | `NoSlotSkipped`, `SlotNotPutOff`, `SpacedRuns`, `WakesForNextSlot`, `RemedyWorks` |
| `MCLifecycle_life` | 1 name, 2 Cleaners in turn, 2 workers, slices up to 3, 2 faults, fair | `FinalizerProtects`, `QuietRemovalIsClean`, `ErrorIsShown`, `DeletionEnds`, `OutcomeIsRead`, refinement of `CleanerLife` |
| `MCLifecycle_oldfinalizer` | 1 Cleaner of an earlier release, 1 worker, no fault, fair | **violated**: `OldFinalizerRemoved` |
| `MCCleanerRun_run` | 2 resources, 4 specs with overlapping selectors and every kind of notification, 2 changes, 2 runs, fair | `ProcessedIsDone`, `CleanRunIsComplete`, `ReportIsCurrent`, `ActedIsAnnounced`, `CountersTell`, `NoBlindUpdate`, `RunReturns` |
| `MCCleanerRun_stored` | delete and store | **violated**: `StoredBeforeAction` |
| `MCSelection_safety` | 2 namespaces, 1 name, 2 label values, all filter operations, 2 changes | `NothingMissed`, `NothingElseFound`, `FoundOnce` |
| `MCSelection_nomatch` | the same | **violated**: `NamespaceSelectorRespected` |
| `MCLuaValues_lua` | each kind of value alone, in a map and in pairs in a list, and nested; `Exact = 4`; 1 edit | `PortableIsKept`, `ErosionStops`, `UnusedIsUnused`, `GoodScriptsPass` |

Each passing run has its `TypeOK` too (the executor's is in `MCExecutor_removal`).
`BusyCounted`, `DirtyOnce` and `SlotInv`, on which other proofs rest, are in no run: they
are proved for all constants.

### Why the bounds are enough

* Executor. A request interacts with at most one entry of its own name in each slice,
  a second one of the same name (a run queued twice) and the entry that
  `removeFromSlice` moves: two workers, three names and slices of four, of three where
  one is removed, have all of these. `MaxLen` guards `Process` and `RemoveEntries`, the operations that a caller
  may repeat for ever; the code has no bound, and the proofs need none.
* Scheduler. The horizon has two slots of the longest schedule and three of the
  shortest; a crash at any point of a reconciliation, a wrong and a right edit, a
  failing call and a failing patch fit into it. `MaxMissed = 1` lets "too many missed
  starts" happen within the horizon. A reconciliation and its wait in the queue last up
  to a unit each.
* Lifecycle. The objects of different names meet only in the executor's slices, which
  `Executor` checks with several; one name with a predecessor, whose stale copy, queued
  run, running run and Report can all be left when the successor appears, is where the
  names themselves go wrong. Two workers may run the same Cleaner at once; two faults
  are a failed patch and a crash.
* CleanerRun. Two resources tell "this one" from "another one", which two selectors may
  both reach; two changes by other clients are a deletion and a re-creation, and two
  runs are the report of an older one.
* Selection. Two namespaces tell the one named from the one matched; two changes are a
  namespace or resource that leaves and comes back.
* LuaValues. The conversions treat a path by itself, given what is on its way, except
  that a table asks whether it has an element: lists of two with every pair of kinds, and one level of
  nesting, have each case next to each other one. 5 and 7 are rounded down and up.

### What the code does not keep

The violated runs state what a comment, a documentation page or a test says:

1. `NoParallelRuns`: `storeResult` moves a deferred request to `jobQueue`, `Process`
   does not look there, so the next request queues the name a second time and two
   workers run the same Cleaner at once.
2. `ReleasedWhenDone`: `RemoveEntries` drops the result of `removeFromSlice`. The name
   of *another* Cleaner is duplicated in `inProgress` and one copy stays for ever; that
   Cleaner is never queued again until the process restarts.
3. `OldFinalizerRemoved`: only `reconcileNormal` removes the finalizer of an earlier
   release. A Cleaner that has it and is deleted before its first reconciliation is
   never removed.
4. `StoredBeforeAction`: resources are stored after they are deleted or updated, and not
   at all when a notification fails.
5. `NamespaceSelectorRespected`: a namespace selector that matches no namespace selects
   from the whole cluster.

What else a reader of the code should know, and what no run claims otherwise:

* `client.go:223`: a name that is last in `dirty` stays there when its Cleaner is
  removed. With `dirty = <<c, a>>` and `jobQueue = <<a, c>>`, which requests for `b`, `a`
  and `c` and one worker reach, the removal of `a` leaves `<<c, a>>` and `<<c, c>>`: a
  Cleaner created again as `a` is dropped by every `Process` until the process restarts.
  `DirtyPending` is about the Cleaners that stay.
* A resource may be found that fitted at no one moment: its namespace matched when the
  namespaces were listed, and it got the label when the namespace no longer did.
  `NothingElseFound` promises each of the two at some time.
* `metrics.go:102`: the counter of the updates is that of the deletions, so updates are
  counted as deletions (`CountersTell` states what the counters do tell).
* `cleaner_controller.go:268`: `startingDeadlineSeconds` limits the missed starts that
  are counted and not the lateness of a run.
* The 30 seconds between two runs (`shouldSchedule`) are measured from a clock that is a
  jitter window ahead: `SpacedRuns` promises `Ignore - Jitter` only.
* `sched.Next(now)` puts the next run of an `@every` schedule off at every
  reconciliation; `SlotNotPutOff` holds for cron expressions.
* `notifications.go:231`: a Teams webhook that is not valid is no error.
  `ActedIsAnnounced` leaves Teams out.
* A run that outlives its Cleaner, since `RemoveEntries` stops no worker, leaves a
  Report nobody removes, and an outcome that the next Cleaner of that name takes for its
  own. `QuietRemovalIsClean` excludes exactly these and a lagging cache.
* An error of a run is handed out once: it is lost when the patch fails, or when the
  cached copy shows another message than the Cleaner has (`ErrorIsShown`).
* `mapToTable` leaves integers, lists and nulls of a list out, and `toGoValue` turns
  empty lists into maps: `PortableIsKept` says what survives.
* `store.go:113`: two kinds of one name in different API groups share a file.

## Fairness

* `Executor!Fairness`: weak fairness of each worker, one worker at a time. The code
  justifies it with the loop of `processRequests`: a timer of one second, a lock that
  is never held across a call that blocks, and a run that returns. That last part is an
  assumption, because the code sets no timeout on Lua scripts or notifications; that
  nothing else keeps a run from returning is `RunReturns`. Callers are under no
  fairness: nobody has to ask for a run or to collect a result.
* `RunQueue!Fairness` has strong fairness of starting each Cleaner, which is what the
  queue order gives; `ImplementsRunQueue` checks it.
* `Lifecycle!Fairness`: weak fairness of the informers' deliveries, of the reconciler
  per name (controller-runtime takes a queued name, and an error or `RequeueAfter`
  queues it again) and of the workers. Nobody has to create or delete a Cleaner, a run
  need not write a Report, and a fault never has to happen; the faults are finitely
  many, without which no retry could be expected to succeed.
* `CleanerRun!FairSpec`: weak fairness of the run itself, that is, every call returns;
  other clients need not do anything.
* `Scheduler`, `Selection` and `LuaValues` state safety only. That the reconciler wakes
  up is stated as an invariant (`WakesForNextSlot`: a timer is set and early enough),
  which is stronger than an eventual wake-up.

`CHECK_DEADLOCK FALSE` is set where the instance really stops: at the horizon, after the
last run, at the end of a selection, with no Cleaner left and none to create. The
executor and the Lua values never stop.

## The proofs

| theorem | says | holds for |
| --- | --- | --- |
| `ExecutorProofs!TypeCorrect` | `[]TypeOK` | all constants, removals included |
| `ExecutorProofs!ResultsAreFresh` | `[]NoStaleResult` | the same |
| `ExecutorProofs!BusyWorkersCounted` | `[]BusyCounted` | the same |
| `ExecutorProofs!RequestsAreKept` | `[]DirtyPending` | the same |
| `ExecutorProofs!TracksRuns` | `[]RunsAreTracked` | the same |
| `ExecutorProofs!UnavailableMeansIdle` | `[]UnavailableIsIdle` | the same |
| `ExecutorProofs!ImplementsSafely` | `ImplementsSafety`, the refinement of `RunQueue` | the same |
| `ExecutorProofs!RequestsMerge` | `[]DirtyOnce` | `Deletable = {}` |
| `ExecutorProofs!InProgressIsServed` | `[]InProgressIsRunning` | `Deletable = {}` |
| `SchedulerProofs!TypeCorrect` | `[]TypeOK`, and RequeueAfter is positive | all constants |
| `SchedulerProofs!SlotsAreKept`, `!SlotsAreServed` | `[]SlotInv`, `NoSlotSkipped` | all constants |
| `SchedulerProofs!RunsAreSpaced` | `SpacedRuns` | all constants |
| `SchedulerProofs!NeverOversleeps` | `[]WakesForNextSlot` | all constants |
| `SchedulerProofs!CronSlotsStay` | `SlotNotPutOff` | all constants |
| `SchedulerProofs!DeadlineIsARemedy` | `[]RemedyWorks` | all constants |
| `LifecycleProofs!ExecutorRestarts` | the composition runs the executor, or restarts it | all constants |
| `LifecycleProofs!LifecycleTypes` | `[]TypeOK` | all constants |
| `LifecycleProofs!ScheduledIsProtected` | `[]FinalizerProtects` | all constants |
| `LifecycleProofs!QuietRemovalsAreClean` | `[]QuietRemovalIsClean` | all constants |
| `LifecycleProofs!ImplementsCleanerLife` | `ImplementsLife`, the refinement of `CleanerLife` | all constants |
| `LifecycleProofs!ErrorsAreShown` | `ErrorIsShown` | all constants |
| `CleanerRunProofs!TypeCorrect` | `[]TypeOK` | all constants |
| `CleanerRunProofs!ProcessedWasDone` | `[]ProcessedIsDone` | all constants |
| `CleanerRunProofs!CleanRunsAreComplete` | `[]CleanRunIsComplete` | all constants |
| `CleanerRunProofs!ReportsAreCurrent`, `!ActionsAreAnnounced` | `[]ReportIsCurrent`, `[]ActedIsAnnounced` | all constants |
| `CleanerRunProofs!CountersAreTold` | `[]CountersTell` | all constants |
| `CleanerRunProofs!UpdatesAreInformed` | `NoBlindUpdate` | all constants |
| `SelectionProofs!TypeCorrect` | `[]TypeOK` | all constants |
| `SelectionProofs!ResourcesFoundOnce`, `!NothingIsMissed` | `[]FoundOnce`, `[]NothingMissed` | all constants |
| `SelectionProofs!NothingElseIsFound` | `[]NothingElseFound` | all constants |
| `LuaValuesProofs!TypeCorrect` | `[]TypeOK` | all constants |
| `LuaValuesProofs!LossIsOnce` | `Returned(Returned(d)) = Returned(d)` | every content `d` |
| `LuaValuesProofs!PortableComesBack` | `Returned(d) = d` | every content that is `Portable` |
| `LuaValuesProofs!HeldIsServer` | `[]HeldInv` | all constants |
| `LuaValuesProofs!PortablesAreKept`, `!LossesStop` | `PortableIsKept`, `ErosionStops` | all constants |
| `LuaValuesProofs!UnusedMeansUnused` | `[]UnusedIsUnused` | all constants |
| `LuaValuesProofs!GoodScriptsGoThrough` | `[]GoodScriptsPass` | all constants |

That is every safety property of the passing runs.

Executor. The lemmas say of the slice operators what they return, keep and shorten:
`RemoveKeyFacts`, `OverwriteKeyFacts`, `AppendFacts`, `HeadTailFacts`, and the same for
the number of occurrences (`Occurrences...`). The proofs with removals rest on what
`OverwriteKey`, the discarded `removeFromSlice`, does to the *other* names: it loses
none, and takes none of their occurrences away (`OccurrencesOverwrite`), since the only
name it overwrites is the removed one. So `DirtyPending` is inductive: what `storeResult`
takes out of `inProgress` it queues if `dirty` holds it. `RunsAreTracked` counts: a
worker that takes or leaves a Cleaner changes the number of its servers by one
(`ServingTaken`, `ServingLeft`) and its occurrences in `inProgress` with it, and a
removal can only add occurrences of a Cleaner that stays. From both follows
`UnavailableIsIdle`. Without removals the count is exact (`InProgressIsRunning`).
`ImplementsSafely` maps each action: `Process` to `Request`, `GetResult` to `Collect`,
`TakeRequest` to `Start` (the debt stays if the name is in `jobQueue` twice),
`StoreResult` to `Finish`, and to a stutter what concerns a Cleaner that may be removed
(`OwedFacts`); an outcome is dropped only when `dirty` owes a run, hence the run is owed.
`BusyCounted` needs that `RemoveEntries` keeps the length of `inProgress`: with the
shorter slice it would not hold.

Scheduler. `NoSlotSkipped` is an action property of the patch, but the decision that
makes it true is taken when the reconciliation reads the clock. `SlotInv` carries it
across: while a reconciliation is going on, if it is about to replace a schedule time
that has come, `Process` has been called recently enough. The case where the 30-second
guard refuses a run needs that no object, cached ones included, knows a later run than
`lastCall` (`KnownRun`), which is why the invariant speaks of `cleaner`, `cache` and
`work`. These proofs use only that `Next` of a schedule is later than its argument.
`WakeInv` drops what `WakesForNextSlot` says of the cache and adds the age of the
reconciliation. `SlotNotPutOff` needs that the persisted slot is one the expression had
before (`FirstSpecInv`), so that the next one computed earlier than it is the same.
`RemedyWorks` counts: the multiples of a period within a deadline are at most the
deadline divided by the period (`OutcomeInv` and the cardinality of an interval).

Lifecycle. `ExecutorRestarts` takes each step to one of the executor, or to its initial
state at a crash, from which the executor's types and `NoStaleResult` follow for the
composition. `FinalizerProtects` needs `ProtectionInv`: a finalizer the cache shows on a
Cleaner that is not being deleted is really there (only `reconcileDelete` takes it away,
and only when the cache shows a deletion), and while the cache shows a deletion, a
successor of that name is not on a schedule yet. `QuietInv` adds to
`QuietRemovalIsClean` that the name has no Cleaner, no queued and no running run, and
that the cache, if it lags, shows a deletion, so that no run is asked for, and that it
has no outcome, which only a run could store. `ImplementsCleanerLife` takes the
reconciliations to the steps of a Cleaner by `Evolves`: what a patch, a deletion or the
removal of a finalizer may do to it, where `FinalizerProtects` is what keeps an active one
from vanishing at once. That no `reconcileDelete` withdraws the Report of a Cleaner that
stays needs `LifeInv`: neither a Report nor what a worker has read is from a Cleaner
later than the one in the cache, and the one the cache shows as being deleted is being
deleted, or gone.

CleanerRun. `ProcInv`: what is processed is what was acted on, in order. `NotifyInv`:
every notification before the current one, or every one once the loop is left without an
error, has been dealt with. `CompleteInv`: every selected resource before the current
one is gone, marked, or another one by now (`Treated`). That last part must survive the
other clients: a resource that is gone may come back, but with a uid above every version
there has been, hence above every uid selected (`UidInv`).

Selection. `OnceInv`: the namespaces still to be listed are different ones and nothing
of them has been found. `MissedInv`: what has fitted since the beginning is found or in a
namespace still to be listed. `ElseInv`: what fits now is remembered, the namespaces that
are listed were all reached when `getNamespaces` returned them, and if there are none
although there is no namespaceSelector, the selector reaches every namespace. `ListFacts`
has what both and `CleanerRunProofs` need of
`SetToSeq`, of concatenation and of the rest of a sequence.

LuaValues. `Kept` is the set of paths `mapToTable` comes to, and all the lemmas are about
it: it has all the beginnings of its paths (`KeptFacts`); what it leads to is a table
whose tables have fields or elements but not both (`TableOfContent`), so that `toGoValue`
loses nothing of it, and what comes back has the same paths (`ReturnedFacts`) with a list
where an element is left, a map otherwise, and rounded numbers. An integer in a map comes
back as one; a float64 that is an integer would come back as one too, but the API server
writes it without a fraction, so that no resource that is read has one (`Values`). From this, `LossIsOnce`: what came back has no
null, its integers are float64 numbers already, its lists hold only what there is a case
for, and are not empty. `PortableComesBack` says that a portable content has all its paths
kept. A script that removes something leaves a table that is still one (`WithoutFacts`).
`EvaluateStep`, `AggregateStep` and `UpdateStep` reduce the three callers to what they do
to the stage and to the resources held. `HeldInv` carries the connection between what the
run holds and the API server from the list to the update, which is the only step of a run
that changes the server; with it a run writes what came back once or twice, which by
`LossIsOnce` is the same. `SettledInv` says that of the resource between the runs, and
`ErosionStops` follows. `UnusedIsUnused` rests on `UnusedFacts`: an element of a list the
script sees that has a case would be in the table.

The constants' assumptions: `Deletable` is a part of `Cleaners`, `None` and `Absent` are
not names or objects, workers, resources, namespaces and names are finitely many; the
durations are naturals, `Ignore` is positive, `Never` is not an integer, periods are
positive; specs have the fields the API types give them; `Contents` are well-formed and have a kind,
and `Exact` is positive.

Only model-checked: everything under fairness (`NoStarvation`, `EveryRunEnds`,
`RunReturns`, `DeletionEnds`, `OutcomeIsRead`, the liveness part of
`ImplementsRunQueue`), which is out of reach of the prover.

## Not modelled

* Text: messages, reports and logs as strings, the clients of the messaging services,
  the JSON and YAML encoders. They are input and output.
* File paths of stored resources. Files are keyed by resource; that two API groups may
  share a path is plain from the expression that builds it.
* Lua itself. A script is what it decides (`CleanerRun`) or what it does with its table
  (`LuaValues`); that a script returns at all is assumed.
* Telemetry: a goroutine that counts Cleaners and nodes twice a day and sends the
  counts. It writes nothing that the rest reads and drops every error.
* Startup (`cmd/main.go`): flags, probes and the manager of controller-runtime. The
  flags are constants of the modules, a restart is an action of `Scheduler` and
  `Lifecycle`.
* Generated deep copies, manifests, charts, examples, tests. The tests and pages were
  read for what they promise.

## What is left

`Scheduler` and `Lifecycle` abstract each other: a time-aware composition of the two
would tell how long a run lost in a crash stays lost, but its state space is the product
of both. Paths in the store and a bound on `jobQueue`, should the code get one, would be
the next things to state.
