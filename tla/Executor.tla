------------------------------ MODULE Executor ------------------------------
(***************************************************************************)
(* The run queue of the cleaner: the singleton Manager of                  *)
(* internal/controller/executor/client.go and the pool of worker           *)
(* goroutines of worker.go.  A reconciler asks for a run of a Cleaner with *)
(* Process, asks how it went with GetResult and forgets a deleted Cleaner  *)
(* with RemoveEntries; a worker takes the request at the front of          *)
(* jobQueue, runs the Cleaner and stores the result.  Every operation      *)
(* holds Manager.mu from its first to its last access, so each is one      *)
(* action; the run itself, between TakeRequest and StoreResult, holds no   *)
(* lock.                                                                   *)
(*                                                                         *)
(* dirty, inProgress and jobQueue are Go slices, and which of their        *)
(* entries an operation removes, moves or overwrites depends on the order, *)
(* so they are sequences and not sets.                                     *)
(***************************************************************************)
EXTENDS Naturals, Sequences, SequencesExt

CONSTANTS
    Cleaners,   \* the names of Cleaner instances
    Deletable,  \* the names for which reconcileDelete calls RemoveEntries
    Workers,    \* the worker goroutines
    None,       \* "cleanerName == nil"
    MaxLen      \* bound on the three slices, so that TLC terminates

ASSUME DeletableAssumption == Deletable \subseteq Cleaners
ASSUME NoneAssumption == None \notin Cleaners
ASSUME MaxLenAssumption == MaxLen \in Nat
ASSUME WorkersAssumption == IsFiniteSet(Workers)

VARIABLES
    dirty,       \* requests made and not yet started
    inProgress,  \* requests the manager believes a worker is serving
    jobQueue,    \* requests a worker may take
    results,     \* the stored outcome of each Cleaner's last run
    running      \* the local variable cleanerName of each worker

vars == <<dirty, inProgress, jobQueue, results, running>>

(* The values of Manager.results: no entry, a nil error, an error. *)
Outcomes == {"none", "ok", "error"}

-----------------------------------------------------------------------------
(* Slices. *)

(* The index at which a "for i := range s" loop that looks for k breaks. *)
IndexOf(s, k) == SelectInSeq(s, LAMBDA e : e = k)

(* removeFromSlice writes the last element over element i... *)
Overwrite(s, i) == [s EXCEPT ![i] = Last(s)]

(* A slip: the element is blanked, and the slice keeps its length. *)
RemoveFromSliceBlanks(s, i) == [s EXCEPT ![i] = None]

(* ...and returns the slice that is one shorter. *)
RemoveFromSlice(s, i) == Front(Overwrite(s, i))

(* s = removeFromSlice(s, i) at the first i that holds k, if there is one. *)
RemoveKey(s, k) ==
    IF Contains(s, k) THEN RemoveFromSlice(s, IndexOf(s, k)) ELSE s

(* A slip: the slice gets shorter, and the last element is not moved. *)
OverwriteKeyLosesLast(s, k) ==
    IF Contains(s, k) THEN Front(s) ELSE s

(* removeFromSlice(s, i) with its result discarded: the caller keeps its   *)
(* length, so the last element is now there twice, and k is still there    *)
(* when it was the last one.                                               *)
OverwriteKey(s, k) ==
    IF Contains(s, k) THEN Overwrite(s, IndexOf(s, k)) ELSE s

-----------------------------------------------------------------------------
TypeOK ==
    /\ dirty \in Seq(Cleaners)
    /\ inProgress \in Seq(Cleaners)
    /\ jobQueue \in Seq(Cleaners)
    /\ results \in [Cleaners -> Outcomes]
    /\ running \in [Workers -> Cleaners \union {None}]

Init ==
    /\ dirty = << >>
    /\ inProgress = << >>
    /\ jobQueue = << >>
    /\ results = [c \in Cleaners |-> "none"]
    /\ running = [w \in Workers |-> None]

(* A slip: the result of the run before is not cleared. *)
ProcessKeepsResult(c) ==
    /\ ~Contains(dirty, c)
    /\ Len(dirty) < MaxLen
    /\ Len(jobQueue) < MaxLen
    /\ dirty' = Append(dirty, c)
    /\ jobQueue' = IF Contains(inProgress, c) THEN jobQueue ELSE Append(jobQueue, c)
    /\ UNCHANGED <<inProgress, results, running>>

(* Manager.Process: a second request for a run that has not started is     *)
(* dropped; a request for a Cleaner that is being served waits in dirty    *)
(* until storeResult queues it.  Only dirty and inProgress are looked at,  *)
(* not jobQueue.                                                           *)
Process(c) ==
    /\ ~Contains(dirty, c)
    /\ Len(dirty) < MaxLen
    /\ Len(jobQueue) < MaxLen
    /\ results' = [results EXCEPT ![c] = "none"]
    /\ dirty' = Append(dirty, c)
    /\ jobQueue' = IF Contains(inProgress, c) THEN jobQueue ELSE Append(jobQueue, c)
    /\ UNCHANGED <<inProgress, running>>

(* A slip: only jobQueue is looked at for a request that is not done. *)
RequestStatusOfQueue(c) ==
    CASE results[c] = "error" -> "Failed"
      [] results[c] = "ok" -> "Processed"
      [] results[c] = "none" /\ Contains(jobQueue, c) -> "InProgress"
      [] OTHER -> "Unavailable"

(* What getRequestStatus, and GetResult from it, answers for c. *)
RequestStatus(c) ==
    CASE results[c] = "error" -> "Failed"
      [] results[c] = "ok" -> "Processed"
      [] results[c] = "none" /\ (Contains(inProgress, c) \/ Contains(jobQueue, c))
            -> "InProgress"
      [] OTHER -> "Unavailable"

(* Manager.GetResult: a result is handed out once. *)
GetResult(c) ==
    /\ RequestStatus(c) \in {"Failed", "Processed"}
    /\ results' = [results EXCEPT ![c] = "none"]
    /\ UNCHANGED <<dirty, inProgress, jobQueue, running>>

(* Manager.RemoveEntries, called by reconcileDelete. *)
RemoveEntries(c) ==
    /\ Len(inProgress) < MaxLen
    /\ inProgress' = OverwriteKey(inProgress, c)
    /\ dirty' = OverwriteKey(dirty, c)
    /\ jobQueue' = OverwriteKey(jobQueue, c)
    /\ results' = [results EXCEPT ![c] = "none"]
    /\ UNCHANGED running

(* processRequests: an idle worker, when its timer fires, takes the front  *)
(* of jobQueue.                                                            *)
TakeRequest(w) ==
    /\ running[w] = None
    /\ jobQueue # << >>
    /\ LET key == Head(jobQueue)
       IN  /\ running' = [running EXCEPT ![w] = key]
           /\ inProgress' = Append(inProgress, key)
           /\ dirty' = RemoveKey(dirty, key)
    /\ jobQueue' = Tail(jobQueue)
    /\ UNCHANGED results

(* A slip: a request made during the run is not queued when it ends. *)
StoreResultForgetsDirty(w, err) ==
    /\ running[w] # None
    /\ inProgress' = RemoveKey(inProgress, running[w])
    /\ results' = [results EXCEPT ![running[w]] = err]
    /\ running' = [running EXCEPT ![w] = None]
    /\ UNCHANGED <<dirty, jobQueue>>

(* A slip: the request stays in inProgress when its run has ended. *)
StoreResultKeepsInProgress(w, err) ==
    /\ running[w] # None
    /\ LET key == running[w]
           again == Contains(dirty, key)
       IN  /\ results' = [results EXCEPT ![key] = IF again THEN "none" ELSE err]
           /\ jobQueue' = IF again THEN Append(jobQueue, key) ELSE jobQueue
           /\ dirty' = RemoveKey(dirty, key)
    /\ running' = [running EXCEPT ![w] = None]
    /\ UNCHANGED inProgress

(* storeResult, when processCleanerInstance has returned with err.         *)
StoreResult(w, err) ==
    /\ running[w] # None
    /\ LET key == running[w]
           again == Contains(dirty, key)
       IN  /\ inProgress' = RemoveKey(inProgress, key)
           /\ results' = [results EXCEPT ![key] = IF again THEN "none" ELSE err]
           /\ jobQueue' = IF again THEN Append(jobQueue, key) ELSE jobQueue
           /\ dirty' = RemoveKey(dirty, key)
    /\ running' = [running EXCEPT ![w] = None]

Caller ==
    \/ \E c \in Cleaners : Process(c) \/ GetResult(c)
    \/ \E c \in Deletable : RemoveEntries(c)

Worker(w) ==
    \/ TakeRequest(w)
    \/ \E err \in Outcomes \ {"none"} : StoreResult(w, err)

Next == Caller \/ \E w \in Workers : Worker(w)

(* A worker looks at the queue every second and a run, it is assumed,      *)
(* returns; nobody is obliged to ask for a run or for a result.            *)
Fairness == \A w \in Workers : WF_vars(Worker(w))

Spec == Init /\ [][Next]_vars

FairSpec == Spec /\ Fairness

-----------------------------------------------------------------------------
(* Properties that hold whatever is deleted. *)

(* A result is only ever kept for a Cleaner without an unstarted request:  *)
(* a reconciler that reads a result never reads one older than its own     *)
(* last request (Process and storeResult both clear it).                   *)
NoStaleResult ==
    \A c \in Cleaners : results[c] # "none" => ~Contains(dirty, c)

Busy == {w \in Workers : running[w] # None}

(* inProgress never has fewer entries than there are busy workers:         *)
(* RemoveEntries on a Cleaner that is running does not make room for it.   *)
BusyCounted == Len(inProgress) >= Cardinality(Busy)

-----------------------------------------------------------------------------
(* Properties of the Cleaners that are never removed, whatever happens to  *)
(* the others: RemoveEntries scrambles three slices that hold the requests *)
(* of everybody, and discards what it should keep.                         *)

(* The Cleaners that are never removed. *)
Survivors == Cleaners \ Deletable

(* Every unstarted request is in jobQueue, or behind a run that will put   *)
(* it there: dirty is never the only trace of a request.                   *)
DirtyPending ==
    \A c \in Survivors :
        Contains(dirty, c) => Contains(jobQueue, c) \/ Contains(inProgress, c)

Occurrences(s, k) == Cardinality({i \in DOMAIN s : s[i] = k})

Serving(c) == {w \in Workers : running[w] = c}

(* inProgress holds a Cleaner at least as often as workers run it, so that *)
(* what Process and GetResult take for "nobody is running it" is so, also  *)
(* when several workers run it and other Cleaners are removed meanwhile.   *)
RunsAreTracked ==
    \A c \in Survivors : Occurrences(inProgress, c) >= Cardinality(Serving(c))

(* GetResult answers Unavailable only when nothing is owed to the caller:  *)
(* no request waits, none runs and no outcome is kept.                     *)
UnavailableIsIdle ==
    \A c \in Survivors : RequestStatus(c) = "Unavailable" =>
        /\ ~Contains(dirty, c)
        /\ Serving(c) = {}

(* The requests that still have to be started. *)
Owed == (ToSet(dirty) \union ToSet(jobQueue)) \intersect Survivors

(* The slices implement the queue RunQueue specifies.                      *)
RQ == INSTANCE RunQueue WITH
        Cleaners <- Survivors,
        owed <- Owed,
        outcome <- [c \in Survivors |-> results[c]],
        running <- [w \in Workers |->
                        IF running[w] \in Survivors THEN running[w] ELSE None]

(* Step by step the executor keeps the promise of RunQueue to the Cleaners *)
(* that stay: no request is dropped, no Cleaner is run that nobody asked   *)
(* for, and no outcome is dropped unless a newer run is owed.              *)
ImplementsSafety == RQ!Safety

-----------------------------------------------------------------------------
(* Properties that need Deletable = {}: RemoveEntries breaks each of them. *)

(* dirty holds a name once, however many requests were made. *)
DirtyOnce == IsInjective(dirty)

(* inProgress is exactly the multiset of the names the workers serve.      *)
InProgressIsRunning ==
    \A c \in Cleaners : Occurrences(inProgress, c) = Cardinality(Serving(c))

(* A worker starts a run of c. *)
Starts(c) == \E w \in Workers : running[w] # c /\ running'[w] = c

(* No request starves: a name that is owed a run is started, also when     *)
(* other names keep being requested and when it is requested again while   *)
(* it runs.                                                                *)
NoStarvation ==
    \A c \in Cleaners : []<>(c \notin Owed) \/ []<><<Starts(c)>>_running

(* The executor keeps the promise of RunQueue with its fairness: nobody    *)
(* starves.                                                                *)
ImplementsRunQueue == RQ!Spec

(* The bookkeeping lets go of every name once its runs are over.           *)
EveryRunEnds ==
    \A c \in Cleaners :
        Contains(inProgress, c) ~> ~Contains(inProgress, c) \/ Contains(jobQueue, c)

-----------------------------------------------------------------------------
(* What the comments of the code say of it, and the runs refute. *)

(* worker.go, on the flow of a request: "This guarantees that same request *)
(* to collect resources is never process more than once in parallel".      *)
NoParallelRuns ==
    \A v, w \in Workers : v # w /\ running[v] # None => running[v] # running[w]

(* client.go, on inProgress: it "contains all requests (cleaner names)     *)
(* that are currently being served"; worker.go: "When worker is done, the  *)
(* request is removed from the inProgress set".                            *)
ReleasedWhenDone ==
    \A c \in Cleaners : Contains(inProgress, c) => \E w \in Workers : running[w] = c
=============================================================================
