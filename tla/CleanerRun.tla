----------------------------- MODULE CleanerRun -----------------------------
(***************************************************************************)
(* One worker running one Cleaner: processCleanerInstance of               *)
(* internal/controller/executor/worker.go with everything it calls.  The   *)
(* run lists the resources of each selector, keeps those Evaluate matches, *)
(* filters them with AggregatedSelection, deletes, transforms or reports   *)
(* each of them, delivers the notifications, stores the processed          *)
(* resources and returns an error or nil.  Meanwhile other clients of the  *)
(* API server create, change and delete the same resources, and any call   *)
(* may fail: what the run acts on is what it listed, not what is there.    *)
(*                                                                         *)
(* The contents of a resource is abstracted to what Evaluate says of it,   *)
(* and of the services the notifications go to only the answer is kept.    *)
(***************************************************************************)
EXTENDS Naturals, Sequences, SequencesExt

CONSTANTS
    Resources,   \* the names of the resources in the cluster
    Specs,       \* the specs of the Cleaner that may be run
    Absent,      \* no such resource
    MaxVersion,  \* bound on the changes other clients make
    MaxRuns      \* bound on the runs

Actions == {"Delete", "Transform", "Scan"}

(* The notifications that need a Secret and a service outside the cluster. *)
Messengers == {"Slack", "Webex", "Discord", "Teams", "Telegram", "SMTP"}
Kinds == Messengers \union {"CleanerReport", "Event"}

(* A selector reaches the resources of its kind, namespaces and labels.    *)
Selectors == [reach : SUBSET Resources, excludeDeleted : BOOLEAN]

Verdicts == {"yes", "no", "error"}

(* A resource: identity, version, the verdict of Evaluate on its contents, *)
(* whether a finalizer holds it, and its deletionTimestamp.                *)
Objects == [uid : Nat, rv : Nat, verdict : Verdicts, finalizer : BOOLEAN, deleting : BOOLEAN]

ASSUME AbsentAssumption == Absent \notin Objects
ASSUME ResourcesAssumption == IsFiniteSet(Resources)
ASSUME BoundsAssumption == MaxVersion \in Nat /\ MaxRuns \in Nat
ASSUME SpecsAssumption ==
    \A s \in Specs :
        /\ s.selectors \in Seq(Selectors)
        /\ s.aggregated \in BOOLEAN
        /\ s.action \in Actions
        /\ s.notifications \in Seq(Kinds)
        /\ s.store \in BOOLEAN

VARIABLES
    objects,    \* the resources at the API server
    version,    \* its resourceVersion counter
    phase,      \* where the run is
    spec,       \* the spec it read at its beginning
    pos,        \* the index of the loop of that phase
    selected,   \* the matching resources, as they were when listed
    processed,  \* those the run acted on
    failed,     \* whether an action on one of them failed (failedActions)
    err,        \* whether the run returned an error
    report,     \* the resources in the Report instance, or Absent
    sent,       \* the indices of the notifications this run delivered
    files,      \* the resources stored under StoreResourcePath
    counted,    \* the metrics this run incremented
    acted,      \* history: the deletes and updates of this run the API server did
    runs        \* how many runs began

server == <<objects, version>>
vars == <<objects, version, phase, spec, pos, selected, processed, failed, err,
          report, sent, files, counted, acted, runs>>

Phases == {"idle", "select", "act", "notify", "store", "done"}

Snapshots == [key : Resources, uid : Nat, rv : Nat]

CounterNames == {"deleted", "scanned", "errors"}

(* A slip: the versions of the resources stand for their names. *)
KeysAsVersions(s) == [i \in DOMAIN s |-> s[i].rv]

Keys(s) == [i \in DOMAIN s |-> s[i].key]

TypeOK ==
    /\ objects \in [Resources -> Objects \union {Absent}]
    /\ version \in Nat
    /\ phase \in Phases
    /\ spec \in Specs
    /\ pos \in Nat \ {0}
    /\ selected \in Seq(Snapshots)
    /\ processed \in Seq(Snapshots)
    /\ failed \in BOOLEAN
    /\ err \in BOOLEAN
    /\ report \in Seq(Resources) \union {Absent}
    /\ sent \subseteq DOMAIN spec.notifications
    /\ files \subseteq Resources
    /\ counted \subseteq CounterNames
    /\ acted \in Seq(Snapshots)
    /\ runs \in Nat

Init ==
    /\ objects \in [Resources -> {[uid |-> 0, rv |-> 0, verdict |-> v, finalizer |-> f,
                                   deleting |-> FALSE] : v \in Verdicts, f \in BOOLEAN}]
    /\ version = 0
    /\ phase = "idle"
    /\ spec \in Specs
    /\ pos = 1
    /\ selected = << >>
    /\ processed = << >>
    /\ failed = FALSE
    /\ err = FALSE
    /\ report = Absent
    /\ sent = {}
    /\ files = {}
    /\ counted = {}
    /\ acted = << >>
    /\ runs = 0

-----------------------------------------------------------------------------
(* Other clients of the API server. *)

Put(r, o) ==
    /\ version < MaxVersion
    /\ version' = version + 1
    /\ objects' = [objects EXCEPT ![r] = o]
    /\ UNCHANGED <<phase, spec, pos, selected, processed, failed, err, report, sent,
                   files, counted, acted, runs>>

UserCreates(r) ==
    /\ objects[r] = Absent
    /\ \E v \in Verdicts :
        Put(r, [uid |-> version + 1, rv |-> version + 1, verdict |-> v,
                finalizer |-> FALSE, deleting |-> FALSE])

UserChanges(r) ==
    /\ objects[r] # Absent
    /\ \E v \in Verdicts :
        Put(r, [objects[r] EXCEPT !.rv = version + 1, !.verdict = v])

(* A resource without a finalizer is gone at once; the others are marked,  *)
(* and gone when the finalizer is removed.                                 *)
AfterDelete(o) ==
    IF ~o.finalizer THEN Absent
    ELSE IF o.deleting THEN o
    ELSE [o EXCEPT !.deleting = TRUE, !.rv = version + 1]

UserDeletes(r) ==
    /\ objects[r] # Absent
    /\ Put(r, AfterDelete(objects[r]))

FinalizerRemoved(r) ==
    /\ objects[r] # Absent
    /\ objects[r].finalizer
    /\ Put(r, IF objects[r].deleting THEN Absent
              ELSE [objects[r] EXCEPT !.finalizer = FALSE, !.rv = version + 1])

-----------------------------------------------------------------------------
(* The run. *)

Goto(p) == phase' = p /\ pos' = 1

Return(e) ==
    /\ Goto("done")
    /\ err' = e

(* processRequests hands the worker the Cleaner; getCleanerInstance reads  *)
(* its spec, or fails.                                                     *)
Begin ==
    /\ phase \in {"idle", "done"}
    /\ runs < MaxRuns
    /\ runs' = runs + 1
    /\ spec' \in Specs
    /\ selected' = << >>
    /\ processed' = << >>
    /\ failed' = FALSE
    /\ acted' = << >>
    /\ \/ Goto("select") /\ err' = FALSE
       \/ Return(TRUE)
    /\ sent' = {}
    /\ counted' = {}
    /\ UNCHANGED <<server, report, files>>

Considered(sel) ==
    {r \in sel.reach : objects[r] # Absent /\ (sel.excludeDeleted => ~objects[r].deleting)}

Snapshot(r) == [key |-> r, uid |-> objects[r].uid, rv |-> objects[r].rv]

(* getMatchingResources for one selector.  A kind that discovery does not  *)
(* show, because the cluster does not have it or because a part of         *)
(* discovery failed, yields nothing; a failed call, or an error of         *)
(* Evaluate on a single resource, ends the run.                            *)
SelectNext ==
    /\ phase = "select"
    /\ pos <= Len(spec.selectors)
    /\ LET found == Considered(spec.selectors[pos])
           matching == {r \in found : objects[r].verdict = "yes"}
       IN  \/ /\ \A r \in found : objects[r].verdict # "error"
              /\ selected' = selected \o SetToSeq({Snapshot(r) : r \in matching})
              /\ pos' = pos + 1
              /\ UNCHANGED <<phase, err>>
           \/ /\ pos' = pos + 1
              /\ UNCHANGED <<phase, selected, err>>
           \/ /\ Return(TRUE)
              /\ UNCHANGED selected
    /\ UNCHANGED <<server, spec, processed, failed, report, sent, files, counted, acted, runs>>

(* A part of a sequence, in any order. *)
Parts(s) ==
    UNION {{[i \in 1 .. n |-> s[f[i]]] : f \in Injection(1 .. n, DOMAIN s)} : n \in 0 .. Len(s)}

(* aggregatedSelection: a script keeps some of the selected resources, in  *)
(* an order of its own, or fails.                                          *)
Aggregate ==
    /\ phase = "select"
    /\ pos > Len(spec.selectors)
    /\ \/ /\ selected' \in IF spec.aggregated THEN Parts(selected) ELSE {selected}
          /\ Goto("act")
          /\ UNCHANGED err
       \/ /\ spec.aggregated
          /\ Return(TRUE)
          /\ UNCHANGED selected
    /\ UNCHANGED <<server, spec, processed, failed, report, sent, files, counted, acted, runs>>

Acting(action) ==
    /\ phase = "act"
    /\ spec.action = action
    /\ pos <= Len(selected)
    /\ pos' = pos + 1
    /\ UNCHANGED <<phase, spec, selected, err, report, sent, files, runs>>

Count(name) == counted' = counted \union {name}

(* The action succeeded: the API server now holds o for that resource, in  *)
(* a new version if that is a change.                                      *)
Succeed(o) ==
    /\ objects' = [objects EXCEPT ![selected[pos].key] = o]
    /\ version' = IF o = objects[selected[pos].key] THEN version ELSE version + 1
    /\ processed' = Append(processed, selected[pos])
    /\ acted' = Append(acted, selected[pos])
    /\ UNCHANGED failed

(* A slip: the failure is not counted. *)
FailUncounted ==
    /\ failed' = TRUE
    /\ UNCHANGED <<server, processed, counted, acted>>

Fail ==
    /\ failed' = TRUE
    /\ Count("errors")
    /\ UNCHANGED <<server, processed, acted>>

(* A slip: a resource that is gone is counted as processed. *)
DeleteNextCountsMissing ==
    /\ Acting("Delete")
    /\ LET o == objects[selected[pos].key]
       IN  \/ /\ o = Absent
              /\ processed' = Append(processed, selected[pos])
              /\ UNCHANGED <<server, failed, counted, acted>>
           \/ /\ o # Absent
              /\ Succeed(AfterDelete(o))
              /\ Count("deleted")
           \/ Fail

(* deleteMatchingResources: the delete names the resource and carries no   *)
(* precondition; a resource that is gone is skipped.                       *)
DeleteNext ==
    /\ Acting("Delete")
    /\ LET o == objects[selected[pos].key]
       IN  \/ /\ o = Absent
              /\ UNCHANGED <<server, processed, failed, counted, acted>>
           \/ /\ o # Absent
              /\ Succeed(AfterDelete(o))
              /\ Count("deleted")
           \/ Fail

(* What an update can make of a resource: an update that changes nothing   *)
(* leaves it its version.                                                  *)
Transformed(o) ==
    {o} \union {[o EXCEPT !.rv = version + 1, !.verdict = v] : v \in {"yes", "no"}}

(* A slip: the update carries no resourceVersion. *)
TransformNextUnchecked ==
    /\ Acting("Transform")
    /\ LET o == objects[selected[pos].key]
       IN  \/ /\ o # Absent
              /\ \E p \in Transformed(o) : Succeed(p)
              /\ Count("deleted")
           \/ Fail

(* updateMatchingResources: the update carries the resourceVersion that    *)
(* was listed, so that the API server refuses it when the resource has     *)
(* changed or is gone; the script may fail too.  getUpdatedResourcesCounter*)
(* Vec returns the counter of the deletions.                               *)
TransformNext ==
    /\ Acting("Transform")
    /\ LET o == objects[selected[pos].key]
       IN  \/ /\ o # Absent
              /\ o.rv = selected[pos].rv
              /\ \E p \in Transformed(o) : Succeed(p)
              /\ Count("deleted")
           \/ Fail

(* printMatchingResources: nothing is done to the resources. *)
ScanAll ==
    /\ phase = "act"
    /\ spec.action = "Scan"
    /\ processed' = selected
    /\ IF selected = << >> THEN UNCHANGED counted ELSE Count("scanned")
    /\ Goto("notify")
    /\ UNCHANGED <<server, spec, selected, failed, err, report, sent, files, acted, runs>>

(* A slip: a run that selected nothing is not carried on with. *)
ActingDoneUnlessEmpty ==
    /\ phase = "act"
    /\ spec.action # "Scan"
    /\ selected # << >>
    /\ pos > Len(selected)
    /\ Goto("notify")
    /\ UNCHANGED <<server, spec, selected, processed, failed, err, report, sent, files,
                   counted, acted, runs>>

ActingDone ==
    /\ phase = "act"
    /\ spec.action # "Scan"
    /\ pos > Len(selected)
    /\ Goto("notify")
    /\ UNCHANGED <<server, spec, selected, processed, failed, err, report, sent, files,
                   counted, acted, runs>>

(* sendNotifications, at one of the notifications, of the given kind. *)
Notifying(kind) ==
    /\ phase = "notify"
    /\ pos <= Len(spec.notifications)
    /\ spec.notifications[pos] = kind
    /\ UNCHANGED <<server, spec, selected, processed, failed, files, counted, acted, runs>>

Delivered ==
    /\ sent' = sent \union {pos}
    /\ pos' = pos + 1
    /\ UNCHANGED <<phase, err>>

NotDelivered ==
    /\ pos' = pos + 1
    /\ UNCHANGED <<phase, err, sent>>

(* The first notification that fails ends the run: those after it are not  *)
(* tried, and nothing is stored.                                           *)
NotificationFails ==
    /\ Return(TRUE)
    /\ UNCHANGED sent

(* A slip: the Report instance is not written when nothing was processed. *)
WriteReportUnlessEmpty ==
    /\ Notifying("CleanerReport")
    /\ \/ /\ report' = IF processed = << >> THEN report ELSE Keys(processed)
          /\ Delivered
       \/ NotificationFails /\ UNCHANGED report

(* createReportInstance: the Report is written also when nothing was       *)
(* processed, unless the API server refuses it.                            *)
WriteReport ==
    /\ Notifying("CleanerReport")
    /\ \/ report' = Keys(processed) /\ Delivered
       \/ NotificationFails /\ UNCHANGED report

(* sendKubernetesEventNotification tells the event recorder, which never   *)
(* answers.                                                                *)
SendEvent ==
    /\ Notifying("Event")
    /\ IF processed = << >> THEN NotDelivered ELSE Delivered
    /\ UNCHANGED report

(* getSecret and what reads the Secret: it is not referred to, not there,  *)
(* or lacks an entry.                                                      *)
CredentialsFail == NotificationFails

(* A slip: a message that cannot be sent is logged and nothing more. *)
MessageSwallowsError(kind) ==
    /\ Notifying(kind)
    /\ UNCHANGED report
    /\ \/ processed = << >> /\ NotDelivered
       \/ processed # << >> /\ (CredentialsFail \/ Delivered \/ NotDelivered)

(* A notification by message is skipped when nothing was processed;        *)
(* otherwise its credentials are read and the service is called.           *)
Message(kind) ==
    /\ Notifying(kind)
    /\ UNCHANGED report
    /\ \/ processed = << >> /\ NotDelivered
       \/ processed # << >> /\ (CredentialsFail \/ Delivered \/ NotificationFails)

SendSlack == Message("Slack")
SendDiscord == Message("Discord")
SendTelegram == Message("Telegram")
SendSmtp == Message("SMTP")
SendWebex == Message("Webex")

(* sendTeamsNotification returns err, which is nil there, when the URL of  *)
(* the webhook is not valid.                                               *)
SendTeams ==
    \/ Message("Teams")
    \/ /\ Notifying("Teams")
       /\ processed # << >>
       /\ NotDelivered
       /\ UNCHANGED report

Notify ==
    WriteReport \/ SendEvent \/ SendSlack \/ SendDiscord \/ SendTelegram
    \/ SendSmtp \/ SendWebex \/ SendTeams

NotifyDone ==
    /\ phase = "notify"
    /\ pos > Len(spec.notifications)
    /\ Goto("store")
    /\ UNCHANGED <<server, spec, selected, processed, failed, err, report, sent, files,
                   counted, acted, runs>>

(* A slip: the error of the actions is lost on the way. *)
StoreLosesError ==
    /\ phase = "store"
    /\ \/ /\ \E dumped \in SUBSET {processed[i].key : i \in DOMAIN processed} :
                files' = IF spec.store THEN files \union dumped ELSE files
          /\ Return(FALSE)
       \/ /\ spec.store
          /\ Return(TRUE)
          /\ UNCHANGED files
    /\ UNCHANGED <<server, spec, selected, processed, failed, report, sent, counted, acted, runs>>

(* storeResources: a missing folder is an error, a resource that cannot be *)
(* dumped is skipped.  Only then is the error of the actions returned.     *)
Store ==
    /\ phase = "store"
    /\ \/ /\ \E dumped \in SUBSET {processed[i].key : i \in DOMAIN processed} :
                files' = IF spec.store THEN files \union dumped ELSE files
          /\ Return(failed)
       \/ /\ spec.store
          /\ Return(TRUE)
          /\ UNCHANGED files
    /\ UNCHANGED <<server, spec, selected, processed, failed, report, sent, counted, acted, runs>>

Environment ==
    \E r \in Resources :
        UserCreates(r) \/ UserChanges(r) \/ UserDeletes(r) \/ FinalizerRemoved(r)

Worker ==
    \/ SelectNext
    \/ Aggregate
    \/ DeleteNext
    \/ TransformNext
    \/ ScanAll
    \/ ActingDone
    \/ Notify
    \/ NotifyDone
    \/ Store

Next == Begin \/ Worker \/ Environment

Spec == Init /\ [][Next]_vars

(* Every call the run makes returns. *)
FairSpec == Spec /\ WF_vars(Worker)

-----------------------------------------------------------------------------
(* What a run reports as processed, to the Report, to the notifications    *)
(* and to the store, is what the API server did for it, resource by        *)
(* resource and in that order, whatever failed or vanished in between.     *)
ProcessedIsDone ==
    spec.action # "Scan" => Keys(processed) = Keys(acted)

(* A run that returns nil left no selected resource untouched: a deleted   *)
(* one is gone, marked, or replaced by another of that name, and all of    *)
(* them were transformed.                                                  *)
CleanRunIsComplete ==
    (phase = "done" /\ ~err) =>
        /\ spec.action = "Delete" =>
             \A i \in DOMAIN selected :
                LET o == objects[selected[i].key]
                IN  o = Absent \/ o.deleting \/ o.uid # selected[i].uid
        /\ spec.action # "Delete" => processed = selected

(* After a run that returns nil the Report shows that run, also when it    *)
(* found nothing and an older run had.                                     *)
ReportIsCurrent ==
    (phase = "done" /\ ~err /\ Contains(spec.notifications, "CleanerReport"))
    => report = Keys(processed)

(* What a run did to a resource is announced wherever the spec asks for    *)
(* it, or the run returns an error: a failed notification, or one that     *)
(* comes after it, is not mistaken for a delivered one.  Teams is left     *)
(* out: SendTeams may deliver nothing and return nil.                      *)
ActedIsAnnounced ==
    (phase = "done" /\ ~err /\ acted # << >>) =>
        \A i \in DOMAIN spec.notifications : spec.notifications[i] # "Teams" => i \in sent

(* Whoever watches the counters sees that resources were changed or marked *)
(* for deletion, and that an action failed, also when the run returns      *)
(* early: they are incremented as it goes.  (Updates are counted as        *)
(* deletions: getUpdatedResourcesCounterVec returns that counter.)         *)
CountersTell ==
    /\ "errors" \in counted <=> failed
    /\ "deleted" \in counted <=> acted # << >>

(* A transformation never overwrites a change the run has not read: it     *)
(* replaces exactly the version that was listed and evaluated.             *)
NoBlindUpdate ==
    [][(spec.action = "Transform" /\ acted' # acted /\ acted' # << >>)
       => objects[Last(acted').key].rv = Last(acted').rv]_vars

(* A run that begins returns, whatever other clients do to its resources:  *)
(* what the executor's fairness takes for granted.                         *)
RunReturns == phase = "select" ~> phase = "done"

-----------------------------------------------------------------------------
(* What the code and the docs say of it, and the runs refute. *)

(* worker.go: "Store resources before any action was taken irrespective of *)
(* err"; store_resource_yaml.md: the cleaner "will dump all the maching    *)
(* resources before any modification (update and/or deletion) is           *)
(* performed".                                                             *)
StoredBeforeAction ==
    spec.store => \A i \in DOMAIN acted : acted[i].key \in files
=============================================================================
