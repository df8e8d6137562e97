------------------------------ MODULE Selection ------------------------------
(***************************************************************************)
(* What a ResourceSelector selects: fetchResources, getNamespaces,         *)
(* addLabelFilters, collectFromNamespaces and collectWithOptions of        *)
(* internal/controller/executor/worker.go.  The namespaces are listed      *)
(* once; then the resources of each of them are listed in a call of its    *)
(* own, while namespaces and resources come, change and go.                *)
(*                                                                         *)
(* A resource is identified by its namespace and its name; it either has   *)
(* the label the filters are about, with some value, or does not have it.  *)
(***************************************************************************)
EXTENDS Naturals, Sequences, SequencesExt

CONSTANTS
    Namespaces,  \* the names of namespaces
    Names,       \* the names of resources
    Values,      \* the values of the label
    Absent,      \* no such resource, no such label, no spec.namespace
    Filters,     \* the label filters a selector may have
    MaxChanges   \* bound on the changes of the cluster

Operations == {"Equal", "Different", "Has", "DoesNotHave"}

ASSUME AbsentAssumption == Absent \notin Values \union Namespaces
ASSUME FiltersAssumption ==
    Filters \subseteq SUBSET [operation : Operations, value : Values]
ASSUME FiniteAssumption == IsFiniteSet(Namespaces) /\ IsFiniteSet(Names)
ASSUME ChangesAssumption == MaxChanges \in Nat

VARIABLES
    nsState,   \* of each namespace: whether it exists and what the selector says of it
    label,     \* of each resource: the value of its label, Absent, or "gone"
    selector,  \* the ResourceSelector
    phase,     \* where fetchResources is
    scope,     \* the namespaces getNamespaces returned
    todo,      \* those that are still to be listed
    fetched,   \* the resources found
    steady,    \* history: the resources that fitted the selector since the beginning
    eligible,  \* history: the namespaces the selector reached at some time since
    fitting,   \* history: the resources that passed the filters at some time since
    changes    \* how often the cluster changed

cluster == <<nsState, label>>
history == <<steady, eligible, fitting>>
vars == <<nsState, label, selector, phase, scope, todo, fetched, history, changes>>

Resources == Namespaces \X Names

NsStates == {"absent", "matching", "other", "terminating"}

(* spec.namespace, whether there is a namespaceSelector, and whether it    *)
(* parses; the label filters.                                              *)
Selectors == [namespace : Namespaces \union {Absent},
              namespaceSelector : {"none", "labels", "malformed"},
              filters : Filters]

-----------------------------------------------------------------------------
(* addLabelFilters joins the requirements with commas, and the API server  *)
(* wants all of them; "key!=value" also holds when the key is missing.     *)
Satisfies(filter, v) ==
    CASE filter.operation = "Equal" -> v = filter.value
      [] filter.operation = "Different" -> v # filter.value
      [] filter.operation = "Has" -> v # Absent
      [] filter.operation = "DoesNotHave" -> v = Absent

FitsFilters(r) ==
    label[r] # "gone" /\ \A f \in selector.filters : Satisfies(f, label[r])

(* A slip: the namespaces that terminate are not left out. *)
MatchingAll ==
    IF selector.namespaceSelector = "labels"
    THEN {n \in Namespaces : nsState[n] \in {"matching", "terminating"}}
    ELSE {}

(* The namespaces for which labels.Parse(NamespaceSelector).Matches, those *)
(* that terminate left out.                                                *)
Matching ==
    IF selector.namespaceSelector = "labels"
    THEN {n \in Namespaces : nsState[n] = "matching"}
    ELSE {}

(* A slip: spec.namespace is added whatever it is. *)
GetNamespacesUnchecked == SetToSeq(Matching) \o <<selector.namespace>>

(* getNamespaces: those, and then spec.namespace unless it is one of them. *)
GetNamespaces ==
    SetToSeq(Matching) \o
        (IF selector.namespace \in Matching \union {Absent}
         THEN << >>
         ELSE <<selector.namespace>>)

-----------------------------------------------------------------------------
TypeOK ==
    /\ nsState \in [Namespaces -> NsStates]
    /\ label \in [Resources -> Values \union {Absent, "gone"}]
    /\ selector \in Selectors
    /\ phase \in {"namespaces", "list", "done", "failed"}
    /\ scope \in Seq(Namespaces)
    /\ todo \in Seq(Namespaces)
    /\ fetched \in Seq(Resources)
    /\ steady \subseteq Resources
    /\ eligible \subseteq Namespaces
    /\ fitting \subseteq Resources
    /\ changes \in Nat

(* The resources the selector describes: in spec.namespace or in a         *)
(* namespace the selector matches, or anywhere if it names none, and with  *)
(* the labels it asks for.                                                 *)
InScope(n) ==
    \/ n = selector.namespace
    \/ selector.namespaceSelector = "labels" /\ nsState[n] = "matching"
    \/ selector.namespace = Absent /\ selector.namespaceSelector = "none"

Reached == {n \in Namespaces : InScope(n)}

Fitting == {r \in Resources : FitsFilters(r)}

Described == {r \in Resources : InScope(r[1]) /\ FitsFilters(r)}

Init ==
    /\ nsState \in [Namespaces -> {"matching", "other"}]
    /\ label \in [Resources -> Values \union {Absent, "gone"}]
    /\ selector \in Selectors
    /\ phase = "namespaces"
    /\ scope = << >>
    /\ todo = << >>
    /\ fetched = << >>
    /\ steady = Described
    /\ eligible = Reached
    /\ fitting = Fitting
    /\ changes = 0

(* getNamespaces: a selector that does not parse, or a failed call, is an  *)
(* error.                                                                  *)
ListNamespaces ==
    /\ phase = "namespaces"
    /\ \/ /\ selector.namespaceSelector # "malformed"
          /\ scope' = GetNamespaces
          /\ todo' = scope'
          /\ phase' = "list"
       \/ /\ phase' = "failed"
          /\ UNCHANGED <<scope, todo>>
    /\ UNCHANGED <<cluster, selector, fetched, history, changes>>

(* collectWithOptions lists the resources of a set of namespaces.          *)
Listed(ns) == SetToSeq({r \in Resources : r[1] \in ns /\ FitsFilters(r)})

(* fetchResources with len(namespaces) == 0: one call for the cluster.     *)
CollectEverywhere ==
    /\ phase = "list"
    /\ scope = << >>
    /\ fetched' = Listed(Namespaces)
    /\ phase' = "done"
    /\ UNCHANGED <<cluster, selector, scope, todo, history, changes>>

(* A slip: the resources of a namespace replace those found before. *)
CollectFromNextOverwrites ==
    /\ phase = "list"
    /\ todo # << >>
    /\ fetched' = Listed({Head(todo)})
    /\ todo' = Tail(todo)
    /\ phase' = IF Len(todo) = 1 THEN "done" ELSE "list"
    /\ UNCHANGED <<cluster, selector, scope, history, changes>>

(* collectFromNamespaces: one call for each namespace.                     *)
CollectFromNext ==
    /\ phase = "list"
    /\ todo # << >>
    /\ fetched' = fetched \o Listed({Head(todo)})
    /\ todo' = Tail(todo)
    /\ phase' = IF Len(todo) = 1 THEN "done" ELSE "list"
    /\ UNCHANGED <<cluster, selector, scope, history, changes>>

(* A call fails, and what the other calls found is dropped.                *)
CollectFails ==
    /\ phase = "list"
    /\ phase' = "failed"
    /\ fetched' = << >>
    /\ UNCHANGED <<cluster, selector, scope, todo, history, changes>>

Fetch == ListNamespaces \/ CollectEverywhere \/ CollectFromNext \/ CollectFails

(* Namespaces and resources change under the run: a namespace is created,  *)
(* labelled or deleted, a resource created, labelled or deleted.           *)
ClusterChanges ==
    /\ changes < MaxChanges
    /\ changes' = changes + 1
    /\ phase \in {"namespaces", "list"}
    /\ \/ \E n \in Namespaces, s \in NsStates :
            /\ nsState' = [nsState EXCEPT ![n] = s]
            /\ UNCHANGED label
       \/ \E r \in Resources, v \in Values \union {Absent, "gone"} :
            /\ label' = [label EXCEPT ![r] = v]
            /\ UNCHANGED nsState
    /\ UNCHANGED <<selector, phase, scope, todo, fetched>>
    /\ steady' = steady \intersect Described'
    /\ eligible' = eligible \union Reached'
    /\ fitting' = fitting \union Fitting'

Next == Fetch \/ ClusterChanges

Spec == Init /\ [][Next]_vars

-----------------------------------------------------------------------------
(* Nothing is missed: a resource that fitted the selector from the         *)
(* beginning to the end is found, whatever else changes between the calls. *)
NothingMissed == phase = "done" => steady \subseteq ToSet(fetched)

(* Nothing else is found: what is found was in a namespace the selector    *)
(* reached and passed the filters, each at some time since the beginning,  *)
(* unless the selector names namespaces and none matches.  Not at the same *)
(* time, though: the namespace may have left the selector when a resource  *)
(* of it is labelled, and the resource is found all the same.              *)
NothingElseFound ==
    (scope # << >> \/ selector.namespaceSelector = "none") =>
        \A r \in ToSet(fetched) : r[1] \in eligible /\ r \in fitting

(* No resource is found twice, also when spec.namespace is one of the      *)
(* namespaces the NamespaceSelector matches: it would be transformed, or   *)
(* reported, twice.                                                        *)
FoundOnce == IsInjective(fetched)

-----------------------------------------------------------------------------
(* What the docs say of it, and a run refutes. *)

(* cleaner_types.go: "NamespaceSelector is a label selector for            *)
(* namespaces"; worker.go: "if resourceSelector.NamespaceSelector is       *)
(* defined, all matching namespaces are also considered".  In a cluster    *)
(* that does not change, only resources the selector describes are found.  *)
NamespaceSelectorRespected ==
    changes = 0 => ToSet(fetched) \subseteq Described
=============================================================================
