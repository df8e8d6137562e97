-------------------------- MODULE SelectionProofs --------------------------
(***************************************************************************)
(* Theorems about Selection, for any namespaces, names, filters and        *)
(* changes of the cluster while it is being listed.                        *)
(***************************************************************************)
EXTENDS Selection, ListFacts

LEMMA ResourcesFinite == IsFiniteSet(Resources)
BY FiniteAssumption, FS_Product DEF Resources

(* One call lists each resource of its namespaces that passes the filters, *)
(* once.                                                                   *)
LEMMA ListedFacts ==
    ASSUME NEW ns
    PROVE  /\ Listed(ns) \in Seq(Resources)
           /\ IsInjective(Listed(ns))
           /\ ToSet(Listed(ns)) = {r \in Resources : r[1] \in ns /\ FitsFilters(r)}
<1> DEFINE R == {r \in Resources : r[1] \in ns /\ FitsFilters(r)}
<1>1. R \subseteq Resources
  OBVIOUS
<1> HIDE DEF R
<1>2. IsFiniteSet(R)
  BY <1>1, ResourcesFinite, FS_Subset
<1>3. Listed(ns) = SetToSeq(R)
  BY Zenon DEF Listed, R
<1>4. /\ SetToSeq(R) \in Seq(R) /\ IsInjective(SetToSeq(R)) /\ ToSet(SetToSeq(R)) = R
  BY <1>2, SetToSeqFacts
<1>5. SetToSeq(R) \in Seq(Resources)
  BY <1>1, <1>4, SeqMonotonic, Zenon
<1> QED
  BY <1>3, <1>4, <1>5, Zenon DEF R

(* An empty list has no element. *)
LEMMA EmptyFacts ==
    ASSUME NEW S, NEW s \in Seq(S), ToSet(s) = {}
    PROVE  s = << >>
<1>1. Len(s) \in Nat /\ \A i \in 1 .. Len(s) : FALSE
  BY DEF ToSet
<1>2. Len(s) = 0
  BY <1>1
<1> QED
  BY <1>2

(* getNamespaces returns each namespace it should, once.                   *)
LEMMA GetNamespacesFacts ==
    ASSUME TypeOK
    PROVE  /\ GetNamespaces \in Seq(Namespaces)
           /\ IsInjective(GetNamespaces)
           /\ ToSet(GetNamespaces) = Matching \union ({selector.namespace} \ {Absent})
<1> DEFINE last == IF selector.namespace \in Matching \union {Absent}
                   THEN << >> ELSE <<selector.namespace>>
<1>1. Matching \subseteq Namespaces /\ IsFiniteSet(Matching)
  <2>1. Matching \subseteq Namespaces
    BY DEF Matching
  <2> QED
    BY <2>1, FiniteAssumption, FS_Subset
<1>2. /\ SetToSeq(Matching) \in Seq(Matching) /\ IsInjective(SetToSeq(Matching))
      /\ ToSet(SetToSeq(Matching)) = Matching
  BY <1>1, SetToSeqFacts
<1>3. SetToSeq(Matching) \in Seq(Namespaces)
  BY <1>1, <1>2, SeqMonotonic, Zenon
<1>4. selector.namespace \in Namespaces \union {Absent} /\ Absent \notin Namespaces
  BY AbsentAssumption DEF TypeOK, Selectors
<1>5. /\ last \in Seq(Namespaces) /\ IsInjective(last)
      /\ ToSet(last) = {selector.namespace} \ (Matching \union {Absent})
  <2>1. CASE selector.namespace \in Matching \union {Absent}
    <3>1. last = << >>
      BY <2>1
    <3> QED
      BY <2>1, <3>1 DEF IsInjective, ToSet
  <2>2. CASE selector.namespace \notin Matching \union {Absent}
    <3>1. last = <<selector.namespace>> /\ selector.namespace \in Namespaces
      BY <1>4, <2>2
    <3>2. DOMAIN last = {1} /\ last[1] = selector.namespace
      BY <3>1
    <3> HIDE DEF last
    <3> QED
      BY <2>2, <3>1, <3>2 DEF IsInjective, ToSet
  <2> QED
    BY <2>1, <2>2
<1>6. GetNamespaces = SetToSeq(Matching) \o last
  BY Zenon DEF GetNamespaces
<1> HIDE DEF last
<1>7. /\ GetNamespaces \in Seq(Namespaces)
      /\ ToSet(GetNamespaces) = ToSet(SetToSeq(Matching)) \union ToSet(last)
      /\ IsInjective(SetToSeq(Matching)) /\ IsInjective(last)
         /\ ToSet(SetToSeq(Matching)) \intersect ToSet(last) = {} => IsInjective(GetNamespaces)
  BY <1>3, <1>5, <1>6, JoinedFacts
<1> QED
  BY <1>1, <1>2, <1>4, <1>5, <1>7

-----------------------------------------------------------------------------
(* Types. *)

LEMMA TypeInductive == TypeOK /\ [Next]_vars => TypeOK'
<1> SUFFICES ASSUME TypeOK, [Next]_vars
             PROVE  TypeOK'
  OBVIOUS
<1>1. CASE ListNamespaces
  BY <1>1, GetNamespacesFacts DEF TypeOK, ListNamespaces, cluster, history
<1>2. CASE CollectEverywhere
  BY <1>2, ListedFacts DEF TypeOK, CollectEverywhere, cluster, history
<1>3. CASE CollectFromNext
  <2>1. fetched' \in Seq(Resources)
    BY <1>3, ListedFacts, JoinedFacts DEF TypeOK, CollectFromNext
  <2>2. todo' \in Seq(Namespaces)
    BY <1>3, RestFacts DEF TypeOK, CollectFromNext
  <2> QED
    BY <1>3, <2>1, <2>2 DEF TypeOK, CollectFromNext, cluster, history
<1>4. CASE CollectFails
  BY <1>4 DEF TypeOK, CollectFails, cluster, history
<1>5. CASE ClusterChanges
  <2>1. UNCHANGED <<selector, phase, scope, todo, fetched>> /\ steady' \subseteq steady
        /\ changes' = changes + 1
    BY <1>5 DEF ClusterChanges
  <2>2. nsState' \in [Namespaces -> NsStates]
    BY <1>5 DEF TypeOK, ClusterChanges
  <2>3. label' \in [Resources -> Values \union {Absent, "gone"}]
    BY <1>5 DEF TypeOK, ClusterChanges
  <2>4. eligible' \subseteq Namespaces /\ fitting' \subseteq Resources
    <3>1. eligible' = eligible \union Reached' /\ fitting' = fitting \union Fitting'
      BY <1>5 DEF ClusterChanges
    <3>2. Reached' \subseteq Namespaces /\ Fitting' \subseteq Resources
      BY DEF Reached, Fitting, Resources
    <3> QED
      BY <3>1, <3>2 DEF TypeOK
  <2> QED
    BY <2>1, <2>2, <2>3, <2>4 DEF TypeOK
<1>6. CASE UNCHANGED vars
  BY <1>6 DEF TypeOK, vars, history
<1> QED
  BY <1>1, <1>2, <1>3, <1>4, <1>5, <1>6 DEF Next, Fetch

(* The variables have their types whatever the cluster does.               *)
THEOREM TypeCorrect == Spec => []TypeOK
<1>1. Init => TypeOK
  BY DEF Init, TypeOK, NsStates, Described, Reached, Fitting
<1> QED
  BY <1>1, TypeInductive, PTL DEF Spec

-----------------------------------------------------------------------------
(* Nothing twice. *)

(* The namespaces that are still to be listed are different ones, and      *)
(* nothing of them has been found.                                         *)
OnceInv ==
    /\ FoundOnce
    /\ IsInjective(todo)
    /\ phase = "namespaces" => fetched = << >>
    /\ phase = "list" /\ scope = << >> => todo = << >>
    /\ phase = "list" => \A r \in ToSet(fetched) : r[1] \notin ToSet(todo)

LEMMA OnceInductive == TypeOK /\ OnceInv /\ [Next]_vars => OnceInv'
<1> SUFFICES ASSUME TypeOK, OnceInv, [Next]_vars
             PROVE  OnceInv'
  OBVIOUS
<1>0. ToSet(<< >>) = {} /\ IsInjective(<< >>)
  BY DEF ToSet, IsInjective
<1>1. CASE ListNamespaces
  <2>1. /\ phase = "namespaces" /\ fetched' = fetched /\ fetched = << >>
        /\ \/ phase' = "list" /\ scope' = GetNamespaces /\ todo' = scope'
           \/ phase' = "failed" /\ todo' = todo
    BY <1>1 DEF ListNamespaces, OnceInv
  <2> QED
    BY <1>0, <2>1, GetNamespacesFacts DEF OnceInv, FoundOnce
<1>2. CASE CollectEverywhere
  BY <1>2, ListedFacts DEF OnceInv, FoundOnce, CollectEverywhere
<1>3. CASE CollectFromNext
  <2> DEFINE n == Head(todo)
             list == Listed({n})
  <2>1. /\ phase = "list" /\ todo # << >> /\ todo' = Tail(todo) /\ scope' = scope
        /\ fetched' = fetched \o list /\ phase' \in {"list", "done"}
    BY <1>3 DEF CollectFromNext
  <2>2. /\ n \in Namespaces /\ Tail(todo) \in Seq(Namespaces)
        /\ ToSet(todo) = {n} \union ToSet(Tail(todo))
        /\ IsInjective(Tail(todo)) /\ n \notin ToSet(Tail(todo))
    BY <2>1, RestFacts DEF TypeOK, OnceInv
  <2>3. /\ list \in Seq(Resources) /\ IsInjective(list)
        /\ \A r \in ToSet(list) : r[1] = n
    BY ListedFacts
  <2> HIDE DEF n, list
  <2>4. ToSet(fetched) \intersect ToSet(list) = {}
    BY <2>1, <2>2, <2>3 DEF OnceInv
  <2>5. /\ IsInjective(fetched \o list)
        /\ ToSet(fetched \o list) = ToSet(fetched) \union ToSet(list)
    BY <2>3, <2>4, JoinedFacts DEF TypeOK, OnceInv, FoundOnce
  <2>6. \A r \in ToSet(fetched') : r[1] \notin ToSet(todo')
    BY <2>1, <2>2, <2>3, <2>5 DEF OnceInv
  <2> QED
    BY <2>1, <2>2, <2>5, <2>6 DEF OnceInv, FoundOnce
<1>4. CASE CollectFails
  BY <1>0, <1>4 DEF OnceInv, FoundOnce, CollectFails
<1>5. CASE ClusterChanges \/ UNCHANGED vars
  <2>1. UNCHANGED <<phase, scope, todo, fetched>>
    BY <1>5 DEF ClusterChanges, vars
  <2> QED
    BY <2>1, Zenon DEF OnceInv, FoundOnce
<1> QED
  BY <1>1, <1>2, <1>3, <1>4, <1>5 DEF Next, Fetch

LEMMA OnceInvariant == Spec => []OnceInv
<1>1. Init => OnceInv
  BY DEF Init, OnceInv, FoundOnce, IsInjective, ToSet
<1> QED
  BY <1>1, OnceInductive, TypeCorrect, PTL DEF Spec

(* No resource is found twice, also when spec.namespace is one of the      *)
(* namespaces that match.                                                  *)
THEOREM ResourcesFoundOnce == Spec => []FoundOnce
<1>1. OnceInv => FoundOnce
  BY DEF OnceInv
<1> QED
  BY <1>1, OnceInvariant, PTL

-----------------------------------------------------------------------------
(* Nothing missed. *)

(* What has fitted since the beginning fits now, and is found or in a      *)
(* namespace that is still to be listed.                                   *)
MissedInv ==
    /\ steady \subseteq Described
    /\ phase = "list" /\ scope # << >> =>
        \A r \in steady : r \in ToSet(fetched) \/ r[1] \in ToSet(todo)
    /\ NothingMissed

LEMMA MissedInductive == TypeOK /\ OnceInv /\ MissedInv /\ [Next]_vars => MissedInv'
<1> SUFFICES ASSUME TypeOK, OnceInv, MissedInv, [Next]_vars
             PROVE  MissedInv'
  OBVIOUS
<1>0. \A r \in steady : r \in Resources /\ r[1] \in Namespaces /\ InScope(r[1]) /\ FitsFilters(r)
  BY DEF MissedInv, Described, Resources
<1>1. ASSUME UNCHANGED <<cluster, selector, steady>>
      PROVE  steady' \subseteq Described'
  BY <1>1 DEF MissedInv, Described, InScope, FitsFilters, cluster
<1>2. CASE ListNamespaces
  <2>1. /\ UNCHANGED <<cluster, selector, steady>>
        /\ \/ /\ phase' = "list" /\ scope' = GetNamespaces /\ todo' = scope'
              /\ selector.namespaceSelector # "malformed"
           \/ phase' = "failed"
    BY <1>2 DEF ListNamespaces, history
  <2>2. ASSUME phase' = "list", scope' = GetNamespaces, scope' # << >>, NEW r \in steady
        PROVE  r[1] \in ToSet(scope')
    <3>1. ToSet(scope') = Matching \union ({selector.namespace} \ {Absent})
      BY <2>2, GetNamespacesFacts
    <3>2. CASE r[1] = selector.namespace
      BY <1>0, <2>2, <3>1, <3>2, AbsentAssumption
    <3>3. CASE selector.namespaceSelector = "labels" /\ nsState[r[1]] = "matching"
      BY <1>0, <2>2, <3>1, <3>3 DEF Matching
    <3>4. CASE selector.namespace = Absent /\ selector.namespaceSelector = "none"
      <4>1. ToSet(scope') = {}
        BY <3>1, <3>4 DEF Matching
      <4>2. scope' \in Seq(Namespaces)
        BY <2>2, GetNamespacesFacts
      <4>3. scope' = << >>
        BY <4>1, <4>2, EmptyFacts
      <4> QED
        BY <2>2, <4>3
    <3> QED
      BY <1>0, <2>2, <3>2, <3>3, <3>4 DEF InScope
  <2> QED
    BY <1>1, <2>1, <2>2 DEF MissedInv, NothingMissed
<1>3. CASE CollectEverywhere
  <2>1. /\ UNCHANGED <<cluster, selector, steady>> /\ phase' = "done"
        /\ fetched' = Listed(Namespaces)
    BY <1>3 DEF CollectEverywhere, history
  <2>2. steady \subseteq ToSet(fetched')
    BY <1>0, <2>1, ListedFacts
  <2> QED
    BY <1>1, <2>1, <2>2 DEF MissedInv, NothingMissed
<1>4. CASE CollectFromNext
  <2> DEFINE n == Head(todo)
             list == Listed({n})
  <2>1. /\ UNCHANGED <<cluster, selector, scope, steady>>
        /\ phase = "list" /\ todo # << >> /\ todo' = Tail(todo)
        /\ fetched' = fetched \o list
        /\ phase' = IF Len(todo) = 1 THEN "done" ELSE "list"
    BY <1>4 DEF CollectFromNext, history
  <2>2. Tail(todo) \in Seq(Namespaces) /\ ToSet(todo) = {n} \union ToSet(Tail(todo))
    BY <2>1, RestFacts DEF TypeOK
  <2>3. /\ list \in Seq(Resources)
        /\ ToSet(list) = {r \in Resources : r[1] \in {n} /\ FitsFilters(r)}
    BY ListedFacts
  <2> HIDE DEF n, list
  <2>4. ToSet(fetched') = ToSet(fetched) \union ToSet(list)
    BY <2>1, <2>3, JoinedFacts DEF TypeOK
  <2>5. \A r \in steady : r \in ToSet(fetched) \/ r[1] \in ToSet(todo)
    BY <2>1 DEF OnceInv, MissedInv
  <2>6. \A r \in steady : r \in ToSet(fetched') \/ r[1] \in ToSet(todo')
    BY <1>0, <2>1, <2>2, <2>3, <2>4, <2>5
  <2>7. ASSUME Len(todo) = 1
        PROVE  ToSet(todo') = {}
    <3>1. todo' \in Seq(Namespaces)
      BY <2>1, <2>2
    <3>2. Len(todo') = 0
      BY <2>1, <2>7 DEF TypeOK
    <3>3. DOMAIN todo' = {}
      BY <3>1, <3>2
    <3> QED
      BY <3>3 DEF ToSet
  <2> QED
    BY <1>1, <2>1, <2>6, <2>7 DEF MissedInv, NothingMissed
<1>5. CASE CollectFails
  <2>1. UNCHANGED <<cluster, selector, steady>> /\ phase' = "failed"
    BY <1>5 DEF CollectFails, history
  <2> QED
    BY <1>1, <2>1 DEF MissedInv, NothingMissed
<1>6. CASE ClusterChanges
  <2>1. /\ UNCHANGED <<phase, scope, todo, fetched>>
        /\ steady' = steady \intersect Described'
    BY <1>6 DEF ClusterChanges
  <2> QED
    BY <2>1 DEF MissedInv, NothingMissed
<1>7. CASE UNCHANGED vars
  <2>1. UNCHANGED <<cluster, selector, steady, phase, scope, todo, fetched>>
    BY <1>7 DEF vars, cluster, history
  <2> QED
    BY <1>1, <2>1 DEF MissedInv, NothingMissed
<1> QED
  BY <1>2, <1>3, <1>4, <1>5, <1>6, <1>7 DEF Next, Fetch

(* A resource that fits the selector from the beginning to the end is      *)
(* found, whatever else changes between the calls.                         *)
THEOREM NothingIsMissed == Spec => []NothingMissed
<1>1. Init => MissedInv
  BY DEF Init, MissedInv, NothingMissed
<1>2. MissedInv => NothingMissed
  BY DEF MissedInv
<1> QED
  BY <1>1, <1>2, MissedInductive, TypeCorrect, OnceInvariant, PTL DEF Spec

-----------------------------------------------------------------------------
(* Nothing else. *)

(* What fits now is remembered; every namespace that is listed, or still   *)
(* to be listed, was reached when getNamespaces returned it; and if it     *)
(* returned none although there is no namespaceSelector, then the selector *)
(* names no namespace and reaches them all.                                *)
ElseInv ==
    /\ Reached \subseteq eligible
    /\ Fitting \subseteq fitting
    /\ \A n \in ToSet(scope) \union ToSet(todo) : n \in eligible
    /\ phase = "namespaces" => scope = << >> /\ fetched = << >>
    /\ phase = "list" /\ scope = << >> /\ selector.namespaceSelector = "none" =>
           selector.namespace = Absent
    /\ NothingElseFound

LEMMA ElseInductive == TypeOK /\ ElseInv /\ [Next]_vars => ElseInv'
<1> SUFFICES ASSUME TypeOK, ElseInv, [Next]_vars
             PROVE  ElseInv'
  OBVIOUS
<1>0. ToSet(<< >>) = {}
  BY DEF ToSet
<1>1. ASSUME UNCHANGED <<cluster, selector, history>>
      PROVE  /\ (Reached \subseteq eligible)' /\ (Fitting \subseteq fitting)'
             /\ eligible' = eligible /\ fitting' = fitting
  <2>1. UNCHANGED <<nsState, label, selector, eligible, fitting>>
    BY <1>1 DEF cluster, history
  <2>2. Reached' = Reached /\ Fitting' = Fitting
    BY <2>1 DEF Reached, Fitting, InScope, FitsFilters
  <2> QED
    BY <2>1, <2>2 DEF ElseInv
<1>2. CASE ListNamespaces
  <2>1. /\ UNCHANGED <<cluster, selector, fetched, history>>
        /\ fetched = << >> /\ phase' # "namespaces"
        /\ \/ phase' = "list" /\ scope' = GetNamespaces /\ todo' = scope'
           \/ phase' = "failed" /\ UNCHANGED <<scope, todo>>
    BY <1>2 DEF ListNamespaces, ElseInv
  <2>2. ASSUME scope' = GetNamespaces
        PROVE  /\ \A n \in ToSet(scope') : n \in Reached
               /\ scope' = << >> /\ selector.namespaceSelector = "none" =>
                      selector.namespace = Absent
    <3>1. ToSet(scope') = Matching \union ({selector.namespace} \ {Absent})
      BY <2>2, GetNamespacesFacts
    <3>2. selector.namespace \in Namespaces \union {Absent}
      BY DEF TypeOK, Selectors
    <3>3. \A n \in ToSet(scope') : n \in Reached
      BY <3>1, <3>2 DEF Matching, Reached, InScope
    <3>4. scope' = << >> => selector.namespace = Absent
      BY <1>0, <3>1
    <3> QED
      BY <3>3, <3>4
  <2>3. NothingElseFound'
    BY <1>0, <2>1 DEF NothingElseFound
  <2> QED
    BY <1>1, <2>1, <2>2, <2>3 DEF ElseInv
<1>3. CASE CollectEverywhere
  <2>1. /\ UNCHANGED <<cluster, selector, scope, todo, history>>
        /\ phase = "list" /\ scope = << >> /\ phase' = "done"
        /\ fetched' = Listed(Namespaces)
    BY <1>3 DEF CollectEverywhere
  <2>2. ToSet(fetched') \subseteq Fitting
    BY <2>1, ListedFacts DEF Fitting
  <2>3. ASSUME selector.namespaceSelector = "none", NEW r \in ToSet(fetched')
        PROVE  r[1] \in eligible /\ r \in fitting
    <3>1. r \in Resources /\ r[1] \in Namespaces
      BY <2>2, <2>3 DEF Fitting, Resources
    <3>2. r[1] \in Reached
      BY <2>1, <2>3, <3>1 DEF Reached, InScope, ElseInv
    <3> QED
      BY <2>2, <2>3, <3>2 DEF ElseInv
  <2>4. NothingElseFound'
    BY <1>1, <2>1, <2>3 DEF NothingElseFound
  <2> QED
    BY <1>1, <2>1, <2>4 DEF ElseInv
<1>4. CASE CollectFromNext
  <2> DEFINE n == Head(todo)
             list == Listed({n})
  <2>1. /\ UNCHANGED <<cluster, selector, scope, history>>
        /\ phase = "list" /\ todo # << >> /\ todo' = Tail(todo)
        /\ fetched' = fetched \o list /\ phase' \in {"list", "done"}
    BY <1>4 DEF CollectFromNext
  <2>2. n \in ToSet(todo) /\ ToSet(Tail(todo)) \subseteq ToSet(todo)
    BY <2>1, RestFacts DEF TypeOK
  <2>3. /\ list \in Seq(Resources)
        /\ \A r \in ToSet(list) : r[1] = n /\ r \in Fitting
    BY ListedFacts DEF Fitting
  <2> HIDE DEF n, list
  <2>4. ToSet(fetched') = ToSet(fetched) \union ToSet(list)
    BY <2>1, <2>3, JoinedFacts DEF TypeOK
  <2>5. \A r \in ToSet(list) : r[1] \in eligible /\ r \in fitting
    BY <2>2, <2>3 DEF ElseInv
  <2>6. NothingElseFound'
    BY <1>1, <2>1, <2>4, <2>5 DEF NothingElseFound, ElseInv
  <2> QED
    BY <1>1, <2>1, <2>2, <2>6 DEF ElseInv
<1>5. CASE CollectFails
  <2>1. /\ UNCHANGED <<cluster, selector, scope, todo, history>>
        /\ phase' = "failed" /\ fetched' = << >>
    BY <1>5 DEF CollectFails
  <2> QED
    BY <1>0, <1>1, <2>1 DEF ElseInv, NothingElseFound
<1>6. CASE ClusterChanges
  <2>1. /\ UNCHANGED <<selector, phase, scope, todo, fetched>>
        /\ eligible' = eligible \union Reached' /\ fitting' = fitting \union Fitting'
    BY <1>6 DEF ClusterChanges
  <2> QED
    BY <2>1 DEF ElseInv, NothingElseFound
<1>7. CASE UNCHANGED vars
  <2>1. UNCHANGED <<cluster, selector, phase, scope, todo, fetched, history>>
    BY <1>7 DEF vars, cluster
  <2> QED
    BY <1>1, <2>1 DEF ElseInv, NothingElseFound
<1> QED
  BY <1>2, <1>3, <1>4, <1>5, <1>6, <1>7 DEF Next, Fetch

(* What is found was in a namespace the selector reached, and passed the   *)
(* filters, each at some time since the beginning; only a namespaceSelector *)
(* that matches no namespace finds anything else.                          *)
THEOREM NothingElseIsFound == Spec => []NothingElseFound
<1>1. Init => ElseInv
  <2>1. ToSet(<< >>) = {}
    BY DEF ToSet
  <2> QED
    BY <2>1 DEF Init, ElseInv, NothingElseFound
<1>2. ElseInv => NothingElseFound
  BY DEF ElseInv
<1> QED
  BY <1>1, <1>2, ElseInductive, TypeCorrect, PTL DEF Spec
=============================================================================
