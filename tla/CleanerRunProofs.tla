-------------------------- MODULE CleanerRunProofs --------------------------
(***************************************************************************)
(* Theorems about CleanerRun, for any resources, specs and number of runs, *)
(* and whatever other clients do and whichever calls fail.                 *)
(***************************************************************************)
EXTENDS CleanerRun, ListFacts, SequenceTheorems, FiniteSetTheorems, TLAPS

-----------------------------------------------------------------------------
(* Sequences. *)

(* What a script keeps of the selected resources was selected. *)
LEMMA PartsFacts ==
    ASSUME NEW S, NEW s \in Seq(S), NEW t \in Parts(s)
    PROVE  /\ t \in Seq(S)
           /\ \A i \in 1 .. Len(t) : \E j \in 1 .. Len(s) : t[i] = s[j]
<1>0. PICK n \in 0 .. Len(s) :
            t \in {[i \in 1 .. n |-> s[f[i]]] : f \in Injection(1 .. n, DOMAIN s)}
  BY Zenon DEF Parts
<1>1. PICK f \in Injection(1 .. n, DOMAIN s) : t = [i \in 1 .. n |-> s[f[i]]]
  BY <1>0
<1>2. n \in Nat /\ f \in [1 .. n -> 1 .. Len(s)]
  BY <1>1 DEF Injection
<1>3. \A i \in 1 .. n : s[f[i]] \in S
  BY <1>2
<1>4. t \in [1 .. n -> S]
  BY <1>1, <1>3
<1>5. t \in Seq(S) /\ Len(t) = n
  BY <1>2, <1>4
<1> QED
  BY <1>1, <1>2, <1>5

(* The names of the resources in a list. *)
LEMMA KeysFacts ==
    ASSUME NEW s \in Seq(Snapshots)
    PROVE  Keys(s) \in Seq(Resources)
<1>1. Len(s) \in Nat /\ DOMAIN s = 1 .. Len(s)
  OBVIOUS
<1>2. \A i \in 1 .. Len(s) : s[i].key \in Resources
  <2> TAKE i \in 1 .. Len(s)
  <2>1. s[i] \in Snapshots
    OBVIOUS
  <2> QED
    BY <2>1 DEF Snapshots
<1> QED
  BY <1>1, <1>2 DEF Keys

-----------------------------------------------------------------------------
(* Types. *)

(* The specs that are run. *)
LEMMA SpecFacts ==
    ASSUME NEW s \in Specs
    PROVE  /\ s.selectors \in Seq(Selectors)
           /\ s.action \in Actions
           /\ s.notifications \in Seq(Kinds)
BY SpecsAssumption

(* What a deletion leaves of a resource. *)
LEMMA AfterDeleteFacts ==
    ASSUME version \in Nat, NEW o \in Objects
    PROVE  /\ AfterDelete(o) \in Objects \union {Absent}
           /\ AfterDelete(o) # Absent =>
                AfterDelete(o).uid = o.uid /\ AfterDelete(o).deleting
<1>1. Absent \notin Objects
  BY AbsentAssumption
<1>2. CASE ~o.finalizer
  BY <1>2 DEF AfterDelete
<1>3. CASE o.finalizer /\ o.deleting
  BY <1>3 DEF AfterDelete
<1>4. CASE o.finalizer /\ ~o.deleting
  <2>1. AfterDelete(o) = [uid |-> o.uid, rv |-> version + 1, verdict |-> o.verdict,
                          finalizer |-> o.finalizer, deleting |-> TRUE]
    BY <1>4 DEF AfterDelete, Objects
  <2> QED
    BY <2>1 DEF Objects
<1> QED
  BY <1>2, <1>3, <1>4

(* An update, and the removal of a finalizer. *)
LEMMA UpdateFacts ==
    ASSUME NEW o \in Objects, NEW n \in Nat, NEW v \in Verdicts
    PROVE  /\ [o EXCEPT !.rv = n, !.verdict = v] \in Objects
           /\ [o EXCEPT !.rv = n, !.verdict = v].uid = o.uid
           /\ [o EXCEPT !.rv = n, !.verdict = v].deleting = o.deleting
           /\ [o EXCEPT !.finalizer = FALSE, !.rv = n] \in Objects
           /\ [o EXCEPT !.finalizer = FALSE, !.rv = n].uid = o.uid
           /\ [o EXCEPT !.finalizer = FALSE, !.rv = n].deleting = o.deleting
<1> DEFINE p == [o EXCEPT !.rv = n, !.verdict = v]
           q == [o EXCEPT !.finalizer = FALSE, !.rv = n]
<1>1. /\ DOMAIN o = {"uid", "rv", "verdict", "finalizer", "deleting"}
      /\ o.uid \in Nat /\ o.verdict \in Verdicts
      /\ o.finalizer \in BOOLEAN /\ o.deleting \in BOOLEAN
  BY DEF Objects
<1>2. p \in Objects /\ p.uid = o.uid /\ p.deleting = o.deleting
  BY <1>1 DEF Objects
<1>3. q \in Objects /\ q.uid = o.uid /\ q.deleting = o.deleting
  BY <1>1 DEF Objects
<1> QED
  BY <1>2, <1>3

LEMMA TransformedFacts ==
    ASSUME version \in Nat, NEW o \in Objects, NEW p \in Transformed(o)
    PROVE  p \in Objects /\ p.uid = o.uid /\ p.deleting = o.deleting
<1>1. CASE p = o
  BY <1>1
<1>2. ASSUME NEW v \in {"yes", "no"}, p = [o EXCEPT !.rv = version + 1, !.verdict = v]
      PROVE  p \in Objects /\ p.uid = o.uid /\ p.deleting = o.deleting
  <2> DEFINE n == version + 1
             q == [o EXCEPT !.rv = n, !.verdict = v]
  <2>1. n \in Nat /\ v \in Verdicts
    BY DEF Verdicts
  <2>2. p = q
    BY <1>2
  <2> HIDE DEF n
  <2>3. /\ DOMAIN o = {"uid", "rv", "verdict", "finalizer", "deleting"}
        /\ o.uid \in Nat /\ o.finalizer \in BOOLEAN /\ o.deleting \in BOOLEAN
    BY DEF Objects
  <2>4. q \in Objects /\ q.uid = o.uid /\ q.deleting = o.deleting
    BY <2>1, <2>3 DEF Objects
  <2> HIDE DEF q
  <2> QED
    BY <2>2, <2>4
<1> QED
  BY <1>1, <1>2 DEF Transformed

(* What a list finds has the type of a snapshot, and its identity and      *)
(* version are those of the resource.                                      *)
LEMMA SelectedFacts ==
    ASSUME objects \in [Resources -> Objects \union {Absent}],
           NEW T \in SUBSET Resources,
           \A r \in T : objects[r] # Absent
    PROVE  LET found == {Snapshot(r) : r \in T}
           IN  /\ found \subseteq Snapshots
               /\ SetToSeq(found) \in Seq(found)
<1> DEFINE found == {Snapshot(r) : r \in T}
           f == [r \in T |-> Snapshot(r)]
<1>1. \A r \in T : Snapshot(r) \in Snapshots
  BY DEF Snapshot, Snapshots, Objects
<1>2. IsFiniteSet(T)
  BY ResourcesAssumption, FS_Subset
<1>3. f \in [T -> found]
  OBVIOUS
<1>4. \A y \in found : \E r \in T : f[r] = y
  OBVIOUS
<1>5. f \in Surjection(T, found)
  BY <1>3, <1>4, Zenon DEF Surjection
<1>6. IsFiniteSet(found)
  BY <1>2, <1>5, FS_Surjection, Zenon
<1> QED
  BY <1>1, <1>6, SetToSeqFacts, Zenon
(* A change by another client keeps the types. *)
LEMMA PutTypes ==
    ASSUME TypeOK, NEW r \in Resources, NEW o \in Objects \union {Absent}, Put(r, o)
    PROVE  TypeOK'
BY DEF TypeOK, Put

LEMMA EnvironmentTypes == TypeOK /\ Environment => TypeOK'
<1> SUFFICES ASSUME TypeOK, NEW r \in Resources,
                    \/ UserCreates(r) \/ UserChanges(r)
                    \/ UserDeletes(r) \/ FinalizerRemoved(r)
             PROVE  TypeOK'
  BY DEF Environment
<1>1. /\ version \in Nat
      /\ objects[r] # Absent => objects[r] \in Objects
  BY DEF TypeOK
<1>2. CASE UserCreates(r)
  <2>1. PICK v \in Verdicts :
            Put(r, [uid |-> version + 1, rv |-> version + 1, verdict |-> v,
                    finalizer |-> FALSE, deleting |-> FALSE])
    BY <1>2 DEF UserCreates
  <2>2. [uid |-> version + 1, rv |-> version + 1, verdict |-> v,
         finalizer |-> FALSE, deleting |-> FALSE] \in Objects
    BY <1>1 DEF Objects
  <2> QED
    BY <2>1, <2>2, PutTypes
<1>3. CASE UserChanges(r)
  <2>1. PICK v \in Verdicts : Put(r, [objects[r] EXCEPT !.rv = version + 1, !.verdict = v])
    BY <1>3 DEF UserChanges
  <2>2. objects[r] \in Objects /\ version + 1 \in Nat
    <3>1. objects[r] # Absent
      BY <1>3, Zenon DEF UserChanges
    <3> QED
      BY <1>1, <3>1
  <2>3. [objects[r] EXCEPT !.rv = version + 1, !.verdict = v] \in Objects
    BY <2>2, UpdateFacts, Zenon
  <2> QED
    BY <2>1, <2>3, PutTypes, Zenon
<1>4. CASE UserDeletes(r)
  BY <1>1, <1>4, AfterDeleteFacts, PutTypes, Zenon DEF UserDeletes
<1>5. CASE FinalizerRemoved(r)
  <2> DEFINE o == [objects[r] EXCEPT !.finalizer = FALSE, !.rv = version + 1]
  <2>0. objects[r] \in Objects /\ version + 1 \in Nat /\ "yes" \in Verdicts
    BY <1>1, <1>5 DEF FinalizerRemoved, Verdicts
  <2>1. o \in Objects
    BY <2>0, UpdateFacts, Zenon
  <2>2. Put(r, IF objects[r].deleting THEN Absent ELSE o)
    BY <1>5 DEF FinalizerRemoved
  <2> HIDE DEF o
  <2>3. (IF objects[r].deleting THEN Absent ELSE o) \in Objects \union {Absent}
    BY <2>1
  <2> QED
    BY <2>2, <2>3, PutTypes, Zenon
<1> QED
  BY <1>2, <1>3, <1>4, <1>5

(* The resource a delete or an update is about to be made of. *)
LEMMA ActingFacts ==
    ASSUME TypeOK, NEW action, Acting(action)
    PROVE  /\ pos \in 1 .. Len(selected)
           /\ selected[pos] \in Snapshots
           /\ selected[pos].key \in Resources
           /\ objects[selected[pos].key] # Absent => objects[selected[pos].key] \in Objects
<1>1. pos \in 1 .. Len(selected) /\ selected[pos] \in Snapshots
  BY DEF TypeOK, Acting
<1>2. selected[pos].key \in Resources
  BY <1>1 DEF Snapshots
<1> QED
  BY <1>1, <1>2 DEF TypeOK

(* What a successful action, or a failed one, does to the types. *)
LEMMA SucceedTypes ==
    ASSUME TypeOK, NEW action, Acting(action),
           NEW o \in Objects \union {Absent}, Succeed(o), Count("deleted")
    PROVE  TypeOK'
<1>1. pos' \in Nat \ {0}
  BY DEF TypeOK, Acting
<1>2. processed' \in Seq(Snapshots) /\ acted' \in Seq(Snapshots)
  BY ActingFacts DEF TypeOK, Succeed
<1>3. objects' \in [Resources -> Objects \union {Absent}] /\ version' \in Nat
  BY ActingFacts DEF TypeOK, Succeed
<1>4. counted' \subseteq CounterNames
  BY DEF TypeOK, Count, CounterNames
<1> QED
  BY <1>1, <1>2, <1>3, <1>4, Zenon DEF TypeOK, Acting, Succeed

LEMMA FailTypes ==
    ASSUME TypeOK, NEW action, Acting(action), Fail
    PROVE  TypeOK'
<1>1. pos' \in Nat \ {0}
  BY DEF TypeOK, Acting
<1>2. counted' \subseteq CounterNames
  BY DEF TypeOK, Fail, Count, CounterNames
<1> QED
  BY <1>1, <1>2 DEF TypeOK, Acting, Fail, server
LEMMA ActTypes == TypeOK /\ (DeleteNext \/ TransformNext) => TypeOK'
<1>1. ASSUME TypeOK, DeleteNext
      PROVE  TypeOK'
  <2> DEFINE o == objects[selected[pos].key]
  <2>1. Acting("Delete")
    BY <1>1 DEF DeleteNext
  <2>2. CASE o = Absent /\ UNCHANGED <<server, processed, failed, counted, acted>>
    <3>1. pos' \in Nat \ {0}
      BY <1>1, <2>1 DEF TypeOK, Acting
    <3> QED
      BY <1>1, <2>1, <2>2, <3>1 DEF TypeOK, Acting, server
  <2>3. CASE o # Absent /\ Succeed(AfterDelete(o)) /\ Count("deleted")
    <3>1. AfterDelete(o) \in Objects \union {Absent}
      BY <1>1, <2>1, <2>3, ActingFacts, AfterDeleteFacts, Zenon DEF TypeOK
    <3> QED
      BY <1>1, <2>1, <2>3, <3>1, SucceedTypes
  <2>4. CASE Fail
    BY <1>1, <2>1, <2>4, FailTypes
  <2> QED
    BY <1>1, <2>2, <2>3, <2>4 DEF DeleteNext
<1>2. ASSUME TypeOK, TransformNext
      PROVE  TypeOK'
  <2> DEFINE o == objects[selected[pos].key]
  <2>1. Acting("Transform")
    BY <1>2 DEF TransformNext
  <2>2. ASSUME o # Absent, NEW p \in Transformed(o), Count("deleted"), Succeed(p)
        PROVE  TypeOK'
    <3>1. o \in Objects /\ version \in Nat
      BY <1>2, <2>1, <2>2, ActingFacts DEF TypeOK
    <3>2. p \in Objects \union {Absent}
      BY <2>2, <3>1, TransformedFacts
    <3> HIDE DEF o
    <3> QED
      BY <1>2, <2>1, <2>2, <3>2, SucceedTypes
  <2>3. CASE Fail
    BY <1>2, <2>1, <2>3, FailTypes
  <2> QED
    BY <1>2, <2>2, <2>3 DEF TransformNext
<1> QED
  BY <1>1, <1>2

LEMMA SelectTypes == TypeOK /\ (Begin \/ SelectNext \/ Aggregate) => TypeOK'
<1>1. ASSUME TypeOK, Begin
      PROVE  TypeOK'
  <2>1. /\ runs' \in Nat
        /\ pos' \in Nat \ {0}
        /\ phase' \in Phases
        /\ sent' \subseteq DOMAIN spec'.notifications
    BY <1>1 DEF TypeOK, Begin, Goto, Return, Phases
  <2>2. err' \in BOOLEAN /\ failed' \in BOOLEAN
    BY <1>1 DEF Begin, Return
  <2>3. selected' \in Seq(Snapshots) /\ processed' \in Seq(Snapshots) /\ acted' \in Seq(Snapshots)
    BY <1>1 DEF Begin
  <2> QED
    BY <1>1, <2>1, <2>2, <2>3 DEF TypeOK, Begin, server
<1>2. ASSUME TypeOK, SelectNext
      PROVE  TypeOK'
  <2> DEFINE found == Considered(spec.selectors[pos])
             matching == {r \in found : objects[r].verdict = "yes"}
             list == SetToSeq({Snapshot(r) : r \in matching})
  <2>1. list \in Seq(Snapshots)
    <3>1. spec.selectors[pos] \in Selectors
      BY <1>2, SpecFacts DEF TypeOK, SelectNext
    <3>2. matching \subseteq Resources /\ \A r \in matching : objects[r] # Absent
      BY <3>1 DEF Considered, Selectors
    <3> HIDE DEF matching
    <3> DEFINE T == {Snapshot(r) : r \in matching}
    <3>3. T \subseteq Snapshots /\ list \in Seq(T)
      BY <1>2, <3>2, SelectedFacts, Zenon DEF TypeOK
    <3> QED
      BY <3>3, SeqMonotonic, Zenon
  <2> HIDE DEF list
  <2>2. selected \o list \in Seq(Snapshots)
    BY <1>2, <2>1 DEF TypeOK
  <2>3. pos + 1 \in Nat \ {0}
    BY <1>2 DEF TypeOK
  <2>4. /\ selected' = selected \/ selected' = selected \o list
        /\ phase' = phase \/ phase' = "done"
        /\ err' = err \/ err' = TRUE
        /\ pos' = pos + 1 \/ pos' = 1
    BY <1>2 DEF SelectNext, Return, Goto, list
  <2>5. selected' \in Seq(Snapshots) /\ pos' \in Nat \ {0}
    <3>1. selected \in Seq(Snapshots)
      BY <1>2 DEF TypeOK
    <3>2. selected' \in Seq(Snapshots)
      BY <2>2, <2>4, <3>1, Zenon
    <3> QED
      BY <2>3, <2>4, <3>2
  <2>6. phase' \in Phases
    BY <1>2, <2>4 DEF TypeOK, Phases
  <2>7. err' \in BOOLEAN
    BY <1>2, <2>4, Zenon DEF TypeOK
  <2> QED
    BY <1>2, <2>5, <2>6, <2>7 DEF TypeOK, SelectNext, server
<1>3. ASSUME TypeOK, Aggregate
      PROVE  TypeOK'
  <2>1. selected' \in Seq(Snapshots)
    <3>1. \/ selected' \in Parts(selected)
          \/ selected' = selected
      BY <1>3 DEF Aggregate
    <3> QED
      BY <1>3, <3>1, PartsFacts DEF TypeOK
  <2>2. pos' \in Nat \ {0} /\ phase' \in Phases
    BY <1>3 DEF Aggregate, Goto, Return, Phases
  <2>3. err' = err \/ err' = TRUE
    BY <1>3 DEF Aggregate, Return
  <2>4. err' \in BOOLEAN
    BY <1>3, <2>3, Zenon DEF TypeOK
  <2> QED
    BY <1>3, <2>1, <2>2, <2>4 DEF TypeOK, Aggregate, server
<1> QED
  BY <1>1, <1>2, <1>3

(* What a notification leaves alone, and what it may change. *)
LEMMA NotifyFrame ==
    ASSUME Notify
    PROVE  /\ UNCHANGED <<server, spec, selected, processed, failed, files, counted, acted, runs>>
           /\ phase = "notify" /\ pos <= Len(spec.notifications)
           /\ report' \in {report, Keys(processed)}
           /\ Delivered \/ NotDelivered \/ NotificationFails
<1>1. PICK kind : Notifying(kind)
  BY Zenon DEF Notify, WriteReport, SendEvent, SendSlack, SendDiscord, SendTelegram,
               SendSmtp, SendWebex, SendTeams, Message
<1>2. report' \in {report, Keys(processed)}
  BY DEF Notify, WriteReport, SendEvent, SendSlack, SendDiscord, SendTelegram,
         SendSmtp, SendWebex, SendTeams, Message
<1>3. Delivered \/ NotDelivered \/ NotificationFails
  BY DEF Notify, WriteReport, SendEvent, SendSlack, SendDiscord, SendTelegram,
         SendSmtp, SendWebex, SendTeams, Message, CredentialsFail
<1> QED
  BY <1>1, <1>2, <1>3 DEF Notifying

LEMMA NotifyTypes ==
    ASSUME TypeOK, Notify
    PROVE  TypeOK'
<1>2. pos \in DOMAIN spec.notifications
  <2>1. spec.notifications \in Seq(Kinds)
    BY SpecFacts DEF TypeOK
  <2> QED
    BY <2>1, NotifyFrame DEF TypeOK
<1>5. Keys(processed) \in Seq(Resources)
  BY KeysFacts DEF TypeOK
<1>6. /\ sent' \in {sent, sent \union {pos}}
      /\ pos' \in {1, pos + 1}
      /\ phase' \in {phase, "done"}
      /\ err' \in {err, TRUE}
  BY NotifyFrame DEF Delivered, NotDelivered, NotificationFails, Return, Goto
<1>7. pos' \in Nat \ {0} /\ phase' \in Phases
  BY <1>6 DEF TypeOK, Phases
<1>8. err' \in BOOLEAN
  BY <1>6, Zenon DEF TypeOK
<1> QED
  BY <1>2, <1>5, <1>6, <1>7, <1>8, NotifyFrame DEF TypeOK, server
LEMMA StoreTypes ==
    ASSUME TypeOK, Store
    PROVE  TypeOK'
<1>1. files' \subseteq Resources
  <2>1. {processed[i].key : i \in DOMAIN processed} \subseteq Resources
    <3> SUFFICES ASSUME NEW i \in DOMAIN processed
                 PROVE  processed[i].key \in Resources
      OBVIOUS
    <3>1. processed[i] \in Snapshots
      BY DEF TypeOK
    <3> QED
      BY <3>1 DEF Snapshots
  <2> QED
    BY <2>1 DEF TypeOK, Store
<1>2. err' = failed \/ err' = TRUE
  BY DEF Store, Return
<1>3. err' \in BOOLEAN
  BY <1>2, Zenon DEF TypeOK
<1>4. phase' = "done" /\ pos' = 1
  BY DEF Store, Return, Goto
<1> QED
  BY <1>1, <1>3, <1>4 DEF TypeOK, Store, Phases, server

(* TypeOK: every step keeps the types, failures and other clients included.*)
LEMMA TypeInductive == TypeOK /\ [Next]_vars => TypeOK'
<1> SUFFICES ASSUME TypeOK, [Next]_vars
             PROVE  TypeOK'
  OBVIOUS
<1>1. CASE Begin \/ SelectNext \/ Aggregate
  BY <1>1, SelectTypes
<1>2. CASE DeleteNext \/ TransformNext
  BY <1>2, ActTypes
<1>3. CASE ScanAll
  <2>1. counted' \subseteq CounterNames
    BY <1>3 DEF TypeOK, ScanAll, Count, CounterNames
  <2> QED
    BY <1>3, <2>1 DEF TypeOK, ScanAll, Goto, Phases, server
<1>4. CASE ActingDone \/ NotifyDone
  BY <1>4 DEF TypeOK, ActingDone, NotifyDone, Goto, Phases, server
<1>5. CASE Notify
  BY <1>5, NotifyTypes
<1>6. CASE Store
  BY <1>6, StoreTypes
<1>7. CASE Environment
  BY <1>7, EnvironmentTypes
<1>8. CASE UNCHANGED vars
  BY <1>8 DEF TypeOK, vars, server
<1> QED
  BY <1>1, <1>2, <1>3, <1>4, <1>5, <1>6, <1>7, <1>8 DEF Next, Worker

LEMMA TypeInit == Init => TypeOK
<1> SUFFICES ASSUME Init
             PROVE  TypeOK
  OBVIOUS
<1>1. \A v \in Verdicts, f \in BOOLEAN :
        [uid |-> 0, rv |-> 0, verdict |-> v, finalizer |-> f, deleting |-> FALSE] \in Objects
  BY DEF Objects
<1>2. objects \in [Resources -> Objects \union {Absent}]
  BY <1>1 DEF Init
<1> QED
  <2>1. /\ selected \in Seq(Snapshots) /\ processed \in Seq(Snapshots)
        /\ acted \in Seq(Snapshots)
    BY DEF Init
  <2>2. failed \in BOOLEAN /\ err \in BOOLEAN
    BY DEF Init
  <2> QED
    BY <1>2, <2>1, <2>2 DEF Init, TypeOK, Phases

(* The variables of a run have their types, for any resources and specs,   *)
(* whichever calls fail and whatever other clients do in between.          *)
THEOREM TypeCorrect == Spec => []TypeOK
BY TypeInit, TypeInductive, PTL DEF Spec
-----------------------------------------------------------------------------
(* What the run did. *)

(* What other clients do leaves the run alone. *)
LEMMA EnvironmentFrame ==
    ASSUME Environment
    PROVE  UNCHANGED <<phase, spec, pos, selected, processed, failed, err, report, sent,
                       files, counted, acted, runs>>
BY Zenon DEF Environment, UserCreates, UserChanges, UserDeletes, FinalizerRemoved, Put

(* Only a delete or an update that succeeded is remembered, together with  *)
(* its resource; a run that scans does neither.                            *)
ProcInv ==
    /\ spec.action # "Scan" => processed = acted
    /\ spec.action = "Scan" => acted = << >>

LEMMA ProcInductive == ProcInv /\ [Next]_vars => ProcInv'
<1> SUFFICES ASSUME ProcInv, [Next]_vars
             PROVE  ProcInv'
  OBVIOUS
<1>1. CASE Begin
  BY <1>1 DEF ProcInv, Begin
<1>2. CASE SelectNext \/ Aggregate \/ ActingDone \/ NotifyDone \/ Store
  BY <1>2 DEF ProcInv, SelectNext, Aggregate, ActingDone, NotifyDone, Store
<1>3. CASE DeleteNext
  BY <1>3 DEF ProcInv, DeleteNext, Acting, Succeed, Fail
<1>4. CASE TransformNext
  <2>1. /\ spec.action = "Transform" /\ spec' = spec
        /\ \/ processed' = Append(processed, selected[pos]) /\ acted' = Append(acted, selected[pos])
           \/ UNCHANGED <<processed, acted>>
    BY <1>4, Zenon DEF TransformNext, Acting, Succeed, Fail
  <2> QED
    BY <2>1 DEF ProcInv
<1>5. CASE ScanAll
  BY <1>5 DEF ProcInv, ScanAll
<1>6. CASE Notify
  BY <1>6, NotifyFrame DEF ProcInv
<1>7. CASE Environment
  BY <1>7, EnvironmentFrame DEF ProcInv
<1>8. CASE UNCHANGED vars
  BY <1>8 DEF ProcInv, vars
<1> QED
  BY <1>1, <1>2, <1>3, <1>4, <1>5, <1>6, <1>7, <1>8 DEF Next, Worker

LEMMA ProcInvariant == Spec => []ProcInv
<1>1. Init => ProcInv
  BY DEF Init, ProcInv
<1> QED
  BY <1>1, ProcInductive, PTL DEF Spec

(* What the run reports as processed is what the API server did for it, in *)
(* that order, whatever failed or vanished between the list and the action.*)
THEOREM ProcessedWasDone == Spec => []ProcessedIsDone
<1>1. ProcInv => ProcessedIsDone
  BY DEF ProcInv, ProcessedIsDone
<1> QED
  BY <1>1, ProcInvariant, PTL

(* CountersTell is inductive as it stands: the counters are incremented    *)
(* with each action and never later.                                       *)
THEOREM CountersAreTold == Spec => []CountersTell
<1>1. Init => CountersTell
  BY DEF Init, CountersTell
<1>2. TypeOK /\ CountersTell /\ [Next]_vars => CountersTell'
  <2> SUFFICES ASSUME TypeOK, CountersTell, [Next]_vars
               PROVE  CountersTell'
    OBVIOUS
  <2>1. CASE Begin
    BY <2>1 DEF CountersTell, Begin
  <2>2. CASE SelectNext \/ Aggregate \/ ActingDone \/ NotifyDone \/ Store
    <3>1. UNCHANGED <<counted, failed, acted>>
      BY <2>2 DEF SelectNext, Aggregate, ActingDone, NotifyDone, Store
    <3> QED
      BY <3>1, Zenon DEF CountersTell
  <2>3. ASSUME NEW action, Acting(action), NEW o, Succeed(o), Count("deleted")
        PROVE  CountersTell'
    <3>1. Append(acted, selected[pos]) # << >>
      <4>1. selected[pos] \in Snapshots /\ acted \in Seq(Snapshots)
        BY <2>3, ActingFacts DEF TypeOK
      <4> QED
        BY <4>1
    <3>2. counted' = counted \union {"deleted"} /\ failed' = failed /\ acted' # << >>
      BY <2>3, <3>1, Zenon DEF Succeed, Count
    <3> QED
      BY <3>2 DEF CountersTell
  <2>4. CASE Fail
    BY <2>4 DEF CountersTell, Fail, Count
  <2>5. CASE DeleteNext
    BY <2>3, <2>4, <2>5 DEF CountersTell, DeleteNext
  <2>6. CASE TransformNext
    BY <2>3, <2>4, <2>6, Zenon DEF TransformNext
  <2>7. CASE ScanAll
    BY <2>7 DEF CountersTell, ScanAll, Count
  <2>8. CASE Notify
    BY <2>8, NotifyFrame DEF CountersTell
  <2>9. CASE Environment
    BY <2>9, EnvironmentFrame DEF CountersTell
  <2>10. CASE UNCHANGED vars
    BY <2>10 DEF CountersTell, vars
  <2> QED
    BY <2>1, <2>2, <2>5, <2>6, <2>7, <2>8, <2>9, <2>10 DEF Next, Worker
<1> QED
  BY <1>1, <1>2, TypeCorrect, PTL DEF Spec

(* An update replaces exactly the version that was listed and evaluated.   *)
THEOREM UpdatesAreInformed == Spec => NoBlindUpdate
<1> DEFINE Informed ==
        (spec.action = "Transform" /\ acted' # acted /\ acted' # << >>)
        => objects[Last(acted').key].rv = Last(acted').rv
<1>1. TypeOK /\ [Next]_vars => Informed
  <2> SUFFICES ASSUME TypeOK, [Next]_vars, spec.action = "Transform",
                      acted' # acted, acted' # << >>
               PROVE  objects[Last(acted').key].rv = Last(acted').rv
    OBVIOUS
  <2>1. TransformNext
    <3>1. ~Begin /\ ~DeleteNext
      BY DEF Begin, DeleteNext, Acting
    <3>2. ~SelectNext /\ ~Aggregate /\ ~ActingDone /\ ~NotifyDone /\ ~Store /\ ~ScanAll
      BY DEF SelectNext, Aggregate, ActingDone, NotifyDone, Store, ScanAll
    <3>3. ~Notify /\ ~Environment /\ ~UNCHANGED vars
      BY NotifyFrame, EnvironmentFrame DEF vars
    <3> QED
      BY <3>1, <3>2, <3>3 DEF Next, Worker
  <2>2. /\ Acting("Transform")
        /\ objects[selected[pos].key].rv = selected[pos].rv
        /\ acted' = Append(acted, selected[pos])
    BY <2>1, Zenon DEF TransformNext, Succeed, Fail
  <2>3. Last(acted') = selected[pos]
    <3>1. selected[pos] \in Snapshots /\ acted \in Seq(Snapshots)
      BY <2>2, ActingFacts DEF TypeOK
    <3> QED
      BY <2>2, <3>1 DEF Last
  <2> QED
    BY <2>2, <2>3
<1>2. QED
  BY <1>1, TypeCorrect, PTL DEF Spec, NoBlindUpdate
-----------------------------------------------------------------------------
(* What the run announced. *)

(* What holds of a notification that has been dealt with and did not end   *)
(* the run.                                                                *)
Announced(i) ==
    /\ spec.notifications[i] = "CleanerReport" => report = Keys(processed)
    /\ acted # << >> /\ spec.notifications[i] # "Teams" => i \in sent

(* Past the loop of sendNotifications only an error says that one of them  *)
(* was not dealt with.                                                     *)
NotifyInv ==
    \A i \in DOMAIN spec.notifications :
        \/ phase = "notify" /\ i < pos
        \/ phase = "store"
        \/ phase = "done" /\ ~err
        => Announced(i)

(* A notification fails and ends the run, or it is dealt with.             *)
LEMMA NotifyOne ==
    ASSUME ProcInv, Notify
    PROVE  \/ NotificationFails
           \/ /\ Delivered \/ NotDelivered
              /\ spec.notifications[pos] = "CleanerReport" => report' = Keys(processed)
              /\ acted # << >> /\ spec.notifications[pos] # "Teams" => Delivered
<1>1. acted # << >> => processed # << >>
  BY DEF ProcInv
<1>2. CASE WriteReport
  BY <1>2 DEF WriteReport, Notifying
<1>3. CASE SendEvent
  BY <1>1, <1>3 DEF SendEvent, Notifying
<1>4. ASSUME NEW kind, kind # "CleanerReport", Message(kind)
      PROVE  \/ NotificationFails
             \/ /\ Delivered \/ NotDelivered
                /\ spec.notifications[pos] # "CleanerReport"
                /\ acted # << >> => Delivered
  BY <1>1, <1>4 DEF Message, Notifying, CredentialsFail
<1>5. CASE SendSlack \/ SendDiscord \/ SendTelegram \/ SendSmtp \/ SendWebex
  BY <1>4, <1>5 DEF SendSlack, SendDiscord, SendTelegram, SendSmtp, SendWebex
<1>6. CASE SendTeams
  BY <1>4, <1>6 DEF SendTeams, Notifying
<1> QED
  BY <1>2, <1>3, <1>5, <1>6 DEF Notify

LEMMA NotifyInductive == TypeOK /\ ProcInv /\ NotifyInv /\ [Next]_vars => NotifyInv'
<1> SUFFICES ASSUME TypeOK, ProcInv, NotifyInv, [Next]_vars
             PROVE  NotifyInv'
  OBVIOUS
<1>1. CASE Begin \/ SelectNext \/ Aggregate
  <2>1. phase' \in {"select", "act"} \/ (phase' = "done" /\ err')
    BY <1>1, Zenon DEF Begin, SelectNext, Aggregate, Goto, Return
  <2> QED
    BY <2>1 DEF NotifyInv
<1>2. CASE DeleteNext \/ TransformNext
  <2>1. phase' = "act"
    BY <1>2, Zenon DEF DeleteNext, TransformNext, Acting
  <2> QED
    BY <2>1 DEF NotifyInv
<1>3. CASE ScanAll \/ ActingDone
  <2>1. /\ phase' = "notify" /\ pos' = 1
        /\ spec' = spec
    BY <1>3 DEF ScanAll, ActingDone, Goto
  <2>2. \A i \in DOMAIN spec.notifications : i \in Nat /\ i >= 1
    BY SpecFacts DEF TypeOK
  <2> QED
    BY <2>1, <2>2 DEF NotifyInv
<1>4. CASE Notify
  <2>1. CASE NotificationFails
    <3>1. phase' = "done" /\ err'
      BY <2>1 DEF NotificationFails, Return, Goto
    <3> QED
      BY <3>1 DEF NotifyInv
  <2>2. CASE ~NotificationFails
    <3>1. /\ spec' = spec /\ processed' = processed /\ acted' = acted
          /\ phase = "notify" /\ phase' = "notify" /\ pos' = pos + 1
          /\ report' \in {report, Keys(processed)}
          /\ sent \subseteq sent'
          /\ spec.notifications[pos] = "CleanerReport" => report' = Keys(processed)
          /\ acted # << >> /\ spec.notifications[pos] # "Teams" => pos \in sent'
      BY <1>4, <2>2, NotifyFrame, NotifyOne DEF Delivered, NotDelivered
    <3>2. Keys(processed)' = Keys(processed)
      BY <3>1 DEF Keys
    <3>3. ASSUME NEW i \in DOMAIN spec.notifications, i < pos + 1
          PROVE  Announced(i)'
      <4>1. i \in Nat /\ pos \in Nat
        BY SpecFacts DEF TypeOK
      <4>2. CASE i = pos
        BY <3>1, <3>2, <4>2 DEF Announced
      <4>3. CASE i < pos
        BY <3>1, <3>2, <4>3 DEF Announced, NotifyInv
      <4> QED
        BY <3>3, <4>1, <4>2, <4>3
    <3> QED
      BY <3>1, <3>3 DEF NotifyInv
  <2> QED
    BY <2>1, <2>2
<1>5. CASE NotifyDone
  <2>1. /\ phase = "notify" /\ pos > Len(spec.notifications) /\ phase' = "store"
        /\ UNCHANGED <<spec, processed, acted, report, sent>>
    BY <1>5 DEF NotifyDone, Goto
  <2>2. \A i \in DOMAIN spec.notifications : i < pos
    BY <2>1, SpecFacts DEF TypeOK
  <2> QED
    BY <2>1, <2>2 DEF NotifyInv, Announced, Keys
<1>6. CASE Store
  <2>1. /\ phase = "store" /\ phase' = "done"
        /\ UNCHANGED <<spec, processed, acted, report, sent>>
    BY <1>6 DEF Store, Return, Goto
  <2> QED
    BY <2>1 DEF NotifyInv, Announced, Keys
<1>7. CASE Environment \/ UNCHANGED vars
  <2>1. UNCHANGED <<phase, pos, err, spec, processed, acted, report, sent>>
    BY <1>7, EnvironmentFrame DEF vars
  <2> QED
    BY <2>1, Zenon DEF NotifyInv, Announced, Keys
<1> QED
  BY <1>1, <1>2, <1>3, <1>4, <1>5, <1>6, <1>7 DEF Next, Worker

LEMMA NotifyInvariant == Spec => []NotifyInv
<1>1. Init => NotifyInv
  BY DEF Init, NotifyInv
<1> QED
  BY <1>1, NotifyInductive, TypeCorrect, ProcInvariant, PTL DEF Spec

(* After a run that returns nil the Report shows that run, also when it    *)
(* processed nothing.                                                      *)
THEOREM ReportsAreCurrent == Spec => []ReportIsCurrent
<1>1. TypeOK /\ NotifyInv => ReportIsCurrent
  <2> SUFFICES ASSUME TypeOK, NotifyInv, phase = "done", ~err,
                      Contains(spec.notifications, "CleanerReport")
               PROVE  report = Keys(processed)
    BY DEF ReportIsCurrent
  <2>1. PICK i \in DOMAIN spec.notifications : spec.notifications[i] = "CleanerReport"
    BY SpecFacts DEF TypeOK, Contains
  <2> QED
    BY <2>1, Zenon DEF NotifyInv, Announced
<1> QED
  BY <1>1, NotifyInvariant, TypeCorrect, PTL

(* What was done to a resource is announced wherever the spec asks for it, *)
(* or the run returns an error.                                            *)
THEOREM ActionsAreAnnounced == Spec => []ActedIsAnnounced
<1>1. NotifyInv => ActedIsAnnounced
  BY Zenon DEF NotifyInv, Announced, ActedIsAnnounced
<1> QED
  BY <1>1, NotifyInvariant, PTL
-----------------------------------------------------------------------------
(* What a run that returns nil has left undone. *)

(* What a step can make of a resource: it is gone, or the same one and     *)
(* still marked if it was, or a new one with a uid nobody has listed.      *)
Becomes(o, p) ==
    \/ p = Absent
    \/ o # Absent /\ p.uid = o.uid /\ (o.deleting => p.deleting)
    \/ o = Absent /\ p.uid = version + 1

Ages(r) == Becomes(objects[r], objects'[r])

(* A uid is a version of the server that has been. *)
UidInv ==
    /\ \A r \in Resources : objects[r] # Absent => objects[r].uid <= version
    /\ \A i \in DOMAIN selected : selected[i].uid <= version

(* The deletion of that resource needs nothing more of this run. *)
Treated(i) ==
    LET o == objects[selected[i].key]
    IN  o = Absent \/ o.deleting \/ o.uid # selected[i].uid

(* How far the loop of the actions is, as long as none of them failed.     *)
CompleteInv ==
    /\ phase = "select" => processed = << >>
    /\ phase = "act" /\ ~failed =>
        /\ spec.action = "Delete" => \A i \in DOMAIN selected : i < pos => Treated(i)
        /\ spec.action = "Transform" =>
             /\ Len(processed) = pos - 1
             /\ pos <= Len(selected) + 1
             /\ \A i \in DOMAIN processed : processed[i] = selected[i]
    /\ (phase \in {"notify", "store"} /\ ~failed) \/ (phase = "done" /\ ~err) =>
        /\ spec.action = "Delete" => \A i \in DOMAIN selected : Treated(i)
        /\ spec.action # "Delete" => processed = selected
    /\ phase = "act" /\ spec.action = "Scan" => processed = << >>

LEMMA PutAges ==
    ASSUME TypeOK, NEW r \in Resources, NEW o, Put(r, o), Becomes(objects[r], o)
    PROVE  \A s \in Resources : Ages(s)
<1>1. /\ objects'[r] = o
      /\ \A s \in Resources : s # r => objects'[s] = objects[s]
  BY DEF Put, TypeOK
<1>2. ASSUME NEW s \in Resources, s # r
      PROVE  Becomes(objects[s], objects[s])
  BY DEF Becomes
<1>3. ASSUME NEW s \in Resources
      PROVE  Ages(s)
  BY <1>1, <1>2 DEF Ages
<1> QED
  BY <1>3

(* Every step of another client, and every action of the run, ages.        *)
LEMMA AllAge ==
    ASSUME TypeOK, [Next]_vars
    PROVE  /\ \A r \in Resources : Ages(r)
           /\ version' \in {version, version + 1}
           /\ (\E r \in Resources : objects[r] = Absent /\ objects'[r] # Absent)
              => version' = version + 1
<1>1. version \in Nat /\ \A r \in Resources : objects[r] # Absent => objects[r] \in Objects
  BY DEF TypeOK
<1>2. CASE Environment
  <2>1. PICK r \in Resources :
            UserCreates(r) \/ UserChanges(r) \/ UserDeletes(r) \/ FinalizerRemoved(r)
    BY <1>2 DEF Environment
  <2>2. version' = version + 1
    BY <2>1, Zenon DEF UserCreates, UserChanges, UserDeletes, FinalizerRemoved, Put
  <2>3. ASSUME UserCreates(r)
        PROVE  \A s \in Resources : Ages(s)
    <3>1. PICK v \in Verdicts :
              Put(r, [uid |-> version + 1, rv |-> version + 1, verdict |-> v,
                      finalizer |-> FALSE, deleting |-> FALSE])
      BY <2>3 DEF UserCreates
    <3>2. Becomes(objects[r], [uid |-> version + 1, rv |-> version + 1, verdict |-> v,
                               finalizer |-> FALSE, deleting |-> FALSE])
      BY <2>3 DEF UserCreates, Becomes
    <3> QED
      BY <2>1, <3>1, <3>2, PutAges, Zenon
  <2>4. ASSUME UserChanges(r)
        PROVE  \A s \in Resources : Ages(s)
    <3>1. PICK v \in Verdicts : Put(r, [objects[r] EXCEPT !.rv = version + 1, !.verdict = v])
      BY <2>4, Zenon DEF UserChanges
    <3>2. objects[r] # Absent
      BY <2>4, Zenon DEF UserChanges
    <3>3. objects[r] \in Objects /\ version + 1 \in Nat
      BY <1>1, <3>2
    <3>4. /\ [objects[r] EXCEPT !.rv = version + 1, !.verdict = v].uid = objects[r].uid
          /\ [objects[r] EXCEPT !.rv = version + 1, !.verdict = v].deleting = objects[r].deleting
      BY <3>3 DEF Objects
    <3> QED
      BY <2>1, <3>1, <3>2, <3>4, PutAges, Zenon DEF Becomes
  <2>5. ASSUME UserDeletes(r)
        PROVE  \A s \in Resources : Ages(s)
    <3>1. objects[r] # Absent /\ Put(r, AfterDelete(objects[r]))
      BY <2>5, Zenon DEF UserDeletes
    <3>2. Becomes(objects[r], AfterDelete(objects[r]))
      BY <1>1, <3>1, AfterDeleteFacts, Zenon DEF Becomes
    <3> QED
      BY <2>1, <3>1, <3>2, PutAges, Zenon
  <2>6. ASSUME FinalizerRemoved(r)
        PROVE  \A s \in Resources : Ages(s)
    <3> DEFINE o == [objects[r] EXCEPT !.finalizer = FALSE, !.rv = version + 1]
    <3>1. objects[r] # Absent /\ Put(r, IF objects[r].deleting THEN Absent ELSE o)
      BY <2>6, Zenon DEF FinalizerRemoved
    <3>2. objects[r] \in Objects /\ version + 1 \in Nat /\ "yes" \in Verdicts
      BY <1>1, <3>1 DEF Verdicts
    <3>3. o.uid = objects[r].uid /\ o.deleting = objects[r].deleting
      BY <3>2, UpdateFacts, Zenon
    <3> HIDE DEF o
    <3> QED
      BY <2>1, <3>1, <3>3, PutAges, Zenon DEF Becomes
  <2> QED
    <3>1. \A s \in Resources : Ages(s)
      BY <2>1, <2>3, <2>4, <2>5, <2>6
    <3> QED
      BY <2>2, <3>1
<1>3. ASSUME NEW action, Acting(action), NEW o, Succeed(o),
             objects[selected[pos].key] # Absent, Becomes(objects[selected[pos].key], o)
      PROVE  /\ \A r \in Resources : Ages(r)
             /\ version' \in {version, version + 1}
             /\ \A r \in Resources : objects[r] = Absent => objects'[r] = Absent
  <2>1. selected[pos].key \in Resources
    BY <1>3, ActingFacts
  <2>2. /\ objects'[selected[pos].key] = o
        /\ \A r \in Resources : r # selected[pos].key => objects'[r] = objects[r]
        /\ version' \in {version, version + 1}
    BY <1>3, <2>1 DEF Succeed, TypeOK
  <2>3. \A r \in Resources : Becomes(objects[r], objects[r])
    BY DEF Becomes
  <2> QED
    BY <1>3, <2>2, <2>3 DEF Ages
<1>4. ASSUME UNCHANGED server
      PROVE  /\ \A r \in Resources : Ages(r)
             /\ version' = version
             /\ \A r \in Resources : objects[r] = Absent => objects'[r] = Absent
  BY <1>4 DEF Ages, Becomes, server
<1>5. CASE DeleteNext
  <2> DEFINE o == objects[selected[pos].key]
  <2>1. Acting("Delete")
    BY <1>5 DEF DeleteNext
  <2>2. ASSUME o # Absent, Succeed(AfterDelete(o))
        PROVE  /\ \A r \in Resources : Ages(r)
               /\ version' \in {version, version + 1}
               /\ \A r \in Resources : objects[r] = Absent => objects'[r] = Absent
    <3>1. o \in Objects
      BY <1>1, <2>1, <2>2, ActingFacts
    <3>2. Becomes(o, AfterDelete(o))
      BY <1>1, <2>2, <3>1, AfterDeleteFacts, Zenon DEF Becomes
    <3> QED
      BY <1>3, <2>1, <2>2, <3>2, Zenon
  <2>3. CASE UNCHANGED server
    BY <1>4, <2>3
  <2> QED
    BY <1>5, <2>2, <2>3 DEF DeleteNext, Fail
<1>6. CASE TransformNext
  <2> DEFINE o == objects[selected[pos].key]
  <2>1. Acting("Transform")
    BY <1>6 DEF TransformNext
  <2>2. ASSUME o # Absent, NEW p \in Transformed(o), Succeed(p)
        PROVE  /\ \A r \in Resources : Ages(r)
               /\ version' \in {version, version + 1}
               /\ \A r \in Resources : objects[r] = Absent => objects'[r] = Absent
    <3>1. o \in Objects
      BY <1>1, <2>1, <2>2, ActingFacts
    <3>2. p.uid = o.uid /\ p.deleting = o.deleting
      BY <1>1, <2>2, <3>1, TransformedFacts
    <3> QED
      BY <1>3, <2>1, <2>2, <3>2, Zenon DEF Becomes
  <2>3. CASE Fail
    BY <1>4, <2>3 DEF Fail
  <2> QED
    BY <1>6, <2>2, <2>3, Zenon DEF TransformNext
<1>7. CASE Begin \/ SelectNext \/ Aggregate \/ ScanAll \/ ActingDone \/ NotifyDone \/ Store
  BY <1>4, <1>7 DEF Begin, SelectNext, Aggregate, ScanAll, ActingDone, NotifyDone, Store
<1>8. CASE Notify
  BY <1>4, <1>8, NotifyFrame
<1>9. CASE UNCHANGED vars
  BY <1>4, <1>9 DEF vars, server
<1> QED
  BY <1>2, <1>5, <1>6, <1>7, <1>8, <1>9 DEF Next, Worker

LEMMA UidInductive == TypeOK /\ UidInv /\ [Next]_vars => UidInv'
<1> SUFFICES ASSUME TypeOK, UidInv, [Next]_vars
             PROVE  UidInv'
  OBVIOUS
<1>1. /\ version \in Nat /\ version' \in {version, version + 1}
      /\ selected \in Seq(Snapshots)
      /\ \A r \in Resources : objects[r] # Absent => objects[r].uid \in Nat
      /\ \A s \in Snapshots : s.uid \in Nat
  BY AllAge DEF TypeOK, Objects, Snapshots
<1>2. ASSUME NEW r \in Resources, objects'[r] # Absent
      PROVE  objects'[r].uid <= version'
  <2>1. Ages(r)
    BY AllAge
  <2>2. CASE objects[r] # Absent
    BY <1>1, <1>2, <2>1, <2>2 DEF Ages, Becomes, UidInv
  <2>3. CASE objects[r] = Absent
    BY <1>1, <1>2, <2>1, <2>3, AllAge DEF Ages, Becomes
  <2> QED
    BY <2>2, <2>3
<1>3. ASSUME selected' = selected
      PROVE  \A i \in DOMAIN selected' : selected'[i].uid <= version'
  BY <1>1, <1>3 DEF UidInv
<1>4. CASE Begin
  BY <1>2, <1>4 DEF Begin, UidInv
<1>5. CASE SelectNext
  <2> DEFINE matching == {r \in Considered(spec.selectors[pos]) : objects[r].verdict = "yes"}
             found == {Snapshot(r) : r \in matching}
             list == SetToSeq(found)
  <2>1. version' = version
    BY <1>5 DEF SelectNext, server
  <2>2. matching \in SUBSET Resources /\ \A r \in matching : objects[r] # Absent
    <3>1. spec.selectors[pos] \in Selectors
      BY <1>5, SpecFacts DEF TypeOK, SelectNext
    <3> QED
      BY <3>1 DEF Considered, Selectors
  <2> HIDE DEF matching
  <2>3. \A s \in found : s.uid <= version
    BY <2>2 DEF UidInv, Snapshot
  <2>4. found \subseteq Snapshots /\ list \in Seq(found)
    BY <2>2, SelectedFacts, Zenon DEF TypeOK
  <2> HIDE DEF list, found
  <2>5. selected' = selected \/ selected' = selected \o list
    BY <1>5 DEF SelectNext, list, found, matching
  <2>6. ASSUME selected' = selected \o list, NEW i \in DOMAIN selected'
        PROVE  selected'[i].uid <= version
    <3>1. /\ list \in Seq(Snapshots) /\ Len(list) \in Nat
          /\ \A j \in 1 .. Len(list) : list[j] \in found
      BY <2>4
    <3>2. i \in 1 .. Len(selected) + Len(list)
      BY <1>1, <2>6, <3>1
    <3>3. CASE i <= Len(selected)
      <4>1. selected'[i] = selected[i] /\ i \in DOMAIN selected
        BY <1>1, <2>6, <3>1, <3>2, <3>3
      <4> QED
        BY <4>1 DEF UidInv
    <3>4. CASE ~(i <= Len(selected))
      <4>1. selected'[i] = list[i - Len(selected)] /\ i - Len(selected) \in 1 .. Len(list)
        BY <1>1, <2>6, <3>1, <3>2, <3>4
      <4> QED
        BY <2>3, <3>1, <4>1
    <3> QED
      BY <3>3, <3>4
  <2> QED
    BY <1>2, <1>3, <2>1, <2>5, <2>6 DEF UidInv
<1>6. CASE Aggregate
  <2>1. version' = version /\ (selected' = selected \/ selected' \in Parts(selected))
    BY <1>6 DEF Aggregate, server
  <2>2. ASSUME selected' \in Parts(selected), NEW i \in DOMAIN selected'
        PROVE  selected'[i].uid <= version'
    <3>1. /\ selected' \in Seq(Snapshots)
          /\ \A k \in 1 .. Len(selected') : \E j \in 1 .. Len(selected) : selected'[k] = selected[j]
      <4>1. selected \in Seq(Snapshots)
        BY DEF TypeOK
      <4> QED
        BY <2>2, <4>1, PartsFacts
    <3>2. i \in 1 .. Len(selected')
      BY <2>2, <3>1
    <3>3. PICK j \in 1 .. Len(selected) : selected'[i] = selected[j]
      BY <3>1, <3>2, Zenon
    <3> QED
      BY <1>1, <2>1, <3>3 DEF UidInv
  <2> QED
    BY <1>2, <1>3, <2>1, <2>2 DEF UidInv
<1>7. CASE selected' = selected
  BY <1>2, <1>3, <1>7 DEF UidInv
<1>8. CASE DeleteNext \/ TransformNext
  <2>1. selected' = selected
    BY <1>8, Zenon DEF DeleteNext, TransformNext, Acting
  <2> QED
    BY <1>7, <2>1
<1>9. CASE ScanAll \/ ActingDone \/ Notify \/ NotifyDone \/ Store \/ Environment \/ UNCHANGED vars
  <2>1. selected' = selected
    BY <1>9, NotifyFrame, EnvironmentFrame DEF ScanAll, ActingDone, NotifyDone, Store, vars
  <2> QED
    BY <1>7, <2>1
<1> QED
  BY <1>4, <1>5, <1>6, <1>8, <1>9 DEF Next, Worker

(* A resource whose deletion needs nothing more stays so: one that is      *)
(* created again has another uid.                                          *)
LEMMA TreatedStays ==
    ASSUME TypeOK, UidInv, [Next]_vars, selected' = selected,
           NEW i \in DOMAIN selected, Treated(i)
    PROVE  Treated(i)'
<1> DEFINE r == selected[i].key
<1>1. /\ r \in Resources /\ selected[i].uid \in Nat /\ version \in Nat
      /\ selected[i].uid <= version
  <2>1. selected[i] \in Snapshots
    BY DEF TypeOK
  <2> QED
    BY <2>1 DEF Snapshots, TypeOK, UidInv
<1>2. Becomes(objects[r], objects'[r])
  BY <1>1, AllAge DEF Ages
<1>3. objects'[r] = Absent \/ objects'[r].deleting \/ objects'[r].uid # selected[i].uid
  BY <1>1, <1>2 DEF Becomes, Treated
<1> QED
  BY <1>3 DEF Treated

LEMMA CompleteInductive ==
    TypeOK /\ UidInv /\ CompleteInv /\ [Next]_vars => CompleteInv'
<1> SUFFICES ASSUME TypeOK, UidInv, CompleteInv, [Next]_vars
             PROVE  CompleteInv'
  OBVIOUS
<1>1. /\ pos \in Nat \ {0} /\ selected \in Seq(Snapshots) /\ processed \in Seq(Snapshots)
      /\ Len(selected) \in Nat /\ Len(processed) \in Nat
  BY DEF TypeOK
<1>2. CASE Begin
  <2>1. phase' = "select" \/ (phase' = "done" /\ err')
    BY <1>2 DEF Begin, Goto, Return
  <2>2. processed' = << >>
    BY <1>2 DEF Begin
  <2> QED
    BY <2>1, <2>2 DEF CompleteInv
<1>3. CASE SelectNext
  <2>1. phase' = "select" \/ (phase' = "done" /\ err')
    BY <1>3 DEF SelectNext, Goto, Return
  <2>2. phase = "select" /\ processed' = processed
    BY <1>3 DEF SelectNext
  <2> QED
    BY <2>1, <2>2 DEF CompleteInv
<1>4. CASE Aggregate
  <2>1. (phase' = "act" /\ pos' = 1) \/ (phase' = "done" /\ err')
    BY <1>4 DEF Aggregate, Goto, Return
  <2>2. processed' = << >>
    BY <1>4 DEF Aggregate, CompleteInv
  <2>3. selected' \in Seq(Snapshots)
    BY TypeInductive DEF TypeOK
  <2>4. \A i \in DOMAIN selected' : ~(i < 1)
    BY <2>3
  <2> QED
    BY <2>1, <2>2, <2>3, <2>4 DEF CompleteInv
<1>5. CASE DeleteNext
  <2>1. /\ Acting("Delete")
        /\ phase = "act" /\ phase' = "act" /\ spec.action = "Delete" /\ spec' = spec
        /\ pos' = pos + 1 /\ selected' = selected
    BY <1>5 DEF DeleteNext, Acting
  <2>2. pos \in DOMAIN selected /\ selected[pos].key \in Resources
    BY <2>1, ActingFacts
  <2>3. ASSUME ~failed'
        PROVE  ~failed /\ \A i \in DOMAIN selected : i = pos => Treated(i)'
    <3> DEFINE key == selected[pos].key
               o == objects[key]
    <3>1. ~failed
      BY <1>5, <2>3 DEF DeleteNext, Succeed, Fail
    <3>2. objects'[key] = Absent \/ objects'[key].deleting
      <4>1. CASE o = Absent /\ UNCHANGED server
        BY <4>1 DEF server
      <4>2. CASE o # Absent /\ Succeed(AfterDelete(o))
        <5>1. o \in Objects /\ version \in Nat
          BY <2>1, <4>2, ActingFacts DEF TypeOK
        <5>2. objects'[key] = AfterDelete(o)
          BY <2>2, <4>2 DEF Succeed, TypeOK
        <5>3. AfterDelete(o) = Absent \/ AfterDelete(o).deleting
          BY <5>1, AfterDeleteFacts, Zenon
        <5> QED
          BY <5>2, <5>3
      <4> QED
        BY <1>5, <2>3, <4>1, <4>2 DEF DeleteNext, Fail
    <3>3. ASSUME NEW i \in DOMAIN selected, i = pos
          PROVE  Treated(i)'
      BY <2>1, <3>2, <3>3 DEF Treated
    <3> QED
      BY <3>1, <3>3
  <2>4. ASSUME ~failed', NEW i \in DOMAIN selected, i < pos + 1
        PROVE  Treated(i)'
    <3>1. CASE i = pos
      BY <2>3, <2>4, <3>1
    <3>2. CASE i # pos
      <4>1. i < pos
        BY <1>1, <2>4, <3>2
      <4>2. Treated(i)
        BY <2>1, <2>3, <2>4, <4>1 DEF CompleteInv
      <4> QED
        BY <2>1, <4>2, TreatedStays
    <3> QED
      BY <3>1, <3>2
  <2> QED
    BY <2>1, <2>4 DEF CompleteInv
<1>6. CASE TransformNext
  <2>1. /\ Acting("Transform")
        /\ phase = "act" /\ phase' = "act" /\ spec.action = "Transform" /\ spec' = spec
        /\ pos' = pos + 1 /\ selected' = selected /\ pos <= Len(selected)
    BY <1>6, Zenon DEF TransformNext, Acting
  <2>2. failed' \/ (failed' = failed /\ processed' = Append(processed, selected[pos]))
    BY <1>6, Zenon DEF TransformNext, Succeed, Fail
  <2>3. ASSUME ~failed'
        PROVE  /\ Len(processed') = pos /\ pos + 1 <= Len(selected) + 1
               /\ \A i \in DOMAIN processed' : processed'[i] = selected[i]
    <3>1. /\ Len(processed) = pos - 1
          /\ \A i \in DOMAIN processed : processed[i] = selected[i]
          /\ processed' = Append(processed, selected[pos])
      BY <2>1, <2>2, <2>3 DEF CompleteInv
    <3>2. selected[pos] \in Snapshots
      BY <2>1, ActingFacts
    <3> QED
      BY <1>1, <2>1, <3>1, <3>2
  <2> QED
    BY <1>1, <2>1, <2>3 DEF CompleteInv
<1>7. CASE ScanAll
  BY <1>7 DEF CompleteInv, ScanAll, Goto
<1>8. CASE ActingDone
  <2>1. /\ phase = "act" /\ phase' = "notify" /\ spec.action # "Scan" /\ pos > Len(selected)
        /\ UNCHANGED <<server, spec, selected, processed, failed>>
    BY <1>8 DEF ActingDone, Goto
  <2>2. ASSUME spec.action = "Delete", ~failed, NEW i \in DOMAIN selected
        PROVE  Treated(i)'
    <3>1. i < pos
      BY <1>1, <2>1
    <3>2. Treated(i)
      BY <2>1, <2>2, <3>1 DEF CompleteInv
    <3> QED
      BY <2>1, <3>2, TreatedStays
  <2>3. ASSUME spec.action # "Delete", ~failed
        PROVE  processed = selected
    <3>1. spec.action = "Transform"
      BY <2>1, <2>3, SpecFacts DEF TypeOK, Actions
    <3>2. /\ Len(processed) = pos - 1 /\ pos <= Len(selected) + 1
          /\ \A i \in DOMAIN processed : processed[i] = selected[i]
      BY <2>1, <2>3, <3>1 DEF CompleteInv
    <3>3. Len(processed) = Len(selected)
      BY <1>1, <2>1, <3>2
    <3> QED
      BY <1>1, <3>2, <3>3, SeqEqual
  <2> QED
    BY <2>1, <2>2, <2>3 DEF CompleteInv
<1>9. ASSUME UNCHANGED <<spec, selected, processed, failed>>,
             \/ /\ phase \in {"notify", "store"} /\ phase' \in {"notify", "store"}
             \/ phase \in {"notify", "store"} /\ phase' = "done" /\ (err' \/ err' = failed)
             \/ UNCHANGED <<phase, pos, err>>
      PROVE  CompleteInv'
  <2>1. ASSUME NEW i \in DOMAIN selected, Treated(i)
        PROVE  Treated(i)'
    BY <1>9, <2>1, TreatedStays
  <2>2. CASE phase \in {"notify", "store"} /\ phase' \in {"notify", "store"}
    BY <1>9, <2>1, <2>2 DEF CompleteInv
  <2>3. CASE phase \in {"notify", "store"} /\ phase' = "done" /\ (err' \/ err' = failed)
    BY <1>9, <2>1, <2>3 DEF CompleteInv
  <2>4. CASE UNCHANGED <<phase, pos, err>>
    BY <1>9, <2>1, <2>4 DEF CompleteInv
  <2> QED
    BY <1>9, <2>2, <2>3, <2>4
<1>10. CASE Notify
  BY <1>9, <1>10, NotifyFrame DEF Delivered, NotDelivered, NotificationFails, Return, Goto
<1>11. CASE NotifyDone
  BY <1>9, <1>11 DEF NotifyDone, Goto
<1>12. CASE Store
  BY <1>9, <1>12 DEF Store, Return, Goto
<1>13. CASE Environment \/ UNCHANGED vars
  BY <1>9, <1>13, EnvironmentFrame DEF vars
<1> QED
  BY <1>2, <1>3, <1>4, <1>5, <1>6, <1>7, <1>8, <1>10, <1>11, <1>12, <1>13 DEF Next, Worker

(* A run that returns nil left no selected resource untouched.             *)
THEOREM CleanRunsAreComplete == Spec => []CleanRunIsComplete
<1>1. Init => UidInv /\ CompleteInv
  BY DEF Init, UidInv, CompleteInv
<1>2. CompleteInv => CleanRunIsComplete
  BY DEF CompleteInv, CleanRunIsComplete, Treated
<1> QED
  BY <1>1, <1>2, UidInductive, CompleteInductive, TypeCorrect, PTL DEF Spec
=============================================================================
