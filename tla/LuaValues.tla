------------------------------ MODULE LuaValues ------------------------------
(***************************************************************************)
(* What the Lua scripts of a Cleaner see of a resource and what comes back *)
(* of it: isMatch, aggregatedSelection and transform, mapToTable and       *)
(* toGoValue of internal/controller/executor/worker.go.  The content of a  *)
(* resource becomes a Lua table, the script answers with a table, that     *)
(* becomes a Go value, is written as JSON and read again, and is sent to   *)
(* the API server: a Cleaner whose action is Transform runs again and      *)
(* again over what it has written itself.                                  *)
(*                                                                         *)
(* The content of a resource is a tree, and is given as a function: from   *)
(* the paths that lead to something in it to what is there.  What the      *)
(* recursion of the code does to a value, it does at each path: it comes   *)
(* to those on whose way it has a case for everything.  Elements of lists  *)
(* are named by numbers in their order; when some are left out the others  *)
(* keep theirs, since only the order matters.                              *)
(*                                                                         *)
(* The numbers of Lua and of JSON are counted in halves, so that there are *)
(* some that are no integer.  A script is the name of what it does with    *)
(* the table it is given.                                                  *)
(***************************************************************************)
EXTENDS Integers, Sequences

CONSTANTS
    Contents,  \* the contents users give the resource
    Exact,     \* 2^53: the integers up to it are float64 numbers
    MaxEdits   \* bound on the changes a user makes

VARIABLES
    server,   \* the content of the resource at the API server
    scripts,  \* evaluate, aggregatedSelection and transform of the Cleaner
    stage,    \* where the run is
    held,     \* the contents of the resources the run holds, none or one
    settled,  \* history: what is at the server came out of a script
    edits     \* how often a user changed it

vars == <<server, scripts, stage, held, settled, edits>>

Field(k) == <<"field", k>>
Element(i) == <<"element", i>>

Labels == ({"field"} \X STRING) \union ({"element"} \X Nat)

Kind == <<Field("kind")>>
SpecOf == <<Field("spec")>>

(* The first i steps of a path. *)
Upto(p, i) == SubSeq(p, 1, i)

Map == <<"map">>
List == <<"list">>
Null == <<"null">>

(* What a client reads from the API server: int64, float64, string, bool,  *)
(* null, maps and lists.  The server writes a float64 that is an integer   *)
(* without a fraction, so that it is read as an int64.                     *)
Values ==
    {Map, List, Null}
        \union ({"int"} \X Nat) \union ({"float"} \X {n \in Nat : n % 2 = 1})
        \union ({"string"} \X STRING) \union ({"bool"} \X BOOLEAN)

IsContent(d) ==
    /\ << >> \in DOMAIN d /\ d[<< >>] = Map
    /\ DOMAIN d \subseteq Seq(Labels)
    /\ d \in [DOMAIN d -> Values]
    /\ \A p \in DOMAIN d : \A i \in 1..Len(p) :
        /\ Upto(p, i - 1) \in DOMAIN d
        /\ <<d[Upto(p, i - 1)], p[i][1]>> \in {<<Map, "field">>, <<List, "element">>}

(* unstructured.Unstructured does not unmarshal without a kind.            *)
IsResource(d) == Kind \in DOMAIN d /\ d[Kind][1] = "string"

ASSUME ContentsAssumption == \A d \in Contents : IsContent(d) /\ IsResource(d)
ASSUME ExactAssumption == Exact \in Nat /\ Exact > 0
ASSUME EditsAssumption == MaxEdits \in Nat

-----------------------------------------------------------------------------
(* From Go to Lua and back. *)

Table == <<"table">>

(* The elements of the table, or list, at p. *)
Elements(t, p) ==
    {q \in DOMAIN t :
        Len(q) = Len(p) + 1 /\ Upto(q, Len(p)) = p /\ q[Len(q)][1] = "element"}

(* A slip: integers that are no float64 are rounded up. *)
RoundedUp(n) == IF n <= Exact THEN n ELSE n + 1

(* float64(n): beyond Exact only every other integer is a number, and the  *)
(* tie goes to the one that is even.                                       *)
Rounded(n) == IF n <= Exact \/ n % 2 = 0 THEN n ELSE IF n % 4 = 1 THEN n - 1 ELSE n + 1

LuaValue(v) ==
    CASE v[1] \in {"map", "list"} -> Table
      [] v[1] = "int" -> <<"number", 2 * Rounded(v[2])>>
      [] v[1] = "float" -> <<"number", v[2]>>
      [] OTHER -> v

(* A slip: only the tables and strings of a list are handled. *)
Appended(v) == v[1] \in {"map", "string"}

(* The elements of a list for which mapToTable has a case.                 *)
Portables(v) == v[1] \in {"map", "float", "string", "bool"}

(* Of a list mapToTable appends the elements it has a case for: integers,  *)
(* lists and nulls are left out.  Of a map it leaves out the nulls.        *)
HasCase(parent, v) == IF parent = List THEN Portables(v) ELSE v # Null

(* A slip: the booleans of a map are left out. *)
MapToTableNoBool(d) ==
    LET Has(parent, v) == HasCase(parent, v) /\ (parent = Map => v[1] # "bool")
    IN  [p \in {p \in DOMAIN d :
                    \A i \in 1..Len(p) : Has(d[Upto(p, i - 1)], d[Upto(p, i)])}
            |-> LuaValue(d[p])]

(* mapToTable *)
MapToTable(d) ==
    [p \in {p \in DOMAIN d :
                \A i \in 1..Len(p) : HasCase(d[Upto(p, i - 1)], d[Upto(p, i)])}
        |-> LuaValue(d[p])]

(* toGoValue: a table that has elements is a list, whatever fields it has, *)
(* and one that has none is a map.                                         *)
ToGoValue(t) ==
    [p \in {p \in DOMAIN t :
                \A i \in 1..Len(p) :
                    Elements(t, Upto(p, i - 1)) # {} => p[i][1] = "element"}
        |-> IF t[p] # Table THEN t[p] ELSE IF Elements(t, p) # {} THEN List ELSE Map]

(* A float64 that is an integer is written without a fraction, and is read *)
(* as an int64.                                                            *)
Decoded(v) ==
    CASE v[1] = "number" /\ v[2] % 2 = 0 -> <<"int", v[2] \div 2>>
      [] v[1] = "number" /\ v[2] % 2 = 1 -> <<"float", v[2]>>
      [] OTHER -> v

(* What json.Unmarshal reads of what json.Marshal wrote of a Lua table.    *)
Answer(t) == [p \in DOMAIN ToGoValue(t) |-> Decoded(ToGoValue(t)[p])]

(* What comes back of a content when the script returns it as it got it.   *)
Returned(d) == Answer(MapToTable(d))

-----------------------------------------------------------------------------
(* The scripts.  A script raises, or it returns a Lua value: what counts   *)
(* of it is whether it is a table that is no array, and the field that is  *)
(* asked for.  A value that is no table, an array and a table without the  *)
(* field are the mistakes a user may make.                                 *)

Raises == <<"raises">>
NoTable == <<"no table">>
Array == <<"array">>
Unset == <<"unset">>

EvaluateScripts == {"", "always", "unused", "silent", "status", "array"}
AggregateScripts == {"", "guarded", "unguarded", "blank"}
TransformScripts == {"", "same", "trim", "blank", "unkind", "status"}

Scripts == [evaluate : EvaluateScripts, aggregate : AggregateScripts,
            transform : TransformScripts]

(* evaluate(): hs.matching is true, is whether obj.spec has no elements,   *)
(* or is not set.                                                          *)
RunEvaluate(script, obj) ==
    CASE script = "always" -> <<"matching", TRUE>>
      [] script = "unused" ->
            IF SpecOf \in DOMAIN obj /\ obj[SpecOf] = Table
            THEN <<"matching", Elements(obj, SpecOf) = {}>>
            ELSE Raises
      [] script = "silent" -> Unset
      [] script = "status" -> NoTable
      [] script = "array" -> Array

(* evaluate() of AggregatedSelection: hs.resources holds an entry for each *)
(* of the resources; the scripts of the examples set it only if there is   *)
(* one.  An entry has the resource, or a message only.                     *)
RunAggregate(script, objs) ==
    IF script = "guarded" /\ objs = << >>
    THEN Unset
    ELSE <<"resources", [i \in DOMAIN objs |->
                            IF script = "blank" THEN Unset ELSE <<"resource", objs[i]>>]>>

(* A table without what is at p. *)
Without(t, p) ==
    [q \in {q \in DOMAIN t : Len(q) < Len(p) \/ Upto(q, Len(p)) # p} |-> t[q]]

First(t, p) ==
    CHOOSE q \in Elements(t, p) : \A r \in Elements(t, p) : q[Len(q)][2] <= r[Len(r)][2]

(* transform(): hs.resource is obj, obj without the first element of its   *)
(* spec or without its kind, or is not set.                                *)
RunTransform(script, obj) ==
    CASE script = "same" -> <<"resource", obj>>
      [] script = "trim" ->
            <<"resource", IF Elements(obj, SpecOf) # {}
                          THEN Without(obj, First(obj, SpecOf))
                          ELSE obj>>
      [] script = "unkind" -> <<"resource", Without(obj, Kind)>>
      [] script = "blank" -> Unset
      [] script = "status" -> NoTable

-----------------------------------------------------------------------------
(* What the worker makes of the answers. *)

Error == <<"error">>
Nil == <<"nil">>
Panic == <<"panic">>

(* A slip: an answer that does not say is an error. *)
IsMatchSays(resource) ==
    LET answer == RunEvaluate(scripts.evaluate, MapToTable(resource))
    IN  IF scripts.evaluate = ""
        THEN <<"match", TRUE>>
        ELSE IF answer[1] = "matching" THEN <<"match", answer[2]>> ELSE Error

(* isMatch: an answer that is no table, or is an array, is an error; one   *)
(* that does not say is no match.                                          *)
IsMatch(resource) ==
    LET answer == RunEvaluate(scripts.evaluate, MapToTable(resource))
    IN  IF scripts.evaluate = ""
        THEN <<"match", TRUE>>
        ELSE CASE answer \in {Raises, NoTable, Array} -> Error
               [] answer = Unset -> <<"match", FALSE>>
               [] answer[1] = "matching" -> <<"match", answer[2]>>

(* A slip: whatever the script returns is a resource. *)
ResourceOfAny(field) == IF field = Unset THEN Nil ELSE <<"resource", Answer(field[2])>>

(* What the field "resource" of an answer unmarshals to: nil if there is   *)
(* none, and an error if it has no kind.                                   *)
ResourceOf(field) ==
    IF field = Unset
    THEN Nil
    ELSE IF IsResource(Answer(field[2])) THEN <<"resource", Answer(field[2])>> ELSE Error

(* aggregatedSelection: the resources it goes on with are those of the     *)
(* answer.  An empty hs.resources is a map and not a list, hence an error; *)
(* an entry without a resource is dereferenced.                            *)
AggregatedSelection(resources) ==
    LET answer == RunAggregate(scripts.aggregate,
                               [i \in DOMAIN resources |-> MapToTable(resources[i])])
        found == [i \in DOMAIN answer[2] |-> ResourceOf(answer[2][i])]
    IN  IF scripts.aggregate = ""
        THEN <<"resources", resources>>
        ELSE CASE answer = Unset -> <<"resources", << >>>>
               [] answer # Unset ->
                    IF found = << >> \/ \E i \in DOMAIN found : found[i] = Error
                    THEN Error
                    ELSE IF \E i \in DOMAIN found : found[i] = Nil
                         THEN Panic
                         ELSE <<"resources", [i \in DOMAIN found |-> found[i][2]]>>

(* transform: nil is what is left of an answer without a resource.         *)
Transform(resource) ==
    LET answer == RunTransform(scripts.transform, MapToTable(resource))
    IN  IF scripts.transform = ""
        THEN <<"resource", resource>>
        ELSE IF answer = NoTable THEN Error ELSE ResourceOf(answer)

-----------------------------------------------------------------------------
Stages == {"idle", "listed", "matched", "selected", "refused", "error", "panic"}

TypeOK ==
    /\ IsContent(server) /\ IsResource(server)
    /\ scripts \in Scripts
    /\ stage \in Stages
    /\ \/ held = << >>
       \/ held = <<held[1]>> /\ IsContent(held[1]) /\ IsResource(held[1])
    /\ settled \in BOOLEAN
    /\ edits \in 0..MaxEdits

Init ==
    /\ server \in Contents
    /\ scripts \in Scripts
    /\ stage = "idle"
    /\ held = << >>
    /\ settled = FALSE
    /\ edits = 0

(* A user changes the resource. *)
Edit ==
    /\ edits < MaxEdits
    /\ stage = "idle"
    /\ edits' = edits + 1
    /\ settled' = FALSE
    /\ server' \in Contents
    /\ UNCHANGED <<scripts, stage, held>>

(* The run begins and fetchResources lists the resource. *)
Fetch ==
    /\ stage = "idle"
    /\ stage' = "listed"
    /\ held' = <<server>>
    /\ UNCHANGED <<server, scripts, settled, edits>>

(* getMatchingResources: an error of isMatch ends the run.                 *)
Evaluate ==
    /\ stage = "listed"
    /\ LET m == IsMatch(held[1])
       IN  \/ /\ m = Error
              /\ stage' = "error"
              /\ held' = << >>
           \/ /\ m # Error
              /\ stage' = "matched"
              /\ held' = IF m[2] THEN held ELSE << >>
    /\ UNCHANGED <<server, scripts, settled, edits>>

Aggregate ==
    /\ stage = "matched"
    /\ LET found == AggregatedSelection(held)
       IN  \/ /\ found = Error
              /\ stage' = "error"
              /\ held' = << >>
           \/ /\ found = Panic
              /\ stage' = "panic"
              /\ held' = << >>
           \/ /\ found \notin {Error, Panic}
              /\ stage' = "selected"
              /\ held' = found[2]
    /\ UNCHANGED <<server, scripts, settled, edits>>

(* updateMatchingResources: the result of transform is sent to the API     *)
(* server, which may refuse it; a nil one is dereferenced by the client.   *)
Update ==
    /\ stage = "selected"
    /\ held # << >>
    /\ LET new == Transform(held[1])
       IN  \/ /\ new = Error
              /\ stage' = "error"
              /\ UNCHANGED <<server, settled>>
           \/ /\ new = Nil
              /\ stage' = "panic"
              /\ UNCHANGED <<server, settled>>
           \/ /\ new \notin {Error, Nil}
              /\ \/ /\ stage' = "idle"
                    /\ server' = new[2]
                    /\ settled' = TRUE
                 \/ /\ stage' = "refused"
                    /\ UNCHANGED <<server, settled>>
    /\ held' = << >>
    /\ UNCHANGED <<scripts, edits>>

NothingToUpdate ==
    /\ stage = "selected"
    /\ held = << >>
    /\ stage' = "idle"
    /\ UNCHANGED <<server, scripts, held, settled, edits>>

(* The next run of the Cleaner, after a failure or in a new process.       *)
Again ==
    /\ stage \in {"refused", "error", "panic"}
    /\ stage' = "idle"
    /\ UNCHANGED <<server, scripts, held, settled, edits>>

Next == Edit \/ Fetch \/ Evaluate \/ Aggregate \/ Update \/ NothingToUpdate \/ Again

Spec == Init /\ [][Next]_vars

-----------------------------------------------------------------------------
(* What comes back unchanged: no null, no integer above Exact, no list     *)
(* that is empty or holds an integer, a null or a list.                    *)
Portable(d) ==
    \A p \in DOMAIN d :
        /\ d[p] # Null
        /\ d[p][1] = "int" => d[p][2] <= Exact
        /\ d[p] = List => Elements(d, p) # {}
        /\ \A q \in Elements(d, p) : d[q][1] \notin {"int", "null", "list"}

(* A script that returns the resource it was given, or none, changes a     *)
(* resource only if it holds something mapToTable or toGoValue has no case *)
(* for, also when AggregatedSelection took it through the tables as well.  *)
PortableIsKept ==
    [][(stage = "selected" /\ scripts.transform \in {"", "same"} /\ server' # server)
       => ~Portable(server)]_vars

(* What is lost is lost at once: the runs that follow find a resource that *)
(* comes back as it is.  A Cleaner on a schedule does not wear a resource  *)
(* down from run to run, and does not update it again and again.           *)
ErosionStops ==
    [][(stage = "selected" /\ scripts.transform \in {"", "same"} /\ settled)
       => server' = server]_vars

(* A script that takes a resource without elements for unused does not     *)
(* match one that is used, unless all its elements are integers, lists or  *)
(* nulls: those it does not see.                                           *)
UnusedIsUnused ==
    (stage \in {"matched", "selected"} /\ held # << >> /\ scripts.evaluate = "unused")
    => \A p \in Elements(server, SpecOf) : server[p][1] \in {"int", "list", "null"}

(* Scripts that return what they are asked for, and set hs.resources only  *)
(* if there are some as the examples do, neither fail the run nor make the *)
(* worker panic, whatever the resource holds and however little was        *)
(* selected.                                                               *)
GoodScriptsPass ==
    (/\ scripts.evaluate \in {"", "always", "silent"}
     /\ scripts.aggregate \in {"", "guarded"}
     /\ scripts.transform \in {"", "same", "trim"})
    => stage \notin {"error", "panic"}
=============================================================================
