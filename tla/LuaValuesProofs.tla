-------------------------- MODULE LuaValuesProofs --------------------------
(***************************************************************************)
(* Theorems about LuaValues, for any contents of resources, however deep,  *)
(* and any Exact.                                                          *)
(***************************************************************************)
EXTENDS LuaValues, SequenceTheorems, NaturalsInduction, WellFoundedInduction, TLAPS

Paths == Seq(Labels)

-----------------------------------------------------------------------------
(* Paths and values. *)

(* The first steps of a path are a path, and so are the first steps of     *)
(* those.                                                                  *)
LEMMA UptoFacts ==
    ASSUME NEW p \in Paths, NEW i \in 0..Len(p)
    PROVE  /\ Upto(p, i) \in Paths
           /\ Len(Upto(p, i)) = i
           /\ \A j \in 1..i : Upto(p, i)[j] = p[j]
           /\ \A j \in 0..i : Upto(Upto(p, i), j) = Upto(p, j)
<1>1. Len(p) \in Nat /\ i \in Nat /\ \A j \in 1..Len(p) : p[j] \in Labels
  BY DEF Paths
<1>2. ASSUME NEW s, NEW k \in Nat, \A j \in 1..k : s[j] \in Labels
      PROVE  /\ SubSeq(s, 1, k) \in Paths
             /\ Len(SubSeq(s, 1, k)) = k
             /\ \A j \in 1..k : SubSeq(s, 1, k)[j] = s[j]
  <2>1. /\ SubSeq(s, 1, k) \in Seq(Labels)
        /\ Len(SubSeq(s, 1, k)) = IF 1 <= k THEN k - 1 + 1 ELSE 0
        /\ \A j \in 1 .. k - 1 + 1 : SubSeq(s, 1, k)[j] = s[1 + j - 1]
    BY <1>2, SubSeqProperties
  <2>2. QED
    BY <2>1 DEF Paths
<1>3. /\ Upto(p, i) \in Paths
      /\ Len(Upto(p, i)) = i
      /\ \A j \in 1..i : Upto(p, i)[j] = p[j]
  BY <1>1, <1>2 DEF Upto
<1>4. ASSUME NEW j \in 0..i
      PROVE  Upto(Upto(p, i), j) = Upto(p, j)
  <2>1. /\ Upto(p, j) \in Paths /\ Len(Upto(p, j)) = j
        /\ \A k \in 1..j : Upto(p, j)[k] = p[k]
    BY <1>1, <1>2 DEF Upto
  <2>2. /\ Upto(Upto(p, i), j) \in Paths /\ Len(Upto(Upto(p, i), j)) = j
        /\ \A k \in 1..j : Upto(Upto(p, i), j)[k] = Upto(p, i)[k]
    <3>1. j \in Nat /\ \A k \in 1..j : Upto(p, i)[k] \in Labels
      BY <1>1, <1>3
    <3>2. QED
      BY <3>1, <1>2 DEF Upto
  <2>3. QED
    BY <2>1, <2>2, <1>3, SeqEqual DEF Paths
<1>5. QED
  BY <1>3, <1>4

(* The end of a path is all of it. *)
LEMMA UptoEnd ==
    ASSUME NEW p \in Paths
    PROVE  Upto(p, Len(p)) = p /\ Upto(p, 0) = << >>
BY SubSeqFull, SubSeqEmpty DEF Paths, Upto

(* What is a label, and where the kind and the spec are. *)
LEMMA LabelFacts ==
    /\ \A l \in Labels : l[1] \in {"field", "element"}
    /\ Kind = <<Field("kind")>> /\ Len(Kind) = 1 /\ Kind[1][1] = "field"
    /\ SpecOf = <<Field("spec")>> /\ Len(SpecOf) = 1 /\ SpecOf[1][1] = "field"
    /\ Kind[1] # SpecOf[1]
    /\ << >> \in Paths
<1>1. \A l \in Labels : l[1] \in {"field", "element"}
  BY DEF Labels
<1>2. Field("kind")[1] = "field" /\ Field("spec")[1] = "field"
  BY DEF Field
<1>3. Field("kind") # Field("spec")
  <2>1. Field("kind")[2] # Field("spec")[2]
    BY DEF Field
  <2>2. QED
    BY <2>1
<1>4. QED
  BY <1>1, <1>2, <1>3 DEF Kind, SpecOf, Paths

(* float64(n) is a natural number that float64 has: it does not change     *)
(* when it is rounded again.                                               *)
LEMMA RoundedFacts ==
    ASSUME NEW n \in Nat
    PROVE  /\ Rounded(n) \in Nat
           /\ Rounded(Rounded(n)) = Rounded(n)
           /\ n <= Exact => Rounded(n) = n
BY ExactAssumption DEF Rounded

LuaValues ==
    {Table} \union ({"number"} \X Nat)
        \union ({"string"} \X STRING) \union ({"bool"} \X BOOLEAN)

(* A value on its way through a script. *)
LEMMA ValueFacts ==
    ASSUME NEW v \in Values, v # Null
    PROVE  /\ LuaValue(v) \in LuaValues
           /\ LuaValue(v) = Table <=> v \in {Map, List}
           /\ v \notin {Map, List} =>
                /\ Decoded(LuaValue(v)) \in Values \ {Map, List, Null}
                /\ Decoded(LuaValue(v))[1] = v[1]
                /\ v[1] # "int" => Decoded(LuaValue(v)) = v
                /\ v[1] = "int" => Decoded(LuaValue(v)) = <<"int", Rounded(v[2])>>
<1>1. CASE v \in {Map, List}
  BY <1>1 DEF Map, List, LuaValue, LuaValues, Table
<1>2. CASE v \in {"int"} \X Nat
  <2>1. PICK n \in Nat : v = <<"int", n>>
    BY <1>2
  <2>2. Rounded(n) \in Nat
    BY RoundedFacts
  <2>3. LuaValue(v) = <<"number", 2 * Rounded(n)>> /\ 2 * Rounded(n) \in Nat
    BY <2>1, <2>2 DEF LuaValue
  <2>4. (2 * Rounded(n)) % 2 = 0 /\ (2 * Rounded(n)) \div 2 = Rounded(n)
    BY <2>2
  <2>5. Decoded(LuaValue(v)) = <<"int", Rounded(n)>>
    BY <2>3, <2>4 DEF Decoded
  <2>6. QED
    BY <2>1, <2>2, <2>3, <2>5 DEF Map, List, Null, LuaValues, Table, Values
<1>3. CASE v \in {"float"} \X {n \in Nat : n % 2 = 1}
  <2>1. PICK n \in Nat : v = <<"float", n>> /\ n % 2 = 1
    BY <1>3
  <2>2. LuaValue(v) = <<"number", n>>
    BY <2>1 DEF LuaValue
  <2>3. Decoded(LuaValue(v)) = v
    BY <2>1, <2>2 DEF Decoded
  <2>4. QED
    BY <1>3, <2>1, <2>2, <2>3 DEF Map, List, Null, LuaValues, Table, Values
<1>4. CASE v \in {"string"} \X STRING
  BY <1>4 DEF Map, List, Null, LuaValue, LuaValues, Table, Decoded, Values
<1>5. CASE v \in {"bool"} \X BOOLEAN
  BY <1>5 DEF Map, List, Null, LuaValue, LuaValues, Table, Decoded, Values
<1>6. QED
  BY <1>1, <1>2, <1>3, <1>4, <1>5 DEF Values

-----------------------------------------------------------------------------
(* Contents and tables. *)

(* A Lua table whose tables have elements or fields but not both, and that *)
(* is itself no array.                                                     *)
IsTable(t) ==
    /\ << >> \in DOMAIN t /\ t[<< >>] = Table /\ Elements(t, << >>) = {}
    /\ DOMAIN t \subseteq Paths
    /\ t \in [DOMAIN t -> LuaValues]
    /\ \A p \in DOMAIN t : \A i \in 1..Len(p) :
        /\ Upto(p, i - 1) \in DOMAIN t
        /\ t[Upto(p, i - 1)] = Table
        /\ Elements(t, Upto(p, i - 1)) # {} => p[i][1] = "element"

(* Where a path goes on with an element, there is one.                     *)
LEMMA ElementsOnTheWay ==
    ASSUME NEW t, NEW p \in Paths, NEW i \in 1..Len(p),
           Upto(p, i) \in DOMAIN t, p[i][1] = "element"
    PROVE  Upto(p, i) \in Elements(t, Upto(p, i - 1))
<1>1. i \in 0..Len(p) /\ i - 1 \in 0..Len(p) /\ i - 1 \in 0..i /\ i \in 1..i
  BY DEF Paths
<1>2. /\ Len(Upto(p, i)) = i /\ Len(Upto(p, i - 1)) = i - 1
      /\ Upto(Upto(p, i), i - 1) = Upto(p, i - 1)
      /\ Upto(p, i)[i] = p[i]
  BY <1>1, UptoFacts
<1>3. QED
  BY <1>1, <1>2 DEF Elements

(* The paths mapToTable comes to. *)
Kept(d) ==
    {p \in DOMAIN d : \A i \in 1..Len(p) : HasCase(d[Upto(p, i - 1)], d[Upto(p, i)])}

(* mapToTable comes to a path on the way to all the paths beyond it.       *)
LEMMA KeptFacts ==
    ASSUME NEW d, IsContent(d)
    PROVE  /\ << >> \in Kept(d) /\ Kept(d) \subseteq DOMAIN d /\ Kept(d) \subseteq Paths
           /\ DOMAIN MapToTable(d) = Kept(d)
           /\ \A p \in Kept(d) :
                /\ d[p] \in Values \ {Null}
                /\ MapToTable(d)[p] = LuaValue(d[p])
                /\ MapToTable(d)[p] \in LuaValues
                /\ \A i \in 0..Len(p) : Upto(p, i) \in Kept(d)
<1>1. DOMAIN d \subseteq Paths /\ Kept(d) \subseteq DOMAIN d
  BY DEF IsContent, Paths, Kept
<1>2. << >> \in Kept(d)
  BY DEF IsContent, Kept
<1>3. DOMAIN MapToTable(d) = Kept(d) /\ \A p \in Kept(d) : MapToTable(d)[p] = LuaValue(d[p])
  BY DEF MapToTable, Kept
<1>4. ASSUME NEW p \in Kept(d)
      PROVE  d[p] \in Values \ {Null}
  <2>1. d[p] \in Values /\ p \in Paths
    BY <1>1 DEF IsContent
  <2>2. CASE p = << >>
    BY <2>1, <2>2 DEF IsContent, Map, Null
  <2>3. CASE p # << >>
    <3>1. Len(p) \in 1..Len(p)
      BY <2>1, <2>3 DEF Paths
    <3>2. HasCase(d[Upto(p, Len(p) - 1)], d[p])
      BY <3>1, <2>1, UptoEnd DEF Kept
    <3>3. QED
      BY <3>2, <2>1 DEF HasCase, Portables, Null
  <2>4. QED
    BY <2>2, <2>3
<1>5. ASSUME NEW p \in Kept(d), NEW i \in 0..Len(p)
      PROVE  Upto(p, i) \in Kept(d)
  <2>1. p \in DOMAIN d /\ p \in Paths /\ Len(p) \in Nat
    BY <1>1 DEF Paths
  <2>2. /\ Len(Upto(p, i)) = i
        /\ \A j \in 0..i : Upto(Upto(p, i), j) = Upto(p, j)
    BY <2>1, UptoFacts
  <2>3. Upto(p, i) \in DOMAIN d
    <3>1. CASE i = Len(p)
      BY <3>1, <2>1, UptoEnd
    <3>2. CASE i # Len(p)
      <4>1. i + 1 \in 1..Len(p) /\ (i + 1) - 1 = i
        BY <3>2, <2>1
      <4>2. QED
        BY <4>1, <2>1 DEF IsContent
    <3>3. QED
      BY <3>1, <3>2
  <2>4. ASSUME NEW j \in 1..i
        PROVE  HasCase(d[Upto(Upto(p, i), j - 1)], d[Upto(Upto(p, i), j)])
    <3>1. j \in 1..Len(p) /\ j \in 0..i /\ j - 1 \in 0..i
      BY <2>1
    <3>2. HasCase(d[Upto(p, j - 1)], d[Upto(p, j)])
      BY <3>1 DEF Kept
    <3>3. QED
      BY <3>1, <3>2, <2>2
  <2>5. QED
    BY <2>2, <2>3, <2>4 DEF Kept
<1>6. QED
  BY <1>1, <1>2, <1>3, <1>4, <1>5, ValueFacts

(* What mapToTable makes of a content. *)
LEMMA TableOfContent ==
    ASSUME NEW d, IsContent(d)
    PROVE  /\ IsTable(MapToTable(d))
           /\ \A p \in Kept(d) : Elements(MapToTable(d), p) # {} => d[p] = List
<1> DEFINE t == MapToTable(d)
<1>1. /\ DOMAIN t = Kept(d) /\ << >> \in Kept(d) /\ Kept(d) \subseteq Paths
      /\ \A p \in Kept(d) : p \in DOMAIN d /\ d[p] \in Values \ {Null}
      /\ \A p \in Kept(d) : t[p] = LuaValue(d[p]) /\ t[p] \in LuaValues
  BY KeptFacts
<1>2. t \in [DOMAIN t -> LuaValues]
  BY <1>1 DEF MapToTable
<1>3. t[<< >>] = Table
  BY <1>1, ValueFacts DEF IsContent
<1>4. ASSUME NEW p \in Kept(d), NEW i \in 1..Len(p)
      PROVE  /\ Upto(p, i - 1) \in Kept(d)
             /\ t[Upto(p, i - 1)] = Table
             /\ <<d[Upto(p, i - 1)], p[i][1]>> \in {<<Map, "field">>, <<List, "element">>}
  <2>1. p \in Paths /\ p \in DOMAIN d /\ i - 1 \in 0..Len(p)
    BY <1>1 DEF Paths
  <2>2. Upto(p, i - 1) \in Kept(d)
    BY <2>1, KeptFacts
  <2>3. <<d[Upto(p, i - 1)], p[i][1]>> \in {<<Map, "field">>, <<List, "element">>}
    BY <2>1 DEF IsContent
  <2>4. QED
    BY <2>2, <2>3, <1>1, ValueFacts
<1>5. ASSUME NEW r \in Kept(d), Elements(t, r) # {}
      PROVE  d[r] = List
  <2>1. PICK q \in Kept(d) : Len(q) = Len(r) + 1 /\ Upto(q, Len(r)) = r /\ q[Len(q)][1] = "element"
    BY <1>5, <1>1 DEF Elements
  <2>2. q \in Paths /\ r \in Paths /\ Len(q) \in 1..Len(q) /\ Len(q) - 1 = Len(r)
    BY <2>1, <1>1 DEF Paths
  <2>3. <<d[r], q[Len(q)][1]>> \in {<<Map, "field">>, <<List, "element">>}
    BY <1>4, <2>1, <2>2
  <2>4. QED
    BY <2>1, <2>3
<1>6. Elements(t, << >>) = {}
  BY <1>1, <1>5 DEF IsContent, Map, List
<1>7. ASSUME NEW p \in Kept(d), NEW i \in 1..Len(p), Elements(t, Upto(p, i - 1)) # {}
      PROVE  p[i][1] = "element"
  BY <1>4, <1>5, <1>7 DEF Map, List
<1>8. QED
  BY <1>1, <1>2, <1>3, <1>4, <1>5, <1>6, <1>7 DEF IsTable

(* What a decoder makes of what is no table.                               *)
LEMMA DecodedFacts ==
    ASSUME NEW v \in LuaValues, v # Table
    PROVE  /\ Decoded(v) \in Values \ {Map, List, Null}
           /\ v[1] = "string" => Decoded(v) = v
<1>1. CASE v \in {"number"} \X Nat
  <2>1. PICK n \in Nat : v = <<"number", n>>
    BY <1>1
  <2>2. n % 2 \in {0, 1} /\ n \div 2 \in Nat
    OBVIOUS
  <2>3. Decoded(v) = IF n % 2 = 0 THEN <<"int", n \div 2>> ELSE <<"float", n>>
    BY <2>1, <2>2 DEF Decoded
  <2>4. QED
    BY <2>1, <2>2, <2>3 DEF Values, Map, List, Null
<1>2. CASE v \in {"string"} \X STRING
  BY <1>2 DEF Decoded, Values, Map, List, Null
<1>3. CASE v \in {"bool"} \X BOOLEAN
  BY <1>3 DEF Decoded, Values, Map, List, Null
<1>4. QED
  BY <1>1, <1>2, <1>3 DEF LuaValues

(* What comes back of a table is a content again, with something at the    *)
(* same paths.                                                             *)
LEMMA AnswerOfTable ==
    ASSUME NEW t, IsTable(t)
    PROVE  /\ IsContent(Answer(t))
           /\ DOMAIN Answer(t) = DOMAIN t
           /\ \A p \in DOMAIN t :
                Answer(t)[p] = IF t[p] # Table THEN Decoded(t[p])
                               ELSE IF Elements(t, p) # {} THEN List ELSE Map
<1> DEFINE a == Answer(t)
<1>1. /\ << >> \in DOMAIN t /\ t[<< >>] = Table /\ Elements(t, << >>) = {}
      /\ DOMAIN t \subseteq Paths
      /\ \A p \in DOMAIN t : t[p] \in LuaValues
      /\ \A p \in DOMAIN t : \A i \in 1..Len(p) :
            /\ Upto(p, i - 1) \in DOMAIN t
            /\ t[Upto(p, i - 1)] = Table
            /\ Elements(t, Upto(p, i - 1)) # {} => p[i][1] = "element"
  BY DEF IsTable
<1>2. DOMAIN ToGoValue(t) = DOMAIN t
  BY <1>1 DEF ToGoValue
<1>3. \A p \in DOMAIN t :
        ToGoValue(t)[p] = IF t[p] # Table THEN t[p]
                          ELSE IF Elements(t, p) # {} THEN List ELSE Map
  BY <1>1 DEF ToGoValue
<1>4. Decoded(List) = List /\ Decoded(Map) = Map
  BY DEF Decoded, List, Map
<1>5. DOMAIN a = DOMAIN t
  BY <1>2 DEF Answer
<1>6. \A p \in DOMAIN t : a[p] = Decoded(ToGoValue(t)[p])
  BY <1>2 DEF Answer
<1>7. \A p \in DOMAIN t :
        a[p] = IF t[p] # Table THEN Decoded(t[p])
               ELSE IF Elements(t, p) # {} THEN List ELSE Map
  BY <1>3, <1>4, <1>6
<1>8. \A p \in DOMAIN t : a[p] \in Values
  BY <1>1, <1>7, DecodedFacts DEF Values
<1>9. a \in [DOMAIN a -> Values]
  BY <1>2, <1>5, <1>8 DEF Answer
<1>10. a[<< >>] = Map
  BY <1>1, <1>7
<1>11. ASSUME NEW p \in DOMAIN t, NEW i \in 1..Len(p)
       PROVE  <<a[Upto(p, i - 1)], p[i][1]>> \in {<<Map, "field">>, <<List, "element">>}
  <2> DEFINE u == Upto(p, i - 1)
  <2>1. u \in DOMAIN t /\ t[u] = Table /\ p \in Paths
    BY <1>1
  <2>2. p[i][1] \in {"field", "element"}
    BY <2>1, LabelFacts DEF Paths
  <2>3. CASE Elements(t, u) # {}
    BY <2>1, <2>3, <1>1, <1>7
  <2>4. CASE Elements(t, u) = {}
    <3>1. Upto(p, i) \in DOMAIN t
      <4>1. CASE i = Len(p)
        BY <4>1, <2>1, UptoEnd
      <4>2. CASE i # Len(p)
        <5>1. i + 1 \in 1..Len(p) /\ (i + 1) - 1 = i
          BY <4>2, <2>1 DEF Paths
        <5>2. QED
          BY <5>1, <1>1
      <4>3. QED
        BY <4>1, <4>2
    <3>2. p[i][1] # "element"
      BY <3>1, <2>1, <2>4, ElementsOnTheWay
    <3>3. QED
      BY <3>2, <2>1, <2>2, <2>4, <1>7
  <2>5. QED
    BY <2>3, <2>4
<1>12. IsContent(a)
  BY <1>1, <1>5, <1>9, <1>10, <1>11 DEF IsContent, Paths
<1>13. QED
  BY <1>5, <1>7, <1>12

(* What comes back of a content: something at each path mapToTable comes   *)
(* to.                                                                     *)
LEMMA ReturnedFacts ==
    ASSUME NEW d, IsContent(d)
    PROVE  /\ IsContent(Returned(d))
           /\ DOMAIN Returned(d) = Kept(d)
           /\ \A p \in Kept(d) :
                /\ d[p] = Map => Returned(d)[p] = Map
                /\ d[p] = List =>
                    Returned(d)[p] = IF Elements(MapToTable(d), p) # {} THEN List ELSE Map
                /\ d[p] \notin {Map, List} => Returned(d)[p] = Decoded(LuaValue(d[p]))
<1>1. IsTable(MapToTable(d)) /\ DOMAIN MapToTable(d) = Kept(d)
  BY TableOfContent, KeptFacts
<1>2. IsContent(Returned(d)) /\ DOMAIN Returned(d) = Kept(d)
  BY <1>1, AnswerOfTable DEF Returned
<1>3. ASSUME NEW p \in Kept(d)
      PROVE  /\ d[p] = Map => Returned(d)[p] = Map
             /\ d[p] = List =>
                 Returned(d)[p] = IF Elements(MapToTable(d), p) # {} THEN List ELSE Map
             /\ d[p] \notin {Map, List} => Returned(d)[p] = Decoded(LuaValue(d[p]))
  <2>1. /\ d[p] \in Values /\ d[p] # Null
        /\ MapToTable(d)[p] = LuaValue(d[p])
    BY KeptFacts
  <2>2. LuaValue(d[p]) = Table <=> d[p] \in {Map, List}
    BY <2>1, ValueFacts
  <2>3. d[p] = Map => Elements(MapToTable(d), p) = {}
    BY TableOfContent DEF Map, List
  <2>4. Returned(d)[p] = IF MapToTable(d)[p] # Table THEN Decoded(MapToTable(d)[p])
                         ELSE IF Elements(MapToTable(d), p) # {} THEN List ELSE Map
    BY <1>1, AnswerOfTable DEF Returned
  <2>5. QED
    BY <2>1, <2>2, <2>3, <2>4
<1>4. QED
  BY <1>2, <1>3

-----------------------------------------------------------------------------
(* There and back. *)

(* What one way through a script leaves of a content, the next ones leave  *)
(* as it is: mapToTable, toGoValue and the JSON round trip lose everything *)
(* they lose at the first time, however deep the content is.               *)
THEOREM LossIsOnce ==
    ASSUME NEW d, IsContent(d)
    PROVE  Returned(Returned(d)) = Returned(d)
<1> DEFINE r == Returned(d)
<1>1. IsContent(r) /\ DOMAIN r = Kept(d) /\ Kept(d) \subseteq Paths
  BY ReturnedFacts, KeptFacts
<1>2. ASSUME NEW p \in Kept(d)
      PROVE  /\ r[p] = Map => d[p] \in {Map, List}
             /\ r[p] = List => d[p] = List /\ Elements(MapToTable(d), p) # {}
             /\ r[p] # Null
             /\ r[p] \notin {Map, List} =>
                    /\ d[p] \in Values \ {Map, List, Null}
                    /\ r[p] = Decoded(LuaValue(d[p]))
  <2>1. d[p] \in Values /\ d[p] # Null
    BY KeptFacts
  <2>2. CASE d[p] \in {Map, List}
    BY <2>2, ReturnedFacts DEF Map, List, Null
  <2>3. CASE d[p] \notin {Map, List}
    <3>1. r[p] = Decoded(LuaValue(d[p]))
      BY <2>3, ReturnedFacts
    <3>2. r[p] \in Values \ {Map, List, Null}
      BY <3>1, <2>1, <2>3, ValueFacts
    <3>3. QED
      BY <3>1, <3>2, <2>1, <2>3
  <2>4. QED
    BY <2>2, <2>3
<1>3. ASSUME NEW p \in Kept(d), NEW i \in 1..Len(p)
      PROVE  HasCase(r[Upto(p, i - 1)], r[Upto(p, i)])
  <2> DEFINE u == Upto(p, i - 1)
             v == Upto(p, i)
  <2>1. u \in Kept(d) /\ v \in Kept(d)
    <3>1. i \in 0..Len(p) /\ i - 1 \in 0..Len(p)
      BY <1>1 DEF Paths
    <3>2. QED
      BY <3>1, KeptFacts
  <2>2. r[v] # Null
    BY <2>1, <1>2
  <2>3. CASE r[u] = List
    <3>1. Portables(d[v])
      <4>1. d[u] = List
        BY <2>1, <2>3, <1>2
      <4>2. HasCase(d[u], d[v])
        BY DEF Kept
      <4>3. QED
        BY <4>1, <4>2 DEF HasCase
    <3>2. CASE d[v] = Map
      <4>1. r[v] = Map
        BY <3>2, <2>1, ReturnedFacts
      <4>2. QED
        BY <4>1, <2>3 DEF HasCase, Portables, Map
    <3>3. CASE d[v] # Map
      <4>1. d[v] \in Values /\ d[v] \notin {Map, List, Null} /\ d[v][1] # "int"
        BY <3>1, <3>3, <2>1, KeptFacts DEF Portables, List
      <4>2. r[v] = Decoded(LuaValue(d[v]))
        BY <4>1, <2>1, ReturnedFacts
      <4>3. r[v] = d[v]
        BY <4>1, <4>2, ValueFacts
      <4>4. QED
        BY <4>3, <3>1, <2>3 DEF HasCase
    <3>4. QED
      BY <3>2, <3>3
  <2>4. QED
    BY <2>2, <2>3 DEF HasCase
<1>4. Kept(r) = Kept(d)
  BY <1>1, <1>3 DEF Kept
<1>5. \A p : Elements(MapToTable(r), p) = Elements(MapToTable(d), p)
  <2>1. DOMAIN MapToTable(r) = DOMAIN MapToTable(d)
    BY <1>1, <1>4, KeptFacts
  <2>2. QED
    BY <2>1 DEF Elements
<1>6. ASSUME NEW p \in Kept(d)
      PROVE  Returned(r)[p] = r[p]
  <2>1. CASE r[p] = Map
    BY <2>1, <1>1, <1>4, ReturnedFacts
  <2>2. CASE r[p] = List
    <3>1. Elements(MapToTable(r), p) # {}
      BY <2>2, <1>2, <1>5
    <3>2. QED
      BY <3>1, <2>2, <1>1, <1>4, ReturnedFacts
  <2>3. CASE r[p] \notin {Map, List}
    <3>1. d[p] \in Values \ {Map, List, Null} /\ r[p] = Decoded(LuaValue(d[p]))
      BY <2>3, <1>2
    <3>2. Returned(r)[p] = Decoded(LuaValue(r[p]))
      BY <2>3, <1>1, <1>4, ReturnedFacts
    <3>3. r[p] \in Values \ {Map, List, Null} /\ r[p][1] = d[p][1]
      BY <3>1, ValueFacts
    <3>4. CASE d[p][1] = "int"
      <4>1. PICK n \in Nat : d[p] = <<"int", n>>
        BY <3>1, <3>4 DEF Values, Map, List, Null
      <4>2. r[p] = <<"int", Rounded(n)>>
        BY <4>1, <3>1, <3>4, ValueFacts
      <4>3. Decoded(LuaValue(r[p])) = <<"int", Rounded(Rounded(n))>>
        BY <4>2, <3>3, <3>4, ValueFacts
      <4>4. QED
        BY <4>2, <4>3, <3>2, RoundedFacts
    <3>5. CASE d[p][1] # "int"
      BY <3>2, <3>3, <3>5, ValueFacts
    <3>6. QED
      BY <3>4, <3>5
  <2>4. QED
    BY <2>1, <2>2, <2>3
<1>7. IsContent(Returned(r)) /\ DOMAIN Returned(r) = DOMAIN r
  BY <1>1, <1>4, ReturnedFacts
<1>8. QED
  BY <1>1, <1>6, <1>7 DEF IsContent

(* A content without nulls, without integers above Exact and with lists    *)
(* that are not empty and hold no integer, null or list comes back from a  *)
(* script as it was, however deep it is.                                   *)
THEOREM PortableComesBack ==
    ASSUME NEW d, IsContent(d), Portable(d)
    PROVE  Returned(d) = d
<1>1. DOMAIN d \subseteq Paths /\ d \in [DOMAIN d -> Values]
  BY DEF IsContent, Paths
<1>2. ASSUME NEW p \in DOMAIN d, NEW i \in 0..Len(p)
      PROVE  Upto(p, i) \in DOMAIN d
  <2>1. p \in Paths /\ Len(p) \in Nat
    BY <1>1 DEF Paths
  <2>2. CASE i = Len(p)
    BY <2>1, <2>2, UptoEnd
  <2>3. CASE i # Len(p)
    <3>1. i + 1 \in 1..Len(p) /\ (i + 1) - 1 = i
      BY <2>1, <2>3
    <3>2. QED
      BY <3>1 DEF IsContent
  <2>4. QED
    BY <2>2, <2>3
<1>3. ASSUME NEW p \in DOMAIN d, NEW i \in 1..Len(p)
      PROVE  HasCase(d[Upto(p, i - 1)], d[Upto(p, i)])
  <2> DEFINE u == Upto(p, i - 1)
             v == Upto(p, i)
  <2>1. u \in DOMAIN d /\ v \in DOMAIN d /\ p \in Paths
    <3>1. i \in 0..Len(p) /\ i - 1 \in 0..Len(p)
      BY <1>1 DEF Paths
    <3>2. QED
      BY <3>1, <1>1, <1>2
  <2>2. d[v] \in Values /\ d[v] # Null
    BY <2>1, <1>1 DEF Portable
  <2>3. CASE d[u] = List
    <3>1. p[i][1] = "element"
      BY <2>3 DEF IsContent, Map, List
    <3>2. v \in Elements(d, u)
      BY <2>1, <3>1, ElementsOnTheWay
    <3>3. d[v][1] \notin {"int", "null", "list"}
      BY <2>1, <3>2 DEF Portable
    <3>4. Portables(d[v])
      BY <2>2, <3>3 DEF Values, Portables, Map, List, Null
    <3>5. QED
      BY <2>3, <3>4 DEF HasCase
  <2>4. QED
    BY <2>2, <2>3 DEF HasCase
<1>4. Kept(d) = DOMAIN d
  BY <1>3 DEF Kept
<1>5. ASSUME NEW p \in DOMAIN d
      PROVE  Returned(d)[p] = d[p]
  <2>1. d[p] \in Values /\ d[p] # Null
    BY <1>1 DEF Portable
  <2>2. CASE d[p] = Map
    BY <2>2, <1>4, ReturnedFacts
  <2>3. CASE d[p] = List
    <3>1. Elements(MapToTable(d), p) = Elements(d, p)
      BY <1>4, KeptFacts DEF Elements
    <3>2. Elements(d, p) # {}
      BY <2>3 DEF Portable
    <3>3. QED
      BY <2>3, <3>1, <3>2, <1>4, ReturnedFacts
  <2>4. CASE d[p] \notin {Map, List}
    <3>1. Returned(d)[p] = Decoded(LuaValue(d[p]))
      BY <2>4, <1>4, ReturnedFacts
    <3>2. CASE d[p][1] = "int"
      <4>1. PICK n \in Nat : d[p] = <<"int", n>>
        BY <2>1, <2>4, <3>2 DEF Values, Map, List, Null
      <4>2. n <= Exact
        BY <4>1, <3>2 DEF Portable
      <4>3. Decoded(LuaValue(d[p])) = <<"int", Rounded(n)>>
        BY <4>1, <2>1, <2>4, <3>2, ValueFacts
      <4>4. QED
        BY <4>1, <4>2, <4>3, <3>1, RoundedFacts
    <3>3. CASE d[p][1] # "int"
      BY <3>1, <3>3, <2>1, <2>4, ValueFacts
    <3>4. QED
      BY <3>2, <3>3
  <2>5. QED
    BY <2>2, <2>3, <2>4
<1>6. IsContent(Returned(d)) /\ DOMAIN Returned(d) = DOMAIN d
  BY <1>4, ReturnedFacts
<1>7. QED
  BY <1>1, <1>5, <1>6 DEF IsContent

-----------------------------------------------------------------------------
(* The scripts, and what the worker makes of their answers. *)

(* A table from which something is taken away is a table.                  *)
LEMMA WithoutFacts ==
    ASSUME NEW t, IsTable(t), NEW q, Len(q) \in Nat, Len(q) > 0
    PROVE  /\ IsTable(Without(t, q))
           /\ \A p \in DOMAIN Without(t, q) : p \in DOMAIN t /\ Without(t, q)[p] = t[p]
           /\ \A p \in DOMAIN t :
                Len(p) < Len(q) \/ Upto(p, Len(q)) # q => p \in DOMAIN Without(t, q)
<1> DEFINE w == Without(t, q)
<1>1. /\ DOMAIN w = {p \in DOMAIN t : Len(p) < Len(q) \/ Upto(p, Len(q)) # q}
      /\ \A p \in DOMAIN w : w[p] = t[p]
  BY DEF Without
<1>2. /\ << >> \in DOMAIN t /\ t[<< >>] = Table /\ Elements(t, << >>) = {}
      /\ DOMAIN t \subseteq Paths
      /\ \A p \in DOMAIN t : t[p] \in LuaValues
      /\ \A p \in DOMAIN t : \A i \in 1..Len(p) :
            /\ Upto(p, i - 1) \in DOMAIN t
            /\ t[Upto(p, i - 1)] = Table
            /\ Elements(t, Upto(p, i - 1)) # {} => p[i][1] = "element"
  BY DEF IsTable
<1>3. w \in [DOMAIN w -> LuaValues]
  BY <1>1, <1>2 DEF Without
<1>4. << >> \in DOMAIN w /\ w[<< >>] = Table
  BY <1>1, <1>2
<1>5. \A p : Elements(w, p) \subseteq Elements(t, p)
  BY <1>1 DEF Elements
<1>6. ASSUME NEW p \in DOMAIN w, NEW i \in 1..Len(p)
      PROVE  /\ Upto(p, i - 1) \in DOMAIN w
             /\ w[Upto(p, i - 1)] = Table
             /\ Elements(w, Upto(p, i - 1)) # {} => p[i][1] = "element"
  <2> DEFINE u == Upto(p, i - 1)
  <2>1. p \in DOMAIN t /\ p \in Paths /\ Len(p) \in Nat /\ u \in DOMAIN t
    BY <1>1, <1>2 DEF Paths
  <2>2. Len(u) = i - 1 /\ \A j \in 0..i-1 : Upto(u, j) = Upto(p, j)
    <3>1. i - 1 \in 0..Len(p)
      BY <2>1
    <3>2. QED
      BY <3>1, <2>1, UptoFacts
  <2>3. Len(u) < Len(q) \/ Upto(u, Len(q)) # q
    <3>1. ASSUME Len(u) >= Len(q), Upto(u, Len(q)) = q
          PROVE  FALSE
      <4>1. Len(q) \in 0..i-1 /\ Len(p) >= Len(q)
        BY <3>1, <2>1, <2>2
      <4>2. Upto(p, Len(q)) = q
        BY <4>1, <3>1, <2>2
      <4>3. QED
        BY <4>1, <4>2, <2>1, <1>1
    <3>2. QED
      BY <3>1, <2>2, <2>1
  <2>4. u \in DOMAIN w
    BY <2>1, <2>3, <1>1
  <2>5. QED
    BY <2>1, <2>4, <1>1, <1>2, <1>5
<1>7. QED
  BY <1>1, <1>2, <1>3, <1>4, <1>5, <1>6 DEF IsTable

(* What is two steps away is not where the kind is.                        *)
LEMMA KindIsKept ==
    ASSUME NEW t, IsTable(t), Kind \in DOMAIN t, NEW q, Len(q) = 2
    PROVE  /\ IsTable(Without(t, q))
           /\ Kind \in DOMAIN Without(t, q)
           /\ Without(t, q)[Kind] = t[Kind]
<1>1. Len(q) \in Nat /\ Len(q) > 0 /\ Len(Kind) < Len(q)
  BY LabelFacts
<1>2. IsTable(Without(t, q))
  BY <1>1, WithoutFacts
<1>3. Kind \in DOMAIN Without(t, q)
  BY <1>1 DEF Without
<1>4. QED
  BY <1>2, <1>3 DEF Without

(* A table that has elements has a first one.                              *)
LEMMA FirstFacts ==
    ASSUME NEW t, IsTable(t), NEW p, Len(p) \in Nat, Elements(t, p) # {}
    PROVE  First(t, p) \in Elements(t, p)
<1> DEFINE at(q) == q[Len(q)][2]
           N == {at(q) : q \in Elements(t, p)}
<1>1. ASSUME NEW q \in Elements(t, p)
      PROVE  at(q) \in Nat
  <2>1. q \in Paths /\ q[Len(q)][1] = "element"
    BY DEF Elements, IsTable
  <2>2. Len(q) = Len(p) + 1
    BY DEF Elements
  <2>3. q[Len(q)] \in Labels
    BY <2>1, <2>2 DEF Paths
  <2>4. QED
    BY <2>1, <2>3 DEF Labels
<1>2. N \subseteq Nat /\ N # {}
  BY <1>1
<1>3. PICK n \in N : \A m \in N : ~(<<m, n>> \in OpToRel(<, Nat))
  BY <1>2, WFMin, NatLessThanWellFounded
<1>4. \A m \in N : n <= m
  <2> TAKE m \in N
  <2>1. m \in Nat /\ n \in Nat
    BY <1>2
  <2>2. ~(m < n)
    BY <2>1, <1>3 DEF OpToRel
  <2>3. QED
    BY <2>1, <2>2
<1>5. PICK q \in Elements(t, p) : n = at(q)
  OBVIOUS
<1>6. \A r \in Elements(t, p) : at(q) <= at(r)
  BY <1>4, <1>5
<1>7. QED
  BY <1>6 DEF First

(* A content with a kind, in a script and when it comes back.              *)
LEMMA KindFacts ==
    /\ \A d : IsContent(d) /\ IsResource(d) =>
        Kind \in DOMAIN MapToTable(d) /\ MapToTable(d)[Kind][1] = "string"
    /\ \A t : IsTable(t) /\ Kind \in DOMAIN t /\ t[Kind][1] = "string" =>
        IsResource(Answer(t))
    /\ \A t : IsTable(t) /\ Kind \notin DOMAIN t => ~IsResource(Answer(t))
<1>1. ASSUME NEW d, IsContent(d), IsResource(d)
      PROVE  Kind \in DOMAIN MapToTable(d) /\ MapToTable(d)[Kind][1] = "string"
  <2>1. Kind \in DOMAIN d /\ d[Kind][1] = "string" /\ d[<< >>] = Map
    BY <1>1 DEF IsContent, IsResource
  <2>2. Kind \in Paths /\ Len(Kind) = 1
    BY <1>1, <2>1, LabelFacts DEF IsContent, Paths
  <2>3. Upto(Kind, 0) = << >> /\ Upto(Kind, 1) = Kind
    BY <2>2, UptoEnd
  <2>4. HasCase(d[<< >>], d[Kind])
    BY <2>1 DEF HasCase, Null, Map, List
  <2>5. \A i \in 1..Len(Kind) : i = 1 /\ i - 1 = 0
    BY <2>2
  <2>6. Kind \in Kept(d)
    BY <2>1, <2>3, <2>4, <2>5 DEF Kept
  <2>7. MapToTable(d)[Kind] = LuaValue(d[Kind])
    BY <1>1, <2>6, KeptFacts
  <2>8. LuaValue(d[Kind]) = d[Kind]
    BY <2>1 DEF LuaValue
  <2>9. QED
    BY <1>1, <2>1, <2>6, <2>7, <2>8, KeptFacts
<1>2. ASSUME NEW t, IsTable(t), Kind \in DOMAIN t, t[Kind][1] = "string"
      PROVE  IsResource(Answer(t))
  <2>1. t[Kind] \in LuaValues /\ t[Kind] # Table
    BY <1>2 DEF IsTable, Table
  <2>2. Answer(t)[Kind] = t[Kind]
    BY <1>2, <2>1, AnswerOfTable, DecodedFacts
  <2>3. QED
    BY <1>2, <2>2, AnswerOfTable DEF IsResource
<1>3. ASSUME NEW t, IsTable(t), Kind \notin DOMAIN t
      PROVE  ~IsResource(Answer(t))
  BY <1>3, AnswerOfTable DEF IsResource
<1>4. QED
  BY <1>1, <1>2, <1>3

(* What comes back of a resource is a resource.                            *)
LEMMA ReturnedResource ==
    ASSUME NEW d, IsContent(d), IsResource(d)
    PROVE  /\ IsContent(Returned(d)) /\ IsResource(Returned(d))
           /\ ResourceOf(<<"resource", MapToTable(d)>>) = <<"resource", Returned(d)>>
<1>1. IsContent(Returned(d))
  BY ReturnedFacts
<1>2. IsResource(Returned(d))
  BY KindFacts, TableOfContent DEF Returned
<1>3. <<"resource", MapToTable(d)>> # Unset
  BY DEF Unset
<1>4. QED
  BY <1>1, <1>2, <1>3 DEF ResourceOf, Returned

(* isMatch, for each script.                                               *)
LEMMA IsMatchFacts ==
    ASSUME NEW d, scripts \in Scripts
    PROVE  /\ scripts.evaluate \in {"", "always"} => IsMatch(d) = <<"match", TRUE>>
           /\ scripts.evaluate = "silent" => IsMatch(d) = <<"match", FALSE>>
           /\ scripts.evaluate \in {"status", "array"} => IsMatch(d) = Error
           /\ scripts.evaluate = "unused" =>
                \/ IsMatch(d) = Error
                \/ /\ IsMatch(d) = <<"match", Elements(MapToTable(d), SpecOf) = {}>>
                   /\ SpecOf \in DOMAIN MapToTable(d)
<1> DEFINE none == Elements(MapToTable(d), SpecOf) = {}
<1>1. scripts.evaluate \in EvaluateScripts
  BY DEF Scripts
<1>2. <<"matching", TRUE>> \notin {Raises, NoTable, Array, Unset}
  BY DEF Raises, NoTable, Array, Unset
<1>3. CASE scripts.evaluate \in {"", "always"}
  BY <1>2, <1>3 DEF IsMatch, RunEvaluate
<1>4. CASE scripts.evaluate = "silent"
  BY <1>4 DEF IsMatch, RunEvaluate, Raises, NoTable, Array, Unset
<1>5. CASE scripts.evaluate \in {"status", "array"}
  BY <1>5 DEF IsMatch, RunEvaluate, Raises, NoTable, Array, Unset
<1>6. CASE scripts.evaluate = "unused"
  <2>1. CASE SpecOf \in DOMAIN MapToTable(d) /\ MapToTable(d)[SpecOf] = Table
    <3>1. RunEvaluate("unused", MapToTable(d)) = <<"matching", none>>
      BY <2>1 DEF RunEvaluate
    <3>2. <<"matching", none>> \notin {Raises, NoTable, Array, Unset}
      BY DEF Raises, NoTable, Array, Unset
    <3>3. IsMatch(d) = <<"match", none>>
      BY <1>6, <3>1, <3>2 DEF IsMatch
    <3>4. QED
      BY <1>6, <2>1, <3>3
  <2>2. CASE ~(SpecOf \in DOMAIN MapToTable(d) /\ MapToTable(d)[SpecOf] = Table)
    <3>1. RunEvaluate(scripts.evaluate, MapToTable(d)) = Raises
      BY <1>6, <2>2 DEF RunEvaluate
    <3>2. Raises # Unset /\ Raises[1] # "matching"
      BY DEF Raises, Unset
    <3>3. IsMatch(d) = Error
      BY <1>6, <3>1, <3>2 DEF IsMatch
    <3>4. QED
      BY <1>6, <3>3
  <2>3. QED
    BY <2>1, <2>2
<1>7. QED
  BY <1>1, <1>3, <1>4, <1>5, <1>6 DEF EvaluateScripts

(* aggregatedSelection, for each script, of no resource and of one.        *)
LEMMA AggregatedFacts ==
    ASSUME scripts \in Scripts
    PROVE  /\ AggregatedSelection(<< >>) = IF scripts.aggregate \in {"", "guarded"}
                                           THEN <<"resources", << >>>> ELSE Error
           /\ \A d : IsContent(d) /\ IsResource(d) =>
                AggregatedSelection(<<d>>) =
                    CASE scripts.aggregate = "" -> <<"resources", <<d>>>>
                      [] scripts.aggregate \in {"guarded", "unguarded"} ->
                            <<"resources", <<Returned(d)>>>>
                      [] scripts.aggregate = "blank" -> Panic
<1>1. scripts.aggregate \in {"", "guarded", "unguarded", "blank"}
  BY DEF Scripts, AggregateScripts
<1>2. CASE scripts.aggregate = ""
  BY <1>2 DEF AggregatedSelection
<1>3. CASE scripts.aggregate # ""
  <2>1. ASSUME NEW rs
        PROVE  LET objs == [i \in DOMAIN rs |-> MapToTable(rs[i])]
                   answer == RunAggregate(scripts.aggregate, objs)
                   found == [i \in DOMAIN answer[2] |-> ResourceOf(answer[2][i])]
               IN  AggregatedSelection(rs) =
                    CASE answer = Unset -> <<"resources", << >>>>
                      [] answer # Unset ->
                            IF found = << >> \/ \E i \in DOMAIN found : found[i] = Error
                            THEN Error
                            ELSE IF \E i \in DOMAIN found : found[i] = Nil
                                 THEN Panic
                                 ELSE <<"resources", [i \in DOMAIN found |-> found[i][2]]>>
    BY <1>3 DEF AggregatedSelection
  <2>2. AggregatedSelection(<< >>) = IF scripts.aggregate = "guarded"
                                     THEN <<"resources", << >>>> ELSE Error
    <3> DEFINE objs == [i \in DOMAIN << >> |-> MapToTable(<< >>[i])]
               answer == RunAggregate(scripts.aggregate, objs)
               found == [i \in DOMAIN answer[2] |-> ResourceOf(answer[2][i])]
    <3>1. objs = << >>
      OBVIOUS
    <3>2. CASE scripts.aggregate = "guarded"
      <4>1. answer = Unset
        BY <3>1, <3>2 DEF RunAggregate
      <4>2. QED
        BY <2>1, <3>2, <4>1
    <3>3. CASE scripts.aggregate # "guarded"
      <4>1. answer[1] = "resources" /\ answer[2] = << >>
        BY <3>1, <3>3 DEF RunAggregate
      <4>2. answer # Unset
        BY <4>1 DEF Unset
      <4>3. found = << >>
        BY <4>1
      <4>4. AggregatedSelection(<< >>) =
                CASE answer = Unset -> <<"resources", << >>>>
                  [] answer # Unset ->
                        IF found = << >> \/ \E i \in DOMAIN found : found[i] = Error
                        THEN Error
                        ELSE IF \E i \in DOMAIN found : found[i] = Nil
                             THEN Panic
                             ELSE <<"resources", [i \in DOMAIN found |-> found[i][2]]>>
        BY <2>1
      <4> HIDE DEF answer, found
      <4>5. AggregatedSelection(<< >>) = Error
        BY <4>2, <4>3, <4>4
      <4>6. QED
        BY <3>3, <4>5
    <3>4. QED
      BY <3>2, <3>3
  <2>3. ASSUME NEW d, IsContent(d), IsResource(d)
        PROVE  AggregatedSelection(<<d>>) = IF scripts.aggregate = "blank" THEN Panic
                                            ELSE <<"resources", <<Returned(d)>>>>
    <3> DEFINE objs == [i \in DOMAIN <<d>> |-> MapToTable(<<d>>[i])]
               answer == RunAggregate(scripts.aggregate, objs)
               found == [i \in DOMAIN answer[2] |-> ResourceOf(answer[2][i])]
               entry == IF scripts.aggregate = "blank" THEN Unset
                        ELSE <<"resource", MapToTable(d)>>
    <3>1. objs = <<MapToTable(d)>> /\ objs # << >>
      OBVIOUS
    <3>2. answer[1] = "resources" /\ DOMAIN answer[2] = {1} /\ answer[2][1] = entry
      <4> HIDE DEF objs
      <4>1. DOMAIN objs = {1} /\ objs[1] = MapToTable(d)
        BY <3>1
      <4>2. QED
        BY <3>1, <4>1 DEF RunAggregate
    <3>3. answer # Unset
      BY <3>2 DEF Unset
    <3>4. DOMAIN found = {1} /\ found[1] = ResourceOf(entry)
      BY <3>2
    <3>5. found # << >>
      BY <3>4
    <3>6. CASE scripts.aggregate = "blank"
      <4>1. found[1] = Nil /\ Nil # Error
        BY <3>4, <3>6 DEF ResourceOf, Nil, Error
      <4>2. QED
        BY <2>1, <3>3, <3>4, <3>5, <3>6, <4>1
    <3>7. CASE scripts.aggregate # "blank"
      <4>1. found[1] = <<"resource", Returned(d)>>
        BY <3>4, <3>7, <2>3, ReturnedResource
      <4>2. found[1] # Nil /\ found[1] # Error
        <5> HIDE DEF found
        <5>1. found[1][1] = "resource"
          BY <4>1
        <5>2. QED
          BY <5>1 DEF Nil, Error
      <4>3. [i \in DOMAIN found |-> found[i][2]] = <<Returned(d)>>
        <5>1. DOMAIN <<Returned(d)>> = {1}
          OBVIOUS
        <5> HIDE DEF found
        <5>2. [i \in DOMAIN found |-> found[i][2]] = [i \in {1} |-> Returned(d)]
          BY <3>4, <4>1
        <5>3. QED
          BY <5>1, <5>2
      <4>4. QED
        BY <2>1, <3>3, <3>4, <3>5, <3>7, <4>2, <4>3
    <3>8. QED
      BY <3>6, <3>7
  <2>4. QED
    BY <1>1, <1>3, <2>2, <2>3
<1>4. QED
  BY <1>2, <1>3

(* transform, for each script.                                             *)
LEMMA TransformFacts ==
    ASSUME scripts \in Scripts, NEW d, IsContent(d), IsResource(d)
    PROVE  /\ scripts.transform = "" => Transform(d) = <<"resource", d>>
           /\ scripts.transform = "same" => Transform(d) = <<"resource", Returned(d)>>
           /\ scripts.transform = "trim" =>
                \E e : /\ Transform(d) = <<"resource", e>>
                       /\ IsContent(e) /\ IsResource(e)
           /\ scripts.transform = "blank" => Transform(d) = Nil
           /\ scripts.transform \in {"unkind", "status"} => Transform(d) = Error
<1> DEFINE t == MapToTable(d)
<1>1. IsTable(t) /\ Kind \in DOMAIN t /\ t[Kind][1] = "string" /\ DOMAIN t \subseteq Paths
  BY TableOfContent, KindFacts DEF IsTable
<1>2. ASSUME NEW e
      PROVE  <<"resource", e>> # NoTable /\ <<"resource", e>> # Unset
  BY DEF NoTable, Unset
<1>3. CASE scripts.transform = ""
  BY <1>3 DEF Transform
<1>4. CASE scripts.transform = "same"
  <2>1. RunTransform(scripts.transform, t) = <<"resource", t>>
    BY <1>4 DEF RunTransform
  <2>2. QED
    BY <1>4, <2>1, <1>2, ReturnedResource DEF Transform
<1>5. CASE scripts.transform = "trim"
  <2> DEFINE left == IF Elements(t, SpecOf) # {} THEN Without(t, First(t, SpecOf)) ELSE t
  <2>1. RunTransform(scripts.transform, t) = <<"resource", left>>
    BY <1>5 DEF RunTransform
  <2>2. IsTable(left) /\ Kind \in DOMAIN left /\ left[Kind][1] = "string"
    <3>1. CASE Elements(t, SpecOf) # {}
      <4> DEFINE q == First(t, SpecOf)
      <4>1. q \in Elements(t, SpecOf)
        BY <1>1, <3>1, LabelFacts, FirstFacts
      <4>2. Len(q) = 2
        BY <4>1, LabelFacts DEF Elements
      <4> HIDE DEF q, t
      <4>3. IsTable(Without(t, q)) /\ Kind \in DOMAIN Without(t, q)
            /\ Without(t, q)[Kind] = t[Kind]
        BY <1>1, <4>2, KindIsKept
      <4>4. QED
        BY <3>1, <4>3, <1>1 DEF q
    <3>2. CASE Elements(t, SpecOf) = {}
      BY <3>2, <1>1
    <3>3. QED
      BY <3>1, <3>2
  <2> HIDE DEF left
  <2>3. IsContent(Answer(left)) /\ IsResource(Answer(left))
    BY <2>2, AnswerOfTable, KindFacts
  <2>4. ResourceOf(<<"resource", left>>) = <<"resource", Answer(left)>>
    BY <2>3, <1>2 DEF ResourceOf
  <2>5. Transform(d) = <<"resource", Answer(left)>>
    BY <1>5, <2>1, <2>4, <1>2 DEF Transform
  <2>6. QED
    BY <1>5, <2>3, <2>5
<1>6. CASE scripts.transform = "unkind"
  <2> DEFINE left == Without(t, Kind)
  <2>1. RunTransform(scripts.transform, t) = <<"resource", left>>
    BY <1>6 DEF RunTransform
  <2>2. IsTable(left)
    BY <1>1, LabelFacts, WithoutFacts
  <2>3. Kind \notin DOMAIN left
    <3>1. Upto(Kind, Len(Kind)) = Kind
      BY <1>1, UptoEnd
    <3>2. QED
      BY <3>1, LabelFacts DEF Without
  <2> HIDE DEF left
  <2>4. ResourceOf(<<"resource", left>>) = Error
    BY <2>2, <2>3, <1>2, KindFacts DEF ResourceOf
  <2>5. QED
    BY <1>6, <2>1, <2>4, <1>2 DEF Transform
<1>7. CASE scripts.transform = "blank"
  BY <1>7 DEF Transform, RunTransform, ResourceOf, Unset, NoTable
<1>8. CASE scripts.transform = "status"
  BY <1>8 DEF Transform, RunTransform
<1>9. QED
  BY <1>3, <1>4, <1>5, <1>6, <1>7, <1>8

-----------------------------------------------------------------------------
(* The steps of a run. *)

(* getMatchingResources: only a script that does not answer as asked ends  *)
(* in an error, and one that asks for an empty list has seen one.          *)
LEMMA EvaluateStep ==
    ASSUME TypeOK, Evaluate
    PROVE  /\ stage = "listed" /\ UNCHANGED <<server, scripts, settled, edits>>
           /\ \/ stage' = "error" /\ held' = << >>
                 /\ scripts.evaluate \in {"unused", "status", "array"}
              \/ stage' = "matched" /\ held' = << >>
              \/ /\ stage' = "matched" /\ held' = held
                 /\ scripts.evaluate = "unused" =>
                        /\ Elements(MapToTable(held[1]), SpecOf) = {}
                        /\ SpecOf \in DOMAIN MapToTable(held[1])
<1> DEFINE none == Elements(MapToTable(held[1]), SpecOf) = {}
<1>1. scripts \in Scripts /\ scripts.evaluate \in EvaluateScripts
  BY DEF TypeOK, Scripts
<1>2. /\ stage = "listed" /\ UNCHANGED <<server, scripts, settled, edits>>
      /\ \/ IsMatch(held[1]) = Error /\ stage' = "error" /\ held' = << >>
         \/ /\ IsMatch(held[1]) # Error /\ stage' = "matched"
            /\ held' = IF IsMatch(held[1])[2] THEN held ELSE << >>
  BY DEF Evaluate
<1>3. /\ <<"match", TRUE>> # Error /\ <<"match", FALSE>> # Error
      /\ <<"match", none>> # Error
  BY DEF Error
<1>4. CASE scripts.evaluate \in {"", "always", "silent"}
  BY <1>1, <1>2, <1>3, <1>4, IsMatchFacts
<1>5. CASE scripts.evaluate \in {"status", "array"}
  BY <1>1, <1>2, <1>5, IsMatchFacts
<1>6. CASE scripts.evaluate = "unused"
  <2>1. CASE IsMatch(held[1]) = Error
    BY <1>2, <1>6, <2>1
  <2>2. CASE IsMatch(held[1]) # Error
    <3>1. IsMatch(held[1]) = <<"match", none>> /\ SpecOf \in DOMAIN MapToTable(held[1])
      BY <1>1, <1>6, <2>2, IsMatchFacts
    <3>2. CASE none
      <4>1. held' \in {<< >>, held}
        BY <1>2, <2>2
      <4>2. QED
        BY <1>2, <2>2, <3>1, <3>2, <4>1
    <3>3. CASE ~none
      <4>1. none = FALSE
        BY <3>3
      <4> HIDE DEF none
      <4>2. ~IsMatch(held[1])[2]
        BY <3>1, <4>1
      <4>3. QED
        BY <1>2, <2>2, <4>2
    <3>4. QED
      BY <3>2, <3>3
  <2>3. QED
    BY <2>1, <2>2
<1>7. QED
  BY <1>1, <1>4, <1>5, <1>6 DEF EvaluateScripts

(* aggregatedSelection: what it goes on with is what it was given, or what *)
(* comes back of it.                                                       *)
LEMMA AggregateStep ==
    ASSUME TypeOK, Aggregate
    PROVE  /\ stage = "matched" /\ UNCHANGED <<server, scripts, settled, edits>>
           /\ \/ /\ stage' \in {"error", "panic"} /\ held' = << >>
                 /\ scripts.aggregate \notin {"", "guarded"}
              \/ stage' = "selected" /\ held = << >> /\ held' = << >>
              \/ /\ stage' = "selected" /\ held # << >>
                 /\ held' = <<IF scripts.aggregate = "" THEN held[1] ELSE Returned(held[1])>>
<1> DEFINE found == AggregatedSelection(held)
<1>1. scripts \in Scripts /\ scripts.aggregate \in {"", "guarded", "unguarded", "blank"}
  BY DEF TypeOK, Scripts, AggregateScripts
<1>2. /\ stage = "matched" /\ UNCHANGED <<server, scripts, settled, edits>>
      /\ \/ found = Error /\ stage' = "error" /\ held' = << >>
         \/ found = Panic /\ stage' = "panic" /\ held' = << >>
         \/ found \notin {Error, Panic} /\ stage' = "selected" /\ held' = found[2]
  BY DEF Aggregate
<1>3. ASSUME NEW x
      PROVE  <<"resources", x>> # Error /\ <<"resources", x>> # Panic
  BY DEF Error, Panic
<1>4. CASE held = << >>
  <2>1. found = IF scripts.aggregate \in {"", "guarded"} THEN <<"resources", << >>>> ELSE Error
    BY <1>1, <1>4, AggregatedFacts
  <2> HIDE DEF found
  <2>2. CASE scripts.aggregate \in {"", "guarded"}
    BY <1>2, <1>3, <1>4, <2>1, <2>2
  <2>3. CASE scripts.aggregate \notin {"", "guarded"}
    BY <1>2, <1>4, <2>1, <2>3 DEF Error, Panic
  <2>4. QED
    BY <2>2, <2>3
<1>5. CASE held # << >>
  <2>1. held = <<held[1]>> /\ IsContent(held[1]) /\ IsResource(held[1])
    BY <1>5 DEF TypeOK
  <2>2. found = CASE scripts.aggregate = "" -> <<"resources", <<held[1]>>>>
                  [] scripts.aggregate \in {"guarded", "unguarded"} ->
                        <<"resources", <<Returned(held[1])>>>>
                  [] scripts.aggregate = "blank" -> Panic
    BY <1>1, <2>1, AggregatedFacts
  <2> HIDE DEF found
  <2>3. CASE scripts.aggregate = ""
    BY <1>2, <1>3, <1>5, <2>2, <2>3
  <2>4. CASE scripts.aggregate \in {"guarded", "unguarded"}
    BY <1>2, <1>3, <1>5, <2>2, <2>4
  <2>5. CASE scripts.aggregate = "blank"
    BY <1>2, <2>2, <2>5 DEF Error, Panic
  <2>6. QED
    BY <1>1, <2>3, <2>4, <2>5
<1>6. QED
  BY <1>4, <1>5

(* updateMatchingResources: the only step of a run that changes the server.*)
LEMMA UpdateStep ==
    ASSUME TypeOK, Update
    PROVE  /\ stage = "selected" /\ held # << >> /\ held' = << >>
           /\ UNCHANGED <<scripts, edits>>
           /\ \/ /\ stage' \in {"error", "panic"} /\ UNCHANGED <<server, settled>>
                 /\ scripts.transform \notin {"", "same", "trim"}
              \/ stage' = "refused" /\ UNCHANGED <<server, settled>>
              \/ /\ stage' = "idle" /\ settled' = TRUE
                 /\ IsContent(server') /\ IsResource(server')
                 /\ scripts.transform = "" => server' = held[1]
                 /\ scripts.transform = "same" => server' = Returned(held[1])
<1> DEFINE new == Transform(held[1])
<1>1. /\ scripts \in Scripts
      /\ scripts.transform \in {"", "same", "trim", "blank", "unkind", "status"}
  BY DEF TypeOK, Scripts, TransformScripts
<1>2. /\ stage = "selected" /\ held # << >> /\ held' = << >>
      /\ UNCHANGED <<scripts, edits>>
      /\ \/ new = Error /\ stage' = "error" /\ UNCHANGED <<server, settled>>
         \/ new = Nil /\ stage' = "panic" /\ UNCHANGED <<server, settled>>
         \/ /\ new \notin {Error, Nil}
            /\ \/ stage' = "idle" /\ server' = new[2] /\ settled' = TRUE
               \/ stage' = "refused" /\ UNCHANGED <<server, settled>>
  BY DEF Update
<1>3. IsContent(held[1]) /\ IsResource(held[1])
  BY <1>2 DEF TypeOK
<1>4. ASSUME NEW x
      PROVE  <<"resource", x>> # Error /\ <<"resource", x>> # Nil
  BY DEF Error, Nil
<1> HIDE DEF new
<1>5. CASE scripts.transform = ""
  <2>1. new = <<"resource", held[1]>>
    BY <1>1, <1>3, <1>5, TransformFacts DEF new
  <2>2. QED
    BY <1>2, <1>3, <1>4, <1>5, <2>1
<1>6. CASE scripts.transform = "same"
  <2>1. new = <<"resource", Returned(held[1])>>
    BY <1>1, <1>3, <1>6, TransformFacts DEF new
  <2>2. IsContent(Returned(held[1])) /\ IsResource(Returned(held[1]))
    BY <1>3, ReturnedResource
  <2>3. QED
    BY <1>2, <1>4, <1>6, <2>1, <2>2
<1>7. CASE scripts.transform = "trim"
  <2>1. PICK e : new = <<"resource", e>> /\ IsContent(e) /\ IsResource(e)
    BY <1>1, <1>3, <1>7, TransformFacts DEF new
  <2>2. QED
    BY <1>2, <1>4, <1>7, <2>1
<1>8. CASE scripts.transform = "blank"
  <2>1. new = Nil
    BY <1>1, <1>3, <1>8, TransformFacts DEF new
  <2>2. QED
    BY <1>2, <1>8, <2>1 DEF Nil, Error
<1>9. CASE scripts.transform \in {"unkind", "status"}
  <2>1. new = Error
    BY <1>1, <1>3, <1>9, TransformFacts DEF new
  <2>2. QED
    BY <1>2, <1>9, <2>1 DEF Nil, Error
<1>10. QED
  BY <1>1, <1>5, <1>6, <1>7, <1>8, <1>9

(* A run holds well-formed resources only, with a kind, and so does the    *)
(* API server, whatever the scripts answer and however often they run:     *)
(* what isMatch, aggregatedSelection and transform go on with is never a   *)
(* table that is half a list, or an error taken for a resource.            *)
THEOREM TypeCorrect == Spec => []TypeOK
<1>1. ASSUME Init PROVE TypeOK
  <2>1. IsContent(server) /\ IsResource(server)
    BY <1>1, ContentsAssumption DEF Init
  <2>2. edits \in 0..MaxEdits
    BY <1>1, EditsAssumption DEF Init
  <2>3. scripts \in Scripts /\ stage \in Stages /\ held = << >> /\ settled \in BOOLEAN
    BY <1>1 DEF Init, Stages
  <2>4. QED
    BY <2>1, <2>2, <2>3 DEF TypeOK
<1>2. TypeOK /\ [Next]_vars => TypeOK'
  <2> SUFFICES ASSUME TypeOK, [Next]_vars
               PROVE  TypeOK'
    OBVIOUS
  <2>1. CASE Edit
    <3>1. IsContent(server') /\ IsResource(server')
      BY <2>1, ContentsAssumption DEF Edit
    <3>2. edits' \in 0..MaxEdits
      <4>1. edits \in 0..MaxEdits /\ edits < MaxEdits /\ edits' = edits + 1
        BY <2>1 DEF Edit, TypeOK
      <4>2. QED
        BY <4>1, EditsAssumption
    <3>3. UNCHANGED <<scripts, stage, held>> /\ settled' \in BOOLEAN
      BY <2>1 DEF Edit
    <3>4. QED
      BY <3>1, <3>2, <3>3 DEF TypeOK
  <2>2. CASE Fetch
    <3>1. held' = <<server>> /\ held'[1] = server
      BY <2>2 DEF Fetch
    <3>2. QED
      BY <2>2, <3>1 DEF Fetch, TypeOK, Stages
  <2>3. CASE Evaluate
    <3>1. /\ stage' \in Stages /\ UNCHANGED <<server, scripts, settled, edits>>
          /\ held' \in {<< >>, held}
      BY <2>3, EvaluateStep DEF Stages
    <3>2. QED
      BY <3>1 DEF TypeOK
  <2>4. CASE Aggregate
    <3>1. CASE held' = << >>
      <4>1. stage' \in Stages /\ UNCHANGED <<server, scripts, settled, edits>>
        BY <2>4, AggregateStep DEF Stages
      <4>2. QED
        BY <3>1, <4>1 DEF TypeOK
    <3>2. CASE held' # << >>
      <4>1. /\ stage' = "selected" /\ held # << >>
            /\ held' = <<IF scripts.aggregate = "" THEN held[1] ELSE Returned(held[1])>>
            /\ UNCHANGED <<server, scripts, settled, edits>>
        BY <2>4, <3>2, AggregateStep
      <4>2. IsContent(held[1]) /\ IsResource(held[1])
        BY <4>1 DEF TypeOK
      <4>3. held' = <<held'[1]>> /\ IsContent(held'[1]) /\ IsResource(held'[1])
        BY <4>1, <4>2, ReturnedResource
      <4>4. QED
        BY <4>1, <4>3 DEF TypeOK, Stages
    <3>3. QED
      BY <3>1, <3>2
  <2>5. CASE Update
    <3>1. /\ stage' \in Stages /\ held' = << >> /\ UNCHANGED <<scripts, edits>>
          /\ \/ UNCHANGED <<server, settled>>
             \/ settled' = TRUE /\ IsContent(server') /\ IsResource(server')
      BY <2>5, UpdateStep DEF Stages
    <3>2. QED
      BY <3>1 DEF TypeOK
  <2>6. CASE NothingToUpdate
    BY <2>6 DEF NothingToUpdate, TypeOK, Stages
  <2>7. CASE Again
    BY <2>7 DEF Again, TypeOK, Stages
  <2>8. CASE UNCHANGED vars
    BY <2>8 DEF vars, TypeOK
  <2>9. QED
    BY <2>1, <2>2, <2>3, <2>4, <2>5, <2>6, <2>7, <2>8 DEF Next
<1>3. QED
  BY <1>1, <1>2, PTL DEF Spec

-----------------------------------------------------------------------------
(* What is lost, and when. *)

(* What the run holds is the resource as it is at the API server, or what  *)
(* comes back of it when it went through AggregatedSelection: nothing else *)
(* changes it before the update, and nobody changes the server meanwhile.  *)
HeldInv ==
    /\ stage = "listed" => held = <<server>>
    /\ stage = "matched" /\ held # << >> => held = <<server>>
    /\ stage = "selected" /\ held # << >> =>
        held = <<IF scripts.aggregate = "" THEN server ELSE Returned(server)>>

(* What a run has written comes back as it is, unless neither script has   *)
(* touched it.                                                             *)
SettledInv ==
    settled /\ scripts.transform \in {"", "same"} =>
        \/ Returned(server) = server
        \/ scripts.aggregate = "" /\ scripts.transform = ""

(* Between fetchResources and updateMatchingResources nothing but the way  *)
(* through AggregatedSelection changes what the run holds.                 *)
THEOREM HeldIsServer == Spec => []HeldInv
<1>1. Init => HeldInv
  BY DEF Init, HeldInv
<1>2. TypeOK /\ HeldInv /\ [Next]_vars => HeldInv'
  <2> SUFFICES ASSUME TypeOK, HeldInv, [Next]_vars
               PROVE  HeldInv'
    OBVIOUS
  <2>1. CASE Edit
    BY <2>1 DEF Edit, HeldInv
  <2>2. CASE Fetch
    BY <2>2 DEF Fetch, HeldInv
  <2>3. CASE Evaluate
    <3>1. /\ stage = "listed" /\ stage' \in {"error", "matched"}
          /\ held' \in {<< >>, held} /\ UNCHANGED <<server, scripts>>
      BY <2>3, EvaluateStep
    <3>2. QED
      BY <3>1 DEF HeldInv
  <2>4. CASE Aggregate
    <3>1. CASE held' = << >>
      <4>1. stage' # "listed"
        BY <2>4, AggregateStep
      <4>2. QED
        BY <3>1, <4>1 DEF HeldInv
    <3>2. CASE held' # << >>
      <4>1. /\ stage = "matched" /\ stage' = "selected" /\ held # << >>
            /\ held' = <<IF scripts.aggregate = "" THEN held[1] ELSE Returned(held[1])>>
            /\ UNCHANGED <<server, scripts>>
        BY <2>4, <3>2, AggregateStep
      <4>2. held[1] = server
        <5>1. held = <<server>>
          BY <4>1 DEF HeldInv
        <5>2. QED
          BY <5>1
      <4>3. held' = <<IF scripts'.aggregate = "" THEN server' ELSE Returned(server')>>
        BY <4>1, <4>2
      <4>4. QED
        BY <4>1, <4>3 DEF HeldInv
    <3>3. QED
      BY <3>1, <3>2
  <2>5. CASE Update
    <3>1. held' = << >> /\ stage' # "listed"
      BY <2>5, UpdateStep
    <3>2. QED
      BY <3>1 DEF HeldInv
  <2>6. CASE NothingToUpdate
    BY <2>6 DEF NothingToUpdate, HeldInv
  <2>7. CASE Again
    BY <2>7 DEF Again, HeldInv
  <2>8. CASE UNCHANGED vars
    BY <2>8 DEF vars, HeldInv
  <2>9. QED
    BY <2>1, <2>2, <2>3, <2>4, <2>5, <2>6, <2>7, <2>8 DEF Next
<1>3. QED
  BY <1>1, <1>2, TypeCorrect, PTL DEF Spec

(* What an update writes that the scripts have not changed on purpose.     *)
LEMMA WrittenFacts ==
    ASSUME TypeOK, HeldInv, Update, server' # server \/ stage' = "idle",
           scripts.transform \in {"", "same"}
    PROVE  /\ server' \in {server, Returned(server)}
           /\ scripts.aggregate # "" \/ scripts.transform # "" => server' = Returned(server)
<1>1. /\ stage = "selected" /\ held # << >>
      /\ scripts.transform = "" => server' = held[1]
      /\ scripts.transform = "same" => server' = Returned(held[1])
  BY UpdateStep
<1>2. held[1] = IF scripts.aggregate = "" THEN server ELSE Returned(server)
  <2>1. held = <<IF scripts.aggregate = "" THEN server ELSE Returned(server)>>
    BY <1>1 DEF HeldInv
  <2>2. QED
    BY <2>1
<1>3. IsContent(server) /\ Returned(Returned(server)) = Returned(server)
  BY LossIsOnce DEF TypeOK
<1>4. QED
  BY <1>1, <1>2, <1>3

(* PortableIsKept, of every run: mapToTable and toGoValue lose nothing of  *)
(* a resource that holds no null, no integer above Exact, and no list that *)
(* is empty or holds what mapToTable has no case for.                      *)
THEOREM PortablesAreKept == Spec => PortableIsKept
<1>1. TypeOK /\ HeldInv /\ [Next]_vars
      => [(stage = "selected" /\ scripts.transform \in {"", "same"} /\ server' # server)
          => ~Portable(server)]_vars
  <2> SUFFICES ASSUME TypeOK, HeldInv, [Next]_vars, stage = "selected",
                      scripts.transform \in {"", "same"}, server' # server
               PROVE  ~Portable(server)
    OBVIOUS
  <2>1. Update
    BY EvaluateStep, AggregateStep
       DEF Next, Edit, Fetch, NothingToUpdate, Again, vars
  <2>2. server' = Returned(server)
    BY <2>1, WrittenFacts
  <2>3. IsContent(server)
    BY DEF TypeOK
  <2>4. QED
    BY <2>2, <2>3, PortableComesBack
<1>2. QED
  BY <1>1, TypeCorrect, HeldIsServer, PTL DEF Spec, PortableIsKept

(* What updateMatchingResources has sent comes back as it is in the runs   *)
(* that follow, until a user changes it.                                   *)
THEOREM WrittenIsSettled == Spec => []SettledInv
<1>1. Init => SettledInv
  BY DEF Init, SettledInv
<1>2. TypeOK /\ HeldInv /\ SettledInv /\ [Next]_vars => SettledInv'
  <2> SUFFICES ASSUME TypeOK, HeldInv, SettledInv, [Next]_vars
               PROVE  SettledInv'
    OBVIOUS
  <2>1. CASE Update
    <3>1. CASE UNCHANGED <<server, settled>>
      BY <2>1, <3>1, UpdateStep DEF SettledInv
    <3>2. CASE ~UNCHANGED <<server, settled>>
      <4>1. scripts' = scripts /\ stage' = "idle"
        BY <2>1, <3>2, UpdateStep
      <4>2. SUFFICES ASSUME scripts.transform \in {"", "same"},
                            scripts.aggregate # "" \/ scripts.transform # ""
                     PROVE  Returned(server') = server'
        BY <4>1 DEF SettledInv
      <4>3. server' = Returned(server)
        BY <2>1, <4>1, <4>2, WrittenFacts
      <4>4. Returned(Returned(server)) = Returned(server)
        BY LossIsOnce DEF TypeOK
      <4>5. QED
        BY <4>3, <4>4
    <3>3. QED
      BY <3>1, <3>2
  <2>2. CASE Edit
    BY <2>2 DEF Edit, SettledInv
  <2>3. CASE ~Update /\ ~Edit
    <3>1. UNCHANGED <<server, scripts, settled>>
      BY <2>3, EvaluateStep, AggregateStep DEF Next, Fetch, NothingToUpdate, Again, vars
    <3>2. QED
      BY <3>1 DEF SettledInv
  <2>4. QED
    BY <2>1, <2>2, <2>3
<1>3. QED
  BY <1>1, <1>2, TypeCorrect, HeldIsServer, PTL DEF Spec

(* ErosionStops, of every run: a Cleaner that has written a resource and   *)
(* takes it through its scripts again does not change it a second time.    *)
THEOREM LossesStop == Spec => ErosionStops
<1>1. TypeOK /\ HeldInv /\ SettledInv /\ [Next]_vars
      => [(stage = "selected" /\ scripts.transform \in {"", "same"} /\ settled)
          => server' = server]_vars
  <2> SUFFICES ASSUME TypeOK, HeldInv, SettledInv, [Next]_vars, stage = "selected",
                      scripts.transform \in {"", "same"}, settled, server' # server
               PROVE  FALSE
    OBVIOUS
  <2>1. Update
    BY EvaluateStep, AggregateStep
       DEF Next, Edit, Fetch, NothingToUpdate, Again, vars
  <2>2. server' = Returned(server) /\ stage' = "idle"
    BY <2>1, UpdateStep, WrittenFacts
  <2>3. scripts.aggregate = "" /\ scripts.transform = ""
    BY <2>2 DEF SettledInv
  <2>4. server' = held[1] /\ held # << >>
    BY <2>1, <2>2, <2>3, UpdateStep
  <2>5. held = <<server>>
    BY <2>3, <2>4 DEF HeldInv
  <2>6. QED
    BY <2>4, <2>5
<1>2. QED
  BY <1>1, TypeCorrect, HeldIsServer, WrittenIsSettled, PTL DEF Spec, ErosionStops

-----------------------------------------------------------------------------
(* What the scripts decide. *)

(* A list of which mapToTable keeps nothing holds nothing it has a case    *)
(* for.                                                                    *)
LEMMA UnusedFacts ==
    ASSUME NEW d, IsContent(d), SpecOf \in DOMAIN MapToTable(d),
           Elements(MapToTable(d), SpecOf) = {}, NEW q \in Elements(d, SpecOf)
    PROVE  d[q][1] \in {"int", "list", "null"}
<1>1. /\ q \in DOMAIN d /\ q \in Paths /\ d[q] \in Values
      /\ Len(q) = 2 /\ Upto(q, 1) = SpecOf /\ q[2][1] = "element"
  <2>1. q \in DOMAIN d /\ DOMAIN d \subseteq Paths /\ d \in [DOMAIN d -> Values]
    BY DEF Elements, IsContent, Paths
  <2>2. /\ Len(q) = Len(SpecOf) + 1 /\ Upto(q, Len(SpecOf)) = SpecOf
        /\ q[Len(q)][1] = "element"
    BY DEF Elements
  <2>3. Len(SpecOf) = 1
    BY LabelFacts
  <2>4. QED
    BY <2>1, <2>2, <2>3
<1>2. /\ Upto(q, 2) = q /\ Upto(q, 0) = << >>
      /\ Upto(SpecOf, 1) = SpecOf /\ Upto(SpecOf, 0) = << >>
  <2>1. SpecOf \in Paths
    BY KeptFacts
  <2>2. QED
    BY <1>1, <2>1, UptoEnd, LabelFacts
<1>3. d[SpecOf] = List
  <2>1. 2 \in 1..Len(q) /\ 2 - 1 = 1
    BY <1>1
  <2>2. <<d[SpecOf], "element">> \in {<<Map, "field">>, <<List, "element">>}
    BY <1>1, <2>1 DEF IsContent
  <2>3. QED
    BY <2>2
<1>4. HasCase(d[<< >>], d[SpecOf])
  <2>1. SpecOf \in Kept(d) /\ 1 \in 1..Len(SpecOf) /\ 1 - 1 = 0
    BY KeptFacts, LabelFacts
  <2>2. QED
    BY <2>1, <1>2 DEF Kept
<1>5. ~Portables(d[q])
  <2> SUFFICES ASSUME Portables(d[q])
               PROVE  FALSE
    OBVIOUS
  <2>1. HasCase(d[SpecOf], d[q])
    BY <1>3 DEF HasCase
  <2>2. HasCase(d[Upto(q, 1 - 1)], d[Upto(q, 1)]) /\ HasCase(d[Upto(q, 2 - 1)], d[Upto(q, 2)])
    <3>1. 1 - 1 = 0 /\ 2 - 1 = 1
      OBVIOUS
    <3>2. QED
      BY <3>1, <1>1, <1>2, <1>4, <2>1
  <2>3. q \in DOMAIN MapToTable(d)
    <3>1. \A i \in 1..Len(q) : i = 1 \/ i = 2
      BY <1>1
    <3>2. ASSUME NEW i \in 1..Len(q)
          PROVE  HasCase(d[Upto(q, i - 1)], d[Upto(q, i)])
      <4>1. CASE i = 1
        BY <2>2, <4>1
      <4>2. CASE i = 2
        BY <2>2, <4>2
      <4>3. QED
        BY <3>1, <4>1, <4>2
    <3>3. q \in Kept(d)
      BY <1>1, <3>2 DEF Kept
    <3>4. QED
      BY <3>3, KeptFacts
  <2>4. q \in Elements(MapToTable(d), SpecOf)
    BY <2>3, <1>1, LabelFacts DEF Elements
  <2>5. QED
    BY <2>4
<1>6. QED
  BY <1>1, <1>5 DEF Portables, Values, Map, List, Null

(* UnusedIsUnused, of every run: isMatch takes a resource for unused only  *)
(* if mapToTable has no case for any element of its list.                  *)
THEOREM UnusedMeansUnused == Spec => []UnusedIsUnused
<1>1. Init => UnusedIsUnused
  BY DEF Init, UnusedIsUnused
<1>2. TypeOK /\ HeldInv /\ UnusedIsUnused /\ [Next]_vars => UnusedIsUnused'
  <2> SUFFICES ASSUME TypeOK, HeldInv, UnusedIsUnused, [Next]_vars,
                      stage' \in {"matched", "selected"}, held' # << >>,
                      scripts'.evaluate = "unused",
                      NEW p \in Elements(server', SpecOf)
               PROVE  server'[p][1] \in {"int", "list", "null"}
    BY DEF UnusedIsUnused
  <2>1. CASE Evaluate
    <3>1. /\ stage = "listed" /\ server' = server /\ scripts' = scripts
          /\ Elements(MapToTable(held[1]), SpecOf) = {}
          /\ SpecOf \in DOMAIN MapToTable(held[1])
      BY <2>1, EvaluateStep
    <3>2. held[1] = server /\ IsContent(server)
      BY <3>1 DEF HeldInv, TypeOK
    <3>3. QED
      BY <3>1, <3>2, UnusedFacts
  <2>2. CASE Aggregate
    <3>1. /\ stage = "matched" /\ held # << >>
          /\ server' = server /\ scripts' = scripts
      BY <2>2, AggregateStep
    <3>2. QED
      BY <3>1 DEF UnusedIsUnused
  <2>3. CASE UNCHANGED vars
    BY <2>3 DEF UnusedIsUnused, vars
  <2>4. QED
    BY <2>1, <2>2, <2>3, UpdateStep DEF Next, Edit, Fetch, NothingToUpdate, Again
<1>3. QED
  BY <1>1, <1>2, TypeCorrect, HeldIsServer, PTL DEF Spec

(* GoodScriptsPass, of every run: neither isMatch nor aggregatedSelection  *)
(* nor transform makes an error, or a nil resource, of an answer that is   *)
(* as it should be, whatever the resource holds.                           *)
THEOREM GoodScriptsGoThrough == Spec => []GoodScriptsPass
<1>1. Init => GoodScriptsPass
  BY DEF Init, GoodScriptsPass
<1>2. TypeOK /\ GoodScriptsPass /\ [Next]_vars => GoodScriptsPass'
  <2> SUFFICES ASSUME TypeOK, GoodScriptsPass, [Next]_vars,
                      scripts'.evaluate \in {"", "always", "silent"},
                      scripts'.aggregate \in {"", "guarded"},
                      scripts'.transform \in {"", "same", "trim"}
               PROVE  stage' \notin {"error", "panic"}
    BY DEF GoodScriptsPass
  <2>1. CASE Evaluate
    BY <2>1, EvaluateStep
  <2>2. CASE Aggregate
    BY <2>2, AggregateStep
  <2>3. CASE Update
    BY <2>3, UpdateStep
  <2>4. CASE UNCHANGED vars
    BY <2>4 DEF GoodScriptsPass, vars
  <2>5. QED
    BY <2>1, <2>2, <2>3, <2>4 DEF Next, Edit, Fetch, NothingToUpdate, Again
<1>3. QED
  BY <1>1, <1>2, TypeCorrect, PTL DEF Spec
=============================================================================
