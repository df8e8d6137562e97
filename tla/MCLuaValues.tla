---------------------------- MODULE MCLuaValues ----------------------------
(***************************************************************************)
(* An instance of LuaValues for TLC: each kind of value in a map and in a  *)
(* list, lists and maps inside each other, and the integers around Exact.  *)
(***************************************************************************)
EXTENDS LuaValues

MCExact == 4

(* The tree with v at the root and the trees branches[l] at its labels l. *)
Tree(v, branches) ==
    [p \in {<< >>} \union UNION {{<<l>> \o q : q \in DOMAIN branches[l]} : l \in DOMAIN branches}
        |-> IF p = << >> THEN v ELSE branches[p[1]][Tail(p)]]

Leaf(v) == [p \in {<< >>} |-> v]
MapOf(k, d) == Tree(Map, [l \in {Field(k)} |-> d])
ListOf(s) == Tree(List, [l \in {Element(i) : i \in DOMAIN s} |-> s[l[2]]])

Leaves == {Leaf(v) : v \in {<<"int", 1>>, <<"int", 5>>, <<"int", 7>>, <<"float", 1>>,
                            <<"string", "a">>, <<"bool", TRUE>>, Null, Map, List}}

Parts == Leaves \union {ListOf(<<Leaf(<<"string", "a">>)>>), MapOf("a", Leaf(<<"int", 1>>)),
                        MapOf("a", ListOf(<<Leaf(<<"int", 1>>)>>))}

Specs == Parts \union {ListOf(<<d, e>>) : d, e \in Parts} \union {MapOf("a", d) : d \in Parts}

MCContents ==
    {Tree(Map, [l \in {Field("kind"), Field("spec")} |->
                    IF l = Field("kind") THEN Leaf(<<"string", "K">>) ELSE d]) : d \in Specs}
=============================================================================
