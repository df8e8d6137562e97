---------------------------- MODULE MCSelection ----------------------------
(***************************************************************************)
(* Instances of Selection for TLC, with each operation of a label filter.  *)
(***************************************************************************)
EXTENDS Selection

MCFilters ==
    {{},
     {[operation |-> "Equal", value |-> "x"]},
     {[operation |-> "DoesNotHave", value |-> "x"]},
     {[operation |-> "Has", value |-> "x"], [operation |-> "Different", value |-> "x"]}}
=============================================================================
