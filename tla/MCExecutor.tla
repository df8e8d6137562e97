----------------------------- MODULE MCExecutor -----------------------------
(***************************************************************************)
(* Instances of Executor for TLC.                                          *)
(***************************************************************************)
EXTENDS Executor

(* No action and no safety property tells one Cleaner or one worker from   *)
(* another.                                                                *)
Symmetry == Permutations(Cleaners) \union Permutations(Workers)
=============================================================================
