------------------------------ MODULE RunQueue ------------------------------
(***************************************************************************)
(* What the executor promises to the reconcilers, without its slices: a    *)
(* request is owed until a worker starts the Cleaner it names; requests    *)
(* for the same Cleaner made before that are served by one run; a worker   *)
(* may run a Cleaner once more than it had to, but never one nobody asked  *)
(* for; an outcome is stored when a run ends, unless a newer request is    *)
(* owed, and is handed out once.                                           *)
(***************************************************************************)
EXTENDS Naturals

CONSTANTS Cleaners, Workers, None

VARIABLES
    owed,     \* the Cleaners a run is owed to
    outcome,  \* what is known of the last run of each Cleaner
    running   \* what each worker runs

vars == <<owed, outcome, running>>

Init ==
    /\ owed = {}
    /\ outcome = [c \in Cleaners |-> "none"]
    /\ running = [w \in Workers |-> None]

Request(c) ==
    /\ owed' = owed \union {c}
    /\ outcome' = [outcome EXCEPT ![c] = "none"]
    /\ UNCHANGED running

(* The outcome of a run is read, and is gone. *)
Collect(c) ==
    /\ outcome[c] # "none"
    /\ outcome' = [outcome EXCEPT ![c] = "none"]
    /\ UNCHANGED <<owed, running>>

(* A worker starts a Cleaner; the debt may remain for one more run. *)
Start(w, c) ==
    /\ c \in owed
    /\ running[w] = None
    /\ running' = [running EXCEPT ![w] = c]
    /\ owed' \in {owed, owed \ {c}}
    /\ UNCHANGED outcome

(* A run ends with an outcome, which is dropped only if the Cleaner is to  *)
(* run again.                                                              *)
Finish(w) ==
    /\ running[w] # None
    /\ running' = [running EXCEPT ![w] = None]
    /\ \E o \in {"none", "ok", "error"} :
        /\ o = "none" => running[w] \in owed
        /\ outcome' = [outcome EXCEPT ![running[w]] = o]
    /\ UNCHANGED owed

Next ==
    \/ \E c \in Cleaners : Request(c) \/ Collect(c)
    \/ \E w \in Workers : Finish(w) \/ \E c \in Cleaners : Start(w, c)

(* No Cleaner starves: one that is owed a run again and again while a      *)
(* worker is free is started.                                              *)
Fairness ==
    /\ \A c \in Cleaners : SF_vars(\E w \in Workers : Start(w, c))
    /\ \A w \in Workers : WF_vars(Finish(w))

Safety == Init /\ [][Next]_vars

Spec == Safety /\ Fairness
=============================================================================
