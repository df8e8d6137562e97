----------------------------- MODULE CleanerLife -----------------------------
(***************************************************************************)
(* The life of the Cleaners of a name, and of their Report, as the users   *)
(* of the API server see it: a Cleaner the controller has put on a         *)
(* schedule leaves before it vanishes; a run may write the Report of any   *)
(* Cleaner the name has had; but the Report of a Cleaner that has not left *)
(* is never taken away.                                                    *)
(***************************************************************************)
EXTENDS Naturals

CONSTANTS Names

VARIABLES
    uid,    \* how many Cleaners each name had: the last one bears this number
    stage,  \* where the life of that one is
    report  \* the Cleaner the Report of each name is from, 0 if there is none

vars == <<uid, stage, report>>

Stages == {"none", "new", "active", "leaving"}

Init ==
    /\ uid \in [Names -> Nat]
    /\ stage \in [Names -> Stages]
    /\ report = [n \in Names |-> 0]

Become(n, s) ==
    /\ stage' = [stage EXCEPT ![n] = s]
    /\ UNCHANGED report

Appear(n) ==
    /\ stage[n] = "none"
    /\ uid' = [uid EXCEPT ![n] = @ + 1]
    /\ Become(n, "new")

Activate(n) == stage[n] = "new" /\ Become(n, "active") /\ UNCHANGED uid

Leave(n) == stage[n] \in {"new", "active"} /\ Become(n, "leaving") /\ UNCHANGED uid

(* One that was never active may vanish at once. *)
Vanish(n) == stage[n] \in {"new", "leaving"} /\ Become(n, "none") /\ UNCHANGED uid

Publish(n) ==
    /\ \E u \in 1 .. uid[n] : report' = [report EXCEPT ![n] = u]
    /\ UNCHANGED <<uid, stage>>

(* The Report of an earlier Cleaner, or of one that leaves or is gone. *)
Withdraw(n) ==
    /\ report[n] < uid[n] \/ stage[n] \in {"none", "leaving"}
    /\ report' = [report EXCEPT ![n] = 0]
    /\ UNCHANGED <<uid, stage>>

Next ==
    \E n \in Names :
        Appear(n) \/ Activate(n) \/ Leave(n) \/ Vanish(n) \/ Publish(n) \/ Withdraw(n)

Spec == Init /\ [][Next]_vars
=============================================================================
