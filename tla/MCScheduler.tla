----------------------------- MODULE MCScheduler -----------------------------
(***************************************************************************)
(* Instances of Scheduler for TLC.  A unit of time is five seconds, so     *)
(* that Ignore is 6; the periods are longer than that, as those of cron    *)
(* expressions are.                                                        *)
(***************************************************************************)
EXTENDS Scheduler

Cron(p) == [kind |-> "cron", period |-> p, deadline |-> Never]
CronBy(p, d) == [kind |-> "cron", period |-> p, deadline |-> d]
Every(p) == [kind |-> "every", period |-> p, deadline |-> Never]
Bad == [kind |-> "bad", period |-> 1, deadline |-> Never]

Editable == {Cron(12), CronBy(8, 8), Every(9), Bad}
=============================================================================
