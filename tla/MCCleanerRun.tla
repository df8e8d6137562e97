---------------------------- MODULE MCCleanerRun ----------------------------
(***************************************************************************)
(* Instances of CleanerRun for TLC: one selector, or two that overlap.     *)
(***************************************************************************)
EXTENDS CleanerRun

Everything == [reach |-> Resources, excludeDeleted |-> TRUE]
WithDeleted == [reach |-> Resources, excludeDeleted |-> FALSE]
OneWithDeleted == [reach |-> {CHOOSE r \in Resources : TRUE}, excludeDeleted |-> FALSE]

Cleaner(sels, aggregated, action, notifications, store) ==
    [selectors |-> sels, aggregated |-> aggregated, action |-> action,
     notifications |-> notifications, store |-> store]

MCSpecs ==
    {Cleaner(<<Everything, WithDeleted>>, FALSE, "Delete", <<"CleanerReport", "Slack", "Teams">>, TRUE),
     Cleaner(<<WithDeleted>>, TRUE, "Delete", <<"Event", "SMTP">>, TRUE),
     Cleaner(<<Everything, OneWithDeleted>>, FALSE, "Transform",
             <<"Discord", "CleanerReport", "Telegram">>, FALSE),
     Cleaner(<<Everything>>, FALSE, "Scan", <<"Webex", "CleanerReport">>, FALSE)}

MCTransform == {Cleaner(<<Everything>>, FALSE, "Transform", << >>, FALSE)}
MCDelete == {Cleaner(<<Everything>>, FALSE, "Delete", << >>, TRUE)}
=============================================================================
