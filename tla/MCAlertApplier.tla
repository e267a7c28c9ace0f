---------------------------- MODULE MCAlertApplier ----------------------------
(* Instances of AlertApplier for TLC. *)
EXTENDS AlertApplier

CONSTANTS make, far, drop, quiet, snooze, wake, nap, fresh

MCOps == {make, drop, quiet, snooze}

\* A repeating alarm with two occurrences, of which 1 is snoozed or dismissed.
MCEvents == {[sched |-> wake, keys |-> {1, 2}]}
New(sched, key) == [sched |-> sched, key |-> key]
MCPlan == [op \in MCOps \cup {far} |->
    CASE op = make   -> [action |-> "create", sched |-> fresh, key |-> 2, new |-> New(fresh, 2)]
      [] op = far    -> [action |-> "create", sched |-> fresh, key |-> 3, new |-> New(fresh, 3)]
      [] op = drop   -> [action |-> "cancel", sched |-> wake, key |-> None, new |-> None]
      [] op = quiet  -> [action |-> "dismiss", sched |-> wake, key |-> 1, new |-> None]
      [] op = snooze -> [action |-> "snooze", sched |-> wake, key |-> 1, new |-> New(nap, 2)]]

\* Occurrence 1 passes out of the window.
MCWindows == <<{1, 2}, {2}>>
\* Occurrence 3 is ahead of it.
FarWindows == <<{1, 2}, {1, 2, 3}>>
NewOps == {make, far}

MCBudget == [f \in Faults |-> IF f = "restore" THEN 2 ELSE 1]
RepeatBudget == [f \in Faults |-> IF f \in {"unknown", "remove", "crash"} THEN 1 ELSE 0]
=============================================================================
