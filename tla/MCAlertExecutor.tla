--------------------------- MODULE MCAlertExecutor ---------------------------
(* Instances of AlertExecutor for TLC. *)
EXTENDS AlertExecutor

MCDue == [a \in Alarms |-> 1]
Both == BOOLEAN
Same == {FALSE}

\* One stop and one snooze, one failed commit, restart and lost answer each.
MCBudget ==
    [e \in Events |-> IF e = "act" THEN 2 ELSE 1]
NoFaults == [e \in Events |-> IF e = "act" THEN 2 ELSE 0]

\* A failed commit beside two acts.
OneFailedCommit ==
    [e \in Events |-> CASE e = "act" -> 2 [] e = "commit" -> 1 [] OTHER -> 0]
=============================================================================
