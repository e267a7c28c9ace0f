-------------------------- MODULE MCAlertDelivery --------------------------
(* Small instances of AlertDelivery for TLC. *)
EXTENDS AlertDelivery, TLC

\* Any two faults but a failed database write, around two calendar edits.
RecoveryBudget ==
    [e \in Events |-> CASE e = "db" -> 0
                        [] e \in {"calendar", "session", "faults"} -> 2
                        [] OTHER -> 1]

\* One edit; any two of the faults the protocol recovers from by itself.
FairBudget ==
    [e \in Events |-> CASE e \in {"db", "drop", "retract"} -> 0
                        [] e = "faults" -> 2
                        [] OTHER -> 1]

\* A session lost, a failed write of the position and a restart.
ReuseBudget ==
    [e \in Events |-> CASE e \in {"session", "crash", "db"} -> 1
                        [] e = "calendar" -> 2
                        [] e = "faults" -> 3
                        [] OTHER -> 0]
=============================================================================
