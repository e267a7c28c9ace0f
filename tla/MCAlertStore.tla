---------------------------- MODULE MCAlertStore ----------------------------
(* Small instances of AlertStore for TLC: one delivered item o, one local    *)
(* item r.                                                                   *)
EXTENDS AlertStore, TLC

Txn(reset, del, put) == [reset |-> reset, del |-> del, put |-> put]

\* A delta, a local operation, the removal of both, and a snapshot install.
FourTransactions ==
    {Txn(FALSE, {}, {"o"}), Txn(FALSE, {}, {"r"}),
     Txn(FALSE, {"o", "r"}, {}), Txn(TRUE, {}, {"o"})}

\* Any two failed operations, a kill, a power loss and one damage.
CrashBudget ==
    [f \in Faults |-> IF f = "error" THEN 2 ELSE 1]

\* Every operation but the two whose failure loses committed records.
SafeFailPoints == Operations \ {"truncate_sync", "read"}

\* One failed operation and one power loss.
ErrorBudget == [f \in Faults |-> IF f \in {"error", "power"} THEN 1 ELSE 0]
=============================================================================
