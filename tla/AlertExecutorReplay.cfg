SPECIFICATION Spec
CONSTANTS
    Alarms = {a}
    Due <- MCDue
    SnoozeMs = 1
    MaxRingMs = 2
    CatchUpMs = 2
    Horizon = 4
    Reformats <- Same
    Budget <- OneFailedCommit
    Kinds = 3
    None = None
INVARIANT DismissalIsFinal
CHECK_DEADLOCK FALSE
