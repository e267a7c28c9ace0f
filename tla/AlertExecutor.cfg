SPECIFICATION FairSpec
CONSTANTS
    Alarms = {a}
    Due <- MCDue
    SnoozeMs = 1
    MaxRingMs = 2
    CatchUpMs = 2
    Horizon = 4
    Reformats <- Both
    Budget <- MCBudget
    Kinds = 3
    None = None
INVARIANTS TypeOK StopHolds KeptUntilAnswered RingNotRenewed LockInStep ActiveIsHeld
PROPERTY DueRings
CHECK_DEADLOCK FALSE
