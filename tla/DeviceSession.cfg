SPECIFICATION FairSpec
CONSTANTS
    MaxSessions = 3
    Budgets <- MCBudgets
    UrgentEvents = 1
INVARIANTS TypeOK OneLiveCapture EndedIsRevoked MuteIsHeard RunningIsRouted MuteSettles MuteAgrees
PROPERTY Reconnects
CHECK_DEADLOCK FALSE
