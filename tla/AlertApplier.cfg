SPECIFICATION FairSpec
CONSTANTS
    make = make  far = far  drop = drop  quiet = quiet  snooze = snooze
    wake = wake  nap = nap  fresh = fresh
    Ops <- MCOps
    Plan <- MCPlan
    Events0 <- MCEvents
    Windows <- MCWindows
    MaxActs = 2
    MaxWire = 1
    Budget <- MCBudget
    Kinds = 1
    None = None
INVARIANTS TypeOK InOrder NoDuplicate SnoozeKeepsAlarm
PROPERTIES LiveSettles LiveHandled
