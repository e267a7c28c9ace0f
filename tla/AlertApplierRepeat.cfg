SPECIFICATION FairSpec
CONSTANTS
    make = make  far = far  drop = drop  quiet = quiet  snooze = snooze
    wake = wake  nap = nap  fresh = fresh
    Ops <- NewOps
    Plan <- MCPlan
    Events0 <- MCEvents
    Windows <- FarWindows
    MaxActs = 2
    MaxWire = 1
    Budget <- RepeatBudget
    Kinds = 2
    None = None
INVARIANT RepeatsOnlyMissing
CHECK_DEADLOCK FALSE
