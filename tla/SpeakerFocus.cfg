SPECIFICATION Spec
CONSTANTS
    listen = listen  speak = speak  wake = wake  answer = answer
    alarm = alarm  turn = turn
    Leases = {listen, speak}
    Candidates = {wake}
    Playbacks = {answer}
    Alerts = {alarm}
    Of <- MCOf
    TTL = 1
    AckWait = 1
    AlertYield = 1
    AlertBackgroundCap = 2
    ProvisionalWindow = 1
    PerWindow = 1
    MaxBusy = 2
    None = None
INVARIANTS TypeOK BackgroundBounded YieldBounded AlertTracks LeasesFollow OneForeground
