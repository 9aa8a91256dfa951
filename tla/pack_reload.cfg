\* A reload request and the watcher, under fairness.
SPECIFICATION Spec
CONSTANTS
    p1 = p1
    p2 = p2
    r1 = r1
    Packs = {p1, p2}
    Installed = {p1}
    Requests = {r1}
    Watcher = watcher
    RunnerBase = TRUE
    MaxEdits = 2
    MaxReloads = 1
    MaxPending = 2
CHECK_DEADLOCK FALSE
INVARIANTS
    TypeOK
    RunnerHasServerIndex
PROPERTIES
    IndexGoesBackOnlyWhenCrossed
    LoneEditIsPickedUp
    ShutdownWithoutWatchEnds
