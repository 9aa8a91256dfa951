\* Two changes that the watcher is told of, the second within the debounce window.
SPECIFICATION Spec
CONSTANTS
    p1 = p1
    p2 = p2
    r1 = r1
    Packs = {p1, p2}
    Installed = {p1}
    Requests = {r1}
    Watcher = watcher
    RunnerBase = TRUE
    MaxEdits = 2
    MaxReloads = 0
    MaxPending = 2
CHECK_DEADLOCK FALSE
PROPERTIES
    WatchPicksUpChanges
