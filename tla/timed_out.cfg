\* Children that end by themselves or not, under a timeout.
SPECIFICATION CommandSpec
CONSTANTS
    Trees <- MCTrees
    PipeSize = 2
    Chunk = 2
    Limit = 3
    TranscriptLimit = 2
CHECK_DEADLOCK FALSE
INVARIANTS
    TimedOutIsFailed
