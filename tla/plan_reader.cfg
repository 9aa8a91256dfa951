\* Every small script of either reader, with includes and quoted arguments, and
\* one command run by each of the functions that run one.
SPECIFICATION RunSpec
CONSTANTS
    main = main
    sub = sub
    leaf = leaf
    repro = repro
    None = None
    Files = {main, sub, leaf, repro}
    Paths <- MCPaths
    Target <- MCTarget
    Resolve <- MCResolve
    Texts <- MCTexts
    Root = "main"
    Minimized = "repro"
    Inputs <- MCScripts
    Scopes <- MCScopes
    Runners <- MCRunners
    TraceFlags <- MCTraceFlags
    TraceArgs <- MCTraceArgs
    Trees <- MCTrees
    Programs <- MCPrograms
    Checks <- MCChecks
    Asking <- MCPacks
    Parts = {"", "t", "m", "s", "u", "dev", "unknown"}
    Directories <- MCDirectories
    Manifests <- MCManifests
    Defaults <- MCDefaults
    Questions <- MCQuestions
    Checking <- MCChecking
    PipeSize = 2
    Chunk = 2
    Limit = 3
    TranscriptLimit = 2
CHECK_DEADLOCK FALSE
INVARIANTS
    NoFileInsideItself
    PlanIsMeaning
    ProcessGetsMeantArgs
    PlainMinimizedReadsBack
    OutputIsFirstBytes
    VerdictIsOfChild
    ChecksAreMeant
    PacksFollowOverrides
PROPERTIES
    CommandIsRecorded
