\* The script that triage writes for a plan with a heredoc.
SPECIFICATION Spec
CONSTANTS
    main = main
    sub = sub
    leaf = leaf
    repro = repro
    None = None
    Files = {main, sub, leaf, repro}
    Paths <- MCPaths
    Target <- MCTarget
    Resolve <- MCResolve
    Texts <- MCTexts
    Root = "main"
    Minimized = "repro"
    Inputs <- MCInputs
    Scopes <- MCScopes
    Runners <- MCRunners
    TraceFlags <- MCTraceFlags
    TraceArgs <- MCTraceArgs
CHECK_DEADLOCK FALSE
INVARIANTS
    MinimizedReadsBack
