\* Two workers and four tests under every combination of the flags, or three
\* scenarios, two of them of one stem and two that share a directory.
SPECIFICATION TesterSpec
CONSTANTS
    w1 = w1
    w2 = w2
    tA = tA
    tB = tB
    tC = tC
    tD = tD
    stemAB = stemAB
    None = None
    Workers = {w1, w2}
    Tests = {tA, tB, tC, tD}
    StemOf <- MCStems
    PlanOf <- MCPlans
    Options <- MCOptions
    TriageRuns = 1
    sA = sA
    sB = sB
    sC = sC
    nameAB = nameAB
    nameC = nameC
    varV = varV
    varW = varW
    dropWrite = dropWrite
    root = root
    shared = shared
    Nothing = Nothing
    Scenarios = {sA, sB, sC}
    NameOf <- MCNames
    StepsOf <- MCSteps
    RunOptions <- MCRunOptions
    Names = {varV, varW}
    Faults = {dropWrite}
    Places = {root, shared}
    RepoRoot = root
CHECK_DEADLOCK FALSE
SYMMETRY WorkerSymmetry
INVARIANTS
    TypeOK
    OkMeansEveryExitMet
    FailFastLimitsFailures
    FailedWorkdirStays
    RunningPlanHasWorkdir
    MinimizedIsBoundary
    ScenariosTypeOK
    PassedMeansExitsMet
    ContextIsScenarioOwn
    LogsTellTheRun
    HintNamesOwnTrace
