\* Two invocations of one test, one after the other or side by side.
SPECIFICATION Spec
CONSTANTS
    e1 = e1
    e2 = e2
    infra = infra
    None = None
    Envs = {e1, e2}
    NameOf <- MCNames
CHECK_DEADLOCK FALSE
SYMMETRY EnvSymmetry
INVARIANTS
    TypeOK
    ReadyServicesAreOwn
    TeardownLeavesNothing
    LogsSurviveTeardown
    HealthyRunnerIsOwn
