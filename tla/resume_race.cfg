\* Three handlers, resumes of one session among them, on each backend.
SPECIFICATION Spec
CONSTANTS
    r1 = r1
    r2 = r2
    r3 = r3
    acme = acme
    acmePadded = acmePadded
    beta = beta
    ann = ann
    bob = bob
    flow = flow
    key = key
    empty = empty
    u1 = u1
    u2 = u2
    u3 = u3
    None = None
    Empty = empty
    DefaultTenant = acme
    DefaultTeam = None
    Text <- MCText
    Trim <- MCTrim
    Uuid <- MCUuid
    Requests = {r1, r2, r3}
    Backends = {"memory", "file", "redis"}
    UpsertPayloads <- MCUpserts
    PurgeInputs <- MCPurges
    ResumeInputs <- MCResumes
    EmitInputs <- MCEmits
    EventCap = 2
    MaxUpserts = 2
    MaxEvents = 3
SYMMETRY RequestSymmetry
INVARIANTS
    EachSessionEchoedOnce
