\* A purge command beside a server that goes on with its own map.
SPECIFICATION Spec
CONSTANTS
    acme = acme
    beta = beta
    ann = ann
    bob = bob
    key1 = key1
    key2 = key2
    empty = empty
    None = None
    Empty = empty
    DefaultTenant = None
    DefaultTeam = None
    Text <- MCText
    Trim <- MCTrim
    Server = server
    Clis = {purge1}
    UpsertInputs <- MCUpserts
    Filters <- MCFilters
    MaxUpserts = 2
INVARIANTS
    PurgeGivesCleanSlate
