SPECIFICATION Spec
CONSTANTS
    MaxEmp = 1
    MaxCommits = 2
    Seeded = {1}
    Searches <- EmptySearch
    InProgressEnabled = TRUE
    NotFoundEnabled = TRUE
    MutexDisabled = FALSE
    RedisFaults = TRUE
    SectionsOutlive = FALSE
    Req = {r1, r2}
    Pruner = Pruner
    NoClient = NoClient
    Ops = {"read", "delete"}
    MutateDisabled = FALSE
    MaxTries = 1
    SqlFaults = FALSE
    Crashes = FALSE
INVARIANTS
    PruneUndisturbed
PROPERTIES
    InProgressIsMutex
    NotFoundIsMutex
