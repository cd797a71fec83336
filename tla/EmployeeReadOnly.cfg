SPECIFICATION Spec
CONSTANTS
    MaxEmp = 2
    MaxCommits = 3
    Seeded = {1, 2}
    Searches <- MCSearches
    InProgressEnabled = TRUE
    NotFoundEnabled = FALSE
    MutexDisabled = TRUE
    RedisFaults = TRUE
    SectionsOutlive = TRUE
    Req = {r1, r2}
    Ops = {"read", "search", "update", "delete", "create", "clear"}
    MutateDisabled = TRUE
    MaxTries = 1
    SqlFaults = FALSE
    Crashes = TRUE
SYMMETRY RequestSymmetry
INVARIANTS
    CacheExact
    
