SPECIFICATION Spec
CONSTANTS
    MaxEmp = 2
    MaxCommits = 3
    Seeded = {1}
    Searches <- MCSearches
    InProgressEnabled = FALSE
    NotFoundEnabled = FALSE
    MutexDisabled = FALSE
    RedisFaults = TRUE
    SectionsOutlive = TRUE
    Req = {r1, r2}
    Ops = {"read", "update", "delete", "create", "clear"}
    MutateDisabled = FALSE
    MaxTries = 2
    SqlFaults = TRUE
    Crashes = TRUE
SYMMETRY RequestSymmetry
INVARIANTS
    TypeOK
    StaleHasCause
    DeletedIsEvicted
