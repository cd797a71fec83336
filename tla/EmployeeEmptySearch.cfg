SPECIFICATION Spec
CONSTANTS
    MaxEmp = 2
    MaxCommits = 3
    Seeded = {1, 2}
    Searches <- EmptySearch
    InProgressEnabled = TRUE
    NotFoundEnabled = FALSE
    MutexDisabled = FALSE
    RedisFaults = FALSE
    SectionsOutlive = FALSE
    Req = {r1, r2}
    Ops = {"read", "search"}
    MutateDisabled = TRUE
    MaxTries = 2
    SqlFaults = FALSE
    Crashes = FALSE
INVARIANTS
    EmptySearchExact
