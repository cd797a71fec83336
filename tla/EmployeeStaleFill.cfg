SPECIFICATION Spec
CONSTANTS
    MaxEmp = 1
    MaxCommits = 3
    Seeded = {1}
    Searches <- EmptySearch
    InProgressEnabled = TRUE
    NotFoundEnabled = FALSE
    MutexDisabled = FALSE
    RedisFaults = FALSE
    SectionsOutlive = FALSE
    Req = {r1, r2}
    Ops = {"read", "update"}
    MutateDisabled = FALSE
    MaxTries = 2
    SqlFaults = FALSE
    Crashes = FALSE
INVARIANTS
    QuiescentFresh
