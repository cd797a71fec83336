SPECIFICATION FairSpec
CONSTANTS
    MaxEmp = 1
    MaxCommits = 2
    Seeded = {1}
    Searches <- EmptySearch
    InProgressEnabled = TRUE
    NotFoundEnabled = FALSE
    MutexDisabled = FALSE
    RedisFaults = FALSE
    SectionsOutlive = FALSE
    Req = {r1, r2}
    Ops = {"read", "update"}
    MutateDisabled = FALSE
    MaxTries = 2
    SqlFaults = TRUE
    Crashes = TRUE
PROPERTIES
    Answered
    MarkersGo
