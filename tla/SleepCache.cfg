SPECIFICATION FairSpec
CONSTANTS
    Req = {r1, r2}
    Id = {i1}
    NoId = NoId
    Duration = {1}
    InProgressEnabled = TRUE
    MutexDisabled = FALSE
    MaxTries = 2
    RedisFaults = TRUE
    SqlFaults = TRUE
    Pruner = Pruner
    NoClient = NoClient
INVARIANTS
    CachedWasSlept
    OneLeader
    SectionsExclusive
PROPERTIES
    Answered
    MarksGo
