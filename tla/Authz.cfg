SPECIFICATION FairSpec
CONSTANTS
    u1 = u1
    u2 = u2
    User = {u1, u2}
    Anonymous = Anonymous
    Absent = Absent
    Employee = {}
    Call = {c1}
    Contents <- MCContents
    Unreadable = Unreadable
    Configs <- MCConfigs
    MaxEdits = 2
    EngineFaults = TRUE
    MeterFaults = TRUE
INVARIANTS
    PerformsPermitted
    NobodyBeforeFirst
    OnlyHeldContents
    LoopSurvivesClose
    PanicsOnlyClosing
PROPERTIES
    EventuallyAdopted
    CloseReturns
CHECK_DEADLOCK FALSE
