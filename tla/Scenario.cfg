SPECIFICATION FairSpec
CONSTANTS
    Client = {c1, c2, c3}
    Runner = Runner
    Plan <- MCPlan
    MinClients <- MCMinClients
INVARIANTS
    TypeOK
    QuietAtCleanup
    CleanedUp
    AbandonedOnlyByClear
PROPERTIES
    Ended
CHECK_DEADLOCK FALSE
