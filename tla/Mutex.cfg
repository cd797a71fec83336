SPECIFICATION FairSpec
CONSTANTS
    Client = {c1, c2, c3, c4, c5}
    NoClient = NoClient
    Environments <- MCEnvironments
    Faults = TRUE
INVARIANTS
    MutualExclusion
    HolderOwnsKey
PROPERTIES
    DeletesOnlyItsOwn
    WaiterReturns
