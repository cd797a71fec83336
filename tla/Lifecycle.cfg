SPECIFICATION FairSpec
CONSTANTS
    Req = {r1, r2}
    Configs <- MCConfigs
    CacheEnvs <- MCCacheEnvs
INVARIANTS
    UsesOpen
    AllClosed
    StaleOnlyClosing
    TickersLive
PROPERTIES
    Ended
CHECK_DEADLOCK FALSE
