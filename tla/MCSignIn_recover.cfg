SPECIFICATION FairSpec
CONSTANTS
    Tabs = {t1, t2}
    Flows = {f1, f2, f3}
    Keys = {k1, k2}
    CacheTime = 2
    Timeout = 1
    StateTime = 1
    SessionTime = 1
    StoresSessions = TRUE
    None = None
INVARIANTS LandsWhereItStarted RefusalsFollowRotation
PROPERTY Recovers
