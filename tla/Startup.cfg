SPECIFICATION FairSpec
CONSTANTS
    t1 = t1
    t2 = t2
    Tabs = {t1, t2}
    Domains = {"a", "b"}
    First = "a"
    None = None
    MaxFaults = 4
INVARIANTS TypeOK ServedWhenReady LinkReachesItsHost
PROPERTY EveryTabOpens
CHECK_DEADLOCK FALSE
