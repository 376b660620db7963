SPECIFICATION MCSpec
CONSTANTS
    p1 = p1
    p2 = p2
    t1 = t1
    t2 = t2
    t3 = t3
    s1 = s1
    s2 = s2
    v1 = v1
    v2 = v2
    Processes = {p1, p2}
    Threads = {t1, t2, t3}
    ProcessOf <- ThreadsOfProcesses
    Nobody = Nobody
    MaxDepth = 2
    Builds = {v1, v2}
    SiteOf <- TwoSites
    MaxStarts = 2
    MaxUpgrades = 1
    InPlace = FALSE
CHECK_DEADLOCK FALSE
INVARIANTS LeaseTypeOK MutualExclusion OwnerHoldsLock GrantedHaveLeases NoSplitBrain
PROPERTIES AcquireEnds
