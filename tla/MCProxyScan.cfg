SPECIFICATION FairSpec
CONSTANTS
    a1 = a1
    a2 = a2
    p1 = p1
    p2 = p2
    Addresses = {a1, a2}
    Probes = {p1, p2}
    Open <- OpenFirst
    Fds = {1, 2}
    CacheExpire = 1
    IdleMax = 1
    ScanTimeout = 2
    Worlds <- CalmAndFaulty
INVARIANTS TypeOK OneScanEach CleanNotScanned WithinLimit OpenNotCached
PROPERTIES ScansEnd OpenFound
