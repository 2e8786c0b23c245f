SPECIFICATION FairSpec
CONSTANTS
    k1 = k1
    k2 = k2
    b1 = b1
    p1 = p1
    d1 = d1
    Web = web
    None = none
    Row = {1, 2}
    Key = {k1, k2}
    Projections = {k1}
    Hook = {b1}
    KeysOf <- MCOneHook
    Poller = {p1}
    Drain = {d1}
    Concurrency = 2
    MaxJobs = 2
    MaxRequeue = 1
    ProjectionMax = 2
    Disturbances = {"crash", "nospawn", "restart", "lowMemory", "slow"}
    MaxFaults = 1
INVARIANTS TypeOK OneWorkerPerJob  
PROPERTIES KeepsSyncPromise AllSettle
