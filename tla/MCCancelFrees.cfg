SPECIFICATION FairSpec
CONSTANTS
    s1 = s1
    s2 = s2
    s3 = s3
    r1 = r1
    r2 = r2
    r3 = r3
    Operator = operator
    Boot = boot
    None = none
    Sha = {s1, s2}
    Run = {r1}
    KeepCount = 0
    ConsoleShas = {}
    RollbackShas = {}
    Disturbances = {"cancel", "killfail"}
    MaxFaults = 0
INVARIANTS StateAgrees
PROPERTIES CancelFrees
