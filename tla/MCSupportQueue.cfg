SPECIFICATION FairSpec
CONSTANTS
    r1 = r1
    r2 = r2
    a1 = a1
    t1 = t1
    t2 = t2
    None = none
    Req = {r1, r2}
    Agent = {a1}
    Thread = {t1, t2}
    Named = {TRUE}
INVARIANTS TypeOK
PROPERTIES   OverdueServed
