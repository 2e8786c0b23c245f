SPECIFICATION FairSpec
CONSTANTS
    x1 = x1
    p1 = p1
    q1 = q1
    q2 = q2
    a1 = a1
    t1 = t1
    t2 = t2
    None = none
    Row = {x1}
    Protocol = {p1}
    ProtocolOf <- MCOneProtocol
    Queue = {q1, q2}
    QueueOf <- MCFirstQueue
    Auditor = {a1}
    Thread = {t1, t2}
INVARIANTS TypeOK OnlineOnce AutoWhileOnline
PROPERTIES ConcludedStays OverdueReleased
