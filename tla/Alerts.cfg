SPECIFICATION Spec
CONSTANTS
    t1 = t1
    t2 = t2
    o1 = o1
    o2 = o2
    o3 = o3
    None = None
    Threads = {t1, t2}
    Objects = {o1, o2, o3}
    Count = 2
    MaxEvents = 3
    MaxChanges = 2
    MaxRestarts = 1
    MaxFailures = 1
    MaxOverlaps = 1
CHECK_DEADLOCK FALSE
INVARIANTS
    TypeOK
    CachesAgree
    FiresAtCount
PROPERTIES
    ResetClosesActivation
    CooldownEnds
