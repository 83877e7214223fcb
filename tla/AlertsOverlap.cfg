SPECIFICATION Spec
CONSTANTS
    t1 = t1
    t2 = t2
    o1 = o1
    o2 = o2
    o3 = o3
    None = None
    Threads = {t1, t2}
    Objects = {o1, o2, o3}
    Count = 1
    MaxEvents = 1
    MaxChanges = 1
    MaxRestarts = 0
    MaxFailures = 0
    MaxOverlaps = 1
CHECK_DEADLOCK FALSE
INVARIANTS
    ResetIsNotOverridden
