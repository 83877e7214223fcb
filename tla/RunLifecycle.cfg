SPECIFICATION Spec
CONSTANTS
    p1 = p1
    p2 = p2
    c1 = c1
    Monitor = Monitor
    RetryJobs = RetryJobs
    None = None
    MaxRetries = 1
    Pods = {p1, p2}
    Clients = {c1}
    MaxEvents = 1
CHECK_DEADLOCK FALSE
INVARIANTS
    TypeOK
    OneRetryAtATime
PROPERTIES
    NotTrapped
