SPECIFICATION Spec
CONSTANTS
    MaxAttempts = 2
    MaxRequests = 2
    MaxCrashes = 2
    Faults = {"start", "stop"}
CHECK_DEADLOCK FALSE
INVARIANTS
    TypeOK
    InReach
PROPERTIES
    AskingEnds
    CollectionEnds
