SPECIFICATION FairSpec
CONSTANTS
    q1 = q1
    q2 = q2
    r1 = r1
    r2 = r2
    b1 = b1
    b2 = b2
    Readers = {q1}
    Runs = {r1}
    Buffers = {b1}
    BufferSize = 2
    MaxLen = 5
    MaxInt = 15
    Sizes <- AllSizes
    Offsets = {0, 1, 2, 3, 4, 5, 6}
    MaxRetries = 2
    Faults = {"connect", "deletion"}
CHECK_DEADLOCK FALSE
INVARIANTS
    TypeOK
    ReadsFileContent
PROPERTIES
    RequestsEnd
