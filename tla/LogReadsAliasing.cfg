SPECIFICATION Spec
CONSTANTS
    q1 = q1
    q2 = q2
    r1 = r1
    r2 = r2
    b1 = b1
    b2 = b2
    Readers = {q1, q2}
    Runs = {r1, r2}
    Buffers = {b1}
    BufferSize = 2
    MaxLen = 3
    MaxInt = 9
    Sizes <- WholeFile
    Offsets = {0}
    MaxRetries = 2
    Faults = {}
CHECK_DEADLOCK FALSE
INVARIANTS
    ReadsFileContent
