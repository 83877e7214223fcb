SPECIFICATION Spec
CONSTANTS
    r1 = r1
    s1 = s1
    s2 = s2
    NoRun = NoRun
    NoWrite = NoWrite
    Runs = {r1}
    Streamers = {s1}
    MaxChunks = 2
    LogTimeUpdateInterval = 2
    Faults = {"list", "stream", "write", "crash"}
INVARIANTS
    TypeOK
    StopSticks
    SessionComplete
PROPERTIES
    ImplementsContract
