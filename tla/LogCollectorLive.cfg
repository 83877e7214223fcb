SPECIFICATION FairSpec
CONSTANTS
    r1 = r1
    s1 = s1
    s2 = s2
    NoRun = NoRun
    NoWrite = NoWrite
    Runs = {r1}
    Streamers = {s1, s2}
    MaxChunks = 0
    LogTimeUpdateInterval = 1
    Faults = {"stream", "rotation", "deletion"}
PROPERTIES
    MonitorPicksUp
    EventuallyPersisted
    DroppedOnlyWhenDone
