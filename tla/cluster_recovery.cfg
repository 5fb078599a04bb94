\* Every queued job is reported in the end; a garbled entry is drained.
SPECIFICATION FairSpec
CONSTANTS
    s1 = s1
    s2 = s2
    s3 = s3
    j1 = j1
    j2 = j2
    j3 = j3
    None = None
    Subs = {s1, s2}
    JobOf <- DistinctIds
    Async = {}
    Garbled = {s2}
    Workers = {w1, w2}
    Permits = 1
    BatchCap = 2
    ClaimCount = 1
    MaxAttempts = 1
    MaxLen = 0
    GroupReady = TRUE
    PipeModes = {FALSE}
    Faults = {"drop", "crash", "slow", "wipe"}
    MaxFaults = 1
PROPERTIES QueuedIsReported PelDrains
CHECK_DEADLOCK FALSE
