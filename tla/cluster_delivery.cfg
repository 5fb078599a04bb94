\* Two jobs with ids of their own, two nodes, worker-side faults.
SPECIFICATION Spec
CONSTANTS
    s1 = s1
    s2 = s2
    s3 = s3
    j1 = j1
    j2 = j2
    j3 = j3
    None = None
    Subs = {s1, s2}
    JobOf <- DistinctIds
    Async = {s2}
    Garbled = {}
    Workers = {w1, w2}
    Permits = 1
    BatchCap = 2
    ClaimCount = 1
    MaxAttempts = 2
    MaxLen = 0
    GroupReady = TRUE
    PipeModes = {FALSE}
    Faults = {"drop", "crash", "slow"}
    MaxFaults = 2
SYMMETRY Symmetry
INVARIANTS TypeOK AckedWasReported WaitingIsPending ExclusiveDelivery
CHECK_DEADLOCK FALSE
