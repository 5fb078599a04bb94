\* Two submissions of one job_id, the node crashes once; pipes run whole.
SPECIFICATION Spec
CONSTANTS
    s1 = s1
    s2 = s2
    s3 = s3
    j1 = j1
    j2 = j2
    j3 = j3
    None = None
    Subs = {s1, s2}
    JobOf <- SameId
    Async = {}
    Garbled = {}
    Workers = {w1}
    Permits = 1
    BatchCap = 2
    ClaimCount = 1
    MaxAttempts = 2
    MaxLen = 0
    GroupReady = TRUE
    PipeModes = {TRUE}
    Faults = {"crash"}
    MaxFaults = 1
SYMMETRY Symmetry
INVARIANTS DuplicateHasSource
CHECK_DEADLOCK FALSE
