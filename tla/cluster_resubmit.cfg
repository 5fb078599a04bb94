\* Three submissions of one job_id; lost clients and expiring keys.
SPECIFICATION Spec
CONSTANTS
    s1 = s1
    s2 = s2
    s3 = s3
    j1 = j1
    j2 = j2
    j3 = j3
    None = None
    Subs = {s1, s2, s3}
    JobOf <- SameIdThree
    Async = {s3}
    Garbled = {}
    Workers = {w1, w2}
    Permits = 1
    BatchCap = 2
    ClaimCount = 1
    MaxAttempts = 2
    MaxLen = 1
    GroupReady = FALSE
    PipeModes = {TRUE, FALSE}
    Faults = {"cancel", "expire"}
    MaxFaults = 1
SYMMETRY Symmetry
INVARIANTS OneRunPerJob DuplicateIsServed NeverStale
PROPERTIES ImplementsJobService
CHECK_DEADLOCK FALSE
