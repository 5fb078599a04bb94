\* Three stream jobs for two permits, one local request, every crew of up to two.
SPECIFICATION NodeFairSpec
CONSTANTS
    j1 = j1
    j2 = j2
    j3 = j3
    r1 = r1
    StreamJobs = {j1, j2, j3}
    Requests = {r1}
    Calls = {j1, j2, j3, r1}
    Workers = {w1, w2}
    Crews = {{}, {w1, w2}}
    MaxQueue = 2
    MaxUsize = 99
    NoCall = NoCall
    Permits = 2
    ReadCap = 4
    Configs <- SomeConfigs
    HeartbeatTtl = 2
INVARIANTS NodeTypeOK CountersExact AwaitedHasEnvelope LockedIsLocked
PROPERTIES RefusedOnlyByLocals JobIsSettled LapsesOnlySaturated TermStops
CHECK_DEADLOCK FALSE
