\* RLIMIT_CPU is rounded up to whole seconds.
SPECIFICATION Spec
CONSTANTS
    TestCounts = {1}
    MaxTests = 3
    Concurrency = 2
    TimeLimit = 30
    Second = 20
    Slack = 1
    MemLimit = 4
    MaxOut = 2
    Reports <- ReportsByCount
    Builds <- Compilers
    NoReport = NoReport
INVARIANTS AcceptedIsInTime
CHECK_DEADLOCK FALSE
