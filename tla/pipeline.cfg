\* Up to three tests in any order, two at a time; one test with any report.
SPECIFICATION Spec
CONSTANTS
    TestCounts = {0, 1, 2, 3, 4}
    MaxTests = 3
    Concurrency = 2
    TimeLimit = 30
    Second = 20
    Slack = 1
    MemLimit = 4
    MaxOut = 2
    Reports <- ReportsByCount
    Builds <- Compilers
    NoReport = NoReport
INVARIANTS TypeOK AcceptedIffAllClean RowsExplainVerdict ReportsAgree
CHECK_DEADLOCK FALSE
