\* A post and the result WebSocket wait for a job id that a second post resubmits;
\* every kind of fault.
SPECIFICATION PollSpec
CONSTANTS
    p1 = p1
    p2 = p2
    s1 = s1
    j1 = j1
    NoRing = NoRing
    Jobs = {j1}
    Posts = {p1, p2}
    Async = {p2}
    Readers = {s1}
    Sockets = {s1}
    JobOf <- SharedJob
    Deadlines = {s1}
    Faults = {"listener", "get", "publish", "cancel", "expire"}
    MaxFaults = 2
INVARIANTS TypeOK WaiterIsRouted NoLostWakeup BellMeansResult
PROPERTIES PollDelivers NotFoundIsFinished
CHECK_DEADLOCK FALSE
