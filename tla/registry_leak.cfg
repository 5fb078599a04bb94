\* One post comes, waits and goes.
SPECIFICATION Spec
CONSTANTS
    p1 = p1
    p2 = p2
    s1 = s1
    j1 = j1
    NoRing = NoRing
    Jobs = {j1}
    Posts = {p1}
    Async = {}
    Readers = {}
    Sockets = {}
    JobOf <- SharedJob
    Deadlines = {}
    Faults = {}
    MaxFaults = 0
INVARIANTS RegistryNeverLeaks
CHECK_DEADLOCK FALSE
