\* A child writes more than max_output, which is larger than a pipe.
SPECIFICATION Spec
CONSTANTS
    e1 = e1
    e2 = e2
    Nobody = Nobody
    Execs = {e1}
    Settings <- OneSetting
    Total = 2
    Volume <- Chatty
    PipeCap = 1
    MaxOut = 2
INVARIANTS TooMuchOutputIsSaid
CHECK_DEADLOCK FALSE
