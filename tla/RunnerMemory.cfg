SPECIFICATION Spec
CONSTANTS
    Nobody = Nobody
    Deliveries = {d1, d2}
    Runners = {r1}
    First = r1
    Commands = {}
    Concurrency = 1
    CancelSafe = TRUE
    GivesBack = FALSE
    FetchFails = FALSE
    DrainTimesOut = FALSE
    CommandTimesOut = FALSE
INVARIANTS
    NothingLost
CHECK_DEADLOCK FALSE
