SPECIFICATION MCSpec
CONSTANTS
    NULL = NULL
    c1 = c1
    c2 = c2
    i1 = i1
    i2 = i2
    r1 = r1
    r2 = r2
    big = big
    e1 = e1
    Ids = {i1, i2}
    Claimers = {c1, c2}
    TaskNames <- AllTasks
    Requests <- AllRequests
    Completions <- AllCompletions
    Unencodable <- TooLarge
    LeaseDuration = 2
    ClaimLimit = 1
    ReclaimBatch = 1
    MaxLag = 1
    MaxTime = 4
    MaxAttempts = 3
INVARIANTS
    Inductive
    AnswersHold
    KeysAgree
PROPERTIES
    TerminalIsFinal
    NoTakeover
    DeadlineRule
    ImplementsLifecycle
CHECK_DEADLOCK FALSE
