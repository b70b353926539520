SPECIFICATION MCSpec
CONSTANTS
    s1 = s1
    s2 = s2
    q1 = q1
    q2 = q2
    Sinks = {s1, s2}
    DeadLetterSinks = {q1, q2}
    Kinds <- MCKinds
    Limit <- MCLimit
    MaxLimit = 3
    SendAttempts = 2
    Leased = TRUE
    Counts = TRUE
    Cancels = TRUE
    SettleFails = TRUE
INVARIANTS
    Inductive
    AckedWasEmitted
    FailedWasDeadLettered
    PolicyExhausted
PROPERTIES
    Settles
CHECK_DEADLOCK FALSE
