SPECIFICATION FairSpec
CONSTANTS
    c1 = c1
    c2 = c2
    Callers = {c1, c2}
    Calls <- MCCalls
    Retries = 1
    RetryAfters = {1}
    Resets = {2}
    Minute = 1
    MaxTime = 2
    Nil = Nil
INVARIANTS
    TypeOK
    DeadlineCovers
PROPERTIES
    DeadlineMonotone
    OwnRateLimitRespected
    KeepsContract
    CallsReturn
