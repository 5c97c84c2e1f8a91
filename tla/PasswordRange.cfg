\* One request of any kind, numbers no int can hold among them.  The clients may stop sending.
SPECIFICATION ServerSpec
CONSTANTS
    k1 = k1
    k2 = k2
    q1 = q1
    q2 = q2
    bad = bad
    Keys = {k1, k2}
    NoKey = none
    KeyFile = {k1}
    DefaultKey = none
    Queries = {q1, q2, bad}
    NoQuery = noquery
    Valid <- MCValid
    Handlers = {"IP"}
    EnableApiAuth = TRUE
    EnableRateLimiter = TRUE
    MaxBatchSize = 4
    SequentialMax = 1
    MayThrow = TRUE
    Threads = {t1}
    Requests <- MCRequests
    MaxServed = 1
    MinLength = 2
    MaxLength = 4
    DefaultLength = 2
    IntModulus = 16
CHECK_DEADLOCK FALSE
INVARIANT OutOfRangeRefused
