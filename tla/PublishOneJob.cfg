\* One job under two workers, two requests at a time, a recovery pass and two faults.
SPECIFICATION Spec
CONSTANTS
    Jobs = {j1}
    Workers = {w1, w2}
    Clients = {c1, c2}
    Recoverers = {r1}
    NoJob = NoJob
    MaxRetries = 1
    BatchLimit = 1
    CircuitThreshold = 1
    NaiveTimestamps = FALSE
    MaxFaults = 2
    MaxRequests = 2
CHECK_DEADLOCK FALSE
SYMMETRY Symmetry
INVARIANTS
    TypeOK
    FailedHasDeadLetter
    PostsAccountedFor
    ClaimHasOwner
    RetryBudget
    NoLostRetry
PROPERTIES
    ClosedJobsStayClosed
    PostsWithinPermits
