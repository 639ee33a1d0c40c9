\* Two jobs in one batch, a breaker that opens at once, and a recovery pass over both,
\* on the shipped database, where a scheduled entry raises on its naive expires_at.
SPECIFICATION FairSpec
CONSTANTS
    Jobs = {j1, j2}
    Workers = {w1}
    Clients = {c1}
    Recoverers = {r1}
    NoJob = NoJob
    MaxRetries = 1
    BatchLimit = 2
    CircuitThreshold = 1
    NaiveTimestamps = TRUE
    MaxFaults = 0
    MaxRequests = 1
CHECK_DEADLOCK FALSE
INVARIANT FailedHasDeadLetter
PROPERTY EveryJobSettles
