\* A scheduled job on SQLite, no faults.
SPECIFICATION FairSpec
CONSTANTS
    Jobs = {j1}
    Workers = {w1}
    Clients = {c1}
    Recoverers = {}
    NoJob = NoJob
    MaxRetries = 1
    BatchLimit = 1
    CircuitThreshold = 1
    NaiveTimestamps = TRUE
    MaxFaults = 0
    MaxRequests = 0
CHECK_DEADLOCK FALSE
PROPERTY ScheduledJobSettles
