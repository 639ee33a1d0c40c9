\* A publish_now request and a queue worker.
SPECIFICATION Spec
CONSTANTS
    Jobs = {j1}
    Workers = {w1}
    Clients = {c1}
    Recoverers = {}
    NoJob = NoJob
    MaxRetries = 1
    BatchLimit = 1
    CircuitThreshold = 1
    NaiveTimestamps = FALSE
    MaxFaults = 0
    MaxRequests = 0
CHECK_DEADLOCK FALSE
INVARIANT NoDuplicatePublishing
