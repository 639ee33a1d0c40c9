\* Three requests at a time on one image, four in all, and two faults.
SPECIFICATION Spec
CONSTANTS
    Images = {i1}
    Requests = {s1, s2, s3}
    Pictures = {a, b, c, d}
    Costs = {0, 1}
    NoImage = NoImage
    NoPicture = NoPicture
    MaxCalls = 4
    MaxFaults = 2
CHECK_DEADLOCK FALSE
SYMMETRY Symmetry
INVARIANTS
    CostAddsUp
    HistoryFollows
PROPERTY KeepsLog
