\* Three posts, claimed two at a time, under two runs, two confirm requests and two faults.
SPECIFICATION Spec
CONSTANTS
    Posts = {p1, p2, p3}
    Runs = {r1, r2}
    Confirmers = {c1, c2}
    NoPost = NoPost
    ClaimLimit = 2
    MaxFaults = 2
    MaxConfirms = 3
CHECK_DEADLOCK FALSE
SYMMETRY Symmetry
INVARIANTS
    TypeOK
    OutboxTellsState
    VerdictsAreTrue
    ProcessingHasOwner
PROPERTY FollowsLifecycle
