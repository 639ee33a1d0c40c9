\* Two posts in one batch or in two runs, no faults.
SPECIFICATION FairSpec
CONSTANTS
    Posts = {p1, p2}
    Runs = {r1, r2}
    Confirmers = {c1, c2}
    NoPost = NoPost
    ClaimLimit = 2
    MaxFaults = 0
    MaxConfirms = 2
CHECK_DEADLOCK FALSE
PROPERTY ClaimedPostsClose
