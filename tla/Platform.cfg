CONSTANTS
    free = free
    pro = pro
    business = business
    Users = {u1, u2}
    Slugs = {main, other}
    Plans = {free, pro, business}
    Statuses = {active}
    PlanLimits <- SmallLimits
    PlanFlags <- SmallFlags
    Requests = {r1, r2}
    NoJob = NoJob
    MaxTenants = 2
    MaxWorkspaces = 1
    MaxRows = 2
    MaxDays = 2
    MaxCalls = 5
SPECIFICATION Spec
SYMMETRY Interchangeable
INVARIANTS GrantsFromAdmins OneMembership LimitsFollowPlan AuditTellsRows
CHECK_DEADLOCK FALSE
