CONSTANTS
    p1 = p1
    p2 = p2
    p3 = p3
    OldProducts = {p1, p2, p3}
    NoItem = NoItem
    External <- SmallExternal
    Lowered <- SmallLowered
    Category <- SmallCategory
    Slug <- SmallSlug
    Servers = {s1, s2}
    Pictures = {i1}
    Targets = {6, 9}
    MaxCommands = 3
    MaxFaults = 1
SPECIFICATION Spec
INVARIANTS ServerSeesSchema RevisionHolds ProductsResume OneFirstVersion 
CHECK_DEADLOCK FALSE
