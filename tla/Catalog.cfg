\* Three requests at a time, four in all, on five URLs of two products, one of
\* which was there before migration 0010.
SPECIFICATION Spec
CONSTANTS
    a = a
    upper = upper
    query = query
    other = other
    slug = slug
    it = it
    MaxId = 3
    MaxRows = 5
    Urls <- SmallUrls
    Normal <- SmallNormal
    Folded <- SmallFolded
    Item <- SmallItem
    NoItem = NoItem
    Requests = {s1, s2, s3}
    NoId = 0
    NoRow = NoRow
    NoUrl = NoUrl
    Migrated <- OldProducts
    MaxCalls = 4
    MaxFaults = 1
CHECK_DEADLOCK FALSE
SYMMETRY Symmetry
INVARIANTS
    LookupIsUnique
    CacheNamesItsProduct
    ImportAnswersUrl
    VersionsCovered
    RefreshFindsProduct
