\* Scripts, up to three markers, states and sources of bounded size, each
\* varied by itself.
SPECIFICATION Spec
CONSTANTS
    Pages <- AllPages
    Below <- NodesBelow
CHECK_DEADLOCK FALSE
INVARIANTS
    BraceEndsObject
    NoProductLost
    PriceUnits
    MadeUpPriceIsLastResort
