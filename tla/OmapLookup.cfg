SPECIFICATION Spec
CONSTANTS
    Nodes <- MCNodes
    Trees <- AllTrees
    Wanted <- AllWanted
    MaxDepth = 2
INVARIANTS
    TypeOK
    HitIsNewestVersion
    MissIsAbsent
    SearchInBounds
PROPERTIES
    LookupReturns
CHECK_DEADLOCK FALSE
