SPECIFICATION Spec
CONSTANTS
    Nodes <- MCNodes
    Trees <- AllTrees
    PrefixSet = {1, 2, 3}
    SuffixSet = {1, 2, 3}
    Accepts <- MCAccepts
    MaxDepth = 2
INVARIANTS
    TypeOK
PROPERTIES
    DeliversWanted
    ScanReturns
CHECK_DEADLOCK FALSE
