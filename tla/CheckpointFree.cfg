SPECIFICATION Spec
CONSTANTS
    DescBlocks = 5
    DataBlocks = 3
    MaxXid = 3
    MaxFaults = 0
INVARIANTS
    FreeCountCurrent
