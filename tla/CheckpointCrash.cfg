SPECIFICATION Spec
CONSTANTS
    DescBlocks = 5
    DataBlocks = 3
    MaxXid = 5
    MaxFaults = 2
INVARIANTS
    TypeOK
    OpensLastCommit
    OpensNewestReadable
    FailsOnlyUnreadable
