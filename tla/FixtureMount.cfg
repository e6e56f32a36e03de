SPECIFICATION Spec
CONSTANTS
    BlockBytes = 4096
    Blocks = 24
    Formatted <- MCFormatted
    NameLen <- MCNameLen
    Hash <- MCHash
    ZattrBytes = 42
    RsrcBytes = 12000
    MaxRuns = 2
    MaxFaults = 2
    Paths <- MCPaths
    PageSizes <- MCPageSizes
INVARIANTS
    TypeOK
    FreeCountsMatch
    SpaceAccounted
    TreeSound
    FilesReadBack
    GivesUpForAReason
    OpensWhatWasWritten
    PageFromWholeFill
    ListingComplete
    ToolsPrintAll
CHECK_DEADLOCK FALSE
