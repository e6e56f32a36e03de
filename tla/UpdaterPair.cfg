SPECIFICATION Spec
CONSTANTS
    watcher = watcher
    manual = manual
    Procs = {watcher, manual}
    MaxVersion = 3
    MaxFailures = 1
INVARIANTS
    TypeOK
    EachBinaryInItsFile
PROPERTIES
    EventuallyRunsLatest
