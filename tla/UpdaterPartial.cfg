SPECIFICATION Spec
CONSTANTS
    watcher = watcher
    manual = manual
    Procs = {watcher}
    MaxVersion = 2
    MaxFailures = 1
INVARIANTS
    CurrentMeansBoth
