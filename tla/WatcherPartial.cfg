SPECIFICATION Spec
CONSTANTS
    a1 = a1
    a2 = a2
    NoDisk = NoDisk
    MAX_DISKS = 1
    Arrivals = {a1}
    Layout <- OneDisk
    Ports <- OnePort
    Letters = {4, 5, 6}
    TakenAtStart = {}
    MaxFaults = 1
    MaxForeign = 0
PROPERTIES
    EveryVolumeMounted
