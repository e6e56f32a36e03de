SPECIFICATION Spec
CONSTANTS
    a1 = a1
    a2 = a2
    NoDisk = NoDisk
    MAX_DISKS = 2
    Arrivals = {a1, a2}
    Layout <- TwoDisks
    Ports <- SharedPort
    Letters = {4, 5, 6, 7}
    TakenAtStart = {4}
    MaxFaults = 1
    MaxForeign = 1
INVARIANTS
    TypeOK
    LetterAccounting
    KeysOwnHosts
PROPERTIES
    DroppedOnlyWhenGone
    ImplementsDriveLetters
    EmptySlotReleased
    StableDiskServed
    FaultlessArrivalMounted
