CONSTANTS
    t1 = t1
    t2 = t2
    NoThread = NoThread
    Threads = {t1, t2}
    Small = 2
    Big = 4
    Devices <- MCDevices
    MaxErrors = 1
    BlockSize = 4
    BlockLen = 3
    Requests <- MCRequests
SPECIFICATION Spec
CHECK_DEADLOCK FALSE
INVARIANTS
    TypeOK
    ReadsExactly
    ReadsFile
    FileServed
    ReadsCompressed
    CompressedServed
PROPERTY RequestsReturn
