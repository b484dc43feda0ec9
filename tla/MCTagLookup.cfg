SPECIFICATION Spec
CONSTANTS
    Disks <- mcDisks
    Requests <- mcRequests
    CELLS = 2
    R_SZ = 24
    ATTR_SZ = 4
    MAX_HOPS = 2
    ATTR_HOPS = 1
    SCAN_GUESS = 2
    SCAN_DEFAULT = 1
    SCAN_MAX = 6
INVARIANTS
    SearchesAgree
    ScanComplete
    RecordIsOwn
PROPERTY
    LookupEnds
