SPECIFICATION DomainFairSpec
CONSTANTS
    U32 = 63
    BLKS = 2
    Disks <- mcDisks
    ArgLists <- mcArgLists
    META = 2
    MaxVds = 3
    MaxHops = 2
    MaxMap = 7
    VdNums = {0, 1, 2, 3, 4}
    Pages = {0, 1, 2, 3, 4, 5}
INVARIANTS
    OneDomain
    ReadsRightPage
    CleanOpenIsComplete
PROPERTIES
    OpenEnds
