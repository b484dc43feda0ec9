SPECIFICATION Spec
CONSTANTS
    U32 = 15
    BLKS = 4
    Columns <- mcSparse
    Segments = {1, 2}
    MaxCols = 3
    MaxExtents = 5
INVARIANTS
    NoMappedPageLost
