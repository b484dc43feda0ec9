SPECIFICATION Spec
CONSTANTS
    U32 = 63
    BLKS = 2
    PG = 3
    MaxSize = 9
    Files <- mcFiles
INVARIANT
    FragHolesFilled
