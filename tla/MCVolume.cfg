SPECIFICATION FairSpec
CONSTANTS
    FileSize = 13
    Label <- mcLabel
    Letters <- mcLetters
    DefaultSec = 1
    MaxParts = 4
    MagicAt = {1, 2, 9}
    MagicOffset = 1
    MagicLen = 1
    PGSZ = 3
    BLKSZ = 1
    PageNums = {0, 1, 2, 3, 4, 6, 7}
    NULL = NULL
INVARIANTS
    ReadExact
    WithinPartition
    PageCountIsLimit
PROPERTIES
    ReadReturns
