SPECIFICATION FairSpec
CONSTANTS
    Threads = {t1, t2}
    NoThread = NoThread
    NULL = NULL
    Freed = Freed
    Garbage = Garbage
    Bufs = {buf1, buf2}
    b0 = b0
    b1 = b1
    b2 = b2
    Byte <- mcByte
    Tags <- mcTags
    File <- mcFile
    Offsets <- mcOffsets
    Sizes <- mcSizes
INVARIANTS
    ReadsOwnFile
    HeapOwned
    FailsOnlyOnMiss
PROPERTIES
    SomeReadCompletes
    ImplementsFileReads
