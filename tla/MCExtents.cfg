SPECIFICATION ExtentsSpec
CONSTANTS
    Attached = {1, 2}
    DefaultVd = 1
    Vds = {0, 2, 3}
    Mcids = {1, 2}
    Counts = {0, 2}
    Prims <- mcPrims
    MAX_CHAIN_HOPS = 5
    MAX_STRIPE_COLS = 3
    MAX_EXTENTS = 5
    BMT_XTNTS = 1
    U32 = 15
    BLKS = 4
    Columns <- mcColumns
    Segments = {0, 1, 2}
    Value <- mcValue
INVARIANTS
    RawIsChain
    ColumnsPartition
    FlatMapIsStriped
PROPERTIES
    ExtentsEnd
