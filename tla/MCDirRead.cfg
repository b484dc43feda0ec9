SPECIFICATION Spec
CONSTANTS
    U32 = 63
    BLKS = 2
    BLKSZ = 64
    Directories <- mcDirectories
    MaxDirPages = 4
INVARIANTS
    WalkIsSound
    NoPageLeftOut
    DamageContained
PROPERTY
    DirEnds
