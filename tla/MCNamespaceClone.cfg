SPECIFICATION Spec
CONSTANTS
    Dirs <- mcDirs
    Root = "d1"
    Cases <- mcCloneCases
    MaxFaults = 1
    MaxPath = 3
    MaxDepth = 2
INVARIANT
    CloneListsShared
