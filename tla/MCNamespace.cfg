SPECIFICATION Spec
CONSTANTS
    Dirs <- mcDirs
    Root = "d1"
    Cases <- mcCases
    MaxFaults = 2
    MaxPath = 3
    MaxDepth = 2
INVARIANTS
    ResolvesRight
    ListingComplete
    GetattrMatches
    EachOnce
    NothingMissedSilently
    CountExact
    ScanRowsPerPath
