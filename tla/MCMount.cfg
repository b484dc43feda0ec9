SPECIFICATION Spec
CONSTANTS
    Flags = {"-o", "-f", "-h", "-r"}
    Letters = {"g"}
    Numbers = {"8"}
    RegularFiles = {"v1", "v2"}
    MaxVds = 2
    MaxArgs = 3
    MaxFilesets = 2
    Cases <- mcCases
INVARIANTS
    ReleasedOnce
    ServesAlive
    PicksFileset
    ArgsSplit
