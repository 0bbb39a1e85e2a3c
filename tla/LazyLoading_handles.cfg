SPECIFICATION LazySpec
CONSTANTS
    RequestedHandles = 2
    UInt32Max = 2
    SizeMod = 16
    Ids = {0, 1, 3}
    Schemes = {"FULLNAME", "MPI", "ITERATIONS"}
    Names <- MCBaseNames
    Topologies <- MCTopologies
    NoName = NoName
INVARIANTS
    TypeOK
    VictimIsOpen
    LeastCounterAgrees
    TableBounded
    HandleOnItsFile
    OnlyCreatedFilesOpen
    IndInv
    LoadedStaysReadable
PROPERTY
    ImplementsSession
