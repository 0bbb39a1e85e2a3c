SPECIFICATION Spec
CONSTANTS
    Launches <- MCLaunches
    Topologies <- MCTopologies
    MaxProcs = 3
    MaxBad = 2
INVARIANTS
    TypeOK
    EveryFileOnce
    FailureReported
PROPERTY
    Terminates
CHECK_DEADLOCK FALSE
