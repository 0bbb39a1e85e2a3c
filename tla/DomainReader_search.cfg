SPECIFICATION Spec
CONSTANTS
    Topologies <- MCTopologies
    CellSizes <- MCCells
    Origins <- MCOrigins
    Margin = 0
    AskOutside = TRUE
    SizeMod = 256
    IndexMod = 16
INVARIANTS TypeOK EveryFileRead PositionsExist GridPieceExact ContainerSpansEntries
PROPERTY Terminates
