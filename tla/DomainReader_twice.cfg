SPECIFICATION Spec
CONSTANTS
    Topologies <- Grids
    CellSizes <- UnitCells
    Origins <- MCOrigins
    Margin = 0
    AskOutside = FALSE
    SizeMod = 256
    IndexMod = 16
INVARIANT EntriesDistinct
