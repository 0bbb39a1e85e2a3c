SPECIFICATION Spec
CONSTANTS
    Programs <- MCAppending
    TypeSize = 1
    ChunkSizes <- MCChunkSizes
    SizeMod = 256
CHECK_DEADLOCK FALSE
INVARIANT AppendsToTheEnd
