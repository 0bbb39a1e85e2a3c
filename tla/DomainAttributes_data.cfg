SPECIFICATION DomainSpec
CONSTANTS
    Programs <- MCPrograms
    TypeSize = 1
    ChunkSizes <- MCChunkSizes
    SizeMod = 256
    DomainOffset <- MCOffset
CHECK_DEADLOCK FALSE
INVARIANTS AttributesTypeOK PartsTile ContentsExact ChunksFit DomainIsGiven
           HalfWrittenNotRead DomainReadExact
