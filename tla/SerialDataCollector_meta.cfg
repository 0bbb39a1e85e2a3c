SPECIFICATION Spec
CONSTANTS
    out = out
    Programs <- MCMergedPrograms
    NoFile = NoFile
INVARIANT ReadMetaFindsData
