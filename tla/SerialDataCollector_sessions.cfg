SPECIFICATION Spec
CONSTANTS
    out = out
    Programs <- MCPrograms
    NoFile = NoFile
INVARIANTS TypeOK MaxIDCovers StoredIsListed ClosedIsReset
PROPERTY OnlySessionFileChanges
