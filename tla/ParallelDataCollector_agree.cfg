SPECIFICATION Spec
CONSTANTS
    Ranks = {r1, r2}
    Iterations = {0, 1, 2}
    Programs <- MCPrograms
    CtrMod = 3
    MaxAhead = 2
INVARIANTS TypeOK CollectivesMatch ViewsAgree
PROPERTY CallsReturn
