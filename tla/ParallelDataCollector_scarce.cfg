SPECIFICATION Spec
CONSTANTS
    Ranks = {r1, r2}
    Iterations = {0, 1}
    Programs <- MCScarceAppends
    CtrMod = 3
    MaxAhead = 1
INVARIANT CollectivesMatch
