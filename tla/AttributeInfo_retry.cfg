SPECIFICATION Spec
CONSTANTS
    Infos <- MCInfos
    AttrIds = {1, 2}
    Attributes <- MCAttributes
    Globals <- MCGlobals
    Foreign <- MCForeign
    Given <- MCGiven
    Collectors = {"SERIAL", "PARALLEL"}
    None = None
    i1 = i1
    i2 = i2
    i3 = i3
    own = own
    foreign = foreign
SYMMETRY MCSymmetry
INVARIANT NDimsKnown
