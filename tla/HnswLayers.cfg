SPECIFICATION Spec
CONSTANTS
    Ids = {1, 2, 3, 4}
    Vectors <- Fan
    Cosine <- CosineOfFan
    Counts = {0}
    Breadths = {1}
    M = 2
    EfConstruction = 3
    TopLevel = 1
    Capacity = 4
CONSTRAINT
    AscendingOrDescending
INVARIANTS
    SelectionIsWhatTheLoopsDo
    LinksInRange
    EntryOnTop
    DegreesCapped
