SPECIFICATION Spec
CONSTANTS
    Ids = {1, 2, 3, 4, 5, 6, 7}
    Vectors <- Two
    Cosine <- CosineOfTwo
    Counts = {2, 7}
    Breadths = {1}
    M = 2
    EfConstruction = 2
    TopLevel = 0
    Capacity = 7
CONSTRAINT
    AscendingOrDescending
INVARIANTS
    Chained
    DegreesCapped
    MissingBacklinkOnlyWhenFull
    BaseSearchFillsUp
