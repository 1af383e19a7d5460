SPECIFICATION FairSpec
CONSTANTS
    Ids = {1, 2, 3}
    Vectors <- Three
    Cosine <- CosineOfThree
    Counts = {0, 2}
    Breadths = {0, 1, 3}
    M = 2
    EfConstruction = 2
    TopLevel = 1
    Capacity = 3
INVARIANTS
    TypeOK
    IdsIndexed
    LevelsFollowSeed
    NearestIsBest
PROPERTIES
    OnlyStoredChangesGraph
    ImplementsStore
    CallsEnd
