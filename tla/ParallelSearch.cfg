SPECIFICATION FairSpec
CONSTANTS
    Ids = {1, 2, 3, 4}
    Vectors <- Scores
    Cosine <- ScoreOf
    Counts = {0, 2}
    ThreadCount = 3
    Capacity = 4
INVARIANTS
    TypeOK
    NoScanOutlivesItsSearch
PROPERTIES
    ImplementsStore
    CallsEnd
