SPECIFICATION FairSpec
CONSTANTS
    Ids = {1, 2}
    Vectors <- Scores
    Cosine <- ScoreOf
    Counts = {0, 1}
    Readers = {r1, r2}
    Matrices = {m1, m2, m3}
    Nothing = Nothing
    Capacity = 2
INVARIANTS
    TypeOK
    KernelSeesEntries
    NothingLeaks
PROPERTIES
    ImplementsStore
    CallsEnd
