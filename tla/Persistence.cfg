SPECIFICATION Spec
CONSTANTS
    empty = empty
    long = long
    Ids <- TwoIds
    IdLength <- LengthOf
    Vectors = {v1, v2}
    Accepted = {v1}
    Dimension = 1
    Word = 128
    MaxFloats = 15
    MaxChars = 63
    Words = {0, 1, 2, 3, 15, 127}
    Capacity = 1
    Cuts <- AnyCut
    Saves = 2
INVARIANTS
    LoadedIsSaved
