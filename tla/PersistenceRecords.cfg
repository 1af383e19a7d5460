SPECIFICATION Spec
CONSTANTS
    empty = empty
    long = long
    Ids <- TwoIds
    IdLength <- LengthOf
    Vectors = {v1}
    Accepted = {v1}
    Dimension = 1
    Word = 128
    MaxFloats = 15
    MaxChars = 63
    Words = {0, 1, 2, 3, 15, 127}
    Capacity = 2
    Cuts = {0, 33, 36, 41, 47, 49}
    Saves = 2
INVARIANTS
    IntactFilesLoad
    TypeOK
    RecordsFitFile
