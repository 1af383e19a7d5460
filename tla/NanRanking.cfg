SPECIFICATION Spec
CONSTANTS
    Ids = {1, 2, 3, 4}
    Numbers = {1, 2, 3}
    NaN = NaN
    MaxSize = 4
INVARIANTS
    DescendingScores
