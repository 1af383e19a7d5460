SPECIFICATION FairSpec
CONSTANTS
    none = none
    Unset = none
    BlockSize = 8
    Dimensions = {3, 8, 9}
CHECK_DEADLOCK FALSE
INVARIANTS
    TypeOK
    NoDataRace
    BarriersMatch
    ScoreIsDeterministic
PROPERTIES
    RowIsScored
