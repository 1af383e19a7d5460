SPECIFICATION SamplerSpec
CONSTANTS
    Word = 8
    Bounds = {2, 3, 4}
    Cap = 2
    MaxNodes = 3
    MaxDraws = 4
CHECK_DEADLOCK FALSE
INVARIANTS
    PromotionIsOneInM
    LevelsSpellTheStream
