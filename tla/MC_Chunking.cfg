SPECIFICATION Spec
CONSTANTS
    Items <- SmallItems
    MaxBlocks = 5
    FAQ_MAX_TOKENS = 14
    DOC_MAX_TOKENS = 5
    DOC_OVERLAP_TOKENS = 2
CHECK_DEADLOCK FALSE
INVARIANTS
    TypeOK
    NothingLost
    UnderOwnHeading
    InOrder
    WithinBudget
