SPECIFICATION FairSpec
CONSTANTS
    None = None
    Frames <- FrameIds
    MaxSentences = 3
INVARIANTS
    NoneLostNoneTwice
    MapHoldsNewest
PROPERTIES
    AnswerIsRecent
    ReportsInOrder
    EverySentenceIsTried
