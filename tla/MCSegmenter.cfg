SPECIFICATION SegmenterSpec
CONSTANTS
    Texts <- MCTexts
    MaxTokenLen = 3
    TargetTokens = 1
    CapTokens = 2
    SinkTokens = 1
INVARIANTS
    WellSegmented
    CoarsestBoundary
    FocusShowsTheSegment
CHECK_DEADLOCK FALSE
