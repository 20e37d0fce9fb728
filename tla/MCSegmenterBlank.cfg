SPECIFICATION SegmenterSpec
CONSTANTS
    Texts <- MCTexts
    MaxTokenLen = 3
    TargetTokens = 1
    CapTokens = 2
    SinkTokens = 1
INVARIANT EverySegmentIsAddressable
CHECK_DEADLOCK FALSE
