SPECIFICATION Spec
CONSTANTS
    NumSegments = 2
    MaxTagBuffer = 4
    Lists = {"chunks:1,2", "chunks:2,3"}
    RefsOf <- MCRefsOf
    Tokens <- MCTokens
    MaxTokens = 3
PROPERTIES
    AttemptNotLost
CHECK_DEADLOCK FALSE
