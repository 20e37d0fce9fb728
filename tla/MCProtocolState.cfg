SPECIFICATION Spec
CONSTANTS
    NumSegments = 2
    MaxTagBuffer = 4
    Lists = {"chunks:1,2", "chunks:2,3"}
    RefsOf <- MCRefsOf
    Tokens <- MCTokens
    MaxTokens = 4
INVARIANTS
    StepViewsFollowText
    TextConserved
    AttemptsCounted
    ProtocolInv
CHECK_DEADLOCK FALSE
