SPECIFICATION Spec
CONSTANTS
    r1 = r1
    r2 = r2
    g = g
    l = l
    f = f
    Requests = {r1}
    Views = {g, l}
    Global = g
    NoTag = NoTag
    Nothing = Nothing
    Prompt <- MCPromptOne
    Impatient = {r1}
    MaxOut = 2
    Chunk = 1
    Kinds = {"da"}
    Setups = {"ok"}
    TokenizerMayFail = FALSE
PROPERTIES
    ReleaseIsTraced
CHECK_DEADLOCK FALSE
