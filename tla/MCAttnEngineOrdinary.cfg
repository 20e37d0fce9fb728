SPECIFICATION Spec
CONSTANTS
    r1 = r1
    r2 = r2
    g = g
    l = l
    f = f
    Requests = {r1, r2}
    Views = {g, l}
    Global = g
    NoTag = NoTag
    Nothing = Nothing
    Prompt <- MCPrompt
    Impatient = {r1}
    MaxOut = 2
    Chunk = 1
    Kinds = {"plain", "da"}
    Setups = {"unsupported"}
    TokenizerMayFail = FALSE
INVARIANTS
    OrdinaryUnaffected
CHECK_DEADLOCK FALSE
