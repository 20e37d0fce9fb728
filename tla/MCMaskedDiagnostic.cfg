SPECIFICATION Spec
CONSTANTS
    Layouts <- MCLayouts
    Scripts <- MCScripts
    BlockSize = 2
    PhysBlocks = {0, 1, 2, 3, 4, 5}
    Layers = {l1, l2}
    Junk = Junk
    MaxDepartures = 1
INVARIANTS
    AuditSound
    AuditComplete
    AccountsAgree
CHECK_DEADLOCK FALSE
