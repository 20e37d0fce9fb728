SPECIFICATION Spec
CONSTANTS
    Layouts <- MCLayouts
    BlockSize = 2
    MaxLen = 9
    PhysBlocks = {0, 1, 2, 3, 4}
    Junk = Junk
INVARIANTS
    ReadsExactlyVisible
    PagedInv
CHECK_DEADLOCK FALSE
