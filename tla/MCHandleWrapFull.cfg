SPECIFICATION MCSpec
CONSTANTS
    Ctx = {c1, c2, c3, c4}
    NULL = NULL
    HANDLE_MASK = 7
    DEFAULT_SLOT_SIZE = 4
    Name = {}
    MaxLaunching = 1
    FullOnly = FALSE
    MaxNames = 3
SYMMETRY Symmetry
INVARIANT ExpandsFullTable
