SPECIFICATION MCSpec
CONSTANTS
    Ctx = {c1, c2, c3}
    NULL = NULL
    HANDLE_MASK = 15
    DEFAULT_SLOT_SIZE = 2
    Name = {}
    MaxLaunching = 2
    FullOnly = TRUE
    MaxNames = 3
SYMMETRY Symmetry
INVARIANT NewSlotFree
