SPECIFICATION CoreSpec
CONSTANTS
    m1 = m1
    m2 = m2
    Message = {m1, m2}
    Unset = Unset
    DEFAULT_QUEUE_SIZE = 1
    MQ_OVERLOAD = 1
    MaxLength = 4
    Ctx = {c1, c2, c3, c4}
    NULL = NULL
    HANDLE_MASK = 3
    DEFAULT_SLOT_SIZE = 2
    Name = {1, 2, 3}
    MaxLaunching = 1
    FullOnly = TRUE
    MaxNames = 3
SYMMETRY Symmetry
CHECK_DEADLOCK FALSE
INVARIANT NoStrandedMessage
INVARIANT FailsOnlyWhenExhausted
PROPERTY ImplementsFifo
PROPERTY ImplementsRegistry
PROPERTY SweepComplete
