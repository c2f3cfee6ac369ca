SPECIFICATION Spec
CONSTANTS
    Co = {k1, k2, k3}
    Peer = {p}
    None = None
    MaxSession = 2
    MaxRequest = 2
    MaxQueued = 2
    Batch = TRUE
CHECK_DEADLOCK FALSE
INVARIANT CallersReported
