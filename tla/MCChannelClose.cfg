SPECIFICATION Spec
CONSTANTS
    Req = {"a", "b", "c"}
    Parts = 2
    MaxConn = 2
    UserCalls = {{}}
CHECK_DEADLOCK FALSE
INVARIANT ClosedAfterReader
