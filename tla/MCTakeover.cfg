SPECIFICATION Spec
CONSTANTS
    Uid = {"u"}
    Server = {"chat"}
    Call = {1, 2, 3}
    MaxAsking = 2
    MaxInstance = 3
CHECK_DEADLOCK FALSE
PROPERTY TakeoverReported
