SPECIFICATION MCSpec
CONSTANTS
    s1 = s1
    s2 = s2
    Service = {s1, s2}
    MaxSocket = 2
    MaxId = 4
    Workloads <- MCWorkloads
    MsgSize = 2
    MaxSending = 2
    WARNING_SIZE = 3
    Req <- MCReq
    Parts = 1
    MaxConn = 2
    UserCalls = {{}, {"close"}, {"changehost"}}
CHECK_DEADLOCK FALSE
INVARIANT Accounted
INVARIANT StreamIntact
INVARIANT CloseFlushes
PROPERTY EventuallySent
INVARIANT RightAnswer
INVARIANT InStep
PROPERTY RequestsEnd
