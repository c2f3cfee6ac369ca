SPECIFICATION MCSpec
CONSTANTS
    Thread = {t1, t2, t3, t4}
    Coroutine = {k1, k2, k3, k4}
    None = None
    MaxLevel = 2
    Uid = {"u", "v"}
    Server = {"chat"}
    Call = {1, 2, 3}
    MaxAsking = 1
    MaxInstance = 2
CHECK_DEADLOCK FALSE
INVARIANT WriterAlone
INVARIANT SectionSafe
INVARIANT NoRegistrationLost
PROPERTY LockProgress
PROPERTY InOrder
PROPERTY Served
PROPERTY CallsEnd
PROPERTY FreshAgent
