SPECIFICATION Spec
CONSTANTS
    N = 3
    GlobalName = {"db"}
    Workloads <- MCWorkloads
CHECK_DEADLOCK FALSE
INVARIANT RemoteOrder
PROPERTY EventuallyDelivered
PROPERTY CallersAnswered
