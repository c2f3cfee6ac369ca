SPECIFICATION Spec
CONSTANTS
    w1 = w1
    w2 = w2
    f = f
    s1 = s1
    s2 = s2
    s3 = s3
    None = None
    Handle = {s1, s2, s3}
    Worker = {w1, w2}
    Feeder = {f}
    Initial <- TwoServices
    Monitor = None
    Remote = s1
    Weight <- Weights
    MaxOps = 3
CHECK_DEADLOCK FALSE
INVARIANT OneOwner
INVARIANT RefCounted
INVARIANT NoUseAfterFree
INVARIANT RunsAlone
INVARIANT AbortIsSafe
