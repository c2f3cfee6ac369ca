SPECIFICATION MCSpec
CONSTANTS
    Id = {a, b}
    TIME_NEAR = 2
    TIME_LEVEL = 2
    MaxTimeout = 15
    MaxDiff = 2
    Worker = {w1, w2, w3}
    None = None
    MaxReady = 2
    w1 = w1
    w2 = w2
    f = f
    hs = hs
    s1 = s1
    s2 = s2
    MaxOps = 2
CHECK_DEADLOCK FALSE
INVARIANT OnTime
INVARIANT FiresInOrder
PROPERTY EventuallyFires
PROPERTY QueueIsTaken
PROPERTY Terminates
PROPERTY EventuallyServed
PROPERTY EventuallyReclaimed
