SPECIFICATION FairSpec
CONSTANTS
    w1 = w1
    w2 = w2
    c1 = c1
    Threads = {w1, w2, c1}
    Thunks = {k1, k2}
    NoThunk = NoThunk
    NoThread = NoThread
    Calls <- RunLoopCalls
    Outcomes <- Anything
    InitCap = 2
    MaxTime = 0
    MaxVersion = 1
CHECK_DEADLOCK FALSE
INVARIANT NoLostWakeup
INVARIANT BarrierFlushes
PROPERTY CallsReturn
