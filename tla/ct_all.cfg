SPECIFICATION FairSpec
CONSTANTS
    c1 = c1
    c2 = c2
    k1 = k1
    k2 = k2
    Clients = {c1, c2}
    Worker = w
    NoThread = NoThread
    Thunks = {k1, k2}
    AbortLambda = AbortLambda
    Priorities = {0, 1, 2}
    NoPriority = NoPriority
    Programs <- AllPrograms
    Outcomes = {"return", "throw", "abort", "stop"}
CHECK_DEADLOCK FALSE
INVARIANT OnStopOnce
INVARIANT WaitMeansDone
INVARIANT PrioritySound
PROPERTY CallsReturn
PROPERTY GracefulRunsAll
