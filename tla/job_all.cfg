SPECIFICATION FairSpec
CONSTANTS
    c1 = c1
    c2 = c2
    Clients = {c1, c2}
    NoThread = NoThread
    Thunks = {k1, k2}
    AbortLambda = AbortLambda
    MaxTasks = 3
    Programs <- OneStopper
    Outcomes = {"return"}
CHECK_DEADLOCK FALSE
INVARIANT OneDispatcher
INVARIANT NothingStranded
INVARIANT NoDangling
INVARIANT WaitMeansIdle
PROPERTY EveryThunkSettles
PROPERTY WaitReturns
