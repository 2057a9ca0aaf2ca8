SPECIFICATION Spec
CONSTANTS
    w1 = w1
    w2 = w2
    c1 = c1
    Threads = {w1, w2}
    Thunks = {k1, k2}
    NoThunk = NoThunk
    NoThread = NoThread
    Calls <- AllCalls
    Outcomes <- Anything
    InitCap = 1
    MaxTime = 1
    MaxVersion = 2
CHECK_DEADLOCK FALSE
SYMMETRY ThunkSymmetry
INVARIANT CountAccounts
INVARIANT ListIsQueue
INVARIANT Ownership
PROPERTY ImplementsContract
