SPECIFICATION FairSpec
CONSTANTS
    t1 = t1
    t2 = t2
    worker = worker
    f1 = f1
    f2 = f2
    f3 = f3
    f4 = f4
    A = A
    B = B
    C = C
    Threads = {t1, t2, worker}
    Worker = worker
    Keys = {A, B, C}
    Filters = {f1, f2, f3, f4}
    Order <- FilterOrder
    Setups <- AllSetups
CHECK_DEADLOCK FALSE
INVARIANT EveryReadyFilterRan
INVARIANT PublicationCompletes
INVARIANT ImmediateIsTransient
PROPERTY EverybodyReturns
 
