SPECIFICATION FairSpec
CONSTANTS
    t1 = t1
    t2 = t2
    e1 = e1
    e2 = e2
    a = a
    b = b
    Threads = {t1, t2}
    Entries = {e1, e2}
    Calls = {a, b}
    None = None
    Programs <- AllPrograms
    Outcomes = {"return", "throw"}
CHECK_DEADLOCK FALSE
INVARIANT Exclusive
INVARIANT ListenersSound
INVARIANT CallOrder
PROPERTY RequestsAreServed
INVARIANT HeardExactly
