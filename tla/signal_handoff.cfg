SPECIFICATION FairSpec
CONSTANTS
    t1 = t1
    t2 = t2
    e1 = e1
    e2 = e2
    a = a
    b = b
    Threads = {t1, t2}
    Entries = {e1, e2}
    Calls = {a, b}
    None = None
    Programs <- CallPrograms
    Outcomes = {"return"}
CHECK_DEADLOCK FALSE
PROPERTY EveryCallIsMade
