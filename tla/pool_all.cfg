SPECIFICATION FairSpec
CONSTANTS
    t1 = t1
    t2 = t2
    t3 = t3
    a = a
    b = b
    Threads = {t1, t2, t3}
    Pools = {a, b}
    Entries = {1, 2, 3, 4}
    None = None
    Limits <- BothOne
    Unbounded = 9
    Programs <- AllPrograms
    Outcomes = {"ok", "initial"}
    Overwrites = FALSE
CHECK_DEADLOCK FALSE
INVARIANT CountExact
INVARIANT CacheSound
INVARIANT SleeperHasWaker
INVARIANT RunDownIsFinal
PROPERTY GoneUntouched
PROPERTY CallsReturn
