SPECIFICATION FairSpec
CONSTANTS
    t1 = t1
    t2 = t2
    t3 = t3
    top = top
    mid = mid
    low = low
    hTop = hTop
    hMid = hMid
    hLow = hLow
    r1 = r1
    r2 = r2
    Threads = {t1, t2, t3}
    Contexts = {top, mid, low}
    None = None
    Parent <- Line
    Runnables = {hTop, hMid, hLow, r1, r2}
    Of <- Places
    Hold <- HoldOf
    MaxCounters = 2
    Setups <- TreeSetups
CHECK_DEADLOCK FALSE
INVARIANT QuietUnlessOvertaken
INVARIANT TreeAgrees
PROPERTY CallsReturn
INVARIANT NoRunnableMissed
