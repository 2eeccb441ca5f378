SPECIFICATION Spec
CONSTANTS
    p = p
    q = q
    t1 = t1
    t2 = t2
    t3 = t3
    Task = {t1, t2}
    Key = {p, q}
    Value = {0, 1}
    Moves <- OneWay
    Budget <- TwoOne
    Word = {p}
    Waker = {t2}
    None = None
PROPERTIES
    AStoreWakes ATimedSleepEnds
CHECK_DEADLOCK FALSE
