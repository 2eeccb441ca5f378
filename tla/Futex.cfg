SPECIFICATION Spec
CONSTANTS
    p = p
    q = q
    t1 = t1
    t2 = t2
    t3 = t3
    Task = {t1, t2, t3}
    Key = {p, q}
    Value = {0, 1}
    Moves <- OneWay
    Budget <- TwoOneNone
    Word = {p}
    Waker = {t3}
    None = None
INVARIANTS
    SleepersSound ReturnHonest
PROPERTIES
    ImplementsFutexSpec
CHECK_DEADLOCK FALSE
