SPECIFICATION MCSpec
CONSTANTS
    t1 = t1
    t2 = t2
    t3 = t3
    Thread = {t1, t2, t3}
    Word <- Words
    None = None
    Programs <- MCPrograms
    MASK = 5
    Own <- Owns
    MIN_CAP = 2
    MAX_BATCH = 3
    BLOCK_CAP = 2
    Kid = {k1, k2, k3}
    LKey = {"a", "b", "c"}
    Plain = {"c"}
    MaxDepth = 3
    MaxVals = 5
    Task = {t1, t2, t3}
    NoTask = NoTask
    Ev = {"event", "lock_ops", "no_writer", "no_readers", "send_ops", "recv_ops", "stream_ops"}
    Jobs <- AllJobs
    Capacity = 1
    Fut = {"a", "b"}
    FutKinds = {"none", "recv", "phys", "wait"}
    DispCap = 2
    MaxKey = 3
    MaxSignal = 2
    ExTask = {t1, t2, t3}
    Worker = {w1}
    Main = m
    Clearer = {x1}
    Strm = {1, 2}
    StrmByte = {0, 1}
    MinCap = 2
    MaxSize = 3
    MaxBuf = 2
    MaxIo = 2
    MaxPath = 5
    MaxPair = 3
    Conn = {1, 2}
    FName = {"a", "b"}
    NrNodes = 4
    MaxAsked = 4
    Caller = {t1, t2}
    LName = {"a", "b"}
    NrDirs = 3
    MaxCalls = 3
INVARIANTS  MutexExclusive RwExclusive OnceSafe QueuesExact  
CHECK_DEADLOCK FALSE
