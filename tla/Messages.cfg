SPECIFICATION MCSpec
CONSTANTS
    t1 = t1
    t2 = t2
    t3 = t3
    s1 = s1
    s2 = s2
    c1 = c1
    c2 = c2
    evt = evt
    Task = {t1, t2, t3}
    Calls <- Roles
    Budget <- TwoOneTwo
    Waits <- FourWaits
    Notes <- SetAndClear
    Capacity = 2
    Want <- ReadOnly
    None = None
    Space = {s1, s2}
    IpcTask = {t1, t2, t3}
    Home <- Homes
    IpcCalls <- IpcRoles
    IpcBudget <- TwoOneOne
    Chan = {c1, c2}
    Plain = {evt}
    InitChan = {c1}
    InitList <- TwoSpaces
    Feats <- WaitOnly
    MaxArgs = 1
    MaxQueue = 1
    NoRef = NoRef
    CallId = {1, 2}
    Sync = {TRUE, FALSE}
    MaxEvents = 1
    NoPacket = NoPacket
    Base = 4
    MAGIC = 13
    ObjId = 6
    Hdl = {1, 2}
    MaxVec = 2
INVARIANTS
    DispatcherBounded AnsweredOnce WaitersReachable OkWasSignalled
    OneOwner  NothingStranded  WireExact
PROPERTIES
    NeverForgotten
CHECK_DEADLOCK FALSE
