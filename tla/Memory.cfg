CONSTANTS
    Cpu = {1, 2}
    MAX_ORDER = 3
    NrFrames = 8
    PFTYPE_BOUND = 4
    Mmap <- BootRanges
    Reserved = {0}
    MaxGrant = 3
    Layouts <- Requests
    HeapFrames = {1, 2, 3, 4}
    MaxLive = 4
    NR_ENTRIES = 2
    Top = 2
    Regions <- MapRanges
    Single = {1, 6}
    Attrs = {"r", "rw"}
    Shapes <- PhysShapes
    NrPhysFrames = 3
    PhysVal = {1}
    MaxMaps = 1
    MaxPin = 2
    Worker = {1, 2}
    RootLen = 4
    SubVirt = {1}
    PhysId = {1, 2}
    PhysLen = 2
    PAGE = 2
    FileLen = 6
    VirtLen = 16
    Segs <- Segments
    SymByte = {1, 2, 34}
    MaxSyms = 3
    HashBits = 6
    Bits = 4
    liba = liba
    libb = libb
    libc = libc
    libd = libd
    Prog = Prog
    Lib = {Prog, liba, libb, libc}
    Needed <- Graphs
    Weak = {liba}
    Shadow <- Shadows
    TlsSize <- TlsSizes
    MaxLoads = 5
    Holder = {1, 2}
    NrInner = 2
    Width = 4
    MaxOwn = 2
    MaxRaw = 1
    MaxLost = 2
    User = {1, 2}
    Key = {liba, libb, libc, libd}
    HashOf <- Hashes
    MIN_CAPACITY = 2
    MaxOps = 4
    MemLen = 5
    Chr = {0, 1, 2}
    QWORD = 2
    BitArr = 2
SPECIFICATION MCSpec
INVARIANTS    ImagesExact SharedExact 
PROPERTY ImplementsPageSource
CHECK_DEADLOCK FALSE
