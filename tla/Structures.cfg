CONSTANTS
    flush = flush  task = task
    Callables = {flush, task}
    Verified = {flush}
    Targets <- MCTargets
    MaxHeld = 4
    MaxIds = 4
    Sockets = {s1, s2, s3, s4}
    Fds = {f1, f2}
    None = None
    Backends = {"epoll", "kqueue", "poll", "select"}
    Disables = {"epoll", "kqueue", "select"}
    w1 = w1  w2 = w2
    Count = 2
    Works = {w1, w2}
    Nothing = Nothing
    Kinds = {"files", "tasks"}
    EventFiles = {"unix", "pipe", "socket"}
    ReadSize = 1
    Failing = {w2}
    Nodes <- MCNodes
    Own = 0
    Target = 3
    Valid = {1, 2}
    Knows <- MCKnows
    Bootstrap <- MCBootstrap
    BucketSize = 1
    IdModulus = 3
    Timeout = 1
    GcTimeout = 2
    MaxLookups = 2
    MaxRepeats = 1
    MaxRaises = 1
    ByteBits = 4
    Trees <- MCTrees
    Bits = 5  Magic = 17  ExponentBits = 4  MaxNumber = 99
    Names <- MCNames
    Addresses4 <- MCAddresses4
    MaxAnswers = 2
    Layouts <- MCLayouts
    BlockSize = 2  PieceBlocks = 2  MaxBad = 1
    HandshakeSize = 3  LengthSize = 2  Lengths = {0, 1, 3}  MaxSent = 3
    Roots <- MCRoots
SPECIFICATION Spec
INVARIANTS PollSafety PoolSafety StructuresSafety
PROPERTIES IsQueue StructuresEnd
CHECK_DEADLOCK FALSE
