\* The parts of the library, each on a small instance.
SPECIFICATION LibrarySpec
CONSTANTS
    Size = 32
    WordBits = 64
    Socks = {s1, s2}
    NoSock = NoSock
    Fds = {3, 4}
    MaxCallbacks = 1

    Threads = {t1, t2}
    NoThread = NoThread
    EventModules = {m1, m2, m3}
    HAVE_SETJMP_H = TRUE

    Clients = {c1, c2}
    Times = {d1, d2}
    Fields = {tm_hour, tm_min}
    Cleared = Cleared

    Handles = {h1, h2}
    NoBlock = NoBlock
    Blocks = {b1, b2}
    Chunk = 2
    MaxSize = 3
    MaxRefs = 3

    pa = pa
    pb = pb
    pc = pc
    Paths = {pa, pb, pc}
    Bytes = {0, 1, 2, 3, 4}
    InitialDisk <- Disk0
    Missing = Missing
    Hole = 0
    Objects = {f1, f2}
    NoObject = NoObject
    Block = 2
    DiskLimit = 3

    Dirs = {dir1}
    PlainFiles = {file1, file2}
    Links = {link1}
    Runtime = Runtime
    Elsewhere = Elsewhere
    Nowhere = Nowhere

    Texts <- Texts0
    Names = {"a", "b"}
    Absent = Absent
    MaxParses = 2

    NUL = "0"
    Upper = "A"
    Lower = "a"
    Strs <- Strs0
    Patterns <- Patterns0
    Replacements <- Replacements0
    MaxLength = 6
    Templates <- Templates0
    VariableMaps <- VariableMaps0
    FilterName <- FilterName0
    TrueWords <- TrueWords0
    Yes <- Yes0
    No <- No0
    MaxExpansion = 18
\* Parts end: a returned call, an exception, or no block that fits.
CHECK_DEADLOCK FALSE
INVARIANTS
    ConnectHonest
    DescriptorsOwned
    WalkComplete
    TimeConsistent
    BufferAccounting
    CopyFaithful
    SanitizeExact
    GoodMeansWhole
    ReplaceIsSplitJoin
    GrowthBounded
PROPERTIES
    AttemptResolved
    BindEnds
    MutexReleased
