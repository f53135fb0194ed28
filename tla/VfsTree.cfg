CONSTANTS
    a = a
    b = b
    c = c
    x = x
    y = y
    NULL = NULL
    Junk = Junk
    Names <- MCNames
    Bytes <- MCBytes
    NameLen <- MCNameLen
    SIZE_MOD = 8
    RAMFS_MAX_CHILD = 2
    RAMDISK_INITIAL_FILE_ALLOC = 1
    Inos <- Inos4
    Files <- Files4
    Paths <- DeepPaths
    OpenFlags <- ExclusiveCreation
    Offsets <- NoOffsets
    Limits <- NoOffsets
    Payloads <- NoOffsets
    BufferSizes <- Chunks

SPECIFICATION Spec

INVARIANTS
    TypeOK
    NamesIdentify
    ParentsAgree
    OpenedIsReachable
    NoFaultOnceMounted
    OneBufferPerFile

PROPERTIES
    FailedCallsChangeNothing
    ListingIsComplete

CHECK_DEADLOCK FALSE
