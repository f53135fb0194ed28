CONSTANTS
    a = a
    b = b
    c = c
    x = x
    y = y
    NULL = NULL
    Junk = Junk
    Names <- MCNames
    Bytes <- MCBytes
    NameLen <- MCNameLen
    SIZE_MOD = 8
    RAMFS_MAX_CHILD = 2
    RAMDISK_INITIAL_FILE_ALLOC = 1
    Inos <- Inos3
    Files <- Files3
    Paths <- OneNestedPath
    OpenFlags <- ExclusiveCreation
    Offsets <- SmallOffsets
    Limits <- SmallLimits
    Payloads <- SmallPayloads
    BufferSizes <- NoOffsets

SPECIFICATION Spec

INVARIANT SizeFitsBuffer

PROPERTIES
    ImplementsFileStore

CHECK_DEADLOCK FALSE
