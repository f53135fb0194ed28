CONSTANTS
    NULL = NULL
    ImageFrame = 0
    Frames <- MCFrames
    Maps <- MCMaps
    BITS = 24
    Index <- MCIndex
    UserSlots <- MCUserSlots
    ImagePage <- MCImagePage
    HeapPages <- MCHeapPages
    UserPages <- MCUserPages
    MaxSpaces = 2

SPECIFICATION Spec

INVARIANTS
    TypeOK
    UserPagesMapped
    KernelSeenEverywhere
    OneUsePerFrame
    UsedIsReachable

