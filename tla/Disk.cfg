CONSTANTS
    hda = hda
    hdb = hdb
    hdc = hdc
    primary = primary
    secondary = secondary
    NULL = NULL
    Drives <- MCDrives
    all_drives <- MCAllDrives
    Channel <- MCChannel
    Machines <- MCMachines
    Lbas <- MCLbas
    Counts <- MCCounts
    UNUSED = "unused"
    WORD = 8
    LBA_MOD = 32
    ENTRIES = 2
    MAX_COUNT = 4
    DSK_MAX_VOLUMES = 6
    BLD_SIZE_ERR <- SizeErr
    BLD_SIZE_UNK <- SizeUnk

SPECIFICATION FairSpec

INVARIANTS
    TypeOK
    NothingPending
    VolumesApart
    VolumeReadsStayInside

PROPERTIES
    ImplementsBlockDrive
    EveryCallReturns
    HealthyDrivesServed

CHECK_DEADLOCK FALSE
