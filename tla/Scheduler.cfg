CONSTANTS
    Boot = Boot
    NULL = NULL
    Daemon = Daemon
    K = K
    U1 = U1
    U2 = U2
    V1 = V1
    pd = pd
    pk = pk
    pu = pu
    pv = pv
    sk = sk
    su = su
    sv = sv
    Tasks <- MCTasks
    UserTasks <- MCUserTasks
    Procs <- MCProcs
    Spaces <- MCSpaces
    ProcOf <- MCProcOf
    MainOf <- MCMainOf
    SpaceOf <- MCSpaceOf
    BootSpace = sk
    BootOrder <- OrderAll
    MAX_PROCESSES = 5

SPECIFICATION FairSpec

INVARIANTS
    TypeOK
    CpuBelongsToTask
    SavedContextIntact
    NoUseOfDestroyedSpace
    MainDeathEndsGroup
    NextTaskExists

PROPERTIES
    DeadStaysDead
    ReleasedOnceWhenDead
    ImplementsTaskLife
    EveryTaskRuns
    DeadIsReaped
    SyscallReturns
