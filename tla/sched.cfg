\* Fork, clone, sleep and exit in a table of three user slots, under a
\* timer that keeps ticking.
CONSTANTS
    MAX_PROCESSES = 4
    Frames = {1, 2, 3, 4, 5, 6, 7, 8, 9}
    BootPgd = boot
    NoFrame = none
    Alloc <- FirstFree
    SleepTicks = {2}
    AlarmTicks = {}
    HandledSigs = {}
SPECIFICATION FairSpec
INVARIANTS
    TypeOK
    RunningIsCurrent
    CpuMatchesContext
    StacksUnique
    IdleIsLegit
    SleepCountsOnlyInSleepers
PROPERTIES
    RoundRobin
    ImplementsDispatch
    EveryReadyRuns
    SleepersWake
