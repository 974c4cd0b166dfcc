\* sleep(0) is among the calls user programs make.
CONSTANTS
    MAX_PROCESSES = 3
    Frames = {1, 2, 3, 4, 5, 6, 7}
    BootPgd = boot
    NoFrame = none
    Alloc <- FirstFree
    SleepTicks = {0, 1}
    AlarmTicks = {}
    HandledSigs = {}
SPECIFICATION FairSpec
PROPERTIES
    SleepExpires
