\* alarm() and handlers, with a process that sleeps while the alarm is set.
CONSTANTS
    MAX_PROCESSES = 3
    Frames = {1, 2, 3, 4, 5, 6, 7}
    BootPgd = boot
    NoFrame = none
    Alloc <- FirstFree
    SleepTicks = {2}
    AlarmTicks = {0, 1, 3}
    HandledSigs = {"SIGSEGV", "SIGALRM"}
SPECIFICATION Spec
INVARIANTS
    AlarmKeepsGoing
