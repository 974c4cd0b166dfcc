\* Two user slots that tick, sleep, fork, clone, take signals and end.
CONSTANTS
    MAX_PROCESSES = 3
    HandledSigs = {"SIGSEGV", "SIGALRM"}
    Code = {"a", "b", "c"}
    Entry = "a"
    Advance <- Loop
    MaxFrames = 1
SPECIFICATION SwitchSpec
PROPERTIES
    VirtualCpus
