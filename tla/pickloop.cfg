\* Every table of five slots and every caller; the loop stops when it returns.
CONSTANTS
    MAX_PROCESSES = 5
SPECIFICATION Spec
INVARIANTS
    InTable
    PickIsNearest
PROPERTIES
    ScanAdvances
    PickEnds
CHECK_DEADLOCK FALSE
