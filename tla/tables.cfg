\* Two spaces and three contexts.  Code, data and stack have pts from the
\* start; faults add a second one for the stack.  The shell
\* may get no further command.
CONSTANTS
    Contexts = {c1, c2, c3}
    Spaces = {s1, s2}
    Frames <- Region
    NoFrame = none
    NoSpace = nospace
    Alloc <- FirstFree
    PER_PMD = 2
    CodePt = 8
    LaunchPts = {8, 12, 15}
    MorePts = {14}
    MaxSessions = 2
SYMMETRY ContextSymmetry
SPECIFICATION Spec
INVARIANTS
    TypeOK
    TablesSound
PROPERTIES
    NoOtherLoss
    CountDrifts
CHECK_DEADLOCK FALSE
