\* Threads of one process, no fork().
CONSTANTS
    Contexts = {c1, c2, c3}
    Spaces = {s1}
    WORD = 5
    size_in_u32 = 3
    FewFrames = 10
    Frames <- Searched
    Positions <- Words
    NoFrame = none
    NoSpace = nospace
    Alloc <- Search
    SegPages <- TwoPages
    TABLE_PAGES = 2
    ExpandPages = {1}
    ShrinkSegs = {"RODATA", "DATA"}
    CanFork = FALSE
SYMMETRY ContextSymmetry
VIEW LiveView
SPECIFICATION Spec
INVARIANTS
    NoDangling
    NoLeak
    CodeInSequence
