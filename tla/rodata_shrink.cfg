\* RODATA is shrunk by one of two processes that share it.
CONSTANTS
    Contexts = {c1, c2}
    Spaces = {s1, s2}
    WORD = 5
    size_in_u32 = 3
    FewFrames = 10
    Frames <- Searched
    Positions <- Words
    NoFrame = none
    NoSpace = nospace
    Alloc <- Search
    SegPages <- OnePage
    TABLE_PAGES = 2
    ExpandPages = {1}
    ShrinkSegs = {"RODATA"}
    CanFork = TRUE
SYMMETRY ContextSymmetry
SPECIFICATION Spec
INVARIANTS
    NoDangling
