\* Forks and clones of processes that only shrink DATA.  The frames are in one
\* word of the bitmap, so the lowest that is free is taken.
CONSTANTS
    Contexts = {c1, c2}
    Spaces = {s1, s2}
    WORD = 10
    size_in_u32 = 1
    FewFrames = 9
    Frames <- Searched
    Positions <- Words
    NoFrame = none
    NoSpace = nospace
    Alloc <- Search
    SegPages <- OnePage
    TABLE_PAGES = 2
    ExpandPages = {1, 2}
    ShrinkSegs = {"DATA"}
    CanFork = TRUE
SYMMETRY ContextSymmetry
VIEW LiveView
SPECIFICATION Spec
INVARIANTS
    TypeOK
    NoDangling
    PrivateIsPrivate
    ReadOnlyStays
PROPERTIES
    NoOtherLoss
