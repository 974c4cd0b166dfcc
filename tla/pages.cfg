\* Three words of three frames are searched in a region of 13 frames whose
\* bitmap takes two, with as many holders as FewHolders allows.
CONSTANTS
    size = 13
    WORD = 3
    SCAN_DIV = 4
    PAGE_BITS = 7
    Holders = {h1, h2, h3, h4, h5}
SYMMETRY HolderSymmetry
SPECIFICATION Spec
INVARIANTS
    TypeOK
    BitmapIsSafe
    NoAlias
    MarkedIsHeld
    CountIsExact
    HeldIsSearched
PROPERTIES
    FollowsSearch
