--------------------------- MODULE MCAddressSpace ---------------------------
(* Instances of AddressSpace for TLC.                                      *)
EXTENDS AddressSpace, FreePage, TLC

\* The frames of the words that are searched, without frame 0, where the
\* bitmap is.
Searched == 1 .. size_in_u32 * WORD - 1
Words    == 0 .. size_in_u32 - 1

\* The search of get_free_page(), which finds the frame of the bitmap marked.
Search(A, pos, n) == {get_free_pages(A \union {0}, pos, n)}

\* A segment can be expanded to one page less than it has room for: one page
\* of RODATA and one or two of DATA.
OnePage  == [CODE |-> 1, RODATA |-> 2, DATA |-> 2, STACK |-> 2]
TwoPages == [CODE |-> 2, RODATA |-> 2, DATA |-> 3, STACK |-> 2]

\* launch, fork and clone set the segments of a slot before anything reads
\* them, so states that differ in those of UNUSED slots are the same.
LiveView ==
    <<space, [p \in {q \in Contexts : Live(q)} |-> next_free[p]], ptVars, allocated,
      last_free_pos>>

ContextSymmetry == Permutations(Contexts) \union Permutations(Spaces)
=============================================================================
