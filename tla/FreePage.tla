------------------------------ MODULE FreePage ------------------------------
(***************************************************************************)
(* The search of get_free_page() (memory.c) as a function of the bitmap    *)
(* and of last_free_pos.  PageAlloc models the page list itself; modules   *)
(* that need the order in which frames are handed out use this one.        *)
(***************************************************************************)
EXTENDS Integers, Sequences

CONSTANTS
    WORD,           \* bits in a word of the bitmap: 32
    size_in_u32     \* words that are searched

ASSUME WordAssumption == WORD \in Nat \ {0} /\ size_in_u32 \in Nat \ {0}

Least(S) == CHOOSE i \in S : \A j \in S : i <= j

\* The next search starts in the word after the one a frame was found in.
Bug_get_free_page(A, pos) ==
    LET Word(w) == w * WORD .. w * WORD + WORD - 1
        stop    == Least({w \in pos .. size_in_u32 : w = size_in_u32 \/ ~(Word(w) \subseteq A)})
        word    == IF stop = size_in_u32 THEN 0 ELSE stop
        bit     == Least({b \in 0 .. WORD : b = WORD \/ word * WORD + b \notin A})
    IN  [pfn |-> word * WORD + bit, pos |-> (word + 1) % size_in_u32]

\* The frame that is found and the new last_free_pos, when the bits of A are
\* set: the first clear bit of the first word from pos on that is not full, or
\* of word 0 when there is none; bit WORD when word 0 is full as well.
get_free_page(A, pos) ==
    LET Word(w) == w * WORD .. w * WORD + WORD - 1
        stop    == Least({w \in pos .. size_in_u32 : w = size_in_u32 \/ ~(Word(w) \subseteq A)})
        word    == IF stop = size_in_u32 THEN 0 ELSE stop
        bit     == Least({b \in 0 .. WORD : b = WORD \/ word * WORD + b \notin A})
    IN  [pfn |-> word * WORD + bit, pos |-> word]

\* One more call: x has the bits that are set, the frames found so far and
\* last_free_pos.
grab(x) ==
    LET next == get_free_page(x.used, x.pos)
    IN  [used |-> x.used \union {next.pfn},
         pfns |-> Append(x.pfns, next.pfn), pos |-> next.pos]

\* What n calls in a row return, in order, and the last_free_pos they leave.
get_free_pages(A, pos, n) ==
    LET after[i \in 0 .. n] ==
            IF i = 0 THEN [used |-> A, pfns |-> <<>>, pos |-> pos] ELSE grab(after[i - 1])
    IN  [pfns |-> after[n].pfns, pos |-> after[n].pos]
=============================================================================
