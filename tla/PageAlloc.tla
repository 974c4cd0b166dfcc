----------------------------- MODULE PageAlloc -----------------------------
(***************************************************************************)
(* One page list of memory.c: a bitmap of page frames, the word where the  *)
(* next search starts and a count of free pages.  Frames are numbered from *)
(* the start of the region; the bitmap itself occupies the first ones.     *)
(*                                                                         *)
(* A holder is one place in the kernel that keeps a frame (a pgd, a table, *)
(* a kernel stack, a leaf of a page table).  Each holder allocates and     *)
(* frees its own frame; frames leave the allocator in no other way.        *)
(***************************************************************************)
EXTENDS Integers, FiniteSets

CONSTANTS
    size,       \* frames in the region (pgl->size)
    WORD,       \* bits in a word of the bitmap: 32
    SCAN_DIV,   \* frames per word that is searched: 256 (size >> 8)
    PAGE_BITS,  \* bits of bitmap in one frame: 8 * PAGE_SIZE
    Holders

\* Frames init_pagelist() sets aside for the bitmap: size / 8 bytes, rounded up
\* to pages (every region holds a multiple of 8 frames).
pages_to_reserve == (size + PAGE_BITS - 1) \div PAGE_BITS

\* The words get_free_page() searches (size_in_u32).
size_in_u32 == size \div SCAN_DIV

Frame   == 0 .. size - 1
NoFrame == -1

\* The regions of memory.h fit: the bitmap ends in word 0, at least three words
\* are searched (24 or more) and those words lie in the region.
ASSUME SizeAssumption ==
    /\ size \in Nat /\ WORD \in Nat \ {0} /\ SCAN_DIV \in Nat \ {0}
    /\ PAGE_BITS \in Nat \ {0}
    /\ pages_to_reserve \in 1 .. WORD - 1
    /\ size_in_u32 \in Nat /\ size_in_u32 >= 3
    /\ size_in_u32 * WORD < size
ASSUME HolderAssumption == IsFiniteSet(Holders)

VARIABLES
    bitmap,         \* the frames whose bit is set
    last_free_pos,  \* the word where the next search starts
    free_pages,
    held            \* the frame each holder has, or NoFrame

vars == <<bitmap, last_free_pos, free_pages, held>>

Reserved == 0 .. pages_to_reserve - 1

Word(w) == w * WORD .. w * WORD + WORD - 1
Full(w) == Word(w) \subseteq bitmap

-----------------------------------------------------------------------------
(* get_free_page                                                           *)

\* Where the first loop stops: the first word from last_free_pos that is not
\* full, or size_in_u32.
StopAt(w) ==
    /\ w \in last_free_pos .. size_in_u32
    /\ \A v \in last_free_pos .. w - 1 : Full(v)
    /\ w = size_in_u32 \/ ~Full(w)

\* The search goes on at the word where it stopped, without starting over.
Bug_SearchWord(w) == w

\* The word whose bits are looked at: word 0 again when the search ran off.
SearchWord(w) == IF w >= size_in_u32 THEN 0 ELSE w

\* The first clear bit of word w, or WORD when the word is full.
FreeBit(w, b) ==
    /\ b \in 0 .. WORD
    /\ \A c \in 0 .. b - 1 : w * WORD + c \in bitmap
    /\ b = WORD \/ w * WORD + b \notin bitmap

\* The word of the bit is not added to the base of the bitmap.
Bug_pgl_bmap_set(f) == bitmap \union {f % WORD}

pgl_bmap_set(f) == bitmap \union {f}

pgl_bmap_clear(f) == bitmap \ {f}

\* os_pfn_alloc() by holder h: the count is the only guard.
os_pfn_alloc(h) ==
    /\ held[h] = NoFrame
    /\ free_pages > 0
    /\ \E w \in 0 .. size_in_u32, b \in 0 .. WORD :
          LET pfn == SearchWord(w) * WORD + b
          IN  /\ StopAt(w)
              /\ FreeBit(SearchWord(w), b)
              /\ last_free_pos' = SearchWord(w)
              /\ bitmap' = pgl_bmap_set(pfn)
              /\ held' = [held EXCEPT ![h] = pfn]
    /\ free_pages' = free_pages - 1

\* The count is not given back.
Bug_os_page_free(f) ==
    /\ bitmap' = IF f > 0 /\ f < size THEN pgl_bmap_clear(f) ELSE bitmap
    /\ free_pages' = free_pages

\* os_page_free(): an address outside the region, or its first frame, is
\* refused; otherwise the bit is cleared without looking at it.
os_page_free(f) ==
    IF f > 0 /\ f < size
    THEN bitmap' = pgl_bmap_clear(f) /\ free_pages' = free_pages + 1
    ELSE UNCHANGED <<bitmap, free_pages>>

\* os_pfn_free() by holder h.
os_pfn_free(h) ==
    /\ held[h] # NoFrame
    /\ os_page_free(held[h])
    /\ held' = [held EXCEPT ![h] = NoFrame]
    /\ UNCHANGED last_free_pos

\* The loop that marks the bitmap stops one frame early.
Bug_init_pagelist ==
    /\ bitmap = 0 .. pages_to_reserve - 2
    /\ last_free_pos = pages_to_reserve \div WORD
    /\ free_pages = size - pages_to_reserve

\* init_pagelist(), which finds the memory of the bitmap zeroed.
init_pagelist ==
    /\ bitmap = Reserved
    /\ last_free_pos = pages_to_reserve \div WORD
    /\ free_pages = size - pages_to_reserve

Init == init_pagelist /\ held = [h \in Holders |-> NoFrame]

Next == \E h \in Holders : os_pfn_alloc(h) \/ os_pfn_free(h)

Spec == Init /\ [][Next]_vars

-----------------------------------------------------------------------------
(* Properties.                                                             *)

Holding == {h \in Holders : held[h] # NoFrame}

\* Every variable has its type; last_free_pos is a word that is searched.
TypeOK ==
    /\ bitmap \subseteq Frame
    /\ last_free_pos \in 0 .. size_in_u32 - 1
    /\ free_pages \in Int
    /\ held \in [Holders -> Frame \union {NoFrame}]

\* The frames of the bitmap stay marked, and no holder is ever given one:
\* freeing cannot reach them and the search that starts over at word 0 skips
\* them.
BitmapIsSafe ==
    /\ Reserved \subseteq bitmap
    /\ \A h \in Holders : held[h] \notin Reserved

\* "Must be unique for every context" (of a kernel stack, and true of every
\* page): no frame has two holders.
NoAlias == \A g, h \in Holding : g # h => held[g] # held[h]

\* Every frame a holder has is marked, and nothing else is, so that no frame
\* is lost.
MarkedIsHeld == bitmap = Reserved \union {held[h] : h \in Holding}

\* The count of free pages is the size of the region less what is in use.
CountIsExact == free_pages = size - pages_to_reserve - Cardinality(Holding)

\* The frames of the words that are searched, without the bitmap's.  Only these
\* are ever handed out, by the search that runs off the end too: with
\* size >> 8 words of 32 bits that is an eighth of the region, although
\* free_pages counts all of it.
Zone == pages_to_reserve .. size_in_u32 * WORD - 1
HeldIsSearched == \A h \in Holding : held[h] \in Zone

\* Every frame handed out, and the word where the next search starts, is what
\* FreePage computes from the bitmap and the last position, so that modules in
\* which the order of frames matters may use it for get_free_page().
Search == INSTANCE FreePage
SearchStep ==
    \A h \in Holders : held[h] = NoFrame /\ held'[h] # NoFrame =>
        [pfn |-> held'[h], pos |-> last_free_pos'] = Search!get_free_page(bitmap, last_free_pos)
FollowsSearch == [][SearchStep]_vars

\* The number of holders for which the search never hands out a frame twice:
\* it takes a full word 0, a full last word and the first frame of word 1 in
\* use for a search to run off the end and return that frame again.
FewHolders == Cardinality(Holders) <= 2 * WORD - pages_to_reserve + 1
=============================================================================
