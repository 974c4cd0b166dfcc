-------------------------- MODULE PageAllocProofs --------------------------
(***************************************************************************)
(* Proofs about PageAlloc for every region size, word width and set of     *)
(* holders.  What needs a bound on the holders says so: FewHolders.        *)
(***************************************************************************)
EXTENDS PageAlloc, Sequences, FiniteSetTheorems, NaturalsInduction, TLAPS

\* The sizes are natural numbers.
LEMMA Sizes == /\ size \in Nat /\ WORD \in Nat /\ WORD >= 2
               /\ pages_to_reserve \in Nat
               /\ pages_to_reserve >= 1 /\ pages_to_reserve < WORD
               /\ size_in_u32 \in Nat /\ size_in_u32 >= 3
               /\ size_in_u32 * WORD \in Nat /\ size_in_u32 * WORD < size
<1>1. /\ size \in Nat /\ WORD \in Nat /\ size_in_u32 \in Nat
      /\ pages_to_reserve \in 1 .. WORD - 1
      /\ size_in_u32 >= 3 /\ size_in_u32 * WORD < size
  BY SizeAssumption
<1>2. size_in_u32 * WORD \in Nat
  BY <1>1
<1> QED
  BY <1>1, <1>2

\* Multiplication by WORD is monotone.
LEMMA TimesWord == ASSUME NEW v \in Nat, NEW w \in Nat, v <= w
                   PROVE  /\ v * WORD \in Nat /\ w * WORD \in Nat
                          /\ v * WORD <= w * WORD
BY Sizes

\* Where the words that are searched lie.
LEMMA WordPlace == ASSUME NEW w \in 0 .. size_in_u32 - 1
                   PROVE  /\ w * WORD \in Nat
                          /\ w * WORD + WORD < size
                          /\ w > 0 => w * WORD >= WORD
                          /\ w > 1 => w * WORD >= 2 * WORD
<1>1. w + 1 \in Nat /\ w + 1 <= size_in_u32 /\ w \in Nat
  BY Sizes
<1>2. (w + 1) * WORD <= size_in_u32 * WORD
  BY <1>1, Sizes, TimesWord
<1>3. (w + 1) * WORD = w * WORD + WORD
  BY <1>1, Sizes
<1>4. w * WORD \in Nat
  BY <1>1, Sizes
<1>5. w * WORD + WORD < size
  BY <1>2, <1>3, <1>4, Sizes
<1>6. w > 0 => w * WORD >= WORD
  BY <1>1, Sizes, TimesWord
<1>7. w > 1 => w * WORD >= 2 * WORD
  BY <1>1, Sizes, TimesWord
<1> QED
  BY <1>4, <1>5, <1>6, <1>7

\* The frame a search returns lies in the region, behind the bitmap's frames
\* if those are marked.
LEMMA Searched ==
    ASSUME TypeOK, Reserved \subseteq bitmap,
           NEW w \in 0 .. size_in_u32, NEW b \in 0 .. WORD, StopAt(w), FreeBit(SearchWord(w), b)
    PROVE  LET pfn == SearchWord(w) * WORD + b
           IN  /\ SearchWord(w) \in 0 .. size_in_u32 - 1
               /\ pfn \in Frame /\ pfn \notin Reserved /\ pfn > 0
               /\ pfn \in bitmap => w = size_in_u32 /\ Full(0) /\ pfn = WORD
<1> DEFINE s == SearchWord(w)
           pfn == s * WORD + b
<1>1. s \in 0 .. size_in_u32 - 1
  BY Sizes DEF SearchWord
<1>2. s * WORD \in Nat /\ s * WORD + WORD < size /\ (s > 0 => s * WORD >= WORD)
  BY <1>1, WordPlace
<1>3. pfn \in Frame
  BY <1>2, Sizes DEF Frame
<1>4. pfn \in bitmap => b = WORD
  BY DEF FreeBit
<1>5. b = WORD => Full(s)
  <2> SUFFICES ASSUME b = WORD, NEW f \in s * WORD .. s * WORD + WORD - 1
               PROVE  f \in bitmap
    BY DEF Full, Word
  <2>1. f - s * WORD \in 0 .. b - 1
    BY <1>2, Sizes
  <2>2. s * WORD + (f - s * WORD) \in bitmap
    BY <2>1 DEF FreeBit
  <2>3. s * WORD + (f - s * WORD) = f
    BY <1>2, Sizes
  <2> QED
    BY <2>2, <2>3
<1>6. pfn \in bitmap => w = size_in_u32
  <2>1. w # size_in_u32 => s = w
    BY Sizes DEF SearchWord
  <2>2. w # size_in_u32 => ~Full(w)
    BY DEF StopAt
  <2> QED
    BY <1>4, <1>5, <2>1, <2>2
<1>7. w = size_in_u32 => s = 0
  BY Sizes DEF SearchWord
<1>8. pfn \in bitmap => Full(0) /\ pfn = WORD
  BY <1>4, <1>5, <1>6, <1>7, Sizes
<1>9. pfn \notin Reserved
  <2>1. CASE pfn \in bitmap
    BY <1>8, <2>1, Sizes DEF Reserved
  <2>2. CASE pfn \notin bitmap
    BY <2>2
  <2> QED
    BY <2>1, <2>2
<1>10. pfn > 0
  <2>1. 0 \in Reserved
    BY Sizes DEF Reserved
  <2> QED
    BY <1>3, <1>9, <2>1 DEF Frame
<1> QED
  BY <1>1, <1>3, <1>6, <1>8, <1>9, <1>10

-----------------------------------------------------------------------------
(* What holds for any number of holders.                                   *)

AnyInv == TypeOK /\ BitmapIsSafe /\ CountIsExact

LEMMA InitAny == Init => AnyInv
<1> SUFFICES ASSUME Init PROVE AnyInv
  OBVIOUS
<1>1. TypeOK
  <2>1. bitmap \subseteq Frame
    BY Sizes, WordPlace, 0 \in 0 .. size_in_u32 - 1 DEF Init, init_pagelist, Reserved, Frame
  <2>2. pages_to_reserve \div WORD = 0
    BY Sizes
  <2>3. held \in [Holders -> Frame \union {NoFrame}]
    BY DEF Init
  <2> QED
    BY <2>1, <2>2, <2>3, Sizes DEF Init, init_pagelist, TypeOK
<1>2. BitmapIsSafe
  BY Sizes DEF Init, init_pagelist, BitmapIsSafe, Reserved, NoFrame
<1>3. CountIsExact
  <2>1. Holding = {}
    BY DEF Init, Holding
  <2> QED
    BY <2>1, FS_EmptySet, Sizes DEF Init, init_pagelist, CountIsExact
<1> QED
  BY <1>1, <1>2, <1>3 DEF AnyInv

\* A holder that takes or gives back a frame changes the number of holders
\* that have one by one.
LEMMA HoldingCount ==
    ASSUME NEW h \in Holders, NEW f \in Frame, TypeOK
    PROVE  /\ IsFiniteSet(Holding) /\ Cardinality(Holding) \in Nat
           /\ held[h] = NoFrame /\ held' = [held EXCEPT ![h] = f]
                 => /\ Holding' = Holding \union {h}
                    /\ Cardinality(Holding') = Cardinality(Holding) + 1
           /\ held[h] # NoFrame /\ held' = [held EXCEPT ![h] = NoFrame]
                 => /\ Holding' = Holding \ {h}
                    /\ Cardinality(Holding') = Cardinality(Holding) - 1
<1>1. IsFiniteSet(Holding)
  BY HolderAssumption, FS_Subset DEF Holding
<1>2. Cardinality(Holding) \in Nat
  BY <1>1, FS_CardinalityType
<1>3. f # NoFrame
  BY DEF Frame, NoFrame
<1>4. ASSUME held[h] = NoFrame, held' = [held EXCEPT ![h] = f]
      PROVE  Holding' = Holding \union {h} /\ h \notin Holding
  BY <1>3, <1>4 DEF Holding, TypeOK
<1>5. ASSUME held[h] # NoFrame, held' = [held EXCEPT ![h] = NoFrame]
      PROVE  Holding' = Holding \ {h} /\ h \in Holding
  BY <1>5 DEF Holding, TypeOK
<1>6. /\ Cardinality(Holding \union {h}) = IF h \in Holding THEN Cardinality(Holding)
                                           ELSE Cardinality(Holding) + 1
      /\ Cardinality(Holding \ {h}) = IF h \in Holding THEN Cardinality(Holding) - 1
                                      ELSE Cardinality(Holding)
  BY <1>1, FS_AddElement, FS_RemoveElement
<1> QED
  BY <1>1, <1>2, <1>4, <1>5, <1>6

LEMMA AllocAny == ASSUME AnyInv, NEW h \in Holders, os_pfn_alloc(h) PROVE AnyInv'
<1> USE DEF AnyInv
<1>1. PICK w \in 0 .. size_in_u32, b \in 0 .. WORD :
         /\ StopAt(w)
         /\ FreeBit(SearchWord(w), b)
         /\ last_free_pos' = SearchWord(w)
         /\ bitmap' = bitmap \union {SearchWord(w) * WORD + b}
         /\ held' = [held EXCEPT ![h] = SearchWord(w) * WORD + b]
  BY DEF os_pfn_alloc, pgl_bmap_set
<1> DEFINE pfn == SearchWord(w) * WORD + b
<1>2. /\ SearchWord(w) \in 0 .. size_in_u32 - 1
      /\ pfn \in Frame /\ pfn \notin Reserved
  BY <1>1, Searched DEF BitmapIsSafe
<1>3. held[h] = NoFrame /\ free_pages' = free_pages - 1
  BY DEF os_pfn_alloc
<1>4. TypeOK'
  BY <1>1, <1>2, <1>3 DEF TypeOK
<1>5. BitmapIsSafe'
  BY <1>1, <1>2 DEF BitmapIsSafe, TypeOK
<1>6. CountIsExact'
  <2>1. Cardinality(Holding') = Cardinality(Holding) + 1 /\ Cardinality(Holding) \in Nat
    BY <1>1, <1>2, <1>3, HoldingCount
  <2> QED
    BY <1>3, <2>1, Sizes DEF CountIsExact
<1> QED
  BY <1>4, <1>5, <1>6

LEMMA FreeAny == ASSUME AnyInv, NEW h \in Holders, os_pfn_free(h) PROVE AnyInv'
<1> USE DEF AnyInv
<1> DEFINE f == held[h]
<1>1. f \in Frame /\ f \notin Reserved
  BY DEF os_pfn_free, TypeOK, BitmapIsSafe
<1>2. f > 0 /\ f < size
  BY <1>1, Sizes DEF Frame, Reserved
<1>3. /\ bitmap' = bitmap \ {f}
      /\ free_pages' = free_pages + 1
      /\ held' = [held EXCEPT ![h] = NoFrame]
      /\ UNCHANGED last_free_pos
      /\ held[h] # NoFrame
  BY <1>2 DEF os_pfn_free, os_page_free, pgl_bmap_clear
<1>4. TypeOK'
  BY <1>3 DEF TypeOK
<1>5. NoFrame \notin Reserved
  BY Sizes DEF NoFrame, Reserved
<1>6. BitmapIsSafe'
  BY <1>1, <1>3, <1>5 DEF BitmapIsSafe, TypeOK
<1>7. CountIsExact'
  <2>1. Cardinality(Holding') = Cardinality(Holding) - 1 /\ Cardinality(Holding) \in Nat
    BY <1>1, <1>3, HoldingCount
  <2> QED
    BY <1>3, <2>1, Sizes DEF CountIsExact
<1> QED
  BY <1>4, <1>6, <1>7

LEMMA NextAny == AnyInv /\ [Next]_vars => AnyInv'
<1>1. ASSUME AnyInv, UNCHANGED vars PROVE AnyInv'
  BY <1>1 DEF AnyInv, vars, TypeOK, BitmapIsSafe, CountIsExact, Holding
<1> QED
  BY <1>1, AllocAny, FreeAny DEF Next

LEMMA SpecAny == Spec => []AnyInv
<1>1. Init => AnyInv
  BY InitAny
<1>2. AnyInv /\ [Next]_vars => AnyInv'
  BY NextAny
<1> QED
  BY <1>1, <1>2, PTL DEF Spec

\* The allocator stays in its region: every frame handed out exists and the
\* search always starts at a word that is searched.
THEOREM AllocTypeCorrect == Spec => []TypeOK
<1>1. AnyInv => TypeOK
  BY DEF AnyInv
<1> QED
  BY <1>1, SpecAny, PTL

\* The frames of the bitmap are never handed out, even by a search that starts
\* over at a full word 0.
THEOREM BitmapStaysSafe == Spec => []BitmapIsSafe
<1>1. AnyInv => BitmapIsSafe
  BY DEF AnyInv
<1> QED
  BY <1>1, SpecAny, PTL

\* free_pages is exact for any number of holders, also after a frame has been
\* handed out twice.
THEOREM CountStaysExact == Spec => []CountIsExact
<1>1. AnyInv => CountIsExact
  BY DEF AnyInv
<1> QED
  BY <1>1, SpecAny, PTL

\* The frame of a search lies in a word that is searched: bit WORD is only
\* returned for word 0, so it is a frame of word 1.
LEMMA SearchedZone ==
    ASSUME TypeOK, Reserved \subseteq bitmap,
           NEW w \in 0 .. size_in_u32, NEW b \in 0 .. WORD, StopAt(w), FreeBit(SearchWord(w), b)
    PROVE  SearchWord(w) * WORD + b \in Zone
<1>1. PICK s, pfn, top : s = SearchWord(w) /\ pfn = SearchWord(w) * WORD + b /\ top = size_in_u32 * WORD
  OBVIOUS
<1>2. /\ s \in 0 .. size_in_u32 - 1
      /\ pfn \in Frame /\ pfn \notin Reserved
      /\ pfn \in bitmap => pfn = WORD
  BY <1>1, Searched
<1>3. pfn \in Nat /\ pfn >= pages_to_reserve
  BY <1>2, Sizes DEF Frame, Reserved
<1>4. top \in Nat /\ WORD < top
  <2>1. 2 * WORD <= top
    BY <1>1, Sizes, TimesWord
  <2> QED
    BY <1>1, <2>1, Sizes
<1>5. CASE pfn \in bitmap
  BY <1>1, <1>2, <1>3, <1>4, <1>5, Sizes DEF Zone
<1>6. CASE pfn \notin bitmap
  <2>1. PICK base \in Nat : base = s * WORD
    BY <1>2, Sizes
  <2>2. base + WORD <= top
    <3>1. s + 1 \in Nat /\ s + 1 <= size_in_u32 /\ (s + 1) * WORD = base + WORD
      BY <1>2, <2>1, Sizes
    <3> QED
      BY <1>1, <3>1, Sizes, TimesWord
  <2>3. CASE b < WORD
    BY <1>1, <1>3, <1>4, <2>1, <2>2, <2>3, Sizes DEF Zone
  <2>4. CASE b = WORD
    <3>1. w = size_in_u32 \/ ~Full(w)
      BY DEF StopAt
    <3>2. s = IF w = size_in_u32 THEN 0 ELSE w
      BY <1>1, Sizes DEF SearchWord
    <3>3. Full(s)
      <4> SUFFICES ASSUME NEW f \in base .. base + WORD - 1 PROVE f \in bitmap
        BY <2>1 DEF Full, Word
      <4>1. PICK c \in 0 .. WORD - 1 : f = base + c
        <5>1. f - base \in 0 .. WORD - 1 /\ f = base + (f - base)
          BY <2>1, Sizes
        <5> QED
          BY <5>1
      <4> QED
        BY <1>1, <2>1, <2>4, <4>1 DEF FreeBit
    <3>4. s = 0
      BY <3>1, <3>2, <3>3
    <3>5. pfn = WORD
      BY <1>1, <2>1, <2>4, <3>4, Sizes
    <3> QED
      BY <1>1, <1>3, <1>4, <3>5, Sizes DEF Zone
  <2> QED
    BY <2>3, <2>4, Sizes
<1> QED
  BY <1>5, <1>6

\* os_pfn_alloc() never hands out a frame beyond the words that are searched,
\* for any number of holders and any history: what free_pages counts there is
\* out of reach.
THEOREM OnlySearchedIsHeld == Spec => []HeldIsSearched
<1>1. Init => HeldIsSearched
  BY DEF Init, HeldIsSearched, Holding
<1>2. AnyInv /\ HeldIsSearched /\ [Next]_vars => HeldIsSearched'
  <2> SUFFICES ASSUME AnyInv, HeldIsSearched, [Next]_vars, NEW g \in Holders, held'[g] # NoFrame
               PROVE  held'[g] \in Zone
    BY DEF HeldIsSearched, Holding
  <2>1. \A h \in Holders : held[h] # NoFrame => held[h] \in Zone
    BY DEF HeldIsSearched, Holding
  <2>2. TypeOK /\ Reserved \subseteq bitmap /\ held \in [Holders -> Frame \union {NoFrame}]
    BY DEF AnyInv, BitmapIsSafe, TypeOK
  <2>3. ASSUME NEW h \in Holders, os_pfn_alloc(h) PROVE held'[g] \in Zone
    <3>1. PICK w \in 0 .. size_in_u32, b \in 0 .. WORD :
             /\ StopAt(w) /\ FreeBit(SearchWord(w), b)
             /\ held' = [held EXCEPT ![h] = SearchWord(w) * WORD + b]
      BY <2>3 DEF os_pfn_alloc
    <3>2. SearchWord(w) * WORD + b \in Zone
      BY <2>2, <3>1, SearchedZone
    <3> QED
      BY <2>1, <2>2, <3>1, <3>2
  <2>4. ASSUME NEW h \in Holders, os_pfn_free(h) PROVE held'[g] \in Zone
    BY <2>1, <2>2, <2>4 DEF os_pfn_free
  <2>5. CASE UNCHANGED vars
    BY <2>1, <2>5 DEF vars
  <2> QED
    BY <2>3, <2>4, <2>5 DEF Next
<1> QED
  BY <1>1, <1>2, SpecAny, PTL DEF Spec
-----------------------------------------------------------------------------
(* The search as a function.                                               *)

\* Least() returns the least element, where there is one.
LEMMA LeastIs ==
    ASSUME NEW S \in SUBSET Int, NEW i \in S, \A j \in S : i <= j
    PROVE  Search!Least(S) = i
<1>1. \E k \in S : \A j \in S : k <= j
  OBVIOUS
<1>2. /\ Search!Least(S) \in S
      /\ \A j \in S : Search!Least(S) <= j
  BY <1>1 DEF Search!Least
<1>3. PICK k : k = Search!Least(S)
  OBVIOUS
<1>4. k \in Int /\ i \in Int /\ k <= i /\ i <= k
  BY <1>2, <1>3
<1>5. k = i
  BY <1>4
<1> QED
  BY <1>3, <1>5

\* Where the loops over words and over bits stop is what FreePage computes.
LEMMA SearchIs ==
    ASSUME TypeOK, NEW w \in 0 .. size_in_u32, NEW b \in 0 .. WORD,
           StopAt(w), FreeBit(SearchWord(w), b)
    PROVE  Search!get_free_page(bitmap, last_free_pos)
               = [pfn |-> SearchWord(w) * WORD + b, pos |-> SearchWord(w)]
<1>1. PICK S : S = {v \in last_free_pos .. size_in_u32 :
                      v = size_in_u32 \/ ~(v * WORD .. v * WORD + WORD - 1 \subseteq bitmap)}
  OBVIOUS
<1>2. last_free_pos \in Nat /\ last_free_pos < size_in_u32
  BY Sizes DEF TypeOK
<1>3. Search!Least(S) = w
  <2>1. S \in SUBSET Int
    BY <1>1, <1>2, Sizes
  <2>2. w \in S
    BY <1>1, <1>2, Sizes DEF StopAt, Full, Word
  <2>3. ASSUME NEW v \in S PROVE w <= v
    <3>1. v \in last_free_pos .. size_in_u32 /\ (v = size_in_u32 \/ ~Full(v))
      BY <1>1, <2>3 DEF Full, Word
    <3>2. v < w => v \in last_free_pos .. w - 1
      BY <1>2, <3>1, Sizes
    <3>3. v < w => Full(v)
      BY <3>2 DEF StopAt
    <3> QED
      BY <1>2, <3>1, <3>3, Sizes
  <2> QED
    BY <2>1, <2>2, <2>3, LeastIs
<1>4. PICK s : s = SearchWord(w)
  OBVIOUS
<1>5. s = IF w = size_in_u32 THEN 0 ELSE w
  BY <1>4, Sizes DEF SearchWord
<1>6. PICK B : B = {c \in 0 .. WORD : c = WORD \/ s * WORD + c \notin bitmap}
  OBVIOUS
<1>7. Search!Least(B) = b
  <2>1. B \in SUBSET Int
    BY <1>6, Sizes
  <2>2. b \in B
    BY <1>4, <1>6 DEF FreeBit
  <2>3. ASSUME NEW c \in B PROVE b <= c
    <3>1. c \in 0 .. WORD /\ (c = WORD \/ s * WORD + c \notin bitmap)
      BY <1>6, <2>3
    <3>2. c < b => c \in 0 .. b - 1
      BY <3>1, Sizes
    <3>3. c < b => s * WORD + c \in bitmap
      BY <1>4, <3>2 DEF FreeBit
    <3> QED
      BY <3>1, <3>3, Sizes
  <2> QED
    BY <2>1, <2>2, <2>3, LeastIs
<1> QED
  BY <1>1, <1>3, <1>4, <1>5, <1>6, <1>7 DEF Search!get_free_page

LEMMA LeastNat == ASSUME NEW S, S \subseteq Nat, S # {}
                  PROVE  \E m \in S : \A k \in S : m <= k
<1>1. IsWellFoundedOn(OpToRel(<, Nat), Nat)
  BY NatLessThanWellFounded
<1>2. PICK m \in S : \A k \in S : ~(<<k, m>> \in OpToRel(<, Nat))
  BY <1>1, WFMin
<1>3. \A k \in S : ~(k < m)
  BY <1>2 DEF OpToRel
<1> QED
  BY <1>3

LEMMA Interval == ASSUME NEW a \in Int, NEW z \in Int, a <= z
                  PROVE  IsFiniteSet(a .. z) /\ Cardinality(a .. z) = z - a + 1
BY FS_Interval

\* A frame of word 1 is handed out again only when word 0, that frame and the
\* last word are taken, which takes as many frames as FewHolders allows.
LEMMA EndsTaken ==
    ASSUME NEW A \in SUBSET Frame, 0 .. WORD \subseteq A, Word(size_in_u32 - 1) \subseteq A
    PROVE  Cardinality(A \ Reserved) >= 2 * WORD - pages_to_reserve + 1
<1>1. PICK last \in Nat : last = size_in_u32 - 1 /\ last > 1
  BY Sizes
<1>2. last * WORD \in Nat /\ last * WORD >= 2 * WORD
  BY <1>1, Sizes, WordPlace
<1>3. PICK a \in Int, z \in Int : a = last * WORD /\ z = last * WORD + WORD - 1
  BY <1>2, Sizes
<1>4. PICK low, high : low = pages_to_reserve .. WORD /\ high = a .. z
  OBVIOUS
<1>5. low \union high \subseteq A \ Reserved
  BY <1>1, <1>2, <1>3, <1>4, Sizes DEF Word, Reserved
<1>6. IsFiniteSet(low) /\ Cardinality(low) = WORD - pages_to_reserve + 1
  BY <1>4, Sizes, Interval
<1>7. a <= z /\ z - a + 1 = WORD
  BY <1>2, <1>3, Sizes
<1>8. IsFiniteSet(high) /\ Cardinality(high) = WORD
  BY <1>4, <1>7, Interval
<1>9. low \intersect high = {}
  BY <1>2, <1>3, <1>4, Sizes
<1>10. /\ IsFiniteSet(low \union high)
       /\ Cardinality(low \union high) =
             Cardinality(low) + Cardinality(high) - Cardinality(low \intersect high)
  BY <1>6, <1>8, FS_Union
<1>11. Cardinality(low \intersect high) = 0
  BY <1>9, FS_EmptySet
<1>12. Cardinality(low \union high) = 2 * WORD - pages_to_reserve + 1
  BY <1>6, <1>8, <1>10, <1>11, Sizes
<1>13. IsFiniteSet(A \ Reserved)
  <2>1. 0 \in Int /\ size - 1 \in Int /\ 0 <= size - 1
    BY Sizes
  <2>2. IsFiniteSet(Frame)
    BY <2>1, Interval DEF Frame
  <2> QED
    BY <2>2, FS_Subset
<1>14. Cardinality(low \union high) <= Cardinality(A \ Reserved)
  BY <1>5, <1>13, FS_Subset
<1>15. Cardinality(A \ Reserved) \in Nat
  BY <1>13, FS_CardinalityType
<1> QED
  BY <1>12, <1>14, <1>15, Sizes

\* With fewer frames taken than FewHolders allows, the search finds a frame
\* that is not taken.
LEMMA SearchFinds ==
    ASSUME NEW A \in SUBSET Frame, Reserved \subseteq A, NEW pos \in 0 .. size_in_u32 - 1,
           Cardinality(A \ Reserved) < 2 * WORD - pages_to_reserve + 1
    PROVE  /\ Search!get_free_page(A, pos).pfn \in Zone \ A
           /\ Search!get_free_page(A, pos).pos \in 0 .. size_in_u32 - 1
<1>1. PICK S : S = {v \in pos .. size_in_u32 :
                      v = size_in_u32 \/ ~(v * WORD .. v * WORD + WORD - 1 \subseteq A)}
  OBVIOUS
<1>2. S \subseteq Nat /\ size_in_u32 \in S
  BY <1>1, Sizes
<1>3. PICK w \in S : \A v \in S : w <= v
  BY <1>2, LeastNat
<1>4. Search!Least(S) = w
  BY <1>2, <1>3, LeastIs
<1>5. PICK s : s = IF w = size_in_u32 THEN 0 ELSE w
  OBVIOUS
<1>6. s \in 0 .. size_in_u32 - 1
  BY <1>1, <1>3, <1>5, Sizes
<1>7. PICK B : B = {c \in 0 .. WORD : c = WORD \/ s * WORD + c \notin A}
  OBVIOUS
<1>8. B \subseteq Nat /\ WORD \in B
  BY <1>7, Sizes
<1>9. PICK b \in B : \A c \in B : b <= c
  BY <1>8, LeastNat
<1>10. Search!Least(B) = b
  BY <1>8, <1>9, LeastIs
<1>11. Search!get_free_page(A, pos) = [pfn |-> s * WORD + b, pos |-> s]
  BY <1>1, <1>4, <1>5, <1>7, <1>10 DEF Search!get_free_page
<1>12. b \in 0 .. WORD /\ (b = WORD \/ s * WORD + b \notin A)
  BY <1>7, <1>9
<1>13. PICK base \in Nat : base = s * WORD
  BY <1>6, WordPlace
<1>14. ASSUME b = WORD PROVE w = size_in_u32 /\ s = 0 /\ Word(0) \subseteq A
  <2>1. ASSUME NEW f \in base .. base + WORD - 1 PROVE f \in A
    <3>1. PICK c \in 0 .. WORD - 1 : f = base + c
      <4>1. f - base \in 0 .. WORD - 1 /\ f = base + (f - base)
        BY <1>13, Sizes
      <4> QED
        BY <4>1
    <3>2. c \notin B
      BY <1>9, <1>14, <3>1, Sizes
    <3> QED
      BY <1>7, <1>13, <3>1, <3>2, Sizes
  <2>2. Word(s) \subseteq A
    BY <1>13, <2>1 DEF Word
  <2>3. w = size_in_u32
    BY <1>1, <1>3, <1>5, <2>2 DEF Word
  <2> QED
    BY <1>5, <2>2, <2>3
<1>15. ASSUME b = WORD PROVE WORD \notin A
  <2>1. PICK last \in Nat : last = size_in_u32 - 1
    BY Sizes
  <2>2. last \in pos .. size_in_u32 /\ last < w /\ last \notin S /\ last # size_in_u32
    BY <1>2, <1>3, <1>14, <1>15, <2>1, Sizes
  <2>3. Word(size_in_u32 - 1) \subseteq A
    BY <1>1, <2>1, <2>2 DEF Word
  <2>4. WORD \in A => 0 .. WORD \subseteq A
    BY <1>14, <1>15, Sizes DEF Word
  <2>5. PICK d \in Int : d = 2 * WORD - pages_to_reserve + 1
    BY Sizes
  <2>6. IsFiniteSet(A \ Reserved)
    <3>1. 0 \in Int /\ size - 1 \in Int /\ 0 <= size - 1
      BY Sizes
    <3> QED
      BY <3>1, Interval, FS_Subset DEF Frame
  <2>7. Cardinality(A \ Reserved) \in Nat
    BY <2>6, FS_CardinalityType
  <2>8. PICK k \in Nat : k = Cardinality(A \ Reserved)
    BY <2>7
  <2>9. WORD \in A => k >= d
    BY <2>3, <2>4, <2>5, <2>8, EndsTaken
  <2>10. k < d
    BY <2>5, <2>8
  <2> QED
    BY <2>5, <2>8, <2>9, <2>10
<1>16. base + b \notin A
  <2>1. CASE b = WORD
    BY <1>13, <1>14, <1>15, <2>1, Sizes
  <2>2. CASE b # WORD
    BY <1>12, <1>13, <2>2
  <2> QED
    BY <2>1, <2>2
<1>17. base + b < size_in_u32 * WORD
  <2>1. PICK top \in Nat : top = size_in_u32 * WORD
    BY Sizes
  <2>2. base + WORD <= top
    <3>1. s + 1 \in Nat /\ s + 1 <= size_in_u32 /\ (s + 1) * WORD = base + WORD
      BY <1>6, <1>13, Sizes
    <3> QED
      BY <2>1, <3>1, Sizes, TimesWord
  <2>3. WORD < top
    <3>1. 2 * WORD <= top
      BY <2>1, Sizes, TimesWord
    <3> QED
      BY <2>1, <3>1, Sizes
  <2>4. CASE b = WORD
    BY <1>13, <1>14, <2>1, <2>3, <2>4, Sizes
  <2>5. CASE b # WORD
    BY <1>12, <1>13, <2>1, <2>2, <2>5, Sizes
  <2> QED
    BY <2>4, <2>5
<1>18. base + b >= pages_to_reserve
  BY <1>12, <1>13, <1>16, Sizes DEF Reserved
<1>19. base + b \in Zone \ A
  BY <1>12, <1>13, <1>16, <1>17, <1>18, Sizes DEF Zone
<1> QED
  BY <1>6, <1>11, <1>13, <1>19
-----------------------------------------------------------------------------
(* What needs few holders.                                                 *)

FewInv == AnyInv /\ NoAlias /\ MarkedIsHeld

\* A set of frames that are all held by someone is no larger than the set of
\* holders that have a frame.
LEMMA HeldFrames ==
    ASSUME TypeOK, NEW S, \A f \in S : \E h \in Holding : held[h] = f
    PROVE  /\ IsFiniteSet(S) /\ IsFiniteSet(Holding)
           /\ Cardinality(S) <= Cardinality(Holding)
<1> DEFINE g == [f \in S |-> CHOOSE h \in Holding : held[h] = f]
<1>1. IsFiniteSet(Holding)
  BY HolderAssumption, FS_Subset DEF Holding
<1>2. \A f \in S : g[f] \in Holding /\ held[g[f]] = f
  OBVIOUS
<1>3. g \in Injection(S, Holding)
  BY <1>2 DEF Injection, IsInjective
<1> QED
  BY <1>1, <1>3, FS_Injection

\* With few holders the search never returns a frame that is marked.
LEMMA ReturnsUnmarked ==
    ASSUME FewHolders, FewInv, NEW h \in Holders, held[h] = NoFrame,
           NEW w \in 0 .. size_in_u32, NEW b \in 0 .. WORD,
           StopAt(w), FreeBit(SearchWord(w), b)
    PROVE  SearchWord(w) * WORD + b \notin bitmap
<1> USE DEF FewInv, AnyInv
<1>1. /\ bitmap \in SUBSET Frame /\ last_free_pos \in 0 .. size_in_u32 - 1
      /\ Reserved \subseteq bitmap
  BY DEF TypeOK, BitmapIsSafe
<1>2. /\ IsFiniteSet(Holding)
      /\ Cardinality(bitmap \ Reserved) <= Cardinality(Holding)
      /\ IsFiniteSet(bitmap \ Reserved)
  <2>1. \A f \in bitmap \ Reserved : \E k \in Holding : held[k] = f
    BY DEF MarkedIsHeld
  <2> QED
    BY <2>1, HeldFrames
<1>3. Cardinality(Holding) < Cardinality(Holders)
  <2>1. Holding \subseteq Holders \ {h}
    BY DEF Holding
  <2>2. IsFiniteSet(Holders \ {h}) /\ Cardinality(Holders \ {h}) = Cardinality(Holders) - 1
    BY HolderAssumption, FS_RemoveElement
  <2>3. Cardinality(Holding) <= Cardinality(Holders \ {h})
    BY <2>1, <2>2, FS_Subset
  <2> QED
    BY <1>2, <2>2, <2>3, HolderAssumption, FS_CardinalityType
<1>4. Cardinality(bitmap \ Reserved) < 2 * WORD - pages_to_reserve + 1
  BY <1>2, <1>3, Sizes, HolderAssumption, FS_CardinalityType DEF FewHolders
<1>5. Search!get_free_page(bitmap, last_free_pos).pfn \notin bitmap
  BY <1>1, <1>4, SearchFinds
<1> QED
  BY <1>5, SearchIs

LEMMA AllocFew ==
    ASSUME FewHolders, FewInv, NEW h \in Holders, os_pfn_alloc(h) PROVE FewInv'
<1> USE DEF FewInv
<1>1. PICK w \in 0 .. size_in_u32, b \in 0 .. WORD :
         /\ StopAt(w)
         /\ FreeBit(SearchWord(w), b)
         /\ bitmap' = bitmap \union {SearchWord(w) * WORD + b}
         /\ held' = [held EXCEPT ![h] = SearchWord(w) * WORD + b]
  BY DEF os_pfn_alloc, pgl_bmap_set
<1> DEFINE pfn == SearchWord(w) * WORD + b
<1>2. held[h] = NoFrame /\ TypeOK
  BY DEF os_pfn_alloc, AnyInv
<1>3. pfn \notin bitmap
  BY <1>1, <1>2, ReturnsUnmarked
<1>4. pfn \in Frame
  BY <1>1, Searched DEF AnyInv, BitmapIsSafe
<1>5. Holding' = Holding \union {h} /\ h \notin Holding
  BY <1>1, <1>2, <1>4, HoldingCount DEF Holding
<1>6. held'[h] = pfn /\ \A k \in Holding : held'[k] = held[k]
  BY <1>1, <1>2, <1>5 DEF Holding, TypeOK
<1>7. \A k \in Holding : held[k] \in bitmap
  BY DEF MarkedIsHeld
<1>8. NoAlias'
  BY <1>3, <1>5, <1>6, <1>7 DEF NoAlias
<1>9. MarkedIsHeld'
  <2>1. {held'[k] : k \in Holding'} = {held[k] : k \in Holding} \union {pfn}
    BY <1>5, <1>6
  <2> QED
    BY <1>1, <2>1 DEF MarkedIsHeld, Reserved
<1>10. AnyInv'
  BY AllocAny
<1> QED
  BY <1>8, <1>9, <1>10

LEMMA FreeFew == ASSUME FewInv, NEW h \in Holders, os_pfn_free(h) PROVE FewInv'
<1> USE DEF FewInv
<1> DEFINE f == held[h]
<1>1. f \in Frame /\ f \notin Reserved /\ TypeOK
  BY DEF os_pfn_free, AnyInv, TypeOK, BitmapIsSafe
<1>2. /\ bitmap' = bitmap \ {f}
      /\ held' = [held EXCEPT ![h] = NoFrame]
      /\ held[h] # NoFrame
  BY <1>1, Sizes DEF os_pfn_free, os_page_free, pgl_bmap_clear, Frame, Reserved
<1>3. Holding' = Holding \ {h} /\ h \in Holding
  BY <1>1, <1>2, HoldingCount DEF Holding
<1>4. \A k \in Holding' : held'[k] = held[k]
  BY <1>1, <1>2, <1>3 DEF Holding, TypeOK
<1>5. NoAlias'
  BY <1>3, <1>4 DEF NoAlias
<1>6. MarkedIsHeld'
  <2>1. {held'[k] : k \in Holding'} = {held[k] : k \in Holding} \ {f}
    BY <1>3, <1>4 DEF NoAlias
  <2> QED
    BY <1>1, <1>2, <2>1 DEF MarkedIsHeld, Reserved
<1>7. AnyInv'
  BY FreeAny
<1> QED
  BY <1>5, <1>6, <1>7

LEMMA SpecFew == ASSUME FewHolders PROVE Spec => []FewInv
<1>1. Init => FewInv
  <2> SUFFICES ASSUME Init PROVE NoAlias /\ MarkedIsHeld
    BY InitAny DEF FewInv
  <2>1. Holding = {}
    BY DEF Init, Holding
  <2> QED
    BY <2>1 DEF NoAlias, MarkedIsHeld, Init, init_pagelist
<1>2. FewInv /\ [Next]_vars => FewInv'
  <2>1. ASSUME FewInv, UNCHANGED vars PROVE FewInv'
    BY <2>1 DEF FewInv, AnyInv, vars, TypeOK, BitmapIsSafe, CountIsExact,
                NoAlias, MarkedIsHeld, Holding
  <2> QED
    BY <2>1, AllocFew, FreeFew DEF Next
<1> QED
  BY <1>1, <1>2, PTL DEF Spec

\* With at most 2 * WORD - pages_to_reserve + 1 pages wanted at a time (64 in
\* the OS_PT region) no frame is ever handed out twice, whatever the order of
\* allocations and frees.
THEOREM FewNoAlias == ASSUME FewHolders PROVE Spec => []NoAlias
<1>1. FewInv => NoAlias
  BY DEF FewInv
<1> QED
  BY <1>1, SpecFew, PTL

\* Under the same bound the bitmap marks exactly the frames in use, so no
\* frame is lost.
THEOREM FewMarkedIsHeld == ASSUME FewHolders PROVE Spec => []MarkedIsHeld
<1>1. FewInv => MarkedIsHeld
  BY DEF FewInv
<1> QED
  BY <1>1, SpecFew, PTL
-----------------------------------------------------------------------------
(* What callers of the search may rely on.                                 *)

\* get_free_page() is a function of the bitmap and of last_free_pos: for every
\* region and every history of allocations and frees, the frame handed out and
\* the new last_free_pos are those of FreePage, which AddressSpace takes its
\* frames from.
THEOREM AllocFollowsSearch == Spec => FollowsSearch
<1>1. TypeOK /\ [Next]_vars => [SearchStep]_vars
  <2> SUFFICES ASSUME TypeOK, Next, NEW h \in Holders, held[h] = NoFrame, held'[h] # NoFrame
               PROVE  [pfn |-> held'[h], pos |-> last_free_pos']
                          = Search!get_free_page(bitmap, last_free_pos)
    BY DEF SearchStep
  <2>1. held \in [Holders -> Frame \union {NoFrame}]
    BY DEF TypeOK
  <2>2. PICK g \in Holders : os_pfn_alloc(g) \/ os_pfn_free(g)
    BY DEF Next
  <2>3. os_pfn_alloc(g)
    BY <2>1, <2>2 DEF os_pfn_free
  <2>4. PICK w \in 0 .. size_in_u32, b \in 0 .. WORD :
           /\ StopAt(w) /\ FreeBit(SearchWord(w), b)
           /\ last_free_pos' = SearchWord(w)
           /\ held' = [held EXCEPT ![g] = SearchWord(w) * WORD + b]
    BY <2>3 DEF os_pfn_alloc
  <2>5. g = h /\ held'[h] = SearchWord(w) * WORD + b
    BY <2>1, <2>4
  <2>6. Search!get_free_page(bitmap, last_free_pos)
            = [pfn |-> SearchWord(w) * WORD + b, pos |-> SearchWord(w)]
    BY <2>4, SearchIs
  <2> QED
    BY <2>4, <2>5, <2>6
<1> QED
  BY AllocTypeCorrect, <1>1, PTL DEF Spec, FollowsSearch
\* The state of a loop of calls: the bits set, the frames found, the position.
Loops == [used : SUBSET Frame, pfns : Seq(Zone), pos : 0 .. size_in_u32 - 1]

\* After i calls on the bitmap A the frames found are i different ones outside
\* A, and their bits are set.
Found(A, i, x) ==
    /\ x \in Loops /\ A \subseteq x.used
    /\ Len(x.pfns) = i
    /\ \A k \in 1 .. i : x.pfns[k] \in x.used \ A
    /\ \A j, k \in 1 .. i : x.pfns[j] = x.pfns[k] => j = k
    /\ IsFiniteSet(x.used \ Reserved)
    /\ Cardinality(x.used \ Reserved) = Cardinality(A \ Reserved) + i

\* What the calls need: the bitmap's frames are marked and n more frames do not
\* exceed the bound.
Room(A, n) == /\ A \in SUBSET Frame /\ Reserved \subseteq A
              /\ n \in Nat
              /\ Cardinality(A \ Reserved) + n <= 2 * WORD - pages_to_reserve + 1

LEMMA FramesFinite == ASSUME NEW A \in SUBSET Frame
                      PROVE  /\ IsFiniteSet(A \ Reserved)
                             /\ Cardinality(A \ Reserved) \in Nat
<1>1. 0 \in Int /\ size - 1 \in Int /\ 0 <= size - 1
  BY Sizes
<1>2. IsFiniteSet(Frame)
  BY <1>1, Interval DEF Frame
<1> QED
  BY <1>2, FS_Subset, FS_CardinalityType

\* One more call finds one more frame and keeps those it had.
LEMMA GrabFacts ==
    ASSUME NEW A, NEW n, Room(A, n), NEW i \in 0 .. n - 1, NEW x, Found(A, i, x)
    PROVE  /\ Found(A, i + 1, Search!grab(x))
           /\ \A k \in 1 .. i : Search!grab(x).pfns[k] = x.pfns[k]
<1> USE DEF Room
<1>1. PICK r : r = Search!get_free_page(x.used, x.pos)
  OBVIOUS
<1>2. PICK U, p, q : U = x.used /\ p = x.pfns /\ q = x.pos
  OBVIOUS
<1>3. /\ U \in SUBSET Frame /\ p \in Seq(Zone) /\ q \in 0 .. size_in_u32 - 1
      /\ A \subseteq U /\ Len(p) = i
      /\ \A k \in 1 .. i : p[k] \in U \ A
      /\ \A j, k \in 1 .. i : p[j] = p[k] => j = k
      /\ IsFiniteSet(U \ Reserved)
      /\ Cardinality(U \ Reserved) = Cardinality(A \ Reserved) + i
  BY <1>2 DEF Found, Loops
<1>4. PICK a \in Nat : a = Cardinality(A \ Reserved)
  BY FramesFinite
<1>5. Cardinality(U \ Reserved) < 2 * WORD - pages_to_reserve + 1
  BY <1>3, <1>4, Sizes
<1>6. PICK f, w : f = r.pfn /\ w = r.pos
  OBVIOUS
<1>7. f \in Zone \ U /\ w \in 0 .. size_in_u32 - 1
  BY <1>1, <1>2, <1>3, <1>5, <1>6, SearchFinds
<1>8. Search!grab(x) = [used |-> U \union {f}, pfns |-> Append(p, f), pos |-> w]
  BY <1>1, <1>2, <1>6 DEF Search!grab
<1>9. f \in Frame \ Reserved
  BY <1>7, Sizes DEF Zone, Frame, Reserved
<1>10. PICK V : V = U \union {f}
  OBVIOUS
<1>11. PICK s : s = Append(p, f)
  OBVIOUS
<1>12. /\ s \in Seq(Zone) /\ Len(s) = i + 1
       /\ s[i + 1] = f /\ \A k \in 1 .. i : s[k] = p[k]
  BY <1>3, <1>7, <1>11
<1>13. \A k \in 1 .. i + 1 : k = i + 1 \/ k \in 1 .. i
  OBVIOUS
<1>14. \A k \in 1 .. i + 1 : s[k] \in V \ A
  BY <1>3, <1>7, <1>10, <1>12, <1>13
<1>15. \A j, k \in 1 .. i + 1 : s[j] = s[k] => j = k
  BY <1>3, <1>7, <1>12, <1>13
<1>16. /\ IsFiniteSet(V \ Reserved)
       /\ Cardinality(V \ Reserved) = Cardinality(A \ Reserved) + (i + 1)
  <2>1. V \ Reserved = (U \ Reserved) \union {f} /\ f \notin U \ Reserved
    BY <1>7, <1>9, <1>10
  <2>2. /\ IsFiniteSet((U \ Reserved) \union {f})
        /\ Cardinality((U \ Reserved) \union {f}) = Cardinality(U \ Reserved) + 1
    BY <1>3, <2>1, FS_AddElement
  <2>3. PICK u, v : u = Cardinality(U \ Reserved) /\ v = Cardinality(V \ Reserved)
    OBVIOUS
  <2>4. v = u + 1 /\ u = a + i /\ IsFiniteSet(V \ Reserved)
    BY <1>3, <1>4, <2>1, <2>2, <2>3
  <2>5. v = a + (i + 1)
    BY <2>4
  <2> QED
    BY <1>4, <2>3, <2>4, <2>5
<1>17. V \in SUBSET Frame /\ A \subseteq V
  BY <1>3, <1>9, <1>10
<1>18. PICK y : y = Search!grab(x)
  OBVIOUS
<1>19. y.used = V /\ y.pfns = s /\ y.pos = w /\ y \in Loops
  BY <1>7, <1>8, <1>10, <1>11, <1>12, <1>17, <1>18 DEF Loops
<1>20. Found(A, i + 1, y)
  BY <1>12, <1>14, <1>15, <1>16, <1>17, <1>19 DEF Found
<1>21. \A k \in 1 .. i : y.pfns[k] = x.pfns[k]
  BY <1>2, <1>12, <1>19
<1> QED
  BY <1>18, <1>20, <1>21

\* The states of the loop of calls that starts in x0.
Calls(x0, n, g) == /\ g = [i \in 0 .. n |-> g[i]]
                   /\ g[0] = x0
                   /\ \A i \in 1 .. n : g[i] = Search!grab(g[i - 1])

\* There is such a loop of any length, for otherwise there is a least length
\* without one, and the loop before it can be extended.
LEMMA CallsExist == ASSUME NEW x0, NEW n \in Nat PROVE \E g : Calls(x0, n, g)
<1>1. PICK S : S = {m \in Nat : ~\E g : Calls(x0, m, g)}
  OBVIOUS
<1> SUFFICES ASSUME n \in S PROVE FALSE
  BY <1>1
<1>2. PICK m \in S : \A k \in S : m <= k
  BY <1>1, LeastNat
<1>3. m \in Nat /\ ~\E g : Calls(x0, m, g)
  BY <1>1, <1>2
<1>4. m # 0
  <2>1. PICK g : g = [i \in 0 .. 0 |-> x0]
    OBVIOUS
  <2>2. g = [i \in 0 .. 0 |-> g[i]] /\ g[0] = x0 /\ 1 .. 0 = {}
    BY <2>1
  <2>3. Calls(x0, 0, g)
    BY <2>2 DEF Calls
  <2> QED
    BY <1>3, <2>3
<1>5. PICK l \in Nat : m = l + 1 /\ l \notin S
  BY <1>2, <1>3, <1>4
<1>6. PICK f : Calls(x0, l, f)
  BY <1>1, <1>5
<1>7. PICK g : g = [i \in 0 .. m |-> IF i = m THEN Search!grab(f[l]) ELSE f[i]]
  OBVIOUS
<1>8. g = [i \in 0 .. m |-> g[i]]
  BY <1>7
<1>9. /\ g[m] = Search!grab(f[l])
      /\ \A i \in 0 .. l : g[i] = f[i]
  BY <1>3, <1>5, <1>7
<1>10. g[0] = x0
  BY <1>6, <1>9 DEF Calls
<1>11. ASSUME NEW i \in 1 .. m PROVE g[i] = Search!grab(g[i - 1])
  <2>1. CASE i = m
    <3>1. g[i - 1] = f[l]
      BY <1>5, <1>9, <2>1
    <3> QED
      BY <1>9, <2>1, <3>1
  <2>2. CASE i # m
    <3>1. i \in 1 .. l /\ i \in 0 .. l /\ i - 1 \in 0 .. l
      BY <1>5, <2>2
    <3>2. f[i] = Search!grab(f[i - 1])
      BY <1>6, <3>1 DEF Calls
    <3>3. g[i] = f[i] /\ g[i - 1] = f[i - 1]
      BY <1>9, <3>1
    <3> QED
      BY <3>2, <3>3
  <2> QED
    BY <2>1, <2>2
<1>12. Calls(x0, m, g)
  BY <1>8, <1>10, <1>11 DEF Calls
<1> QED
  BY <1>3, <1>12
\* get_free_pages() is such a loop.
LEMMA PagesAreCalls ==
    ASSUME NEW A, NEW pos, NEW n \in Nat
    PROVE  \E g : /\ Calls([used |-> A, pfns |-> <<>>, pos |-> pos], n, g)
                  /\ Search!get_free_pages(A, pos, n) = [pfns |-> g[n].pfns, pos |-> g[n].pos]
<1>1. PICK x0 : x0 = [used |-> A, pfns |-> <<>>, pos |-> pos]
  OBVIOUS
<1> DEFINE Body(g) == [i \in 0 .. n |-> IF i = 0 THEN x0 ELSE Search!grab(g[i - 1])]
<1>2. PICK f : Calls(x0, n, f)
  BY CallsExist
<1>3. f = Body(f)
  <2>1. \A i \in 0 .. n : f[i] = IF i = 0 THEN x0 ELSE Search!grab(f[i - 1])
    <3>1. \A i \in 0 .. n : i = 0 \/ i \in 1 .. n
      OBVIOUS
    <3>2. f[0] = x0 /\ \A i \in 1 .. n : f[i] = Search!grab(f[i - 1])
      BY <1>2 DEF Calls
    <3>3. 0 \notin 1 .. n
      OBVIOUS
    <3> QED
      BY <3>1, <3>2, <3>3, Zenon
  <2> QED
    BY <1>2, <2>1 DEF Calls
<1>4. PICK h : h = CHOOSE g : g = Body(g)
  OBVIOUS
<1>5. h = Body(h)
  BY <1>3, <1>4
<1>6. h = [i \in 0 .. n |-> h[i]] /\ h[0] = x0
  BY <1>5
<1>7. \A i \in 1 .. n : h[i] = Search!grab(h[i - 1])
  <2> SUFFICES ASSUME NEW i \in 1 .. n PROVE h[i] = Search!grab(h[i - 1])
    OBVIOUS
  <2>1. i \in 0 .. n /\ i # 0
    OBVIOUS
  <2> QED
    BY <1>5, <2>1
<1>8. Calls(x0, n, h)
  BY <1>6, <1>7 DEF Calls
<1>9. Search!get_free_pages(A, pos, n) = [pfns |-> h[n].pfns, pos |-> h[n].pos]
  BY <1>1, <1>4 DEF Search!get_free_pages
<1> QED
  BY <1>1, <1>8, <1>9

\* Every state of the loop has found different frames that were not taken.
LEMMA CallsFind ==
    ASSUME NEW A, NEW n, Room(A, n), NEW pos \in 0 .. size_in_u32 - 1,
           NEW g, Calls([used |-> A, pfns |-> <<>>, pos |-> pos], n, g)
    PROVE  \A i \in 0 .. n : Found(A, i, g[i])
<1> USE DEF Room
<1>1. PICK S : S = {i \in 0 .. n : ~Found(A, i, g[i])}
  OBVIOUS
<1> SUFFICES ASSUME S # {} PROVE FALSE
  BY <1>1
<1>2. S \subseteq Nat
  BY <1>1
<1>3. PICK m \in S : \A k \in S : m <= k
  BY <1>2, LeastNat
<1>4. m \in 0 .. n /\ ~Found(A, m, g[m])
  BY <1>1, <1>3
<1>5. m # 0
  <2>1. PICK x : x = g[0]
    OBVIOUS
  <2>2. x.used = A /\ x.pfns = <<>> /\ x.pos = pos /\ x \in Loops
    BY <2>1 DEF Calls, Loops
  <2>3. Len(x.pfns) = 0 /\ 1 .. 0 = {}
    BY <2>2
  <2>4. IsFiniteSet(A \ Reserved) /\ Cardinality(A \ Reserved) = Cardinality(A \ Reserved) + 0
    <3>1. IsFiniteSet(A \ Reserved) /\ Cardinality(A \ Reserved) \in Nat
      BY FramesFinite
    <3>2. PICK a \in Nat : a = Cardinality(A \ Reserved)
      BY <3>1
    <3>3. a = a + 0
      OBVIOUS
    <3> QED
      BY <3>1, <3>2, <3>3
  <2>5. Found(A, 0, x)
    BY <2>2, <2>3, <2>4 DEF Found
  <2> QED
    BY <1>4, <2>1, <2>5
<1>6. PICK l \in 0 .. n - 1 : m = l + 1
  BY <1>4, <1>5
<1>7. l \notin S /\ l \in 0 .. n
  BY <1>2, <1>3, <1>6
<1>8. Found(A, l, g[l])
  BY <1>1, <1>7
<1>9. g[m] = Search!grab(g[l])
  BY <1>4, <1>5, <1>6 DEF Calls
<1>10. Found(A, l + 1, Search!grab(g[l]))
  BY <1>8, GrabFacts
<1> QED
  BY <1>4, <1>6, <1>9, <1>10

\* AllocAssumption of AddressSpace holds of the real search, for every geometry
\* of the region: while no more frames are asked for than FewHolders allows,
\* n calls of get_free_page() in a row return n different frames of the words
\* that are searched, none of them in use or one of the bitmap's.
THEOREM SearchKeepsPromise ==
    ASSUME NEW A \in SUBSET Zone, NEW pos \in 0 .. size_in_u32 - 1, NEW n \in Nat,
           Cardinality(A) + n <= 2 * WORD - pages_to_reserve + 1
    PROVE  LET r == Search!get_free_pages(A \union Reserved, pos, n)
           IN  /\ r.pos \in 0 .. size_in_u32 - 1
               /\ r.pfns \in [1 .. n -> Zone \ A]
               /\ \A i, j \in 1 .. n : r.pfns[i] = r.pfns[j] => i = j
<1>1. PICK M : M = A \union Reserved
  OBVIOUS
<1>2. M \in SUBSET Frame /\ Reserved \subseteq M
  BY <1>1, Sizes DEF Zone, Frame, Reserved
<1>3. M \ Reserved = A
  BY <1>1, Sizes DEF Zone, Reserved
<1>4. Room(M, n)
  BY <1>2, <1>3 DEF Room
<1>5. PICK g : /\ Calls([used |-> M, pfns |-> <<>>, pos |-> pos], n, g)
               /\ Search!get_free_pages(M, pos, n) = [pfns |-> g[n].pfns, pos |-> g[n].pos]
  BY PagesAreCalls
<1>6. Found(M, n, g[n])
  BY <1>4, <1>5, n \in 0 .. n, CallsFind
<1>7. PICK r : r = Search!get_free_pages(M, pos, n)
  OBVIOUS
<1>8. /\ r.pos \in 0 .. size_in_u32 - 1
      /\ r.pfns \in Seq(Zone) /\ Len(r.pfns) = n
      /\ \A k \in 1 .. n : r.pfns[k] \notin M
      /\ \A j, k \in 1 .. n : r.pfns[j] = r.pfns[k] => j = k
  BY <1>5, <1>6, <1>7 DEF Found, Loops
<1>9. r.pfns \in [1 .. n -> Zone \ A]
  BY <1>1, <1>8
<1> QED
  BY <1>1, <1>7, <1>8, <1>9
-----------------------------------------------------------------------------
(* The order of the frames.                                                *)

\* Where the search finds its frame when the bits before it are set.
LEMMA PageAt ==
    ASSUME NEW A, NEW q \in 0 .. size_in_u32 - 1, NEW s \in q .. size_in_u32 - 1,
           \A v \in q .. s - 1 : Word(v) \subseteq A,
           NEW b \in 0 .. WORD - 1, s * WORD + b \notin A,
           \A c \in 0 .. b - 1 : s * WORD + c \in A
    PROVE  Search!get_free_page(A, q) = [pfn |-> s * WORD + b, pos |-> s]
<1>1. PICK S : S = {v \in q .. size_in_u32 :
                      v = size_in_u32 \/ ~(v * WORD .. v * WORD + WORD - 1 \subseteq A)}
  OBVIOUS
<1>2. s \in Nat /\ s < size_in_u32 /\ q \in Nat /\ s * WORD \in Nat
  BY Sizes
<1>3. Search!Least(S) = s
  <2>1. S \in SUBSET Int
    BY <1>1, <1>2, Sizes
  <2>2. s * WORD + b \in s * WORD .. s * WORD + WORD - 1
    BY <1>2, Sizes
  <2>3. s \in S
    BY <1>1, <1>2, <2>2, Sizes
  <2>4. ASSUME NEW v \in S PROVE s <= v
    <3>1. v \in q .. size_in_u32 /\ (v = size_in_u32 \/ ~(Word(v) \subseteq A))
      BY <1>1, <2>4 DEF Word
    <3>2. v < s => v \in q .. s - 1
      BY <1>2, <3>1, Sizes
    <3> QED
      BY <1>2, <3>1, <3>2, Sizes
  <2> QED
    BY <2>1, <2>3, <2>4, LeastIs
<1>4. PICK B : B = {c \in 0 .. WORD : c = WORD \/ s * WORD + c \notin A}
  OBVIOUS
<1>5. Search!Least(B) = b
  <2>1. B \in SUBSET Int
    BY <1>4, Sizes
  <2>2. b \in B
    BY <1>4, Sizes
  <2>3. ASSUME NEW c \in B PROVE b <= c
    <3>1. c \in 0 .. WORD /\ (c = WORD \/ s * WORD + c \notin A)
      BY <1>4, <2>3
    <3>2. c < b => c \in 0 .. b - 1
      BY <3>1, Sizes
    <3> QED
      BY <3>1, <3>2, Sizes
  <2> QED
    BY <2>1, <2>2, <2>3, LeastIs
<1>6. s # size_in_u32
  BY <1>2, Sizes
<1> QED
  BY <1>1, <1>3, <1>4, <1>5, <1>6 DEF Search!get_free_page

\* The first frame found in an empty region when the search starts at pos, and
\* the word of the last of i frames in sequence from there.
FirstFrom(pos)   == IF pos = 0 THEN pages_to_reserve ELSE pos * WORD
WordAfter(pos, i) == IF pos = 0 /\ pages_to_reserve + i > WORD THEN 1 ELSE pos

\* After i frames in sequence the search finds the next one.
LEMMA NextFrame ==
    ASSUME NEW pos \in 0 .. size_in_u32 - 1, NEW i \in 0 .. WORD - 1
    PROVE  Search!get_free_page(Reserved \union (FirstFrom(pos) .. FirstFrom(pos) + i - 1),
                                WordAfter(pos, i))
             = [pfn |-> FirstFrom(pos) + i, pos |-> WordAfter(pos, i + 1)]
<1>1. PICK first : first = FirstFrom(pos)
  OBVIOUS
<1>2. PICK A : A = Reserved \union (first .. first + i - 1)
  OBVIOUS
<1>3. PICK q, r : q = WordAfter(pos, i) /\ r = WordAfter(pos, i + 1)
  OBVIOUS
<1>4. i \in Nat /\ i < WORD
  BY Sizes
<1>5. CASE pos = 0 /\ pages_to_reserve + i < WORD
  <2>1. q = 0 /\ r = 0 /\ first = pages_to_reserve
    BY <1>1, <1>3, <1>4, <1>5, Sizes DEF FirstFrom, WordAfter
  <2>2. PICK b \in 0 .. WORD - 1 : b = pages_to_reserve + i
    BY <1>4, <1>5, Sizes
  <2>3. A = 0 .. b - 1
    BY <1>2, <1>4, <2>1, <2>2, Sizes DEF Reserved
  <2>4. 0 * WORD = 0
    BY Sizes
  <2>5. 0 * WORD + b \notin A /\ \A c \in 0 .. b - 1 : 0 * WORD + c \in A
    BY <2>2, <2>3, <2>4, Sizes
  <2>6. 0 \in 0 .. size_in_u32 - 1 /\ 0 .. 0 - 1 = {}
    BY Sizes
  <2>7. Search!get_free_page(A, 0) = [pfn |-> 0 * WORD + b, pos |-> 0]
    BY <2>5, <2>6, PageAt
  <2>8. 0 * WORD + b = first + i
    BY <2>1, <2>2, <2>4, Sizes
  <2> QED
    BY <1>1, <1>2, <1>3, <2>1, <2>7, <2>8
<1>6. CASE pos = 0 /\ pages_to_reserve + i >= WORD
  <2>1. q \in 0 .. 1 /\ r = 1 /\ first = pages_to_reserve
    BY <1>1, <1>3, <1>4, <1>6, Sizes DEF FirstFrom, WordAfter
  <2>2. PICK b \in 0 .. WORD - 1 : WORD + b = pages_to_reserve + i
    <3>1. pages_to_reserve + i - WORD \in 0 .. WORD - 1
      BY <1>4, <1>6, Sizes
    <3>2. WORD + (pages_to_reserve + i - WORD) = pages_to_reserve + i
      BY <1>4, Sizes
    <3> QED
      BY <3>1, <3>2
  <2>3. A = 0 .. WORD + b - 1
    BY <1>2, <1>4, <2>1, <2>2, Sizes DEF Reserved
  <2>4. 1 * WORD = WORD /\ 0 * WORD = 0
    BY Sizes
  <2>5. 1 * WORD + b \notin A /\ \A c \in 0 .. b - 1 : 1 * WORD + c \in A
    BY <2>2, <2>3, <2>4, Sizes
  <2>6. \A v \in q .. 1 - 1 : Word(v) \subseteq A
    <3>1. \A v \in q .. 1 - 1 : v = 0
      BY <2>1
    <3>2. Word(0) \subseteq A
      BY <2>2, <2>3, <2>4, Sizes DEF Word
    <3> QED
      BY <3>1, <3>2
  <2>7. q \in 0 .. size_in_u32 - 1 /\ 1 \in q .. size_in_u32 - 1
    BY <2>1, Sizes
  <2>8. Search!get_free_page(A, q) = [pfn |-> 1 * WORD + b, pos |-> 1]
    BY <2>5, <2>6, <2>7, PageAt
  <2>9. 1 * WORD + b = first + i
    BY <2>1, <2>2, <2>4, Sizes
  <2> QED
    BY <1>1, <1>2, <1>3, <2>1, <2>8, <2>9
<1>7. CASE pos # 0
  <2>1. q = pos /\ r = pos /\ first = pos * WORD
    BY <1>1, <1>3, <1>7 DEF FirstFrom, WordAfter
  <2>2. first \in Nat /\ first >= WORD
    BY <1>7, <2>1, WordPlace, Sizes
  <2>3. first + i \notin A /\ \A c \in 0 .. i - 1 : first + c \in A
    BY <1>2, <1>4, <2>2, Sizes DEF Reserved
  <2>4. pos \in pos .. size_in_u32 - 1 /\ pos .. pos - 1 = {}
    BY Sizes
  <2>5. Search!get_free_page(A, pos) = [pfn |-> pos * WORD + i, pos |-> pos]
    BY <2>1, <2>3, <2>4, PageAt
  <2> QED
    BY <1>1, <1>2, <1>3, <2>1, <2>5
<1> QED
  BY <1>5, <1>6, <1>7, <1>4, Sizes

\* The first k of i frames are in sequence, and no others are taken yet when i
\* is at most k.
InSequence(pos, k, i, x) ==
    /\ \A j \in 1 .. i : j <= k => x.pfns[j] = FirstFrom(pos) + j - 1
    /\ i <= k => /\ x.used = Reserved \union (FirstFrom(pos) .. FirstFrom(pos) + i - 1)
                 /\ x.pos = WordAfter(pos, i)

LEMMA GrabSequence ==
    ASSUME NEW n, Room(Reserved, n), NEW pos \in 0 .. size_in_u32 - 1,
           NEW k \in Nat, k <= WORD, NEW i \in 0 .. n - 1,
           NEW x, Found(Reserved, i, x), InSequence(pos, k, i, x)
    PROVE  InSequence(pos, k, i + 1, Search!grab(x))
<1>1. PICK y : y = Search!grab(x)
  OBVIOUS
<1>2. PICK first \in Nat : first = FirstFrom(pos)
  BY WordPlace, Sizes DEF FirstFrom
<1>3. i \in Nat
  BY DEF Room
<1>4. /\ Found(Reserved, i + 1, y)
      /\ \A j \in 1 .. i : y.pfns[j] = x.pfns[j]
  BY <1>1, GrabFacts
<1>5. Len(x.pfns) = i /\ x.pfns \in Seq(Zone) /\ y.pfns \in Seq(Zone) /\ Len(y.pfns) = i + 1
  BY <1>4 DEF Found, Loops
<1>6. ASSUME i + 1 <= k
      PROVE  /\ y.used = Reserved \union (first .. first + (i + 1) - 1)
             /\ y.pos = WordAfter(pos, i + 1)
             /\ y.pfns[i + 1] = first + (i + 1) - 1
  <2>1. /\ x.used = Reserved \union (first .. first + i - 1)
        /\ x.pos = WordAfter(pos, i)
    BY <1>2, <1>3, <1>6 DEF InSequence
  <2>2. i \in 0 .. WORD - 1
    BY <1>3, <1>6, Sizes
  <2>3. Search!get_free_page(x.used, x.pos) = [pfn |-> first + i, pos |-> WordAfter(pos, i + 1)]
    BY <1>2, <2>1, <2>2, NextFrame
  <2>4. y = [used |-> x.used \union {first + i}, pfns |-> Append(x.pfns, first + i),
             pos |-> WordAfter(pos, i + 1)]
    BY <1>1, <2>3 DEF Search!grab
  <2>5. y.pfns[i + 1] = first + i
    BY <1>5, <2>4
  <2>6. first + (i + 1) - 1 = first + i
    BY <1>2, <1>3
  <2>7. first .. first + i = (first .. first + i - 1) \union {first + i}
    BY <1>2, <1>3
  <2> QED
    BY <2>1, <2>4, <2>5, <2>6, <2>7
<1>7. ASSUME NEW j \in 1 .. i + 1, j <= k PROVE y.pfns[j] = first + j - 1
  <2>1. CASE j = i + 1
    BY <1>6, <1>7, <2>1
  <2>2. CASE j # i + 1
    <3>1. j \in 1 .. i
      BY <1>3, <2>2
    <3> QED
      BY <1>2, <1>4, <1>7, <3>1 DEF InSequence
  <2> QED
    BY <2>1, <2>2
<1>8. InSequence(pos, k, i + 1, y)
  BY <1>2, <1>6, <1>7 DEF InSequence
<1> QED
  BY <1>1, <1>8

\* "BUG! PFN not in sequence" (exec_init): in a region where nothing is in use
\* the first frames handed out are in sequence, as many as a word has bits and
\* wherever earlier programs left last_free_pos, in the last word and in word
\* 0, where they go on behind the bitmap's, too.  This is FreshInSequence of
\* AddressSpaceProofs; a program has 8 pages of code and a word 32 bits.
THEOREM SearchInSequence ==
    ASSUME NEW pos \in 0 .. size_in_u32 - 1,
           NEW n \in Nat, n <= 2 * WORD - pages_to_reserve + 1,
           NEW k \in 0 .. n, k <= WORD
    PROVE  LET r == Search!get_free_pages(Reserved, pos, n)
           IN  \A i, j \in 1 .. k : r.pfns[i] - i = r.pfns[j] - j
<1>1. Room(Reserved, n)
  <2>1. Reserved \ Reserved = {} /\ Reserved \in SUBSET Frame
    BY Sizes DEF Reserved, Frame
  <2>2. Cardinality(Reserved \ Reserved) = 0
    BY <2>1, FS_EmptySet
  <2>3. Cardinality(Reserved \ Reserved) + n = n
    BY <2>2
  <2> QED
    BY <2>1, <2>3 DEF Room
<1>2. PICK x0 : x0 = [used |-> Reserved, pfns |-> <<>>, pos |-> pos]
  OBVIOUS
<1>3. PICK g : /\ Calls(x0, n, g)
               /\ Search!get_free_pages(Reserved, pos, n) = [pfns |-> g[n].pfns, pos |-> g[n].pos]
  BY <1>2, PagesAreCalls
<1>4. \A i \in 0 .. n : Found(Reserved, i, g[i])
  BY <1>1, <1>2, <1>3, CallsFind
<1>5. PICK first \in Nat : first = FirstFrom(pos)
  BY WordPlace, Sizes DEF FirstFrom
<1>6. InSequence(pos, k, 0, g[0])
  <2>1. g[0] = x0
    BY <1>3 DEF Calls
  <2>2. first .. first + 0 - 1 = {} /\ 1 .. 0 = {}
    BY <1>5
  <2>3. WordAfter(pos, 0) = pos
    BY Sizes DEF WordAfter
  <2> QED
    BY <1>2, <1>5, <2>1, <2>2, <2>3 DEF InSequence
<1>7. PICK S : S = {i \in 0 .. n : ~InSequence(pos, k, i, g[i])}
  OBVIOUS
<1>8. S = {}
  <2> SUFFICES ASSUME S # {} PROVE FALSE
    OBVIOUS
  <2>1. PICK m \in S : \A l \in S : m <= l
    <3>1. S \subseteq Nat
      BY <1>7
    <3> QED
      BY <3>1, LeastNat
  <2>2. m \in 0 .. n /\ ~InSequence(pos, k, m, g[m]) /\ m # 0
    BY <1>6, <1>7, <2>1
  <2>3. PICK l \in 0 .. n - 1 : m = l + 1
    BY <2>2
  <2>4. l \in 0 .. n /\ l \notin S
    BY <1>7, <2>1, <2>3
  <2>5. InSequence(pos, k, l, g[l]) /\ Found(Reserved, l, g[l])
    BY <1>4, <1>7, <2>4
  <2>6. g[m] = Search!grab(g[l])
    <3>1. m \in 1 .. n /\ m - 1 = l
      BY <2>2, <2>3
    <3>2. g[m] = Search!grab(g[m - 1])
      BY <1>3, <3>1 DEF Calls
    <3> QED
      BY <3>1, <3>2
  <2>7. InSequence(pos, k, l + 1, Search!grab(g[l]))
    BY <1>1, <2>5, GrabSequence
  <2> QED
    BY <2>2, <2>3, <2>6, <2>7
<1>9. InSequence(pos, k, n, g[n])
  BY <1>7, <1>8, n \in 0 .. n
<1>10. PICK p : p = Search!get_free_pages(Reserved, pos, n).pfns
  OBVIOUS
<1>11. \A j \in 1 .. k : p[j] = first + j - 1
  BY <1>3, <1>5, <1>9, <1>10 DEF InSequence
<1>12. \A i, j \in 1 .. k : p[i] - i = p[j] - j
  <2> SUFFICES ASSUME NEW i \in 1 .. k, NEW j \in 1 .. k PROVE p[i] - i = p[j] - j
    OBVIOUS
  <2>1. p[i] = first + i - 1 /\ p[j] = first + j - 1
    BY <1>11
  <2> QED
    BY <1>5, <2>1
<1> QED
  BY <1>10, <1>12
=============================================================================
