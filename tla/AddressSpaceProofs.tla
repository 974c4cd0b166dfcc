------------------------- MODULE AddressSpaceProofs -------------------------
(***************************************************************************)
(* Proofs about AddressSpace, for every number of contexts and spaces, all *)
(* sizes of the segments and of a table, and every allocator that keeps    *)
(* the promise of FewHolders in PageAlloc.                                 *)
(***************************************************************************)
EXTENDS AddressSpace, FiniteSetTheorems, TLAPS

-----------------------------------------------------------------------------
(* The inductive invariant.                                                *)

\* A launch never meets a region that is too full: either the frames for one
\* are left, or the one space there is will give back enough when it ends.
LaunchFits ==
    \/ Cardinality(allocated) + LaunchFrames <= FewFrames
    \/ \E s \in Spaces : /\ UsedSpaces = {s}
                         /\ Cardinality(allocated \ MappedTo(s)) + LaunchFrames <= FewFrames

\* The leaf entries of CODE and RODATA never have the W bit.
LeavesReadOnly == \A s \in Spaces : leafW[s] \subseteq Writable

\* No fork() and so no second space, or nobody gives back what forks share.
NoSharedShrink == "RODATA" \notin ShrinkSegs \/ ~CanFork

\* A frame is mapped at one page only, and a writable one in one space only.
OnePageEach ==
    \A s, t \in UsedSpaces : \A u \in Mapped(s), v \in Mapped(t) :
        frame[s][u] = frame[t][v] => u = v /\ (u \in Writable => s = t)

\* Without fork() there is one space, and all frames in use are mapped by it.
OneSpace == ~CanFork => /\ \A s, t \in UsedSpaces : s = t
                        /\ Orphans = {}

BaseInv == TypeOK /\ LaunchFits /\ LeavesReadOnly /\ OneSpace
MapInv  == NoSharedShrink => NoDangling /\ OnePageEach

-----------------------------------------------------------------------------
(* Virtual pages.                                                          *)

LEMMA PageIs ==
    ASSUME NEW v
    PROVE  v \in VPages <=> \E seg \in Segs : \E i \in 0 .. SegPages[seg] - 1 : v = <<seg, i>>
BY DEF VPages

LEMMA SegFacts == ASSUME NEW seg \in Segs
                  PROVE  /\ SegPages[seg] \in Nat /\ SegPages[seg] >= 1
                         /\ 0 \in 0 .. SegPages[seg] - 1
BY SegAssumption

LEMMA PageFacts ==
    ASSUME NEW v \in VPages
    PROVE  /\ v[1] \in Segs /\ v[2] \in Nat /\ v[2] < SegPages[v[1]] /\ v = <<v[1], v[2]>>
<1>1. PICK seg \in Segs : \E i \in 0 .. SegPages[seg] - 1 : v = <<seg, i>>
  BY PageIs
<1>2. PICK i \in 0 .. SegPages[seg] - 1 : v = <<seg, i>>
  BY <1>1
<1>3. v[1] = seg /\ v[2] = i
  BY <1>2
<1> QED
  BY <1>2, <1>3, SegFacts

\* The pages of one segment are as many as it has room for.
LEMMA SegSize ==
    ASSUME NEW seg \in Segs
    PROVE  /\ IsFiniteSet({seg} \X (0 .. SegPages[seg] - 1))
           /\ Cardinality({seg} \X (0 .. SegPages[seg] - 1)) = SegPages[seg]
<1>1. SegPages[seg] \in Nat /\ SegPages[seg] >= 1
  BY SegFacts
<1>2. IsFiniteSet(0 .. SegPages[seg] - 1) /\ Cardinality(0 .. SegPages[seg] - 1) = SegPages[seg]
  BY <1>1, FS_Interval
<1>3. IsFiniteSet({seg}) /\ Cardinality({seg}) = 1
  BY FS_Singleton
<1> QED
  BY <1>1, <1>2, <1>3, FS_Product

LEMMA PagesFinite == IsFiniteSet(VPages)
<1>1. VPages = ({"CODE"} \X (0 .. SegPages["CODE"] - 1))
               \union ({"RODATA"} \X (0 .. SegPages["RODATA"] - 1))
               \union ({"DATA"} \X (0 .. SegPages["DATA"] - 1))
               \union ({"STACK"} \X (0 .. SegPages["STACK"] - 1))
  BY DEF VPages, Segs
<1> QED
  BY <1>1, SegSize, FS_Union DEF Segs

\* The pages a launch maps, and how many they are.
LaunchPages == CodePages \union {<<"DATA", 0>>, <<"STACK", 0>>}

LEMMA LaunchSize ==
    /\ LaunchPages \subseteq VPages /\ IsFiniteSet(LaunchPages)
    /\ LaunchFrames \in Nat /\ Cardinality(LaunchPages) = LaunchFrames
    /\ LaunchFrames <= Cardinality(VPages) /\ 1 <= Cardinality(VPages)
<1>1. <<"DATA", 0>> \in VPages /\ <<"STACK", 0>> \in VPages
  BY PageIs, SegFacts DEF Segs
<1>2. CodePages = {"CODE"} \X (0 .. SegPages["CODE"] - 1)
  BY DEF CodePages, VPages, Segs
<1>3. IsFiniteSet(CodePages) /\ Cardinality(CodePages) = SegPages["CODE"]
  BY <1>2, SegSize DEF Segs
<1>4. LaunchPages = (CodePages \union {<<"DATA", 0>>}) \union {<<"STACK", 0>>}
  BY DEF LaunchPages
<1>5. <<"DATA", 0>> \notin CodePages
  BY DEF CodePages
<1>6. <<"STACK", 0>> \notin CodePages \union {<<"DATA", 0>>}
  BY DEF CodePages
<1>7. SegPages["CODE"] \in Nat
  BY SegFacts DEF Segs
<1>8. /\ IsFiniteSet(CodePages \union {<<"DATA", 0>>})
      /\ Cardinality(CodePages \union {<<"DATA", 0>>}) = SegPages["CODE"] + 1
  BY <1>3, <1>5, FS_AddElement
<1>9. IsFiniteSet(LaunchPages) /\ Cardinality(LaunchPages) = LaunchFrames
  <2>1. PICK B : B = CodePages \union {<<"DATA", 0>>}
    OBVIOUS
  <2>2. PICK top : top = <<"STACK", 0>>
    OBVIOUS
  <2>3. LaunchPages = B \union {top} /\ top \notin B
    BY <1>4, <1>6, <2>1, <2>2
  <2>4. IsFiniteSet(B) /\ Cardinality(B) = SegPages["CODE"] + 1
    BY <1>8, <2>1
  <2>5. IsFiniteSet(LaunchPages) /\ Cardinality(LaunchPages) = Cardinality(B) + 1
    BY <2>3, <2>4, FS_AddElement
  <2> QED
    BY <1>7, <2>4, <2>5 DEF LaunchFrames
<1>10. LaunchPages \subseteq VPages
  BY <1>1 DEF LaunchPages, CodePages
<1>11. Cardinality(LaunchPages) <= Cardinality(VPages) /\ Cardinality(VPages) \in Nat
  BY <1>10, PagesFinite, FS_Subset, FS_CardinalityType
<1>12. LaunchFrames \in Nat /\ LaunchFrames >= 1
  BY <1>7 DEF LaunchFrames
<1> QED
  BY <1>9, <1>10, <1>11, <1>12

-----------------------------------------------------------------------------
(* Assign() gives every page a frame of its own and uses all frames.       *)

LEMMA BeforeOrders ==
    ASSUME NEW u \in VPages, NEW v \in VPages
    PROVE  /\ ~Before(u, u)
           /\ u # v => Before(u, v) \/ Before(v, u)
           /\ \A w \in VPages : Before(w, u) /\ Before(u, v) => Before(w, v)
<1>1. \A x \in VPages : x[1] \in Segs /\ x[2] \in Nat /\ x = <<x[1], x[2]>>
  BY PageFacts
<1>2. \A seg \in Segs : SegNo[seg] \in Nat
  BY DEF SegNo, Segs
<1>3. \A a, b \in Segs : SegNo[a] = SegNo[b] => a = b
  BY DEF SegNo, Segs
<1>4. ~Before(u, u)
  BY <1>1, <1>2 DEF Before
<1>5. ASSUME u # v PROVE Before(u, v) \/ Before(v, u)
  BY <1>1, <1>2, <1>3, <1>5 DEF Before
<1>6. ASSUME NEW w \in VPages, Before(w, u), Before(u, v) PROVE Before(w, v)
  BY <1>1, <1>2, <1>6 DEF Before
<1> QED
  BY <1>4, <1>5, <1>6

LEMMA RankFacts ==
    ASSUME NEW P \in SUBSET VPages, NEW u \in P, NEW v \in P
    PROVE  LET rank(x) == 1 + Cardinality({w \in P : Before(w, x)})
           IN  /\ rank(u) \in 1 .. Cardinality(P)
               /\ rank(u) = rank(v) => u = v
<1> DEFINE below(x) == {w \in P : Before(w, x)}
<1>1. IsFiniteSet(P) /\ Cardinality(P) \in Nat
  BY PagesFinite, FS_Subset, FS_CardinalityType
<1>2. ASSUME NEW x \in P
      PROVE  IsFiniteSet(below(x)) /\ Cardinality(below(x)) \in Nat /\ x \notin below(x)
  BY <1>1, FS_Subset, FS_CardinalityType, BeforeOrders
<1>3. ASSUME NEW x \in P
      PROVE  Cardinality(below(x)) < Cardinality(P)
  <2>1. Cardinality(below(x)) <= Cardinality(P)
    BY <1>1, FS_Subset
  <2>2. Cardinality(P) = Cardinality(below(x)) => P = below(x)
    BY <1>1, FS_Subset
  <2> QED
    BY <1>1, <1>2, <1>3, <2>1, <2>2
<1>4. ASSUME NEW x \in P, NEW y \in P, Before(x, y)
      PROVE  Cardinality(below(x)) < Cardinality(below(y))
  <2>1. below(x) \subseteq below(y) /\ x \in below(y)
    BY <1>4, BeforeOrders
  <2>2. Cardinality(below(x)) <= Cardinality(below(y))
    BY <1>2, <2>1, FS_Subset
  <2>3. Cardinality(below(y)) = Cardinality(below(x)) => below(y) = below(x)
    BY <1>2, <2>1, FS_Subset
  <2>4. below(y) # below(x)
    BY <1>2, <2>1
  <2>5. Cardinality(below(x)) \in Nat /\ Cardinality(below(y)) \in Nat
    BY <1>2
  <2> QED
    BY <2>2, <2>3, <2>4, <2>5
<1> DEFINE c == [x \in P |-> Cardinality(below(x))]
<1>5. /\ \A x \in P : c[x] \in Nat /\ c[x] < Cardinality(P)
      /\ \A x, y \in P : Before(x, y) => c[x] < c[y]
  BY <1>2, <1>3, <1>4
<1>6. \A x \in P : c[x] = Cardinality({w \in P : Before(w, x)})
  OBVIOUS
<1> HIDE DEF c
<1>7. c[u] = c[v] => u = v
  BY <1>5, BeforeOrders
<1>8. 1 + c[u] \in 1 .. Cardinality(P) /\ (1 + c[u] = 1 + c[v] => u = v)
  BY <1>1, <1>5, <1>7
<1> QED
  BY <1>6, <1>8

\* n different frames that are not in A.
Fresh(pfns, n, A) == /\ pfns \in [1 .. n -> Frames \ A]
                     /\ \A i, j \in 1 .. n : pfns[i] = pfns[j] => i = j

\* new maps the pages of P to those frames, one each.
Spreads(P, new, pfns, A) == /\ new \in [P -> Frames \ A]
                            /\ \A u, v \in P : new[u] = new[v] => u = v
                            /\ {new[v] : v \in P} = {pfns[i] : i \in 1 .. Cardinality(P)}

LEMMA AssignFacts ==
    ASSUME NEW P \in SUBSET VPages, NEW A, NEW pfns, Fresh(pfns, Cardinality(P), A)
    PROVE  Spreads(P, Assign(P, pfns), pfns, A)
<1> DEFINE n == Cardinality(P)
           rank == [x \in P |-> 1 + Cardinality({w \in P : Before(w, x)})]
           new == [x \in P |-> pfns[rank[x]]]
<1>1. IsFiniteSet(P) /\ n \in Nat
  BY PagesFinite, FS_Subset, FS_CardinalityType
<1>2. IsFiniteSet(1 .. n) /\ Cardinality(1 .. n) = n
  BY <1>1, FS_Interval
<1>3. rank \in Injection(P, 1 .. n)
  <2>1. \A x \in P : rank[x] \in 1 .. n
    BY RankFacts
  <2>2. \A x, y \in P : rank[x] = rank[y] => x = y
    BY RankFacts
  <2> QED
    BY <2>1, <2>2 DEF Injection, IsInjective
<1> HIDE DEF rank
<1>4. rank \in Surjection(P, 1 .. n)
  BY <1>2, <1>3, FS_Injection
<1>5. \A i \in 1 .. n : \E x \in P : rank[x] = i
  BY <1>4 DEF Surjection
<1>6. rank \in [P -> 1 .. n] /\ \A x, y \in P : rank[x] = rank[y] => x = y
  BY <1>3 DEF Injection, IsInjective
<1>7. Assign(P, pfns) = new
  BY DEF Assign, rank
<1>8. new \in [P -> Frames \ A] /\ \A u, v \in P : new[u] = new[v] => u = v
  BY <1>6 DEF Fresh
<1>9. {new[v] : v \in P} = {pfns[i] : i \in 1 .. n}
  BY <1>5, <1>6
<1> HIDE DEF new
<1>10. Spreads(P, new, pfns, A)
  BY <1>8, <1>9 DEF Spreads
<1> QED
  BY <1>7, <1>10
-----------------------------------------------------------------------------
(* What the actions do, with the sets and frames they use named.           *)

LEMMA UsedNow ==
    ASSUME TypeOK, NEW s
    PROVE  s \in UsedSpaces <=> s \in Spaces /\ \E p \in Contexts : space[p] = s
BY NoneAssumption DEF TypeOK, UsedSpaces, Live

LEMMA UsedNext ==
    ASSUME space' \in [Contexts -> Spaces \union {NoSpace}], NEW s
    PROVE  s \in UsedSpaces' <=> s \in Spaces /\ \E p \in Contexts : space'[p] = s
BY NoneAssumption DEF UsedSpaces, Live

LEMMA MappedNow ==
    ASSUME NEW s, NEW f
    PROVE  f \in MappedTo(s) <=> \E v \in VPages : frame[s][v] = f /\ f # NoFrame
BY DEF MappedTo, Mapped

LEMMA OrphanNow ==
    ASSUME NEW f
    PROVE  f \in Orphans <=> /\ f \in allocated
                             /\ \A s \in UsedSpaces, v \in VPages :
                                   frame[s][v] = f => f = NoFrame
BY DEF Orphans, MappedTo, Mapped

LEMMA OrphanNext ==
    ASSUME NEW f
    PROVE  f \in Orphans' <=> /\ f \in allocated'
                              /\ \A s \in UsedSpaces', v \in VPages :
                                    frame'[s][v] = f => f = NoFrame
BY DEF Orphans, MappedTo, Mapped

\* The allocator keeps its promise while enough frames are left.
LEMMA TakeFacts ==
    ASSUME TypeOK, NEW n \in 0 .. Cardinality(VPages),
           Cardinality(allocated) + n <= FewFrames,
           NEW r, take(n, r)
    PROVE  /\ last_free_pos' \in Positions
           /\ Fresh(r.pfns, n, allocated)
           /\ allocated' = allocated \union {r.pfns[i] : i \in 1 .. n}
<1>1. /\ r \in Alloc(allocated, last_free_pos, n)
      /\ last_free_pos' = r.pos
      /\ allocated' = allocated \union {r.pfns[i] : i \in 1 .. n}
  BY DEF take
<1>2. allocated \in SUBSET Frames /\ last_free_pos \in Positions
  BY DEF TypeOK
<1>3. /\ r.pos \in Positions
      /\ r.pfns \in [1 .. n -> Frames \ allocated]
      /\ \A i, j \in 1 .. n : r.pfns[i] = r.pfns[j] => i = j
  BY <1>1, <1>2, AllocAssumption
<1> QED
  BY <1>1, <1>3 DEF Fresh

LEMMA AllocatedFinite ==
    ASSUME TypeOK, NEW A \in SUBSET allocated
    PROVE  /\ IsFiniteSet(A) /\ Cardinality(A) \in Nat
           /\ IsFiniteSet(allocated) /\ Cardinality(allocated) \in Nat
           /\ Cardinality(A) <= Cardinality(allocated)
<1>1. IsFiniteSet(allocated)
  BY FewAssumption, FS_Subset DEF TypeOK
<1>2. IsFiniteSet(A) /\ Cardinality(A) <= Cardinality(allocated)
  BY <1>1, FS_Subset
<1> QED
  BY <1>1, <1>2, FS_CardinalityType

\* A context in slot q gets space s: the pages of S are mapped to the frames
\* space t maps there, those of P to new frames.
Builds(q, s, t, S, P, new) ==
    /\ s \notin UsedSpaces
    /\ P \intersect S = {}
    /\ \A v \in S : t \in UsedSpaces /\ v \in Mapped(t) /\ v \notin Writable
    /\ new \in [P -> Frames \ allocated]
    /\ \A u, v \in P : new[u] = new[v] => u = v
    /\ allocated' = allocated \union {new[v] : v \in P}
    /\ last_free_pos' \in Positions
    /\ ~Live(q) /\ space' = [space EXCEPT ![q] = s]
    /\ \E nf \in [Growable -> Nat] : next_free' = [next_free EXCEPT ![q] = nf]
    /\ frame' = [frame EXCEPT ![s] = [v \in VPages |->
                    IF v \in S THEN frame[t][v] ELSE IF v \in P THEN new[v] ELSE NoFrame]]
    /\ \E X \in SUBSET Writable : leafW' = [leafW EXCEPT ![s] = X]
    /\ \E Y \in SUBSET Tables : /\ tables' = [tables EXCEPT ![s] = Y]
                                /\ tableW' = [tableW EXCEPT ![s] = Y]

\* install_ptable() changes the entries of one space.
LEMMA InstallFacts ==
    ASSUME NEW s \in Spaces, NEW f, install_ptable(s, f)
    PROVE  /\ frame' = [frame EXCEPT ![s] = f]
           /\ \E X \in SUBSET Writable : leafW' = [leafW EXCEPT ![s] = X]
           /\ \E Y \in SUBSET Tables : /\ tables' = [tables EXCEPT ![s] = Y]
                                       /\ tableW' = [tableW EXCEPT ![s] = Y]
<1>1. PICK P : P = {v \in VPages : f[v] # NoFrame}
  OBVIOUS
<1>2. /\ frame' = [frame EXCEPT ![s] = f]
      /\ leafW' = [leafW EXCEPT ![s] = P \intersect Writable]
      /\ tables' = [tables EXCEPT ![s] = {Table(v) : v \in P}]
      /\ tableW' = [tableW EXCEPT ![s] = {Table(v) : v \in P}]
  BY <1>1 DEF install_ptable
<1>3. P \intersect Writable \in SUBSET Writable
  OBVIOUS
<1>4. {Table(v) : v \in P} \in SUBSET Tables
  BY <1>1 DEF Tables
<1> QED
  BY <1>2, <1>3, <1>4

LEMMA LaunchBuilds ==
    ASSUME TypeOK, LaunchFits, NEW p \in Contexts, launch(p)
    PROVE  /\ UsedSpaces = {}
           /\ \E s \in Spaces : \E new : Builds(p, s, s, {}, LaunchPages, new)
<1>1. \A q \in Contexts : ~Live(q)
  BY DEF launch
<1>2. UsedSpaces = {}
  BY <1>1 DEF UsedSpaces
<1>3. Cardinality(allocated) + LaunchFrames <= FewFrames
  BY <1>2 DEF LaunchFits
<1>4. PICK s \in Spaces, r \in Alloc(allocated, last_free_pos, LaunchFrames) :
        /\ take(LaunchFrames, r)
        /\ space' = [space EXCEPT ![p] = s]
        /\ install_ptable(s, [v \in VPages |-> IF v \in LaunchPages
                                 THEN Assign(LaunchPages, r.pfns)[v] ELSE NoFrame])
  BY DEF launch, LaunchPages
<1>5. PICK new : new = Assign(LaunchPages, r.pfns)
  OBVIOUS
<1>6. PICK n : n = LaunchFrames
  OBVIOUS
<1>7. n \in 0 .. Cardinality(VPages) /\ n = Cardinality(LaunchPages)
  <2>1. Cardinality(VPages) \in Nat
    BY PagesFinite, FS_CardinalityType
  <2> QED
    BY <1>6, <2>1, LaunchSize
<1>8. /\ last_free_pos' \in Positions
      /\ Fresh(r.pfns, n, allocated)
      /\ allocated' = allocated \union {r.pfns[i] : i \in 1 .. n}
  BY <1>3, <1>4, <1>6, <1>7, TakeFacts
<1>9. /\ new \in [LaunchPages -> Frames \ allocated]
      /\ \A u, v \in LaunchPages : new[u] = new[v] => u = v
      /\ {new[v] : v \in LaunchPages} = {r.pfns[i] : i \in 1 .. n}
  <2>1. Spreads(LaunchPages, new, r.pfns, allocated)
    BY <1>5, <1>7, <1>8, LaunchSize, AssignFacts
  <2> QED
    BY <1>7, <2>1 DEF Spreads
<1>10. \E nf \in [Growable -> Nat] : next_free' = [next_free EXCEPT ![p] = nf]
  BY DEF launch
<1>11. PICK f : f = [v \in VPages |-> IF v \in LaunchPages THEN new[v] ELSE NoFrame]
  OBVIOUS
<1>12. install_ptable(s, f)
  BY <1>4, <1>5, <1>11
<1>13. f = [v \in VPages |-> IF v \in {} THEN frame[s][v]
                             ELSE IF v \in LaunchPages THEN new[v] ELSE NoFrame]
  BY <1>11
<1>14. Builds(p, s, s, {}, LaunchPages, new)
  BY <1>1, <1>2, <1>4, <1>8, <1>9, <1>10, <1>12, <1>13, InstallFacts DEF Builds
<1> QED
  BY <1>2, <1>14

LEMMA ForkBuilds ==
    ASSUME TypeOK, NEW p \in Contexts, NEW q \in Contexts, do_fork(p, q)
    PROVE  \E s \in Spaces : \E t, S, P, new :
              /\ t \in Spaces /\ P \subseteq VPages /\ Headroom(Cardinality(P))
              /\ Builds(q, s, t, S, P, new)
<1>1. PICK t : t = space[p]
  OBVIOUS
<1>2. PICK S : S = SharedPages(p)
  OBVIOUS
<1>3. PICK P : P = CopiedPages(p)
  OBVIOUS
<1>4. PICK n : n = Cardinality(P)
  OBVIOUS
<1>5. PICK s \in Spaces, r \in Alloc(allocated, last_free_pos, n) :
        /\ FreeSpace(s)
        /\ take(n, r)
        /\ space' = [space EXCEPT ![q] = s]
        /\ install_ptable(s, [v \in VPages |->
              IF v \in S THEN frame[t][v]
              ELSE IF v \in P THEN Assign(P, r.pfns)[v] ELSE NoFrame])
  BY <1>1, <1>2, <1>3, <1>4 DEF do_fork
<1>6. Live(p) /\ ~Live(q) /\ Headroom(n) /\ next_free' = [next_free EXCEPT ![q] = next_free[p]]
  BY <1>3, <1>4 DEF do_fork
<1>7. t \in Spaces /\ t \in UsedSpaces
  BY <1>1, <1>6 DEF TypeOK, UsedSpaces, Live
<1>8. /\ P \subseteq VPages /\ P \intersect S = {}
      /\ \A v \in S : v \in Mapped(t) /\ v \notin Writable
  BY <1>1, <1>2, <1>3 DEF CopiedPages, SharedPages, Mapped, Writable
<1>9. n \in 0 .. Cardinality(VPages)
  <2>1. IsFiniteSet(P) /\ n <= Cardinality(VPages)
    BY <1>4, <1>8, PagesFinite, FS_Subset
  <2>2. n \in Nat /\ Cardinality(VPages) \in Nat
    BY <1>4, <2>1, PagesFinite, FS_CardinalityType
  <2> QED
    BY <2>1, <2>2
<1>10. Cardinality(allocated) + n <= FewFrames
  <2>1. Cardinality(allocated) \in Nat
    BY AllocatedFinite
  <2> QED
    BY <1>6, <1>9, <2>1, LaunchSize, FewAssumption DEF Headroom
<1>11. PICK new : new = Assign(P, r.pfns)
  OBVIOUS
<1>12. /\ last_free_pos' \in Positions
       /\ Fresh(r.pfns, n, allocated)
       /\ allocated' = allocated \union {r.pfns[i] : i \in 1 .. n}
  BY <1>5, <1>9, <1>10, TakeFacts
<1>13. /\ new \in [P -> Frames \ allocated]
       /\ \A u, v \in P : new[u] = new[v] => u = v
       /\ {new[v] : v \in P} = {r.pfns[i] : i \in 1 .. n}
  <2>1. Spreads(P, new, r.pfns, allocated)
    BY <1>4, <1>8, <1>11, <1>12, AssignFacts
  <2> QED
    BY <1>4, <2>1 DEF Spreads
<1>14. \E nf \in [Growable -> Nat] : next_free' = [next_free EXCEPT ![q] = nf]
  BY <1>6 DEF TypeOK
<1>15. PICK f : f = [v \in VPages |-> IF v \in S THEN frame[t][v]
                                      ELSE IF v \in P THEN new[v] ELSE NoFrame]
  OBVIOUS
<1>16. install_ptable(s, f)
  BY <1>5, <1>11, <1>15
<1>17. Builds(q, s, t, S, P, new)
  BY <1>5, <1>6, <1>7, <1>8, <1>12, <1>13, <1>14, <1>15, <1>16, InstallFacts DEF Builds, FreeSpace
<1> QED
  BY <1>4, <1>6, <1>7, <1>8, <1>17
-----------------------------------------------------------------------------
(* A new space.                                                            *)

LEMMA BuildsTypes ==
    ASSUME TypeOK, LeavesReadOnly, NEW q \in Contexts, NEW s \in Spaces, NEW t \in Spaces,
           NEW S, NEW P \in SUBSET VPages, NEW new, Builds(q, s, t, S, P, new)
    PROVE  /\ TypeOK' /\ LeavesReadOnly'
           /\ UsedSpaces' = UsedSpaces \union {s} /\ s \notin UsedSpaces /\ UsedSpaces \subseteq Spaces
<1>1. space' = [space EXCEPT ![q] = s] /\ space' \in [Contexts -> Spaces \union {NoSpace}]
  BY DEF Builds, TypeOK
<1>2. next_free' \in [Contexts -> [Growable -> Nat]]
  BY DEF Builds, TypeOK
<1>3. PICK f : f = [v \in VPages |->
                    IF v \in S THEN frame[t][v] ELSE IF v \in P THEN new[v] ELSE NoFrame]
  OBVIOUS
<1>4. f \in [VPages -> Frames \union {NoFrame}]
  BY <1>3 DEF Builds, TypeOK
<1>5. frame' = [frame EXCEPT ![s] = f]
  BY <1>3 DEF Builds
<1>6. frame' \in [Spaces -> [VPages -> Frames \union {NoFrame}]]
  BY <1>4, <1>5 DEF TypeOK
<1>7. leafW' \in [Spaces -> SUBSET VPages] /\ LeavesReadOnly'
  BY DEF Builds, TypeOK, LeavesReadOnly, Writable
<1>8. tables' \in [Spaces -> SUBSET Tables] /\ tableW' \in [Spaces -> SUBSET Tables]
  BY DEF Builds, TypeOK
<1>9. allocated' \subseteq Frames /\ last_free_pos' \in Positions
  BY DEF Builds, TypeOK
<1>10. TypeOK'
  BY <1>1, <1>2, <1>6, <1>7, <1>8, <1>9 DEF TypeOK
<1>11. ASSUME NEW x PROVE x \in UsedSpaces' <=> x \in UsedSpaces \union {s}
  <2>1. x \in UsedSpaces <=> x \in Spaces /\ \E p \in Contexts : space[p] = x
    BY UsedNow
  <2>2. x \in UsedSpaces' <=> x \in Spaces /\ \E p \in Contexts : space'[p] = x
    BY <1>1, UsedNext
  <2>3. space[q] = NoSpace /\ NoSpace \notin Spaces
    BY NoneAssumption DEF Builds, Live
  <2>4. \A p \in Contexts : space'[p] = IF p = q THEN s ELSE space[p]
    BY <1>1 DEF TypeOK
  <2> QED
    BY <2>1, <2>2, <2>3, <2>4
<1>12. s \notin UsedSpaces
  BY DEF Builds
<1>13. UsedSpaces \subseteq Spaces
  BY UsedNow
<1> QED
  BY <1>7, <1>10, <1>11, <1>12, <1>13

LEMMA BuildsFrames ==
    ASSUME TypeOK, NEW q \in Contexts, NEW s \in Spaces, NEW t \in Spaces,
           NEW S, NEW P \in SUBSET VPages, NEW new, Builds(q, s, t, S, P, new)
    PROVE  /\ \A a \in Spaces \ {s} : \A v \in VPages : frame'[a][v] = frame[a][v]
           /\ \A v \in VPages : frame'[s][v] = IF v \in S THEN frame[t][v]
                                               ELSE IF v \in P THEN new[v] ELSE NoFrame
           /\ \A v \in P : new[v] \in Frames /\ new[v] # NoFrame /\ v \notin S
<1>1. PICK f : f = [v \in VPages |->
                    IF v \in S THEN frame[t][v] ELSE IF v \in P THEN new[v] ELSE NoFrame]
  OBVIOUS
<1>2. frame' = [frame EXCEPT ![s] = f]
  BY <1>1 DEF Builds
<1>3. \A a \in Spaces : frame'[a] = IF a = s THEN f ELSE frame[a]
  BY <1>2 DEF TypeOK
<1>4. \A v \in P : new[v] \in Frames /\ new[v] # NoFrame /\ v \notin S
  BY NoneAssumption DEF Builds
<1> QED
  BY <1>1, <1>3, <1>4

LEMMA BuildsOrphans ==
    ASSUME TypeOK, LeavesReadOnly, NEW q \in Contexts, NEW s \in Spaces, NEW t \in Spaces,
           NEW S, NEW P \in SUBSET VPages, NEW new, Builds(q, s, t, S, P, new)
    PROVE  Orphans' \subseteq Orphans
<1> SUFFICES ASSUME NEW f \in Orphans' PROVE f \in Orphans
  OBVIOUS
<1>1. UsedSpaces' = UsedSpaces \union {s} /\ s \notin UsedSpaces /\ UsedSpaces \subseteq Spaces
  BY BuildsTypes
<1>2. f \in allocated' /\ \A a \in UsedSpaces', v \in VPages : frame'[a][v] = f => f = NoFrame
  BY OrphanNext
<1>3. \A v \in P : frame'[s][v] = new[v] /\ new[v] # NoFrame
  BY BuildsFrames
<1>4. f \in allocated
  <2>1. f \in allocated \/ \E v \in P : f = new[v]
    BY <1>2 DEF Builds
  <2>2. s \in UsedSpaces' /\ \A v \in P : v \in VPages
    BY <1>1
  <2> QED
    BY <1>2, <1>3, <2>1, <2>2
<1>5. \A a \in UsedSpaces, v \in VPages : frame[a][v] = f => f = NoFrame
  <2>1. \A a \in Spaces \ {s} : \A v \in VPages : frame'[a][v] = frame[a][v]
    BY BuildsFrames
  <2> QED
    BY <1>1, <1>2, <2>1
<1> QED
  BY <1>4, <1>5, OrphanNow

\* The parts of MapInv, page by page.
Dangles(s, v)       == frame[s][v] # NoFrame /\ frame[s][v] \notin allocated
Collides(s, u, t, v) == /\ frame[s][u] # NoFrame /\ frame[s][u] = frame[t][v]
                        /\ ~(u = v /\ (u \in Writable => s = t))

LEMMA MapNow == MapInv <=> (NoSharedShrink =>
                    /\ \A s \in UsedSpaces, v \in VPages : ~Dangles(s, v)
                    /\ \A s, t \in UsedSpaces, u, v \in VPages : ~Collides(s, u, t, v))
BY DEF MapInv, NoDangling, OnePageEach, Dangles, Collides, MappedTo, Mapped

LEMMA MapNext == MapInv' <=> (NoSharedShrink =>
                    /\ \A s \in UsedSpaces', v \in VPages : ~Dangles(s, v)'
                    /\ \A s, t \in UsedSpaces', u, v \in VPages : ~Collides(s, u, t, v)')
BY DEF MapInv, NoDangling, OnePageEach, Dangles, Collides, MappedTo, Mapped, NoSharedShrink

LEMMA BuildsMap ==
    ASSUME TypeOK, LeavesReadOnly, MapInv,
           NEW q \in Contexts, NEW s \in Spaces, NEW t \in Spaces,
           NEW S, NEW P \in SUBSET VPages, NEW new, Builds(q, s, t, S, P, new)
    PROVE  MapInv'
<1> SUFFICES ASSUME NoSharedShrink
             PROVE  /\ \A a \in UsedSpaces', v \in VPages : ~Dangles(a, v)'
                    /\ \A a, b \in UsedSpaces', u, v \in VPages : ~Collides(a, u, b, v)'
  BY MapNext
<1>1. /\ \A a \in UsedSpaces, v \in VPages : frame[a][v] # NoFrame => frame[a][v] \in allocated
      /\ \A a, b \in UsedSpaces, u, v \in VPages :
            frame[a][u] # NoFrame /\ frame[a][u] = frame[b][v] => u = v /\ (u \in Writable => a = b)
  BY MapNow DEF Dangles, Collides
<1>2. UsedSpaces' = UsedSpaces \union {s} /\ s \notin UsedSpaces /\ UsedSpaces \subseteq Spaces
  BY BuildsTypes
<1>3. /\ \A a \in UsedSpaces, v \in VPages : frame'[a][v] = frame[a][v]
      /\ \A v \in VPages : frame'[s][v] = IF v \in S THEN frame[t][v]
                                          ELSE IF v \in P THEN new[v] ELSE NoFrame
  BY <1>2, BuildsFrames
<1>4. \A v \in P : new[v] \notin allocated /\ new[v] \in allocated' /\ v \notin S
  BY DEF Builds
<1>5. \A v \in S : t \in UsedSpaces /\ v \notin Writable
  BY DEF Builds
<1>6. \A u, v \in P : new[u] = new[v] => u = v
  BY DEF Builds
<1>7. allocated \subseteq allocated'
  BY DEF Builds
<1>8. ASSUME NEW a \in UsedSpaces', NEW v \in VPages
      PROVE  frame'[a][v] # NoFrame => frame'[a][v] \in allocated'
  BY <1>1, <1>2, <1>3, <1>4, <1>5, <1>7
<1>9. ASSUME NEW a \in UsedSpaces', NEW b \in UsedSpaces', NEW u \in VPages, NEW v \in VPages,
             frame'[a][u] # NoFrame, frame'[a][u] = frame'[b][v]
      PROVE  u = v /\ (u \in Writable => a = b)
  <2>1. CASE a # s /\ b # s
    BY <1>1, <1>2, <1>3, <1>9, <2>1
  <2>2. CASE a = s /\ b = s
    BY <1>1, <1>2, <1>3, <1>4, <1>5, <1>6, <1>9, <2>2
  <2>3. CASE a = s /\ b # s
    BY <1>1, <1>2, <1>3, <1>4, <1>5, <1>9, <2>3
  <2>4. CASE a # s /\ b = s
    BY <1>1, <1>2, <1>3, <1>4, <1>5, <1>9, <2>4
  <2> QED
    BY <2>1, <2>2, <2>3, <2>4
<1> QED
  BY <1>8, <1>9 DEF Dangles, Collides
\* New frames and the ones in use are no more than both together.
LEMMA ImageSize ==
    ASSUME NEW P, IsFiniteSet(P), NEW T, NEW new \in [P -> T],
           NEW A, IsFiniteSet(A)
    PROVE  /\ IsFiniteSet(A \union {new[v] : v \in P})
           /\ Cardinality(A \union {new[v] : v \in P}) <= Cardinality(A) + Cardinality(P)
<1>1. PICK R : R = {new[v] : v \in P}
  OBVIOUS
<1>2. new \in Surjection(P, R)
  BY <1>1 DEF Surjection
<1>3. IsFiniteSet(R) /\ Cardinality(R) <= Cardinality(P)
  BY <1>2, FS_Surjection
<1>4. /\ IsFiniteSet(A \union R)
      /\ Cardinality(A \union R) = Cardinality(A) + Cardinality(R) - Cardinality(A \intersect R)
  BY <1>3, FS_Union
<1>5. IsFiniteSet(A \intersect R)
  BY FS_Intersection
<1>6. /\ Cardinality(A) \in Nat /\ Cardinality(P) \in Nat
      /\ Cardinality(R) \in Nat /\ Cardinality(A \intersect R) \in Nat
  BY <1>3, <1>5, FS_CardinalityType
<1>7. Cardinality(A \union R) <= Cardinality(A) + Cardinality(P)
  BY <1>3, <1>4, <1>6
<1> QED
  BY <1>1, <1>4, <1>7

LEMMA LaunchStep ==
    ASSUME BaseInv, NEW p \in Contexts, launch(p)
    PROVE  BaseInv' /\ Orphans' \subseteq Orphans /\ (MapInv => MapInv')
<1>1. TypeOK /\ LaunchFits /\ LeavesReadOnly /\ OneSpace
  BY DEF BaseInv
<1>2. PICK s \in Spaces : \E new : Builds(p, s, s, {}, LaunchPages, new)
  BY <1>1, LaunchBuilds
<1>3. PICK new : Builds(p, s, s, {}, LaunchPages, new)
  BY <1>2
<1>4. UsedSpaces = {} /\ LaunchPages \in SUBSET VPages
  BY <1>1, LaunchBuilds, LaunchSize
<1>5. TypeOK' /\ LeavesReadOnly' /\ UsedSpaces' = {s}
  BY <1>1, <1>3, <1>4, BuildsTypes
<1>6. Orphans' \subseteq Orphans
  BY <1>1, <1>3, <1>4, BuildsOrphans
<1>7. OneSpace'
  BY <1>1, <1>5, <1>6 DEF OneSpace
<1>8. LaunchFits'
  <2>1. allocated' \ MappedTo(s)' = Orphans'
    BY <1>5 DEF Orphans
  <2>2. PICK O : O = Orphans'
    OBVIOUS
  <2>3. O \in SUBSET allocated
    BY <1>6, <2>2 DEF Orphans
  <2>4. Cardinality(O) \in Nat /\ Cardinality(allocated) \in Nat /\ Cardinality(O) <= Cardinality(allocated)
    BY <1>1, <2>3, AllocatedFinite
  <2>5. Cardinality(allocated) + LaunchFrames <= FewFrames
    BY <1>1, <1>4 DEF LaunchFits
  <2>6. Cardinality(O) + LaunchFrames <= FewFrames
    BY <2>4, <2>5, LaunchSize, FewAssumption
  <2>7. (Cardinality(allocated \ MappedTo(s)) + LaunchFrames <= FewFrames)'
    BY <2>1, <2>2, <2>6
  <2> QED
    BY <1>5, <2>7 DEF LaunchFits
<1>9. MapInv => MapInv'
  BY <1>1, <1>3, <1>4, BuildsMap
<1> QED
  BY <1>5, <1>6, <1>7, <1>8, <1>9 DEF BaseInv

LEMMA ForkStep ==
    ASSUME BaseInv, NEW p \in Contexts, NEW q \in Contexts, do_fork(p, q)
    PROVE  BaseInv' /\ Orphans' \subseteq Orphans /\ (MapInv => MapInv')
<1>1. TypeOK /\ LaunchFits /\ LeavesReadOnly /\ CanFork
  BY DEF BaseInv, do_fork
<1>2. PICK s \in Spaces : \E t, S, P, new :
              /\ t \in Spaces /\ P \subseteq VPages /\ Headroom(Cardinality(P))
              /\ Builds(q, s, t, S, P, new)
  BY <1>1, ForkBuilds
<1>3. PICK t, S, P, new :
              /\ t \in Spaces /\ P \subseteq VPages /\ Headroom(Cardinality(P))
              /\ Builds(q, s, t, S, P, new)
  BY <1>2
<1>4. TypeOK' /\ LeavesReadOnly'
  BY <1>1, <1>3, BuildsTypes
<1>5. Orphans' \subseteq Orphans
  BY <1>1, <1>3, BuildsOrphans
<1>6. OneSpace'
  BY <1>1 DEF OneSpace
<1>7. LaunchFits'
  <2>1. IsFiniteSet(P) /\ Cardinality(P) \in Nat
    BY <1>3, PagesFinite, FS_Subset, FS_CardinalityType
  <2>2. IsFiniteSet(allocated) /\ Cardinality(allocated) \in Nat
    BY <1>1, AllocatedFinite
  <2>3. new \in [P -> Frames \ allocated] /\ allocated' = allocated \union {new[v] : v \in P}
    BY <1>3 DEF Builds
  <2>4. IsFiniteSet(allocated') /\ Cardinality(allocated') <= Cardinality(allocated) + Cardinality(P)
    <3>1. PICK A : A = allocated
      OBVIOUS
    <3>2. PICK T : T = Frames \ allocated
      OBVIOUS
    <3>3. new \in [P -> T] /\ IsFiniteSet(A)
      BY <2>2, <2>3, <3>1, <3>2
    <3>4. /\ IsFiniteSet(A \union {new[v] : v \in P})
          /\ Cardinality(A \union {new[v] : v \in P}) <= Cardinality(A) + Cardinality(P)
      BY <2>1, <3>3, ImageSize
    <3> QED
      BY <2>3, <3>1, <3>4
  <2>5. Cardinality(allocated') \in Nat
    BY <2>4, FS_CardinalityType
  <2>6. Cardinality(allocated) + Cardinality(P) + LaunchFrames <= FewFrames
    BY <1>3 DEF Headroom
  <2>7. Cardinality(allocated') + LaunchFrames <= FewFrames
    BY <2>1, <2>2, <2>4, <2>5, <2>6, LaunchSize, FewAssumption
  <2> QED
    BY <2>7 DEF LaunchFits
<1>8. MapInv => MapInv'
  BY <1>1, <1>3, BuildsMap
<1> QED
  BY <1>4, <1>5, <1>6, <1>7, <1>8 DEF BaseInv
-----------------------------------------------------------------------------
(* fork() with every slot in use.                                          *)

Image(pfns, n) == {pfns[i] : i \in 1 .. n}

\* n different new frames are n frames more in use.
LEMMA FreshSize ==
    ASSUME NEW n \in Nat, NEW pfns, NEW A, IsFiniteSet(A), Fresh(pfns, n, A),
           NEW I, I = Image(pfns, n)
    PROVE  /\ Cardinality(I) = n /\ I \intersect A = {} /\ I \subseteq Frames
           /\ Cardinality(A \union I) = Cardinality(A) + n
<1>2. IsFiniteSet(1 .. n) /\ Cardinality(1 .. n) = n
  BY FS_Interval
<1>3. pfns \in [1 .. n -> I]
  BY DEF Fresh, Image
<1>4. pfns \in Injection(1 .. n, I)
  BY <1>3 DEF Fresh, Injection, IsInjective
<1>5. pfns \in Surjection(1 .. n, I)
  BY <1>3 DEF Surjection, Image
<1>6. IsFiniteSet(I)
  BY <1>2, <1>5, FS_Surjection
<1>7. Cardinality(I) = n
  BY <1>2, <1>4, <1>5, <1>6, FS_Injection
<1>8. I \intersect A = {} /\ I \subseteq Frames
  BY DEF Fresh, Image
<1>9. Cardinality(A \union I) = Cardinality(A) + Cardinality(I) - Cardinality(A \intersect I)
  BY <1>6, FS_Union
<1>10. A \intersect I = {}
  BY <1>8
<1>11. Cardinality(A \intersect I) = 0
  BY <1>10, FS_EmptySet
<1>12. Cardinality(A) \in Nat
  BY FS_CardinalityType
<1>13. Cardinality(A \union I) = Cardinality(A) + n
  BY <1>7, <1>9, <1>11, <1>12
<1> QED
  BY <1>7, <1>8, <1>13

LEMMA ForkAtLimitStep ==
    ASSUME BaseInv, NEW p \in Contexts, do_fork_at_limit(p)
    PROVE  BaseInv' /\ CopiesForNobody(p) /\ (MapInv => MapInv')
<1>1. TypeOK /\ LaunchFits /\ LeavesReadOnly
  BY DEF BaseInv
<1>2. PICK P : P = CopiedPages(p)
  OBVIOUS
<1>3. PICK n : n = Cardinality(P)
  OBVIOUS
<1>4. PICK r : take(n, r)
  BY <1>2, <1>3 DEF do_fork_at_limit
<1>5. /\ CanFork /\ Live(p) /\ AtLimit /\ Headroom(n)
      /\ UNCHANGED <<space, next_free, ptVars>>
  BY <1>2, <1>3 DEF do_fork_at_limit
<1>6. frame' = frame /\ leafW' = leafW /\ tables' = tables /\ tableW' = tableW
      /\ space' = space /\ next_free' = next_free
  BY <1>5 DEF ptVars
<1>7. P \subseteq VPages
  BY <1>2 DEF CopiedPages, Mapped
<1>8. n \in Nat /\ n \in 0 .. Cardinality(VPages)
  <2>1. IsFiniteSet(P) /\ n <= Cardinality(VPages)
    BY <1>3, <1>7, PagesFinite, FS_Subset
  <2>2. n \in Nat /\ Cardinality(VPages) \in Nat
    BY <1>3, <2>1, PagesFinite, FS_CardinalityType
  <2> QED
    BY <2>1, <2>2
<1>9. /\ IsFiniteSet(allocated) /\ Cardinality(allocated) \in Nat
      /\ Cardinality(allocated) + n + LaunchFrames <= FewFrames
  BY <1>1, <1>5, AllocatedFinite DEF Headroom
<1>10. /\ last_free_pos' \in Positions
       /\ Fresh(r.pfns, n, allocated)
       /\ allocated' = allocated \union {r.pfns[i] : i \in 1 .. n}
  <2>1. Cardinality(allocated) + n <= FewFrames
    BY <1>8, <1>9, LaunchSize, FewAssumption
  <2> QED
    BY <1>1, <1>4, <1>8, <2>1, TakeFacts
<1>11. PICK I : /\ allocated' = allocated \union I
                /\ Cardinality(I) = n /\ I \intersect allocated = {} /\ I \subseteq Frames
                /\ Cardinality(allocated') = Cardinality(allocated) + n
  <2>1. PICK pfns, A : pfns = r.pfns /\ A = allocated
    OBVIOUS
  <2>2. PICK I : I = Image(pfns, n)
    OBVIOUS
  <2>3. Fresh(pfns, n, A) /\ IsFiniteSet(A) /\ allocated' = A \union I
    BY <1>9, <1>10, <2>1, <2>2 DEF Image
  <2>4. /\ Cardinality(I) = n /\ I \intersect A = {} /\ I \subseteq Frames
        /\ Cardinality(A \union I) = Cardinality(A) + n
    BY <1>8, <2>2, <2>3, FreshSize
  <2> QED
    BY <2>1, <2>3, <2>4
<1>12. TypeOK'
  BY <1>1, <1>6, <1>10, <1>11 DEF TypeOK
<1>13. LeavesReadOnly'
  BY <1>1, <1>6 DEF LeavesReadOnly
<1>14. OneSpace'
  BY <1>5 DEF OneSpace
<1>15. LaunchFits'
  BY <1>9, <1>11 DEF LaunchFits
<1>16. UsedSpaces' = UsedSpaces
  BY <1>6 DEF UsedSpaces, Live
<1>17. MapInv => MapInv'
  <2>1. allocated \subseteq allocated'
    BY <1>11
  <2> QED
    BY <1>6, <1>16, <2>1
       DEF MapInv, NoDangling, OnePageEach, MappedTo, Mapped, NoSharedShrink
<1>18. CopiesForNobody(p)
  <2>1. allocated' \ allocated = I
    BY <1>11
  <2>2. Cardinality(allocated' \ allocated) = Cardinality(CopiedPages(p))
    BY <1>2, <1>3, <1>11, <2>1
  <2>3. ASSUME NEW f \in Orphans', f \in allocated PROVE f \in Orphans
    <3>1. \A s \in UsedSpaces, v \in VPages : frame[s][v] = f => f = NoFrame
      BY <1>6, <1>16, <2>3, OrphanNext
    <3> QED
      BY <2>3, <3>1, OrphanNow
  <2>4. Orphans' \ Orphans \subseteq allocated' \ allocated
    BY <2>3 DEF Orphans
  <2> QED
    BY <1>5, <2>2, <2>4 DEF CopiesForNobody
<1> QED
  BY <1>12, <1>13, <1>14, <1>15, <1>17, <1>18 DEF BaseInv

-----------------------------------------------------------------------------
(* A page fault.                                                           *)

LEMMA FaultFacts ==
    ASSUME TypeOK, NEW p \in Contexts, NEW v \in VPages, NEW write \in BOOLEAN,
           page_fault(p, v, write)
    PROVE  \E s \in Spaces : \E f \in Frames \ allocated :
              /\ s = space[p] /\ s \in UsedSpaces
              /\ allocated' = allocated \union {f} /\ last_free_pos' \in Positions
              /\ install_page_table(s, v, write, f)
<1>1. PICK r : take(1, r) /\ install_page_table(space[p], v, write, r.pfns[1])
  BY DEF page_fault
<1>2. Cardinality(allocated) + 1 + LaunchFrames <= FewFrames /\ Live(p)
  BY DEF page_fault, Headroom
<1>3. 1 \in 0 .. Cardinality(VPages) /\ Cardinality(allocated) + 1 <= FewFrames
  <2>1. Cardinality(allocated) \in Nat /\ Cardinality(VPages) \in Nat
    BY AllocatedFinite, PagesFinite, FS_CardinalityType
  <2> QED
    BY <1>2, <2>1, LaunchSize, FewAssumption
<1>4. /\ last_free_pos' \in Positions
      /\ Fresh(r.pfns, 1, allocated)
      /\ allocated' = allocated \union {r.pfns[i] : i \in 1 .. 1}
  BY <1>1, <1>3, TakeFacts
<1>5. PICK f : f = r.pfns[1]
  OBVIOUS
<1>6. f \in Frames \ allocated /\ allocated' = allocated \union {f}
  <2>1. 1 .. 1 = {1}
    OBVIOUS
  <2>2. r.pfns[1] \in Frames \ allocated
    BY <1>4, <2>1 DEF Fresh
  <2> QED
    BY <1>4, <1>5, <2>1, <2>2
<1>7. space[p] \in Spaces /\ space[p] \in UsedSpaces
  BY <1>2 DEF TypeOK, UsedSpaces, Live
<1> QED
  BY <1>1, <1>4, <1>5, <1>6, <1>7

LEMMA FaultStep ==
    ASSUME BaseInv, NEW p \in Contexts, NEW v \in VPages, NEW write \in BOOLEAN,
           page_fault(p, v, write)
    PROVE  BaseInv' /\ Orphans' \subseteq Orphans /\ (MapInv => MapInv')
<1>1. TypeOK /\ LaunchFits /\ LeavesReadOnly /\ OneSpace
  BY DEF BaseInv
<1>2. PICK s \in Spaces : \E f \in Frames \ allocated :
              /\ s = space[p] /\ s \in UsedSpaces
              /\ allocated' = allocated \union {f} /\ last_free_pos' \in Positions
              /\ install_page_table(s, v, write, f)
  BY <1>1, FaultFacts
<1>3. PICK f \in Frames \ allocated :
              /\ s = space[p] /\ s \in UsedSpaces
              /\ allocated' = allocated \union {f} /\ last_free_pos' \in Positions
              /\ install_page_table(s, v, write, f)
  BY <1>2
<1>4. space' = space /\ next_free' = next_free /\ frame[s][v] = NoFrame
  BY <1>3 DEF page_fault
<1>5. UsedSpaces' = UsedSpaces
  BY <1>4 DEF UsedSpaces, Live
<1>6. UsedSpaces \subseteq Spaces
  BY <1>1, UsedNow
<1>7. write => v \in Writable
  BY <1>3 DEF page_fault, Resolvable, Writable
<1>8. LeavesReadOnly' /\ leafW' \in [Spaces -> SUBSET VPages]
  <2>1. leafW' = [leafW EXCEPT ![s] = IF write THEN leafW[s] \union {v} ELSE leafW[s] \ {v}]
    BY <1>3 DEF install_page_table
  <2> QED
    BY <1>1, <1>7, <2>1 DEF LeavesReadOnly, TypeOK, Writable
<1>9. frame' = [frame EXCEPT ![s][v] = f]
  BY <1>3 DEF install_page_table
<1>10. frame' \in [Spaces -> [VPages -> Frames \union {NoFrame}]]
  BY <1>1, <1>9 DEF TypeOK
<1>11. tables' \in [Spaces -> SUBSET Tables] /\ tableW' \in [Spaces -> SUBSET Tables]
  <2>1. PICK tb : tb = Table(v)
    OBVIOUS
  <2>2. tb \in Tables
    BY <2>1 DEF Tables
  <2>3. /\ tables' = [tables EXCEPT ![s] = tables[s] \union {tb}]
        /\ tableW' = [tableW EXCEPT ![s] = IF write /\ tb \notin tables[s]
                                           THEN tableW[s] \union {tb} ELSE tableW[s]]
    BY <1>3, <2>1 DEF install_page_table
  <2> QED
    BY <1>1, <2>2, <2>3 DEF TypeOK
<1>12. TypeOK'
  BY <1>1, <1>3, <1>4, <1>8, <1>10, <1>11 DEF TypeOK
<1>13. /\ \A a \in Spaces, u \in VPages : frame'[a][u] = IF a = s /\ u = v THEN f ELSE frame[a][u]
       /\ f # NoFrame
  BY <1>1, <1>9, NoneAssumption DEF TypeOK
<1>14. Orphans' \subseteq Orphans
  <2> SUFFICES ASSUME NEW x \in Orphans' PROVE x \in Orphans
    OBVIOUS
  <2>1. x \in allocated' /\ \A a \in UsedSpaces', u \in VPages : frame'[a][u] = x => x = NoFrame
    BY OrphanNext
  <2>2. x # f
    BY <1>3, <1>5, <1>13, <2>1
  <2>3. x \in allocated
    BY <1>3, <2>1, <2>2
  <2>4. \A a \in UsedSpaces, u \in VPages : frame[a][u] = x => x = NoFrame
    BY <1>4, <1>5, <1>6, <1>13, <2>1
  <2> QED
    BY <2>3, <2>4, OrphanNow
<1>15. OneSpace'
  BY <1>1, <1>5, <1>14 DEF OneSpace
<1>16. LaunchFits'
  <2>1. Cardinality(allocated) \in Nat /\ IsFiniteSet(allocated)
    BY <1>1, AllocatedFinite
  <2>2. Cardinality(allocated') = Cardinality(allocated) + 1
    BY <1>3, <2>1, FS_AddElement
  <2>3. Cardinality(allocated) + 1 + LaunchFrames <= FewFrames
    BY DEF page_fault, Headroom
  <2> QED
    BY <2>1, <2>2, <2>3 DEF LaunchFits
<1>17. MapInv => MapInv'
  <2> SUFFICES ASSUME MapInv, NoSharedShrink
               PROVE  /\ \A a \in UsedSpaces', u \in VPages : ~Dangles(a, u)'
                      /\ \A a, b \in UsedSpaces', u, w \in VPages : ~Collides(a, u, b, w)'
    BY MapNext
  <2>1. /\ \A a \in UsedSpaces, u \in VPages : frame[a][u] # NoFrame => frame[a][u] \in allocated
        /\ \A a, b \in UsedSpaces, u, w \in VPages :
              frame[a][u] # NoFrame /\ frame[a][u] = frame[b][w] => u = w /\ (u \in Writable => a = b)
    BY MapNow DEF Dangles, Collides
  <2>2. ASSUME NEW a \in UsedSpaces, NEW u \in VPages
        PROVE  frame'[a][u] # NoFrame => frame'[a][u] \in allocated'
    BY <1>3, <1>6, <1>13, <2>1
  <2>3. ASSUME NEW a \in UsedSpaces, NEW b \in UsedSpaces, NEW u \in VPages, NEW w \in VPages,
               frame'[a][u] # NoFrame, frame'[a][u] = frame'[b][w]
        PROVE  u = w /\ (u \in Writable => a = b)
    BY <1>3, <1>6, <1>13, <2>1, <2>3
  <2> QED
    BY <1>5, <2>2, <2>3 DEF Dangles, Collides
<1> QED
  BY <1>8, <1>12, <1>14, <1>15, <1>16, <1>17 DEF BaseInv

-----------------------------------------------------------------------------
(* expand() and clone().                                                   *)

LEMMA SameMemory ==
    ASSUME BaseInv, UNCHANGED <<ptVars, allocated, last_free_pos>>, UsedSpaces' = UsedSpaces,
           space' \in [Contexts -> Spaces \union {NoSpace}],
           next_free' \in [Contexts -> [Growable -> Nat]]
    PROVE  BaseInv' /\ Orphans' \subseteq Orphans /\ (MapInv => MapInv')
<1>1. frame' = frame /\ leafW' = leafW /\ tables' = tables /\ tableW' = tableW
  BY DEF ptVars
<1>2. TypeOK'
  BY <1>1 DEF BaseInv, TypeOK
<1>3. LeavesReadOnly'
  BY <1>1 DEF BaseInv, LeavesReadOnly
<1>4. Orphans' = Orphans
  BY <1>1 DEF Orphans, MappedTo, Mapped
<1>5. OneSpace'
  BY <1>4 DEF BaseInv, OneSpace
<1>6. \A s \in Spaces : MappedTo(s)' = MappedTo(s)
  BY <1>1 DEF MappedTo, Mapped
<1>7. LaunchFits'
  BY <1>6 DEF BaseInv, LaunchFits
<1>8. MapInv => MapInv'
  BY <1>1 DEF MapInv, NoDangling, OnePageEach, MappedTo, Mapped, NoSharedShrink
<1> QED
  BY <1>2, <1>3, <1>4, <1>5, <1>7, <1>8 DEF BaseInv

LEMMA ExpandStep ==
    ASSUME BaseInv, NEW p \in Contexts, NEW seg \in Growable, NEW n \in ExpandPages,
           do_expand(p, seg, n)
    PROVE  BaseInv' /\ Orphans' \subseteq Orphans /\ (MapInv => MapInv')
<1>1. UsedSpaces' = UsedSpaces
  BY DEF do_expand, UsedSpaces, Live
<1>2. n \in Nat
  BY InputAssumption
<1>3. next_free' \in [Contexts -> [Growable -> Nat]]
  BY <1>2 DEF do_expand, BaseInv, TypeOK
<1>4. space' \in [Contexts -> Spaces \union {NoSpace}]
  BY DEF do_expand, BaseInv, TypeOK
<1> QED
  BY <1>1, <1>3, <1>4, SameMemory DEF do_expand

LEMMA CloneStep ==
    ASSUME BaseInv, NEW p \in Contexts, NEW q \in Contexts, do_clone(p, q)
    PROVE  BaseInv' /\ Orphans' \subseteq Orphans /\ (MapInv => MapInv')
<1>1. /\ space \in [Contexts -> Spaces \union {NoSpace}]
      /\ space' = [space EXCEPT ![q] = space[p]]
      /\ space[p] # NoSpace /\ space[q] = NoSpace
  BY DEF do_clone, BaseInv, TypeOK, Live
<1>2. space' \in [Contexts -> Spaces \union {NoSpace}]
  BY <1>1
<1>3. next_free' \in [Contexts -> [Growable -> Nat]]
  BY DEF do_clone, BaseInv, TypeOK
<1>4. UsedSpaces' = UsedSpaces
  BY <1>1 DEF UsedSpaces, Live
<1> QED
  BY <1>2, <1>3, <1>4, SameMemory DEF do_clone
-----------------------------------------------------------------------------
(* shrink().                                                               *)

LEMMA ShrinkStep ==
    ASSUME BaseInv, NEW p \in Contexts, NEW seg \in ShrinkSegs, NEW n \in ExpandPages,
           do_shrink(p, seg, n)
    PROVE  BaseInv' /\ Orphans' \subseteq Orphans /\ (MapInv => MapInv')
<1>1. TypeOK /\ LaunchFits /\ LeavesReadOnly /\ OneSpace
  BY DEF BaseInv
<1>2. PICK t : t = space[p]
  OBVIOUS
<1>3. PICK left : left = next_free[p][seg] - n
  OBVIOUS
<1>4. PICK P : P = {v \in Mapped(space[p]) : v[1] = seg /\ v[2] \in left .. left + n - 1}
  OBVIOUS
<1>5. unmap_user(t, P)
  BY <1>2, <1>3, <1>4 DEF do_shrink
<1>6. /\ space' = space /\ tables' = tables /\ tableW' = tableW /\ last_free_pos' = last_free_pos
      /\ next_free' = [next_free EXCEPT ![p][seg] = next_free[p][seg] - n]
      /\ Live(p) /\ CanShrink(p, seg, n)
  BY DEF do_shrink
<1>7. t \in Spaces /\ t \in UsedSpaces
  BY <1>1, <1>2, <1>6 DEF TypeOK, UsedSpaces, Live
<1>8. P \subseteq VPages /\ \A v \in P : v[1] = seg
  BY <1>4 DEF Mapped
<1>9. UsedSpaces' = UsedSpaces
  BY <1>6 DEF UsedSpaces, Live
<1>10. UsedSpaces \subseteq Spaces
  BY <1>1, UsedNow
<1>11. next_free' \in [Contexts -> [Growable -> Nat]]
  <2>1. seg \in Growable /\ n \in Nat
    BY InputAssumption
  <2>2. next_free[p][seg] \in Nat /\ next_free[p][seg] - n >= 0
    BY <1>1, <1>6, <2>1 DEF TypeOK, CanShrink
  <2>3. next_free[p][seg] - n \in Nat
    BY <2>1, <2>2
  <2> QED
    BY <1>1, <1>6, <2>1, <2>3 DEF TypeOK
<1>12. PICK g : g = [v \in VPages |-> IF v \in P THEN NoFrame ELSE frame[t][v]]
  OBVIOUS
<1>13. /\ frame' = [frame EXCEPT ![t] = g]
       /\ leafW' = [leafW EXCEPT ![t] = leafW[t] \ P]
       /\ allocated' = allocated \ {frame[t][v] : v \in P}
  BY <1>5, <1>12 DEF unmap_user
<1>14. g \in [VPages -> Frames \union {NoFrame}]
  BY <1>1, <1>7, <1>12 DEF TypeOK
<1>15. frame' \in [Spaces -> [VPages -> Frames \union {NoFrame}]]
  BY <1>1, <1>13, <1>14 DEF TypeOK
<1>16. leafW' \in [Spaces -> SUBSET VPages] /\ LeavesReadOnly'
  BY <1>1, <1>7, <1>13 DEF TypeOK, LeavesReadOnly
<1>17. TypeOK'
  BY <1>1, <1>6, <1>11, <1>13, <1>15, <1>16 DEF TypeOK
<1>18. \A a \in Spaces, u \in VPages :
          frame'[a][u] = IF a = t /\ u \in P THEN NoFrame ELSE frame[a][u]
  <2>1. \A a \in Spaces : frame'[a] = IF a = t THEN g ELSE frame[a]
    BY <1>1, <1>13 DEF TypeOK
  <2> QED
    BY <1>12, <2>1
<1>19. Orphans' \subseteq Orphans
  <2> SUFFICES ASSUME NEW x \in Orphans' PROVE x \in Orphans
    OBVIOUS
  <2>1. x \in allocated' /\ \A a \in UsedSpaces', u \in VPages : frame'[a][u] = x => x = NoFrame
    BY OrphanNext
  <2>2. x \in allocated /\ \A u \in P : frame[t][u] # x
    BY <1>13, <2>1
  <2>3. \A a \in UsedSpaces, u \in VPages : frame[a][u] = x => x = NoFrame
    BY <1>9, <1>10, <1>18, <2>1, <2>2
  <2> QED
    BY <2>2, <2>3, OrphanNow
<1>20. OneSpace'
  BY <1>1, <1>9, <1>19 DEF OneSpace
<1>21. LaunchFits'
  <2>1. CASE Cardinality(allocated) + LaunchFrames <= FewFrames
    <3>1. PICK A : A = allocated'
      OBVIOUS
    <3>2. A \in SUBSET allocated
      BY <1>13, <3>1
    <3>3. /\ Cardinality(A) \in Nat /\ Cardinality(allocated) \in Nat
          /\ Cardinality(A) <= Cardinality(allocated)
      BY <1>1, <3>2, AllocatedFinite
    <3>4. Cardinality(A) + LaunchFrames <= FewFrames
      BY <2>1, <3>3, LaunchSize, FewAssumption
    <3> QED
      BY <3>1, <3>4 DEF LaunchFits
  <2>2. ASSUME NEW s \in Spaces, UsedSpaces = {s},
               Cardinality(allocated \ MappedTo(s)) + LaunchFrames <= FewFrames
        PROVE  LaunchFits'
    <3>1. allocated \ MappedTo(s) = Orphans
      BY <2>2 DEF Orphans
    <3>2. allocated' \ MappedTo(s)' = Orphans'
      BY <1>9, <2>2 DEF Orphans
    <3>3. PICK A : A = Orphans
      OBVIOUS
    <3>4. PICK B : B = Orphans'
      OBVIOUS
    <3>5. A \in SUBSET allocated /\ B \in SUBSET allocated /\ B \in SUBSET A
      BY <1>19, <3>3, <3>4 DEF Orphans
    <3>6. IsFiniteSet(A) /\ Cardinality(A) \in Nat /\ Cardinality(B) \in Nat
      BY <1>1, <3>5, AllocatedFinite
    <3>7. Cardinality(B) <= Cardinality(A)
      BY <3>5, <3>6, FS_Subset
    <3>8. Cardinality(B) + LaunchFrames <= FewFrames
      <4>1. Cardinality(A) + LaunchFrames <= FewFrames
        BY <2>2, <3>1, <3>3
      <4> QED
        BY <3>6, <3>7, <4>1, LaunchSize, FewAssumption
    <3>9. (Cardinality(allocated \ MappedTo(s)) + LaunchFrames <= FewFrames)'
      BY <3>2, <3>4, <3>8
    <3> QED
      BY <1>9, <2>2, <3>9 DEF LaunchFits
  <2> QED
    BY <1>1, <2>1, <2>2 DEF LaunchFits
<1>22. MapInv => MapInv'
  <2> SUFFICES ASSUME MapInv, NoSharedShrink
               PROVE  /\ \A a \in UsedSpaces', u \in VPages : ~Dangles(a, u)'
                      /\ \A a, b \in UsedSpaces', u, w \in VPages : ~Collides(a, u, b, w)'
    BY MapNext
  <2>1. /\ \A a \in UsedSpaces, u \in VPages : frame[a][u] # NoFrame => frame[a][u] \in allocated
        /\ \A a, b \in UsedSpaces, u, w \in VPages :
              frame[a][u] # NoFrame /\ frame[a][u] = frame[b][w] => u = w /\ (u \in Writable => a = b)
    BY MapNow DEF Dangles, Collides
  <2>2. seg \in Growable
    BY InputAssumption
  <2>3. seg = "RODATA" => \A a \in UsedSpaces : a = t
    BY <1>1, <1>7 DEF OneSpace, NoSharedShrink
  <2>4. seg = "DATA" => P \subseteq Writable
    BY <1>8 DEF Writable
  <2>5. ASSUME NEW a \in UsedSpaces, NEW u \in VPages, NEW w \in P,
               frame[a][u] # NoFrame, frame[a][u] = frame[t][w]
        PROVE  a = t /\ u = w
    <3>1. u = w /\ (u \in Writable => a = t)
      BY <1>7, <1>8, <2>1, <2>5
    <3>2. seg = "RODATA" \/ seg = "DATA"
      BY <2>2 DEF Growable
    <3> QED
      BY <2>3, <2>4, <3>1, <3>2
  <2>6. ASSUME NEW a \in UsedSpaces, NEW u \in VPages
        PROVE  frame'[a][u] # NoFrame => frame'[a][u] \in allocated'
    BY <1>10, <1>13, <1>18, <2>1, <2>5
  <2>7. ASSUME NEW a \in UsedSpaces, NEW b \in UsedSpaces, NEW u \in VPages, NEW w \in VPages,
               frame'[a][u] # NoFrame, frame'[a][u] = frame'[b][w]
        PROVE  u = w /\ (u \in Writable => a = b)
    BY <1>10, <1>18, <2>1, <2>7
  <2> QED
    BY <1>9, <2>6, <2>7 DEF Dangles, Collides
<1> QED
  BY <1>16, <1>17, <1>19, <1>20, <1>21, <1>22 DEF BaseInv

-----------------------------------------------------------------------------
(* exit.                                                                   *)

LEMMA SharedExit ==
    ASSUME BaseInv, NEW p \in Contexts, do_exit(p),
           NEW q \in Contexts \ {p}, space[q] = space[p]
    PROVE  BaseInv' /\ Orphans' \subseteq Orphans /\ (MapInv => MapInv')
<1>1. /\ space \in [Contexts -> Spaces \union {NoSpace}]
      /\ space' = [space EXCEPT ![p] = NoSpace]
      /\ next_free' = next_free /\ last_free_pos' = last_free_pos /\ UNCHANGED ptVars
      /\ space[p] # NoSpace
  BY DEF do_exit, BaseInv, TypeOK, Live
<1>2. Live(q)
  BY <1>1 DEF Live
<1>3. allocated' = allocated
  BY <1>2 DEF do_exit
<1>4. space' \in [Contexts -> Spaces \union {NoSpace}]
  BY <1>1
<1>5. UsedSpaces' = UsedSpaces
  BY <1>1 DEF UsedSpaces, Live
<1>6. next_free' \in [Contexts -> [Growable -> Nat]]
  BY <1>1 DEF BaseInv, TypeOK
<1> QED
  BY <1>1, <1>3, <1>4, <1>5, <1>6, SameMemory

LEMMA LastOfSpaceExit ==
    ASSUME BaseInv, NEW p \in Contexts, do_exit(p),
           \A q \in Contexts \ {p} : space[q] # space[p]
    PROVE  BaseInv' /\ (EndsAlone(p) \/ Orphans' \subseteq Orphans) /\ (MapInv => MapInv')
<1>1. TypeOK /\ LaunchFits /\ LeavesReadOnly /\ OneSpace
  BY DEF BaseInv
<1>2. PICK t : t = space[p]
  OBVIOUS
<1>3. /\ space' = [space EXCEPT ![p] = NoSpace]
      /\ next_free' = next_free /\ last_free_pos' = last_free_pos
      /\ Live(p) /\ install_ptable(t, [v \in VPages |-> NoFrame])
  BY <1>2 DEF do_exit
<1>4. t \in Spaces /\ t \in UsedSpaces /\ UsedSpaces \subseteq Spaces
  <2>1. t \in Spaces /\ t \in UsedSpaces
    BY <1>1, <1>2, <1>3 DEF TypeOK, UsedSpaces, Live
  <2> QED
    BY <1>1, <2>1, UsedNow
<1>5. PICK f : f = [v \in VPages |-> NoFrame]
  OBVIOUS
<1>6. /\ frame' = [frame EXCEPT ![t] = f]
      /\ \E X \in SUBSET Writable : leafW' = [leafW EXCEPT ![t] = X]
      /\ \E Y \in SUBSET Tables : /\ tables' = [tables EXCEPT ![t] = Y]
                                  /\ tableW' = [tableW EXCEPT ![t] = Y]
  BY <1>3, <1>4, <1>5, InstallFacts
<1>7. allocated' = IF \E q \in Contexts \ {p} : Live(q) THEN allocated
                   ELSE allocated \ MappedTo(t)
  BY <1>2 DEF do_exit, pt_cleanup
<1>8. space' \in [Contexts -> Spaces \union {NoSpace}]
  BY <1>1, <1>3 DEF TypeOK
<1>9. UsedSpaces' = UsedSpaces \ {t}
  <2>1. \A q \in Contexts : space'[q] = IF q = p THEN NoSpace ELSE space[q]
    BY <1>1, <1>3 DEF TypeOK
  <2> SUFFICES ASSUME NEW x PROVE x \in UsedSpaces' <=> x \in UsedSpaces \ {t}
    OBVIOUS
  <2>2. x \in UsedSpaces <=> x \in Spaces /\ \E q \in Contexts : space[q] = x
    BY <1>1, UsedNow
  <2>3. x \in UsedSpaces' <=> x \in Spaces /\ \E q \in Contexts : space'[q] = x
    BY <1>8, UsedNext
  <2> QED
    BY <1>2, <2>1, <2>2, <2>3, NoneAssumption
<1>10. frame' \in [Spaces -> [VPages -> Frames \union {NoFrame}]]
  BY <1>1, <1>5, <1>6 DEF TypeOK
<1>11. leafW' \in [Spaces -> SUBSET VPages] /\ LeavesReadOnly'
  BY <1>1, <1>4, <1>6 DEF TypeOK, LeavesReadOnly, Writable
<1>12. tables' \in [Spaces -> SUBSET Tables] /\ tableW' \in [Spaces -> SUBSET Tables]
  BY <1>1, <1>6 DEF TypeOK
<1>13. allocated' \subseteq allocated
  BY <1>7
<1>14. TypeOK'
  BY <1>1, <1>3, <1>8, <1>10, <1>11, <1>12, <1>13 DEF TypeOK
<1>15. \A a \in Spaces, u \in VPages : frame'[a][u] = IF a = t THEN NoFrame ELSE frame[a][u]
  BY <1>1, <1>5, <1>6 DEF TypeOK
<1>16. (\E q \in Contexts \ {p} : Live(q)) \/ UsedSpaces = {t}
  <2> SUFFICES ASSUME \A q \in Contexts \ {p} : ~Live(q), NEW x \in UsedSpaces PROVE x = t
    BY <1>4
  <2>1. x \in Spaces /\ \E q \in Contexts : space[q] = x
    BY <1>1, UsedNow
  <2> QED
    BY <1>2, <2>1, NoneAssumption DEF Live
<1>17. UsedSpaces = {t} => ~\E q \in Contexts \ {p} : Live(q)
  <2> SUFFICES ASSUME UsedSpaces = {t}, NEW q \in Contexts \ {p}, Live(q) PROVE FALSE
    OBVIOUS
  <2>1. space[q] \in UsedSpaces
    BY DEF UsedSpaces
  <2> QED
    BY <1>2, <2>1
<1>18. UsedSpaces = {t} => Orphans' = Orphans /\ allocated' = Orphans /\ UsedSpaces' = {}
  <2> SUFFICES ASSUME UsedSpaces = {t}
               PROVE  Orphans' = Orphans /\ allocated' = Orphans /\ UsedSpaces' = {}
    OBVIOUS
  <2>1. allocated' = allocated \ MappedTo(t) /\ UsedSpaces' = {}
    BY <1>7, <1>9, <1>17
  <2>2. Orphans = allocated \ MappedTo(t)
    BY DEF Orphans
  <2>3. Orphans' = allocated'
    BY <2>1 DEF Orphans
  <2> QED
    BY <2>1, <2>2, <2>3
<1>19. EndsAlone(p) \/ Orphans' \subseteq Orphans
  <2>1. CASE \E q \in Contexts \ {p} : Live(q)
    <3>1. space'[p] = NoSpace
      BY <1>1, <1>3 DEF TypeOK
    <3> QED
      BY <1>3, <2>1, <3>1 DEF EndsAlone
  <2>2. CASE UsedSpaces = {t}
    BY <1>18, <2>2
  <2> QED
    BY <1>16, <2>1, <2>2
<1>20. OneSpace'
  <2> SUFFICES ASSUME ~CanFork
               PROVE  (\A a, b \in UsedSpaces' : a = b) /\ Orphans' = {}
    BY DEF OneSpace
  <2>1. (\A a, b \in UsedSpaces : a = b) /\ Orphans = {}
    BY <1>1 DEF OneSpace
  <2>2. UsedSpaces = {t}
    BY <1>4, <2>1
  <2> QED
    BY <1>9, <1>18, <2>1, <2>2
<1>21. LaunchFits'
  <2>1. PICK A : A = allocated'
    OBVIOUS
  <2>2. A \in SUBSET allocated
    BY <1>13, <2>1
  <2>3. /\ Cardinality(A) \in Nat /\ Cardinality(allocated) \in Nat
        /\ Cardinality(A) <= Cardinality(allocated)
    BY <1>1, <2>2, AllocatedFinite
  <2>4. Cardinality(A) + LaunchFrames <= FewFrames
    <3>1. CASE Cardinality(allocated) + LaunchFrames <= FewFrames
      BY <2>3, <3>1, LaunchSize, FewAssumption
    <3>2. ASSUME NEW s \in Spaces, UsedSpaces = {s},
                 Cardinality(allocated \ MappedTo(s)) + LaunchFrames <= FewFrames
          PROVE  Cardinality(A) + LaunchFrames <= FewFrames
      <4>1. s = t
        BY <1>4, <3>2
      <4>2. A = allocated \ MappedTo(s)
        BY <1>18, <2>1, <3>2, <4>1 DEF Orphans
      <4> QED
        BY <3>2, <4>2
    <3> QED
      BY <1>1, <3>1, <3>2 DEF LaunchFits
  <2> QED
    BY <2>1, <2>4 DEF LaunchFits
<1>22. MapInv => MapInv'
  <2> SUFFICES ASSUME MapInv, NoSharedShrink
               PROVE  /\ \A a \in UsedSpaces', u \in VPages : ~Dangles(a, u)'
                      /\ \A a, b \in UsedSpaces', u, w \in VPages : ~Collides(a, u, b, w)'
    BY MapNext
  <2>1. /\ \A a \in UsedSpaces, u \in VPages : frame[a][u] # NoFrame => frame[a][u] \in allocated
        /\ \A a, b \in UsedSpaces, u, w \in VPages :
              frame[a][u] # NoFrame /\ frame[a][u] = frame[b][w] => u = w /\ (u \in Writable => a = b)
    BY MapNow DEF Dangles, Collides
  <2>2. UsedSpaces' # {} => allocated' = allocated
    BY <1>7, <1>16, <1>18
  <2>3. \A a \in UsedSpaces', u \in VPages : a \in UsedSpaces /\ frame'[a][u] = frame[a][u]
    BY <1>4, <1>9, <1>15
  <2> QED
    BY <2>1, <2>2, <2>3 DEF Dangles, Collides
<1> QED
  BY <1>11, <1>14, <1>19, <1>20, <1>21, <1>22 DEF BaseInv
-----------------------------------------------------------------------------
(* The theorems.                                                           *)

LEMMA InitInv == Init => BaseInv /\ MapInv
<1> SUFFICES ASSUME Init PROVE BaseInv /\ MapInv
  OBVIOUS
<1>1. UsedSpaces = {}
  BY DEF Init, UsedSpaces, Live
<1>2. TypeOK
  BY DEF Init, TypeOK
<1>3. LaunchFits
  <2>1. Cardinality(allocated) = 0
    BY FS_EmptySet DEF Init
  <2> QED
    BY <2>1, LaunchSize, FewAssumption DEF LaunchFits
<1>4. LeavesReadOnly
  BY DEF Init, LeavesReadOnly
<1>5. OneSpace
  BY <1>1 DEF Init, OneSpace, Orphans
<1>6. MapInv
  BY <1>1 DEF MapInv, NoDangling, OnePageEach
<1> QED
  BY <1>2, <1>3, <1>4, <1>5, <1>6 DEF BaseInv

LEMMA ExitStep ==
    ASSUME BaseInv, NEW p \in Contexts, do_exit(p)
    PROVE  BaseInv' /\ (EndsAlone(p) \/ Orphans' \subseteq Orphans) /\ (MapInv => MapInv')
<1>1. CASE \E q \in Contexts \ {p} : space[q] = space[p]
  BY <1>1, SharedExit
<1>2. CASE \A q \in Contexts \ {p} : space[q] # space[p]
  BY <1>2, LastOfSpaceExit
<1> QED
  BY <1>1, <1>2

LEMMA NextInv ==
    ASSUME BaseInv, [Next]_vars
    PROVE  /\ BaseInv' /\ (MapInv => MapInv')
           /\ Loss
<1>1. CASE UNCHANGED vars
  <2>1. UsedSpaces' = UsedSpaces
    BY <1>1 DEF vars, UsedSpaces, Live
  <2>2. /\ space' \in [Contexts -> Spaces \union {NoSpace}]
        /\ next_free' \in [Contexts -> [Growable -> Nat]]
    BY <1>1 DEF vars, BaseInv, TypeOK
  <2>3. UNCHANGED <<ptVars, allocated, last_free_pos>>
    BY <1>1 DEF vars, ptVars
  <2> QED
    BY <2>1, <2>2, <2>3, SameMemory DEF Loss
<1>2. ASSUME NEW p \in Contexts, launch(p)
      PROVE  BaseInv' /\ (MapInv => MapInv') /\ Orphans' \subseteq Orphans
  BY <1>2, LaunchStep
<1>3. ASSUME NEW p \in Contexts, NEW v \in VPages, NEW write \in BOOLEAN, page_fault(p, v, write)
      PROVE  BaseInv' /\ (MapInv => MapInv') /\ Orphans' \subseteq Orphans
  BY <1>3, FaultStep
<1>4. ASSUME NEW p \in Contexts, NEW seg \in Growable, NEW n \in ExpandPages, do_expand(p, seg, n)
      PROVE  BaseInv' /\ (MapInv => MapInv') /\ Orphans' \subseteq Orphans
  BY <1>4, ExpandStep
<1>5. ASSUME NEW p \in Contexts, NEW seg \in ShrinkSegs, NEW n \in ExpandPages, do_shrink(p, seg, n)
      PROVE  BaseInv' /\ (MapInv => MapInv') /\ Orphans' \subseteq Orphans
  BY <1>5, ShrinkStep
<1>6. ASSUME NEW p \in Contexts, NEW q \in Contexts, do_fork(p, q)
      PROVE  BaseInv' /\ (MapInv => MapInv') /\ Orphans' \subseteq Orphans
  BY <1>6, ForkStep
<1>7. ASSUME NEW p \in Contexts, NEW q \in Contexts, do_clone(p, q)
      PROVE  BaseInv' /\ (MapInv => MapInv') /\ Orphans' \subseteq Orphans
  BY <1>7, CloneStep
<1>8. ASSUME NEW p \in Contexts, do_exit(p)
      PROVE  BaseInv' /\ (MapInv => MapInv') /\ (EndsAlone(p) \/ Orphans' \subseteq Orphans)
  BY <1>8, ExitStep
<1>9. ASSUME NEW p \in Contexts, do_fork_at_limit(p)
      PROVE  BaseInv' /\ (MapInv => MapInv') /\ CopiesForNobody(p)
  BY <1>9, ForkAtLimitStep
<1> QED
  BY <1>1, <1>2, <1>3, <1>4, <1>5, <1>6, <1>7, <1>8, <1>9 DEF Next, Loss

LEMMA AlwaysInv == Spec => [](BaseInv /\ MapInv)
<1>1. BaseInv /\ MapInv /\ [Next]_vars => (BaseInv /\ MapInv)'
  BY NextInv
<1> QED
  BY InitInv, <1>1, PTL DEF Spec

\* Every variable keeps its type whatever user programs do, and no sequence of
\* expand() and shrink() moves next_free below the start of a segment.
THEOREM MemoryTyped == Spec => []TypeOK
<1>1. BaseInv => TypeOK
  BY DEF BaseInv
<1> QED
  BY AlwaysInv, <1>1, PTL

\* The hardware never lets a process write to CODE or RODATA: install_ptable()
\* gives their leaves no W bit, and do_page_fault() resolves no write to them.
THEOREM CodeStaysReadOnly == Spec => []ReadOnlyStays
<1>1. BaseInv => ReadOnlyStays
  <2> SUFFICES ASSUME BaseInv, NEW s \in UsedSpaces, NEW v \in VPages \ Writable
               PROVE  ~HwAllows(s, v, TRUE)
    BY DEF ReadOnlyStays
  <2>1. s \in Spaces
    BY UsedNow DEF BaseInv
  <2>2. v \notin leafW[s]
    BY <2>1 DEF BaseInv, LeavesReadOnly
  <2> QED
    BY <2>2 DEF HwAllows
<1> QED
  BY AlwaysInv, <1>1, PTL

\* do_fork() shares the frames of CODE and RODATA without a count of who maps
\* them.  No page of a live space is left on a frame that was freed, through
\* any faults, forks, clones, shrinks of DATA and exits, unless RODATA is
\* shrunk where fork() can share it.
THEOREM MappedStaysAllocated == Spec => [](NoSharedShrink => NoDangling)
<1>1. MapInv => (NoSharedShrink => NoDangling)
  BY DEF MapInv
<1> QED
  BY AlwaysInv, <1>1, PTL

\* Under the same condition copy_mm() and do_page_fault() never let two
\* processes, or two pages, meet in a frame that one of them can write.
THEOREM PrivateStaysPrivate == Spec => [](NoSharedShrink => PrivateIsPrivate)
<1>1. MapInv => (NoSharedShrink => PrivateIsPrivate)
  <2> SUFFICES ASSUME OnePageEach, NEW s \in UsedSpaces, NEW t \in UsedSpaces,
                      NEW u \in Mapped(s) \intersect Writable, NEW v \in Mapped(t),
                      frame[s][u] = frame[t][v]
               PROVE  s = t /\ u = v
    BY DEF MapInv, PrivateIsPrivate
  <2> QED
    BY DEF OnePageEach
<1> QED
  BY AlwaysInv, <1>1, PTL

\* Without fork() the last thread to exit leaves no user frame in use, in
\* whatever order the threads fault, shrink and end.
THEOREM ThreadsLeakNothing == Spec => [](~CanFork => NoLeak)
<1>1. BaseInv => (~CanFork => NoLeak)
  BY DEF BaseInv, OneSpace, NoLeak, Orphans
<1> QED
  BY AlwaysInv, <1>1, PTL

\* Frames are lost for ever only when a process that shares its space with
\* nobody exits while another lives, and when a fork finds every slot in use,
\* which loses as many as it copies pages: every other step, and every order of
\* them, adds nothing to the frames in use that no live space maps.
THEOREM LossesAreTwo == Spec => NoOtherLoss
<1>1. BaseInv /\ [Next]_vars => [Loss]_vars
  BY NextInv
<1> QED
  BY AlwaysInv, <1>1, PTL DEF Spec, NoOtherLoss
-----------------------------------------------------------------------------
(* The frames of the code.                                                 *)

\* The first frames handed out of an empty region are in sequence, wherever
\* the search starts: as many as the code has pages.  SearchInSequence of
\* PageAllocProofs shows it of the real search.
FreshInSequence ==
    /\ Frames \subseteq Int
    /\ \A pos \in Positions : \A r \in Alloc({}, pos, LaunchFrames) :
          \A i, j \in 1 .. SegPages["CODE"] : r.pfns[i] - i = r.pfns[j] - j

\* All of the code is mapped from launch to exit.
CodeMapped == \A s \in UsedSpaces : \A v \in CodePages : frame[s][v] \in Frames

\* In a step every space has the code of a space before the step.
CodeKept == \A s \in UsedSpaces' : \E t \in UsedSpaces : \A v \in CodePages :
                frame'[s][v] = frame[t][v]

LEMMA CodePageFacts ==
    ASSUME NEW v \in CodePages
    PROVE  /\ v \in VPages /\ v \in LaunchPages /\ v[1] = "CODE" /\ v = <<"CODE", v[2]>>
           /\ v[2] \in Nat /\ v[2] < SegPages["CODE"] /\ SegPages["CODE"] \in Nat
<1>1. v \in VPages /\ v[1] = "CODE" /\ v \in LaunchPages
  BY DEF CodePages, LaunchPages
<1>2. v[2] \in Nat /\ v[2] < SegPages["CODE"] /\ v = <<"CODE", v[2]>>
  BY <1>1, PageFacts
<1> QED
  BY <1>1, <1>2, SegFacts DEF Segs

\* The code comes first: page k of it is met after k others.
LEMMA CodeRank ==
    ASSUME NEW v \in CodePages
    PROVE  Cardinality({u \in LaunchPages : Before(u, v)}) = v[2]
<1>1. PICK k \in Nat : k = v[2] /\ k < SegPages["CODE"] /\ v[1] = "CODE" /\ SegPages["CODE"] \in Nat
  BY CodePageFacts
<1>2. {u \in LaunchPages : Before(u, v)} = {"CODE"} \X (0 .. k - 1)
  <2>1. ASSUME NEW u \in LaunchPages, Before(u, v) PROVE u \in {"CODE"} \X (0 .. k - 1)
    <3>1. u \in VPages
      BY LaunchSize
    <3>2. u[1] \in Segs /\ u[2] \in Nat /\ u = <<u[1], u[2]>>
      BY <3>1, PageFacts
    <3>3. u[1] = "CODE" /\ u[2] < k
      BY <1>1, <2>1, <3>2 DEF Before, SegNo, Segs
    <3>4. u[2] \in 0 .. k - 1
      BY <1>1, <3>2, <3>3
    <3> QED
      BY <3>2, <3>3, <3>4
  <2>2. ASSUME NEW u \in {"CODE"} \X (0 .. k - 1) PROVE u \in LaunchPages /\ Before(u, v)
    <3>1. u = <<"CODE", u[2]>> /\ u[1] = "CODE" /\ u[2] \in 0 .. k - 1
      OBVIOUS
    <3>2. u[2] \in 0 .. SegPages["CODE"] - 1 /\ u[2] < k
      BY <1>1, <3>1
    <3>3. u \in VPages
      BY <3>1, <3>2, PageIs DEF Segs
    <3> QED
      BY <1>1, <3>1, <3>2, <3>3 DEF LaunchPages, CodePages, Before
  <2> QED
    BY <2>1, <2>2
<1>3. IsFiniteSet(0 .. k - 1) /\ Cardinality(0 .. k - 1) = k
  <2>1. CASE k = 0
    <3>1. 0 .. k - 1 = {}
      BY <2>1
    <3> QED
      BY <2>1, <3>1, FS_EmptySet
  <2>2. CASE k > 0
    <3>1. k - 1 \in Int /\ 0 <= k - 1
      BY <2>2
    <3> QED
      BY <3>1, FS_Interval
  <2> QED
    BY <2>1, <2>2
<1>4. Cardinality({"CODE"} \X (0 .. k - 1)) = k
  <2>1. IsFiniteSet({"CODE"}) /\ Cardinality({"CODE"}) = 1
    BY FS_Singleton
  <2>2. PICK S, T : S = {"CODE"} /\ T = 0 .. k - 1
    OBVIOUS
  <2>3. Cardinality(S \X T) = Cardinality(S) * Cardinality(T)
    BY <1>3, <2>1, <2>2, FS_Product
  <2> QED
    BY <1>1, <1>3, <2>1, <2>2, <2>3
<1> QED
  BY <1>1, <1>2, <1>4

\* A launch maps the code; in sequence, if the region was empty.
LEMMA LaunchCode ==
    ASSUME BaseInv, NEW p \in Contexts, launch(p)
    PROVE  /\ UsedSpaces = {} /\ CodeMapped'
           /\ FreshInSequence /\ allocated = {} => CodeInSequence'
<1>1. TypeOK /\ LaunchFits /\ LeavesReadOnly
  BY DEF BaseInv
<1>2. UsedSpaces = {} /\ Cardinality(allocated) + LaunchFrames <= FewFrames
  <2>1. UsedSpaces = {}
    BY DEF launch, UsedSpaces
  <2> QED
    BY <1>1, <2>1 DEF LaunchFits
<1>3. PICK s \in Spaces, r \in Alloc(allocated, last_free_pos, LaunchFrames) :
        /\ take(LaunchFrames, r)
        /\ space' = [space EXCEPT ![p] = s]
        /\ install_ptable(s, [v \in VPages |-> IF v \in LaunchPages
                                 THEN Assign(LaunchPages, r.pfns)[v] ELSE NoFrame])
  BY DEF launch, LaunchPages
<1>4. UsedSpaces' = {s}
  <2>1. space' \in [Contexts -> Spaces \union {NoSpace}]
    BY <1>1, <1>3 DEF TypeOK
  <2>2. \A q \in Contexts : space'[q] = IF q = p THEN s ELSE NoSpace
    BY <1>1, <1>3 DEF launch, Live, TypeOK
  <2>3. \A t : t \in UsedSpaces' <=> t \in Spaces /\ \E q \in Contexts : space'[q] = t
    BY <2>1, UsedNext
  <2> QED
    BY <2>2, <2>3, NoneAssumption
<1>5. PICK n : n = LaunchFrames
  OBVIOUS
<1>6. n \in 0 .. Cardinality(VPages) /\ n = Cardinality(LaunchPages)
  <2>1. Cardinality(VPages) \in Nat
    BY PagesFinite, FS_CardinalityType
  <2> QED
    BY <1>5, <2>1, LaunchSize
<1>7. Fresh(r.pfns, n, allocated)
  BY <1>1, <1>2, <1>3, <1>5, <1>6, TakeFacts
<1>8. PICK new : new = Assign(LaunchPages, r.pfns)
  OBVIOUS
<1>9. PICK f : f = [v \in VPages |-> IF v \in LaunchPages THEN new[v] ELSE NoFrame]
  OBVIOUS
<1>10. frame' = [frame EXCEPT ![s] = f]
  BY <1>3, <1>8, <1>9 DEF install_ptable
<1>11. ASSUME NEW v \in CodePages
       PROVE  frame'[s][v] = r.pfns[1 + v[2]] /\ 1 + v[2] \in 1 .. n /\ 1 + v[2] \in 1 .. SegPages["CODE"]
  <2>1. v \in VPages /\ v \in LaunchPages /\ v[2] \in Nat /\ v[2] < SegPages["CODE"]
        /\ SegPages["CODE"] \in Nat
    BY CodePageFacts
  <2>2. frame'[s] = f
    BY <1>1, <1>10 DEF TypeOK
  <2>3. f[v] = new[v]
    BY <1>9, <2>1
  <2>4. new[v] = r.pfns[1 + Cardinality({u \in LaunchPages : Before(u, v)})]
    BY <1>8, <2>1 DEF Assign
  <2>5. new[v] = r.pfns[1 + v[2]]
    BY <2>4, CodeRank
  <2>6. 1 + v[2] \in 1 .. n /\ 1 + v[2] \in 1 .. SegPages["CODE"]
    BY <1>5, <2>1 DEF LaunchFrames
  <2> QED
    BY <2>2, <2>3, <2>5, <2>6
<1>12. CodeMapped'
  <2>1. \A v \in CodePages : frame'[s][v] \in Frames
    BY <1>7, <1>11 DEF Fresh
  <2> QED
    BY <1>4, <2>1 DEF CodeMapped, CodePages, VPages
<1>13. ASSUME FreshInSequence, allocated = {} PROVE CodeInSequence'
  <2>1. last_free_pos \in Positions
    BY <1>1 DEF TypeOK
  <2>2. \A i, j \in 1 .. SegPages["CODE"] : r.pfns[i] - i = r.pfns[j] - j
    BY <1>3, <1>13, <2>1 DEF FreshInSequence
  <2>3. ASSUME NEW u \in CodePages, NEW v \in CodePages
        PROVE  frame'[s][u] - u[2] = frame'[s][v] - v[2]
    <3>1. u[2] \in Nat /\ v[2] \in Nat
      BY CodePageFacts
    <3>2. PICK i, j : i = 1 + u[2] /\ j = 1 + v[2]
      OBVIOUS
    <3>3. /\ i \in 1 .. n /\ i \in 1 .. SegPages["CODE"] /\ frame'[s][u] = r.pfns[i]
          /\ j \in 1 .. n /\ j \in 1 .. SegPages["CODE"] /\ frame'[s][v] = r.pfns[j]
      BY <1>11, <3>2
    <3>4. r.pfns[i] \in Int /\ r.pfns[j] \in Int /\ r.pfns[i] - i = r.pfns[j] - j
      BY <1>7, <1>13, <2>2, <3>3 DEF Fresh, FreshInSequence
    <3>5. PICK x \in Int, y \in Int : x = r.pfns[i] /\ y = r.pfns[j]
      BY <3>4
    <3>6. x - i = y - j /\ frame'[s][u] = x /\ frame'[s][v] = y
      BY <3>3, <3>4, <3>5
    <3> QED
      BY <3>1, <3>2, <3>5, <3>6
  <2> QED
    BY <1>4, <2>3 DEF CodeInSequence, CodePages, VPages
<1> QED
  BY <1>2, <1>12, <1>13

\* A fork shares the code with the child.
LEMMA ForkCode ==
    ASSUME BaseInv, CodeMapped, NEW p \in Contexts, NEW q \in Contexts, do_fork(p, q)
    PROVE  CodeKept
<1>1. TypeOK
  BY DEF BaseInv
<1>2. PICK t : t = space[p]
  OBVIOUS
<1>3. PICK S, P, n : S = SharedPages(p) /\ P = CopiedPages(p) /\ n = Cardinality(CopiedPages(p))
  OBVIOUS
<1>4. PICK s \in Spaces, r \in Alloc(allocated, last_free_pos, n) :
        /\ FreeSpace(s)
        /\ space' = [space EXCEPT ![q] = s]
        /\ install_ptable(s, [v \in VPages |->
              IF v \in S THEN frame[t][v]
              ELSE IF v \in P THEN Assign(P, r.pfns)[v] ELSE NoFrame])
  BY <1>2, <1>3 DEF do_fork
<1>5. PICK g : g = [v \in VPages |-> IF v \in S THEN frame[t][v]
                    ELSE IF v \in P THEN Assign(P, r.pfns)[v] ELSE NoFrame]
  OBVIOUS
<1>6. Live(p) /\ t \in UsedSpaces /\ t \in Spaces
  BY <1>1, <1>2 DEF do_fork, UsedSpaces, Live, TypeOK
<1>7. frame' = [frame EXCEPT ![s] = g]
  BY <1>4, <1>5 DEF install_ptable
<1>8. \A v \in CodePages : frame'[s][v] = frame[t][v]
  <2> SUFFICES ASSUME NEW v \in CodePages PROVE frame'[s][v] = frame[t][v]
    OBVIOUS
  <2>1. v \in VPages /\ v[1] = "CODE"
    BY CodePageFacts
  <2>2. frame[t][v] # NoFrame
    BY <1>6, NoneAssumption DEF CodeMapped
  <2>3. v \in S
    BY <1>2, <1>3, <2>1, <2>2 DEF SharedPages, Mapped
  <2>4. g[v] = frame[t][v]
    BY <1>5, <2>1, <2>3
  <2> QED
    BY <1>1, <1>7, <2>1, <2>4 DEF TypeOK
<1>9. \A a \in Spaces \ {s} : frame'[a] = frame[a]
  BY <1>1, <1>7 DEF TypeOK
<1>10. \A a \in UsedSpaces' : a = s \/ a \in UsedSpaces \ {s}
  <2>1. space' \in [Contexts -> Spaces \union {NoSpace}]
    BY <1>1, <1>4 DEF TypeOK
  <2>2. \A c \in Contexts : space'[c] = IF c = q THEN s ELSE space[c]
    BY <1>1, <1>4 DEF TypeOK
  <2>3. \A a : a \in UsedSpaces' <=> a \in Spaces /\ \E c \in Contexts : space'[c] = a
    BY <2>1, UsedNext
  <2>4. \A a : a \in UsedSpaces <=> a \in Spaces /\ \E c \in Contexts : space[c] = a
    BY <1>1, UsedNow
  <2> QED
    BY <2>2, <2>3, <2>4
<1>11. UsedSpaces \subseteq Spaces
  BY <1>1, UsedNow
<1> QED
  BY <1>6, <1>8, <1>9, <1>10, <1>11 DEF CodeKept

\* Faults, expand() and shrink() are about other segments, and an exit takes
\* away spaces only.
LEMMA OtherCode ==
    ASSUME BaseInv, [Next]_vars
    PROVE  \/ CodeKept
           \/ \E p \in Contexts : launch(p)
           \/ \E p, q \in Contexts : do_fork(p, q)
<1>1. TypeOK /\ UsedSpaces \subseteq Spaces
  BY UsedNow DEF BaseInv
<1>2. ASSUME UsedSpaces' \subseteq UsedSpaces,
             \A s \in UsedSpaces' : \A v \in CodePages : frame'[s][v] = frame[s][v]
      PROVE  CodeKept
  BY <1>2 DEF CodeKept
<1>3. ASSUME UNCHANGED <<space, frame>> PROVE CodeKept
  <2>1. UsedSpaces' = UsedSpaces
    BY <1>3 DEF UsedSpaces, Live
  <2> QED
    BY <1>2, <1>3, <2>1
<1>4. CASE UNCHANGED vars
  BY <1>3, <1>4 DEF vars
<1>5. ASSUME NEW p \in Contexts, NEW v \in VPages, NEW write \in BOOLEAN, page_fault(p, v, write)
      PROVE  CodeKept
  <2>1. UsedSpaces' = UsedSpaces
    BY <1>5 DEF page_fault, UsedSpaces, Live
  <2>2. v \notin CodePages
    BY <1>5, CodePageFacts DEF page_fault, Resolvable
  <2>3. PICK t, f : frame' = [frame EXCEPT ![t][v] = f]
    BY <1>5 DEF page_fault, install_page_table
  <2>4. \A s \in UsedSpaces : \A u \in CodePages : frame'[s][u] = frame[s][u]
    BY <1>1, <2>2, <2>3 DEF TypeOK, CodePages
  <2> QED
    BY <1>2, <2>1, <2>4
<1>6. ASSUME NEW p \in Contexts, NEW seg \in Growable, NEW n \in ExpandPages, do_expand(p, seg, n)
      PROVE  CodeKept
  BY <1>3, <1>6 DEF do_expand, ptVars
<1>7. ASSUME NEW p \in Contexts, NEW seg \in ShrinkSegs, NEW n \in ExpandPages, do_shrink(p, seg, n)
      PROVE  CodeKept
  <2>1. UsedSpaces' = UsedSpaces
    BY <1>7 DEF do_shrink, UsedSpaces, Live
  <2>2. seg # "CODE"
    BY InputAssumption DEF Growable
  <2>3. PICK left : left = next_free[p][seg] - n
    OBVIOUS
  <2>4. PICK P : P = {v \in Mapped(space[p]) : v[1] = seg /\ v[2] \in left .. left + n - 1}
    OBVIOUS
  <2>5. PICK t : t = space[p]
    OBVIOUS
  <2>6. unmap_user(t, P)
    BY <1>7, <2>3, <2>4, <2>5 DEF do_shrink
  <2>7. PICK g : g = [v \in VPages |-> IF v \in P THEN NoFrame ELSE frame[t][v]]
    OBVIOUS
  <2>8. frame' = [frame EXCEPT ![t] = g]
    BY <2>6, <2>7 DEF unmap_user
  <2>9. \A u \in CodePages : u \in VPages /\ u \notin P
    BY <2>2, <2>4, CodePageFacts
  <2>10. \A s \in UsedSpaces : \A u \in CodePages : frame'[s][u] = frame[s][u]
    BY <1>1, <2>7, <2>8, <2>9 DEF TypeOK
  <2> QED
    BY <1>2, <2>1, <2>10
<1>8. ASSUME NEW p \in Contexts, NEW q \in Contexts, do_clone(p, q) PROVE CodeKept
  <2>1. /\ space' = [space EXCEPT ![q] = space[p]] /\ frame' = frame
    BY <1>8 DEF do_clone, ptVars
  <2>2. UsedSpaces' \subseteq UsedSpaces
    BY <1>1, <1>8, <2>1 DEF do_clone, UsedSpaces, Live, TypeOK
  <2> QED
    BY <1>2, <2>1, <2>2
<1>9. ASSUME NEW p \in Contexts, do_exit(p) PROVE CodeKept
  <2>1. PICK t : t = space[p]
    OBVIOUS
  <2>2. space' = [space EXCEPT ![p] = NoSpace] /\ t # NoSpace
    BY <1>9, <2>1 DEF do_exit, Live
  <2>3. UsedSpaces' \subseteq UsedSpaces
    BY <1>1, <2>2 DEF UsedSpaces, Live, TypeOK
  <2>4. CASE \E q \in Contexts \ {p} : space[q] = space[p]
    <3>1. frame' = frame
      BY <1>9, <2>4 DEF do_exit, ptVars
    <3> QED
      BY <1>2, <2>3, <3>1
  <2>5. CASE \A q \in Contexts \ {p} : space[q] # space[p]
    <3>1. PICK g : frame' = [frame EXCEPT ![t] = g]
      BY <1>9, <2>1, <2>5 DEF do_exit, install_ptable
    <3>2. t \notin UsedSpaces'
      BY <1>1, <2>1, <2>2, <2>5 DEF UsedSpaces, Live, TypeOK
    <3>3. \A s \in UsedSpaces' : frame'[s] = frame[s]
      BY <1>1, <2>3, <3>1, <3>2 DEF TypeOK
    <3> QED
      BY <1>2, <2>3, <3>3
  <2> QED
    BY <2>4, <2>5
<1>10. ASSUME NEW p \in Contexts, do_fork_at_limit(p) PROVE CodeKept
  BY <1>3, <1>10 DEF do_fork_at_limit, ptVars
<1> QED
  BY <1>4, <1>5, <1>6, <1>7, <1>8, <1>9, <1>10 DEF Next

\* Only a launch into a region that is not empty puts code out of sequence.
LEMMA CodeStep ==
    ASSUME FreshInSequence, BaseInv, CodeMapped, [Next]_vars
    PROVE  /\ CodeMapped'
           /\ CodeInSequence => \/ CodeInSequence'
                                \/ UsedSpaces = {} /\ allocated # {}
<1>1. CASE \E p \in Contexts : launch(p)
  BY <1>1, LaunchCode
<1>2. CASE CodeKept
  <2>1. CodeMapped'
    BY <1>2 DEF CodeKept, CodeMapped, CodePages, VPages
  <2>2. CodeInSequence => CodeInSequence'
    <3> SUFFICES ASSUME CodeInSequence, NEW s \in UsedSpaces', NEW u \in CodePages, NEW v \in CodePages
                 PROVE  frame'[s][u] - u[2] = frame'[s][v] - v[2]
      BY DEF CodeInSequence, CodePages, VPages
    <3>1. PICK t \in UsedSpaces : \A w \in CodePages : frame'[s][w] = frame[t][w]
      BY <1>2 DEF CodeKept
    <3>2. frame[t][u] - u[2] = frame[t][v] - v[2]
      BY DEF CodeInSequence
    <3> QED
      BY <3>1, <3>2
  <2> QED
    BY <2>1, <2>2
<1>3. CASE \E p, q \in Contexts : do_fork(p, q)
  <2>1. CodeKept
    BY <1>3, ForkCode
  <2> QED
    BY <1>2, <2>1
<1> QED
  BY <1>1, <1>2, <1>3, OtherCode

LEMMA AlwaysMapped == ASSUME FreshInSequence PROVE Spec => [](BaseInv /\ CodeMapped)
<1>1. Init => BaseInv /\ CodeMapped
  <2>1. Init => UsedSpaces = {}
    BY DEF Init, UsedSpaces, Live
  <2> QED
    BY <2>1, InitInv DEF CodeMapped
<1>2. BaseInv /\ CodeMapped /\ [Next]_vars => (BaseInv /\ CodeMapped)'
  BY NextInv, CodeStep
<1> QED
  BY <1>1, <1>2, PTL DEF Spec

\* exec_init() copies the program to the right frames: without fork() the
\* region is empty when the shell is back, so the frames of the code are in
\* sequence wherever earlier programs and their threads left the search.
THEOREM CodeStaysInSequence ==
    ASSUME FreshInSequence
    PROVE  Spec => [](~CanFork => CodeInSequence)
<1> DEFINE I == ~CanFork => CodeInSequence
<1>1. Init => I
  <2>1. Init => UsedSpaces = {}
    BY DEF Init, UsedSpaces, Live
  <2> QED
    BY <2>1 DEF CodeInSequence
<1>2. BaseInv /\ CodeMapped /\ I /\ [Next]_vars => I'
  <2> SUFFICES ASSUME BaseInv, CodeMapped, I, [Next]_vars, ~CanFork PROVE CodeInSequence'
    OBVIOUS
  <2>1. UsedSpaces = {} => allocated = {}
    BY DEF BaseInv, OneSpace, Orphans
  <2> QED
    BY <2>1, CodeStep
<1> QED
  BY <1>1, <1>2, AlwaysMapped, PTL DEF Spec

\* With fork() too, "BUG! PFN not in sequence" can only be printed by a launch
\* that finds frames still in use, lost in the ways of NoOtherLoss; no fault,
\* shrink, fork or exit moves code.
THEOREM OnlyLossBreaksSequence ==
    ASSUME FreshInSequence
    PROVE  Spec => [][CodeInSequence => \/ CodeInSequence'
                                        \/ UsedSpaces = {} /\ allocated # {}]_vars
<1>1. BaseInv /\ CodeMapped /\ [Next]_vars =>
         [CodeInSequence => CodeInSequence' \/ (UsedSpaces = {} /\ allocated # {})]_vars
  BY CodeStep
<1> QED
  BY <1>1, AlwaysMapped, PTL DEF Spec
=============================================================================
