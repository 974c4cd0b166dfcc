-------------------------- MODULE PageTablesProofs --------------------------
(***************************************************************************)
(* Proofs about PageTables, for every number of contexts, every layout of  *)
(* the address space and every allocator that hands out free frames only.  *)
(***************************************************************************)
EXTENDS PageTables, FiniteSetTheorems, TLAPS

-----------------------------------------------------------------------------
(* The inductive invariant.                                                *)

\* A space that no context uses has no tables.
UnusedEmpty == \A s \in Spaces \ UsedSpaces : Present(s) = {}

\* While a process lives, the frame in os_pmd_pfn is in use: it is the pmd of
\* the kernel in some space or belongs to nobody, and it is no other table and
\* no kernel stack.
OsPmdSound ==
    /\ \A p \in Contexts : Live(p) => /\ os_pmd_pfn \in allocated
                                      /\ os_stack_pfn[p] # os_pmd_pfn
    /\ \A s \in UsedSpaces : \A m \in Present(s) : table[s][m] = os_pmd_pfn => m = OsPmd

\* The allocator's count is never too low.
CountCovers == free_pages \in Int /\ Drift >= 0

TableInv == /\ TypeOK
            /\ TablesSound
            /\ UnusedEmpty
            /\ OsPmdSound
            /\ CountCovers

\* The tables a path or a tree is made of, and the stack, which is none.
LEMMA NodeFacts == /\ Kernel \subseteq Nodes /\ OsPmd \in Kernel
                   /\ Stack \notin Nodes
                   /\ \A n \in Pts : Path(n) \subseteq Nodes
                   /\ \A P \in SUBSET Pts : Tree(P) \subseteq Nodes /\ Kernel \subseteq Tree(P)
                   /\ LaunchPts \subseteq Pts
<1>1. Kernel \subseteq Nodes /\ OsPmd \in Kernel
  BY DEF Kernel, Nodes
<1>2. Stack \notin Nodes
  BY DEF Stack, Nodes, Kernel, Pgd, Pud, OsPmd, ApicPmd, Pmd, Pt
<1>3. \A n \in Pts : Path(n) \subseteq Nodes
  BY DEF Path, Nodes, Kernel
<1>4. \A P \in SUBSET Pts : Tree(P) \subseteq Nodes /\ Kernel \subseteq Tree(P)
  BY <1>1, <1>3 DEF Tree
<1> QED
  BY <1>1, <1>2, <1>3, <1>4 DEF Pts

\* The spaces in use are those of live contexts.
LEMMA UsedFacts ==
    ASSUME TypeOK
    PROVE  /\ \A s : s \in UsedSpaces <=> \E p \in Contexts : Live(p) /\ space[p] = s
           /\ UsedSpaces \subseteq Spaces
BY DEF TypeOK, UsedSpaces, Live

\* TablesSound, one table at a time.
TableParts ==
    /\ \A s \in UsedSpaces : Kernel \subseteq Present(s)
    /\ \A s \in UsedSpaces : \A m \in Present(s) : table[s][m] \in allocated
    /\ \A s, t \in UsedSpaces : \A m \in Present(s), n \in Present(t) :
          table[s][m] = table[t][n] => s = t /\ m = n
    /\ \A p \in Contexts, s \in UsedSpaces : \A m \in Present(s) :
          Live(p) => os_stack_pfn[p] # table[s][m]
    /\ \A p \in Contexts : Live(p) => os_stack_pfn[p] \in allocated
    /\ \A p, q \in Contexts :
          Live(p) /\ Live(q) /\ os_stack_pfn[p] = os_stack_pfn[q] => p = q

LEMMA PartsNow == TablesSound => TableParts
BY DEF TablesSound, TableParts, FramesOf

LEMMA PartsNext == TableParts' => TablesSound'
BY DEF TablesSound, TableParts, FramesOf

-----------------------------------------------------------------------------
(* Counting.                                                               *)

\* Taking frames for the members of M takes one frame for each.
LEMMA TakeDrift ==
    ASSUME TypeOK, CountCovers, NEW M, NEW new, take(M, new)
    PROVE  /\ CountCovers' /\ Drift' = Drift
           /\ free_pages' \in Nat
<1> DEFINE I == {new[n] : n \in M}
           F == Frames \ allocated
<1>1. /\ new \in [M -> F] /\ (\A m, n \in M : new[m] = new[n] => m = n)
      /\ allocated' = allocated \union I
      /\ free_pages' = free_pages - Cardinality(M)
  BY DEF take
<1>2. IsFiniteSet(F) /\ Cardinality(F) \in Nat
  BY BoundAssumption, FS_Difference, FS_CardinalityType
<1>3. I \subseteq F
  BY <1>1
<1>4. IsFiniteSet(I) /\ Cardinality(I) \in Nat
  BY <1>2, <1>3, FS_Subset, FS_CardinalityType
<1>5. new \in Injection(M, I)
  BY <1>1 DEF Injection, IsInjective
<1>6. new \in Surjection(M, I)
  BY <1>1 DEF Surjection
<1>7. Cardinality(M) = Cardinality(I)
  BY <1>4, <1>5, <1>6, FS_Injection
<1>8. Frames \ allocated' = F \ I
  BY <1>1
<1>9. F \intersect I = I
  BY <1>3
<1>10. Cardinality(F \ I) = Cardinality(F) - Cardinality(I)
  BY <1>2, <1>9, FS_Difference
<1> HIDE DEF F, I
<1>11. /\ Drift = free_pages - Cardinality(F)
       /\ Drift' = free_pages' - Cardinality(F \ I)
  BY <1>8 DEF Drift, F
<1>12. free_pages' \in Int /\ Drift' = Drift /\ Drift' >= 0
  BY <1>1, <1>2, <1>4, <1>7, <1>10, <1>11 DEF CountCovers
<1>13. Cardinality(F \ I) \in Nat
  BY <1>2, FS_Difference, FS_CardinalityType
<1> QED
  BY <1>11, <1>12, <1>13 DEF CountCovers

-----------------------------------------------------------------------------
(* Steps that take frames.                                                 *)

\* New tables in space s, and for q, if it is a new context, a new stack: all
\* steps that take frames for a process are of this form.
Grown(s, N, M, new, q) ==
    /\ take(M, new)
    /\ s \in Spaces /\ N = M \ {Stack} /\ N \subseteq Nodes
    /\ N \intersect Present(s) = {}
    /\ s \in UsedSpaces \/ Kernel \subseteq N
    /\ table' \in [Spaces -> [Nodes -> Frames \union {NoFrame}]]
    /\ \A t \in Spaces, n \in Nodes :
          table'[t][n] = IF t = s /\ n \in N THEN new[n] ELSE table[t][n]
    /\ os_stack_pfn' \in [Contexts -> Frames \union {NoFrame}]
    /\ \A p \in Contexts :
          \/ space'[p] = space[p] /\ os_stack_pfn'[p] = os_stack_pfn[p]
          \/ /\ p = q /\ ~Live(p) /\ space'[p] = s
             /\ Stack \in M /\ os_stack_pfn'[p] = new[Stack]
    /\ space' \in [Contexts -> Spaces \union {NoSpace}]
    /\ \E p \in Contexts : space'[p] = s
    /\ Stack \in M => q \in Contexts /\ space'[q] = s /\ os_stack_pfn'[q] = new[Stack]
    /\ \/ UNCHANGED os_pmd_pfn /\ \E p \in Contexts : Live(p)
       \/ OsPmd \in N /\ os_pmd_pfn' = new[OsPmd]

\* The tables and stacks of live processes after such a step: the old ones,
\* and the new ones, whose frames were free.
LEMMA GrownFacts ==
    ASSUME TableInv, NEW s, NEW N, NEW M, NEW new, NEW q, Grown(s, N, M, new, q)
    PROVE  /\ \A t : t \in UsedSpaces' <=> t \in UsedSpaces \/ t = s
           /\ \A t \in UsedSpaces' : \A m \in Present(t)' :
                 \/ t = s /\ m \in N /\ table'[t][m] = new[m]
                 \/ t \in UsedSpaces /\ m \in Present(t) /\ table'[t][m] = table[t][m]
           /\ \A t \in Spaces : Present(t)' = IF t = s THEN Present(s) \union N ELSE Present(t)
           /\ \A p \in Contexts : Live(p)' =>
                 \/ Live(p) /\ os_stack_pfn'[p] = os_stack_pfn[p]
                 \/ p = q /\ Stack \in M /\ os_stack_pfn'[p] = new[Stack]
           /\ \A m \in M : new[m] \in Frames /\ new[m] \notin allocated /\ new[m] \in allocated'
           /\ \A m, n \in M : new[m] = new[n] => m = n
           /\ allocated \subseteq allocated' /\ allocated' \subseteq Frames
<1> USE DEF TableInv
<1>1. TypeOK
  OBVIOUS
<1>2. /\ \A m \in M : new[m] \in Frames /\ new[m] \notin allocated /\ new[m] \in allocated'
      /\ \A m, n \in M : new[m] = new[n] => m = n
      /\ allocated \subseteq allocated' /\ allocated' \subseteq Frames
  BY <1>1 DEF Grown, take, TypeOK
<1>3. /\ s \in Spaces /\ N \subseteq M /\ N \subseteq Nodes /\ NoSpace \notin Spaces
      /\ NoFrame \notin Frames
  BY NoneAssumption DEF Grown
<1>4. \A t : t \in UsedSpaces' <=> t \in UsedSpaces \/ t = s
  <2>1. \A t : t \in UsedSpaces' <=> \E p \in Contexts : space'[p] # NoSpace /\ space'[p] = t
    BY DEF UsedSpaces, Live
  <2>2. \A t : t \in UsedSpaces <=> \E p \in Contexts : space[p] # NoSpace /\ space[p] = t
    BY DEF UsedSpaces, Live
  <2>3. \A p \in Contexts : space'[p] = space[p] \/ (space[p] = NoSpace /\ space'[p] = s)
    BY DEF Grown, Live
  <2>4. \E p \in Contexts : space'[p] = s
    BY DEF Grown
  <2> QED
    BY <1>3, <2>1, <2>2, <2>3, <2>4
<1>5. \A t \in Spaces, n \in Nodes :
         table'[t][n] = IF t = s /\ n \in N THEN new[n] ELSE table[t][n]
  BY DEF Grown
<1>6. \A t \in Spaces : Present(t)' = IF t = s THEN Present(s) \union N ELSE Present(t)
  BY <1>2, <1>3, <1>5 DEF Present
<1>7. ASSUME NEW t \in UsedSpaces', NEW m \in Present(t)'
      PROVE  \/ t = s /\ m \in N /\ table'[t][m] = new[m]
             \/ t \in UsedSpaces /\ m \in Present(t) /\ table'[t][m] = table[t][m]
  <2>1. t \in Spaces /\ m \in Nodes
    BY <1>1, <1>3, <1>4, <1>7, UsedFacts DEF Present
  <2>2. CASE t = s /\ m \in N
    BY <1>5, <2>1, <2>2
  <2>3. CASE ~(t = s /\ m \in N)
    <3>1. m \in Present(t) /\ table'[t][m] = table[t][m]
      BY <1>5, <1>6, <1>7, <2>1, <2>3
    <3>2. t \in UsedSpaces
      BY <2>1, <3>1 DEF UnusedEmpty
    <3> QED
      BY <3>1, <3>2
  <2> QED
    BY <2>2, <2>3
<1>8. \A p \in Contexts : Live(p)' =>
         \/ Live(p) /\ os_stack_pfn'[p] = os_stack_pfn[p]
         \/ p = q /\ Stack \in M /\ os_stack_pfn'[p] = new[Stack]
  BY DEF Grown, Live
<1> QED
  BY <1>2, <1>4, <1>6, <1>7, <1>8

LEMMA GrownInv ==
    ASSUME TableInv, NEW s, NEW N, NEW M, NEW new, NEW q, Grown(s, N, M, new, q)
    PROVE  TableInv'
<1>1. /\ \A t : t \in UsedSpaces' <=> t \in UsedSpaces \/ t = s
      /\ \A t \in UsedSpaces' : \A m \in Present(t)' :
            \/ t = s /\ m \in N /\ table'[t][m] = new[m]
            \/ t \in UsedSpaces /\ m \in Present(t) /\ table'[t][m] = table[t][m]
      /\ \A t \in Spaces : Present(t)' = IF t = s THEN Present(s) \union N ELSE Present(t)
      /\ \A p \in Contexts : Live(p)' =>
            \/ Live(p) /\ os_stack_pfn'[p] = os_stack_pfn[p]
            \/ p = q /\ Stack \in M /\ os_stack_pfn'[p] = new[Stack]
      /\ \A m \in M : new[m] \in Frames /\ new[m] \notin allocated /\ new[m] \in allocated'
      /\ \A m, n \in M : new[m] = new[n] => m = n
      /\ allocated \subseteq allocated' /\ allocated' \subseteq Frames
  BY GrownFacts
<1>2. TypeOK /\ TableParts /\ UnusedEmpty /\ OsPmdSound /\ CountCovers
  BY PartsNow DEF TableInv
<1>3. N \subseteq M /\ Stack \notin N /\ (s \in UsedSpaces \/ Kernel \subseteq N)
      /\ s \in Spaces /\ UsedSpaces \subseteq Spaces
  BY <1>2, UsedFacts DEF Grown
<1>4. CountCovers' /\ free_pages' \in Nat
  BY <1>2, TakeDrift DEF Grown
<1>5. os_pmd_pfn' \in Frames \union {NoFrame}
  BY <1>1, <1>2, <1>3 DEF Grown, TypeOK
<1>6. TypeOK'
  BY <1>1, <1>4, <1>5 DEF Grown, TypeOK
<1>7. TableParts'
  <2>1. \A t \in UsedSpaces' : Kernel \subseteq Present(t)'
    BY <1>1, <1>2, <1>3 DEF TableParts
  <2>2. \A t \in UsedSpaces' : \A m \in Present(t)' : table'[t][m] \in allocated'
    BY <1>1, <1>2, <1>3 DEF TableParts
  <2>3. \A t, u \in UsedSpaces' : \A m \in Present(t)', n \in Present(u)' :
           table'[t][m] = table'[u][n] => t = u /\ m = n
    BY <1>1, <1>2, <1>3 DEF TableParts
  <2>4. \A p \in Contexts, t \in UsedSpaces' : \A m \in Present(t)' :
           Live(p)' => os_stack_pfn'[p] # table'[t][m]
    BY <1>1, <1>2, <1>3 DEF TableParts
  <2>5. \A p \in Contexts : Live(p)' => os_stack_pfn'[p] \in allocated'
    BY <1>1, <1>2 DEF TableParts
  <2>6. \A p, r \in Contexts :
           Live(p)' /\ Live(r)' /\ os_stack_pfn'[p] = os_stack_pfn'[r] => p = r
    BY <1>1, <1>2 DEF TableParts
  <2> QED
    BY <2>1, <2>2, <2>3, <2>4, <2>5, <2>6 DEF TableParts
<1>8. UnusedEmpty'
  BY <1>1, <1>2 DEF UnusedEmpty
<1>9. OsPmdSound'
  <2>1. CASE OsPmd \in N /\ os_pmd_pfn' = new[OsPmd]
    <3>1. \A p \in Contexts : Live(p)' => os_pmd_pfn' \in allocated' /\ os_stack_pfn'[p] # os_pmd_pfn'
      BY <1>1, <1>2, <1>3, <2>1 DEF TableParts
    <3>2. \A t \in UsedSpaces' : \A m \in Present(t)' : table'[t][m] = os_pmd_pfn' => m = OsPmd
      BY <1>1, <1>2, <1>3, <2>1 DEF TableParts
    <3> QED
      BY <3>1, <3>2 DEF OsPmdSound
  <2>2. CASE UNCHANGED os_pmd_pfn /\ \E r \in Contexts : Live(r)
    <3>1. os_pmd_pfn \in allocated
      BY <1>2, <2>2 DEF OsPmdSound
    <3>2. \A p \in Contexts : Live(p)' => os_pmd_pfn' \in allocated' /\ os_stack_pfn'[p] # os_pmd_pfn'
      BY <1>1, <1>2, <1>3, <2>2, <3>1 DEF OsPmdSound
    <3>3. \A t \in UsedSpaces' : \A m \in Present(t)' : table'[t][m] = os_pmd_pfn' => m = OsPmd
      BY <1>1, <1>2, <1>3, <2>2, <3>1 DEF OsPmdSound
    <3> QED
      BY <3>2, <3>3 DEF OsPmdSound
  <2> QED
    BY <2>1, <2>2 DEF Grown
<1> QED
  BY <1>4, <1>6, <1>7, <1>8, <1>9, PartsNext DEF TableInv

\* The four steps that take frames are of the form Grown.
SomeGrown == \E s, N, M, new, q : Grown(s, N, M, new, q)

\* New tables in a typed table.
LEMMA Installed ==
    ASSUME TypeOK, NEW s \in Spaces, NEW N, NEW new,
           \A n \in N : new[n] \in Frames, install(s, N, new)
    PROVE  /\ table' \in [Spaces -> [Nodes -> Frames \union {NoFrame}]]
           /\ \A t \in Spaces, n \in Nodes :
                 table'[t][n] = IF t = s /\ n \in N THEN new[n] ELSE table[t][n]
<1> DEFINE f == [n \in Nodes |-> IF n \in N THEN new[n] ELSE table[s][n]]
<1>2. f \in [Nodes -> Frames \union {NoFrame}]
  BY DEF TypeOK
<1>3. table' = [table EXCEPT ![s] = f]
  BY DEF install
<1>4. \A n \in Nodes : f[n] = IF n \in N THEN new[n] ELSE table[s][n]
  OBVIOUS
<1> HIDE DEF f
<1> QED
  BY <1>2, <1>3, <1>4 DEF TypeOK

\* A new stack in a typed array.
LEMMA NewStack ==
    ASSUME TypeOK, NEW new, new[Stack] \in Frames, NEW q \in Contexts, NEW s \in Spaces,
           os_stack_pfn' = [os_stack_pfn EXCEPT ![q] = new[Stack]],
           space' = [space EXCEPT ![q] = s]
    PROVE  /\ os_stack_pfn' \in [Contexts -> Frames \union {NoFrame}]
           /\ space' \in [Contexts -> Spaces \union {NoSpace}]
           /\ os_stack_pfn'[q] = new[Stack] /\ space'[q] = s
           /\ \A p \in Contexts \ {q} :
                 space'[p] = space[p] /\ os_stack_pfn'[p] = os_stack_pfn[p]
BY DEF TypeOK

LEMMA LaunchGrown == ASSUME TableInv, NEW p \in Contexts, launch(p) PROVE SomeGrown
<1> DEFINE N == Tree(LaunchPts)
           M == N \union {Stack}
<1>1. PICK s \in Spaces, new \in Alloc(allocated, M) :
         /\ take(M, new)
         /\ install(s, N, new)
         /\ space' = [space EXCEPT ![p] = s]
         /\ os_stack_pfn' = [os_stack_pfn EXCEPT ![p] = new[Stack]]
         /\ os_pmd_pfn' = new[OsPmd]
  BY DEF launch
<1>2. /\ N \subseteq Nodes /\ Kernel \subseteq N /\ Stack \notin N /\ OsPmd \in N
      /\ N \subseteq M /\ Stack \in M /\ N = M \ {Stack}
  BY NodeFacts
<1>3. TypeOK /\ UnusedEmpty
  BY DEF TableInv
<1>4. ~Live(p) /\ Present(s) = {}
  BY <1>3, UsedFacts DEF launch, UnusedEmpty
<1> HIDE DEF N, M
<1>0. \A m \in M : new[m] \in Frames
  BY <1>1 DEF take
<1>5. /\ table' \in [Spaces -> [Nodes -> Frames \union {NoFrame}]]
      /\ \A t \in Spaces, n \in Nodes :
            table'[t][n] = IF t = s /\ n \in N THEN new[n] ELSE table[t][n]
  BY <1>1, <1>2, <1>3, <1>0, Installed
<1>6. /\ os_stack_pfn' \in [Contexts -> Frames \union {NoFrame}]
      /\ space' \in [Contexts -> Spaces \union {NoSpace}]
      /\ os_stack_pfn'[p] = new[Stack] /\ space'[p] = s
      /\ \A r \in Contexts \ {p} :
            space'[r] = space[r] /\ os_stack_pfn'[r] = os_stack_pfn[r]
  BY <1>1, <1>2, <1>3, <1>0, NewStack
<1>7. Grown(s, N, M, new, p)
  BY <1>1, <1>2, <1>4, <1>5, <1>6 DEF Grown
<1> QED
  BY <1>7 DEF SomeGrown

LEMMA FaultGrown ==
    ASSUME TableInv, NEW p \in Contexts, NEW n \in Pts, page_fault(p, n) PROVE SomeGrown
<1> DEFINE s == space[p]
           N == Path(n) \ Present(s)
<1>1. PICK new \in Alloc(allocated, N) : take(N, new) /\ install(s, N, new)
  BY DEF page_fault
<1>2. Live(p) /\ UNCHANGED <<space, os_stack_pfn, os_pmd_pfn>>
  BY DEF page_fault
<1>3. N \subseteq Nodes /\ Stack \notin N /\ N \intersect Present(s) = {}
  BY NodeFacts
<1>4. TypeOK
  BY DEF TableInv
<1>5. s \in Spaces /\ s \in UsedSpaces
  BY <1>2, <1>4, UsedFacts DEF TypeOK, Live
<1> HIDE DEF N, s
<1>0. \A m \in N : new[m] \in Frames
  BY <1>1 DEF take
<1>6. /\ table' \in [Spaces -> [Nodes -> Frames \union {NoFrame}]]
      /\ \A t \in Spaces, m \in Nodes :
            table'[t][m] = IF t = s /\ m \in N THEN new[m] ELSE table[t][m]
  BY <1>1, <1>4, <1>5, <1>0, Installed
<1>7. /\ os_stack_pfn' \in [Contexts -> Frames \union {NoFrame}]
      /\ space' \in [Contexts -> Spaces \union {NoSpace}]
      /\ \A r \in Contexts : space'[r] = space[r] /\ os_stack_pfn'[r] = os_stack_pfn[r]
      /\ space'[p] = s
  BY <1>2, <1>4 DEF TypeOK, s
<1>8. N = N \ {Stack}
  BY <1>3
<1>9. Grown(s, N, N, new, p)
  BY <1>1, <1>2, <1>3, <1>5, <1>6, <1>7, <1>8 DEF Grown
<1> QED
  BY <1>9 DEF SomeGrown

LEMMA ForkGrown ==
    ASSUME TableInv, NEW p \in Contexts, NEW q \in Contexts, do_fork(p, q) PROVE SomeGrown
<1>1. PICK P \in SUBSET {n \in Pts : Pt(n) \in Present(space[p])},
           s \in Spaces \ UsedSpaces :
         \E new \in Alloc(allocated, Tree(P) \union {Stack}) :
            /\ take(Tree(P) \union {Stack}, new)
            /\ install(s, Tree(P), new)
            /\ os_stack_pfn' = [os_stack_pfn EXCEPT ![q] = new[Stack]]
            /\ os_pmd_pfn' = new[OsPmd]
            /\ space' = [space EXCEPT ![q] = s]
  BY DEF do_fork
<1> DEFINE N == Tree(P)
           M == N \union {Stack}
<1>2. PICK new \in Alloc(allocated, M) :
            /\ take(M, new)
            /\ install(s, N, new)
            /\ os_stack_pfn' = [os_stack_pfn EXCEPT ![q] = new[Stack]]
            /\ os_pmd_pfn' = new[OsPmd]
            /\ space' = [space EXCEPT ![q] = s]
  BY <1>1
<1>3. /\ N \subseteq Nodes /\ Kernel \subseteq N /\ Stack \notin N /\ OsPmd \in N
      /\ N \subseteq M /\ Stack \in M /\ N = M \ {Stack}
  BY NodeFacts
<1>4. TypeOK /\ ~Live(q) /\ Present(s) = {} /\ s \in Spaces
  BY DEF TableInv, UnusedEmpty, do_fork
<1> HIDE DEF N, M
<1>0. \A m \in M : new[m] \in Frames
  BY <1>2 DEF take
<1>5. /\ table' \in [Spaces -> [Nodes -> Frames \union {NoFrame}]]
      /\ \A t \in Spaces, n \in Nodes :
            table'[t][n] = IF t = s /\ n \in N THEN new[n] ELSE table[t][n]
  BY <1>2, <1>3, <1>4, <1>0, Installed
<1>6. /\ os_stack_pfn' \in [Contexts -> Frames \union {NoFrame}]
      /\ space' \in [Contexts -> Spaces \union {NoSpace}]
      /\ os_stack_pfn'[q] = new[Stack] /\ space'[q] = s
      /\ \A r \in Contexts \ {q} :
            space'[r] = space[r] /\ os_stack_pfn'[r] = os_stack_pfn[r]
  BY <1>2, <1>3, <1>4, <1>0, NewStack
<1>7. Grown(s, N, M, new, q)
  BY <1>2, <1>3, <1>4, <1>5, <1>6 DEF Grown
<1> QED
  BY <1>7 DEF SomeGrown

LEMMA CloneGrown ==
    ASSUME TableInv, NEW p \in Contexts, NEW q \in Contexts, do_clone(p, q) PROVE SomeGrown
<1> DEFINE s == space[p]
<1>1. PICK new \in Alloc(allocated, {Stack}) :
         /\ take({Stack}, new)
         /\ os_stack_pfn' = [os_stack_pfn EXCEPT ![q] = new[Stack]]
  BY DEF do_clone
<1>2. Live(p) /\ ~Live(q) /\ space' = [space EXCEPT ![q] = s] /\ UNCHANGED <<table, os_pmd_pfn>>
  BY DEF do_clone
<1>3. TypeOK
  BY DEF TableInv
<1>4. s \in Spaces /\ s \in UsedSpaces
  BY <1>2, <1>3, UsedFacts DEF TypeOK, Live
<1> HIDE DEF s
<1>0. new[Stack] \in Frames
  BY <1>1 DEF take
<1>5. /\ os_stack_pfn' \in [Contexts -> Frames \union {NoFrame}]
      /\ space' \in [Contexts -> Spaces \union {NoSpace}]
      /\ os_stack_pfn'[q] = new[Stack] /\ space'[q] = s
      /\ \A r \in Contexts \ {q} :
            space'[r] = space[r] /\ os_stack_pfn'[r] = os_stack_pfn[r]
  BY <1>1, <1>2, <1>3, <1>4, <1>0, NewStack
<1>6. Grown(s, {}, {Stack}, new, q)
  BY <1>1, <1>2, <1>3, <1>4, <1>5 DEF Grown, TypeOK
<1> QED
  BY <1>6 DEF SomeGrown

\* Frames for no process, with every slot in use: do_fork() and do_clone() at
\* the limit.  Only os_pmd_pfn may refer to one of them.
Unowned(M, new) ==
    /\ take(M, new) /\ AtLimit /\ \E p \in Contexts : Live(p)
    /\ UNCHANGED <<space, os_stack_pfn, table>>
    /\ UNCHANGED os_pmd_pfn \/ (OsPmd \in M /\ os_pmd_pfn' = new[OsPmd])

SomeUnowned == \E M, new : Unowned(M, new)

LEMMA ForkUnowned ==
    ASSUME NEW p \in Contexts, do_fork_at_limit(p) PROVE SomeUnowned
<1>1. PICK P \in SUBSET {n \in Pts : Pt(n) \in Present(space[p])} :
         \E new \in Alloc(allocated, Tree(P) \union {Stack}) :
            take(Tree(P) \union {Stack}, new) /\ os_pmd_pfn' = new[OsPmd]
  BY DEF do_fork_at_limit
<1> DEFINE M == Tree(P) \union {Stack}
<1>2. PICK new \in Alloc(allocated, M) : take(M, new) /\ os_pmd_pfn' = new[OsPmd]
  BY <1>1
<1>3. OsPmd \in M
  BY NodeFacts
<1>4. Live(p) /\ AtLimit /\ UNCHANGED <<space, os_stack_pfn, table>>
  BY DEF do_fork_at_limit
<1> HIDE DEF M
<1>5. Unowned(M, new)
  BY <1>2, <1>3, <1>4 DEF Unowned
<1> QED
  BY <1>5 DEF SomeUnowned

LEMMA CloneUnowned ==
    ASSUME NEW p \in Contexts, do_clone_at_limit(p) PROVE SomeUnowned
BY DEF do_clone_at_limit, Unowned, SomeUnowned

\* Such a step changes nothing that a process has, and what it takes was free.
LEMMA UnownedFacts ==
    ASSUME TypeOK, NEW M, NEW new, Unowned(M, new)
    PROVE  /\ UsedSpaces' = UsedSpaces /\ \A s : Present(s)' = Present(s)
           /\ \A p : Live(p)' <=> Live(p)
           /\ allocated \subseteq allocated' /\ allocated' \subseteq Frames
           /\ OsPmd \in M => new[OsPmd] \in allocated' \ allocated
           /\ UsedSpaces # {}
<1>1. UNCHANGED <<space, table>> /\ \E p \in Contexts : Live(p)
  BY DEF Unowned
<1>2. /\ UsedSpaces' = UsedSpaces /\ \A s : Present(s)' = Present(s)
      /\ \A p : Live(p)' <=> Live(p)
  BY <1>1 DEF UsedSpaces, Present, Live
<1>3. /\ allocated \subseteq allocated' /\ allocated' \subseteq Frames
      /\ OsPmd \in M => new[OsPmd] \in allocated' \ allocated
  BY DEF Unowned, take, TypeOK
<1>4. UsedSpaces # {}
  BY <1>1, UsedFacts
<1> QED
  BY <1>2, <1>3, <1>4

LEMMA UnownedInv == ASSUME TableInv, NEW M, NEW new, Unowned(M, new) PROVE TableInv'
<1>1. TypeOK /\ TableParts /\ UnusedEmpty /\ OsPmdSound /\ CountCovers
  BY PartsNow DEF TableInv
<1>2. /\ UsedSpaces' = UsedSpaces /\ \A s : Present(s)' = Present(s)
      /\ \A p : Live(p)' <=> Live(p)
      /\ allocated \subseteq allocated' /\ allocated' \subseteq Frames
      /\ OsPmd \in M => new[OsPmd] \in allocated' \ allocated
  BY <1>1, UnownedFacts
<1>3. UNCHANGED <<space, os_stack_pfn, table>> /\ take(M, new)
  BY DEF Unowned
<1>4. UNCHANGED os_pmd_pfn \/ (OsPmd \in M /\ os_pmd_pfn' = new[OsPmd])
  BY DEF Unowned
<1>5. CountCovers' /\ free_pages' \in Nat
  BY <1>1, <1>3, TakeDrift
<1>6. TypeOK'
  BY <1>1, <1>2, <1>3, <1>4, <1>5 DEF TypeOK
<1>7. TableParts'
  BY <1>1, <1>2, <1>3 DEF TableParts
<1>8. UnusedEmpty'
  BY <1>1, <1>2 DEF UnusedEmpty
<1>9. OsPmdSound'
  BY <1>1, <1>2, <1>3, <1>4 DEF OsPmdSound, TableParts
<1> QED
  BY <1>5, <1>6, <1>7, <1>8, <1>9, PartsNext DEF TableInv

-----------------------------------------------------------------------------
(* do_exit().                                                              *)

\* What is left of the tables, for both ways out.
LEMMA ExitFacts ==
    ASSUME TypeOK, NEW p \in Contexts, do_exit(p)
    PROVE  /\ space[p] \in Spaces
           /\ space' \in [Contexts -> Spaces \union {NoSpace}]
           /\ \A q \in Contexts : Live(q)' <=> Live(q) /\ q # p
           /\ \A q \in Contexts \ {p} : space'[q] = space[q]
           /\ table' \in [Spaces -> [Nodes -> Frames \union {NoFrame}]]
           /\ \A t \in Spaces : t \in UsedSpaces' => t \in UsedSpaces /\ table'[t] = table[t]
           /\ \A t \in Spaces : t \notin UsedSpaces' =>
                 IF t = space[p] THEN Present(t)' = {} ELSE table'[t] = table[t]
           /\ UsedSpaces' \subseteq UsedSpaces /\ UsedSpaces \subseteq Spaces
           /\ UsedSpaces \ {space[p]} \subseteq UsedSpaces'
           /\ UsedSpaces' = {} <=> last(p)
<1>0. PICK s : s = space[p]
  OBVIOUS
<1>1. s \in Spaces /\ NoSpace \notin Spaces
  BY <1>0, NoneAssumption DEF TypeOK, do_exit, Live
<1>2. /\ space' \in [Contexts -> Spaces \union {NoSpace}]
      /\ space'[p] = NoSpace /\ \A q \in Contexts \ {p} : space'[q] = space[q]
  BY DEF TypeOK, do_exit
<1>3. \A t : t \in UsedSpaces' <=> \E q \in Contexts : space'[q] # NoSpace /\ space'[q] = t
  BY DEF UsedSpaces, Live
<1>4. \A t : t \in UsedSpaces <=> \E q \in Contexts : space[q] # NoSpace /\ space[q] = t
  BY DEF UsedSpaces, Live
<1>5. table' = IF \E q \in Contexts \ {p} : space[q] = s THEN table
               ELSE [table EXCEPT ![s] = [n \in Nodes |-> NoFrame]]
  BY <1>0 DEF do_exit
<1>6. (\E q \in Contexts \ {p} : space[q] = s) <=> s \in UsedSpaces'
  BY <1>1, <1>2, <1>3
<1>7. table' \in [Spaces -> [Nodes -> Frames \union {NoFrame}]]
  BY <1>1, <1>5 DEF TypeOK
<1>8. \A t \in Spaces : t # s \/ s \in UsedSpaces' => table'[t] = table[t]
  BY <1>1, <1>5, <1>6 DEF TypeOK
<1>9. \A t \in Spaces : t = s /\ s \notin UsedSpaces' => Present(t)' = {}
  <2> SUFFICES ASSUME s \notin UsedSpaces' PROVE \A n \in Nodes : table'[s][n] = NoFrame
    BY DEF Present
  <2>1. table' = [table EXCEPT ![s] = [n \in Nodes |-> NoFrame]]
    BY <1>5, <1>6
  <2> QED
    BY <1>1, <2>1 DEF TypeOK
<1>10. UsedSpaces' = {} <=> last(p)
  BY <1>2, <1>3 DEF last, Live
<1>11. \A q \in Contexts : Live(q)' <=> Live(q) /\ q # p
  BY <1>2 DEF Live
<1>12. /\ UsedSpaces' \subseteq UsedSpaces /\ UsedSpaces \subseteq Spaces
       /\ UsedSpaces \ {s} \subseteq UsedSpaces'
  BY <1>0, <1>2, <1>3, <1>4, UsedFacts
<1> QED
  BY <1>0, <1>1, <1>2, <1>7, <1>8, <1>9, <1>10, <1>11, <1>12

\* Freeing the frames D that are in use.
LEMMA FreeCount ==
    ASSUME TypeOK, NEW D, D \subseteq allocated, allocated' = allocated \ D
    PROVE  /\ IsFiniteSet(D) /\ Cardinality(D) \in Nat
           /\ Cardinality(Frames \ allocated) \in Nat
           /\ Cardinality(Frames \ allocated') = Cardinality(Frames \ allocated) + Cardinality(D)
<1> DEFINE F == Frames \ allocated
<1>1. D \subseteq Frames
  BY DEF TypeOK
<1>2. IsFiniteSet(F) /\ IsFiniteSet(D) /\ Cardinality(F) \in Nat /\ Cardinality(D) \in Nat
  BY <1>1, BoundAssumption, FS_Difference, FS_Subset, FS_CardinalityType
<1>3. F \intersect D = {} /\ Frames \ allocated' = F \union D
  BY <1>1
<1> HIDE DEF F
<1>4. Cardinality(F \union D) = Cardinality(F) + Cardinality(D)
  <2>1. Cardinality(F \union D)
           = Cardinality(F) + Cardinality(D) - Cardinality(F \intersect D)
    BY <1>2, FS_Union
  <2>2. Cardinality(F \intersect D) = 0
    BY <1>3, FS_EmptySet
  <2> QED
    BY <1>2, <2>1, <2>2
<1> QED
  BY <1>2, <1>3, <1>4 DEF F

\* The tables pt_cleanup() frees have as many frames, none of which is a stack
\* or the frame in os_pmd_pfn.
LEMMA CleanupFrames ==
    ASSUME TableInv, NEW p \in Contexts, Live(p)
    PROVE  LET C == pt_cleanup(space[p])
               T == FramesOf(space[p], C)
           IN  /\ T \subseteq allocated /\ Cardinality(T) = Cardinality(C)
               /\ os_stack_pfn[p] \in allocated /\ os_pmd_pfn \in allocated
               /\ os_stack_pfn[p] \notin T /\ os_pmd_pfn \notin T
               /\ os_stack_pfn[p] # os_pmd_pfn
<1> DEFINE s == space[p]
           C == pt_cleanup(s)
           T == FramesOf(s, C)
           f == [n \in C |-> table[s][n]]
<1>1. TypeOK /\ TableParts /\ OsPmdSound
  BY PartsNow DEF TableInv
<1>2. s \in UsedSpaces
  BY <1>1, UsedFacts
<1>3. C \subseteq Present(s) /\ OsPmd \notin C
  BY DEF pt_cleanup
<1>4. T = {table[s][n] : n \in C}
  BY DEF FramesOf
<1> HIDE DEF C, s, T
<1>5. /\ T \subseteq allocated
      /\ os_stack_pfn[p] \in allocated /\ os_pmd_pfn \in allocated
      /\ os_stack_pfn[p] \notin T /\ os_pmd_pfn \notin T
      /\ os_stack_pfn[p] # os_pmd_pfn
  BY <1>1, <1>2, <1>3, <1>4 DEF TableParts, OsPmdSound
<1>6. \A m, n \in C : table[s][m] = table[s][n] => m = n
  BY <1>1, <1>2, <1>3 DEF TableParts
<1>7. f \in [C -> T] /\ (\A m, n \in C : f[m] = f[n] => m = n) /\ (\A t \in T : \E n \in C : f[n] = t)
  BY <1>4, <1>6
<1>8. f \in Injection(C, T) /\ f \in Surjection(C, T)
  BY <1>7 DEF Injection, IsInjective, Surjection
<1>9. T \subseteq Frames
  BY <1>1, <1>5 DEF TypeOK
<1>10. IsFiniteSet(T)
  BY <1>9, BoundAssumption, FS_Subset
<1>11. Cardinality(T) = Cardinality(C) /\ IsFiniteSet(C)
  BY <1>8, <1>10, FS_Injection
<1> QED
  BY <1>5, <1>11 DEF C, s, T

\* do_exit() keeps the count in step, but for the second free of the stack of
\* the last process.
LEMMA ExitDrift ==
    ASSUME TableInv, NEW p \in Contexts, do_exit(p)
    PROVE  /\ CountCovers' /\ free_pages' \in Nat
           /\ Drift' = IF last(p) THEN Drift + 1 ELSE Drift
           /\ allocated' \subseteq allocated
<1>1. TypeOK /\ free_pages \in Nat /\ Drift >= 0 /\ Live(p)
  BY DEF TableInv, TypeOK, CountCovers, do_exit
<1> DEFINE C == pt_cleanup(space[p])
           T == FramesOf(space[p], C)
           F == Cardinality(Frames \ allocated)
<1>2. /\ T \subseteq allocated /\ Cardinality(T) = Cardinality(C)
      /\ os_stack_pfn[p] \in allocated /\ os_pmd_pfn \in allocated
      /\ os_stack_pfn[p] \notin T /\ os_pmd_pfn \notin T
      /\ os_stack_pfn[p] # os_pmd_pfn
  BY <1>1, CleanupFrames
<1>3. CASE ~last(p)
  <2>1. /\ allocated' = allocated \ {os_stack_pfn[p]}
        /\ free_pages' = free_pages + 1
    BY <1>3 DEF do_exit, os_pfn_free
  <2>2. Cardinality({os_stack_pfn[p]}) = 1
    BY FS_Singleton
  <2>3. F \in Nat /\ Cardinality(Frames \ allocated') = F + 1
    BY <1>1, <1>2, <2>1, <2>2, FreeCount
  <2>4. Drift = free_pages - F /\ Drift' = free_pages' - (F + 1)
    BY <2>3 DEF Drift
  <2> QED
    BY <1>1, <1>3, <2>1, <2>3, <2>4 DEF CountCovers
<1>4. CASE last(p)
  <2> DEFINE D == T \union {os_stack_pfn[p], os_pmd_pfn}
  <2>1. /\ allocated' = allocated \ D
        /\ free_pages' = free_pages + (3 + Cardinality(C))
    BY <1>4 DEF do_exit, os_pfn_free
  <2>2. D \subseteq allocated
    BY <1>2
  <2>3. IsFiniteSet(T) /\ Cardinality(T) \in Nat
    BY <1>1, <1>2, BoundAssumption, FS_Subset, FS_CardinalityType DEF TypeOK
  <2> HIDE DEF C, T
  <2>4. Cardinality(D) = Cardinality(T) + 2
    <3>1. /\ IsFiniteSet(T \union {os_stack_pfn[p]})
          /\ Cardinality(T \union {os_stack_pfn[p]}) = Cardinality(T) + 1
      BY <1>2, <2>3, FS_AddElement
    <3>2. os_pmd_pfn \notin T \union {os_stack_pfn[p]}
      BY <1>2
    <3>3. Cardinality((T \union {os_stack_pfn[p]}) \union {os_pmd_pfn}) = (Cardinality(T) + 1) + 1
      BY <3>1, <3>2, FS_AddElement
    <3>4. D = (T \union {os_stack_pfn[p]}) \union {os_pmd_pfn}
      OBVIOUS
    <3> HIDE DEF D
    <3>5. Cardinality(D) = (Cardinality(T) + 1) + 1
      BY <3>3, <3>4
    <3> QED
      BY <2>3, <3>5
  <2> HIDE DEF D
  <2>5. F \in Nat /\ Cardinality(Frames \ allocated') = F + Cardinality(D)
    BY <1>1, <2>1, <2>2, FreeCount
  <2>6. Drift = free_pages - F /\ Drift' = free_pages' - (F + Cardinality(D))
    BY <2>5 DEF Drift
  <2>7. Drift' = Drift + 1 /\ free_pages' \in Nat
    BY <1>1, <1>2, <2>1, <2>3, <2>4, <2>5, <2>6
  <2>8. allocated' \subseteq allocated
    BY <2>1
  <2>9. Drift \in Int
    BY <1>1, <2>5, <2>6
  <2> QED
    BY <1>1, <1>4, <2>7, <2>8, <2>9 DEF CountCovers
<1> QED
  BY <1>3, <1>4

\* do_exit() preserves the invariant: the last process leaves nothing to be
\* sound about, and any other frees only its stack.
LEMMA ExitInv == ASSUME TableInv, NEW p \in Contexts, do_exit(p) PROVE TableInv'
<1>1. TypeOK /\ TableParts /\ UnusedEmpty /\ OsPmdSound
  BY PartsNow DEF TableInv
<1>2. /\ space[p] \in Spaces
      /\ space' \in [Contexts -> Spaces \union {NoSpace}]
      /\ \A q \in Contexts : Live(q)' <=> Live(q) /\ q # p
      /\ \A q \in Contexts \ {p} : space'[q] = space[q]
      /\ table' \in [Spaces -> [Nodes -> Frames \union {NoFrame}]]
      /\ \A t \in Spaces : t \in UsedSpaces' => t \in UsedSpaces /\ table'[t] = table[t]
      /\ \A t \in Spaces : t \notin UsedSpaces' =>
            IF t = space[p] THEN Present(t)' = {} ELSE table'[t] = table[t]
      /\ UsedSpaces' \subseteq UsedSpaces /\ UsedSpaces \subseteq Spaces
      /\ UsedSpaces \ {space[p]} \subseteq UsedSpaces'
      /\ UsedSpaces' = {} <=> last(p)
  BY <1>1, ExitFacts
<1>3. Live(p) /\ UNCHANGED <<os_stack_pfn, os_pmd_pfn>>
  BY DEF do_exit
<1>4. /\ CountCovers' /\ free_pages' \in Nat /\ allocated' \subseteq allocated
  BY ExitDrift
<1>5. TypeOK'
  BY <1>1, <1>2, <1>3, <1>4 DEF TypeOK
<1>6. \A t \in UsedSpaces' : t \in UsedSpaces /\ Present(t)' = Present(t) /\ table'[t] = table[t]
  BY <1>2 DEF Present
<1>7. UnusedEmpty'
  <2> SUFFICES ASSUME NEW t \in Spaces, t \notin UsedSpaces' PROVE Present(t)' = {}
    BY DEF UnusedEmpty
  <2>1. CASE t = space[p]
    BY <1>2, <2>1
  <2>2. CASE t # space[p]
    <3>1. t \notin UsedSpaces /\ table'[t] = table[t]
      BY <1>2, <2>2
    <3> QED
      BY <1>1, <3>1 DEF UnusedEmpty, Present
  <2> QED
    BY <2>1, <2>2
<1>8. CASE last(p)
  <2>1. UsedSpaces' = {} /\ \A q \in Contexts : ~Live(q)'
    BY <1>2, <1>8 DEF last
  <2>2. TableParts'
    BY <2>1 DEF TableParts
  <2>3. OsPmdSound'
    BY <2>1 DEF OsPmdSound
  <2> QED
    BY <1>4, <1>5, <1>7, <2>2, <2>3, PartsNext DEF TableInv
<1>9. CASE ~last(p)
  <2>1. allocated' = allocated \ {os_stack_pfn[p]}
    BY <1>9 DEF do_exit, os_pfn_free
  <2>2. \A t \in UsedSpaces : \A m \in Present(t) : os_stack_pfn[p] # table[t][m]
    BY <1>1, <1>3 DEF TableParts
  <2>3. \A q \in Contexts \ {p} : Live(q) => os_stack_pfn[q] # os_stack_pfn[p]
    BY <1>1, <1>3 DEF TableParts
  <2>4. TableParts'
    BY <1>1, <1>2, <1>3, <1>6, <2>1, <2>2, <2>3 DEF TableParts
  <2>5. OsPmdSound'
    BY <1>1, <1>2, <1>3, <1>6, <2>1 DEF OsPmdSound
  <2> QED
    BY <1>4, <1>5, <1>7, <2>4, <2>5, PartsNext DEF TableInv
<1> QED
  BY <1>8, <1>9

-----------------------------------------------------------------------------
(* The invariant holds.                                                    *)

LEMMA TableInit == Init => TableInv
<1> SUFFICES ASSUME Init PROVE TableInv
  OBVIOUS
<1>1. IsFiniteSet(Frames) /\ Cardinality(Frames) \in Nat
  BY BoundAssumption, FS_CardinalityType
<1>2. TypeOK
  BY <1>1 DEF Init, TypeOK
<1>3. /\ \A p \in Contexts : ~Live(p)
      /\ UsedSpaces = {}
  BY DEF Init, Live, UsedSpaces
<1>4. TablesSound /\ OsPmdSound
  BY <1>3 DEF TablesSound, OsPmdSound
<1>5. UnusedEmpty
  BY DEF Init, UnusedEmpty, Present
<1>6. Frames \ allocated = Frames /\ free_pages = Cardinality(Frames)
  BY DEF Init
<1>7. CountCovers
  BY <1>1, <1>6 DEF CountCovers, Drift
<1> QED
  BY <1>2, <1>4, <1>5, <1>7 DEF TableInv

\* A step takes frames, for a process or for nobody, or ends a process, or
\* changes nothing.
LEMMA StepForm ==
    ASSUME TableInv, [Next]_vars
    PROVE  \/ SomeGrown \/ SomeUnowned
           \/ \E p \in Contexts : do_exit(p)
           \/ UNCHANGED vars
BY LaunchGrown, FaultGrown, ForkGrown, CloneGrown, ForkUnowned, CloneUnowned DEF Next

LEMMA TableStep == TableInv /\ [Next]_vars => TableInv'
<1> SUFFICES ASSUME TableInv, [Next]_vars PROVE TableInv'
  OBVIOUS
<1>1. CASE SomeGrown
  BY <1>1, GrownInv DEF SomeGrown
<1>2. CASE SomeUnowned
  BY <1>2, UnownedInv DEF SomeUnowned
<1>3. CASE \E p \in Contexts : do_exit(p)
  BY <1>3, ExitInv
<1>4. CASE UNCHANGED vars
  BY <1>4 DEF vars, TableInv, TypeOK, TablesSound, UnusedEmpty, OsPmdSound, CountCovers,
              Drift, UsedSpaces, Live, Present, FramesOf
<1> QED
  BY <1>1, <1>2, <1>3, <1>4, StepForm

LEMMA TableSpec == Spec => []TableInv
<1>1. Init => TableInv
  BY TableInit
<1>2. TableInv /\ [Next]_vars => TableInv'
  BY TableStep
<1> QED
  BY <1>1, <1>2, PTL DEF Spec

\* Every variable keeps its type: no operation stores a frame that is not one
\* of the region, and the count of free pages never goes below 0.
THEOREM TablesTyped == Spec => []TypeOK
<1>1. TableInv => TypeOK
  BY DEF TableInv
<1> QED
  BY <1>1, TableSpec, PTL

\* No table or kernel stack of a live process is freed or given out twice,
\* although every process overwrites the one os_pmd_pfn, and the kernel and the
\* APIC stay mapped in every space.
THEOREM TablesStaySound == Spec => []TablesSound
<1>1. TableInv => TablesSound
  BY DEF TableInv
<1> QED
  BY <1>1, TableSpec, PTL

-----------------------------------------------------------------------------
(* What is lost and what is counted.                                       *)

LEMMA DriftStep == TableInv /\ [Next]_vars => [Drifts]_vars
<1> SUFFICES ASSUME TableInv, [Next]_vars, ~UNCHANGED vars PROVE Drifts
  OBVIOUS
<1>0. Drift >= 0
  BY DEF TableInv, CountCovers
<1>1. ASSUME NEW s, NEW N, NEW M, NEW new, NEW q, Grown(s, N, M, new, q) PROVE Drifts
  <2>1. s \in UsedSpaces'
    BY <1>1, GrownFacts
  <2>2. Drift' = Drift
    BY <1>1, TakeDrift DEF TableInv, Grown
  <2> QED
    BY <1>0, <2>1, <2>2 DEF Drifts
<1>2. ASSUME NEW p \in Contexts, do_exit(p) PROVE Drifts
  <2>1. UsedSpaces' = {} <=> last(p)
    BY <1>2, ExitFacts DEF TableInv
  <2>2. UsedSpaces # {}
    BY <1>2, UsedFacts DEF TableInv, do_exit
  <2>3. Drift' = IF last(p) THEN Drift + 1 ELSE Drift
    BY <1>2, ExitDrift
  <2> QED
    BY <1>0, <2>1, <2>2, <2>3 DEF Drifts
<1>3. ASSUME NEW M, NEW new, Unowned(M, new) PROVE Drifts
  <2>1. UsedSpaces' # {}
    BY <1>3, UnownedFacts DEF TableInv
  <2>2. Drift' = Drift
    BY <1>3, TakeDrift DEF TableInv, Unowned
  <2> QED
    BY <1>0, <2>1, <2>2 DEF Drifts
<1> QED
  BY <1>1, <1>2, <1>3, StepForm DEF SomeGrown, SomeUnowned

\* The count of free pages is ahead of the free frames by the number of returns
\* to the shell, whatever was forked, cloned, mapped and lost in between.
THEOREM DriftIsDoubleFree == Spec => CountDrifts
<1>1. TableInv /\ [Next]_vars => [Drifts]_vars
  BY DriftStep
<1> QED
  BY <1>1, TableSpec, PTL DEF Spec, CountDrifts

\* Whose the frames in use are.
LEMMA InUseNow ==
    \A f : f \in InUse <=> \/ \E s \in UsedSpaces : \E m \in Present(s) : f = table[s][m]
                           \/ \E p \in Contexts : Live(p) /\ f = os_stack_pfn[p]
BY DEF InUse, FramesOf

LEMMA InUseNext ==
    \A f : f \in InUse' <=> \/ \E s \in UsedSpaces' : \E m \in Present(s)' : f = table'[s][m]
                            \/ \E p \in Contexts : Live(p)' /\ f = os_stack_pfn'[p]
BY DEF InUse, FramesOf

\* Whatever is taken is put in use.
LEMMA GrownLoss ==
    ASSUME TableInv, NEW s, NEW N, NEW M, NEW new, NEW q, Grown(s, N, M, new, q)
    PROVE  Orphans' \subseteq Orphans
<1> SUFFICES ASSUME NEW f \in allocated', f \notin InUse'
             PROVE  f \in allocated /\ f \notin InUse
  BY DEF Orphans
<1>1. /\ \A t : t \in UsedSpaces' <=> t \in UsedSpaces \/ t = s
      /\ \A t \in Spaces : Present(t)' = IF t = s THEN Present(s) \union N ELSE Present(t)
  BY GrownFacts
<1>2. /\ allocated' = allocated \union {new[m] : m \in M}
      /\ s \in Spaces /\ NoSpace \notin Spaces
      /\ N = M \ {Stack} /\ N \subseteq Nodes /\ N \intersect Present(s) = {}
      /\ \A t \in Spaces, n \in Nodes :
            table'[t][n] = IF t = s /\ n \in N THEN new[n] ELSE table[t][n]
      /\ Stack \in M => q \in Contexts /\ space'[q] = s /\ os_stack_pfn'[q] = new[Stack]
      /\ \A p \in Contexts : Live(p) =>
            space'[p] = space[p] /\ os_stack_pfn'[p] = os_stack_pfn[p]
  BY NoneAssumption DEF Grown, take
<1>3. ASSUME NEW m \in M, f = new[m] PROVE FALSE
  <2>1. CASE m \in N
    <3>1. s \in UsedSpaces' /\ m \in Present(s)' /\ table'[s][m] = f
      BY <1>1, <1>2, <1>3, <2>1
    <3> QED
      BY <3>1, InUseNext
  <2>2. CASE m = Stack
    <3>1. q \in Contexts /\ Live(q)' /\ os_stack_pfn'[q] = f
      BY <1>2, <1>3, <2>2 DEF Live
    <3> QED
      BY <3>1, InUseNext
  <2> QED
    BY <1>2, <2>1, <2>2
<1>4. f \in allocated
  BY <1>2, <1>3
<1>5. ASSUME NEW t \in UsedSpaces, NEW m \in Present(t), f = table[t][m] PROVE FALSE
  <2>1. t \in Spaces /\ m \in Nodes
    BY <1>5, UsedFacts DEF TableInv, Present
  <2>2. t \in UsedSpaces' /\ m \in Present(t)' /\ table'[t][m] = f
    BY <1>1, <1>2, <1>5, <2>1
  <2> QED
    BY <2>2, InUseNext
<1>6. ASSUME NEW p \in Contexts, Live(p), f = os_stack_pfn[p] PROVE FALSE
  <2>1. Live(p)' /\ os_stack_pfn'[p] = f
    BY <1>2, <1>6 DEF Live
  <2> QED
    BY <2>1, InUseNext
<1> QED
  BY <1>4, <1>5, <1>6, InUseNow

\* A call at the limit loses what it takes and nothing else.
LEMMA UnownedLoss == ASSUME TableInv, NEW M, NEW new, Unowned(M, new) PROVE Loss
<1>1. TypeOK /\ TableParts
  BY PartsNow DEF TableInv
<1>2. /\ UsedSpaces' = UsedSpaces /\ \A s : Present(s)' = Present(s)
      /\ \A p : Live(p)' <=> Live(p)
      /\ allocated \subseteq allocated'
  BY <1>1, UnownedFacts
<1>3. UNCHANGED <<space, os_stack_pfn, table>> /\ AtLimit
  BY DEF Unowned
<1>4. \A f : f \in InUse' <=> f \in InUse
  BY <1>2, <1>3, InUseNow, InUseNext
<1>5. \A f : f \in InUse => f \in allocated
  BY <1>1, InUseNow DEF TableParts
<1>6. Orphans' \ Orphans = allocated' \ allocated
  BY <1>2, <1>4, <1>5 DEF Orphans
<1> QED
  BY <1>3, <1>6 DEF Loss

\* do_exit() loses tables only as Loss says.
LEMMA ExitLoss == ASSUME TableInv, NEW p \in Contexts, do_exit(p) PROVE Loss
<1>0. PICK s : s = space[p]
  OBVIOUS
<1>1. TypeOK /\ TableParts
  BY PartsNow DEF TableInv
<1>2. /\ s \in Spaces /\ NoSpace \notin Spaces
      /\ space'[p] = NoSpace /\ Live(p)
      /\ \A q \in Contexts : Live(q)' <=> Live(q) /\ q # p
      /\ \A q \in Contexts \ {p} : space'[q] = space[q]
      /\ \A t \in Spaces : t \in UsedSpaces' => t \in UsedSpaces /\ table'[t] = table[t]
      /\ UsedSpaces' \subseteq UsedSpaces /\ UsedSpaces \subseteq Spaces
      /\ UsedSpaces \ {s} \subseteq UsedSpaces'
      /\ UsedSpaces' = {} <=> last(p)
  <2>1. NoSpace \notin Spaces
    BY NoneAssumption
  <2>2. space'[p] = NoSpace /\ Live(p)
    BY <1>1 DEF do_exit, TypeOK
  <2>3. TypeOK
    BY <1>1
  <2> QED
    BY <1>0, <2>1, <2>2, <2>3, ExitFacts
<1>3. s \in UsedSpaces /\ UNCHANGED os_stack_pfn
  BY <1>0, <1>1, <1>2, UsedFacts DEF do_exit
<1>4. CASE \E q \in Contexts \ {p} : space[q] = s
  <2>1. PICK q \in Contexts \ {p} : space[q] = s
    BY <1>4
  <2>2. ~last(p) /\ s \in UsedSpaces'
    BY <1>2, <2>1 DEF last, Live, UsedSpaces
  <2>3. UsedSpaces' = UsedSpaces
    BY <1>2, <2>2
  <2>4. \A t \in UsedSpaces : Present(t)' = Present(t) /\ table'[t] = table[t]
    BY <1>2, <2>3 DEF Present
  <2>5. allocated' = allocated \ {os_stack_pfn[p]}
    BY <2>2 DEF do_exit, os_pfn_free
  <2>6. ASSUME NEW f \in allocated', f \notin InUse' PROVE f \in allocated /\ f \notin InUse
    <3>1. \A t \in UsedSpaces : \A m \in Present(t) : f # table[t][m]
      BY <2>3, <2>4, <2>6, InUseNext
    <3>2. \A r \in Contexts : Live(r) => f # os_stack_pfn[r]
      BY <1>2, <1>3, <2>5, <2>6, InUseNext
    <3> QED
      BY <2>5, <2>6, <3>1, <3>2, InUseNow
  <2> QED
    BY <2>6 DEF Orphans, Loss
<1>5. CASE ~\E q \in Contexts \ {p} : space[q] = s
  <2>1. Ends(p) /\ \A q \in Contexts \ {p} : space[q] # space[p]
    BY <1>0, <1>2, <1>5 DEF Ends
  <2>2. CASE ~last(p)
    BY <2>1, <2>2 DEF Loss
  <2>3. CASE last(p)
    <3> DEFINE C == pt_cleanup(s)
    <3>1. /\ allocated' = allocated \ (FramesOf(s, C) \union {os_stack_pfn[p], os_pmd_pfn})
          /\ C = Present(s) \ {OsPmd}
      BY <1>0, <2>3 DEF do_exit, os_pfn_free, pt_cleanup
    <3> HIDE DEF C
    <3>2. \A f : f \notin InUse'
      BY <1>2, <2>3, InUseNext DEF last
    <3>3. Orphans' = allocated'
      BY <3>2 DEF Orphans
    <3>4. \A q \in Contexts : Live(q) => q = p
      BY <2>3 DEF last
    <3>5. \A t \in UsedSpaces : t = s
      BY <1>0, <1>1, <3>4, UsedFacts
    <3>6. ASSUME NEW f \in allocated', f \in InUse PROVE f = table[s][OsPmd] /\ f # os_pmd_pfn
      <4>1. f # os_stack_pfn[p] /\ f # os_pmd_pfn /\ \A m \in C : f # table[s][m]
        BY <3>1, <3>6 DEF FramesOf
      <4>2. \E m \in Present(s) : f = table[s][m]
        BY <3>4, <3>5, <3>6, <4>1, InUseNow
      <4> QED
        BY <3>1, <4>1, <4>2
    <3>7. OsPmd \in Present(s)
      BY <1>1, <1>3, NodeFacts DEF TableParts
    <3>8. /\ table[s][OsPmd] \in allocated
          /\ table[s][OsPmd] # os_stack_pfn[p]
          /\ \A m \in C : table[s][m] # table[s][OsPmd]
          /\ table[s][OsPmd] \in InUse
      BY <1>1, <1>2, <1>3, <3>1, <3>7, InUseNow DEF TableParts
    <3>9. allocated' \subseteq allocated
      BY <3>1
    <3>10. CASE os_pmd_pfn = table[s][OsPmd]
      BY <3>3, <3>6, <3>9, <3>10 DEF Orphans, Loss
    <3>11. CASE os_pmd_pfn # table[s][OsPmd]
      <4>1. table[s][OsPmd] \in allocated'
        BY <3>1, <3>8, <3>11 DEF FramesOf
      <4>2. Orphans' \ Orphans = {table[s][OsPmd]}
        BY <3>3, <3>6, <3>8, <3>9, <4>1 DEF Orphans
      <4> QED
        BY <1>0, <2>1, <3>11, <4>2 DEF Loss
    <3> QED
      BY <3>10, <3>11
  <2> QED
    BY <2>2, <2>3
<1> QED
  BY <1>4, <1>5

LEMMA LossStep == TableInv /\ [Next]_vars => [Loss]_vars
<1> SUFFICES ASSUME TableInv, [Next]_vars, ~UNCHANGED vars PROVE Loss
  OBVIOUS
<1>1. ASSUME NEW s, NEW N, NEW M, NEW new, NEW q, Grown(s, N, M, new, q) PROVE Loss
  BY <1>1, GrownLoss DEF Loss
<1>2. ASSUME NEW p \in Contexts, do_exit(p) PROVE Loss
  BY <1>2, ExitLoss
<1>3. ASSUME NEW M, NEW new, Unowned(M, new) PROVE Loss
  BY <1>3, UnownedLoss
<1> QED
  BY <1>1, <1>2, <1>3, StepForm DEF SomeGrown, SomeUnowned

\* Frames are lost only when a process ends whose tables nobody else uses (its
\* tables while others live, and the pmd of the kernel when os_pmd_pfn was set
\* for another process or for nobody), and by a fork or clone with every slot in
\* use, which loses what it takes.
THEOREM LossesAreKnown == Spec => NoOtherLoss
<1>1. TableInv /\ [Next]_vars => [Loss]_vars
  BY LossStep
<1> QED
  BY <1>1, TableSpec, PTL DEF Spec, NoOtherLoss
=============================================================================
