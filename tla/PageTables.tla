----------------------------- MODULE PageTables -----------------------------
(***************************************************************************)
(* The frames of OS_PT_REG: the page tables of every process at all four   *)
(* levels, with the kernel's half (install_os_pts, install_apic_mapping),  *)
(* and the kernel stacks, from launch, fork, clone and faults to do_exit,  *)
(* do_cleanup and pt_cleanup, with the count of free pages that the        *)
(* allocator keeps.                                                        *)
(*                                                                         *)
(* A table is a level and a number: the pgd is at level 4, the only pud    *)
(* (every address gemOS maps is below 512 GB) at level 3, the pmd in entry *)
(* i of the pud is <<2, i>> and the pt in entry j of that pmd is           *)
(* <<1, i * PER_PMD + j>>.  Entry 0 of the pud is the kernel's, entry 3    *)
(* the APIC's.  Leaf entries, flags and page contents are left out:        *)
(* AddressSpace has the leaves.  Frames come from an allocator that hands  *)
(* out no frame in use (NoAlias of PageAlloc).                             *)
(***************************************************************************)
EXTENDS Integers, FiniteSets

CONSTANTS
    Contexts,       \* slots of the context table for user processes
    Spaces,         \* identities of pgds; one per slot is enough
    Frames,         \* frames of OS_PT_REG but those that are never freed: the
                    \* bitmap and what is allocated once at boot
    NoFrame,        \* an entry whose present bit is 0
    NoSpace,        \* the space of an UNUSED slot
    Alloc(_, _),    \* ways to allocate frames for a set, given those in use
    PER_PMD,        \* pts a pmd points to: 512
    CodePt,         \* number of the pt with the code
    LaunchPts,      \* numbers of the pts with the pages exec_init() maps
    MorePts,        \* numbers of pts that page faults may add
    MaxSessions     \* bound on the launches explored

Pgd     == <<4, 0>>
Pud     == <<3, 0>>
OsPmd   == <<2, 0>>
ApicPmd == <<2, 3>>
Kernel  == {Pgd, Pud, OsPmd, ApicPmd}
Pmd(n)  == <<2, n \div PER_PMD>>
Pt(n)   == <<1, n>>
Pts     == LaunchPts \union MorePts
Nodes   == Kernel \union {Pmd(n) : n \in Pts} \union {Pt(n) : n \in Pts}

\* User addresses lie above the kernel's and the APIC's.
ASSUME PtAssumption    == /\ PER_PMD \in Nat \ {0} /\ Pts \subseteq Nat
                          /\ CodePt \in LaunchPts
                          /\ \A n \in Pts : n \div PER_PMD > 3
ASSUME NoneAssumption  == NoFrame \notin Frames /\ NoSpace \notin Spaces
ASSUME BoundAssumption == MaxSessions \in Nat /\ IsFiniteSet(Frames)

VARIABLES
    space,          \* the pgd of each context, NoSpace when the slot is UNUSED
    os_stack_pfn,   \* the kernel stack of each context
    table,          \* the frame of every table of a space, or NoFrame
    os_pmd_pfn,     \* the global that install_os_pts() sets
    allocated,      \* frames marked in use
    free_pages      \* the allocator's count

vars == <<space, os_stack_pfn, table, os_pmd_pfn, allocated, free_pages>>

Live(p)    == space[p] # NoSpace
UsedSpaces == {space[p] : p \in {q \in Contexts : Live(q)}}
Present(s) == {n \in Nodes : table[s][n] # NoFrame}
FramesOf(s, N) == {table[s][n] : n \in N}

\* The tables on the way to pt n that install_ptable(), install_ptable_multi()
\* and install_page_table() allocate when they are missing.
Path(n)    == {Pud, Pmd(n), Pt(n)}
Tree(P)    == Kernel \union UNION {Path(n) : n \in P}

\* What a launch takes, its stack included.  A bound of the model: frames are
\* taken only while a launch is still possible afterwards.  What callers do
\* with the frame 0 of an exhausted region is not modelled.
LaunchFrames == 1 + Cardinality(Tree(LaunchPts))
Headroom(n)  == Cardinality(Frames \ allocated) >= n + LaunchFrames

\* Frames for the members of N, as the function new.
take(N, new) ==
    /\ new \in Alloc(allocated, N)
    /\ new \in [N -> Frames \ allocated]
    /\ \A m, n \in N : new[m] = new[n] => m = n
    /\ allocated' = allocated \union {new[n] : n \in N}
    /\ free_pages' = free_pages - Cardinality(N)

\* The bit is cleared and the count is not given back.
Bug_os_pfn_free(F, n) == allocated' = allocated \ F /\ UNCHANGED free_pages

\* n calls of os_pfn_free() for the frames of F: the bit of a frame is cleared
\* whether it was set or not, and the count grows with every call.
os_pfn_free(F, n) == allocated' = allocated \ F /\ free_pages' = free_pages + n

\* The entries of the new tables; os_pfn_alloc() has zeroed their frames.
install(s, N, new) ==
    table' = [table EXCEPT ![s] = [n \in Nodes |-> IF n \in N THEN new[n] ELSE @[n]]]

Stack == <<0, 0>>       \* the kernel stack, in the sets passed to take()

-----------------------------------------------------------------------------
\* The shell's init command: create_context() takes the stack, exec_init() the
\* tables; install_os_pts() remembers the pmd of the kernel.
launch(p) ==
    /\ \A q \in Contexts : ~Live(q)
    /\ free_pages - Cardinality(Frames \ allocated) < MaxSessions
    /\ \E s \in Spaces, new \in Alloc(allocated, Tree(LaunchPts) \union {Stack}) :
          /\ take(Tree(LaunchPts) \union {Stack}, new)
          /\ install(s, Tree(LaunchPts), new)
          /\ space' = [space EXCEPT ![p] = s]
          /\ os_stack_pfn' = [os_stack_pfn EXCEPT ![p] = new[Stack]]
          /\ os_pmd_pfn' = new[OsPmd]

\* A page fault in the range of pt n: install_page_table().
page_fault(p, n) ==
    /\ Live(p)
    /\ LET s == space[p]
           N == Path(n) \ Present(s)
       IN  /\ N # {} /\ Headroom(Cardinality(N))
           /\ \E new \in Alloc(allocated, N) : take(N, new) /\ install(s, N, new)
    /\ UNCHANGED <<space, os_stack_pfn, os_pmd_pfn>>

\* fork() into slot q: copy_mm() builds pts for those of the parent that have
\* a page to copy or share (the code always has) and install_os_pts() the
\* kernel's; setup_child_context() takes the stack.
do_fork(p, q) ==
    /\ Live(p) /\ ~Live(q)
    /\ \E P \in SUBSET {n \in Pts : Pt(n) \in Present(space[p])}, s \in Spaces \ UsedSpaces :
          LET N == Tree(P) \union {Stack}
          IN  /\ CodePt \in P /\ Headroom(Cardinality(N))
              /\ \E new \in Alloc(allocated, N) :
                    /\ take(N, new)
                    /\ install(s, Tree(P), new)
                    /\ os_stack_pfn' = [os_stack_pfn EXCEPT ![q] = new[Stack]]
                    /\ os_pmd_pfn' = new[OsPmd]
              /\ space' = [space EXCEPT ![q] = s]

\* clone() into slot q: the pgd is shared.
do_clone(p, q) ==
    /\ Live(p) /\ ~Live(q) /\ Headroom(1)
    /\ \E new \in Alloc(allocated, {Stack}) :
          /\ take({Stack}, new)
          /\ os_stack_pfn' = [os_stack_pfn EXCEPT ![q] = new[Stack]]
    /\ space' = [space EXCEPT ![q] = space[p]]
    /\ UNCHANGED <<table, os_pmd_pfn>>

\* get_new_ctx() finds no UNUSED slot and returns NULL; do_fork() and do_clone()
\* go on with the context at address 0.
AtLimit == \A q \in Contexts : Live(q)

\* fork() at the limit: the tree and the stack belong to no process, and
\* os_pmd_pfn is set to a pmd of that tree.
do_fork_at_limit(p) ==
    /\ Live(p) /\ AtLimit
    /\ \E P \in SUBSET {n \in Pts : Pt(n) \in Present(space[p])} :
          LET N == Tree(P) \union {Stack}
          IN  /\ CodePt \in P /\ Headroom(Cardinality(N))
              /\ \E new \in Alloc(allocated, N) : take(N, new) /\ os_pmd_pfn' = new[OsPmd]
    /\ UNCHANGED <<space, os_stack_pfn, table>>

\* clone() at the limit: the stack belongs to no process.
do_clone_at_limit(p) ==
    /\ Live(p) /\ AtLimit /\ Headroom(1)
    /\ \E new \in Alloc(allocated, {Stack}) : take({Stack}, new)
    /\ UNCHANGED <<space, os_stack_pfn, table, os_pmd_pfn>>

\* The loop starts at entry 0 of the pud as well.
Bug_pt_cleanup(s) == Present(s)

\* The loop starts at entry 1 at every level.
Bug_pt_cleanup_skip(s) == {n \in Present(s) : n[1] <= 2 => n[2] % PER_PMD # 0}

\* The tables pt_cleanup() frees: all but the pmd in entry 0 of the pud.  The
\* APIC's pmd is one of them, emptied by remove_apic_mapping() before.
pt_cleanup(s) == Present(s) \ {OsPmd}

\* do_exit() without the test for the last context.
Bug_last(p) == \A q \in Contexts \ {p} : space[q] # space[p]

last(p) == \A q \in Contexts \ {p} : ~Live(q)

\* do_exit(): the stack is freed.  The last context goes on to do_cleanup(),
\* which frees the stack again, the tables and the frame in os_pmd_pfn.
\* Otherwise the tables stay.
do_exit(p) ==
    /\ Live(p)
    /\ \/ ~last(p) /\ os_pfn_free({os_stack_pfn[p]}, 1)
       \/ /\ last(p)
          /\ os_pfn_free(FramesOf(space[p], pt_cleanup(space[p]))
                            \union {os_stack_pfn[p], os_pmd_pfn},
                         3 + Cardinality(pt_cleanup(space[p])))
    /\ space' = [space EXCEPT ![p] = NoSpace]
    /\ table' = IF \E q \in Contexts \ {p} : space[q] = space[p] THEN table
                ELSE [table EXCEPT ![space[p]] = [n \in Nodes |-> NoFrame]]
    /\ UNCHANGED <<os_stack_pfn, os_pmd_pfn>>

Init ==
    /\ space = [p \in Contexts |-> NoSpace]
    /\ os_stack_pfn = [p \in Contexts |-> NoFrame]
    /\ table = [s \in Spaces |-> [n \in Nodes |-> NoFrame]]
    /\ os_pmd_pfn = NoFrame
    /\ allocated = {}
    /\ free_pages = Cardinality(Frames)

Next ==
    \E p \in Contexts :
        \/ launch(p)
        \/ \E n \in Pts : page_fault(p, n)
        \/ \E q \in Contexts : do_fork(p, q)
        \/ do_fork_at_limit(p)
        \/ \E q \in Contexts : do_clone(p, q)
        \/ do_clone_at_limit(p)
        \/ do_exit(p)

Spec == Init /\ [][Next]_vars

-----------------------------------------------------------------------------
(* Properties.                                                             *)

\* Every variable has its type.
TypeOK ==
    /\ space \in [Contexts -> Spaces \union {NoSpace}]
    /\ os_stack_pfn \in [Contexts -> Frames \union {NoFrame}]
    /\ table \in [Spaces -> [Nodes -> Frames \union {NoFrame}]]
    /\ os_pmd_pfn \in Frames \union {NoFrame}
    /\ allocated \subseteq Frames
    /\ free_pages \in Nat

\* Every table of a live process and every live kernel stack has a frame of its
\* own that is marked in use, whatever was freed through the one os_pmd_pfn
\* that all processes share; and the kernel and the APIC are mapped in every
\* space, so that the CPU may enter the kernel on it.
TablesSound ==
    /\ \A s \in UsedSpaces :
          /\ Kernel \subseteq Present(s)
          /\ FramesOf(s, Present(s)) \subseteq allocated
          /\ \A t \in UsedSpaces : \A m \in Present(s), n \in Present(t) :
                table[s][m] = table[t][n] => s = t /\ m = n
          /\ \A p \in Contexts : Live(p) => os_stack_pfn[p] \notin FramesOf(s, Present(s))
    /\ \A p \in Contexts : Live(p) => os_stack_pfn[p] \in allocated
    /\ \A p, q \in Contexts :
          Live(p) /\ Live(q) /\ os_stack_pfn[p] = os_stack_pfn[q] => p = q

\* Frames in use that no live process has.
InUse   == (UNION {FramesOf(s, Present(s)) : s \in UsedSpaces})
              \union {os_stack_pfn[p] : p \in {q \in Contexts : Live(q)}}
Orphans == allocated \ InUse

Ends(p) == Live(p) /\ space'[p] = NoSpace

\* Tables and stacks are lost in three ways only: a process ends alone while
\* others live; or the last one is not the one that os_pmd_pfn was set for, and
\* then the frame of its own kernel pmd is all that is lost; or a fork or clone
\* with every slot in use gives what it takes to nobody, and then all of that
\* is lost, and nothing that a process had.
Loss ==
    \/ Orphans' \subseteq Orphans
    \/ \E p \in Contexts :
          /\ Ends(p)
          /\ \A q \in Contexts \ {p} : space[q] # space[p]
          /\ last(p) => /\ os_pmd_pfn # table[space[p]][OsPmd]
                        /\ Orphans' \ Orphans = {table[space[p]][OsPmd]}
    \/ /\ AtLimit /\ UNCHANGED <<space, table, os_stack_pfn>>
       /\ Orphans' \ Orphans = allocated' \ allocated
NoOtherLoss == [][Loss]_vars

\* The count of free pages is never below the number of free frames, and runs
\* ahead of it by one with every return to the shell, where the stack is freed
\* twice, and by nothing else.
Drift == free_pages - Cardinality(Frames \ allocated)
Drifts ==
    /\ Drift >= 0
    /\ Drift' = IF UsedSpaces # {} /\ UsedSpaces' = {} THEN Drift + 1 ELSE Drift
CountDrifts == [][Drifts]_vars
=============================================================================
