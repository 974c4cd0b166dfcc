---------------------------- MODULE AddressSpace ----------------------------
(***************************************************************************)
(* User memory of gemOS: the segments of a context, the leaf entries of    *)
(* its page tables and the USER frames they map, through page faults       *)
(* (do_page_fault, install_page_table), expand() and shrink(), fork(),     *)
(* clone() and exit.                                                       *)
(*                                                                         *)
(* A virtual page is a segment and a page number counted from the end of   *)
(* the segment it grows from: upwards from the start for CODE, RODATA and  *)
(* DATA, downwards from the top for STACK.  A table is the last-level      *)
(* page table that covers TABLE_PAGES of them; the entry that points to it *)
(* carries a W bit of its own, and the hardware lets a write through only  *)
(* if both that bit and the leaf's are set.  The frames of the tables and  *)
(* the kernel half of the address space are the subject of PageTables;     *)
(* page contents are left out.                                             *)
(*                                                                         *)
(* Whoever is live may be the one that runs: the scheduler is the subject  *)
(* of Scheduler.  A context lives in a space (a pgd); threads share one.   *)
(***************************************************************************)
EXTENDS Integers, FiniteSets, Sequences

CONSTANTS
    Contexts,       \* slots of the context table for user processes
    Spaces,         \* identities of pgds; one per slot is enough
    Frames,         \* frames of USER_REG
    Positions,      \* values of its last_free_pos
    NoFrame,        \* an entry whose present bit is 0
    NoSpace,        \* the space of an UNUSED slot
    Alloc(_, _, _), \* what n calls of os_pfn_alloc may return: the frames in
                    \* order and the last_free_pos they leave
    FewFrames,      \* frames that may be in use before a frame in use is handed
                    \* out again (FewHolders of PageAlloc)
    SegPages,       \* pages a segment has room for
    TABLE_PAGES,    \* pages a last-level table covers: 512
    ExpandPages,    \* sizes user programs pass to expand() and shrink()
    ShrinkSegs,     \* segments user programs shrink
    CanFork         \* whether user programs call fork()

Segs      == {"CODE", "RODATA", "DATA", "STACK"}
Growable  == {"RODATA", "DATA"}
VPages    == UNION {{seg} \X (0 .. SegPages[seg] - 1) : seg \in Segs}
Table(v)  == <<v[1], v[2] \div TABLE_PAGES>>
Tables    == {Table(v) : v \in VPages}
Writable  == {v \in VPages : v[1] \in {"DATA", "STACK"}}    \* MM_WR

ASSUME SegAssumption    == /\ SegPages \in [Segs -> Nat \ {0}]
                           /\ TABLE_PAGES \in Nat \ {0}
ASSUME NoneAssumption   == NoFrame \notin Frames /\ NoSpace \notin Spaces
ASSUME InputAssumption  == /\ ExpandPages \subseteq Nat
                           /\ ShrinkSegs \subseteq Growable
                           /\ CanFork \in BOOLEAN
ASSUME AllocAssumption  ==
    \A A \in SUBSET Frames, pos \in Positions, n \in 0 .. Cardinality(VPages) :
        Cardinality(A) + n <= FewFrames =>
            \A r \in Alloc(A, pos, n) :
                /\ r.pos \in Positions
                /\ r.pfns \in [1 .. n -> Frames \ A]
                /\ \A i, j \in 1 .. n : r.pfns[i] = r.pfns[j] => i = j

VARIABLES
    space,          \* the pgd of each context, NoSpace when the slot is UNUSED
    next_free,      \* mms[RODATA].next_free and mms[DATA].next_free, in pages
    frame,          \* leaf entries: the frame a space maps at each page
    leafW,          \* the pages whose leaf entry has the W bit
    tables,         \* the tables a space has
    tableW,         \* those whose entry has the W bit
    allocated,      \* frames of USER_REG marked in use
    last_free_pos   \* where the next search of USER_REG starts

vars == <<space, next_free, frame, leafW, tables, tableW, allocated, last_free_pos>>
ptVars == <<frame, leafW, tables, tableW>>

Live(p)      == space[p] # NoSpace
Mapped(s)    == {v \in VPages : frame[s][v] # NoFrame}
MappedTo(s)  == {frame[s][v] : v \in Mapped(s)}
UsedSpaces   == {space[p] : p \in {q \in Contexts : Live(q)}}

\* The order in which the loops of exec_init() and copy_mm() meet the pages.
SegNo        == [seg \in Segs |-> CASE seg = "CODE" -> 0 [] seg = "RODATA" -> 1
                                   [] seg = "DATA" -> 2 [] seg = "STACK" -> 3]
Before(u, v) == \/ SegNo[u[1]] < SegNo[v[1]]
                \/ u[1] = v[1] /\ u[2] < v[2]

\* Frame pfns[i] for the i-th page of P.
Assign(P, pfns) == [v \in P |-> pfns[1 + Cardinality({u \in P : Before(u, v)})]]

\* n calls of os_pfn_alloc(USER_REG), with result r.
take(n, r) ==
    /\ r \in Alloc(allocated, last_free_pos, n)
    /\ allocated' = allocated \union {r.pfns[i] : i \in 1 .. n}
    /\ last_free_pos' = r.pos

\* A bound of the model, no test of the code: frames are taken only while those
\* for the next launch are left, so the runs stay clear of the words without a
\* clear bit from which get_free_page() hands out a frame in use (FewHolders of
\* PageAlloc) and of the frame 0 of an exhausted region, which no caller checks.
LaunchFrames == SegPages["CODE"] + 2
ASSUME FewAssumption == /\ IsFiniteSet(Frames)
                        /\ FewFrames \in Nat /\ LaunchFrames <= FewFrames
Headroom(n)  == Cardinality(allocated) + n + LaunchFrames <= FewFrames

-----------------------------------------------------------------------------
(* Page faults.                                                            *)

\* What the hardware allows without a fault.
HwAllows(s, v, write) ==
    /\ frame[s][v] # NoFrame
    /\ write => v \in leafW[s] /\ Table(v) \in tableW[s]

\* A fault in RODATA is resolved whatever the access was.
Bug_Resolvable(p, v, write) ==
    \/ v[1] \in {"DATA", "RODATA"} /\ v[2] < next_free[p][v[1]]
    \/ v[1] = "STACK" /\ v[2] > 0

\* The segment checks of do_page_fault(): DATA and RODATA below next_free,
\* RODATA only for reads, STACK below its next_free, which stays one page
\* under the top.
Resolvable(p, v, write) ==
    \/ v[1] = "DATA" /\ v[2] < next_free[p]["DATA"]
    \/ v[1] = "RODATA" /\ v[2] < next_free[p]["RODATA"] /\ ~write
    \/ v[1] = "STACK" /\ v[2] > 0

\* install_page_table(): the W bit of the new leaf, and of the entry for a
\* table that is missing, is the W bit of the error code.
install_page_table(s, v, write, f) ==
    /\ frame' = [frame EXCEPT ![s][v] = f]
    /\ leafW' = [leafW EXCEPT ![s] = IF write THEN @ \union {v} ELSE @ \ {v}]
    /\ tables' = [tables EXCEPT ![s] = @ \union {Table(v)}]
    /\ tableW' = [tableW EXCEPT ![s] =
                     IF write /\ Table(v) \notin tables[s] THEN @ \union {Table(v)} ELSE @]

\* do_page_fault() on a page that is not present and that a segment covers.
page_fault(p, v, write) ==
    /\ Live(p)
    /\ frame[space[p]][v] = NoFrame
    /\ Resolvable(p, v, write)
    /\ Headroom(1)
    /\ \E r \in Alloc(allocated, last_free_pos, 1) :
          take(1, r) /\ install_page_table(space[p], v, write, r.pfns[1])
    /\ UNCHANGED <<space, next_free>>

-----------------------------------------------------------------------------
(* expand() and shrink().                                                  *)

\* do_expand(): refused when the segment has no room.
do_expand(p, seg, n) ==
    /\ Live(p) /\ next_free[p][seg] + n < SegPages[seg]
    /\ next_free' = [next_free EXCEPT ![p][seg] = @ + n]
    /\ UNCHANGED <<space, ptVars, allocated, last_free_pos>>

\* The frames are freed but the entries stay.
Bug_unmap_user(s, P) ==
    /\ allocated' = allocated \ {frame[s][v] : v \in P}
    /\ frame' = frame
    /\ leafW' = leafW

\* do_unmap_user() for the pages of P that are mapped.
unmap_user(s, P) ==
    /\ allocated' = allocated \ {frame[s][v] : v \in P}
    /\ frame' = [frame EXCEPT ![s] =
                    [v \in VPages |-> IF v \in P THEN NoFrame ELSE @[v]]]
    /\ leafW' = [leafW EXCEPT ![s] = @ \ P]

\* A request for more pages than the segment has is not refused.
Bug_CanShrink(p, seg, n) == next_free[p][seg] > 0

CanShrink(p, seg, n) == next_free[p][seg] - n >= 0

\* do_shrink(): the pages given back are unmapped in the space of p only.
do_shrink(p, seg, n) ==
    /\ Live(p) /\ CanShrink(p, seg, n)
    /\ next_free' = [next_free EXCEPT ![p][seg] = @ - n]
    /\ LET left == next_free[p][seg] - n
           P    == {v \in Mapped(space[p]) : v[1] = seg /\ v[2] \in left .. left + n - 1}
       IN  unmap_user(space[p], P)
    /\ UNCHANGED <<space, tables, tableW, last_free_pos>>

-----------------------------------------------------------------------------
(* fork(), clone(), exit and launch.                                       *)

FreeSpace(s) == s \in Spaces \ UsedSpaces

\* DATA is shared with the child as CODE and RODATA are.
Bug_SharedPages(p) ==
    {v \in Mapped(space[p]) : \/ v[1] \in {"CODE", "DATA"}
                              \/ v[1] = "RODATA" /\ v[2] < next_free[p]["RODATA"]}

\* Pages copy_mm() maps to the frame of the parent.
SharedPages(p) ==
    {v \in Mapped(space[p]) : \/ v[1] = "CODE"
                              \/ v[1] = "RODATA" /\ v[2] < next_free[p]["RODATA"]}

\* Pages copy_mm() gives the child a copy of: DATA below next_free, and of the
\* stack only what lies above a next_free that never moves, the top page.
CopiedPages(p) ==
    {v \in Mapped(space[p]) : \/ v[1] = "DATA" /\ v[2] < next_free[p]["DATA"]
                              \/ v[1] = "STACK" /\ v[2] = 0} \ SharedPages(p)

\* The page tables of a space built with install_ptable(): entries for tables
\* have the W bit, leaves the one of the segment's access_flags.
install_ptable(s, f) ==
    LET P == {v \in VPages : f[v] # NoFrame}
    IN  /\ frame' = [frame EXCEPT ![s] = f]
        /\ leafW' = [leafW EXCEPT ![s] = P \intersect Writable]
        /\ tables' = [tables EXCEPT ![s] = {Table(v) : v \in P}]
        /\ tableW' = [tableW EXCEPT ![s] = {Table(v) : v \in P}]

\* do_fork() into slot q, with copy_mm().
do_fork(p, q) ==
    /\ CanFork /\ Live(p) /\ ~Live(q)
    /\ LET n == Cardinality(CopiedPages(p))
       IN  /\ Headroom(n)
           /\ \E s \in Spaces, r \in Alloc(allocated, last_free_pos, n) :
                 LET new == Assign(CopiedPages(p), r.pfns)
                 IN  /\ FreeSpace(s)
                     /\ take(n, r)
                     /\ space' = [space EXCEPT ![q] = s]
                     /\ install_ptable(s, [v \in VPages |->
                            IF v \in SharedPages(p) THEN frame[space[p]][v]
                            ELSE IF v \in CopiedPages(p) THEN new[v] ELSE NoFrame])
    /\ next_free' = [next_free EXCEPT ![q] = next_free[p]]

\* get_new_ctx() finds no UNUSED slot and returns NULL; do_fork() and do_clone()
\* go on with the context at address 0.
AtLimit == \A q \in Contexts : Live(q)

\* do_fork() at the limit: the copies of DATA and STACK are mapped by page tables
\* that belong to no process.  do_clone() at the limit takes no user frame.
do_fork_at_limit(p) ==
    /\ CanFork /\ Live(p) /\ AtLimit
    /\ LET n == Cardinality(CopiedPages(p))
       IN  Headroom(n) /\ \E r \in Alloc(allocated, last_free_pos, n) : take(n, r)
    /\ UNCHANGED <<space, next_free, ptVars>>

\* do_clone() into slot q: the pgd is shared, the segments are copied.
do_clone(p, q) ==
    /\ Live(p) /\ ~Live(q)
    /\ space' = [space EXCEPT ![q] = space[p]]
    /\ next_free' = [next_free EXCEPT ![q] = next_free[p]]
    /\ UNCHANGED <<ptVars, allocated, last_free_pos>>

\* The loop over the entries of a table starts at 1 at every level.
Bug_pt_cleanup(s) == {frame[s][v] : v \in {u \in Mapped(s) : u[2] > 0}}

\* The USER frames pt_cleanup() frees.
pt_cleanup(s) == MappedTo(s)

\* do_exit() of p: the user pages are only freed by the last context, through
\* do_cleanup() and pt_cleanup(), and only those its own space maps.  Nothing
\* refers to the tables of a space without contexts any more; its identity is
\* used again.
do_exit(p) ==
    /\ Live(p)
    /\ space' = [space EXCEPT ![p] = NoSpace]
    /\ allocated' = IF \E q \in Contexts \ {p} : Live(q) THEN allocated
                    ELSE allocated \ pt_cleanup(space[p])
    /\ IF \E q \in Contexts \ {p} : space[q] = space[p] THEN UNCHANGED ptVars
       ELSE install_ptable(space[p], [v \in VPages |-> NoFrame])
    /\ UNCHANGED <<next_free, last_free_pos>>

\* The pages install_ptable_multi() maps, without the W bit (write is 0); the
\* program image is copied to them, so they are the whole of CODE.
CodePages == {v \in VPages : v[1] = "CODE"}

\* create_context() and exec_init() from the shell: the code pages, the first
\* page of DATA and the top page of STACK are mapped.
launch(p) ==
    /\ \A q \in Contexts : ~Live(q)
    /\ \E s \in Spaces, r \in Alloc(allocated, last_free_pos, LaunchFrames) :
          LET P   == CodePages \union {<<"DATA", 0>>, <<"STACK", 0>>}
              new == Assign(P, r.pfns)
          IN  /\ take(LaunchFrames, r)
              /\ space' = [space EXCEPT ![p] = s]
              /\ install_ptable(s, [v \in VPages |-> IF v \in P THEN new[v] ELSE NoFrame])
    /\ next_free' = [next_free EXCEPT ![p] = [seg \in Growable |-> IF seg = "DATA" THEN 1 ELSE 0]]

Init ==
    /\ space = [p \in Contexts |-> NoSpace]
    /\ next_free = [p \in Contexts |-> [seg \in Growable |-> 0]]
    /\ frame = [s \in Spaces |-> [v \in VPages |-> NoFrame]]
    /\ leafW = [s \in Spaces |-> {}]
    /\ tables = [s \in Spaces |-> {}]
    /\ tableW = [s \in Spaces |-> {}]
    /\ allocated = {}
    /\ last_free_pos \in Positions
    /\ \A pos \in Positions : last_free_pos <= pos

Next ==
    \E p \in Contexts :
        \/ launch(p)
        \/ \E v \in VPages, write \in BOOLEAN : page_fault(p, v, write)
        \/ \E seg \in Growable, n \in ExpandPages : do_expand(p, seg, n)
        \/ \E seg \in ShrinkSegs, n \in ExpandPages : do_shrink(p, seg, n)
        \/ \E q \in Contexts : do_fork(p, q)
        \/ do_fork_at_limit(p)
        \/ \E q \in Contexts : do_clone(p, q)
        \/ do_exit(p)

Spec == Init /\ [][Next]_vars

-----------------------------------------------------------------------------
(* Properties.                                                             *)

\* Every variable has its type; no segment shrinks below its start.
TypeOK ==
    /\ space \in [Contexts -> Spaces \union {NoSpace}]
    /\ next_free \in [Contexts -> [Growable -> Nat]]
    /\ frame \in [Spaces -> [VPages -> Frames \union {NoFrame}]]
    /\ leafW \in [Spaces -> SUBSET VPages]
    /\ tables \in [Spaces -> SUBSET Tables]
    /\ tableW \in [Spaces -> SUBSET Tables]
    /\ allocated \subseteq Frames
    /\ last_free_pos \in Positions

\* "CODE and RODATA are shared now": every page a live space maps is backed by
\* a frame the allocator has not been given back, whoever shrank or ended.
NoDangling == \A s \in UsedSpaces : MappedTo(s) \subseteq allocated

\* A frame behind a DATA or STACK page is mapped nowhere else, in no other live
\* space and at no other page, through any sequence of forks and faults.
PrivateIsPrivate ==
    \A s, t \in UsedSpaces : \A u \in Mapped(s) \intersect Writable, v \in Mapped(t) :
        frame[s][u] = frame[t][v] => s = t /\ u = v

\* No access lets a process write to a CODE or RODATA page, although fork()
\* gives the child tables whose entries have the W bit.
ReadOnlyStays ==
    \A s \in UsedSpaces : \A v \in VPages \ Writable : ~HwAllows(s, v, TRUE)

\* "cleanup of this process": when every process has ended and the shell is
\* back, no user frame is in use.
NoLeak == UsedSpaces = {} => allocated = {}

\* "BUG! PFN not in sequence": exec_init() copies the program to consecutive
\* frames from that of the first code page, so the frames of CODE must be in
\* sequence wherever earlier programs left the search.
CodeInSequence ==
    \A s \in UsedSpaces : \A u, v \in CodePages :
        frame[s][u] - u[2] = frame[s][v] - v[2]

\* Only two things lose frames for ever: a process ends whose space no other
\* context shares while some other process lives; and a fork with every slot in
\* use, which loses one frame for each page it copies.  No order of faults,
\* shrinks, other forks and exits of threads adds to the frames in use that no
\* live space maps.
Orphans == allocated \ UNION {MappedTo(s) : s \in UsedSpaces}
EndsAlone(p) == /\ Live(p) /\ space'[p] = NoSpace
                /\ \A q \in Contexts \ {p} : space[q] # space[p]
                /\ \E q \in Contexts \ {p} : Live(q)
CopiesForNobody(p) ==
    /\ CanFork /\ Live(p) /\ AtLimit /\ UNCHANGED <<space, next_free, ptVars>>
    /\ Cardinality(allocated' \ allocated) = Cardinality(CopiedPages(p))
    /\ Orphans' \ Orphans \subseteq allocated' \ allocated
Loss == \/ Orphans' \subseteq Orphans
        \/ \E p \in Contexts : EndsAlone(p) \/ CopiesForNobody(p)
NoOtherLoss == [][Loss]_vars
=============================================================================
