--------------------------- MODULE PickLoopProofs ---------------------------
(***************************************************************************)
(* The loop of pick_next_context() returns what PickNext says it returns,  *)
(* for every size of the context table, every table and every caller.      *)
(***************************************************************************)
EXTENDS PickLoop, PickNextProofs

\* The slots the loop has already left behind: those that the scan meets
\* before pid, or all of them once pid has been set to 0.
Passed == {q \in Slots : pid = 0 \/ ScanPos(ctx, q) < ScanPos(ctx, pid)}

\* While it loops, nothing that it passed is READY.  When it returns, it
\* returns a READY slot that it met before any other one, or the swapper.
LoopInv ==
    /\ ctx \in Pids
    /\ pid \in Pids
    /\ result \in Pids \union {Looping}
    /\ result = Looping => Passed \intersect Ready(st) = {}
    /\ result = 0 => Ready(st) = {}
    /\ result \in Slots => /\ result \in Ready(st)
                           /\ \A r \in Ready(st) : ScanPos(ctx, result) <= ScanPos(ctx, r)

\* Two slots at the same distance are the same slot.
LEMMA ScanPosInjective ==
    ASSUME NEW c \in Pids, NEW p \in Slots, NEW q \in Slots,
           ScanPos(c, p) = ScanPos(c, q)
    PROVE  p = q
BY MaxAssumption DEF ScanPos, Pids, Slots

\* The scan starts at the slot it meets first.
LEMMA FirstPid ==
    ASSUME NEW c \in Pids
    PROVE  first_pid(c) \in Slots /\ ScanPos(c, first_pid(c)) = 0
BY MaxAssumption DEF first_pid, ScanPos, Pids, Slots

\* A slot that is returned, being READY and met before the other READY ones,
\* is the one pick_next_context() is defined to return.
LEMMA NearestIsPicked ==
    ASSUME NEW t, NEW c \in Pids, NEW q \in Ready(t),
           \A r \in Ready(t) : ScanPos(c, q) <= ScanPos(c, r)
    PROVE  q = pick_next_context(t, c)
<1> DEFINE p == pick_next_context(t, c)
<1>1. p \in Ready(t) /\ \A r \in Ready(t) : ScanPos(c, p) <= ScanPos(c, r)
  BY PickNext
<1>2. p \in Slots /\ q \in Slots
  BY <1>1 DEF Ready
<1>3. ScanPos(c, p) \in Nat /\ ScanPos(c, q) \in Nat
  BY <1>2, ScanPosNat
<1>4. ScanPos(c, p) = ScanPos(c, q)
  BY <1>1, <1>3
<1> QED
  BY <1>2, <1>4, ScanPosInjective

\* Where an iteration goes from slot p: to the swapper when p is the last slot
\* the scan meets, and else to the slot it meets next.
LEMMA NextSlot ==
    ASSUME NEW c \in Pids, NEW p \in Slots
    PROVE  LET n == IF end_of_scan(c, p + 1) THEN 0 ELSE p + 1
               m == IF n = MAX_PROCESSES THEN 1 ELSE n
           IN  /\ m \in Pids
               /\ (m = 0 \/ wraps_out(c, n)) =>
                     \A q \in Slots : ScanPos(c, q) <= ScanPos(c, p)
               /\ ~(m = 0 \/ wraps_out(c, n)) =>
                     \A q \in Slots : ScanPos(c, q) < ScanPos(c, m) =>
                                      ScanPos(c, q) <= ScanPos(c, p)
BY MaxAssumption DEF end_of_scan, wraps_out, ScanPos, Pids, Slots

LEMMA LoopInit == Init => LoopInv
<1> SUFFICES ASSUME Init PROVE LoopInv
  OBVIOUS
<1>1. ctx \in Pids /\ pid \in Slots /\ ScanPos(ctx, pid) = 0 /\ result = Looping
  BY FirstPid DEF Init
<1>2. \A q \in Slots : ScanPos(ctx, q) \in Nat
  BY <1>1, ScanPosNat
<1>3. pid # 0 /\ \A q \in Slots : ~(ScanPos(ctx, q) < 0)
  BY <1>1, <1>2, SlotFacts
<1>4. Passed = {}
  BY <1>1, <1>3 DEF Passed
<1> QED
  BY <1>1, <1>4, SlotFacts DEF LoopInv, Looping

LEMMA LoopStep == LoopInv /\ [Next]_vars => LoopInv'
<1> SUFFICES ASSUME LoopInv, [Next]_vars PROVE LoopInv'
  OBVIOUS
<1> USE DEF LoopInv
<1>1. CASE Found
  <2>1. pid \in Slots /\ pid \in Ready(st) /\ result' = pid /\ UNCHANGED <<st, ctx, pid>>
    BY <1>1, SlotFacts DEF Found, Ready
  <2>2. ASSUME NEW r \in Ready(st) PROVE ScanPos(ctx, pid) <= ScanPos(ctx, r)
    <3>1. r \notin Passed
      BY <1>1, <2>2 DEF Found
    <3>2. r \in Slots
      BY <2>2 DEF Ready
    <3>3. ScanPos(ctx, r) \in Nat /\ ScanPos(ctx, pid) \in Nat
      BY <2>1, <3>2, ScanPosNat
    <3> QED
      BY <3>1, <3>2, <3>3 DEF Passed
  <2> QED
    BY <2>1, <2>2, SlotFacts DEF Looping
<1>2. CASE Advance
  <2> DEFINE n == IF end_of_scan(ctx, pid + 1) THEN 0 ELSE pid + 1
             m == IF n = MAX_PROCESSES THEN 1 ELSE n
  <2>1. /\ pid \in Slots /\ result = Looping /\ st[pid] # "READY"
        /\ UNCHANGED <<st, ctx>>
        /\ pid' = m /\ result' = IF wraps_out(ctx, n) THEN 0 ELSE Looping
    BY <1>2, SlotFacts DEF Advance
  <2>2. m \in Pids
    BY <2>1, NextSlot
  <2>3. ASSUME NEW r \in Slots, ScanPos(ctx, r) <= ScanPos(ctx, pid)
        PROVE  r \notin Ready(st)
    <3>1. ScanPos(ctx, r) \in Nat /\ ScanPos(ctx, pid) \in Nat
      BY <2>1, <2>3, ScanPosNat
    <3>2. CASE ScanPos(ctx, r) = ScanPos(ctx, pid)
      BY <2>1, <2>3, <3>2, ScanPosInjective DEF Ready
    <3>3. CASE ScanPos(ctx, r) < ScanPos(ctx, pid)
      BY <2>1, <2>3, <3>3 DEF Passed
    <3> QED
      BY <3>1, <2>3, <3>2, <3>3
  <2>4. CASE m = 0 \/ wraps_out(ctx, n)
    <3>1. \A r \in Slots : r \notin Ready(st)
      BY <2>1, <2>3, <2>4, NextSlot
    <3>2. Ready(st) = {}
      BY <3>1 DEF Ready
    <3> QED
      BY <2>1, <2>2, <3>2, SlotFacts DEF Looping
  <2>5. CASE ~(m = 0 \/ wraps_out(ctx, n))
    <3>1. \A r \in Slots : ScanPos(ctx, r) < ScanPos(ctx, m) => r \notin Ready(st)
      BY <2>1, <2>3, <2>5, NextSlot
    <3>2. Passed' \intersect Ready(st) = {}
      BY <2>1, <2>5, <3>1 DEF Passed
    <3> QED
      BY <2>1, <2>2, <2>5, <3>2, SlotFacts DEF Looping
  <2> QED
    BY <2>4, <2>5
<1>3. CASE Exhausted
  <2>1. Ready(st) = {}
    BY <1>3 DEF Exhausted, Passed, Ready
  <2> QED
    BY <1>3, <2>1, SlotFacts DEF Exhausted, Looping
<1>4. CASE UNCHANGED vars
  BY <1>4 DEF vars, Passed
<1> QED
  BY <1>1, <1>2, <1>3, <1>4 DEF Next

LEMMA LoopSpec == Spec => []LoopInv
<1>1. Init => LoopInv
  BY LoopInit
<1>2. LoopInv /\ [Next]_vars => LoopInv'
  BY LoopStep
<1> QED
  BY <1>1, <1>2, PTL DEF Spec

\* get_ctx_by_pid() is only ever called with a slot of the table, whatever the
\* size of the table and whoever calls pick_next_context().
THEOREM LoopStaysInTable == Spec => []InTable
<1>1. LoopInv => InTable
  BY DEF LoopInv, InTable
<1> QED
  BY <1>1, LoopSpec, PTL

\* The loop with its three tests on pid returns the READY slot nearest after
\* the caller, the caller last, and the swapper only when no slot is READY.
THEOREM LoopPicksNearest == Spec => []PickIsNearest
<1>1. ASSUME LoopInv PROVE PickIsNearest
  <2> SUFFICES ASSUME result # Looping PROVE result = pick_next_context(st, ctx)
    BY DEF PickIsNearest
  <2>1. CASE result = 0
    BY <1>1, <2>1 DEF LoopInv, pick_next_context
  <2>2. CASE result \in Slots
    BY <1>1, <2>2, NearestIsPicked DEF LoopInv
  <2> QED
    BY <1>1, <2>1, <2>2, SlotFacts DEF LoopInv
<1> QED
  BY <1>1, LoopSpec, PTL

\* The slot an iteration goes to is one further in the scan.
LEMMA OneFurther ==
    ASSUME NEW c \in Pids, NEW p \in Slots
    PROVE  LET n == IF end_of_scan(c, p + 1) THEN 0 ELSE p + 1
               m == IF n = MAX_PROCESSES THEN 1 ELSE n
           IN  ~(m = 0 \/ wraps_out(c, n)) => ScanPos(c, m) = ScanPos(c, p) + 1
BY MaxAssumption DEF end_of_scan, wraps_out, ScanPos, Pids, Slots

\* No slot is looked at twice in a call, for every size of the table: each
\* iteration is one further in a scan of MAX_PROCESSES - 1 slots, which is why
\* the loop ends.
THEOREM LoopAdvances == Spec => ScanAdvances
<1>1. LoopInv /\ [Next]_vars =>
         [result' = Looping /\ pid' # 0 => ScanPos(ctx, pid') = ScanPos(ctx, pid) + 1]_vars
  <2> SUFFICES ASSUME LoopInv, Next, result' = Looping, pid' # 0
               PROVE  ScanPos(ctx, pid') = ScanPos(ctx, pid) + 1
    OBVIOUS
  <2>1. ctx \in Pids /\ pid \in Pids
    BY DEF LoopInv
  <2>2. Advance
    BY <2>1, SlotFacts DEF Next, Found, Exhausted, Looping, Pids
  <2> DEFINE n == IF end_of_scan(ctx, pid + 1) THEN 0 ELSE pid + 1
             m == IF n = MAX_PROCESSES THEN 1 ELSE n
  <2>3. pid \in Slots /\ pid' = m /\ result' = IF wraps_out(ctx, n) THEN 0 ELSE Looping
    BY <2>1, <2>2, SlotFacts DEF Advance
  <2>4. m # 0 /\ ~wraps_out(ctx, n)
    BY <2>3 DEF Looping
  <2>5. ScanPos(ctx, m) = ScanPos(ctx, pid) + 1
    BY <2>1, <2>3, <2>4, OneFurther
  <2> QED
    BY <2>3, <2>5
<1> QED
  BY <1>1, LoopSpec, PTL DEF Spec, ScanAdvances
=============================================================================
