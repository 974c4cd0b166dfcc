--------------------------- MODULE PickNextProofs ---------------------------
(***************************************************************************)
(* Lemmas about the scan order of pick_next_context() and the slot it      *)
(* returns, for every size of the context table, shared by the proofs of   *)
(* the modules that pick a context.                                        *)
(***************************************************************************)
EXTENDS PickNext, TLAPS, WellFoundedInduction

\* Slots and pids are naturals, and the swapper is no slot.
LEMMA SlotFacts == /\ Slots \subseteq Pids
                   /\ 0 \in Pids
                   /\ 0 \notin Slots
                   /\ Pids \subseteq Nat
                   /\ \A p \in Pids : p = 0 \/ p \in Slots
BY MaxAssumption DEF Pids, Slots

\* A nonempty set of naturals has a least element.
LEMMA NatMin == ASSUME NEW S, S \subseteq Nat, S # {}
                PROVE  \E m \in S : \A k \in S : m <= k
<1>1. IsWellFoundedOn(OpToRel(<, Nat), Nat)
  BY NatLessThanWellFounded
<1>2. PICK m \in S : \A k \in S : ~(<<k, m>> \in OpToRel(<, Nat))
  BY <1>1, WFMin
<1>3. \A k \in S : ~(k < m)
  BY <1>2 DEF OpToRel
<1> QED
  BY <1>3

\* The scan meets every slot after a nonnegative number of steps.
LEMMA ScanPosNat == ASSUME NEW p \in Pids, NEW q \in Slots
                    PROVE  ScanPos(p, q) \in Nat
BY MaxAssumption DEF ScanPos, Pids, Slots

\* pick_next_context returns the READY slot the scan meets first, and the
\* swapper exactly when no slot is READY.
LEMMA PickNext ==
    ASSUME NEW st, NEW p \in Pids
    PROVE  LET q == pick_next_context(st, p) IN
           /\ q \in Pids
           /\ q = 0 <=> Ready(st) = {}
           /\ q # 0 => /\ q \in Ready(st)
                       /\ \A r \in Ready(st) : ScanPos(p, q) <= ScanPos(p, r)
<1>1. CASE Ready(st) = {}
  BY <1>1, SlotFacts DEF pick_next_context
<1>2. CASE Ready(st) # {}
  <2> DEFINE S == {ScanPos(p, r) : r \in Ready(st)}
  <2>1. S \subseteq Nat
    BY ScanPosNat DEF Ready
  <2>2. S # {}
    BY <1>2
  <2>3. PICK m \in S : \A k \in S : m <= k
    BY <2>1, <2>2, NatMin
  <2>4. PICK q0 \in Ready(st) : m = ScanPos(p, q0)
    BY <2>3
  <2>5. \A r \in Ready(st) : ScanPos(p, q0) <= ScanPos(p, r)
    BY <2>3, <2>4
  <2>6. /\ pick_next_context(st, p) \in Ready(st)
        /\ \A r \in Ready(st) : ScanPos(p, pick_next_context(st, p)) <= ScanPos(p, r)
    BY <1>2, <2>4, <2>5 DEF pick_next_context
  <2> QED
    BY <2>6, <1>2, SlotFacts DEF Ready
<1> QED
  BY <1>1, <1>2

\* Whoever is met before p when the scan starts at c is nearer to p than c.
LEMMA ScanNearer ==
    ASSUME NEW c \in Pids, NEW q \in Slots, NEW p \in Slots,
           q # p, q # c, p # c, ScanPos(c, q) <= ScanPos(c, p)
    PROVE  ScanPos(q, p) < ScanPos(c, p)
BY MaxAssumption DEF ScanPos, Pids, Slots

\* A switch to the context picked from a table in which p is READY.
LEMMA PickNearer ==
    ASSUME NEW c \in Pids, NEW st, NEW p \in Slots, st[p] = "READY", p # c,
           pick_next_context(st, c) # p, pick_next_context(st, c) # c
    PROVE  ScanPos(pick_next_context(st, c), p) < ScanPos(c, p)
<1> DEFINE q == pick_next_context(st, c)
<1>1. p \in Ready(st)
  BY DEF Ready
<1>2. q \in Ready(st) /\ ScanPos(c, q) <= ScanPos(c, p)
  BY <1>1, PickNext
<1>3. q \in Slots
  BY <1>2 DEF Ready
<1> QED
  BY <1>2, <1>3, ScanNearer
=============================================================================
