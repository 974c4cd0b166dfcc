------------------------------ MODULE PickNext ------------------------------
(***************************************************************************)
(* The choice pick_next_context() of schedule.c makes, defined by the order *)
(* in which its loop meets the slots of the context table.  PickLoop checks *)
(* the loop itself against it.                                             *)
(***************************************************************************)
EXTENDS Integers

CONSTANT MAX_PROCESSES  \* slots of the context table, swapper included

ASSUME MaxAssumption == MAX_PROCESSES \in Nat /\ MAX_PROCESSES >= 2

Pids  == 0 .. MAX_PROCESSES - 1
Slots == 1 .. MAX_PROCESSES - 1    \* slot 0 is the swapper

\* How many slots pick_next_context looks at before slot q when it is called
\* for context p: it starts at p + 1, wraps from the last slot to slot 1 and
\* looks at p itself last.
ScanPos(p, q) == IF q > p THEN q - p - 1 ELSE q - p - 1 + (MAX_PROCESSES - 1)

Ready(st) == {q \in Slots : st[q] = "READY"}

\* The scan restarts at slot 1 on every call.
Bug_pick_lowest_slot(st, p) ==
    IF Ready(st) = {} THEN 0
    ELSE CHOOSE q \in Ready(st) : \A r \in Ready(st) : q <= r

\* The first READY slot in scan order, the swapper when there is none.
pick_next_context(st, p) ==
    IF Ready(st) = {} THEN 0
    ELSE CHOOSE q \in Ready(st) : \A r \in Ready(st) : ScanPos(p, q) <= ScanPos(p, r)
=============================================================================
