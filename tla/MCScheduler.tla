---------------------------- MODULE MCScheduler ----------------------------
(* Instances of Scheduler for TLC.                                         *)
EXTENDS Scheduler

\* The allocator returns the lowest frame that is not in use.
FirstFree(A) == LET free == Frames \ A
                IN  {f \in free : \A g \in free : f <= g}
=============================================================================
