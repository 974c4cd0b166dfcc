------------------------------ MODULE PickLoop ------------------------------
(***************************************************************************)
(* The loop of pick_next_context(), one iteration a step, for every context *)
(* table and every calling context.  The loop has two ways out besides     *)
(* finding a READY slot and three tests on pid in a row, and it must look  *)
(* at every slot once, at the caller last and at the swapper never.        *)
(***************************************************************************)
EXTENDS PickNext

VARIABLES st,       \* states of the contexts, which the loop only reads
          ctx,      \* the calling context
          pid,      \* the loop variable
          result    \* the pid returned, or Looping

vars == <<st, ctx, pid, result>>

Looping == -1

\* The increment is not wrapped.
Bug_first_pid(c) == c + 1

\* The initialiser of pid.
first_pid(c) == IF c + 1 = MAX_PROCESSES THEN 1 ELSE c + 1

\* The scan ends when it is back at the caller, without looking at it.
Bug_end_of_scan(c, n) == n = c

\* The test that sets pid to 0 after the increment to n.
end_of_scan(c, n) == n = c + 1

\* The swapper is not told apart when the scan wraps.
Bug_wraps_out(c, n) == FALSE

\* The break at the end of the table when the swapper is the caller.
wraps_out(c, n) == n = MAX_PROCESSES /\ c = 0

Init ==
    /\ st \in [Pids -> {"UNUSED", "READY", "WAITING"}]
    /\ ctx \in Pids
    /\ pid = first_pid(ctx)
    /\ result = Looping

\* Returning a READY context.
Found ==
    /\ result = Looping /\ pid # 0
    /\ st[pid] = "READY"
    /\ result' = pid
    /\ UNCHANGED <<st, ctx, pid>>

\* Moving on to the next slot, or leaving the loop for the swapper.
Advance ==
    /\ result = Looping /\ pid # 0
    /\ st[pid] # "READY"
    /\ LET n == IF end_of_scan(ctx, pid + 1) THEN 0 ELSE pid + 1
       IN  /\ pid' = IF n = MAX_PROCESSES THEN 1 ELSE n
           /\ result' = IF wraps_out(ctx, n) THEN 0 ELSE Looping
    /\ UNCHANGED <<st, ctx>>

\* The loop condition fails.
Exhausted ==
    /\ result = Looping /\ pid = 0
    /\ result' = 0
    /\ UNCHANGED <<st, ctx, pid>>

Next == Found \/ Advance \/ Exhausted

Spec == Init /\ [][Next]_vars /\ WF_vars(Next)

-----------------------------------------------------------------------------
\* The loop never leaves the table: get_ctx_by_pid() returns no NULL.
InTable == pid \in Pids

\* The loop returns the READY slot nearest after the caller, the caller itself
\* only when it is the one READY context, and the swapper only when no slot is.
PickIsNearest == result # Looping => result = pick_next_context(st, ctx)

\* Every iteration that goes on to another slot goes to the one the scan meets
\* next: none is looked at twice, however the wrap, the increment and the end
\* of the scan fall together, so the loop takes at most MAX_PROCESSES - 1
\* iterations.
ScanAdvances ==
    [][result' = Looping /\ pid' # 0 => ScanPos(ctx, pid') = ScanPos(ctx, pid) + 1]_vars

\* The loop ends, also with no READY context and whoever calls.
PickEnds == <>(result # Looping)
=============================================================================
