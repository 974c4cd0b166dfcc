------------------------------ MODULE Dispatch ------------------------------
(***************************************************************************)
(* Who runs, as seen from above: the states of the contexts, the one that  *)
(* has the CPU and the handlers they registered.  Time, memory and the CPU *)
(* registers of Scheduler are gone: a tick may wake any of those that      *)
(* sleep.  Scheduler is shown to implement this module and ContextSwitch   *)
(* adds the user registers to it, so that what ContextSwitch says of them  *)
(* holds for all sleep and alarm times and all states of the allocator.    *)
(***************************************************************************)
EXTENDS PickNext

CONSTANT HandledSigs    \* signals user programs register handlers for

VARIABLES
    state,              \* exec_context.state of every slot
    current,            \* the pid current points to, or NoCtx
    sighandlers         \* the signals with a handler, for every slot

dvars == <<state, current, sighandlers>>

NoCtx      == -1
Live(p)    == state[p] # "UNUSED"
Waiting    == {p \in Pids : state[p] = "WAITING"}
UserRuns   == current \in Slots
OthersLive == \E p \in Slots \ {current} : Live(p)

\* The first slot that is free.
NewSlot(p) == p \in Pids /\ ~Live(p) /\ \A q \in Pids : q < p => Live(q)

-----------------------------------------------------------------------------
\* The CPU goes to the context that pick_next_context() finds in table st.
give_cpu(st) ==
    LET q == pick_next_context(st, current)
    IN  current' = q /\ state' = [st EXCEPT ![q] = "RUNNING"]

\* A tick wakes those in W and moves on.  When it finds nobody else the
\* running context stays, and stays READY.
tick(W) ==
    /\ current # NoCtx
    /\ LET st == [p \in Pids |-> IF p \in W \union {current} THEN "READY" ELSE state[p]]
       IN  IF pick_next_context(st, current) = current
           THEN state' = st /\ UNCHANGED current
           ELSE give_cpu(st)
    /\ UNCHANGED sighandlers

\* sleep().
block ==
    /\ UserRuns
    /\ give_cpu([state EXCEPT ![current] = "WAITING"])
    /\ UNCHANGED sighandlers

\* exit() or a fault: the last context to end gives the CPU to the shell.
finish ==
    /\ UserRuns
    /\ LET st == [state EXCEPT ![current] = "UNUSED"]
       IN  IF OthersLive THEN give_cpu(st) ELSE state' = st /\ current' = NoCtx
    /\ UNCHANGED sighandlers

\* fork() or clone() into slot q.
spawn(q) ==
    /\ UserRuns /\ NewSlot(q)
    /\ state' = [state EXCEPT ![q] = "READY"]
    /\ sighandlers' = [sighandlers EXCEPT ![q] = sighandlers[current]]
    /\ UNCHANGED current

\* signal().
register(sig) ==
    /\ UserRuns
    /\ \/ sighandlers' = [sighandlers EXCEPT ![current] = @ \union {sig}]
       \/ sighandlers' = [sighandlers EXCEPT ![current] = @ \ {sig}]
    /\ UNCHANGED <<state, current>>

\* The shell launches a program; the handlers in its slot stay.
start(q) ==
    /\ current = NoCtx /\ NewSlot(q)
    /\ current' = q
    /\ state' = [state EXCEPT ![q] = "RUNNING"]
    /\ UNCHANGED sighandlers

Init ==
    /\ state = [p \in Pids |-> IF p = 0 THEN "READY" ELSE "UNUSED"]
    /\ current = NoCtx
    /\ sighandlers = [p \in Pids |-> {}]

Next ==
    \/ \E W \in SUBSET Waiting : tick(W)
    \/ block
    \/ finish
    \/ \E q \in Slots : spawn(q) \/ start(q)
    \/ \E sig \in HandledSigs : register(sig)

Spec == Init /\ [][Next]_dvars
=============================================================================
