----------------------------- MODULE Scheduler -----------------------------
(***************************************************************************)
(* The process table and the CPU of gemOS: schedule.c, the system calls   *)
(* and faults of entry.c that create, block or end a context, and the     *)
(* parts of context.c that launch the first process and return to the     *)
(* shell when the last one ends.                                          *)
(*                                                                         *)
(* Every IDT gate is an interrupt gate (idt.h), which clears IF, so that  *)
(* a kernel entry runs to its iretq without another tick:                 *)
(* one action is one kernel entry.  What interleaves is the user code of  *)
(* the processes, the timer and the shell.                                *)
(*                                                                         *)
(* A pgd stands for the whole page-table tree under it and a stack frame  *)
(* for the kernel stack of a context; page contents and the statistics    *)
(* are left out, and the user registers are the subject of ContextSwitch. *)
(***************************************************************************)
EXTENDS PickNext, FiniteSets

CONSTANTS
    Frames,         \* page frames of OS_PT_REG
    BootPgd,        \* frame 0x70, the page table of the shell and swapper
    NoFrame,        \* what a zeroed pgd or os_stack_pfn field holds
    Alloc(_),       \* frames os_pfn_alloc may return, given those in use
    SleepTicks,     \* arguments user programs pass to sleep()
    AlarmTicks,     \* arguments user programs pass to alarm()
    HandledSigs     \* signals user programs register handlers for

NoCtx   == -1                       \* current == NULL
States  == {"UNUSED", "READY", "RUNNING", "WAITING"}
Signals == {"SIGSEGV", "SIGFPE", "SIGALRM"}

ASSUME FrameAssumption  == /\ BootPgd \notin Frames
                           /\ NoFrame \notin Frames
                           /\ NoFrame # BootPgd
ASSUME AllocAssumption  == \A A \in SUBSET Frames : Alloc(A) \subseteq Frames \ A
ASSUME InputAssumption  == /\ SleepTicks \subseteq Nat
                           /\ AlarmTicks \subseteq Nat
                           /\ HandledSigs \subseteq Signals

VARIABLES
    state,              \* exec_context.state of every slot
    ticks_to_sleep,
    ticks_to_alarm,
    alarm_config_time,
    sighandlers,        \* the signals whose sighandlers[] entry is not NULL
    os_stack_pfn,
    pgd,
    current,            \* the pid current points to, or NoCtx
    tss,                \* kernel stack the CPU switches to on the next entry
    cr3,
    allocated           \* frames of OS_PT_REG marked in use

timeVars == <<ticks_to_sleep, ticks_to_alarm, alarm_config_time>>
memVars  == <<os_stack_pfn, pgd>>
vars == <<state, timeVars, sighandlers, memVars, current, tss, cr3, allocated>>

Live(p) == state[p] # "UNUSED"

-----------------------------------------------------------------------------
(* Switching.  Operators named Bug_* are not part of the model: each is a  *)
(* plausible slip in the definition that follows it, and a property of the *)
(* runs is shown to catch it.                                              *)

\* schedule(): kernel stack, current, state and CR3 of the incoming context.
schedule(st, q) ==
    /\ current' = q
    /\ state' = [st EXCEPT ![q] = "RUNNING"]
    /\ tss' = os_stack_pfn[q]
    /\ cr3' = pgd[q]

-----------------------------------------------------------------------------
(* The timer.                                                              *)

\* Only the sleepers in the slots below the running context are counted.
Bug_SleepersBelow ==
    {p \in Pids : state[p] = "WAITING" /\ ticks_to_sleep[p] > 0 /\ p < current}

\* The contexts whose sleep count a tick decrements.
Sleepers == {p \in Pids : state[p] = "WAITING" /\ ticks_to_sleep[p] > 0}

\* The contexts are woken one tick early, with a count that is not yet 0.
Bug_Woken ==
    [p \in Pids |-> IF p \in Sleepers /\ ticks_to_sleep[p] <= 2
                    THEN "READY" ELSE state[p]]

\* The table after the sleepers whose count reaches 0 have been made READY.
Woken == [p \in Pids |-> IF p \in Sleepers /\ ticks_to_sleep[p] = 1
                         THEN "READY" ELSE state[p]]

\* The count is decremented without the test for 0.
Bug_alarm_underflow(t, config) == IF t = 1 THEN config ELSE t - 1

\* The alarm is counted down but not loaded again when it goes off.
Bug_alarm_once(t, config) == IF t > 0 THEN t - 1 ELSE 0

\* Counting down the alarm of the running context; when it reaches 0 SIGALRM
\* is delivered (or ignored) and the configured time is loaded again.
alarm_account(t, config) ==
    IF t = 0 THEN 0 ELSE IF t = 1 THEN config ELSE t - 1

\* do_sleep_and_alarm_account(), with Woken for the states it sets.
do_sleep_and_alarm_account ==
    /\ ticks_to_sleep' = [p \in Pids |-> IF p \in Sleepers
                                         THEN ticks_to_sleep[p] - 1
                                         ELSE ticks_to_sleep[p]]
    /\ ticks_to_alarm' =
          [ticks_to_alarm EXCEPT ![current] = alarm_account(@, alarm_config_time[current])]
    /\ UNCHANGED alarm_config_time

\* The preempted context keeps the state it had.
Bug_preempt(st) == st

\* ctx->state = READY in handle_timer_tick.
preempt(st) == [st EXCEPT ![current] = "READY"]

\* The TSS keeps pointing to the stack of the outgoing context.
Bug_switch_keep_tss(st, q) ==
    IF q = current
    THEN state' = st /\ UNCHANGED <<current, tss, cr3>>
    ELSE /\ current' = q
         /\ state' = [st EXCEPT ![q] = "RUNNING"]
         /\ tss' = tss
         /\ cr3' = IF pgd[current] # pgd[q] THEN pgd[q] ELSE cr3

\* The end of handle_timer_tick: nothing more when the context stays, else
\* the switch; CR3 is only loaded when the two contexts have different pgds.
switch_to(st, q) ==
    IF q = current
    THEN state' = st /\ UNCHANGED <<current, tss, cr3>>
    ELSE /\ current' = q
         /\ state' = [st EXCEPT ![q] = "RUNNING"]
         /\ tss' = os_stack_pfn[q]
         /\ cr3' = IF pgd[current] # pgd[q] THEN pgd[q] ELSE cr3

\* handle_timer_tick(), reached from handle_irq through do_irq; ack_irq()
\* re-arms the one-shot timer on both paths.  The shell runs with interrupts
\* disabled, so there is no tick without a current context.
handle_timer_tick ==
    /\ current # NoCtx
    /\ do_sleep_and_alarm_account
    /\ switch_to(preempt(Woken), pick_next_context(preempt(Woken), current))
    /\ UNCHANGED <<sighandlers, memVars, allocated>>

-----------------------------------------------------------------------------
(* System calls and faults of the running user process.                    *)

UserRuns == current \in Slots

\* A bound of the model: an operation only takes frames when SpareFrames are
\* left afterwards, enough for a launch.  What callers do with the frame 0 that
\* os_pfn_alloc returns for an exhausted region is not modelled.
SpareFrames == 2
Headroom(n) == Cardinality(Frames \ allocated) >= n + SpareFrames

\* do_sleep(ticks): n = 0 is not refused.
do_sleep(n) ==
    /\ UserRuns
    /\ ticks_to_sleep' = [ticks_to_sleep EXCEPT ![current] = n]
    /\ LET st == [state EXCEPT ![current] = "WAITING"]
       IN  schedule(st, pick_next_context(st, current))
    /\ UNCHANGED <<ticks_to_alarm, alarm_config_time, sighandlers, memVars,
                   allocated>>

\* do_cleanup(): the last context frees its kernel stack (again: do_exit has
\* just freed it) and its page tables, and ret_from_user resumes the shell
\* on the boot page table.
do_cleanup ==
    /\ allocated' = allocated \ {os_stack_pfn[current], pgd[current]}
    /\ state' = [state EXCEPT ![current] = "UNUSED"]
    /\ current' = NoCtx
    /\ cr3' = BootPgd
    /\ UNCHANGED tss

\* Any context still able to run, instead of any context in use.
Bug_OthersLive == \E p \in Slots \ {current} : state[p] = "READY"

OthersLive == \E p \in Slots \ {current} : Live(p)

\* The page tables are freed with the first context that uses them.
Bug_ExitFrees == {os_stack_pfn[current], pgd[current]}

\* What do_exit() frees itself: the page tables of a context that is not the
\* last one stay allocated.
ExitFrees == {os_stack_pfn[current]}

\* do_exit(): reached from exit(), from a fault without a handler and from
\* do_gp().
do_exit ==
    /\ \/ /\ OthersLive
          /\ allocated' = allocated \ ExitFrees
          /\ LET st == [state EXCEPT ![current] = "UNUSED"]
             IN  schedule(st, pick_next_context(st, current))
       \/ ~OthersLive /\ do_cleanup
    /\ UNCHANGED <<timeVars, sighandlers, memVars>>

\* SYSCALL_EXIT, or a general protection fault (handle_gp, do_gp).
exit == UserRuns /\ do_exit

\* A division by zero or an access no segment allows; with no handler for the
\* signal invoke_sync_signal() calls do_exit().  Delivery to a handler only
\* changes user registers.
fault(sig) == UserRuns /\ sig \notin sighandlers[current] /\ do_exit

\* The free slots, in the order get_new_ctx() looks at them.
get_new_ctx(p) == /\ p \in Pids /\ ~Live(p)
                  /\ \A q \in Pids : q < p => Live(q)

AtLimit == \A p \in Pids : Live(p)

setup_child_context(p, stk) ==
    /\ os_stack_pfn' = [os_stack_pfn EXCEPT ![p] = stk]
    /\ state' = [state EXCEPT ![p] = "READY"]

\* do_fork(): the child copies the whole context, then copy_mm() gives it a
\* pgd of its own and setup_child_context() a kernel stack.
do_fork ==
    /\ UserRuns /\ Headroom(2)
    /\ \E p \in Pids, pt \in Alloc(allocated), stk \in Frames :
          /\ stk \in Alloc(allocated \union {pt})
          /\ get_new_ctx(p)
          /\ pgd' = [pgd EXCEPT ![p] = pt]
          /\ setup_child_context(p, stk)
          /\ allocated' = allocated \union {pt, stk}
          /\ ticks_to_sleep' = [ticks_to_sleep EXCEPT ![p] = ticks_to_sleep[current]]
          /\ ticks_to_alarm' = [ticks_to_alarm EXCEPT ![p] = ticks_to_alarm[current]]
          /\ alarm_config_time' =
                [alarm_config_time EXCEPT ![p] = alarm_config_time[current]]
          /\ sighandlers' = [sighandlers EXCEPT ![p] = sighandlers[current]]
    /\ UNCHANGED <<current, tss, cr3>>

\* do_fork() with the table full: get_new_ctx() returns NULL, do_fork goes on
\* with the context at address 0, and the two frames belong to nobody.
do_fork_at_limit ==
    /\ UserRuns /\ Headroom(2) /\ AtLimit
    /\ \E pt \in Alloc(allocated) : \E stk \in Alloc(allocated \union {pt}) :
          allocated' = allocated \union {pt, stk}
    /\ UNCHANGED <<state, timeVars, sighandlers, memVars, current, tss, cr3>>

\* do_clone(): a thread shares the pgd and has a kernel stack of its own.
do_clone ==
    /\ UserRuns /\ Headroom(1)
    /\ \E p \in Pids, stk \in Alloc(allocated) :
          /\ get_new_ctx(p)
          /\ state' = [state EXCEPT ![p] = "READY"]
          /\ pgd' = [pgd EXCEPT ![p] = pgd[current]]
          /\ os_stack_pfn' = [os_stack_pfn EXCEPT ![p] = stk]
          /\ allocated' = allocated \union {stk}
          /\ ticks_to_sleep' = [ticks_to_sleep EXCEPT ![p] = ticks_to_sleep[current]]
          /\ ticks_to_alarm' = [ticks_to_alarm EXCEPT ![p] = ticks_to_alarm[current]]
          /\ alarm_config_time' =
                [alarm_config_time EXCEPT ![p] = alarm_config_time[current]]
          /\ sighandlers' = [sighandlers EXCEPT ![p] = sighandlers[current]]
    /\ UNCHANGED <<current, tss, cr3>>

\* do_clone() with the table full: the stack it allocates belongs to nobody.
do_clone_at_limit ==
    /\ UserRuns /\ Headroom(1) /\ AtLimit
    /\ \E stk \in Alloc(allocated) : allocated' = allocated \union {stk}
    /\ UNCHANGED <<state, timeVars, sighandlers, memVars, current, tss, cr3>>

\* do_signal(): a handler address, or NULL to remove it.
do_signal(sig) ==
    /\ UserRuns
    /\ \/ sighandlers' = [sighandlers EXCEPT ![current] = @ \union {sig}]
       \/ sighandlers' = [sighandlers EXCEPT ![current] = @ \ {sig}]
    /\ UNCHANGED <<state, timeVars, memVars, current, tss, cr3, allocated>>

\* do_alarm(): 0 is refused and leaves the alarm as it is.
do_alarm(n) ==
    /\ UserRuns /\ n > 0
    /\ alarm_config_time' = [alarm_config_time EXCEPT ![current] = n]
    /\ ticks_to_alarm' = [ticks_to_alarm EXCEPT ![current] = n]
    /\ UNCHANGED <<state, ticks_to_sleep, sighandlers, memVars, current, tss,
                   cr3, allocated>>

-----------------------------------------------------------------------------
(* The shell.                                                              *)

\* The shell command "init": create_context() takes the first free slot and a
\* kernel stack, exec_init() builds the page tables and enters user mode.  The
\* alarm, sleep and handler fields of the slot keep what its previous user
\* left in them.
launch ==
    /\ current = NoCtx
    /\ \E p \in Pids, stk \in Alloc(allocated), pt \in Frames :
          /\ pt \in Alloc(allocated \union {stk})
          /\ get_new_ctx(p)
          /\ os_stack_pfn' = [os_stack_pfn EXCEPT ![p] = stk]
          /\ pgd' = [pgd EXCEPT ![p] = pt]
          /\ allocated' = allocated \union {stk, pt}
          /\ state' = [state EXCEPT ![p] = "RUNNING"]
          /\ current' = p
          /\ tss' = stk
          /\ cr3' = pt
    /\ UNCHANGED <<timeVars, sighandlers>>

-----------------------------------------------------------------------------
\* init_swapper() on a zeroed context table, with the shell running.  The
\* frame of the table itself is never freed and is left out.
Init ==
    /\ state = [p \in Pids |-> IF p = 0 THEN "READY" ELSE "UNUSED"]
    /\ ticks_to_sleep = [p \in Pids |-> 0]
    /\ ticks_to_alarm = [p \in Pids |-> 0]
    /\ alarm_config_time = [p \in Pids |-> 0]
    /\ sighandlers = [p \in Pids |-> {}]
    /\ \E stk \in Alloc({}) :
          /\ os_stack_pfn = [p \in Pids |-> IF p = 0 THEN stk ELSE NoFrame]
          /\ allocated = {stk}
    /\ pgd = [p \in Pids |-> IF p = 0 THEN BootPgd ELSE NoFrame]
    /\ current = NoCtx
    /\ tss = NoFrame
    /\ cr3 = BootPgd

Syscall ==
    \/ \E n \in SleepTicks : do_sleep(n)
    \/ \E n \in AlarmTicks : do_alarm(n)
    \/ \E sig \in HandledSigs : do_signal(sig)
    \/ exit
    \/ do_fork
    \/ do_fork_at_limit
    \/ do_clone
    \/ do_clone_at_limit

Next ==
    \/ handle_timer_tick
    \/ Syscall
    \/ \E sig \in {"SIGSEGV", "SIGFPE"} : fault(sig)
    \/ launch

Spec == Init /\ [][Next]_vars

\* The APIC timer runs while a context does: ack_irq() re-arms it on every
\* path out of handle_timer_tick.
FairSpec == Spec /\ WF_vars(handle_timer_tick)

-----------------------------------------------------------------------------
(* Properties.                                                             *)

\* Every field holds a value of its C type that the code can give it.
TypeOK ==
    /\ state \in [Pids -> States]
    /\ ticks_to_sleep \in [Pids -> Nat]
    /\ ticks_to_alarm \in [Pids -> Nat]
    /\ alarm_config_time \in [Pids -> Nat]
    /\ sighandlers \in [Pids -> SUBSET Signals]
    /\ os_stack_pfn \in [Pids -> Frames \union {NoFrame}]
    /\ pgd \in [Pids -> Frames \union {BootPgd, NoFrame}]
    /\ current \in Pids \union {NoCtx}
    /\ tss \in Frames \union {NoFrame}
    /\ cr3 \in Frames \union {BootPgd, NoFrame}
    /\ allocated \subseteq Frames

\* No context but current is ever RUNNING, and current is never a context
\* that sleeps or has ended.  A tick that finds nobody else to run leaves the
\* running context READY, so RUNNING is not the converse.
RunningIsCurrent ==
    /\ \A p \in Pids : state[p] = "RUNNING" => p = current
    /\ current # NoCtx => state[current] \in {"RUNNING", "READY"}

\* On every return to user mode CR3 and the TSS are those of the context that
\* current names, although a tick skips the load of CR3 when the outgoing and
\* the incoming context share a pgd; the shell runs on the boot page table.
CpuMatchesContext ==
    /\ current # NoCtx => tss = os_stack_pfn[current] /\ cr3 = pgd[current]
    /\ current = NoCtx => cr3 = BootPgd

\* "Must be unique for every context": no two live contexts share a kernel
\* stack, no kernel stack is a live page table, and both are still marked in
\* use in the allocator, whatever was freed by contexts that ended.
StacksUnique ==
    /\ \A p, q \in Pids : Live(p) /\ Live(q) =>
          /\ p # q => os_stack_pfn[p] # os_stack_pfn[q]
          /\ os_stack_pfn[p] # pgd[q]
    /\ \A p \in Pids : Live(p) => os_stack_pfn[p] \in allocated
    /\ \A p \in Slots : Live(p) => pgd[p] \in allocated

\* The swapper runs only while no process is READY and some process sleeps,
\* and the shell is back exactly when every process has ended.
IdleIsLegit ==
    /\ current = 0 => /\ Ready(state) = {}
                      /\ \E p \in Slots : state[p] = "WAITING"
    /\ current = NoCtx <=> \A p \in Slots : ~Live(p)

\* A sleep count is left only in contexts that are WAITING: nobody is woken
\* early, and no context runs, ends or is forked with ticks left that a later
\* tick or the next user of its slot would count.
SleepCountsOnlyInSleepers ==
    \A p \in Pids : ticks_to_sleep[p] > 0 => state[p] = "WAITING"

\* Once a context has called alarm() the alarm keeps going off: its count is
\* never 0 and never above the configured time, through ticks, forks and
\* clones and when its slot is used again.
AlarmKeepsGoing ==
    \A p \in Pids : /\ ticks_to_alarm[p] <= alarm_config_time[p]
                    /\ alarm_config_time[p] > 0 => ticks_to_alarm[p] > 0

\* Every switch brings a READY process that it does not run nearer to the
\* front of the scan, so it runs after at most MAX_PROCESSES - 2 switches,
\* whoever is created, wakes up, sleeps or ends in between.
NearerOnSwitch ==
    current' # current =>
        \A p \in Slots : /\ state[p] = "READY" /\ state'[p] = "READY"
                         /\ p # current /\ p # current'
                         => ScanPos(current', p) < ScanPos(current, p)
RoundRobin == [][NearerOnSwitch]_vars

\* With time, memory and the CPU registers taken away, every kernel entry is a
\* step of Dispatch: the tick that counts sleepers wakes only sleepers, and no
\* path of fork, clone, exit or launch moves the CPU or the table otherwise.
Above == INSTANCE Dispatch
ImplementsDispatch == Above!Spec

\* A READY process eventually runs.
EveryReadyRuns == \A p \in Slots : state[p] = "READY" ~> current = p

\* A process that sleeps for at least one tick eventually wakes up.
SleepersWake ==
    \A p \in Slots :
        (state[p] = "WAITING" /\ ticks_to_sleep[p] > 0) ~> state[p] # "WAITING"

\* "Remaining ticks before sleep expires": every sleep expires.
SleepExpires == \A p \in Slots : state[p] = "WAITING" ~> state[p] # "WAITING"
=============================================================================
