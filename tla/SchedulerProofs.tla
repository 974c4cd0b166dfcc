-------------------------- MODULE SchedulerProofs --------------------------
(***************************************************************************)
(* Proofs about Scheduler, for every size of the context table, every set  *)
(* of frames, every allocator that returns only free frames and every set  *)
(* of system call arguments.                                               *)
(***************************************************************************)
EXTENDS Scheduler, PickNextProofs

-----------------------------------------------------------------------------
\* Slots and pids are integers, and the swapper is no slot.
LEMMA PidFacts == /\ Slots \subseteq Pids
                  /\ 0 \in Pids
                  /\ 0 \notin Slots
                  /\ NoCtx \notin Pids
                  /\ Pids \subseteq Nat
                  /\ \A p \in Pids : p = 0 \/ p \in Slots
BY SlotFacts DEF NoCtx

-----------------------------------------------------------------------------
(* The inductive invariant.                                                *)

\* The swapper never blocks, never ends and keeps the boot page table.
SwapperResident == state[0] \in {"READY", "RUNNING"} /\ pgd[0] = BootPgd

IInv == /\ TypeOK
        /\ RunningIsCurrent
        /\ CpuMatchesContext
        /\ StacksUnique
        /\ IdleIsLegit
        /\ SwapperResident

\* Putting context q on the CPU from a table st in which the outgoing context
\* has left the CPU re-establishes the parts of IInv that mention the CPU.
LEMMA SwitchCpu ==
    ASSUME IInv, NEW st \in [Pids -> States], NEW q \in Pids,
           st[0] = "READY",
           \A p \in Pids : st[p] # "RUNNING",
           st[q] = "READY",
           state' = [st EXCEPT ![q] = "RUNNING"],
           current' = q, tss' = os_stack_pfn[q], cr3' = pgd[q],
           UNCHANGED memVars,
           q = 0 => /\ Ready(st) = {}
                    /\ \E p \in Slots : st[p] = "WAITING"
    PROVE  /\ state' \in [Pids -> States]
           /\ current' \in Pids \union {NoCtx}
           /\ tss' \in Frames \union {NoFrame}
           /\ cr3' \in Frames \union {BootPgd, NoFrame}
           /\ RunningIsCurrent'
           /\ CpuMatchesContext'
           /\ IdleIsLegit'
           /\ SwapperResident'
<1>1. /\ state' \in [Pids -> States]
      /\ current' \in Pids \union {NoCtx}
      /\ tss' \in Frames \union {NoFrame}
      /\ cr3' \in Frames \union {BootPgd, NoFrame}
  BY DEF IInv, TypeOK, States
<1>2. RunningIsCurrent'
  BY DEF RunningIsCurrent
<1>3. CpuMatchesContext'
  BY PidFacts DEF CpuMatchesContext, memVars
<1>4. IdleIsLegit'
  <2>1. current' = 0 => /\ Ready(state') = {}
                        /\ \E p \in Slots : state'[p] = "WAITING"
    BY PidFacts DEF Ready
  <2>2. \E p \in Slots : state'[p] # "UNUSED"
    <3>1. CASE q = 0
      BY <2>1, <3>1
    <3>2. CASE q # 0
      BY <3>2, PidFacts
    <3> QED
      BY <3>1, <3>2
  <2> QED
    BY <2>1, <2>2, PidFacts DEF IdleIsLegit, Live, Ready
<1>5. SwapperResident'
  BY PidFacts DEF SwapperResident, IInv, memVars
<1> QED
  BY <1>1, <1>2, <1>3, <1>4, <1>5
LEMMA InitInv == Init => IInv
<1> SUFFICES ASSUME Init PROVE IInv
  OBVIOUS
<1>0. PICK stk \in Alloc({}) :
         /\ os_stack_pfn = [p \in Pids |-> IF p = 0 THEN stk ELSE NoFrame]
         /\ allocated = {stk}
  BY DEF Init
<1>1. stk \in Frames
  BY <1>0, AllocAssumption
<1>2. TypeOK
  BY <1>0, <1>1 DEF Init, TypeOK, States
<1>3. RunningIsCurrent /\ CpuMatchesContext
  BY DEF Init, RunningIsCurrent, CpuMatchesContext
<1>4. StacksUnique
  BY <1>0, <1>1, PidFacts, FrameAssumption DEF Init, StacksUnique, Live
<1>5. IdleIsLegit
  BY PidFacts DEF Init, IdleIsLegit, Live, NoCtx
<1>6. SwapperResident
  BY PidFacts DEF Init, SwapperResident
<1> QED
  BY <1>2, <1>3, <1>4, <1>5, <1>6 DEF IInv

\* StacksUnique survives a step that makes no context live, moves no stack or
\* pgd and frees nothing.
LEMMA StacksKept ==
    ASSUME StacksUnique, UNCHANGED <<memVars, allocated>>,
           \A p \in Pids : Live(p)' => Live(p)
    PROVE  StacksUnique'
BY PidFacts DEF StacksUnique, memVars, Live

\* A timer tick preserves the invariant.
LEMMA TickInv == IInv /\ handle_timer_tick => IInv'
<1> SUFFICES ASSUME IInv, handle_timer_tick PROVE IInv'
  OBVIOUS
<1> DEFINE st == preempt(Woken)
           q  == pick_next_context(st, current)
<1> USE DEF IInv
<1>1. current \in Pids /\ UNCHANGED <<memVars, allocated, sighandlers>>
  BY DEF handle_timer_tick, TypeOK
<1>2. Woken \in [Pids -> States]
  BY DEF Woken, TypeOK, States
<1>3. st \in [Pids -> States]
  BY <1>2 DEF preempt, States
<1>4. st[0] = "READY"
  BY <1>1, <1>2, PidFacts DEF preempt, Woken, SwapperResident, RunningIsCurrent, Sleepers
<1>5. \A p \in Pids : st[p] # "RUNNING"
  BY <1>1, <1>2 DEF preempt, Woken, RunningIsCurrent
<1>6. /\ q \in Pids
      /\ q = 0 <=> Ready(st) = {}
      /\ q # 0 => q \in Ready(st)
  BY <1>1, PickNext
<1>7. st[q] = "READY"
  BY <1>4, <1>6 DEF Ready
<1>8. q = 0 => current = 0
  <2> SUFFICES ASSUME q = 0, current # 0 PROVE FALSE
    OBVIOUS
  <2>1. current \in Slots
    BY <1>1, PidFacts
  <2>2. st[current] = "READY"
    BY <1>1, <1>2 DEF preempt
  <2> QED
    BY <2>1, <2>2, <1>6 DEF Ready
<1>9. q = 0 => \E p \in Slots : st[p] = "WAITING"
  <2> SUFFICES ASSUME q = 0 PROVE \E p \in Slots : st[p] = "WAITING"
    OBVIOUS
  <2>1. PICK p \in Slots : state[p] = "WAITING"
    BY <1>8 DEF IdleIsLegit
  <2>2. st[p] # "READY"
    BY <1>6 DEF Ready
  <2>3. st[p] = "WAITING"
    BY <2>1, <2>2, <1>8, <1>2, PidFacts DEF preempt, Woken
  <2> QED
    BY <2>3
<1>10. \A p \in Pids : st[p] # "UNUSED" => Live(p)
  BY <1>1, <1>2, PidFacts DEF preempt, Woken, Live, RunningIsCurrent, Sleepers
<1>11. /\ ticks_to_sleep' \in [Pids -> Nat]
       /\ ticks_to_alarm' \in [Pids -> Nat]
       /\ alarm_config_time' \in [Pids -> Nat]
  <2>1. ticks_to_sleep' \in [Pids -> Nat]
    BY DEF handle_timer_tick, do_sleep_and_alarm_account, Sleepers, TypeOK
  <2>2. alarm_account(ticks_to_alarm[current], alarm_config_time[current]) \in Nat
    BY <1>1 DEF alarm_account, TypeOK
  <2>3. ticks_to_alarm' \in [Pids -> Nat]
    BY <1>1, <2>2 DEF handle_timer_tick, do_sleep_and_alarm_account, TypeOK
  <2> QED
    BY <2>1, <2>3 DEF handle_timer_tick, do_sleep_and_alarm_account, TypeOK
<1>12. switch_to(st, q)
  BY DEF handle_timer_tick
<1>13. CASE q = current
  <2>1. state' = st /\ UNCHANGED <<current, tss, cr3>>
    BY <1>12, <1>13 DEF switch_to
  <2>2. TypeOK'
    BY <1>1, <1>3, <1>11, <2>1 DEF TypeOK, memVars
  <2>3. RunningIsCurrent' /\ CpuMatchesContext'
    BY <1>1, <1>5, <1>7, <1>13, <2>1 DEF RunningIsCurrent, CpuMatchesContext, memVars
  <2>4. StacksUnique'
    BY <1>1, <1>10, <2>1, StacksKept DEF Live
  <2>5. IdleIsLegit'
    <3>1. current' = 0 => Ready(state') = {} /\ \E p \in Slots : state'[p] = "WAITING"
      BY <1>6, <1>9, <1>13, <2>1
    <3>2. \E p \in Slots : state'[p] # "UNUSED"
      BY <1>1, <1>7, <1>9, <1>13, <2>1, PidFacts
    <3> QED
      BY <3>1, <3>2, <1>1, <2>1, PidFacts DEF IdleIsLegit, Live, Ready
  <2>6. SwapperResident'
    BY <1>1, <1>4, <2>1 DEF SwapperResident, memVars
  <2> QED
    BY <2>2, <2>3, <2>4, <2>5, <2>6
<1>14. CASE q # current
  <2>1. /\ current' = q
        /\ state' = [st EXCEPT ![q] = "RUNNING"]
        /\ tss' = os_stack_pfn[q]
    BY <1>12, <1>14 DEF switch_to
  <2>2. cr3' = pgd[q]
    BY <1>1, <1>12, <1>14, PidFacts DEF switch_to, CpuMatchesContext
  <2>3. /\ state' \in [Pids -> States]
        /\ current' \in Pids \union {NoCtx}
        /\ tss' \in Frames \union {NoFrame}
        /\ cr3' \in Frames \union {BootPgd, NoFrame}
        /\ RunningIsCurrent' /\ CpuMatchesContext' /\ IdleIsLegit' /\ SwapperResident'
    BY <1>1, <1>3, <1>4, <1>5, <1>6, <1>7, <1>9, <2>1, <2>2, SwitchCpu
  <2>4. TypeOK'
    BY <1>1, <1>11, <2>3 DEF TypeOK, memVars
  <2>5. StacksUnique'
    BY <1>1, <1>3, <1>6, <1>7, <1>10, <2>1, StacksKept DEF Live
  <2> QED
    BY <2>3, <2>4, <2>5
<1> QED
  BY <1>13, <1>14
\* A running process that blocks (X = "WAITING") or ends (X = "UNUSED") hands
\* the CPU to the context pick_next_context chooses.
LEMMA LeaveCpu ==
    ASSUME IInv, current \in Slots, NEW X \in {"WAITING", "UNUSED"},
           X = "UNUSED" => OthersLive,
           LET st == [state EXCEPT ![current] = X]
           IN  schedule(st, pick_next_context(st, current)),
           UNCHANGED memVars
    PROVE  /\ state' \in [Pids -> States]
           /\ current' \in Pids \union {NoCtx}
           /\ tss' \in Frames \union {NoFrame}
           /\ cr3' \in Frames \union {BootPgd, NoFrame}
           /\ RunningIsCurrent' /\ CpuMatchesContext' /\ IdleIsLegit' /\ SwapperResident'
           /\ \A p \in Pids : Live(p)' => Live(p)
           /\ X = "UNUSED" => state'[current] = "UNUSED"
<1> DEFINE st == [state EXCEPT ![current] = X]
           q  == pick_next_context(st, current)
<1> USE DEF IInv
<1>1. current \in Pids /\ st \in [Pids -> States]
  BY PidFacts DEF TypeOK, States
<1>2. st[0] = "READY"
  BY PidFacts DEF TypeOK, SwapperResident, RunningIsCurrent
<1>3. \A p \in Pids : st[p] # "RUNNING"
  BY <1>1 DEF TypeOK, RunningIsCurrent
<1>4. /\ q \in Pids
      /\ q = 0 <=> Ready(st) = {}
      /\ q # 0 => q \in Ready(st)
  BY <1>1, PickNext
<1>5. st[q] = "READY"
  BY <1>2, <1>4 DEF Ready
<1>6. q = 0 => \E p \in Slots : st[p] = "WAITING"
  <2> SUFFICES ASSUME q = 0 PROVE \E p \in Slots : st[p] = "WAITING"
    OBVIOUS
  <2>1. CASE X = "WAITING"
    BY <1>1, <2>1 DEF TypeOK
  <2>2. CASE X = "UNUSED"
    <3>1. PICK p \in Slots \ {current} : state[p] # "UNUSED"
      BY <2>2 DEF OthersLive, Live
    <3>2. st[p] = state[p] /\ p \in Pids
      BY <1>1, <3>1, PidFacts DEF TypeOK
    <3>3. st[p] # "READY" /\ st[p] # "RUNNING"
      BY <1>3, <1>4, <3>1, <3>2 DEF Ready
    <3> QED
      BY <1>1, <3>1, <3>2, <3>3 DEF States
  <2> QED
    BY <2>1, <2>2
<1>7. /\ current' = q
      /\ state' = [st EXCEPT ![q] = "RUNNING"]
      /\ tss' = os_stack_pfn[q]
      /\ cr3' = pgd[q]
  BY DEF schedule
<1>8. /\ state' \in [Pids -> States]
      /\ current' \in Pids \union {NoCtx}
      /\ tss' \in Frames \union {NoFrame}
      /\ cr3' \in Frames \union {BootPgd, NoFrame}
      /\ RunningIsCurrent' /\ CpuMatchesContext' /\ IdleIsLegit' /\ SwapperResident'
  BY <1>1, <1>2, <1>3, <1>4, <1>5, <1>6, <1>7, SwitchCpu
<1>9. \A p \in Pids : state'[p] # "UNUSED" => state[p] # "UNUSED"
  BY <1>1, <1>4, <1>5, <1>7, PidFacts DEF TypeOK, RunningIsCurrent
<1>10. X = "UNUSED" => state'[current] = "UNUSED"
  BY <1>1, <1>5, <1>7, PidFacts DEF TypeOK
<1> QED
  BY <1>8, <1>9, <1>10 DEF Live

LEMMA SleepInv == ASSUME IInv, NEW n \in SleepTicks, do_sleep(n) PROVE IInv'
<1> USE DEF IInv
<1>1. /\ current \in Slots
      /\ UNCHANGED <<memVars, allocated, ticks_to_alarm, alarm_config_time,
                     sighandlers>>
      /\ LET st == [state EXCEPT ![current] = "WAITING"]
         IN  schedule(st, pick_next_context(st, current))
  BY DEF do_sleep, UserRuns
<1>2. /\ state' \in [Pids -> States]
      /\ current' \in Pids \union {NoCtx}
      /\ tss' \in Frames \union {NoFrame}
      /\ cr3' \in Frames \union {BootPgd, NoFrame}
      /\ RunningIsCurrent' /\ CpuMatchesContext' /\ IdleIsLegit' /\ SwapperResident'
      /\ \A p \in Pids : Live(p)' => Live(p)
  BY <1>1, LeaveCpu
<1>3. ticks_to_sleep' \in [Pids -> Nat]
  BY InputAssumption DEF do_sleep, TypeOK
<1>4. TypeOK'
  BY <1>1, <1>2, <1>3 DEF TypeOK, memVars
<1>5. StacksUnique'
  BY <1>1, <1>2, StacksKept
<1> QED
  BY <1>2, <1>4, <1>5

\* A process that ends, with others left or as the last one.
LEMMA ExitInv == ASSUME IInv, current \in Slots, do_exit PROVE IInv'
<1> USE DEF IInv
<1>1. UNCHANGED <<timeVars, sighandlers, memVars>>
  BY DEF do_exit
<1>3. Live(current) /\ current \in Pids
  BY PidFacts DEF Live, RunningIsCurrent
<1>4. CASE OthersLive
  <2>1. /\ allocated' = allocated \ {os_stack_pfn[current]}
        /\ LET st == [state EXCEPT ![current] = "UNUSED"]
           IN  schedule(st, pick_next_context(st, current))
    BY <1>4 DEF do_exit, ExitFrees
  <2>2. /\ state' \in [Pids -> States]
        /\ current' \in Pids \union {NoCtx}
        /\ tss' \in Frames \union {NoFrame}
        /\ cr3' \in Frames \union {BootPgd, NoFrame}
        /\ RunningIsCurrent' /\ CpuMatchesContext' /\ IdleIsLegit' /\ SwapperResident'
        /\ \A p \in Pids : Live(p)' => Live(p)
        /\ state'[current] = "UNUSED"
    BY <1>1, <1>4, <2>1, LeaveCpu
  <2>3. TypeOK'
    BY <1>1, <2>1, <2>2 DEF TypeOK, memVars, timeVars
  <2>4. \A p \in Pids : state'[p] # "UNUSED" => state[p] # "UNUSED" /\ p # current
    BY <2>2 DEF Live
  <2>5. StacksUnique'
    BY <1>1, <1>3, <2>1, <2>4, PidFacts DEF StacksUnique, memVars, Live
  <2> QED
    BY <2>2, <2>3, <2>5
<1>5. CASE ~OthersLive
  <2>1. do_cleanup
    BY <1>5 DEF do_exit
  <2>2. /\ state' = [state EXCEPT ![current] = "UNUSED"]
        /\ current' = NoCtx /\ cr3' = BootPgd /\ tss' = tss
        /\ allocated' = allocated \ {os_stack_pfn[current], pgd[current]}
    BY <2>1 DEF do_cleanup
  <2>3. TypeOK'
    BY <1>1, <2>2 DEF TypeOK, memVars, timeVars, States
  <2>4. \A p \in Slots : state'[p] = "UNUSED"
    BY <1>3, <1>5, <2>2, PidFacts DEF OthersLive, Live, TypeOK
  <2>5. state'[0] = "READY"
    BY <2>2, PidFacts DEF TypeOK, SwapperResident, RunningIsCurrent
  <2>6. RunningIsCurrent'
    BY <2>2, <2>4, <2>5, PidFacts DEF RunningIsCurrent
  <2>7. CpuMatchesContext'
    BY <2>2 DEF CpuMatchesContext
  <2>8. StacksUnique'
    <3>1. /\ os_stack_pfn[0] # os_stack_pfn[current]
          /\ os_stack_pfn[0] # pgd[current]
          /\ os_stack_pfn[0] # pgd[0]
          /\ os_stack_pfn[0] \in allocated
      BY <1>3, PidFacts DEF StacksUnique, SwapperResident, Live
    <3>2. \A p \in Pids : state'[p] # "UNUSED" => p = 0
      BY <2>4, PidFacts
    <3> QED
      BY <1>1, <2>2, <2>4, <3>1, <3>2, PidFacts DEF StacksUnique, memVars, Live
  <2>9. IdleIsLegit' /\ SwapperResident'
    BY <1>1, <2>2, <2>4, <2>5, PidFacts DEF IdleIsLegit, SwapperResident, Live, memVars, NoCtx
  <2> QED
    BY <2>3, <2>6, <2>7, <2>8, <2>9
<1> QED
  BY <1>4, <1>5
\* A step that leaves the table and the CPU alone and frees nothing.
LEMMA QuietInv ==
    ASSUME IInv, UNCHANGED <<state, memVars, current, tss, cr3>>,
           allocated \subseteq allocated', TypeOK'
    PROVE  IInv'
BY DEF IInv, RunningIsCurrent, CpuMatchesContext, StacksUnique, IdleIsLegit,
       SwapperResident, Live, Ready, memVars

\* A context becomes live in a free slot, as READY, on a kernel stack that was
\* free and a pgd that is new or shared with the running context.
LEMMA SpawnInv ==
    ASSUME IInv, TypeOK', current \in Slots,
           NEW p, get_new_ctx(p),
           NEW stk \in Frames \ allocated, NEW pt \in Frames,
           pt \notin allocated \/ pt = pgd[current], pt # stk,
           state' = [state EXCEPT ![p] = "READY"],
           os_stack_pfn' = [os_stack_pfn EXCEPT ![p] = stk],
           pgd' = [pgd EXCEPT ![p] = pt],
           allocated' = allocated \union {pt, stk},
           UNCHANGED <<current, tss, cr3>>
    PROVE  IInv'
<1> USE DEF IInv
<1>1. p \in Pids /\ state[p] = "UNUSED"
  BY DEF get_new_ctx, Live
<1>2. p # 0 /\ p # current /\ current \in Pids /\ Live(current)
  BY <1>1, PidFacts DEF SwapperResident, RunningIsCurrent, Live
<1>3. RunningIsCurrent'
  BY <1>1, <1>2 DEF RunningIsCurrent, TypeOK
<1>4. CpuMatchesContext'
  BY <1>1, <1>2, PidFacts DEF CpuMatchesContext, TypeOK
<1>5. \A r \in Pids : Live(r) => os_stack_pfn[r] # pt
  BY <1>2 DEF StacksUnique
<1>6. StacksUnique'
  <2> DEFINE L == {r \in Pids : Live(r)}
  <2>1. /\ p \notin L
        /\ \A r \in Pids : state'[r] # "UNUSED" <=> r \in L \union {p}
    BY <1>1 DEF TypeOK, Live
  <2>2. /\ \A r \in L : os_stack_pfn'[r] = os_stack_pfn[r] /\ pgd'[r] = pgd[r]
        /\ os_stack_pfn'[p] = stk /\ pgd'[p] = pt
    BY <1>1, <2>1 DEF TypeOK
  <2>3. \A r \in L : os_stack_pfn[r] \in allocated /\ (r = 0 \/ pgd[r] \in allocated)
    BY PidFacts DEF StacksUnique
  <2>4. \A r \in L : stk # os_stack_pfn[r] /\ stk # pgd[r] /\ pt # os_stack_pfn[r]
    BY <1>5, <2>3, FrameAssumption DEF SwapperResident
  <2>5. \A r, s \in L : /\ r # s => os_stack_pfn[r] # os_stack_pfn[s]
                        /\ os_stack_pfn[r] # pgd[s]
    BY DEF StacksUnique
  <2>6. \A r, s \in L \union {p} : /\ r # s => os_stack_pfn'[r] # os_stack_pfn'[s]
                                   /\ os_stack_pfn'[r] # pgd'[s]
    BY <2>1, <2>2, <2>4, <2>5
  <2>7. \A r \in L \union {p} : /\ os_stack_pfn'[r] \in allocated'
                                /\ r = 0 \/ pgd'[r] \in allocated'
    BY <2>2, <2>3
  <2> QED
    BY <2>1, <2>6, <2>7, PidFacts DEF StacksUnique, Live
<1>7. IdleIsLegit'
  <2>1. current # 0 /\ current # NoCtx
    BY PidFacts
  <2>2. state'[p] # "UNUSED" /\ p \in Slots
    BY <1>1, <1>2, PidFacts DEF TypeOK
  <2> QED
    BY <2>1, <2>2 DEF IdleIsLegit, Live
<1>8. SwapperResident'
  BY <1>1, <1>2, PidFacts DEF SwapperResident, TypeOK
<1> QED
  BY <1>3, <1>4, <1>6, <1>7, <1>8

LEMMA ForkInv == IInv /\ do_fork => IInv'
<1> SUFFICES ASSUME IInv, do_fork PROVE IInv'
  OBVIOUS
<1>1. PICK p \in Pids, pt \in Alloc(allocated), stk \in Frames :
         /\ stk \in Alloc(allocated \union {pt})
         /\ get_new_ctx(p)
         /\ pgd' = [pgd EXCEPT ![p] = pt]
         /\ setup_child_context(p, stk)
         /\ allocated' = allocated \union {pt, stk}
         /\ ticks_to_sleep' = [ticks_to_sleep EXCEPT ![p] = ticks_to_sleep[current]]
         /\ ticks_to_alarm' = [ticks_to_alarm EXCEPT ![p] = ticks_to_alarm[current]]
         /\ alarm_config_time' =
               [alarm_config_time EXCEPT ![p] = alarm_config_time[current]]
         /\ sighandlers' = [sighandlers EXCEPT ![p] = sighandlers[current]]
  BY DEF do_fork
<1>2. current \in Slots /\ UNCHANGED <<current, tss, cr3>>
  BY DEF do_fork, UserRuns
<1>3. allocated \subseteq Frames
  BY DEF IInv, TypeOK
<1>4. pt \in Frames \ allocated
  BY <1>3, AllocAssumption
<1>5. stk \in Frames \ allocated /\ stk # pt
  BY <1>1, <1>3, <1>4, AllocAssumption
<1>7. TypeOK'
  BY <1>1, <1>2, <1>4, <1>5, PidFacts DEF IInv, TypeOK, setup_child_context, States
<1> QED
  BY <1>1, <1>2, <1>4, <1>5, <1>7, SpawnInv DEF setup_child_context

LEMMA CloneInv == IInv /\ do_clone => IInv'
<1> SUFFICES ASSUME IInv, do_clone PROVE IInv'
  OBVIOUS
<1>1. PICK p \in Pids, stk \in Alloc(allocated) :
         /\ get_new_ctx(p)
         /\ state' = [state EXCEPT ![p] = "READY"]
         /\ pgd' = [pgd EXCEPT ![p] = pgd[current]]
         /\ os_stack_pfn' = [os_stack_pfn EXCEPT ![p] = stk]
         /\ allocated' = allocated \union {stk}
         /\ ticks_to_sleep' = [ticks_to_sleep EXCEPT ![p] = ticks_to_sleep[current]]
         /\ ticks_to_alarm' = [ticks_to_alarm EXCEPT ![p] = ticks_to_alarm[current]]
         /\ alarm_config_time' =
               [alarm_config_time EXCEPT ![p] = alarm_config_time[current]]
         /\ sighandlers' = [sighandlers EXCEPT ![p] = sighandlers[current]]
  BY DEF do_clone
<1>2. current \in Slots /\ UNCHANGED <<current, tss, cr3>>
  BY DEF do_clone, UserRuns
<1>3. stk \in Frames \ allocated
  BY AllocAssumption DEF IInv, TypeOK
<1>4. TypeOK'
  BY <1>1, <1>2, <1>3, PidFacts DEF IInv, TypeOK, States
<1>5. current \in Pids /\ state[current] # "UNUSED"
  BY <1>2, PidFacts DEF IInv, RunningIsCurrent
<1>6. pgd[current] \in allocated
  BY <1>2, <1>5 DEF IInv, StacksUnique, Live
<1>7. pgd[current] \in Frames /\ pgd[current] # stk
  BY <1>3, <1>6 DEF IInv, TypeOK
<1>8. allocated' = allocated \union {pgd[current], stk}
  BY <1>1, <1>6
<1> QED
  BY <1>1, <1>2, <1>3, <1>4, <1>7, <1>8, SpawnInv

\* fork() and clone() with the table full only lose frames.
LEMMA LimitInv == IInv /\ (do_fork_at_limit \/ do_clone_at_limit) => IInv'
<1> SUFFICES ASSUME IInv, do_fork_at_limit \/ do_clone_at_limit PROVE IInv'
  OBVIOUS
<1>1. UNCHANGED <<state, timeVars, sighandlers, memVars, current, tss, cr3>>
  BY DEF do_fork_at_limit, do_clone_at_limit
<1>2. allocated \subseteq allocated' /\ allocated' \subseteq Frames
  <2>1. allocated \subseteq Frames
    BY DEF IInv, TypeOK
  <2>2. \A f \in Alloc(allocated) : f \in Frames /\ allocated \union {f} \subseteq Frames
    BY <2>1, AllocAssumption
  <2>3. \A f \in Alloc(allocated) : Alloc(allocated \union {f}) \subseteq Frames
    BY <2>2, AllocAssumption
  <2> QED
    BY <2>1, <2>2, <2>3 DEF do_fork_at_limit, do_clone_at_limit
<1>3. TypeOK'
  BY <1>1, <1>2 DEF IInv, TypeOK, timeVars, memVars
<1> QED
  BY <1>1, <1>2, <1>3, QuietInv

LEMMA SignalInv == ASSUME IInv, NEW sig \in HandledSigs, do_signal(sig) PROVE IInv'
<1>1. UNCHANGED <<state, timeVars, memVars, current, tss, cr3, allocated>>
  BY DEF do_signal
<1>2. sighandlers' \in [Pids -> SUBSET Signals]
  BY InputAssumption DEF do_signal, IInv, TypeOK
<1>3. TypeOK'
  BY <1>1, <1>2 DEF IInv, TypeOK, timeVars, memVars
<1> QED
  BY <1>1, <1>3, QuietInv

LEMMA AlarmInv == ASSUME IInv, NEW n \in AlarmTicks, do_alarm(n) PROVE IInv'
<1>1. UNCHANGED <<state, ticks_to_sleep, sighandlers, memVars, current, tss, cr3,
                  allocated>>
  BY DEF do_alarm
<1>2. TypeOK'
  BY <1>1, InputAssumption DEF do_alarm, IInv, TypeOK, memVars
<1> QED
  BY <1>1, <1>2, QuietInv

\* The shell launches a process: every slot is free, so it is the only one.
LEMMA LaunchInv == IInv /\ launch => IInv'
<1> SUFFICES ASSUME IInv, launch PROVE IInv'
  OBVIOUS
<1> USE DEF IInv
<1>1. PICK p \in Pids, stk \in Alloc(allocated), pt \in Frames :
         /\ pt \in Alloc(allocated \union {stk})
         /\ get_new_ctx(p)
         /\ os_stack_pfn' = [os_stack_pfn EXCEPT ![p] = stk]
         /\ pgd' = [pgd EXCEPT ![p] = pt]
         /\ allocated' = allocated \union {stk, pt}
         /\ state' = [state EXCEPT ![p] = "RUNNING"]
         /\ current' = p
         /\ tss' = stk
         /\ cr3' = pt
  BY DEF launch
<1>2. current = NoCtx /\ UNCHANGED <<timeVars, sighandlers>>
  BY DEF launch
<1>3. stk \in Frames \ allocated
  BY AllocAssumption DEF TypeOK
<1>4. pt \in Frames \ allocated /\ pt # stk
  BY <1>1, <1>3, AllocAssumption DEF TypeOK
<1>6. TypeOK'
  BY <1>1, <1>2, <1>3, <1>4 DEF TypeOK, timeVars, States
<1>7. p \in Slots /\ \A r \in Slots : state[r] = "UNUSED"
  BY <1>1, <1>2, PidFacts DEF get_new_ctx, IdleIsLegit, SwapperResident, Live
<1>8. \A r \in Pids : state'[r] # "UNUSED" => r = 0 \/ r = p
  BY <1>1, <1>7, PidFacts DEF TypeOK
<1>9. state'[0] = "READY" /\ state'[p] = "RUNNING"
  BY <1>1, <1>2, <1>7, PidFacts DEF TypeOK, SwapperResident, RunningIsCurrent
<1>10. RunningIsCurrent'
  BY <1>1, <1>8, <1>9 DEF RunningIsCurrent
<1>11. CpuMatchesContext'
  BY <1>1, <1>7, PidFacts DEF CpuMatchesContext, TypeOK
<1>12. StacksUnique'
  <2>1. /\ os_stack_pfn[0] \in allocated
        /\ os_stack_pfn'[0] = os_stack_pfn[0]
        /\ pgd'[0] = BootPgd
        /\ os_stack_pfn'[p] = stk
        /\ pgd'[p] = pt
    BY <1>1, <1>7, PidFacts DEF StacksUnique, SwapperResident, Live, TypeOK
  <2>2. /\ os_stack_pfn[0] # stk /\ os_stack_pfn[0] # pt /\ os_stack_pfn[0] # BootPgd
        /\ stk # BootPgd
    BY <2>1, <1>3, <1>4, FrameAssumption DEF TypeOK
  <2> QED
    BY <1>1, <1>4, <1>7, <1>8, <2>1, <2>2, PidFacts DEF StacksUnique, Live
<1>13. IdleIsLegit' /\ SwapperResident'
  BY <1>1, <1>7, <1>9, PidFacts DEF IdleIsLegit, SwapperResident, Live, TypeOK
<1> QED
  BY <1>6, <1>10, <1>11, <1>12, <1>13

\* Every step preserves the invariant.
LEMMA NextInv == IInv /\ [Next]_vars => IInv'
<1> SUFFICES ASSUME IInv, [Next]_vars PROVE IInv'
  OBVIOUS
<1>1. CASE handle_timer_tick
  BY <1>1, TickInv
<1>2. ASSUME NEW n \in SleepTicks, do_sleep(n) PROVE IInv'
  BY <1>2, SleepInv
<1>3. ASSUME NEW n \in AlarmTicks, do_alarm(n) PROVE IInv'
  BY <1>3, AlarmInv
<1>4. ASSUME NEW sig \in HandledSigs, do_signal(sig) PROVE IInv'
  BY <1>4, SignalInv
<1>5. CASE exit
  BY <1>5, ExitInv DEF exit, UserRuns
<1>6. CASE do_fork \/ do_clone
  BY <1>6, ForkInv, CloneInv
<1>7. CASE do_fork_at_limit \/ do_clone_at_limit
  BY <1>7, LimitInv
<1>8. ASSUME NEW sig \in {"SIGSEGV", "SIGFPE"}, fault(sig) PROVE IInv'
  BY <1>8, ExitInv DEF fault, UserRuns
<1>9. CASE launch
  BY <1>9, LaunchInv
<1>10. CASE UNCHANGED vars
  <2>1. TypeOK'
    BY <1>10 DEF IInv, TypeOK, vars, timeVars, memVars
  <2> QED
    BY <1>10, <2>1, QuietInv DEF vars, timeVars, memVars
<1> QED
  BY <1>1, <1>2, <1>3, <1>4, <1>5, <1>6, <1>7, <1>8, <1>9, <1>10 DEF Next, Syscall

LEMMA SpecInv == Spec => []IInv
<1>1. Init => IInv
  BY InitInv
<1>2. IInv /\ [Next]_vars => IInv'
  BY NextInv
<1> QED
  BY <1>1, <1>2, PTL DEF Spec

\* Every field keeps its type, whatever the sizes and the arguments.
THEOREM TypeCorrect == Spec => []TypeOK
<1>1. IInv => TypeOK
  BY DEF IInv
<1> QED
  BY <1>1, SpecInv, PTL

\* At most the context current names is RUNNING, and it never sleeps or has
\* ended: the tick, do_sleep and do_exit leave no other context on the CPU.
THEOREM OneRunning == Spec => []RunningIsCurrent
<1>1. IInv => RunningIsCurrent
  BY DEF IInv
<1> QED
  BY <1>1, SpecInv, PTL

\* CR3 and the TSS always belong to current, although handle_timer_tick skips
\* the load of CR3 between contexts that share a pgd.
THEOREM CpuIsConsistent == Spec => []CpuMatchesContext
<1>1. IInv => CpuMatchesContext
  BY DEF IInv
<1> QED
  BY <1>1, SpecInv, PTL

\* Kernel stacks of live contexts are unique and in use, through any sequence
\* of launches, forks, clones and exits.
THEOREM StacksStayUnique == Spec => []StacksUnique
<1>1. IInv => StacksUnique
  BY DEF IInv
<1> QED
  BY <1>1, SpecInv, PTL

\* The swapper runs only when it must, and the shell returns exactly when
\* every process has ended.
THEOREM IdleOnlyWhenNeeded == Spec => []IdleIsLegit
<1>1. IInv => IdleIsLegit
  BY DEF IInv
<1> QED
  BY <1>1, SpecInv, PTL
-----------------------------------------------------------------------------
(* Round robin.                                                            *)

\* do_exit() switches, or ends the last process.
LEMMA ExitNearer == ASSUME IInv, current \in Slots, do_exit PROVE NearerOnSwitch
<1> SUFFICES ASSUME NEW p \in Slots, state[p] = "READY", state'[p] = "READY",
                    p # current, p # current', current' # current
             PROVE  ScanPos(current', p) < ScanPos(current, p)
  BY DEF NearerOnSwitch
<1> DEFINE st == [state EXCEPT ![current] = "UNUSED"]
<1>1. OthersLive
  BY DEF OthersLive, Live
<1>2. current' = pick_next_context(st, current)
  BY <1>1 DEF do_exit, schedule
<1>3. st[p] = "READY" /\ current \in Pids
  BY PidFacts DEF IInv, TypeOK
<1> QED
  BY <1>2, <1>3, PickNearer

LEMMA StepNearer == IInv /\ [Next]_vars => [NearerOnSwitch]_vars
<1> SUFFICES ASSUME IInv, Next PROVE NearerOnSwitch
  BY DEF NearerOnSwitch, vars
<1>1. CASE handle_timer_tick
  <2> SUFFICES ASSUME NEW p \in Slots, state[p] = "READY", state'[p] = "READY",
                      p # current, p # current', current' # current
               PROVE  ScanPos(current', p) < ScanPos(current, p)
    BY DEF NearerOnSwitch
  <2> DEFINE st == preempt(Woken)
  <2>1. current \in Pids
    BY <1>1 DEF handle_timer_tick, IInv, TypeOK
  <2>2. current' = pick_next_context(st, current)
    BY <1>1 DEF handle_timer_tick, switch_to
  <2>3. st[p] = "READY"
    BY <2>1, PidFacts DEF preempt, Woken
  <2> QED
    BY <2>1, <2>2, <2>3, PickNearer
<1>2. ASSUME NEW n \in SleepTicks, do_sleep(n) PROVE NearerOnSwitch
  <2> SUFFICES ASSUME NEW p \in Slots, state[p] = "READY", state'[p] = "READY",
                      p # current, p # current', current' # current
               PROVE  ScanPos(current', p) < ScanPos(current, p)
    BY DEF NearerOnSwitch
  <2> DEFINE st == [state EXCEPT ![current] = "WAITING"]
  <2>1. current' = pick_next_context(st, current)
    BY <1>2 DEF do_sleep, schedule
  <2>2. st[p] = "READY" /\ current \in Pids
    BY <1>2, PidFacts DEF IInv, TypeOK, do_sleep, UserRuns
  <2> QED
    BY <2>1, <2>2, PickNearer
<1>3. CASE exit
  BY <1>3, ExitNearer DEF exit, UserRuns
<1>4. ASSUME NEW sig \in {"SIGSEGV", "SIGFPE"}, fault(sig) PROVE NearerOnSwitch
  BY <1>4, ExitNearer DEF fault, UserRuns
<1>5. CASE launch
  <2>1. \A p \in Slots : state[p] = "UNUSED"
    BY <1>5 DEF launch, IInv, IdleIsLegit, Live
  <2> QED
    BY <2>1 DEF NearerOnSwitch
<1>6. CASE do_fork \/ do_fork_at_limit \/ do_clone \/ do_clone_at_limit
  BY <1>6 DEF do_fork, do_fork_at_limit, do_clone, do_clone_at_limit, NearerOnSwitch
<1>7. ASSUME NEW n \in AlarmTicks, do_alarm(n) PROVE NearerOnSwitch
  BY <1>7 DEF do_alarm, NearerOnSwitch
<1>8. ASSUME NEW sig \in HandledSigs, do_signal(sig) PROVE NearerOnSwitch
  BY <1>8 DEF do_signal, NearerOnSwitch
<1> QED
  BY <1>1, <1>2, <1>3, <1>4, <1>5, <1>6, <1>7, <1>8 DEF Next, Syscall

\* Every switch brings each READY process it does not run nearer to the front
\* of the scan, for every size of the context table.
THEOREM RoundRobinHolds == Spec => RoundRobin
<1>1. IInv /\ [Next]_vars => [NearerOnSwitch]_vars
  BY StepNearer
<1> QED
  BY <1>1, SpecInv, PTL DEF Spec, RoundRobin

-----------------------------------------------------------------------------
(* Sleep and alarm counts.                                                 *)

\* Only WAITING contexts have a sleep count left.
LEMMA SleepCountStep ==
    IInv /\ SleepCountsOnlyInSleepers /\ [Next]_vars => SleepCountsOnlyInSleepers'
<1> SUFFICES ASSUME IInv, SleepCountsOnlyInSleepers, [Next]_vars
             PROVE  SleepCountsOnlyInSleepers'
  OBVIOUS
<1>0. /\ current \in Slots => /\ current \in Pids
                              /\ state[current] \in {"RUNNING", "READY"}
                              /\ ticks_to_sleep[current] = 0
      /\ state \in [Pids -> States] /\ ticks_to_sleep \in [Pids -> Nat]
  BY PidFacts DEF IInv, TypeOK, RunningIsCurrent, SleepCountsOnlyInSleepers
<1>1. CASE handle_timer_tick
  <2> DEFINE st == preempt(Woken)
             q  == pick_next_context(st, current)
  <2>1. current \in Pids /\ state[current] \in {"RUNNING", "READY"}
    BY <1>1 DEF handle_timer_tick, IInv, TypeOK, RunningIsCurrent
  <2>2. \A p \in Pids : ticks_to_sleep'[p] = IF p \in Sleepers
                                             THEN ticks_to_sleep[p] - 1
                                             ELSE ticks_to_sleep[p]
    BY <1>1 DEF handle_timer_tick, do_sleep_and_alarm_account
  <2>3. \A p \in Pids : ticks_to_sleep[p] > 0 => p \in Sleepers
    BY DEF SleepCountsOnlyInSleepers, Sleepers
  <2>4. \A p \in Pids : ticks_to_sleep'[p] > 0 => st[p] = "WAITING" /\ p # current
    BY <1>0, <2>1, <2>2, <2>3 DEF preempt, Woken, Sleepers
  <2>5. q \in Pids /\ (q # 0 => st[q] = "READY")
    BY <2>1, PickNext DEF Ready
  <2>6. st[0] # "WAITING"
    BY <2>1, PidFacts DEF preempt, Woken, Sleepers, IInv, SwapperResident
  <2>7. \A p \in Pids : st[p] = "WAITING" => state'[p] = "WAITING"
    BY <1>1, <2>5, <2>6 DEF handle_timer_tick, switch_to, preempt, Woken
  <2> QED
    BY <2>4, <2>7 DEF SleepCountsOnlyInSleepers
<1>2. ASSUME NEW n \in SleepTicks, do_sleep(n) PROVE SleepCountsOnlyInSleepers'
  <2> DEFINE st == [state EXCEPT ![current] = "WAITING"]
             q  == pick_next_context(st, current)
  <2>1. current \in Slots /\ current \in Pids
    BY <1>0, <1>2 DEF do_sleep, UserRuns
  <2>2. q \in Pids /\ (q # 0 => st[q] = "READY")
    BY <2>1, PickNext DEF Ready
  <2>3. st[0] # "WAITING"
    BY <1>0, <2>1, PidFacts DEF IInv, SwapperResident
  <2>4. state' = [st EXCEPT ![q] = "RUNNING"]
    BY <1>2 DEF do_sleep, schedule
  <2>5. \A p \in Pids : ticks_to_sleep'[p] > 0 => st[p] = "WAITING"
    BY <1>0, <1>2, <2>1 DEF do_sleep, SleepCountsOnlyInSleepers
  <2>6. \A p \in Pids : st[p] = "WAITING" => state'[p] = "WAITING"
    BY <1>0, <2>2, <2>3, <2>4
  <2> QED
    BY <2>5, <2>6 DEF SleepCountsOnlyInSleepers
<1>3. ASSUME current \in Slots, do_exit PROVE SleepCountsOnlyInSleepers'
  <2> DEFINE st == [state EXCEPT ![current] = "UNUSED"]
             q  == pick_next_context(st, current)
  <2>1. UNCHANGED ticks_to_sleep
    BY <1>3 DEF do_exit, timeVars
  <2>2. \A p \in Pids : ticks_to_sleep[p] > 0 => st[p] = "WAITING"
    BY <1>0, <1>3 DEF SleepCountsOnlyInSleepers
  <2>3. q \in Pids /\ (q # 0 => st[q] = "READY")
    BY <1>0, <1>3, PickNext DEF Ready
  <2>4. st[0] # "WAITING"
    BY <1>0, <1>3, PidFacts DEF IInv, SwapperResident
  <2>5. state' = st \/ state' = [st EXCEPT ![q] = "RUNNING"]
    BY <1>3 DEF do_exit, do_cleanup, schedule
  <2>6. \A p \in Pids : st[p] = "WAITING" => state'[p] = "WAITING"
    BY <1>0, <2>3, <2>4, <2>5
  <2> QED
    BY <2>1, <2>2, <2>6 DEF SleepCountsOnlyInSleepers
<1>4. CASE exit \/ \E sig \in {"SIGSEGV", "SIGFPE"} : fault(sig)
  BY <1>3, <1>4 DEF exit, fault, UserRuns
<1>5. CASE do_fork \/ do_clone
  <2>1. current \in Slots
    BY <1>5 DEF do_fork, do_clone, UserRuns
  <2>2. PICK p \in Pids : /\ state[p] = "UNUSED"
                          /\ state' = [state EXCEPT ![p] = "READY"]
                          /\ ticks_to_sleep' = [ticks_to_sleep EXCEPT ![p] = ticks_to_sleep[current]]
    BY <1>5 DEF do_fork, do_clone, get_new_ctx, Live, setup_child_context
  <2> QED
    BY <1>0, <2>1, <2>2 DEF SleepCountsOnlyInSleepers
<1>6. CASE launch
  <2>1. PICK p \in Pids : state[p] = "UNUSED" /\ state' = [state EXCEPT ![p] = "RUNNING"]
    BY <1>6 DEF launch, get_new_ctx, Live
  <2> QED
    BY <1>0, <1>6, <2>1 DEF launch, timeVars, SleepCountsOnlyInSleepers
<1>7. CASE UNCHANGED <<state, ticks_to_sleep>>
  BY <1>7 DEF SleepCountsOnlyInSleepers
<1>8. \/ handle_timer_tick
      \/ \E n \in SleepTicks : do_sleep(n)
      \/ exit \/ \E sig \in {"SIGSEGV", "SIGFPE"} : fault(sig)
      \/ do_fork \/ do_clone
      \/ launch
      \/ UNCHANGED <<state, ticks_to_sleep>>
  BY DEF Next, Syscall, do_alarm, do_signal, do_fork_at_limit, do_clone_at_limit, vars, timeVars
<1> QED
  BY <1>1, <1>2, <1>4, <1>5, <1>6, <1>7, <1>8

\* A sleep count is only ever left in a WAITING context, so neither a woken
\* context nor the next user of a slot inherits ticks.
THEOREM SleepCountsHold == Spec => []SleepCountsOnlyInSleepers
<1>1. Init => SleepCountsOnlyInSleepers
  BY DEF Init, SleepCountsOnlyInSleepers
<1>2. IInv /\ SleepCountsOnlyInSleepers /\ [Next]_vars => SleepCountsOnlyInSleepers'
  BY SleepCountStep
<1> QED
  BY <1>1, <1>2, SpecInv, PTL DEF Spec

\* One step keeps every alarm count within its configured time.
LEMMA AlarmStep == IInv /\ AlarmKeepsGoing /\ [Next]_vars => AlarmKeepsGoing'
<1> SUFFICES ASSUME IInv, AlarmKeepsGoing, [Next]_vars PROVE AlarmKeepsGoing'
  OBVIOUS
<1>0. /\ ticks_to_alarm \in [Pids -> Nat] /\ alarm_config_time \in [Pids -> Nat]
      /\ current \in Slots => current \in Pids
  BY PidFacts DEF IInv, TypeOK
<1>1. CASE handle_timer_tick
  <2>1. current \in Pids
    BY <1>1 DEF handle_timer_tick, IInv, TypeOK
  <2> QED
    BY <1>0, <1>1, <2>1
    DEF handle_timer_tick, do_sleep_and_alarm_account, alarm_account, AlarmKeepsGoing
<1>2. ASSUME NEW n \in AlarmTicks, do_alarm(n) PROVE AlarmKeepsGoing'
  BY <1>0, <1>2, InputAssumption DEF do_alarm, UserRuns, AlarmKeepsGoing
<1>3. CASE do_fork \/ do_clone
  <2>1. current \in Pids
    BY <1>0, <1>3 DEF do_fork, do_clone, UserRuns
  <2>2. PICK p \in Pids :
           /\ ticks_to_alarm' = [ticks_to_alarm EXCEPT ![p] = ticks_to_alarm[current]]
           /\ alarm_config_time' =
                 [alarm_config_time EXCEPT ![p] = alarm_config_time[current]]
    BY <1>3 DEF do_fork, do_clone
  <2> QED
    BY <1>0, <2>1, <2>2 DEF AlarmKeepsGoing
<1>4. CASE UNCHANGED <<ticks_to_alarm, alarm_config_time>>
  BY <1>4 DEF AlarmKeepsGoing
<1>5. \/ handle_timer_tick
      \/ \E n \in AlarmTicks : do_alarm(n)
      \/ do_fork \/ do_clone
      \/ UNCHANGED <<ticks_to_alarm, alarm_config_time>>
  BY DEF Next, Syscall, do_sleep, do_signal, do_fork_at_limit, do_clone_at_limit,
         exit, fault, do_exit, launch, vars, timeVars
<1> QED
  BY <1>1, <1>2, <1>3, <1>4, <1>5

\* An alarm that was once set never stops: its count stays between 1 and the
\* configured time through ticks, forks, clones and reuse of the slot.
THEOREM AlarmsRecur == Spec => []AlarmKeepsGoing
<1>1. Init => AlarmKeepsGoing
  BY DEF Init, AlarmKeepsGoing
<1>2. IInv /\ AlarmKeepsGoing /\ [Next]_vars => AlarmKeepsGoing'
  BY AlarmStep
<1> QED
  BY <1>1, <1>2, SpecInv, PTL DEF Spec
-----------------------------------------------------------------------------
(* The refinement of Dispatch.                                             *)

\* The two modules mean the same by the scan, the slots and who is live.
LEMMA SameNames ==
    /\ Above!Slots = Slots /\ Above!Pids = Pids /\ Above!NoCtx = NoCtx
    /\ \A st, p : Above!pick_next_context(st, p) = pick_next_context(st, p)
    /\ Above!UserRuns <=> UserRuns
    /\ Above!OthersLive <=> OthersLive
    /\ \A p : Above!NewSlot(p) <=> get_new_ctx(p)
    /\ Above!Waiting = {p \in Pids : state[p] = "WAITING"}
BY DEF Above!Slots, Above!Pids, Above!NoCtx, Above!pick_next_context, Above!Ready,
       Above!ScanPos, Above!UserRuns, Above!OthersLive, Above!NewSlot, Above!Live,
       Above!Waiting, Slots, Pids, NoCtx, pick_next_context, Ready, ScanPos,
       UserRuns, OthersLive, get_new_ctx, Live

\* A tick of the clock is a tick that wakes the sleepers with one tick left.
LEMMA TickAbove == ASSUME IInv, handle_timer_tick PROVE Above!Next
<1> DEFINE W  == {p \in Sleepers : ticks_to_sleep[p] = 1}
           st == [p \in Pids |-> IF p \in W \union {current} THEN "READY" ELSE state[p]]
           q  == pick_next_context(st, current)
<1>1. W \in SUBSET Above!Waiting
  BY SameNames DEF Sleepers
<1>2. current \in Pids /\ current # NoCtx
  BY DEF handle_timer_tick, IInv, TypeOK
<1>3. preempt(Woken) = st
  BY <1>2 DEF preempt, Woken
<1>4. switch_to(st, q) /\ UNCHANGED sighandlers
  BY <1>3 DEF handle_timer_tick
<1>5. IF q = current THEN state' = st /\ UNCHANGED current
      ELSE current' = q /\ state' = [st EXCEPT ![q] = "RUNNING"]
  BY <1>4 DEF switch_to
<1>6. Above!tick(W)
  BY <1>2, <1>4, <1>5, SameNames DEF Above!tick, Above!give_cpu
<1> QED
  BY <1>1, <1>6 DEF Above!Next

\* An exit or a fault, of the last process or not.
LEMMA ExitAbove == ASSUME IInv, UserRuns, do_exit PROVE Above!Next
<1>1. UNCHANGED sighandlers
  BY DEF do_exit
<1>2. CASE OthersLive
  BY <1>1, <1>2, SameNames
  DEF do_exit, schedule, do_cleanup, Above!finish, Above!give_cpu, Above!Next
<1>3. CASE ~OthersLive
  BY <1>1, <1>3, SameNames
  DEF do_exit, do_cleanup, Above!finish, Above!Next
<1> QED
  BY <1>2, <1>3

\* A new context never takes the slot of the swapper, which is always live.
LEMMA NewIsSlot == ASSUME IInv, NEW p \in Pids, get_new_ctx(p) PROVE p \in Slots
BY PidFacts DEF IInv, SwapperResident, get_new_ctx, Live

LEMMA StepAbove == IInv /\ [Next]_vars => [Above!Next]_(Above!dvars)
<1> SUFFICES ASSUME IInv, [Next]_vars PROVE Above!Next \/ UNCHANGED Above!dvars
  OBVIOUS
<1>1. CASE handle_timer_tick
  BY <1>1, TickAbove
<1>2. ASSUME NEW n \in SleepTicks, do_sleep(n) PROVE Above!block
  BY <1>2, SameNames DEF do_sleep, schedule, Above!block, Above!give_cpu
<1>3. CASE exit \/ \E sig \in {"SIGSEGV", "SIGFPE"} : fault(sig)
  BY <1>3, ExitAbove DEF exit, fault
<1>4. CASE do_fork \/ do_clone
  <2>1. PICK p \in Pids :
           /\ get_new_ctx(p)
           /\ state' = [state EXCEPT ![p] = "READY"]
           /\ sighandlers' = [sighandlers EXCEPT ![p] = sighandlers[current]]
    BY <1>4 DEF do_fork, do_clone, setup_child_context
  <2>2. UserRuns /\ UNCHANGED current
    BY <1>4 DEF do_fork, do_clone
  <2>3. Above!spawn(p)
    BY <2>1, <2>2, SameNames DEF Above!spawn
  <2> QED
    BY <2>1, <2>3, NewIsSlot, SameNames DEF Above!Next
<1>5. ASSUME NEW sig \in HandledSigs, do_signal(sig) PROVE Above!register(sig)
  BY <1>5, SameNames DEF do_signal, Above!register
<1>6. CASE launch
  <2>1. PICK p \in Pids : /\ get_new_ctx(p)
                          /\ state' = [state EXCEPT ![p] = "RUNNING"]
                          /\ current' = p
    BY <1>6 DEF launch
  <2>2. Above!start(p)
    BY <1>6, <2>1, SameNames DEF launch, Above!start
  <2> QED
    BY <2>1, <2>2, NewIsSlot, SameNames DEF Above!Next
<1>7. CASE UNCHANGED <<state, current, sighandlers>>
  BY <1>7 DEF Above!dvars
<1>8. \/ handle_timer_tick
      \/ \E n \in SleepTicks : do_sleep(n)
      \/ exit \/ \E sig \in {"SIGSEGV", "SIGFPE"} : fault(sig)
      \/ do_fork \/ do_clone
      \/ \E sig \in HandledSigs : do_signal(sig)
      \/ launch
      \/ UNCHANGED <<state, current, sighandlers>>
  BY DEF Next, Syscall, do_alarm, do_fork_at_limit, do_clone_at_limit, vars
<1> QED
  BY <1>1, <1>2, <1>3, <1>4, <1>5, <1>6, <1>7, <1>8 DEF Above!Next

\* Scheduler implements Dispatch: whatever the sleep and alarm times, the
\* frames and the page tables do, the CPU and the table move only by the steps
\* Dispatch allows.
THEOREM DispatchImplemented == Spec => ImplementsDispatch
<1>1. Init => Above!Init
  BY SameNames DEF Init, Above!Init
<1>2. IInv /\ [Next]_vars => [Above!Next]_(Above!dvars)
  BY StepAbove
<1> QED
  BY <1>1, <1>2, SpecInv, PTL DEF Spec, ImplementsDispatch, Above!Spec
=============================================================================
