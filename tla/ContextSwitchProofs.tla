------------------------ MODULE ContextSwitchProofs ------------------------
(***************************************************************************)
(* ContextSwitch implements VirtualCpu, for every size of the context      *)
(* table, every user program and any number of handlers interrupted by     *)
(* handlers.                                                               *)
(***************************************************************************)
EXTENDS ContextSwitch, PickNextProofs

-----------------------------------------------------------------------------
(* The inductive invariant.                                                *)

\* Where user code executes.
UserCode == Code \union Signals

\* Registers of a user program: whatever handlers were interrupted by
\* handlers, the outermost address to return to is outside the handlers, so
\* no handler ever returns to an empty stack.
UserRegs == {r \in [rip : UserCode, rax : {"user", "result"}, stack : Seq(UserCode)] :
                IF r.stack = <<>> THEN r.rip \in Code ELSE r.stack[Len(r.stack)] \in Code}

\* The context that has the CPU is live, and so is the swapper.
CpuIsLive == /\ state \in [Pids -> {"UNUSED", "READY", "RUNNING", "WAITING"}]
             /\ current \in Pids \union {NoCtx}
             /\ current # NoCtx => Live(current)
             /\ Live(0)

\* The CPU and the regs of live contexts that do not run hold the registers of
\* the swapper or of a user program; the regs of the running context and of
\* free slots may be stale.
RegsAreUsers == /\ regs \in [Pids -> UserRegs \union {Swapper, Zeroed}]
                /\ regs[0] = Swapper
                /\ \A p \in Slots : Live(p) /\ p # current => regs[p] \in UserRegs
                /\ current = 0 => cpu = Swapper
                /\ current \in Slots => cpu \in UserRegs

SwitchInv == CpuIsLive /\ RegsAreUsers

\* Every pid is the swapper's or a slot, and nobody runs as NoCtx.
LEMMA PidFacts == /\ Slots \subseteq Pids /\ 0 \in Pids /\ 0 \notin Slots
                  /\ NoCtx \notin Pids
                  /\ \A p \in Pids : p = 0 \/ p \in Slots
BY SlotFacts DEF NoCtx

\* No user program executes where contexts that do not exist do.
LEMMA RegFacts == /\ Off \notin UserRegs
                  /\ Swapper # Off
                  /\ Swapper = [rip |-> "swapper", rax |-> "user", stack |-> <<>>]
<1>1. "off" \notin UserCode
  BY CodeAssumption DEF UserCode, Signals, Faults, KernelCode
<1> QED
  BY <1>1 DEF UserRegs, Off, Swapper, KernelRegs

-----------------------------------------------------------------------------
(* What user code and the kernel do to the registers of a user program.    *)

LEMMA MakeRegs ==
    ASSUME NEW a \in UserCode, NEW x \in {"user", "result"}, NEW s \in Seq(UserCode),
           IF s = <<>> THEN a \in Code ELSE s[Len(s)] \in Code
    PROVE  [rip |-> a, rax |-> x, stack |-> s] \in UserRegs
BY DEF UserRegs

\* A program that starts, and a thread that starts with its parent's rax.
LEMMA StartRegs ==
    ASSUME NEW x \in {"user", "result"}
    PROVE  [rip |-> Entry, rax |-> x, stack |-> <<>>] \in UserRegs
BY CodeAssumption DEF UserRegs, UserCode

\* A handler is called.
LEMMA CallRegs ==
    ASSUME NEW r \in UserRegs, NEW h \in Signals
    PROVE  /\ deliver(r, h) = Virtual!Called(r, h)
           /\ deliver(r, h) \in UserRegs
<1> DEFINE s == <<r.rip>> \o r.stack
<1>1. /\ r \in [rip : UserCode, rax : {"user", "result"}, stack : Seq(UserCode)]
      /\ r.stack \in Seq(UserCode) /\ r.rip \in UserCode
  BY DEF UserRegs
<1>2. /\ s \in Seq(UserCode) /\ Len(s) = Len(r.stack) + 1 /\ s # <<>>
      /\ s[1] = r.rip
      /\ \A i \in 1 .. Len(r.stack) : s[i + 1] = r.stack[i]
  BY <1>1
<1>3. s[Len(s)] \in Code
  <2>1. CASE r.stack = <<>>
    BY <1>1, <1>2, <2>1 DEF UserRegs
  <2>2. CASE r.stack # <<>>
    <3>1. Len(r.stack) \in Nat /\ Len(r.stack) > 0
      BY <1>1, <2>2
    <3> QED
      BY <1>2, <2>2, <3>1 DEF UserRegs
  <2> QED
    BY <2>1, <2>2
<1> HIDE DEF s
<1>4. deliver(r, h) = [rip |-> h, rax |-> r.rax, stack |-> s]
  BY DEF deliver, s
<1>5. deliver(r, h) \in UserRegs
  BY <1>1, <1>2, <1>3, <1>4, MakeRegs DEF UserCode
<1> QED
  BY <1>4, <1>5 DEF s, Virtual!Called, Virtual!Regs

\* An instruction, the return of a handler included.
LEMMA ExecuteRegs == ASSUME NEW r \in UserRegs PROVE Virtual!Execute(r) \in UserRegs
<1>1. /\ r.stack \in Seq(UserCode) /\ r.rip \in UserCode
      /\ IF r.stack = <<>> THEN r.rip \in Code ELSE r.stack[Len(r.stack)] \in Code
  BY DEF UserRegs
<1>2. CASE r.rip \in Signals
  <2> DEFINE s == r.stack
             t == Tail(s)
  <2>1. s # <<>> /\ s[Len(s)] \in Code
    BY <1>1, <1>2, CodeAssumption
  <2>2. Head(s) = s[1] /\ Head(s) \in UserCode /\ t \in Seq(UserCode)
    BY <1>1, <2>1
  <2>3. /\ Len(s) \in Nat /\ Len(s) > 0 /\ Len(t) = Len(s) - 1
        /\ \A i \in 1 .. Len(t) : t[i] = s[i + 1]
    BY <1>1, <2>1
  <2> HIDE DEF s, t
  <2>4. IF t = <<>> THEN Head(s) \in Code ELSE t[Len(t)] \in Code
    <3>1. CASE t = <<>>
      <4>1. Len(t) = 0
        BY <3>1
      <4>2. Len(s) = 1
        BY <2>3, <4>1
      <4>3. Head(s) = s[Len(s)]
        BY <2>2, <4>2
      <4> QED
        BY <2>1, <3>1, <4>3
    <3>2. CASE t # <<>>
      <4>1. Len(t) \in 1 .. Len(t)
        BY <2>2, <3>2
      <4>2. t[Len(t)] = s[Len(s)]
        BY <2>3, <4>1
      <4> QED
        BY <2>1, <3>2, <4>2
    <3> QED
      BY <3>1, <3>2
  <2>5. Virtual!Execute(r) = [rip |-> Head(s), rax |-> "user", stack |-> t]
    BY <1>2 DEF s, t, Virtual!Execute, Virtual!Regs
  <2> QED
    BY <2>2, <2>4, <2>5, MakeRegs
<1>3. CASE r.rip \notin Signals
  <2>1. r.rip \in Code /\ Advance(r.rip) \in Code
    BY <1>1, <1>3, CodeAssumption DEF UserCode
  <2>2. Virtual!Execute(r) = [rip |-> Advance(r.rip), rax |-> "user", stack |-> r.stack]
    BY <1>3 DEF Virtual!Execute, Virtual!Regs
  <2> QED
    BY <1>1, <2>1, <2>2 DEF UserRegs, UserCode
<1> QED
  BY <1>2, <1>3

\* A system call returns.
LEMMA ReturnRegs == ASSUME NEW r \in UserRegs PROVE Virtual!Returned(r) \in UserRegs
<1>1. r \in [rip : UserCode, rax : {"user", "result"}, stack : Seq(UserCode)]
  BY DEF UserRegs
<1>2. Virtual!Returned(r) = [rip |-> r.rip, rax |-> "result", stack |-> r.stack]
  BY DEF Virtual!Returned, Virtual!Regs
<1> QED
  BY <1>1, <1>2, MakeRegs DEF UserRegs

-----------------------------------------------------------------------------
(* Steps of Dispatch: who is live afterwards and who has the CPU.          *)

\* Whoever is picked from a table in which the swapper is live is live in it.
LEMMA PickIsLive ==
    ASSUME NEW st, st[0] # "UNUSED", NEW c \in Pids
    PROVE  /\ pick_next_context(st, c) \in Pids
           /\ st[pick_next_context(st, c)] # "UNUSED"
BY PickNext DEF Ready

\* A tick makes nobody live or free.
LEMMA TickLive ==
    ASSUME CpuIsLive, NEW W \in SUBSET Waiting, tick(W)
    PROVE  /\ CpuIsLive'
           /\ current \in Pids /\ current' \in Pids
           /\ \A p \in Pids : Live(p)' <=> Live(p)
<1> USE DEF CpuIsLive, Live
<1> DEFINE st == [p \in Pids |-> IF p \in W \union {current} THEN "READY" ELSE state[p]]
           q  == pick_next_context(st, current)
<1>1. current \in Pids /\ state[current] # "UNUSED"
  BY DEF tick
<1>2. \A p \in Pids : st[p] # "UNUSED" <=> state[p] # "UNUSED"
  BY <1>1 DEF Waiting
<1>3. q \in Pids /\ st[q] # "UNUSED"
  BY <1>1, <1>2, PidFacts, PickIsLive
<1>4. st \in [Pids -> {"UNUSED", "READY", "RUNNING", "WAITING"}]
  OBVIOUS
<1> HIDE DEF st
<1>5. current' = q /\ (state' = st \/ state' = [st EXCEPT ![q] = "RUNNING"])
  BY DEF tick, give_cpu, st
<1>6. /\ state' \in [Pids -> {"UNUSED", "READY", "RUNNING", "WAITING"}]
      /\ \A p \in Pids : state'[p] # "UNUSED" <=> state[p] # "UNUSED"
  BY <1>2, <1>3, <1>4, <1>5
<1> QED
  BY <1>1, <1>2, <1>3, <1>5, <1>6, PidFacts

\* The running process leaves the CPU, for the next context.
LEMMA GiveCpuLive ==
    ASSUME CpuIsLive, current \in Slots, NEW X \in {"WAITING", "UNUSED"},
           give_cpu([state EXCEPT ![current] = X])
    PROVE  /\ CpuIsLive'
           /\ current' \in Pids /\ current' # current
           /\ \A p \in Pids \ {current} : Live(p)' <=> Live(p)
           /\ Live(current') /\ state'[current] = X
<1> USE DEF CpuIsLive, Live
<1> DEFINE st == [state EXCEPT ![current] = X]
           q  == pick_next_context(st, current)
<1>1. current \in Pids /\ current # 0 /\ 0 \in Pids
  BY PidFacts
<1>2. /\ st \in [Pids -> {"UNUSED", "READY", "RUNNING", "WAITING"}]
      /\ st[current] = X /\ st[0] # "UNUSED"
      /\ \A p \in Pids \ {current} : st[p] = state[p]
  BY <1>1
<1>3. q \in Pids /\ (q # 0 => st[q] = "READY")
  BY <1>1, PickNext DEF Ready
<1>4. q # current /\ st[q] # "UNUSED"
  BY <1>1, <1>2, <1>3
<1>5. current' = q /\ state' = [st EXCEPT ![q] = "RUNNING"]
  BY DEF give_cpu
<1> HIDE DEF st, q
<1>6. /\ state' \in [Pids -> {"UNUSED", "READY", "RUNNING", "WAITING"}]
      /\ \A p \in Pids \ {current} : state'[p] # "UNUSED" <=> state[p] # "UNUSED"
      /\ state'[current] = X /\ state'[q] = "RUNNING"
  BY <1>1, <1>2, <1>3, <1>4, <1>5
<1> QED
  BY <1>1, <1>3, <1>4, <1>5, <1>6

\* The running process ends.
LEMMA FinishLive ==
    ASSUME CpuIsLive, finish
    PROVE  /\ CpuIsLive'
           /\ current \in Slots
           /\ current' \in Pids \union {NoCtx} /\ current' # current
           /\ \A p \in Pids \ {current} : Live(p)' <=> Live(p)
           /\ current' # NoCtx => Live(current')
           /\ state'[current] = "UNUSED"
<1>1. current \in Slots /\ current \in Pids /\ current # 0 /\ 0 \in Pids
  BY PidFacts DEF finish, UserRuns
<1>2. CASE OthersLive
  BY <1>1, <1>2, GiveCpuLive DEF finish, Live
<1>3. CASE ~OthersLive
  <2>1. state' = [state EXCEPT ![current] = "UNUSED"] /\ current' = NoCtx
    BY <1>3 DEF finish
  <2> QED
    BY <1>1, <2>1, PidFacts DEF CpuIsLive, Live
<1> QED
  BY <1>2, <1>3

\* A context is created in a free slot.
LEMMA NewLive ==
    ASSUME CpuIsLive, NEW q \in Slots, spawn(q) \/ start(q)
    PROVE  /\ CpuIsLive'
           /\ ~Live(q) /\ Live(q)'
           /\ \A p \in Pids \ {q} : Live(p)' <=> Live(p)
<1>1. q \in Pids /\ 0 \in Pids /\ NoCtx \notin Pids
  BY PidFacts
<1>2. state' = [state EXCEPT ![q] = "READY"] \/ state' = [state EXCEPT ![q] = "RUNNING"]
  BY DEF spawn, start
<1>3. current' = current \/ current' = q
  BY DEF spawn, start
<1> QED
  BY <1>1, <1>2, <1>3 DEF CpuIsLive, Live, spawn, start, NewSlot

-----------------------------------------------------------------------------
(* The user states, and the step of VirtualCpu that each step takes.       *)

\* A context exists in VirtualCpu exactly when it is live.
LEMMA ExistsIsLive ==
    ASSUME SwitchInv
    PROVE  /\ \A p \in Pids : Virtual!Exists(p) <=> Live(p)
           /\ current \in Pids => vcpu[current] = cpu
           /\ \A p \in Pids : Live(p) /\ p # current => vcpu[p] = regs[p]
           /\ \A p \in Pids : ~Live(p) => vcpu[p] = Off
<1> USE DEF SwitchInv, CpuIsLive, RegsAreUsers
<1>1. /\ current \in Pids => vcpu[current] = cpu
      /\ \A p \in Pids : Live(p) /\ p # current => vcpu[p] = regs[p]
      /\ \A p \in Pids : ~Live(p) => vcpu[p] = Off
  BY PidFacts DEF vcpu
<1>2. current \in Pids => cpu # Off
  BY PidFacts, RegFacts
<1>3. \A p \in Pids : Live(p) /\ p # current => regs[p] # Off
  BY PidFacts, RegFacts
<1> QED
  BY <1>1, <1>2, <1>3 DEF Virtual!Exists

\* The frame of the running context changes and nothing else does.
LEMMA InPlace ==
    ASSUME SwitchInv, current \in Slots, UNCHANGED <<state, current>>,
           cpu' \in UserRegs, UNCHANGED regs \/ regs' = saved
    PROVE  SwitchInv' /\ Virtual!Becomes(current, cpu')
<1> USE DEF SwitchInv, CpuIsLive, RegsAreUsers
<1>1. current \in Pids /\ current # 0 /\ current # NoCtx /\ cpu \in UserRegs
  BY PidFacts
<1>2. /\ regs' \in [Pids -> UserRegs \union {Swapper, Zeroed}]
      /\ \A p \in Pids \ {current} : regs'[p] = regs[p]
  BY <1>1 DEF saved
<1>3. SwitchInv'
  BY <1>1, <1>2, PidFacts DEF Live
<1>4. vcpu' = [vcpu EXCEPT ![current] = cpu']
  BY <1>1, <1>2 DEF vcpu, Live
<1> QED
  BY <1>3, <1>4 DEF Virtual!Becomes

\* A tick that leaves with frame in the place of the registers it came with.
LEMMA TickRegs ==
    ASSUME SwitchInv, NEW W \in SUBSET Waiting, tick(W), NEW frame, exchange(frame),
           current = 0 => frame = Swapper,
           current \in Slots => frame \in UserRegs
    PROVE  SwitchInv' /\ vcpu' = [vcpu EXCEPT ![current] = frame]
<1> USE DEF SwitchInv
<1>1. /\ CpuIsLive'
      /\ current \in Pids /\ current' \in Pids
      /\ \A p \in Pids : Live(p)' <=> Live(p)
      /\ current # NoCtx /\ current' # NoCtx
      /\ Live(current) /\ Live(current')
  <2>1. /\ CpuIsLive'
        /\ current \in Pids /\ current' \in Pids
        /\ \A p \in Pids : Live(p)' <=> Live(p)
    BY TickLive
  <2> QED
    BY <2>1, PidFacts DEF CpuIsLive, Live
<1>2. CASE current' = current
  <2>1. cpu' = frame /\ UNCHANGED regs
    BY <1>2 DEF exchange
  <2>2. RegsAreUsers'
    BY <1>1, <1>2, <2>1, PidFacts DEF RegsAreUsers
  <2>3. vcpu' = [vcpu EXCEPT ![current] = frame]
    BY <1>1, <1>2, <2>1 DEF vcpu
  <2> QED
    BY <1>1, <2>2, <2>3
<1>3. CASE current' # current
  <2>1. regs' = [regs EXCEPT ![current] = frame] /\ cpu' = regs[current']
    BY <1>3 DEF exchange
  <2>2. RegsAreUsers'
    BY <1>1, <1>3, <2>1, PidFacts DEF RegsAreUsers
  <2>3. vcpu' = [vcpu EXCEPT ![current] = frame]
    BY <1>1, <1>3, <2>1 DEF vcpu, RegsAreUsers
  <2> QED
    BY <1>1, <2>2, <2>3
<1> QED
  BY <1>2, <1>3

\* A tick without a handler to call is not seen by anyone.
LEMMA QuietIrq == ASSUME SwitchInv, quiet_irq PROVE SwitchInv' /\ UNCHANGED vcpu
<1>1. PICK W \in SUBSET Waiting : tick(W) /\ exchange(cpu)
  BY DEF quiet_irq
<1>2. current = 0 => cpu = Swapper
  BY DEF SwitchInv, RegsAreUsers
<1>3. current \in Slots => cpu \in UserRegs
  BY DEF SwitchInv, RegsAreUsers
<1>4. SwitchInv' /\ vcpu' = [vcpu EXCEPT ![current] = cpu]
  BY <1>1, <1>2, <1>3, TickRegs
<1>5. current \in Pids
  BY <1>1 DEF tick, SwitchInv, CpuIsLive
<1>6. vcpu[current] = cpu
  BY <1>5, ExistsIsLive
<1> QED
  BY <1>4, <1>5, <1>6 DEF vcpu

\* A tick that calls the handler of the alarm.
LEMMA AlarmIrq ==
    ASSUME SwitchInv, alarm_irq PROVE SwitchInv' /\ Virtual!Call(current, "SIGALRM")
<1>1. PICK W \in SUBSET Waiting : tick(W) /\ exchange(deliver(cpu, "SIGALRM"))
  BY DEF alarm_irq
<1>2. current \in Slots /\ current \in Pids /\ current # 0
  BY PidFacts DEF alarm_irq, UserRuns
<1>3. cpu \in UserRegs /\ Live(current)
  BY <1>2, PidFacts DEF SwitchInv, RegsAreUsers, CpuIsLive
<1>4. /\ deliver(cpu, "SIGALRM") = Virtual!Called(cpu, "SIGALRM")
      /\ deliver(cpu, "SIGALRM") \in UserRegs
  BY <1>3, CallRegs DEF Signals
<1>5. SwitchInv' /\ vcpu' = [vcpu EXCEPT ![current] = deliver(cpu, "SIGALRM")]
  BY <1>1, <1>2, <1>4, TickRegs
<1>6. vcpu[current] = cpu /\ Virtual!Exists(current)
  BY <1>2, <1>3, ExistsIsLive
<1> QED
  BY <1>4, <1>5, <1>6 DEF Virtual!Call, Virtual!Becomes

\* sleep() is not seen by anyone, the caller included.
LEMMA Sleep == ASSUME SwitchInv, sleep PROVE SwitchInv' /\ UNCHANGED vcpu
<1> USE DEF SwitchInv
<1>1. /\ current \in Slots /\ current \in Pids /\ current # 0
      /\ give_cpu([state EXCEPT ![current] = "WAITING"])
      /\ regs' = saved /\ return_from_os
  BY PidFacts DEF sleep, block, UserRuns
<1>2. /\ CpuIsLive' /\ Live(current)
      /\ current' \in Pids /\ current' # current /\ current' # NoCtx
      /\ \A p \in Pids : Live(p)' <=> Live(p)
      /\ Live(current')
  <2>1. Live(current)
    BY <1>1, PidFacts DEF CpuIsLive
  <2>2. /\ CpuIsLive'
        /\ current' \in Pids /\ current' # current
        /\ \A p \in Pids \ {current} : Live(p)' <=> Live(p)
        /\ Live(current') /\ state'[current] = "WAITING"
    BY <1>1, GiveCpuLive
  <2> QED
    BY <1>1, <2>1, <2>2, PidFacts DEF Live
<1>3. /\ regs' = [regs EXCEPT ![current] = cpu]
      /\ cpu' = regs[current'] /\ cpu \in UserRegs
  BY <1>1, <1>2 DEF saved, return_from_os, RegsAreUsers
<1>4. RegsAreUsers'
  BY <1>1, <1>2, <1>3, PidFacts DEF RegsAreUsers
<1>5. UNCHANGED vcpu
  BY <1>1, <1>2, <1>3 DEF vcpu, RegsAreUsers
<1> QED
  BY <1>2, <1>4, <1>5

\* An exit, or a fault that ends its process: the registers of the others are
\* as they were, whether the last ones of the process were saved or not.
LEMMA Finish ==
    ASSUME SwitchInv, finish, UNCHANGED regs \/ regs' = saved, return_from_os
    PROVE  SwitchInv' /\ current \in Pids /\ Virtual!End(current)
<1> USE DEF SwitchInv
<1>1. /\ CpuIsLive'
      /\ current \in Slots
      /\ current' \in Pids \union {NoCtx} /\ current' # current
      /\ \A p \in Pids \ {current} : Live(p)' <=> Live(p)
      /\ current' # NoCtx => Live(current')
      /\ state'[current] = "UNUSED"
  BY FinishLive
<1>2. current \in Pids /\ current # 0 /\ current # NoCtx /\ cpu \in UserRegs
  BY <1>1, PidFacts DEF RegsAreUsers
<1>3. /\ regs' \in [Pids -> UserRegs \union {Swapper, Zeroed}]
      /\ \A p \in Pids \ {current} : regs'[p] = regs[p]
  BY <1>2 DEF saved, RegsAreUsers
<1>4. current' # NoCtx => cpu' = regs[current'] /\ current' \in Pids
  BY <1>1, <1>3 DEF return_from_os
<1>5. RegsAreUsers'
  BY <1>1, <1>2, <1>3, <1>4, PidFacts DEF RegsAreUsers, Live
<1>6. vcpu' = [vcpu EXCEPT ![current] = Off]
  <2>1. \A p \in Pids \ {current} :
           (IF p = current' THEN cpu' ELSE regs'[p]) = regs[p]
    BY <1>3, <1>4, PidFacts
  <2> QED
    BY <1>1, <1>2, <2>1 DEF vcpu, Live
<1>7. Virtual!Exists(current)
  BY <1>2, ExistsIsLive DEF CpuIsLive
<1> QED
  BY <1>1, <1>2, <1>5, <1>6, <1>7 DEF Virtual!End, Virtual!Becomes

\* fork() or clone(): the child starts with registers r.
LEMMA Spawn ==
    ASSUME SwitchInv, NEW q \in Slots, spawn(q), NEW r \in UserRegs,
           regs' = [saved EXCEPT ![q] = r], syscall_return
    PROVE  /\ SwitchInv'
           /\ current \in Pids /\ q \in Pids
           /\ cpu \in UserRegs /\ vcpu[current] = cpu
           /\ Virtual!Exists(current) /\ ~Virtual!Exists(q)
           /\ vcpu' = [vcpu EXCEPT ![current] = Virtual!Returned(@), ![q] = r]
<1> USE DEF SwitchInv
<1>1. /\ CpuIsLive'
      /\ ~Live(q) /\ Live(q)'
      /\ \A p \in Pids \ {q} : Live(p)' <=> Live(p)
  BY NewLive
<1>2. current \in Slots /\ UNCHANGED current
  BY DEF spawn, UserRuns
<1>3. /\ current \in Pids /\ current # 0 /\ current # NoCtx /\ cpu \in UserRegs
      /\ Live(current) /\ q \in Pids /\ q # 0 /\ q # current
  BY <1>1, <1>2, PidFacts DEF RegsAreUsers, CpuIsLive
<1>4. cpu' = Virtual!Returned(cpu) /\ cpu' \in UserRegs
  BY <1>3, ReturnRegs DEF syscall_return, Virtual!Returned, Virtual!Regs
<1>5. /\ regs' \in [Pids -> UserRegs \union {Swapper, Zeroed}]
      /\ regs'[q] = r
      /\ \A p \in Pids \ {current, q} : regs'[p] = regs[p]
  BY <1>3 DEF saved, RegsAreUsers
<1>6. RegsAreUsers'
  BY <1>1, <1>2, <1>3, <1>4, <1>5, PidFacts DEF RegsAreUsers
<1>7. vcpu[current] = cpu /\ Virtual!Exists(current) /\ ~Virtual!Exists(q)
  BY <1>1, <1>3, ExistsIsLive
<1>8. vcpu' = [vcpu EXCEPT ![current] = cpu', ![q] = r]
  BY <1>1, <1>2, <1>3, <1>5 DEF vcpu
<1>9. vcpu' = [vcpu EXCEPT ![current] = Virtual!Returned(@), ![q] = r]
  BY <1>4, <1>7, <1>8
<1> QED
  BY <1>1, <1>3, <1>6, <1>7, <1>9

\* exec_init(): the regs of the slot stay stale, and the CPU does not use them.
LEMMA Launch ==
    ASSUME SwitchInv, NEW q \in Slots, exec_init(q)
    PROVE  SwitchInv' /\ q \in Pids /\ Virtual!Start(q)
<1> USE DEF SwitchInv
<1>1. /\ CpuIsLive'
      /\ ~Live(q) /\ Live(q)'
      /\ \A p \in Pids \ {q} : Live(p)' <=> Live(p)
  BY NewLive DEF exec_init
<1>2. /\ current = NoCtx /\ current' = q /\ UNCHANGED regs
      /\ cpu' = Virtual!Started /\ cpu' \in UserRegs
  BY StartRegs DEF exec_init, start, Virtual!Started, Virtual!Regs
<1>3. q \in Pids /\ q # 0 /\ NoCtx \notin Pids
  BY PidFacts
<1>4. RegsAreUsers'
  BY <1>1, <1>2, <1>3, PidFacts DEF RegsAreUsers
<1>5. vcpu' = [vcpu EXCEPT ![q] = Virtual!Started]
  BY <1>1, <1>2, <1>3 DEF vcpu
<1>6. ~Virtual!Exists(q)
  BY <1>1, <1>3, ExistsIsLive
<1> QED
  BY <1>1, <1>3, <1>4, <1>5, <1>6 DEF Virtual!Start, Virtual!Becomes

-----------------------------------------------------------------------------
(* The refinement.                                                         *)

LEMMA SwitchInit0 == SwitchInit => SwitchInv /\ Virtual!Init
<1> SUFFICES ASSUME SwitchInit PROVE SwitchInv /\ Virtual!Init
  OBVIOUS
<1>1. CpuIsLive
  BY PidFacts DEF SwitchInit, Init, CpuIsLive, Live
<1>2. RegsAreUsers
  BY PidFacts DEF SwitchInit, Init, RegsAreUsers, Live
<1>3. Virtual!Init
  BY PidFacts DEF SwitchInit, Init, vcpu, Live, Virtual!Init
<1> QED
  BY <1>1, <1>2, <1>3 DEF SwitchInv

\* Every step preserves the invariant and is a step of one virtual CPU, or of
\* none.
LEMMA SwitchStep ==
    SwitchInv /\ [SwitchNext]_vars => SwitchInv' /\ [Virtual!Next]_vcpu
<1> SUFFICES ASSUME SwitchInv, [SwitchNext]_vars
             PROVE  SwitchInv' /\ (Virtual!Next \/ UNCHANGED vcpu)
  OBVIOUS
<1>0. current \in Slots => /\ current \in Pids /\ cpu \in UserRegs
                           /\ vcpu[current] = cpu /\ Virtual!Exists(current)
  BY PidFacts, ExistsIsLive DEF SwitchInv, CpuIsLive, RegsAreUsers
<1>1. CASE quiet_irq
  BY <1>1, QuietIrq
<1>2. CASE alarm_irq
  BY <1>0, <1>2, AlarmIrq DEF alarm_irq, UserRuns, Virtual!Next, Signals
<1>3. CASE sleep
  BY <1>3, Sleep
<1>4. CASE exit \/ kill
  <2>1. SwitchInv' /\ current \in Pids /\ Virtual!End(current)
    BY <1>4, Finish DEF exit, kill
  <2> QED
    BY <2>1 DEF Virtual!Next
<1>5. ASSUME NEW sig \in Faults, handled_fault(sig)
      PROVE  SwitchInv' /\ Virtual!Next
  <2>1. current \in Slots /\ UNCHANGED <<state, current, regs>> /\ cpu' = deliver(cpu, sig)
    BY <1>5 DEF handled_fault, UserRuns, dvars
  <2>2. cpu' = Virtual!Called(cpu, sig) /\ cpu' \in UserRegs
    BY <1>0, <2>1, CallRegs DEF Signals
  <2>3. SwitchInv' /\ Virtual!Becomes(current, cpu')
    BY <2>1, <2>2, InPlace
  <2>4. Virtual!Call(current, sig)
    BY <1>0, <2>1, <2>2, <2>3 DEF Virtual!Call
  <2> QED
    BY <1>0, <2>1, <2>3, <2>4 DEF Virtual!Next, Signals
<1>6. ASSUME NEW q \in Slots, fork(q) PROVE SwitchInv' /\ Virtual!Next
  <2>1. current \in Slots
    BY <1>6 DEF fork, spawn, UserRuns
  <2>2. /\ SwitchInv' /\ current \in Pids /\ q \in Pids
        /\ vcpu[current] = cpu
        /\ Virtual!Exists(current) /\ ~Virtual!Exists(q)
        /\ vcpu' = [vcpu EXCEPT ![current] = Virtual!Returned(@), ![q] = cpu]
    BY <1>0, <1>6, <2>1, Spawn DEF fork
  <2>3. Virtual!Fork(current, q)
    BY <2>2 DEF Virtual!Fork
  <2> QED
    BY <2>2, <2>3 DEF Virtual!Next
<1>7. ASSUME NEW q \in Slots, clone(q) PROVE SwitchInv' /\ Virtual!Next
  <2>1. current \in Slots
    BY <1>7 DEF clone, spawn, UserRuns
  <2>2. clone_regs = Virtual!Thread(cpu) /\ clone_regs \in UserRegs
    BY <1>0, <2>1, StartRegs DEF clone_regs, Virtual!Thread, Virtual!Regs, UserRegs
  <2>3. /\ SwitchInv' /\ current \in Pids /\ q \in Pids
        /\ vcpu[current] = cpu
        /\ Virtual!Exists(current) /\ ~Virtual!Exists(q)
        /\ vcpu' = [vcpu EXCEPT ![current] = Virtual!Returned(@), ![q] = clone_regs]
    BY <1>7, <2>2, Spawn DEF clone
  <2>4. Virtual!Clone(current, q)
    BY <2>2, <2>3 DEF Virtual!Clone
  <2> QED
    BY <2>3, <2>4 DEF Virtual!Next
<1>8. ASSUME NEW q \in Slots, exec_init(q) PROVE SwitchInv' /\ Virtual!Next
  BY <1>8, Launch DEF Virtual!Next
<1>9. CASE other_call \/ \E sig \in HandledSigs : signal(sig)
  <2>1. /\ current \in Slots /\ UNCHANGED <<state, current>>
        /\ regs' = saved /\ syscall_return
    BY <1>9 DEF other_call, signal, register, UserRuns, dvars
  <2>2. cpu' = Virtual!Returned(cpu) /\ cpu' \in UserRegs
    BY <1>0, <2>1, ReturnRegs DEF syscall_return, Virtual!Returned, Virtual!Regs
  <2>3. SwitchInv' /\ Virtual!Becomes(current, cpu')
    BY <2>1, <2>2, InPlace
  <2>4. Virtual!Return(current)
    BY <1>0, <2>1, <2>2, <2>3 DEF Virtual!Return
  <2> QED
    BY <1>0, <2>1, <2>3, <2>4 DEF Virtual!Next
<1>10. CASE user_step
  <2>1. current \in Slots /\ UNCHANGED <<state, current, regs>>
    BY <1>10 DEF user_step, UserRuns, dvars
  <2>2. cpu' = Virtual!Execute(cpu) /\ cpu' \in UserRegs /\ cpu.rip \in Code \union Signals
    BY <1>0, <1>10, <2>1, ExecuteRegs DEF user_step, UserRegs, UserCode
  <2>3. SwitchInv' /\ Virtual!Becomes(current, cpu')
    BY <2>1, <2>2, InPlace
  <2>4. Virtual!Execution(current)
    BY <1>0, <2>1, <2>2, <2>3 DEF Virtual!Execution
  <2> QED
    BY <1>0, <2>1, <2>3, <2>4 DEF Virtual!Next
<1>11. CASE UNCHANGED vars
  BY <1>11 DEF vars, dvars, SwitchInv, CpuIsLive, RegsAreUsers, Live, vcpu
<1> QED
  BY <1>1, <1>2, <1>3, <1>4, <1>5, <1>6, <1>7, <1>8, <1>9, <1>10, <1>11 DEF SwitchNext

\* Every context has a CPU of its own, whatever the entry code, the copies of
\* do_syscall, fork and clone, schedule() and the exchange of handle_timer_tick
\* do to the one CPU there is.
THEOREM CpusAreVirtual == SwitchSpec => VirtualCpus
<1>1. SwitchInit => SwitchInv /\ Virtual!Init
  BY SwitchInit0
<1>2. SwitchInv /\ [SwitchNext]_vars => SwitchInv' /\ [Virtual!Next]_vcpu
  BY SwitchStep
<1> QED
  BY <1>1, <1>2, PTL DEF SwitchSpec, VirtualCpus, Virtual!Spec
=============================================================================
