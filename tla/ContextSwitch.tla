--------------------------- MODULE ContextSwitch ---------------------------
(***************************************************************************)
(* The user registers under the steps of Dispatch: what the entry code of  *)
(* boot_64.S pushes and pops, what do_syscall, fork, clone, schedule() and *)
(* handle_timer_tick copy, and where signals are delivered.                *)
(*                                                                         *)
(* A context leaves the CPU in one of two ways and may come back by the    *)
(* other: a system call saves the frame of its own kernel stack in regs    *)
(* and return_from_os pops the regs of the next one off that one's stack;  *)
(* a tick exchanges the frame on the interrupt stack, which is the same    *)
(* for everybody, for the regs of the next one.  An entry that returns     *)
(* where it came from pops its frame and leaves the CPU to its caller.     *)
(*                                                                         *)
(* User states are those of VirtualCpu, with a signal for the address of   *)
(* its handler.  User stacks are taken to be mapped when a handler frame   *)
(* is pushed on them.                                                      *)
(***************************************************************************)
EXTENDS Dispatch, Sequences

CONSTANTS
    Code,           \* addresses of user code outside the handlers
    Entry,          \* CODE_START, and the functions passed to clone()
    Advance(_),     \* the address executed after one of Code
    MaxFrames       \* bound on handlers interrupted by handlers

VARIABLES
    cpu,            \* the registers the last iretq left with, or since
    regs            \* exec_context.regs

vars == <<dvars, cpu, regs>>

Faults  == {"SIGSEGV", "SIGFPE"}
Signals == Faults \union {"SIGALRM"}

\* Where the shell, the swapper, a zeroed context and no context execute.
KernelCode == {"shell", "swapper", "zero", "off"}

ASSUME BoundAssumption == MaxFrames \in Nat /\ HandledSigs \subseteq Signals
ASSUME CodeAssumption  == /\ Entry \in Code
                          /\ Code \intersect (Signals \union KernelCode) = {}
                          /\ \A a \in Code : Advance(a) \in Code

\* Registers of the shell, of the swapper, and those of a zeroed context.
KernelRegs(where) == [rip |-> where, rax |-> "user", stack |-> <<>>]
Shell   == KernelRegs("shell")
Swapper == KernelRegs("swapper")
Zeroed  == KernelRegs("zero")
Off     == KernelRegs("off")

\* The user state of p: the CPU's while p runs, else its saved registers.
vcpu == [p \in Pids |-> IF ~Live(p) THEN Off
                        ELSE IF p = current THEN cpu ELSE regs[p]]

Virtual == INSTANCE VirtualCpu
    WITH Ctxs <- Pids, Handlers <- Signals,
         Boot <- [p \in Pids |-> IF p = 0 THEN Swapper ELSE Off]

-----------------------------------------------------------------------------
(* Moving registers.                                                       *)

\* The address the frame held is not kept.
Bug_deliver(frame, sig) ==
    [rip |-> sig, rax |-> frame.rax, stack |-> <<sig>> \o frame.stack]

\* invoke_sync_signal() with a handler: the frame returns into it, and the
\* address it held is pushed on the user stack.
deliver(frame, sig) ==
    [rip |-> sig, rax |-> frame.rax, stack |-> <<frame.rip>> \o frame.stack]

\* The incoming registers are loaded before the outgoing ones are saved.
Bug_exchange(frame) ==
    IF current' = current
    THEN cpu' = frame /\ UNCHANGED regs
    ELSE /\ regs' = [regs EXCEPT ![current] = regs[current']]
         /\ cpu' = regs[current']

\* The end of handle_timer_tick: the frame is saved as the outgoing context's
\* registers and replaced by the incoming one's, or left when nobody else runs.
exchange(frame) ==
    IF current' = current
    THEN cpu' = frame /\ UNCHANGED regs
    ELSE /\ regs' = [regs EXCEPT ![current] = frame]
         /\ cpu' = regs[current']

\* do_syscall() saves what handle_syscall pushed.
saved == [regs EXCEPT ![current] = cpu]

\* handle_syscall leaves rax out when it pops, so the result stays in it.
syscall_return == cpu' = [rip |-> cpu.rip, rax |-> "result", stack |-> cpu.stack]

\* schedule() copies the registers of the incoming context to its kernel stack
\* and return_from_os pops all of them; ret_from_user goes back to the shell.
return_from_os == cpu' = IF current' = NoCtx THEN Shell ELSE regs'[current']

-----------------------------------------------------------------------------
(* Kernel entries and user code.                                           *)

\* handle_irq, when the running context's alarm does not go off or it has no
\* handler for it.
quiet_irq == \E W \in SUBSET Waiting : tick(W) /\ exchange(cpu)

\* handle_irq, when the alarm goes off.
alarm_irq ==
    /\ UserRuns /\ "SIGALRM" \in sighandlers[current]
    /\ Len(cpu.stack) < MaxFrames
    /\ \E W \in SUBSET Waiting : tick(W)
    /\ exchange(deliver(cpu, "SIGALRM"))

\* sleep() does not return through handle_syscall: its caller comes back with
\* the rax it had.
sleep == block /\ regs' = saved /\ return_from_os

exit == finish /\ regs' = saved /\ return_from_os

\* A fault without a handler, or a general protection fault: nothing is saved.
kill == finish /\ UNCHANGED regs /\ return_from_os

\* A fault with a handler: handle_div_by_zero and handle_page_fault pop the
\* frame that do_div_by_zero and do_page_fault have changed.
handled_fault(sig) ==
    /\ UserRuns /\ sig \in sighandlers[current]
    /\ Len(cpu.stack) < MaxFrames
    /\ cpu' = deliver(cpu, sig)
    /\ UNCHANGED <<dvars, regs>>

\* fork(): the child copies the context after its registers were saved.
fork(q) == spawn(q) /\ regs' = [saved EXCEPT ![q] = cpu] /\ syscall_return

\* The thread goes on where its parent was.
Bug_clone_regs == cpu

\* What do_clone() sets of the parent's registers: th_func and user_stack.
clone_regs == [rip |-> Entry, rax |-> cpu.rax, stack |-> <<>>]

clone(q) == spawn(q) /\ regs' = [saved EXCEPT ![q] = clone_regs] /\ syscall_return

signal(sig) == register(sig) /\ regs' = saved /\ syscall_return

\* Calls that return to their caller and change nobody's state: getpid, write,
\* expand, shrink, alarm, stats, configure, an unknown number, and fork and
\* clone with the table full.
other_call ==
    /\ UserRuns
    /\ regs' = saved
    /\ syscall_return
    /\ UNCHANGED dvars

\* exec_init() enters user mode with iretq; the regs field of the slot keeps
\* what its previous user left.
exec_init(q) ==
    /\ start(q)
    /\ cpu' = [rip |-> Entry, rax |-> "user", stack |-> <<>>]
    /\ UNCHANGED regs

\* An instruction of the running program.
user_step ==
    /\ UserRuns
    /\ cpu' = Virtual!Execute(cpu)
    /\ UNCHANGED <<dvars, regs>>

SwitchInit ==
    /\ Init
    /\ cpu = Shell
    /\ regs = [p \in Pids |-> IF p = 0 THEN Swapper ELSE Zeroed]

SwitchNext ==
    \/ quiet_irq
    \/ alarm_irq
    \/ sleep
    \/ exit
    \/ kill
    \/ \E sig \in Faults : handled_fault(sig)
    \/ \E q \in Slots : fork(q) \/ clone(q) \/ exec_init(q)
    \/ \E sig \in HandledSigs : signal(sig)
    \/ other_call
    \/ user_step

SwitchSpec == SwitchInit /\ [][SwitchNext]_vars

-----------------------------------------------------------------------------
(* Properties.                                                             *)

\* Every context has a CPU of its own: whichever way it was suspended and
\* whichever way it is resumed, with any ticks, forks, clones, exits, signals
\* and reuses of its slot in between, it goes on with exactly the registers it
\* had.
VirtualCpus == Virtual!Spec
=============================================================================
