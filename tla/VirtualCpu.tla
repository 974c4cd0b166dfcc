----------------------------- MODULE VirtualCpu -----------------------------
(***************************************************************************)
(* What gemOS promises a user program: a CPU of its own.  Its registers    *)
(* change when it executes, when a system call it made returns and when a  *)
(* signal calls one of its handlers; ticks, other processes and the        *)
(* kernel's switching never show in them.  There is no scheduler here, no  *)
(* saved copy and no kernel: ContextSwitch is shown to implement this.     *)
(*                                                                         *)
(* The user state of a context is the address it executes at, the register *)
(* that carries results, and the return addresses that handlers have       *)
(* pushed on its stack.  A handler is a single instruction that returns.   *)
(***************************************************************************)
EXTENDS Sequences

CONSTANTS
    Ctxs,           \* contexts that may exist
    Boot,           \* those that exist from the start, and what they execute
    Off,            \* the CPU of a context that does not exist
    Code,           \* addresses of user code outside the handlers
    Entry,          \* where programs and threads start
    Advance(_),     \* the address executed after one of Code
    Handlers        \* addresses of the handlers

VARIABLE vcpu       \* the user state of every context

\* rax holds what the program put there, or the result of a system call.
Regs(rip, rax, stack) == [rip |-> rip, rax |-> rax, stack |-> stack]

\* A program the shell starts.
Started == Regs(Entry, "user", <<>>)

\* One instruction: a handler returns to what was pushed when it was called.
Execute(r) ==
    IF r.rip \in Handlers
    THEN Regs(Head(r.stack), "user", Tail(r.stack))
    ELSE Regs(Advance(r.rip), "user", r.stack)

\* A system call returns.
Returned(r) == Regs(r.rip, "result", r.stack)

\* Handler h is called at the instruction the program is at.
Called(r, h) == Regs(h, r.rax, <<r.rip>> \o r.stack)

\* A thread starts at its function, on a stack of its own.
Thread(r) == Regs(Entry, r.rax, <<>>)

Exists(p) == vcpu[p] # Off

Init == vcpu = Boot

Becomes(p, r) == vcpu' = [vcpu EXCEPT ![p] = r]

Execution(p)  == Exists(p) /\ vcpu[p].rip \in Code \union Handlers /\ Becomes(p, Execute(vcpu[p]))
Return(p)     == Exists(p) /\ Becomes(p, Returned(vcpu[p]))
Call(p, h)    == Exists(p) /\ Becomes(p, Called(vcpu[p], h))
Start(p)      == ~Exists(p) /\ Becomes(p, Started)
End(p)        == Exists(p) /\ Becomes(p, Off)

\* The child of fork() starts as the parent was when it called; no result is
\* put in its registers.
Fork(p, q) ==
    /\ Exists(p) /\ ~Exists(q)
    /\ vcpu' = [vcpu EXCEPT ![p] = Returned(@), ![q] = vcpu[p]]

Clone(p, q) ==
    /\ Exists(p) /\ ~Exists(q)
    /\ vcpu' = [vcpu EXCEPT ![p] = Returned(@), ![q] = Thread(vcpu[p])]

Next ==
    \E p \in Ctxs :
        \/ Execution(p)
        \/ Return(p)
        \/ \E h \in Handlers : Call(p, h)
        \/ Start(p)
        \/ End(p)
        \/ \E q \in Ctxs : Fork(p, q) \/ Clone(p, q)

Spec == Init /\ [][Next]_vcpu
=============================================================================
