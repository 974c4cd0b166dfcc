# gemOS in TLA+

gemOS is a small teaching kernel for x86-64 (run under gem5): a context table
of 16 slots, a tick-driven round-robin scheduler, twelve system calls, demand
paging, and a shell that launches one program at a time. This directory models
its core, checks it with TLC and proves its safety properties with TLAPS.
Paths below are relative to `src/src/`.

## 1. Inventory

| Part | State | Operations | What makes it correct |
|---|---|---|---|
| Scheduler (`schedule.c`) | `state`, sleep and alarm counts of every context, `current`, CR3, TSS | timer tick, `schedule()` from sleep and exit | one running context; CPU registers are its own; nobody starves; sleepers wake |
| Process table (`context.c`, `entry.c`) | slots, kernel stacks, pgds | launch, fork, clone, exit, cleanup | stacks unique, nothing freed in use, shell back exactly at the end |
| Signals and alarm (`entry.c`) | handlers, alarm times | signal, alarm, delivery, default exit | alarms recur; the interrupted code goes on after the handler |
| Address spaces (`entry.c`, `context.c`) | segments, page tables, user frames | page fault, expand, shrink, `copy_mm`, `pt_cleanup` | no use of freed frames; private and read-only pages stay so; no leak |
| Frame allocator (`memory.c`) | bitmap, `last_free_pos`, `free_pages` per region | alloc, free, init | no frame twice, none lost, the bitmap itself safe |
| Page tables (`context.c`, `apic.c`) | tables of four levels, kernel and APIC entries, `os_pmd_pfn`, `free_pages` | install, fault, fork, cleanup | tables in use are nobody else's; what is lost is known |
| Object allocator, node lists (`memory.c`, `lib.c`) | chunks, free lists | `os_alloc`, `node_alloc`, list operations | objects disjoint; lists are FIFO |
| Kernel entry (`boot_64.S`, `idt.c`) | register frames, IST and rsp0 stacks | gates, `return_from_os`, `ret_from_user` | a context resumes with its own registers |
| APIC timer (`apic.c`) | one-shot counter | program, re-arm, map | ticks never stop while a context runs |
| Shell (`shell.c`, `serial.c`, `include/init.h`) | line buffer, arguments | read a line, `parse_init`, enter the program | a line means the same whatever was typed before |
| Console, library, boot, user programs | device registers | printf, start-up | sequential I/O, not modelled |

How the parts interact. User code enters the kernel through a gate; the handler
runs with interrupts off, works on `current`, and leaves by `iretq` to the same
context or, through `pick_next_context`, to another one. A system call leaves a
context on its own kernel stack, the tick on a stack shared by all (IST 1).
fork, clone, launch and page faults take frames from the allocator; exit and
shrink give them back. Nothing is persistent and there is one CPU, so there is
no crash recovery and no true parallelism. What is hard is the interleaving of
processes, ticks and the shell, the reuse of slots and frames, the boundaries
of tables and bitmaps, and the sharing of page tables (threads) and frames
(fork). `PROJECT.json` lists these hazards by line.

## 2. Modules

* `PickNext` - the choice `pick_next_context` makes: the first READY slot in
  scan order (`ScanPos`), the swapper when there is none.
* `PickLoop` - the loop of that function, one iteration a step, over every
  table and caller, compared with `PickNext`.
* `Scheduler` - process table and CPU. One action is one kernel entry:
  `handle_timer_tick`, `do_sleep`, `do_fork`, `do_clone` (each also at the
  limit of the table), `exit`, `fault`, `do_signal`, `do_alarm`, and `launch`
  for the shell's `init` command. Variables carry the names of the fields of
  `exec_context`; `tss` and `cr3` are what the CPU holds, `allocated` the
  frames of OS_PT_REG in use. A pgd stands for its whole tree.
* `Dispatch` - the abstract scheduler: who is READY, who has the CPU, which
  handlers are registered. No time, no memory, no registers: a tick may wake
  any sleeper. `Scheduler` implements it (`ImplementsDispatch`).
* `ContextSwitch` - extends `Dispatch` by the user registers: `cpu`, and `regs`
  of every context. One action per gate and system call says what the entry
  code of `boot_64.S` pushes and pops, what `do_syscall`, `do_fork`,
  `do_clone`, `schedule()` and `handle_timer_tick` copy, and where
  `invoke_sync_signal` redirects a context.
* `VirtualCpu` - what a user program is promised: a CPU of its own, which only
  executes, returns from a call, or is called into a handler. `ContextSwitch`
  implements it (`VirtualCpus`).
* `FreePage` - the search of `get_free_page` as a function.
* `PageAlloc` - one page list. A holder is one place that keeps a frame.
  `StopAt`, `SearchWord` and `FreeBit` are the three parts of `get_free_page`;
  together they are `FreePage` (`FollowsSearch`).
* `AddressSpace` - segments, leaf entries, W bits of leaf and table, user
  frames. Faults that end in a signal are `do_exit` or no change. Whichever
  live context is taken to run is left open, so it covers every schedule. In
  the runs its allocator is `FreePage`, with `last_free_pos`. `do_fork_at_limit`
  is a fork that finds every slot in use: it copies pages for nobody.
* `PageTables` - the other region, OS_PT_REG: every table of every space with
  its frame, the kernel's and the APIC's entries, the kernel stacks, the global
  `os_pmd_pfn`, and the allocator's count. A fork or clone that finds every slot
  in use (`do_fork_at_limit`, `do_clone_at_limit`) builds its tables and takes
  its stack all the same, and a fork sets `os_pmd_pfn`.
* `Shell` - the line buffer of `Room` cells with whatever `os_alloc` left in it
  (`BootBufs`), lines of any length, `parse_init` one character a step, and the
  registers a program is entered with.
* `MC*` - values for TLC.
* `*Proofs` - the theorems about the module of that name. `PickNextProofs` holds
  lemmas about the scan order that `SchedulerProofs`, `PickLoopProofs` and
  `ContextSwitchProofs` share.

How they fit together. `Scheduler` and `ContextSwitch` describe the same kernel
entries, one with time, stacks and CPU state, the other with user registers;
`Dispatch` is what they agree on, so `VirtualCpus` holds for all sleep and
alarm times and all states of the allocator that `Scheduler` distinguishes.
`AddressSpace` and `PageTables` share the life cycle (launch, fault, fork,
clone, exit) and split its memory by region. Both rely on the allocator
returning free frames, which is `NoAlias` of `PageAlloc` up to `FewHolders`
frames in use; `AddressSpace` carries that bound as `FewFrames`, and
`SearchKeepsPromise` shows that `FreePage` keeps its `AllocAssumption`.

Operators named `Bug_*` are not part of the models. Each is a plausible slip in
the definition after it; putting it in that definition's place makes the
property named in `PROJECT.json` fail.

Abstractions that matter:

* The allocator is a set of free frames in `Scheduler` and `PageTables`
  (`Alloc` says which free frames may be returned), the search over a set of
  marked frames in `AddressSpace`, and the real bitmap in `PageAlloc`.
  `Headroom` is a bound of the models, not a check of the code: frames are taken
  only while a launch is still possible afterwards. The code reports exhaustion
  as frame 0, which no caller checks; what follows is not modelled.
* `SleepTicks`, `AlarmTicks`, `HandledSigs`, `ExpandPages`, `ShrinkSegs`,
  `CanFork` and `Lines` are what user programs and the user do; the kernel
  refuses none of it unless its code does.
* User registers are the address executed, `rax` and the return addresses on
  the stack. A user program is a cycle of instructions, so that resuming from
  an old or a foreign copy shows; a handler is one instruction that returns. A
  handler that uses other registers changes them under the interrupted code
  (`entry.c:326`); that is outside the model.
* Page contents, the flags of kernel entries, the TLB (`shrink` flushes, CR3
  loads flush) and the statistics are left out.
* At the limit of the table the code goes on with a context at address 0; the
  models keep what this does to the allocators and to `os_pmd_pfn`, not what is
  written to page 0.
* In `Shell` the first four characters of a line are abstracted to whether
  they are `init`, the rest is kept. `WRAP` stands for 2^64 (2^16 in the run;
  no number typed comes near either). `serial_read` stores without a bound and
  `parse_init` reads without one. The model's behaviour ends where memory behind
  the buffer or the struct comes in: in `lost` after a line that does not fit
  (`Fits`) or a sixth value (`overrun`), in `astray` when `parse_init` reads on
  behind the buffer.

## 3. Runs

Passing runs:

| Run | Instance | Checks |
|---|---|---|
| `sched` | 3 user slots, 9 frames, sleeps of 2 ticks, fair timer; 109,763 states | types, one running context, CPU registers, unique stacks, idling, sleep counts, round robin, refinement of `Dispatch`, every READY process runs, sleepers wake |
| `signals` | 2 user slots, alarms of 1 and 3 ticks (0 is refused), two handlers; 95,829 states | alarms recur |
| `switch` | 2 user slots and the swapper, 3 instructions, a handler frame on each stack; 364,009 states | refinement of `VirtualCpu` |
| `pickloop` | every table of 5 slots, every caller; 4,332 states | the loop stays in the table, looks at no slot twice, ends, and makes the choice of `PickNext` |
| `pages` | 13 frames, words of 3, 3 words searched, 5 holders; 284 states up to symmetry | types, bitmap, no alias, nothing lost, exact count, only searched words handed out, the search is `FreePage`'s |
| `threads` | 3 threads of one space, 3 words of 5 frames, 2 code pages; 355,350 states | no freed frame mapped, no frame left when the shell is back, code frames in sequence |
| `forks` | 2 contexts, 2 spaces, one word of 10 frames; 184,321 states | types, no freed frame mapped, private pages private, read-only pages read-only, no other loss |
| `tables` | 3 contexts, 2 spaces, 33 frames, pmds of 2 pts, 2 sessions; 620,344 states | types, tables sound, no other loss, drift of the count |
| `shell` | all tails of up to 3 characters of two digits and separators, lines with 2, 4 and 5 arguments, one that fills the buffer of 12 cells and ends in a separator, and one that is too long, in any order, over memory that is clear or without an end; 717,174 states | where `parse_init` may leave the buffer, arguments arrive, bare init repeats |

Three user slots are the fewest in which one process passes over another on
behalf of a third; in `threads` DATA crosses a table boundary (`TABLE_PAGES` = 2,
three pages), and in `forks` a process may ask to shrink by more than it has. In
`pages` the geometry keeps the proportions that matter: the bitmap ends inside
word 0, three words are searched, frames exist beyond them, and the number of
holders is the largest that `FewHolders` allows. In `threads` a
launch and the faults after it fill word 0 and go on in word 1, the next
session starts there, and the search wraps after a few of them; in `forks` the lowest free frame is taken.
Both runs take states that differ only in the segments of UNUSED slots as one
(`LiveView`): launch, fork and clone set them before anything reads them. In `tables` the stack gets a second pt by a fault, in a pmd that the
child of a fork may or may not have; two sessions are needed for the second
free of one to meet the allocations of the other. Two contexts in `forks` and
three in `tables` are reached, so that calls at the limit happen. In `shell` the
lines that fill the buffer are longer than every other, so that old contents
show behind all of them.
All instances have frames for every live context, plus those that at-limit
calls and exits lose until `Headroom` stops operations.

The two statements about loss deserve their exact reading. `NoOtherLoss` of
`AddressSpace`: user frames become unreachable in two ways only. A process ends
whose space no thread shares while another process lives (`do_exit` frees user
pages only for the last context); or a fork finds every slot in use and copies
pages for nobody (`entry.c:246`). `NoOtherLoss` of `PageTables` has the same two
for tables and stacks, where a clone at the limit loses its stack too, and a
third: one frame when the last process is not the one `os_pmd_pfn` was set for;
the wrong pmd freed then is never one that is in use (`TablesSound`).
`CountDrifts`: `free_pages` gains one page on every return to
the shell, because the last kernel stack is freed by `do_exit` and by
`do_cleanup`, and is otherwise exact.

Runs that show a disagreement between the code and what a comment, a message
or a usage line in it says (details and quotes under `findings`):

| Run | Property | Shows |
|---|---|---|
| `sleep_zero` | `SleepExpires` | `sleep(0)` never returns |
| `rodata_shrink` | `NoDangling` | shrinking RODATA frees frames that a relative by fork maps |
| `args_order` | `ArgsInOrder` | the third and fourth argument of `init` change places |

The passing runs next to them say how far the property does hold: sleeps of at
least one tick (`sched`), without shrinking RODATA (`forks`), the order of the
struct's own fields (`shell`).

Other things the code does that a reader may not expect. The models keep each
of them; no run asks for more:

* A program launched from the shell starts with the handlers and the alarm of
  the last user of its slot: `create_context` resets neither (`context.c:33`).
* `fork` copies only the top page of the stack, since `next_free` of the stack
  never moves (`context.c:518`); lower pages are missing in the child.
* The child of `fork` is not given a result of 0: it resumes with the `rax`
  from before the call (`entry.c:250`, `Fork` of `VirtualCpu`).
* With one holder more than `FewHolders`, `get_free_page` hands out a frame in
  use while others are free (`memory.c:61`); section 4 has the bound.
* Seven eighths of a region are never handed out though `free_pages` counts
  them (`HeldIsSearched`).
* A line longer than 1023 characters overwrites what lies behind the buffer
  (`serial.c:49`). One of exactly 1023 that ends in a separator makes
  `parse_init` skip its NUL and read behind the buffer; `StaysInBuffer` names
  the contents of the last two cells with which that can happen.
* After frames were lost the code pages of a later launch need not be in
  sequence (`context.c:234`), which `threads` excludes by having no fork and
  `OnlyLossBreaksSequence` narrows down to those launches.
* A page whose first access is a read is mapped without the W bit and a later
  write is an error (`entry.c:79`, `entry.c:432`).
* `num_processes` is decremented when a thread ends though clone does not
  count it.
* `init` with a trailing separator reads on into the rest of an older line
  (`shell.c:31`).

Fairness. `FairSpec` has weak fairness of `handle_timer_tick` only. While a
context is current interrupts are enabled in user mode and in the swapper
(`sti; hlt`), and `ack_irq()` re-arms the one-shot timer on both ways out of
the tick, so a tick that stays possible comes. Nothing is assumed of user
programs or of the shell. `PickLoop` has weak fairness of the loop itself. The
other modules state no liveness and no fairness. Deadlock is checked except in
`pickloop`, where the loop ends, in `tables`, where the bound on sessions ends
the exploration, and in `shell`, where `lost` and `astray` do.

## 4. Proofs

All theorems hold for every value of the constants that satisfies the named
assumptions, in particular for 16 slots and the regions of `memory.h`.

`SchedulerProofs`. Assumptions: at least two slots; `Alloc` returns only free
frames; the boot pgd and the null frame are not frames of the region. The
inductive invariant `IInv` joins `TypeOK`, `RunningIsCurrent`,
`CpuMatchesContext`, `StacksUnique`, `IdleIsLegit` and `SwapperResident` (slot
0 is never UNUSED and keeps the boot pgd). They need each other:
`RunningIsCurrent` says that current is live, so the free slot that fork, clone
or launch fills is not current (`CpuMatchesContext`) and the pgd a thread
shares is still allocated (`StacksUnique`); `IdleIsLegit` says that the shell
launches into an empty table, so that the new process is the only one RUNNING;
`SwapperResident` keeps slot 0 from being taken for a free one and gives the
scheduler somebody to run. `pick_next_context` is used only through lemmas
that say it returns a READY slot of least `ScanPos`, or 0 when there is none.
Existence of that minimum is by well-founded induction on the naturals.
`SleepCountsOnlyInSleepers` and `AlarmKeepsGoing` are inductive relative to
`IInv`; `RoundRobin` is an action property from `IInv`.

`DispatchImplemented` is the refinement, one step per action: `IInv` gives that
the caller of `schedule()` is `current` and RUNNING, so what `Scheduler` does to
the table is one of `Dispatch`'s actions; calls at the limit of the table and
alarm times that change no state of `Dispatch` are stutters.

`PickLoopProofs`. The invariant `LoopInv` says that no slot passed so far is
READY, `Passed` being the slots whose `ScanPos` is less than that of `pid`. The
loop wraps from the last slot to slot 1, so the proof is about `ScanPos` under a
step of the loop; it needs that two slots have different `ScanPos`.
`LoopAdvances` says that an iteration which goes on raises `ScanPos` by one.
Since it is less than `MAX_PROCESSES - 1`, this is the variant behind `PickEnds`:
what TLC adds is only that a loop that can go on does.

`ContextSwitchProofs`. Assumptions: a program's instructions follow each other
inside `Code`, and neither a handler nor the kernel's own code (`KernelCode`) is
among them. The refinement needs `SwitchInv`: `current` is live, `cpu` holds
registers of a user program while a user slot runs and those of the swapper
while it idles, and the `regs` of every other live context are complete. The
`regs` of the running context may be stale, as may those of free slots; that is
why `exchange` must save before it loads. `UserRegs` adds that the outermost
return address is not inside a handler, without which a handler could return to
an empty stack.

`PageTablesProofs`. Assumptions: user addresses lie above the kernel's four
entries; `Alloc` returns free frames only. `TableInv` strengthens `TablesSound`
by `OsPmdSound`: the frame in `os_pmd_pfn` is allocated while a process lives,
and is the kernel's pmd of a space or nobody's. This is what makes the
`do_cleanup` of a process other than the last forked harmless: the pmd it frees
belongs to nobody. A fork at the limit makes it nobody's as well: its frames
are all `Unowned`, lemmas about which (`SomeUnowned`, `UnownedInv`,
`UnownedLoss`) serve fork and clone alike. `CountCovers` (the count is never too low) makes
`free_pages` a natural number, `UnusedEmpty` makes the spaces that launch and
fork take empty. `CountDrifts` and `NoOtherLoss` are action properties from
`TableInv`; both come down to counting the frames an exit frees.

`AddressSpaceProofs`. Assumptions: `AllocAssumption` (up to `FewFrames` frames
the allocator returns distinct free frames) and `FewAssumption` (a launch fits
that bound). `BaseInv` holds for all inputs. Its part `LaunchFits` says that a
launch, which the shell makes without asking whether memory is left, always
finds its frames: they are free, or the only space in use gives back enough when
it ends. `OneSpace` says that without fork there is one space that maps all
frames in use. `LeavesReadOnly` is about leaf entries only: fork sets the W bit
in the tables above read-only leaves, so nothing is provable from the table
bits. `MapInv` is `NoDangling` and `OnePageEach`, which is stronger than
`PrivateIsPrivate`: frames shared by fork are mapped at the same page in both.
It assumes `NoSharedShrink`: RODATA is not given back, or nobody forks. Without
that it is false (`rodata_shrink`). `NoLeak` assumes that nobody forks; what
fork loses is `NoOtherLoss`, proved without a condition (`LossesAreTwo`): a
fork at the limit takes as many distinct frames as it copies pages
(`FreshSize`), and no space maps them. Launch and fork map
many pages at once; that they do so one to one is `AssignFacts`.

The last section of that module is about the frames of the code, which
`exec_init` takes to be in sequence. It assumes `FreshInSequence` of the
allocator besides: the first frames out of an empty region are in sequence,
from whatever word the search starts. The code is the first segment that a
launch maps, so its pages are given the first frames (`CodeRank`). `CodeMapped`
(all of the code is mapped from launch to exit) is the strengthening: it makes
fork share every code page with the child. No other step touches code, so only
a launch can put it out of sequence, and only one that finds frames in use
(`OnlyLossBreaksSequence`). Without fork there are none, by `OneSpace`
(`CodeStaysInSequence`).

`PageAllocProofs`. Assumption: the geometry of `memory.h` (bitmap within word
0, at least three words searched, the searched words inside the region).
`TypeOK`, `BitmapIsSafe` and `CountIsExact` hold for any number of holders.
`NoAlias` and `MarkedIsHeld` assume `FewHolders`: an allocation returns a frame
in use only when the search runs off the end while word 0 is full (`SearchFinds`),
so word 0, the last word and the frame handed out again would all be held
(`EndsTaken`), which is one frame more than there are holders. For words of 32
bits the bound is 64 holders in OS_PT_REG and 61 in USER_REG. It is the worst
case over all orders of allocation and release, and it is tight: with one holder
more TLC finds a frame handed out twice.
`AllocFollowsSearch` says that `StopAt`, `SearchWord` and `FreeBit` together
find what `FreePage` finds, with any number of holders: each is the least
candidate of its range, and least elements are unique. `SearchKeepsPromise`
takes `SearchFinds` through n calls in a row: with `Zone` for `Frames`, the
searched words for `Positions` and the bound of `FewHolders` for `FewFrames` it
is `AllocAssumption`, so that the theorems about `AddressSpace` hold over the
real search in a region of any size. In the same way `SearchInSequence` is
`FreshInSequence` for up to `WORD` pages of code (a program has 8, a word 32
bits): n calls on an empty region find the first word with room, or word 0
behind the frames of the bitmap, and go on from there into word 1 at most.
`OnlySearchedIsHeld` holds for any number of holders: bit `WORD` is only ever
returned for word 0, so even the frame handed out twice is one of word 1.

`ShellProofs`. Assumptions: lines contain no NUL and may have any length; the
buffer has at least two cells from `cmd[4]` on; `WRAP` exceeds 48, the code of
the character 0. `ParserStaysInBuffer` is proved with `EdgeInv`: when the loop
comes to the end of the buffer, its last turn read a character other than NUL
there, or skipped to it over a separator in the cell before. The other two
theorems are about lines that fit. That the shell goes on only after such a line
is part of `ShellTypes`, and gives it for the line before a bare `init`.
`ShellInv` says of the line typed last, and of the
line before it when the last one is a bare `init`: the buffer still holds it,
everything before the argument being read is stored in its field, and `value`
is what the digits read so far are worth. It is stated with `Rank`, the number
of the argument that starts at a position, because `parse_init` counts
separators and the specification counts arguments. That a number reduced
after every digit is the number reduced once is `ModDigit`.

Induction. The library's induction theorems take an operator, which these
provers cannot instantiate. Where a proof needs induction over numbers it takes
the least element of a set of counterexamples instead (`NatMin`, `LeastNat`,
from `WFMin` and the order of the naturals). In this way `ShellProofs` proves
that the recursive function `Upto` exists and obeys its equation, and
`PageAllocProofs` the same of the loop in `get_free_pages`.

TLC also finds every inductive invariant to hold in the instances of section 3.

Only model-checked: the liveness properties `EveryReadyRuns`, `SleepersWake`
and `PickEnds` (fairness is out of the prover's reach), and the three
disagreements, which are counterexamples. Every invariant and action property of
a passing run is a theorem; those whose theorem has a condition (`FewHolders`,
`NoSharedShrink`, `~CanFork`, `FreshInSequence`) are false without it or need it
of the allocator, as said above.

## 5. Not modelled

* `os_alloc`, `os_free`, `node_alloc` and the lists of `lib.c`: the build calls
  `os_alloc` three times, all at start-up, and the callers of the rest are
  under `#if 0`, so there is no sequence of calls to check.
* The frame pushed for a signal handler on a user stack that is not mapped (the
  kernel faults inside the handler), and what a handler does to registers.
* Writes through frame 0 or the context at address 0 after exhaustion.
* APIC, GDT, TSS and IDT programming, boot, console drivers except
  `serial_read`, printf and the string functions: one-time set-up or
  sequential code without shared state.
* `configure()`: it sets flags of kernel entries that no model distinguishes.
* User programs: the models let a program make any call at any time.

## 6. State and limits

All modules, refinements and proofs of the plan are done. What the proofs do not
reach:

1. `Scheduler` and `PageTables` assume that an allocation in OS_PT_REG returns a
   free frame. `SearchKeepsPromise` gives that for up to 64 frames in use at a
   time. The bound is not part of those two models: in `Scheduler` a pgd stands
   for a whole tree of tables, so its frames do not count those of the region,
   and in `PageTables` the guard of `take` stands for it.
2. Liveness, for which TLC's instances and the variants proved as action
   properties (`RoundRobin`, `ScanAdvances`) are what there is.
