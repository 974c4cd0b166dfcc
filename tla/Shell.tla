------------------------------- MODULE Shell -------------------------------
(***************************************************************************)
(* The shell's command line and the arguments of the init command:         *)
(* serial_read(), the loop of invoke_dsh(), parse_init() and the registers *)
(* exec_init() enters the program with.                                    *)
(*                                                                         *)
(* The buffer of the shell comes from os_alloc(), which does not clear it, *)
(* and is used again for every line; the arguments are kept between        *)
(* commands.  The first four characters of a line are abstracted to        *)
(* whether they are "init"; the buffer is modelled from cmd[4] on, so its  *)
(* index 1 is cmd[5].  A line may have any length: neither serial_read()   *)
(* nor parse_init() knows where the buffer ends.                           *)
(***************************************************************************)
EXTENDS Integers, Sequences, FiniteSets

CONSTANTS
    Lines,      \* what may be typed: a command and the characters from cmd[4]
    Room,       \* cells of the buffer from cmd[4] on: 1024 less 4
    BootBufs,   \* what the memory of the buffer may hold before the first line
    WRAP        \* values of a u64: 2^64

Sep    == 10            \* a space or a tab
Letter == 11            \* a character that is no digit, say 'a'
NUL    == 12
Digit  == 0 .. 9
Cells  == Digit \union {Sep, Letter, NUL}

\* A line of fewer than four characters leaves cmd[4] and the rest alone.
Short == [cmd |-> "short", tail |-> <<>>]

ASSUME LineAssumption ==
    \A l \in Lines : /\ l.cmd \in {"init", "other", "short"}
                     /\ l.tail \in Seq(Cells \ {NUL})
ASSUME RoomAssumption == /\ Room \in Nat /\ Room >= 2
                         /\ BootBufs \subseteq [0 .. Room - 1 -> Cells]
ASSUME WrapAssumption == WRAP \in Nat /\ WRAP > 48

\* The fields of struct init_args in order: the register each is loaded into.
init_args == <<"rdi", "rsi", "rcx", "rdx", "r8">>

\* Where a C function finds its first five parameters.
sysv == <<"rdi", "rsi", "rdx", "rcx", "r8">>

VARIABLES
    buf,        \* command, from cmd[4] on
    args,       \* struct init_args, by field
    pc,         \* "prompt", "parse" (in parse_init), "run" (a program runs),
                \* "lost" (something was stored behind the buffer or the
                \* arguments) or "astray" (parse_init reads behind the buffer)
    ctr, num, value,    \* locals of parse_init, ctr less 4
    line, prev, \* the last two lines
    regs        \* the registers the last program was entered with

parseVars == <<ctr, num, value>>
vars == <<buf, args, pc, parseVars, line, prev, regs>>

-----------------------------------------------------------------------------
\* The carriage return is stored with the line.
Bug_serial_read(l) ==
    buf' = IF l.cmd = "short" THEN buf
           ELSE [i \in DOMAIN buf |-> IF i < Len(l.tail) THEN l.tail[i + 1]
                                      ELSE IF i = Len(l.tail) THEN Letter
                                      ELSE IF i = Len(l.tail) + 1 THEN NUL ELSE buf[i]]

\* The line and its end, as far as there is room for them, and what an earlier
\* line left behind it.
serial_read(l) ==
    buf' = IF l.cmd = "short" THEN buf
           ELSE [i \in DOMAIN buf |-> IF i < Len(l.tail) THEN l.tail[i + 1]
                                      ELSE IF i = Len(l.tail) THEN NUL ELSE buf[i]]

\* The line and its end are inside the buffer.
Fits(l) == Len(l.tail) + 1 <= Room

\* A line is read; init goes on to parse_init(), the other commands print.  A
\* line that does not fit has overwritten what lies behind the buffer; what the
\* shell does from then on is not modelled.
invoke_dsh(l) ==
    /\ pc = "prompt"
    /\ serial_read(l)
    /\ line' = l
    /\ prev' = line
    /\ pc' = IF ~Fits(l) THEN "lost" ELSE IF l.cmd = "init" THEN "parse" ELSE "prompt"
    /\ ctr' = 1 /\ num' = 1 /\ value' = 0
    /\ UNCHANGED <<args, regs>>

\* cmd[ctr] - '0' as it is added to a u64.
Worth(c) == CASE c \in Digit -> c
              [] c = Sep -> WRAP + 32 - 48
              [] c = Letter -> 97 - 48
              [] c = NUL -> WRAP - 48

\* The inner loop skips one separator only.
Bug_skip(i) == i + 1

\* Where the inner loop over separators stops: behind the buffer, if it meets
\* nothing else before.
SkipOver(C, i) == CHOOSE j \in i .. Room :
                     /\ j = Room \/ buf[j] \notin C
                     /\ \A k \in i .. j - 1 : buf[k] \in C

\* The inner loop takes the end of the line for a separator.
Bug_skip_end(i) == SkipOver({Sep, NUL}, i)

skip(i) == SkipOver({Sep}, i)

\* The loops go on behind the end of the buffer, where nothing of the shell's
\* ends them; what they find there is not modelled.
astray ==
    /\ pc = "parse"
    /\ \/ ctr = Room
       \/ ctr < Room /\ buf[ctr] = Sep /\ num <= 5 /\ skip(ctr) = Room
    /\ pc' = "astray"
    /\ UNCHANGED <<buf, args, parseVars, line, prev, regs>>

\* A sixth value is stored behind struct init_args, among the locals of
\* invoke_dsh(); what the shell does from then on is not modelled.
overrun ==
    /\ pc = "parse" /\ ctr < Room /\ num > 5 /\ buf[ctr] \in {Sep, NUL}
    /\ pc' = "lost"
    /\ UNCHANGED <<buf, args, parseVars, line, prev, regs>>

\* A separator stores the value and moves on to what follows the separators,
\* which may be the end of the line; the character is then added to the value.
parse_char ==
    /\ pc = "parse" /\ ctr < Room /\ buf[ctr] # NUL
    /\ buf[ctr] = Sep => num <= 5 /\ skip(ctr) < Room
    /\ LET sep == buf[ctr] = Sep
           at  == IF sep THEN skip(ctr) ELSE ctr
       IN  /\ args' = IF sep THEN [args EXCEPT ![init_args[num]] = value] ELSE args
           /\ num' = IF sep THEN num + 1 ELSE num
           /\ value' = ((IF sep THEN 0 ELSE value) * 10 + Worth(buf[at])) % WRAP
           /\ ctr' = at + 1
    /\ UNCHANGED <<buf, pc, line, prev, regs>>

\* The end of parse_init(), and exec_init().
exec_init ==
    /\ pc = "parse" /\ ctr < Room /\ buf[ctr] = NUL /\ num <= 5
    /\ args' = [args EXCEPT ![init_args[num]] = value]
    /\ regs' = args'
    /\ pc' = "run"
    /\ UNCHANGED <<buf, parseVars, line, prev>>

\* The last process ends and ret_from_user() resumes the shell.
program_ends ==
    /\ pc = "run"
    /\ pc' = "prompt"
    /\ UNCHANGED <<buf, args, parseVars, line, prev, regs>>

Init ==
    /\ buf \in BootBufs
    /\ args = [r \in {init_args[i] : i \in 1 .. 5} |-> 0]
    /\ regs = args
    /\ pc = "prompt"
    /\ ctr = 1 /\ num = 1 /\ value = 0
    /\ line = Short /\ prev = Short

Next ==
    \/ \E l \in Lines : invoke_dsh(l)
    \/ parse_char
    \/ astray
    \/ overrun
    \/ exec_init
    \/ program_ends

Spec == Init /\ [][Next]_vars

-----------------------------------------------------------------------------
(* What a line means.                                                      *)

\* The places where the numbers of a line start, and the number at a place.
Starts(t) == {i \in 1 .. Len(t) : t[i] \in Digit /\ (i = 1 \/ t[i - 1] = Sep)}
Upto(t, i) ==           \* the number in t from place i to each place after it
    LET upto[j \in i - 1 .. Len(t)] ==
            IF j < i THEN 0
            ELSE IF t[j] = Sep THEN upto[j - 1] ELSE upto[j - 1] * 10 + t[j]
    IN  upto
NumberEnd(t, i) ==
    LET ends == {j \in i .. Len(t) : \A k \in i .. j : t[k] \in Digit}
    IN  CHOOSE j \in ends : \A k \in ends : k <= j
NumberAt(t, i) == Upto(t, i)[NumberEnd(t, i)] % WRAP
NumArgs(t) == Cardinality(Starts(t))
Number(t, k) ==
    NumberAt(t, CHOOSE i \in Starts(t) : Cardinality({j \in Starts(t) : j < i}) = k - 1)

\* "init [arg1] [arg2] ... [arg5]": one separator after the command, one to
\* five numbers with separators between them, and nothing behind the last.
WellFormed(l) ==
    /\ l.cmd = "init" /\ Len(l.tail) >= 2
    /\ \A i \in 1 .. Len(l.tail) : l.tail[i] \in Digit \union {Sep}
    /\ l.tail[1] = Sep /\ l.tail[2] \in Digit /\ l.tail[Len(l.tail)] \in Digit
    /\ NumArgs(l.tail) \in 1 .. 5

-----------------------------------------------------------------------------
(* Properties.                                                             *)

\* Every variable has its type.
TypeOK ==
    /\ buf \in [0 .. Room - 1 -> Cells]
    /\ args \in [{init_args[i] : i \in 1 .. 5} -> 0 .. WRAP - 1]
    /\ regs \in [{init_args[i] : i \in 1 .. 5} -> 0 .. WRAP - 1]
    /\ pc \in {"prompt", "parse", "run", "lost", "astray"}
    /\ ctr \in 0 .. Room /\ num \in 1 .. 6 /\ value \in 0 .. WRAP - 1

\* parse_init() reads behind the buffer in two cases only, however it continues
\* into what earlier lines or the boot left there: the last cell holds no end,
\* or the end in the last cell follows a separator, which parse_init() skips
\* together with the end.
StaysInBuffer == pc = "astray" => buf[Room - 1] # NUL \/ buf[Room - 2] = Sep

\* parse_init() neither stores behind the arguments nor reads behind the buffer.
Safe == pc \notin {"lost", "astray"}

\* The numbers of a well-formed line that fits arrive in the fields of
\* init_args in order, whatever longer lines, malformed lines and other
\* arguments were typed before, and parse_init() stays in the buffer and in
\* those fields.
ArgsArrive ==
    WellFormed(line) /\ Fits(line) =>
        /\ Safe
        /\ pc = "run" => \A k \in 1 .. NumArgs(line.tail) :
                             regs[init_args[k]] = Number(line.tail, k)

\* init without arguments right after a well-formed init line starts the
\* program with the same arguments again: serial_read() ends the line before
\* the character parse_init() starts at and leaves the rest of the old line.
BareInitRepeats ==
    line = [cmd |-> "init", tail |-> <<>>] /\ WellFormed(prev) =>
        /\ Safe
        /\ pc = "run" => \A k \in 1 .. NumArgs(prev.tail) :
                             regs[init_args[k]] = Number(prev.tail, k)

\* "usage: init [arg1] [arg2] ... [arg5]": the k-th number is the k-th
\* parameter of the program's main().
ArgsInOrder ==
    pc = "run" /\ WellFormed(line) =>
        \A k \in 1 .. NumArgs(line.tail) : regs[sysv[k]] = Number(line.tail, k)
=============================================================================
