------------------------------ MODULE MCShell ------------------------------
(* Instances of Shell for TLC.                                             *)
EXTENDS Shell

Line(cmd, tail) == [cmd |-> cmd, tail |-> tail]

\* Every tail of up to three characters made of two digits and separators; two,
\* four and five arguments, where five just fill the buffer; a line that fills
\* it and ends in a separator, and one that is too long; and two commands that
\* end at cmd[4] and behind it.
Typed ==
    {Line("init", t) : t \in UNION {[1 .. n -> {1, 7, Sep}] : n \in 0 .. 3}}
        \union {Line("init", <<Sep, 1, Sep, Sep, 7>>),
                Line("init", <<Sep, 2, Sep, 3, Sep, 4, Sep, 5>>),
                Line("init", <<Sep, 6, Sep, Sep, 5, Sep, 4, Sep, 3, Sep, 2>>),
                Line("init", <<Sep, 9, 9, 9, 9, 9, 9, 9, 9, 9, Sep>>),
                Line("init", <<Sep, 8, 8, 8, 8, 8, 8, 8, 8, 8, 8, 8>>),
                Line("other", <<>>), Line("other", <<Letter>>), Short}

\* Memory that is clear, and memory without an end.
Memory == {[i \in 0 .. Room - 1 |-> c] : c \in {NUL, 7}}
=============================================================================
