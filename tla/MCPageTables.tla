---------------------------- MODULE MCPageTables ----------------------------
(* Instances of PageTables for TLC.                                        *)
EXTENDS PageTables, TLC

Region == 1 .. 33

\* The lowest frames that are not in use, in the order pgd, pud, pmds, pts.
FirstFree(A, N) ==
    LET free == Frames \ A
        frameRank(f) == Cardinality({g \in free : g < f})
        nodeRank(n)  == Cardinality({m \in N : m[1] > n[1] \/ (m[1] = n[1] /\ m[2] < n[2])})
    IN  IF Cardinality(free) < Cardinality(N) THEN {}
        ELSE {[n \in N |-> CHOOSE f \in free : frameRank(f) = nodeRank(n)]}

ContextSymmetry == Permutations(Contexts) \union Permutations(Spaces)
=============================================================================
