-------------------------- MODULE MCContextSwitch --------------------------
(* Instances of ContextSwitch for TLC.                                     *)
EXTENDS ContextSwitch

\* A loop of three instructions: a context that goes on from a state it was in
\* earlier, or from the state of another one, skips one.
Loop(a) == CASE a = "a" -> "b" [] a = "b" -> "c" [] a = "c" -> "a"
=============================================================================
