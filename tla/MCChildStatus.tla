---------------------------- MODULE MCChildStatus ----------------------------
(* A small instance of ChildStatus: two process ids, shared by two timed      *)
(* children, one untimed child and strangers, so that numbers are recycled.   *)
EXTENDS ChildStatus, TLC

CONSTANTS t1, t2, u1, p1, p2

MCTimed == {t1, t2}
MCUntimed == {u1}
MCPid == {p1, p2}

\* Timed children and process ids are interchangeable.
Symmetry == Permutations(MCTimed) \cup Permutations(MCPid)
==============================================================================
