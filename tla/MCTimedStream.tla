---------------------------- MODULE MCTimedStream ----------------------------
(* One timed stream among strangers that recycle its process id, a reaper that *)
(* waits for any child, and a program that changes the SIGCHLD action.         *)
EXTENDS TimedStream

CONSTANTS t1, p1

MCTimed == {t1}
MCPid == {p1}
==============================================================================
