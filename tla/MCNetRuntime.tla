------------------------------ MODULE MCNetRuntime ------------------------------
(* Two operations on one permit: one waits while the other runs.  One of them has *)
(* a deadline, the other writes a file.  Where one is admitted at a time, the     *)
(* second is refused or takes the place of one that ended.                        *)
EXTENDS NetRuntime

CONSTANTS o1, o2

MCTwo == {o1, o2}
MCDeadlined == {o1}
MCAtomic == {o2}
================================================================================
