----------------------------- MODULE MCShutdown -----------------------------
(***************************************************************************)
(* Shutdown with a few group numbers and two signals, one of them hooked.  *)
(***************************************************************************)
EXTENDS Shutdown, TLC

CONSTANTS g1, g2, g3, int, term

Symmetry == Permutations(Group)

=============================================================================
