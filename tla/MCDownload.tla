----------------------------- MODULE MCDownload -----------------------------
(***************************************************************************)
(* A small instance of Download for TLC: two downloads to one destination, *)
(* the two workers of the file lane and a queue shorter than the downloads *)
(* can fill.                                                               *)
(***************************************************************************)
EXTENDS Download, TLC

CONSTANTS a, b, w1, w2

MCDownloads == {a, b}
MCWorkers == {w1, w2}
MCChoices == {[atomic |-> TRUE, overwrite |-> TRUE],
              [atomic |-> FALSE, overwrite |-> FALSE]}

Symmetric == Permutations(MCDownloads) \cup Permutations(MCWorkers)
=============================================================================
