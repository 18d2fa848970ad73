----------------------------- MODULE MCPipeline -----------------------------
(***************************************************************************)
(* Pipelines of a few segments, with and without --accept lists.  Exit code *)
(* 2 has the number of SIGINT, which a list must never take for it.        *)
(***************************************************************************)
EXTENDS Pipeline

ExitCodes == {0, 2}
SomeLists == {{}, {2}}
NoLists == {{}}

=============================================================================
