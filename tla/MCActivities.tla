---------------------------- MODULE MCActivities ----------------------------
EXTENDS Activities, TLC
CONSTANTS h1, h2, j1
MCHandles == {h1, h2}
MCJobs == {j1}
\* A child that is not late yet, or takes its input, is a plain one.
MCKindsOf == h1 :> {"timed", "detached"} @@ h2 :> {"fed"}
MCPlain == [h \in MCHandles |-> {"plain"}]
=============================================================================
