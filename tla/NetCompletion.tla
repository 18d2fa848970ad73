------------------------------ MODULE NetCompletion ------------------------------
(***************************************************************************)
(* What the network runtime promises its evaluator (crates/xsh-net, the    *)
(* type NetOperation): a submission is refused at once or accepted, and an *)
(* accepted operation gets one result, which never changes.                *)
(***************************************************************************)
CONSTANT Op

Results == {"response", "error", "timeout", "canceled", "failed"}

VARIABLES outcome, delivered

cVars == <<outcome, delivered>>

CInit ==
    /\ outcome = [o \in Op |-> "new"]
    /\ delivered = {}

Refuse(o) ==
    /\ outcome[o] = "new"
    /\ outcome' = [outcome EXCEPT ![o] = "refused"]
    /\ UNCHANGED delivered

Accept(o) ==
    /\ outcome[o] = "new"
    /\ outcome' = [outcome EXCEPT ![o] = "accepted"]
    /\ UNCHANGED delivered

\* Some of the accepted operations get their results, all at once at a shutdown.
Resolve ==
    /\ \E done \in SUBSET {o \in Op : outcome[o] = "accepted"}, r \in Results :
           outcome' = [o \in Op |-> IF o \in done THEN r ELSE outcome[o]]
    /\ UNCHANGED delivered

Deliver(o) ==
    /\ outcome[o] \in Results
    /\ o \notin delivered
    /\ delivered' = delivered \cup {o}
    /\ UNCHANGED outcome

CNext == Resolve \/ \E o \in Op : Refuse(o) \/ Accept(o) \/ Deliver(o)

CSpec == CInit /\ [][CNext]_cVars

================================================================================
