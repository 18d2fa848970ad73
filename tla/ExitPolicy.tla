----------------------------- MODULE ExitPolicy -----------------------------
(***************************************************************************)
(* What a finished command or byte pipeline is judged by: pipefail with the *)
(* exception that keeps `cmd | head` usable, --accept lists, and the segment *)
(* an error names.                                                         *)
(*                                                                         *)
(* A status is a function from the indices of the segments that have one to *)
(* their endings; accept[i] is the --accept list of segment i, empty when it *)
(* has none (the code refuses an empty list).                              *)
(***************************************************************************)
EXTENDS Naturals, FiniteSets

SIGINT == 2
SIGKILL == 9
SIGPIPE == 13

Exited(code) == [kind |-> "exit", code |-> code, success |-> code = 0]
Signaled(sig) == [kind |-> "signal", code |-> sig, success |-> FALSE]
ExecFailure == [kind |-> "exec", code |-> 0, success |-> FALSE]

IsSigpipe(s) == s.kind = "signal" /\ s.code = SIGPIPE

Accepts(codes, s) == s.kind = "exit" /\ s.code \in codes

\* An exit that excuses an upstream SIGPIPE.
DownstreamAccepted(s, codes) == Accepts(IF codes = {} THEN {0} ELSE codes, s)

\* Mutant: any other accepted segment excuses a SIGPIPE, upstream or not.
ToleratedEitherWay(status, accept) ==
  [i \in DOMAIN status |->
     IF /\ IsSigpipe(status[i])
        /\ \E j \in DOMAIN status :
              j # i /\ DownstreamAccepted(status[j], accept[j])
     THEN [status[i] EXCEPT !.success = TRUE]
     ELSE status[i]]

Tolerated(status, accept) ==
  [i \in DOMAIN status |->
     IF /\ IsSigpipe(status[i])
        /\ \E j \in DOMAIN status :
              j > i /\ DownstreamAccepted(status[j], accept[j])
     THEN [status[i] EXCEPT !.success = TRUE]
     ELSE status[i]]

Succeeded(status) ==
  DOMAIN status # {} /\ \A i \in DOMAIN status : status[i].success

Least(S) == CHOOSE i \in S : \A j \in S : i <= j

\* The segment a failure names, or 0.
FirstRejected(status, rejected) ==
  LET plain == {i \in rejected : ~IsSigpipe(status[i])}
  IN  IF plain # {} THEN Least(plain)
      ELSE IF rejected # {} THEN Least(rejected) ELSE 0

RejectedSegment(status, accept, requireZero) ==
  LET strict == \/ requireZero
                \/ /\ Cardinality(DOMAIN accept) > 1
                   /\ \E i \in DOMAIN accept : accept[i] # {}
      Rejected(i) ==
        /\ ~(status[i].success /\ IsSigpipe(status[i]))
        /\ IF accept[i] = {} THEN strict /\ ~status[i].success
           ELSE ~Accepts(accept[i], status[i])
  IN  FirstRejected(status, {i \in DOMAIN status : Rejected(i)})

-----------------------------------------------------------------------------
(* The rule the manual states, on how each segment really ended. *)

\* A segment ended as its author wanted: its own list, or 0 without one.
Wanted(s, codes) == Accepts(IF codes = {} THEN {0} ELSE codes, s)

\* A SIGPIPE death is excused by any later segment that ended as wanted.
Excused(ends, accept, i) ==
  /\ IsSigpipe(ends[i])
  /\ \E j \in DOMAIN ends : j > i /\ Wanted(ends[j], accept[j])

RuleFails(ends, accept) ==
  {i \in DOMAIN ends : ~Wanted(ends[i], accept[i]) /\ ~Excused(ends, accept, i)}

RuleNames(ends, accept) ==
  LET plain == {i \in RuleFails(ends, accept) : ~IsSigpipe(ends[i])}
  IN  IF RuleFails(ends, accept) = {} THEN 0
      ELSE Least(IF plain = {} THEN RuleFails(ends, accept) ELSE plain)

=============================================================================
