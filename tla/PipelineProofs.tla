----------------------------- MODULE PipelineProofs -----------------------------
(***************************************************************************)
(* Proofs about ExitPolicy and Pipeline, for every number of segments, every *)
(* set of exit codes and every choice of --accept lists.                   *)
(***************************************************************************)
EXTENDS Pipeline, FiniteSetTheorems, WellFoundedInduction, TLAPS

--------------------------------------------------------------------------------
(* The policy. *)

\* What the runtime can know of how a segment ended.
Outcome == {s \in [kind : {"exit", "signal", "exec"}, code : Nat, success : BOOLEAN] :
              s.success <=> s.kind = "exit" /\ s.code = 0}

\* The least element of a set of segments belongs to it.
LEMMA LeastIsMember ==
    ASSUME NEW S \in SUBSET Nat, S # {}
    PROVE  Least(S) \in S
  <1>1. PICK x \in S : \A y \in S : ~(<<y, x>> \in OpToRel(<, Nat))
    BY NatLessThanWellFounded, WFMin
  <1>2. \A y \in S : ~(y < x)
    BY <1>1, Zenon DEF OpToRel
  <1>3. \A y \in S : x <= y
    BY <1>2
  <1>4. QED
    BY <1>3 DEF Least

\* Tolerating SIGPIPE deaths changes nothing but whether a segment succeeded,
\* and that only for the deaths the rule excuses.
LEMMA ToleratedFacts ==
    ASSUME NEW st, NEW accept, NEW i \in DOMAIN st, st[i] \in Outcome
    PROVE  LET s == Tolerated(st, accept)[i]
           IN  /\ s.kind = st[i].kind
               /\ s.code = st[i].code
               /\ s.success <=> st[i].success \/ Excused(st, accept, i)
  BY DEF Tolerated, Outcome, Excused, Wanted, DownstreamAccepted, IsSigpipe

\* With a zero required the code rejects exactly the segments that fail the rule.
LEMMA RejectsByRule ==
    ASSUME NEW st, NEW accept, NEW i \in DOMAIN st, st[i] \in Outcome
    PROVE  LET s == Tolerated(st, accept)[i]
           IN  (/\ ~(s.success /\ IsSigpipe(s))
                /\ IF accept[i] = {} THEN ~s.success ELSE ~Accepts(accept[i], s))
                 <=> i \in RuleFails(st, accept)
  <1> DEFINE s == Tolerated(st, accept)[i]
  <1>1. /\ s.kind = st[i].kind
        /\ s.code = st[i].code
        /\ s.success <=> st[i].success \/ Excused(st, accept, i)
    BY ToleratedFacts
  <1>2. IsSigpipe(s) <=> IsSigpipe(st[i])
    BY <1>1 DEF IsSigpipe
  <1>3. \A codes : Accepts(codes, s) <=> Accepts(codes, st[i])
    BY <1>1 DEF Accepts
  <1> HIDE DEF s
  <1>4. CASE IsSigpipe(st[i])
    BY <1>1, <1>2, <1>3, <1>4 DEF RuleFails, Wanted, Accepts, IsSigpipe, Outcome, s
  <1>5. CASE ~IsSigpipe(st[i])
    <2>1. ~Excused(st, accept, i)
      BY <1>5 DEF Excused
    <2>2. st[i].success <=> Accepts({0}, st[i])
      BY DEF Outcome, Accepts
    <2>3. QED
      BY <1>1, <1>2, <1>3, <1>5, <2>1, <2>2 DEF RuleFails, Wanted, s
  <1>6. QED
    BY <1>4, <1>5

\* The segment that is named from the set of rejected ones is the rule's.
LEMMA NamesByRule ==
    ASSUME NEW st, NEW accept, \A i \in DOMAIN st : st[i] \in Outcome
    PROVE  FirstRejected(Tolerated(st, accept), RuleFails(st, accept)) = RuleNames(st, accept)
  <1> DEFINE tol == Tolerated(st, accept)
             fails == RuleFails(st, accept)
  <1>1. fails \subseteq DOMAIN st
    BY DEF RuleFails
  <1>2. \A i \in fails : IsSigpipe(tol[i]) <=> IsSigpipe(st[i])
    BY <1>1, ToleratedFacts DEF IsSigpipe
  <1> HIDE DEF tol, fails
  <1>3. {i \in fails : ~IsSigpipe(tol[i])} = {i \in fails : ~IsSigpipe(st[i])}
    BY <1>2
  <1>4. FirstRejected(tol, fails) = RuleNames(st, accept)
    BY <1>3, Zenon DEF FirstRejected, RuleNames, fails
  <1>5. QED
    BY <1>4 DEF tol, fails

(***************************************************************************)
(* The manual's rule is what the code computes, for any number of segments *)
(* and any lists, whenever something is required of the pipeline: a zero   *)
(* status, or of one of its segments a status of its list.  With nothing   *)
(* required it rejects nothing.  (rejected_segment and                     *)
(* tolerate_upstream_sigpipe against docs/SPEC.md.)                        *)
(***************************************************************************)
THEOREM PolicyIsRule ==
    ASSUME NEW st, NEW accept, NEW requireZero \in BOOLEAN,
           DOMAIN st \subseteq DOMAIN accept,
           \A i \in DOMAIN st : st[i] \in Outcome,
           Cardinality(DOMAIN accept) > 1
    PROVE  RejectedSegment(Tolerated(st, accept), accept, requireZero) =
             IF requireZero \/ \E i \in DOMAIN accept : accept[i] # {}
             THEN RuleNames(st, accept) ELSE 0
  <1> DEFINE tol == Tolerated(st, accept)
             strict == requireZero \/ \E i \in DOMAIN accept : accept[i] # {}
             rejected == {i \in DOMAIN tol :
                            /\ ~(tol[i].success /\ IsSigpipe(tol[i]))
                            /\ IF accept[i] = {} THEN strict /\ ~tol[i].success
                               ELSE ~Accepts(accept[i], tol[i])}
  <1>1. RejectedSegment(tol, accept, requireZero) = FirstRejected(tol, rejected)
    BY DEF RejectedSegment
  <1>2. DOMAIN tol = DOMAIN st
    BY DEF Tolerated
  <1>3. CASE strict
    <2>1. rejected = RuleFails(st, accept)
      <3>1. \A i \in DOMAIN st : i \in rejected <=> i \in RuleFails(st, accept)
        BY <1>2, <1>3, RejectsByRule
      <3>2. RuleFails(st, accept) \subseteq DOMAIN st
        BY DEF RuleFails
      <3>3. QED
        BY <1>2, <3>1, <3>2
    <2>2. QED
      BY <1>1, <1>3, <2>1, NamesByRule
  <1>4. CASE ~strict
    <2>1. rejected = {}
      BY <1>2, <1>4
    <2>2. QED
      BY <1>1, <1>4, <2>1 DEF FirstRejected
  <1>5. QED
    BY <1>3, <1>4

--------------------------------------------------------------------------------
(* The inductive invariant of Pipeline: what is known at each place.        *)

\* Segments are started in order, before anything is waited for or signalled.
Starting ==
    pc = "start" =>
        /\ next \in Segment
        /\ started = 1 .. next - 1
        /\ DOMAIN status = {}
        /\ sent = {}
        /\ call.retained => reaped = {}

\* The value is written once, except that a setup or input error is kept while
\* the killed children are waited for.
ValueLast ==
    /\ pc \notin {"abort", "done"} => result.kind = "none"
    /\ pc = "abort" => result.kind \in {"setup", "io"}

\* A status is recorded for a segment only when that segment was reaped.
RecordsReaped ==
    \A i \in started \cap DOMAIN status : i \in reaped /\ status[i] = ends[i]

\* The loop goes on while a segment is missing, and only then.
LoopsWhilePending ==
    /\ pc = "check" => Pending # {}
    /\ pc = "finish" => Pending = {}

\* Past the start a segment is missing for a reason that is on record.
MissingForReason ==
    pc \notin {"start", "abort", "done"} =>
        \/ started = Segment \/ primary
        \/ \E i \in DOMAIN status \ started : status[i] = ExecFailure

\* What the group was sent is known to whoever writes the value.
SignalsOnRecord ==
    sent # {} => limit \/ cancel # "no" \/ pc \in {"abort", "expire", "done"}

\* The group's number is free only when its last member was reaped.
NumberPinned ==
    call.retained =>
        /\ stranger => started # {} /\ started \subseteq reaped
        /\ pc # "done" => reaped \subseteq DOMAIN status

PInv ==
    /\ TypeOK
    /\ Starting
    /\ ValueLast
    /\ RecordsReaped
    /\ LoopsWhilePending
    /\ MissingForReason
    /\ SignalsOnRecord
    /\ NumberPinned
    /\ ReapedUnlessAbandoned
    /\ SignalledNeverCompletes
    /\ StrayOnlyAtLimit

--------------------------------------------------------------------------------
(* The runtime's steps. *)

\* One more segment runs; a recorded signal is why the rest is missing.
LEMMA StartSegmentKeepsInv ==
    ASSUME PInv, StartSegment
    PROVE  PInv'
  <1>1. /\ TypeOK'
        /\ Starting'
    BY PipelineAssumption DEF StartSegment, PInv, Segment, env, TypeOK, Starting
  <1>2. /\ RecordsReaped'
        /\ LoopsWhilePending'
        /\ MissingForReason'
    BY DEF StartSegment, PInv, Segment, env, Starting, RecordsReaped,
       LoopsWhilePending, MissingForReason
  <1>3. /\ ValueLast'
        /\ ReapedUnlessAbandoned'
    BY DEF StartSegment, PInv, ValueLast, ReapedUnlessAbandoned
  <1>4. /\ SignalsOnRecord'
        /\ NumberPinned'
        /\ SignalledNeverCompletes'
        /\ StrayOnlyAtLimit'
    BY DEF StartSegment, PInv, env, Starting, SignalsOnRecord, NumberPinned,
       SignalledNeverCompletes, StrayOnlyAtLimit
  <1>5. QED
    BY <1>1, <1>2, <1>3, <1>4 DEF PInv

\* The segment whose command cannot run is on record, and none follows it.
LEMMA ExecFailsKeepsInv ==
    ASSUME PInv, ExecFails
    PROVE  PInv'
  <1>1. /\ TypeOK'
        /\ Starting'
    BY PipelineAssumption DEF ExecFails, Extend, Loop, PInv, Segment, kids, env,
       TypeOK, Starting
  <1>2. /\ RecordsReaped'
        /\ LoopsWhilePending'
    BY DEF ExecFails, Extend, Loop, PInv, Pending, Segment, kids, Starting, RecordsReaped,
           LoopsWhilePending
  <1>3. MissingForReason'
    <2>1. next \notin started /\ started' = started
      BY DEF ExecFails, kids, PInv, Starting, Segment
    <2>2. next \in DOMAIN status' /\ status'[next] = ExecFailure
      BY DEF ExecFails, Extend
    <2>3. QED
      BY <2>1, <2>2 DEF MissingForReason
  <1>4. /\ ValueLast'
        /\ ReapedUnlessAbandoned'
    BY DEF ExecFails, Loop, PInv, ValueLast, ReapedUnlessAbandoned
  <1>5. /\ SignalsOnRecord'
        /\ NumberPinned'
        /\ SignalledNeverCompletes'
        /\ StrayOnlyAtLimit'
    BY DEF ExecFails, PInv, kids, env, Starting, SignalsOnRecord, NumberPinned,
       SignalledNeverCompletes, StrayOnlyAtLimit
  <1>6. QED
    BY <1>1, <1>2, <1>3, <1>4, <1>5 DEF PInv

\* A command that cannot be built leaves its pipeline before any signal was sent.
LEMMA OpenFailsKeepsInv ==
    ASSUME PInv, OpenFails
    PROVE  PInv'
  <1>1. /\ TypeOK'
        /\ Starting'
    BY DEF OpenFails, Return, PInv, kids, env, TypeOK, Starting
  <1>2. /\ RecordsReaped'
        /\ LoopsWhilePending'
        /\ MissingForReason'
    BY DEF OpenFails, Return, PInv, Starting, RecordsReaped, LoopsWhilePending,
       MissingForReason
  <1>3. /\ ValueLast'
        /\ ReapedUnlessAbandoned'
    BY DEF OpenFails, Return, PInv, Starting, ValueLast, ReapedUnlessAbandoned
  <1>4. /\ SignalsOnRecord'
        /\ NumberPinned'
        /\ SignalledNeverCompletes'
        /\ StrayOnlyAtLimit'
    BY DEF OpenFails, PInv, kids, env, Starting, SignalsOnRecord, NumberPinned,
       SignalledNeverCompletes, StrayOnlyAtLimit
  <1>5. QED
    BY <1>1, <1>2, <1>3, <1>4 DEF PInv

\* A child that is refused is killed with the others while nothing was reaped,
\* so the number is still theirs.
LEMMA AssignFailsKeepsInv ==
    ASSUME PInv, AssignFails
    PROVE  PInv'
  <1>1. /\ TypeOK'
        /\ Starting'
    BY PipelineAssumption DEF AssignFails, Kill, PInv, Segment, env, TypeOK,
       Starting
  <1>2. /\ RecordsReaped'
        /\ LoopsWhilePending'
        /\ MissingForReason'
    BY DEF AssignFails, PInv, Starting, RecordsReaped, LoopsWhilePending,
       MissingForReason
  <1>3. /\ ValueLast'
        /\ ReapedUnlessAbandoned'
    BY DEF AssignFails, ValueLast, ReapedUnlessAbandoned
  <1>4. /\ SignalsOnRecord'
        /\ NumberPinned'
        /\ SignalledNeverCompletes'
        /\ StrayOnlyAtLimit'
    BY DEF AssignFails, Kill, PInv, env, TypeOK, Starting, SignalsOnRecord,
       NumberPinned, SignalledNeverCompletes, StrayOnlyAtLimit
  <1>5. QED
    BY <1>1, <1>2, <1>3, <1>4 DEF PInv

\* The first segment is missing from the status: it pins the number that is killed.
LEMMA FeedFailsKeepsInv ==
    ASSUME PInv, FeedFails
    PROVE  PInv'
  <1>1. /\ TypeOK'
        /\ Starting'
    BY DEF FeedFails, Kill, PInv, kids, env, TypeOK, Starting
  <1>2. /\ RecordsReaped'
        /\ LoopsWhilePending'
        /\ MissingForReason'
    BY DEF FeedFails, PInv, kids, RecordsReaped, LoopsWhilePending, MissingForReason
  <1>3. /\ ValueLast'
        /\ ReapedUnlessAbandoned'
    BY DEF FeedFails, ValueLast, ReapedUnlessAbandoned
  <1>4. /\ SignalsOnRecord'
        /\ NumberPinned'
        /\ SignalledNeverCompletes'
        /\ StrayOnlyAtLimit'
    BY DEF FeedFails, Kill, PInv, Pending, kids, env, TypeOK, SignalsOnRecord,
       NumberPinned, SignalledNeverCompletes, StrayOnlyAtLimit
  <1>5. QED
    BY <1>1, <1>2, <1>3, <1>4 DEF PInv

\* A pass records exactly what it reaps; what is left decides whether to go on.
LEMMA TryWaitAllKeepsInv ==
    ASSUME PInv, TryWaitAll
    PROVE  PInv'
  <1>1. /\ TypeOK'
        /\ Starting'
    BY DEF TryWaitAll, Extend, Return, PInv, env, TypeOK, Starting
  <1>2. /\ RecordsReaped'
        /\ LoopsWhilePending'
        /\ MissingForReason'
    BY DEF TryWaitAll, Extend, Return, PInv, Pending, env, RecordsReaped,
       LoopsWhilePending, MissingForReason
  <1>3. /\ ValueLast'
        /\ ReapedUnlessAbandoned'
    BY DEF TryWaitAll, Return, PInv, ValueLast, ReapedUnlessAbandoned
  <1>4. /\ SignalsOnRecord'
        /\ NumberPinned'
        /\ SignalledNeverCompletes'
        /\ StrayOnlyAtLimit'
    BY DEF TryWaitAll, Extend, Return, PInv, env, SignalsOnRecord, NumberPinned,
       SignalledNeverCompletes, StrayOnlyAtLimit
  <1>5. QED
    BY <1>1, <1>2, <1>3, <1>4 DEF PInv

\* Draining changes no record.
LEMMA DrainKeepsInv ==
    ASSUME PInv, Drain
    PROVE  PInv'
  <1>1. /\ TypeOK'
        /\ Starting'
    BY DEF Drain, AfterDrain, PInv, kids, env, TypeOK, Starting
  <1>2. /\ RecordsReaped'
        /\ LoopsWhilePending'
        /\ MissingForReason'
    BY DEF Drain, AfterDrain, PInv, Pending, kids, env, RecordsReaped,
       LoopsWhilePending, MissingForReason
  <1>3. /\ ValueLast'
        /\ ReapedUnlessAbandoned'
    BY DEF Drain, AfterDrain, PInv, ValueLast, ReapedUnlessAbandoned
  <1>4. /\ SignalsOnRecord'
        /\ NumberPinned'
        /\ SignalledNeverCompletes'
        /\ StrayOnlyAtLimit'
    BY DEF Drain, PInv, kids, env, SignalsOnRecord, NumberPinned,
       SignalledNeverCompletes, StrayOnlyAtLimit
  <1>5. QED
    BY <1>1, <1>2, <1>3, <1>4 DEF PInv

\* A limit is remembered before the kill, which may reach a stranger.
LEMMA HitLimitKeepsInv ==
    ASSUME PInv, HitLimit
    PROVE  PInv'
  <1>1. /\ TypeOK'
        /\ Starting'
    BY DEF HitLimit, Kill, AfterDrain, PInv, kids, env, TypeOK, Starting
  <1>2. /\ RecordsReaped'
        /\ LoopsWhilePending'
        /\ MissingForReason'
    BY DEF HitLimit, AfterDrain, PInv, Pending, kids, env, RecordsReaped,
       LoopsWhilePending, MissingForReason
  <1>3. /\ ValueLast'
        /\ ReapedUnlessAbandoned'
    BY DEF HitLimit, AfterDrain, PInv, ValueLast, ReapedUnlessAbandoned
  <1>4. /\ SignalsOnRecord'
        /\ NumberPinned'
        /\ SignalledNeverCompletes'
        /\ StrayOnlyAtLimit'
    BY DEF HitLimit, PInv, kids, env, ValueLast, SignalsOnRecord, NumberPinned,
       SignalledNeverCompletes, StrayOnlyAtLimit
  <1>5. QED
    BY <1>1, <1>2, <1>3, <1>4 DEF PInv

\* A deadline is looked at while a segment is missing, which pins the number.
LEMMA ExpireKeepsInv ==
    ASSUME PInv, Expire
    PROVE  PInv'
  <1>1. /\ TypeOK'
        /\ Starting'
    BY DEF Expire, Kill, PInv, kids, env, TypeOK, Starting
  <1>2. /\ RecordsReaped'
        /\ LoopsWhilePending'
        /\ MissingForReason'
    BY DEF Expire, PInv, kids, env, RecordsReaped, LoopsWhilePending,
       MissingForReason
  <1>3. /\ ValueLast'
        /\ ReapedUnlessAbandoned'
    BY DEF Expire, PInv, ValueLast, ReapedUnlessAbandoned
  <1>4. /\ SignalsOnRecord'
        /\ NumberPinned'
        /\ SignalledNeverCompletes'
        /\ StrayOnlyAtLimit'
    BY DEF Expire, Kill, PInv, Pending, kids, env, ValueLast, LoopsWhilePending,
       SignalsOnRecord, NumberPinned, SignalledNeverCompletes, StrayOnlyAtLimit
  <1>5. QED
    BY <1>1, <1>2, <1>3, <1>4 DEF PInv

\* So are signals.
LEMMA CheckCancellationKeepsInv ==
    ASSUME PInv, CheckCancellation
    PROVE  PInv'
  <1>1. /\ TypeOK'
        /\ Starting'
    BY DEF CheckCancellation, Kill, PInv, kids, env, TypeOK, Starting
  <1>2. /\ RecordsReaped'
        /\ LoopsWhilePending'
        /\ MissingForReason'
    BY DEF CheckCancellation, PInv, kids, env, RecordsReaped, LoopsWhilePending,
       MissingForReason
  <1>3. /\ ValueLast'
        /\ ReapedUnlessAbandoned'
    BY DEF CheckCancellation, PInv, ValueLast, ReapedUnlessAbandoned
  <1>4. /\ SignalsOnRecord'
        /\ NumberPinned'
        /\ SignalledNeverCompletes'
        /\ StrayOnlyAtLimit'
    BY DEF CheckCancellation, Kill, PInv, Pending, kids, env, ValueLast,
       LoopsWhilePending, SignalsOnRecord, NumberPinned, SignalledNeverCompletes,
       StrayOnlyAtLimit
  <1>5. QED
    BY <1>1, <1>2, <1>3, <1>4 DEF PInv

\* After a kill everything is reaped, and the error that was kept is the value.
LEMMA AbortKeepsInv ==
    ASSUME PInv, Abort
    PROVE  PInv'
  <1>1. /\ TypeOK'
        /\ Starting'
    BY DEF Abort, Return, Running, PInv, env, TypeOK, Starting
  <1>2. /\ RecordsReaped'
        /\ LoopsWhilePending'
        /\ MissingForReason'
    BY DEF Abort, Return, PInv, RecordsReaped, LoopsWhilePending, MissingForReason
  <1>3. /\ ValueLast'
        /\ ReapedUnlessAbandoned'
    BY DEF Abort, Return, ValueLast, ReapedUnlessAbandoned
  <1>4. /\ SignalsOnRecord'
        /\ NumberPinned'
        /\ SignalledNeverCompletes'
        /\ StrayOnlyAtLimit'
    BY DEF Abort, Return, PInv, env, SignalsOnRecord, NumberPinned,
       SignalledNeverCompletes, StrayOnlyAtLimit
  <1>5. QED
    BY <1>1, <1>2, <1>3, <1>4 DEF PInv

\* After a deadline everything is reaped and recorded.
LEMMA ExpiredKeepsInv ==
    ASSUME PInv, Expired
    PROVE  PInv'
  <1>1. /\ TypeOK'
        /\ Starting'
    BY DEF Expired, Return, Running, Extend, PInv, Pending, env, TypeOK, Starting
  <1>2. /\ RecordsReaped'
        /\ LoopsWhilePending'
        /\ MissingForReason'
    BY DEF Expired, Return, Extend, PInv, RecordsReaped, LoopsWhilePending,
       MissingForReason
  <1>3. /\ ValueLast'
        /\ ReapedUnlessAbandoned'
    BY DEF Expired, Return, ValueLast, ReapedUnlessAbandoned
  <1>4. /\ SignalsOnRecord'
        /\ NumberPinned'
        /\ SignalledNeverCompletes'
        /\ StrayOnlyAtLimit'
    BY DEF Expired, Return, PInv, env, SignalsOnRecord, NumberPinned,
       SignalledNeverCompletes, StrayOnlyAtLimit
  <1>5. QED
    BY <1>1, <1>2, <1>3, <1>4 DEF PInv

\* The loop ended because nothing was missing.
LEMMA FinishKeepsInv ==
    ASSUME PInv, Finish
    PROVE  PInv'
  <1>1. /\ TypeOK'
        /\ Starting'
    BY DEF Finish, Return, PInv, kids, env, TypeOK, Starting
  <1>2. /\ RecordsReaped'
        /\ LoopsWhilePending'
        /\ MissingForReason'
    BY DEF Finish, Return, PInv, kids, RecordsReaped, LoopsWhilePending,
       MissingForReason
  <1>3. /\ ValueLast'
        /\ ReapedUnlessAbandoned'
    BY DEF Finish, Return, PInv, Pending, kids, ValueLast, RecordsReaped,
       LoopsWhilePending, ReapedUnlessAbandoned
  <1>4. /\ SignalsOnRecord'
        /\ NumberPinned'
        /\ SignalledNeverCompletes'
        /\ StrayOnlyAtLimit'
    BY DEF Finish, Return, PInv, kids, env, SignalsOnRecord, NumberPinned,
       SignalledNeverCompletes, StrayOnlyAtLimit
  <1>5. QED
    BY <1>1, <1>2, <1>3, <1>4 DEF PInv

--------------------------------------------------------------------------------
(* The steps of the user, the clock, the kernel and the segments. *)

\* A signal only ever adds a reason for a missing segment.
LEMMA SignalArrivesKeepsInv ==
    ASSUME PInv, SignalArrives
    PROVE  PInv'
  <1>1. /\ TypeOK'
        /\ Starting'
    <2>1. {primary, escalation, limit, due, stranger, stray} \subseteq BOOLEAN
      BY DEF PInv, TypeOK
    <2>2. {primary', escalation', limit', due', stranger', stray'} \subseteq BOOLEAN
      BY <2>1, Zenon DEF SignalArrives
    <2>3. QED
      BY <2>2 DEF SignalArrives, kids, PInv, TypeOK, Starting
  <1>2. /\ RecordsReaped'
        /\ LoopsWhilePending'
        /\ MissingForReason'
    BY DEF SignalArrives, PInv, Pending, kids, RecordsReaped, LoopsWhilePending,
       MissingForReason
  <1>3. /\ ValueLast'
        /\ ReapedUnlessAbandoned'
    BY DEF SignalArrives, PInv, ValueLast, ReapedUnlessAbandoned
  <1>4. /\ SignalsOnRecord'
        /\ NumberPinned'
        /\ SignalledNeverCompletes'
        /\ StrayOnlyAtLimit'
    BY DEF SignalArrives, PInv, kids, SignalsOnRecord, NumberPinned,
       SignalledNeverCompletes, StrayOnlyAtLimit
  <1>5. QED
    BY <1>1, <1>2, <1>3, <1>4 DEF PInv

\* The grace ends in a Cancellation that is still on record.
LEMMA GraceElapsesKeepsInv ==
    ASSUME PInv, GraceElapses
    PROVE  PInv'
  <1>1. /\ TypeOK'
        /\ Starting'
    BY DEF GraceElapses, PInv, kids, env, TypeOK, Starting
  <1>2. /\ RecordsReaped'
        /\ LoopsWhilePending'
        /\ MissingForReason'
    BY DEF GraceElapses, PInv, Pending, kids, env, RecordsReaped, LoopsWhilePending,
       MissingForReason
  <1>3. /\ ValueLast'
        /\ ReapedUnlessAbandoned'
    BY DEF GraceElapses, PInv, ValueLast, ReapedUnlessAbandoned
  <1>4. /\ SignalsOnRecord'
        /\ NumberPinned'
        /\ SignalledNeverCompletes'
        /\ StrayOnlyAtLimit'
    BY DEF GraceElapses, PInv, kids, env, SignalsOnRecord, NumberPinned,
       SignalledNeverCompletes, StrayOnlyAtLimit
  <1>5. QED
    BY <1>1, <1>2, <1>3, <1>4 DEF PInv

\* The clock changes nothing that is recorded.
LEMMA DeadlinePassesKeepsInv ==
    ASSUME PInv, DeadlinePasses
    PROVE  PInv'
  <1>1. /\ TypeOK'
        /\ Starting'
    BY DEF DeadlinePasses, PInv, kids, TypeOK, Starting
  <1>2. /\ RecordsReaped'
        /\ LoopsWhilePending'
        /\ MissingForReason'
    BY DEF DeadlinePasses, PInv, Pending, kids, RecordsReaped, LoopsWhilePending,
       MissingForReason
  <1>3. /\ ValueLast'
        /\ ReapedUnlessAbandoned'
    BY DEF DeadlinePasses, PInv, ValueLast, ReapedUnlessAbandoned
  <1>4. /\ SignalsOnRecord'
        /\ NumberPinned'
        /\ SignalledNeverCompletes'
        /\ StrayOnlyAtLimit'
    BY DEF DeadlinePasses, PInv, kids, SignalsOnRecord, NumberPinned,
       SignalledNeverCompletes, StrayOnlyAtLimit
  <1>5. QED
    BY <1>1, <1>2, <1>3, <1>4 DEF PInv

\* The number goes to somebody else only after the last member was reaped.
LEMMA RecycleKeepsInv ==
    ASSUME PInv, Recycle
    PROVE  PInv'
  <1>1. /\ TypeOK'
        /\ Starting'
    BY DEF Recycle, PInv, kids, TypeOK, Starting
  <1>2. /\ RecordsReaped'
        /\ LoopsWhilePending'
        /\ MissingForReason'
    BY DEF Recycle, PInv, Pending, kids, RecordsReaped, LoopsWhilePending,
       MissingForReason
  <1>3. /\ ValueLast'
        /\ ReapedUnlessAbandoned'
    BY DEF Recycle, PInv, ValueLast, ReapedUnlessAbandoned
  <1>4. /\ SignalsOnRecord'
        /\ NumberPinned'
        /\ SignalledNeverCompletes'
        /\ StrayOnlyAtLimit'
    BY DEF Recycle, PInv, kids, SignalsOnRecord, NumberPinned,
       SignalledNeverCompletes, StrayOnlyAtLimit
  <1>5. QED
    BY <1>1, <1>2, <1>3, <1>4 DEF PInv

\* A segment that ends was not recorded yet, so no record of it changes.
LEMMA EndKeepsInv ==
    ASSUME PInv, NEW i \in Running, NEW e \in Ending, End(i, e)
    PROVE  PInv'
  <1>1. /\ TypeOK'
        /\ Starting'
    BY DEF End, Extend, Running, PInv, env, TypeOK, Starting
  <1>2. /\ RecordsReaped'
        /\ LoopsWhilePending'
        /\ MissingForReason'
    BY DEF End, Extend, Running, PInv, Pending, env, TypeOK, RecordsReaped,
       LoopsWhilePending, MissingForReason
  <1>3. /\ ValueLast'
        /\ ReapedUnlessAbandoned'
    BY DEF End, PInv, ValueLast, ReapedUnlessAbandoned
  <1>4. /\ SignalsOnRecord'
        /\ NumberPinned'
        /\ SignalledNeverCompletes'
        /\ StrayOnlyAtLimit'
    BY DEF End, PInv, env, SignalsOnRecord, NumberPinned, SignalledNeverCompletes,
       StrayOnlyAtLimit
  <1>5. QED
    BY <1>1, <1>2, <1>3, <1>4 DEF PInv

--------------------------------------------------------------------------------

LEMMA InitHasInv == Init => PInv
  <1> SUFFICES ASSUME Init
               PROVE  PInv
    OBVIOUS
  <1>1. TypeOK
    <2>1. DOMAIN <<>> = {}
      OBVIOUS
    <2>2. {primary, escalation, limit, due, stranger, stray} \subseteq BOOLEAN
      BY Zenon DEF Init
    <2>3. 1 \in 1 .. N + 1
      BY PipelineAssumption
    <2>4. QED
      BY <2>1, <2>2, <2>3 DEF Init, TypeOK, NoResult
  <1>2. Starting
    BY PipelineAssumption DEF Init, Starting, Segment
  <1>3. /\ ValueLast
        /\ RecordsReaped
        /\ LoopsWhilePending
        /\ MissingForReason
        /\ SignalsOnRecord
        /\ NumberPinned
    BY DEF Init, NoResult, ValueLast, RecordsReaped, LoopsWhilePending, MissingForReason,
           SignalsOnRecord, NumberPinned
  <1>4. /\ ReapedUnlessAbandoned
        /\ SignalledNeverCompletes
        /\ StrayOnlyAtLimit
    BY DEF Init, NoResult, ReapedUnlessAbandoned, SignalledNeverCompletes, StrayOnlyAtLimit
  <1>5. QED
    BY <1>1, <1>2, <1>3, <1>4 DEF PInv

LEMMA StepKeepsInv == PInv /\ [Next]_vars => PInv'
  <1> SUFFICES ASSUME PInv, [Next]_vars
               PROVE  PInv'
    OBVIOUS
  <1>1. CASE Runtime
    BY <1>1, StartSegmentKeepsInv, ExecFailsKeepsInv, OpenFailsKeepsInv,
       AssignFailsKeepsInv, FeedFailsKeepsInv, TryWaitAllKeepsInv, DrainKeepsInv,
       HitLimitKeepsInv, ExpireKeepsInv, CheckCancellationKeepsInv, AbortKeepsInv,
       ExpiredKeepsInv, FinishKeepsInv DEF Runtime
  <1>2. ASSUME NEW i \in Segment,
               ExitSegment(i) \/ Interrupted(i) \/ Killed(i) \/ BrokenPipe(i)
        PROVE  PInv'
    <2>1. i \in Running /\ \E e \in Ending : End(i, e)
      BY <1>2 DEF ExitSegment, Interrupted, Killed, BrokenPipe, Ending
    <2>2. QED
      BY <2>1, EndKeepsInv
  <1>3. CASE SignalArrives \/ GraceElapses \/ DeadlinePasses \/ Recycle
    BY <1>3, SignalArrivesKeepsInv, GraceElapsesKeepsInv, DeadlinePassesKeepsInv,
       RecycleKeepsInv
  <1>4. CASE UNCHANGED vars
    BY <1>4 DEF vars, kids, env, PInv, TypeOK, Starting, ValueLast, RecordsReaped,
       LoopsWhilePending, Pending, MissingForReason, SignalsOnRecord, NumberPinned,
       ReapedUnlessAbandoned, SignalledNeverCompletes, StrayOnlyAtLimit
  <1>5. QED
    BY <1>1, <1>2, <1>3, <1>4 DEF Next

\* Every reachable state satisfies the inductive invariant.
THEOREM Invariance == Spec => []PInv
  BY InitHasInv, StepKeepsInv, PTL DEF Spec

\* Every reachable state is well typed, for any number of segments.
THEOREM TypeCorrect == Spec => []TypeOK
  <1>1. PInv => TypeOK
    BY DEF PInv
  <1>2. QED
    BY <1>1, Invariance, PTL

(***************************************************************************)
(* A pipeline whose group the runtime signalled is never a completed one.  *)
(***************************************************************************)
THEOREM CutIsNotComplete == Spec => []SignalledNeverCompletes
  <1>1. PInv => SignalledNeverCompletes
    BY DEF PInv
  <1>2. QED
    BY <1>1, Invariance, PTL

(***************************************************************************)
(* Whatever happens, a pipeline that returns has reaped what it started,   *)
(* except where building a later command failed or SIGCHLD is ignored.     *)
(***************************************************************************)
THEOREM ReapingSafety == Spec => []ReapedUnlessAbandoned
  <1>1. PInv => ReapedUnlessAbandoned
    BY DEF PInv
  <1>2. QED
    BY <1>1, Invariance, PTL

(***************************************************************************)
(* While the kernel keeps endings, only a capture over its limit can signal *)
(* a number that is no longer the group's.                                 *)
(***************************************************************************)
THEOREM KillSafety == Spec => []StrayOnlyAtLimit
  <1>1. PInv => StrayOnlyAtLimit
    BY DEF PInv
  <1>2. QED
    BY <1>1, Invariance, PTL


--------------------------------------------------------------------------------
(* The verdict and the report. *)

\* The kinds of value that carry a status.
Reporting == {"ok", "failed", "canceled", "timeout", "capture-limit"}

\* A value that carries a status is written by Finish or Expired and is final:
\* nothing that it tells of changes afterwards.
LEMMA ReportIsFinal ==
    ASSUME PInv, [Next]_vars, ~Finish, ~Expired, result'.kind \in Reporting
    PROVE  UNCHANGED <<call, started, ends, status, primary, result>>
  <1>1. CASE Runtime
    <2>1. CASE StartSegment \/ ExecFails \/ OpenFails \/ AssignFails
      BY <2>1 DEF StartSegment, ExecFails, OpenFails, AssignFails, Return, NoResult,
             PInv, ValueLast, Reporting
    <2>2. CASE FeedFails \/ TryWaitAll \/ Drain \/ HitLimit \/ Expire \/ CheckCancellation
      BY <2>2 DEF FeedFails, TryWaitAll, Drain, HitLimit, Expire, CheckCancellation,
             Return, NoResult, PInv, ValueLast, Reporting
    <2>3. CASE Abort
      BY <2>3 DEF Abort, Return, PInv, ValueLast, Reporting
    <2>4. QED
      BY <1>1, <2>1, <2>2, <2>3 DEF Runtime
  <1>2. ASSUME NEW i \in Segment,
               ExitSegment(i) \/ Interrupted(i) \/ Killed(i) \/ BrokenPipe(i)
        PROVE  FALSE
    <2>1. i \in Running /\ result' = result
      BY <1>2 DEF ExitSegment, Interrupted, Killed, BrokenPipe, End
    <2>2. pc = "done" /\ result.kind \in Reporting
      BY <2>1 DEF PInv, ValueLast, Reporting
    <2>3. started \subseteq reaped
      BY <2>2 DEF PInv, ReapedUnlessAbandoned, Reporting
    <2>4. QED
      BY <2>1, <2>3 DEF Running, PInv, TypeOK
  <1>3. CASE SignalArrives \/ GraceElapses \/ DeadlinePasses \/ Recycle
    BY <1>3 DEF SignalArrives, GraceElapses, DeadlinePasses, Recycle, kids, env,
           PInv, ValueLast, Reporting
  <1>4. CASE UNCHANGED vars
    BY <1>4 DEF vars, kids, env
  <1>5. QED
    BY <1>1, <1>2, <1>3, <1>4 DEF Next

\* Every ending the model knows is one the policy can judge.
LEMMA EndingIsOutcome == Ending \cup {ExecFailure} \subseteq Outcome
  <1>1. ASSUME NEW c \in Codes
        PROVE  Exited(c) \in Outcome
    <2>1. c \in Nat
      BY PipelineAssumption
    <2>2. (c = 0) \in BOOLEAN
      OBVIOUS
    <2>3. QED
      BY <2>1, <2>2 DEF Exited, Outcome
  <1>2. \A g \in Nat : Signaled(g) \in Outcome
    BY DEF Signaled, Outcome
  <1>3. ExecFailure \in Outcome
    BY DEF ExecFailure, Outcome
  <1>4. {SIGINT, SIGKILL, SIGPIPE} \subseteq Nat
    BY DEF SIGINT, SIGKILL, SIGPIPE
  <1>5. QED
    BY <1>1, <1>2, <1>3, <1>4 DEF Ending

\* When the loop is over, the status tells how every segment really ended.
LEMMA RecordedEndings ==
    ASSUME PInv, pc = "finish"
    PROVE  /\ DOMAIN Endings = DOMAIN status
           /\ \A i \in DOMAIN status : Endings[i] = status[i] /\ Endings[i] \in Outcome
           /\ Tolerated(Endings, call.accept) = Tolerated(status, call.accept)
  <1>1. DOMAIN ends \subseteq started /\ started \subseteq DOMAIN status
    BY DEF PInv, TypeOK, LoopsWhilePending, Pending
  <1>2. DOMAIN Endings = DOMAIN status
    BY <1>1 DEF Endings
  <1>3. \A i \in DOMAIN status : Endings[i] = status[i]
    BY <1>1 DEF Endings, PInv, RecordsReaped
  <1>4. \A i \in DOMAIN status : status[i] \in Outcome
    BY EndingIsOutcome DEF PInv, TypeOK
  <1>5. Tolerated(Endings, call.accept) = Tolerated(status, call.accept)
    <2> DEFINE excused(f, i) ==
                 /\ IsSigpipe(f[i])
                 /\ \E j \in DOMAIN f : j > i /\ DownstreamAccepted(f[j], call.accept[j])
               after(f, i) == IF excused(f, i) THEN [f[i] EXCEPT !.success = TRUE] ELSE f[i]
    <2>1. \A i \in DOMAIN status : excused(Endings, i) <=> excused(status, i)
      BY <1>2, <1>3
    <2>2. \A i \in DOMAIN status : after(Endings, i) = after(status, i)
      BY <1>3, <2>1
    <2>3. \A f : Tolerated(f, call.accept) = [i \in DOMAIN f |-> after(f, i)]
      BY DEF Tolerated
    <2> HIDE DEF after
    <2>4. QED
      BY <1>2, <2>2, <2>3
  <1>6. QED
    BY <1>2, <1>3, <1>4, <1>5

\* A rule that names nobody finds nobody at fault.
LEMMA NobodyNamed ==
    ASSUME NEW st, NEW accept, DOMAIN st \subseteq Nat \ {0}, RuleNames(st, accept) = 0
    PROVE  RuleFails(st, accept) = {}
  <1> DEFINE fails == RuleFails(st, accept)
             plain == {i \in fails : ~IsSigpipe(st[i])}
  <1>1. fails \subseteq Nat \ {0} /\ plain \subseteq Nat \ {0}
    BY DEF RuleFails
  <1>2. plain # {} => Least(plain) # 0
    BY <1>1, LeastIsMember
  <1>3. fails # {} => Least(fails) # 0
    BY <1>1, LeastIsMember
  <1>4. QED
    BY <1>2, <1>3 DEF RuleNames

\* Both forms of a run come to the rule's verdict.
LEMMA VerdictIsRule ==
    ASSUME PInv, pc = "finish"
    PROVE  Verdict(Tolerated(status, call.accept)) =
             IF call.strict \/ \E i \in Segment : call.accept[i] # {}
             THEN RuleNames(Endings, call.accept) ELSE 0
  <1> DEFINE rejects(zero) == RejectedSegment(Tolerated(status, call.accept), call.accept, zero)
             lists == \E i \in Segment : call.accept[i] # {}
  <1>1. DOMAIN call.accept = Segment /\ call.strict \in BOOLEAN
    BY DEF PInv, TypeOK
  <1>2. Cardinality(Segment) > 1
    BY PipelineAssumption, FS_Interval DEF Segment
  <1>3. DOMAIN Endings \subseteq Segment /\ \A i \in DOMAIN Endings : Endings[i] \in Outcome
    BY RecordedEndings DEF PInv, TypeOK
  <1>4. \A zero \in BOOLEAN :
            rejects(zero) = IF zero \/ lists THEN RuleNames(Endings, call.accept) ELSE 0
    BY <1>1, <1>2, <1>3, PolicyIsRule, RecordedEndings
  <1> HIDE DEF rejects
  <1>5. Verdict(Tolerated(status, call.accept)) =
            IF call.form = "capture" /\ rejects(FALSE) # 0 THEN rejects(FALSE)
            ELSE rejects(call.strict)
    BY DEF Verdict, rejects
  <1>6. QED
    BY <1>1, <1>4, <1>5

\* A strict success means that no segment is missing, or that a signal came.
LEMMA SuccessIsWhole ==
    ASSUME PInv, pc = "finish", RuleNames(Endings, call.accept) = 0
    PROVE  started = Segment \/ primary
  <1>1. RuleFails(Endings, call.accept) = {}
    <2>1. DOMAIN Endings \subseteq Nat \ {0}
      BY RecordedEndings DEF PInv, TypeOK, Segment
    <2>2. QED
      BY <2>1, NobodyNamed
  <1>2. ASSUME NEW i \in DOMAIN status, status[i] = ExecFailure
        PROVE  FALSE
    <2>1. i \in DOMAIN Endings /\ Endings[i] = ExecFailure
      BY <1>2, RecordedEndings
    <2>2. QED
      BY <1>1, <2>1 DEF RuleFails, Wanted, Accepts, Excused, IsSigpipe, ExecFailure
  <1>3. QED
    BY <1>2 DEF PInv, MissingForReason

(***************************************************************************)
(* A pipeline that ran to the end is judged by the manual's rule, applied to *)
(* how its segments really ended, for any number of segments.              *)
(***************************************************************************)
THEOREM VerdictSafety == Spec => []VerdictFollowsRule
  <1>1. Init => VerdictFollowsRule
    BY DEF Init, NoResult, VerdictFollowsRule
  <1>2. PInv /\ VerdictFollowsRule /\ [Next]_vars => VerdictFollowsRule'
    <2> SUFFICES ASSUME PInv, VerdictFollowsRule, [Next]_vars
                 PROVE  VerdictFollowsRule'
      OBVIOUS
    <2>1. CASE Finish /\ result'.kind \in {"ok", "failed"}
      <3>1. /\ result'.named = Verdict(Tolerated(status, call.accept))
            /\ result'.kind = "ok" => result'.named = 0
            /\ UNCHANGED <<call, started, primary>>
            /\ Endings' = Endings
        BY <2>1 DEF Finish, Return, kids, env, Endings
      <3>2. pc = "finish"
        BY <2>1 DEF Finish
      <3>3. QED
        BY <3>1, <3>2, VerdictIsRule, SuccessIsWhole DEF VerdictFollowsRule
    <2>2. CASE ~Finish /\ ~Expired /\ result'.kind \in {"ok", "failed"}
      <3>1. UNCHANGED <<call, started, ends, status, primary, result>>
        BY <2>2, ReportIsFinal DEF Reporting
      <3>2. QED
        BY <3>1 DEF VerdictFollowsRule, Endings
    <2>3. CASE result'.kind \notin {"ok", "failed"}
      BY <2>3 DEF VerdictFollowsRule
    <2>4. Expired => result'.kind \notin {"ok", "failed"}
      BY DEF Expired, Return
    <2>5. QED
      BY <2>1, <2>2, <2>3, <2>4
  <1>3. QED
    BY <1>1, <1>2, Invariance, PTL DEF Spec

(***************************************************************************)
(* A status, with whatever outcome, tells of every segment that was started *)
(* and tells how it really ended.                                          *)
(***************************************************************************)
THEOREM ReportSafety == Spec => []ReportedTruthfully
  <1>1. Init => ReportedTruthfully
    BY DEF Init, NoResult, ReportedTruthfully
  <1>2. PInv /\ PInv' /\ ReportedTruthfully /\ [Next]_vars => ReportedTruthfully'
    <2> SUFFICES ASSUME PInv, PInv', ReportedTruthfully, [Next]_vars,
                        result'.kind \in Reporting
                 PROVE  ReportedTruthfully'
      BY DEF ReportedTruthfully, Reporting
    <2>1. CASE Finish \/ Expired
      <3>1. \/ result'.status = Tolerated(status', call'.accept)
            \/ result'.status = status'
        BY <2>1 DEF Finish, Expired, Return, Reporting
      <3>2. started' \subseteq DOMAIN status'
        BY <2>1 DEF Finish, Expired, Return, Extend, kids, Reporting, PInv,
               LoopsWhilePending, Pending
      <3>3. \A i \in DOMAIN status' \cap DOMAIN ends' :
                status'[i] = ends'[i] /\ status'[i] \in Outcome
        BY EndingIsOutcome DEF PInv, RecordsReaped, TypeOK
      <3>4. \A i \in DOMAIN result'.status \cap DOMAIN ends' :
                /\ result'.status[i].kind = ends'[i].kind
                /\ result'.status[i].code = ends'[i].code
        <4>1. CASE result'.status = status'
          BY <3>3, <4>1
        <4>2. CASE result'.status = Tolerated(status', call'.accept)
          <5>1. DOMAIN result'.status = DOMAIN status'
            BY <4>2 DEF Tolerated
          <5>2. \A i \in DOMAIN status' : status'[i] \in Outcome =>
                    /\ result'.status[i].kind = status'[i].kind
                    /\ result'.status[i].code = status'[i].code
            BY <4>2, ToleratedFacts
          <5>3. QED
            BY <3>3, <5>1, <5>2
        <4>3. QED
          BY <3>1, <4>1, <4>2
      <3>5. started' \subseteq DOMAIN result'.status
        BY <3>1, <3>2 DEF Tolerated
      <3>6. QED
        BY <3>4, <3>5 DEF ReportedTruthfully
    <2>2. CASE ~Finish /\ ~Expired
      BY <2>2, ReportIsFinal DEF ReportedTruthfully
    <2>3. QED
      BY <2>1, <2>2
  <1>3. QED
    BY <1>1, <1>2, Invariance, PTL DEF Spec

================================================================================
