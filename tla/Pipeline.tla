------------------------------ MODULE Pipeline ------------------------------
(***************************************************************************)
(* One byte pipeline of the script, from starting its segments to the value *)
(* or error it returns: the statement form, which inherits stdout, and the *)
(* capturing form.  The segments share one process group.  The runtime is  *)
(* one thread polling; segments end, signals arrive and time passes in     *)
(* between.  Hooks and `within` are the module Shutdown's.                 *)
(***************************************************************************)
EXTENDS ExitPolicy

CONSTANTS N,        \* segments
          Codes,    \* exit codes a segment may end with
          Lists     \* --accept lists, {} for none

ASSUME PipelineAssumption ==
  /\ N \in Nat \ {0, 1}
  /\ Codes \subseteq 0 .. 255
  /\ Lists \subseteq SUBSET (0 .. 255)

Segment == 1 .. N

VARIABLES call,     \* how the run was written, and SIGCHLD's disposition
          pc, next, \* the runtime's place, and the segment it starts next
          started, ends, reaped,  \* the children and how each ended
          status,   \* segment_statuses
          sent,     \* the signals the group was sent
          primary, escalation,    \* signals the process itself received
          cancel,   \* the Cancellation: its grace, then its kill
          limit, due,             \* capture_limit_hit; the deadline is over
          stranger, stray, \* the group's number was recycled; and was hit
          result

kids == <<started, ends, reaped>>
env == <<primary, escalation, due, stranger>>
vars == <<call, pc, next, kids, status, sent, env, cancel, limit, stray, result>>

NoResult == [kind |-> "none", named |-> 0, status |-> <<>>]
Ending == {Exited(c) : c \in Codes}
            \cup {Signaled(s) : s \in {SIGINT, SIGKILL, SIGPIPE}}
Extend(f, S, g(_)) == [i \in DOMAIN f \cup S |-> IF i \in S THEN g(i) ELSE f[i]]

TypeOK ==
  /\ call \in [form : {"inherit", "capture"}, strict : BOOLEAN, timed : BOOLEAN,
               retained : BOOLEAN, accept : [Segment -> Lists]]
  /\ pc \in {"start", "pass", "drain", "check", "abort", "expire", "finish", "done"}
  /\ next \in 1 .. N + 1
  /\ started \subseteq Segment
  /\ DOMAIN ends \subseteq started /\ \A i \in DOMAIN ends : ends[i] \in Ending
  /\ reaped \subseteq DOMAIN ends
  /\ DOMAIN status \subseteq Segment
  /\ \A i \in DOMAIN status : status[i] \in Ending \cup {ExecFailure}
  /\ sent \subseteq {SIGINT, SIGKILL}
  /\ {primary, escalation, limit, due, stranger, stray} \subseteq BOOLEAN
  /\ cancel \in {"no", "grace", "overdue", "killed"}
  /\ result.kind \in {"none", "ok", "failed", "canceled", "timeout",
                      "capture-limit", "setup", "io", "wait"}

Init ==
  /\ call \in [form : {"inherit", "capture"}, strict : BOOLEAN, timed : BOOLEAN,
               retained : BOOLEAN, accept : [Segment -> Lists]]
  /\ pc = "start" /\ next = 1
  /\ started = {} /\ ends = <<>> /\ reaped = {} /\ status = <<>>
  /\ sent = {} /\ cancel = "no"
  /\ primary = FALSE /\ escalation = FALSE
  /\ limit = FALSE /\ due = FALSE /\ stranger = FALSE /\ stray = FALSE
  /\ result = NoResult

Running == started \ DOMAIN ends
Pending == started \ DOMAIN status

Kill ==
  /\ sent' = sent \cup {SIGKILL}
  /\ stray' = (stray \/ stranger)

Return(kind, named, st) ==
  /\ pc' = "done"
  /\ result' = [kind |-> kind, named |-> named, status |-> st]

-----------------------------------------------------------------------------
(* Starting the segments, in order. *)

Loop(group) == IF group = {} THEN "finish" ELSE "pass"

\* The segment runs.  A signal already recorded stops the starting here.
StartSegment ==
  /\ pc = "start"
  /\ started' = started \cup {next}
  /\ next' = next + 1
  /\ pc' = IF next = N \/ primary THEN "pass" ELSE "start"
  /\ UNCHANGED <<call, ends, reaped, status, sent, env, cancel, limit, stray, result>>

\* The command is not found or cannot be executed: its segment records that.
ExecFails ==
  /\ pc = "start"
  /\ status' = Extend(status, {next}, LAMBDA i : ExecFailure)
  /\ next' = next + 1
  /\ pc' = Loop(started)
  /\ UNCHANGED <<call, kids, sent, env, cancel, limit, stray, result>>

\* A redirection, a namespace or the copy of stderr fails while the command
\* is being built: the run returns at once.
OpenFails ==
  /\ pc = "start"
  /\ Return("setup", 0, <<>>)
  /\ UNCHANGED <<call, next, kids, status, sent, env, cancel, limit, stray>>

\* Mutant: the children are killed and not waited for.
AssignFailsAtOnce ==
  /\ pc = "start"
  /\ started' = started \cup {next}
  /\ next' = next + 1
  /\ Kill
  /\ Return("setup", 0, <<>>)
  /\ UNCHANGED <<call, ends, reaped, status, env, cancel, limit>>

\* The cgroup or the input pipe refuses the new child: all are killed.
AssignFails ==
  /\ pc = "start"
  /\ started' = started \cup {next}
  /\ next' = next + 1
  /\ Kill
  /\ pc' = "abort"
  /\ result' = [NoResult EXCEPT !.kind = "setup"]
  /\ UNCHANGED <<call, ends, reaped, status, env, cancel, limit>>

-----------------------------------------------------------------------------
(* The wait loop. *)

\* Bytes for the first segment's stdin cannot be written.
FeedFails ==
  /\ pc = "pass"
  /\ 1 \in Pending
  /\ Kill
  /\ pc' = "abort"
  /\ result' = [NoResult EXCEPT !.kind = "io"]
  /\ UNCHANGED <<call, next, kids, status, env, cancel, limit>>

\* Mutant: signals are still looked at after the last segment was reaped.
TryWaitThenCheck ==
  /\ pc = "pass"
  /\ LET fresh == DOMAIN ends \cap Pending
     IN  IF fresh # {} /\ ~call.retained
         THEN /\ Return("wait", 0, <<>>)
              /\ UNCHANGED <<reaped, status>>
         ELSE /\ reaped' = reaped \cup fresh
              /\ status' = Extend(status, fresh, LAMBDA i : ends[i])
              /\ pc' = IF call.form = "capture" THEN "drain"
                       ELSE IF Pending = {} THEN "finish" ELSE "check"
              /\ UNCHANGED result
  /\ UNCHANGED <<call, next, started, ends, sent, env, cancel, limit, stray>>

\* One pass of try_wait.  With SIGCHLD ignored the kernel kept nothing: the
\* first child that has ended makes the pass fail, whatever else still runs.
TryWaitAll ==
  /\ pc = "pass"
  /\ LET fresh == DOMAIN ends \cap Pending
     IN  IF fresh # {} /\ ~call.retained
         THEN /\ Return("wait", 0, <<>>)
              /\ UNCHANGED <<reaped, status>>
         ELSE /\ reaped' = reaped \cup fresh
              /\ status' = Extend(status, fresh, LAMBDA i : ends[i])
              /\ pc' = IF call.form = "capture" THEN "drain"
                       ELSE IF Pending = fresh THEN "finish" ELSE "check"
              /\ UNCHANGED result
  /\ UNCHANGED <<call, next, started, ends, sent, env, cancel, limit, stray>>

AfterDrain == pc' = IF Pending = {} THEN "finish" ELSE "check"

Drain ==
  /\ pc = "drain"
  /\ AfterDrain
  /\ UNCHANGED <<call, next, kids, status, sent, env, cancel, limit, stray, result>>

\* Reading exceeds the limit.  All segments may have been reaped by now.
HitLimit ==
  /\ pc = "drain" /\ ~limit
  /\ limit' = TRUE
  /\ Kill
  /\ AfterDrain
  /\ UNCHANGED <<call, next, kids, status, env, cancel, result>>

\* The deadline is looked at before the signals.
Expire ==
  /\ pc = "check" /\ due
  /\ Kill
  /\ pc' = "expire"
  /\ UNCHANGED <<call, next, kids, status, env, cancel, limit, result>>

\* Mutant: the grace has no end.
CheckNeverKills ==
  /\ pc = "check" /\ ~due
  /\ pc' = "pass"
  /\ LET looks == ~(call.form = "capture" /\ limit)
     IN  IF looks /\ escalation
         THEN Kill /\ cancel' = "killed"
         ELSE IF looks /\ primary /\ cancel = "no"
         THEN /\ sent' = sent \cup {SIGINT}
              /\ stray' = (stray \/ stranger)
              /\ cancel' = "grace"
         ELSE UNCHANGED <<sent, stray, cancel>>
  /\ UNCHANGED <<call, next, kids, status, env, limit, result>>

\* check_cancellation: forward once, kill on a second signal or after the
\* grace.  A capture that hit its limit no longer looks at signals.
CheckCancellation ==
  /\ pc = "check" /\ ~due
  /\ pc' = "pass"
  /\ LET looks == ~(call.form = "capture" /\ limit)
     IN  IF looks /\ (escalation \/ cancel = "overdue")
         THEN Kill /\ cancel' = "killed"
         ELSE IF looks /\ primary /\ cancel = "no"
         THEN /\ sent' = sent \cup {SIGINT}
              /\ stray' = (stray \/ stranger)
              /\ cancel' = "grace"
         ELSE UNCHANGED <<sent, stray, cancel>>
  /\ UNCHANGED <<call, next, kids, status, env, limit, result>>

\* After a kill the runtime waits for every child, then reports.
Abort ==
  /\ pc = "abort"
  /\ Running = {}
  /\ reaped' = started
  /\ Return(result.kind, 0, <<>>)
  /\ UNCHANGED <<call, next, started, ends, status, sent, env, cancel, limit, stray>>

\* Mutant: the killed segments are reaped and left out of the status.
ExpiredUnrecorded ==
  /\ pc = "expire"
  /\ Running = {}
  /\ reaped' = started
  /\ Return("timeout", 0, Tolerated(status, call.accept))
  /\ UNCHANGED <<call, next, started, ends, status, sent, env, cancel, limit, stray>>

\* The statement form reports the raw endings, the capturing form the
\* tolerated ones.
Expired ==
  /\ pc = "expire"
  /\ Running = {}
  /\ reaped' = started
  /\ IF Pending # {} /\ ~call.retained
     THEN Return("wait", 0, <<>>) /\ UNCHANGED status
     ELSE /\ status' = Extend(status, Pending, LAMBDA i : ends[i])
          /\ Return("timeout", 0, IF call.form = "capture"
                                  THEN Tolerated(status', call.accept)
                                  ELSE status')
  /\ UNCHANGED <<call, next, started, ends, sent, env, cancel, limit, stray>>

\* The verdict.  The capturing form asks with its lists alone first.
Verdict(st) ==
  LET first == RejectedSegment(st, call.accept, FALSE)
  IN  IF call.form = "capture" /\ first # 0 THEN first
      ELSE RejectedSegment(st, call.accept, call.strict)

Finish ==
  /\ pc = "finish"
  /\ LET st == Tolerated(status, call.accept)
     IN  \/ /\ limit /\ cancel = "no"
            /\ Return("capture-limit", 0, st)
         \/ /\ cancel # "no"
            /\ Return("canceled", 0, st)
         \/ /\ ~limit /\ cancel = "no"
            /\ Return(IF Verdict(st) = 0 THEN "ok" ELSE "failed", Verdict(st), st)
  /\ UNCHANGED <<call, next, kids, status, sent, env, cancel, limit, stray>>

Runtime ==
  \/ StartSegment \/ ExecFails \/ OpenFails \/ AssignFails
  \/ FeedFails \/ TryWaitAll \/ Drain \/ HitLimit \/ Expire \/ CheckCancellation
  \/ Abort \/ Expired \/ Finish

-----------------------------------------------------------------------------
(* The segments, the user and the clock. *)

End(i, ending) ==
  /\ ends' = Extend(ends, {i}, LAMBDA j : ending)
  /\ reaped' = IF call.retained THEN reaped ELSE reaped \cup {i}
  /\ UNCHANGED <<call, pc, next, started, status, sent, env, cancel, limit, stray, result>>

ExitSegment(i) ==
  /\ i \in Running /\ SIGKILL \notin sent
  /\ \E c \in Codes : End(i, Exited(c))

Interrupted(i) == i \in Running /\ SIGINT \in sent /\ End(i, Signaled(SIGINT))

Killed(i) == i \in Running /\ SIGKILL \in sent /\ End(i, Signaled(SIGKILL))

\* Nobody reads what the segment writes: the next one ended or never started.
\* The last segment of the statement form writes to the script's own stdout.
BrokenPipe(i) ==
  /\ i \in Running /\ SIGKILL \notin sent
  /\ IF i = N THEN call.form = "inherit"
     ELSE i + 1 \in DOMAIN ends \/ (i + 1 \notin started /\ pc # "start")
  /\ End(i, Signaled(SIGPIPE))

SignalArrives ==
  /\ pc # "done"
  /\ IF primary THEN ~escalation /\ escalation' = TRUE /\ UNCHANGED primary
     ELSE primary' = TRUE /\ UNCHANGED escalation
  /\ UNCHANGED <<call, pc, next, kids, status, sent, cancel, limit, due,
                 stranger, stray, result>>

GraceElapses ==
  /\ cancel = "grace" /\ pc # "done"
  /\ cancel' = "overdue"
  /\ UNCHANGED <<call, pc, next, kids, status, sent, env, limit, stray, result>>

DeadlinePasses ==
  /\ call.timed /\ ~due /\ pc \notin {"start", "done"}
  /\ due' = TRUE
  /\ UNCHANGED <<call, pc, next, kids, status, sent, primary, escalation, cancel,
                 limit, stranger, stray, result>>

\* The group is gone and its number goes to a process of somebody else.
Recycle ==
  /\ started # {} /\ started \subseteq reaped /\ ~stranger /\ pc # "done"
  /\ stranger' = TRUE
  /\ UNCHANGED <<call, pc, next, kids, status, sent, primary, escalation, due,
                 cancel, limit, stray, result>>

Next ==
  \/ Runtime
  \/ \E i \in Segment : ExitSegment(i) \/ Interrupted(i) \/ Killed(i) \/ BrokenPipe(i)
  \/ SignalArrives \/ GraceElapses \/ DeadlinePasses \/ Recycle

Spec == Init /\ [][Next]_vars

\* The runtime keeps polling, a killed process dies and time passes; nothing
\* makes a segment end by itself.
FairSpec ==
  /\ Spec
  /\ WF_vars(Runtime) /\ WF_vars(GraceElapses) /\ WF_vars(DeadlinePasses)
  /\ \A i \in Segment : WF_vars(Killed(i))

-----------------------------------------------------------------------------
(* How every segment that was to run really ended. *)
Endings ==
  [i \in DOMAIN ends \cup DOMAIN status |->
     IF i \in DOMAIN ends THEN ends[i] ELSE status[i]]

(***************************************************************************)
(* A pipeline that ran to the end is judged by the manual's rule applied to *)
(* how its segments really ended, and a failure names the segment the rule *)
(* names; without a list and without a required zero nothing is a failure. *)
(* Success that was asked for also means that every segment was started,   *)
(* or that a signal stopped the starting and the next checkpoint ends the  *)
(* script.  What could break it is in start_pipeline, wait_children and    *)
(* rejected_segment together: a segment never started, one reaped but not  *)
(* recorded, a flag changed for the wrong segment.                         *)
(***************************************************************************)
VerdictFollowsRule ==
  /\ result.kind \in {"ok", "failed"} =>
       result.named = IF call.strict \/ \E i \in Segment : call.accept[i] # {}
                      THEN RuleNames(Endings, call.accept) ELSE 0
  /\ result.kind = "ok" /\ call.strict => started = Segment \/ primary

(***************************************************************************)
(* A status, with whatever outcome, tells of every segment that was started *)
(* and tells how it really ended.                                          *)
(***************************************************************************)
ReportedTruthfully ==
  result.kind \in {"ok", "failed", "canceled", "timeout", "capture-limit"} =>
    /\ started \subseteq DOMAIN result.status
    /\ \A i \in DOMAIN result.status \cap DOMAIN ends :
         /\ result.status[i].kind = ends[i].kind
         /\ result.status[i].code = ends[i].code

(***************************************************************************)
(* A pipeline whose group the runtime signalled is never reported as one   *)
(* that ran to the end, whatever its segments made of the signal: text cut *)
(* short by a limit or a cancellation is not returned as the output.       *)
(***************************************************************************)
SignalledNeverCompletes == result.kind \in {"ok", "failed"} => sent = {}

(***************************************************************************)
(* When the pipeline returns, every started segment has been reaped, except *)
(* where building a later command failed or SIGCHLD is ignored.            *)
(***************************************************************************)
ReapedUnlessAbandoned ==
  pc = "done" =>
    \/ started \subseteq reaped
    \/ result.kind = "setup" /\ sent = {}
    \/ result.kind = "wait" /\ ~call.retained

(***************************************************************************)
(* While the kernel keeps the endings, a signal meant for the group reaches *)
(* another program only where a capture exceeds its limit, since reading   *)
(* goes on after the last segment was reaped.                              *)
(***************************************************************************)
StrayOnlyAtLimit == stray /\ call.retained => limit

(***************************************************************************)
(* A deadline, a signal or an exceeded limit ends the pipeline even when no *)
(* segment would end by itself.                                            *)
(***************************************************************************)
WaitEnds == (due \/ primary \/ limit) ~> (pc = "done")

(***************************************************************************)
(* The manual's words (docs/SPEC.md:5528): every started segment runs to   *)
(* completion and is reaped.                                               *)
(***************************************************************************)
EveryStartedReaped == pc = "done" => started \subseteq reaped

=============================================================================
