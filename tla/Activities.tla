----------------------------- MODULE Activities -----------------------------
(***************************************************************************)
(* The live host resources of one evaluator: process handles               *)
(* (eval/process_handle.rs, lowered_run/module_process.rs), network jobs   *)
(* (eval/net_job.rs), and the lexical scopes that own them (eval.rs).      *)
(*                                                                         *)
(* The evaluator is one thread.  Children end, transports answer, timeouts *)
(* pass and a signal arrives between any two of its steps.  What the       *)
(* script does next is a free choice at pc = "script"; every other pc is a *)
(* host call that polls.  A resource that is live is in the evaluator's    *)
(* table (process_handles, net_jobs) under the scope that owns it; a scope *)
(* is named by its depth, which scope_ids gives back only when the scope   *)
(* is left.                                                                *)
(***************************************************************************)
EXTENDS Integers, Sequences, FiniteSets

CONSTANTS Handles,      \* process handles a script may make
          Jobs,         \* network jobs a script may start
          None,         \* no resource
          KindsOf,      \* how each of them may be spawned
          MaxDepth,     \* bound: nesting of scopes
          MaxList,      \* bound: handles in one wait
          JobLimit,     \* MAX_LIVE_NET_JOBS
          ByteLimit     \* MAX_RESERVED_NET_JOB_RESPONSE_BYTES, in units of a
                        \* request's max_body_bytes

ASSUME ResourcesAssumption ==
  /\ IsFiniteSet(Handles) /\ IsFiniteSet(Jobs)
  /\ Handles \cap Jobs = {} /\ None \notin Handles \cup Jobs

ASSUME BoundsAssumption ==
  /\ MaxDepth \in Nat \ {0} /\ MaxList \in Nat \ {0}
  /\ JobLimit \in Nat /\ ByteLimit \in Nat

\* How a child is spawned: as it comes, with --detach, with --timeout, or with
\* bytes for its input.
Kinds == {"plain", "detached", "timed", "fed"}

ASSUME KindsAssumption == KindsOf \in [Handles -> SUBSET Kinds]

Things == Handles \cup Jobs
Scopes == 1..MaxDepth
Lists == UNION {[1..n -> Handles] : n \in 1..MaxList}

VARIABLES
  depth,      \* scope_ids: the open scopes are 1..depth
  owner,      \* owner_scope of a live resource, 0 when it is not in its table
  counts,     \* owned_scope_counts: activities per scope
  kind,       \* of a child: how it was spawned, "none" before
  os,         \* what the kernel has of a child
  sig,        \* the strongest signal its group was sent
  late,       \* children whose --timeout has passed
  broken,     \* children with an input_error
  loose,      \* children given to a reaper thread
  op,         \* the transport of a job
  reserved,   \* net_job_reserved_response_bytes
  primary,    \* a signal without a hook was recorded
  complete,   \* shutdown_complete
  pc,         \* what the evaluator is doing
  why,        \* ... and on whose behalf it cancels
  list, at,   \* the handles of a wait, and the one to poll next
  done,       \* handles that wait_ready has reaped and not yet taken
  held,       \* what a wait took out of the table
  ending,     \* what a cancellation took out of the table
  failed,     \* cancel_process_handles_for_signal has a first error
  lost        \* history: reaped by a wait_ready that then failed

children == <<kind, os, sig, late, broken, loose>>
table == <<owner, counts>>
call == <<pc, why, list, at, done, held, ending, failed, lost>>
shutdown == <<primary, complete>>
vars == <<depth, table, children, op, reserved, shutdown, call>>

-----------------------------------------------------------------------------
Live(r) == owner[r] # 0
LiveHandles == {h \in Handles : Live(h)}
LiveJobs == {j \in Jobs : Live(j)}
Owned(s) == {r \in Things : owner[r] = s}

\* process_handle_value, net_job_value: into the table, under the open scope.
Insert(r) ==
  /\ owner' = [owner EXCEPT ![r] = depth]
  /\ counts' = [counts EXCEPT ![depth] = @ + 1]

\* take_process_handle, take_net_job.
Take(r) ==
  /\ owner' = [owner EXCEPT ![r] = 0]
  /\ counts' = [counts EXCEPT ![owner[r]] = @ - 1]

\* release_net_job_admission saturates.
Released == IF reserved = 0 THEN 0 ELSE reserved - 1

\* ProcessGroup::signal; it goes to a number, and a child that is reaped no
\* longer gets it.
Signal(h, s) == sig' = [sig EXCEPT ![h] = IF @ = "kill" THEN "kill" ELSE s]

\* waitpid_managed, one look at a child: its input fails and the child is
\* killed and reaped (drive_managed_input), an input has failed before, it has
\* ended, or neither; a consumed child is StillRunning.
Breaks(h) == kind[h] = "fed" /\ h \notin broken /\ os[h] \in {"running", "zombie"}
Break(h) ==
  /\ Breaks(h)
  /\ broken' = broken \cup {h}
  /\ sig' = [sig EXCEPT ![h] = "kill"]
  /\ os' = [os EXCEPT ![h] = "reaped"]
  /\ UNCHANGED <<kind, late, loose>>
Fails(h) == h \in broken
Ended(h) == os[h] = "zombie" /\ h \notin broken
Reap(h) ==
  /\ Ended(h)
  /\ os' = [os EXCEPT ![h] = "reaped"]
  /\ UNCHANGED <<kind, sig, late, broken, loose>>
Going(h) == os[h] \in {"running", "reaped"} /\ h \notin broken

\* lowered_timeout_elapsed in the polling waits: kill, and poll on.
KillIfLate(h) ==
  /\ Going(h)
  /\ IF h \in late THEN Signal(h, "kill") ELSE UNCHANGED sig
  /\ UNCHANGED <<kind, os, late, broken, loose>>

-----------------------------------------------------------------------------
(* What surrounds the evaluator *)

ChildEnds(h) ==
  /\ os[h] = "running"
  /\ os' = [os EXCEPT ![h] = "zombie"]
  /\ UNCHANGED <<depth, table, kind, sig, late, broken, loose, op, reserved,
                 shutdown, call>>

Late(h) ==
  /\ kind[h] = "timed" /\ h \notin late
  /\ late' = late \cup {h}
  /\ UNCHANGED <<depth, table, kind, os, sig, broken, loose, op, reserved,
                 shutdown, call>>

\* The thread of release_to_reaper.
ReaperReaps(h) ==
  /\ h \in loose
  /\ Reap(h)
  /\ UNCHANGED <<depth, table, op, reserved, shutdown, call>>

\* The network runtime answers (module NetRuntime).
Answers(j) ==
  /\ op[j] \in {"pending", "canceled"}
  /\ op' = [op EXCEPT ![j] = "answered"]
  /\ UNCHANGED <<depth, table, children, reserved, shutdown, call>>

SignalArrives ==
  /\ ~primary
  /\ primary' = TRUE
  /\ UNCHANGED <<depth, table, children, op, reserved, complete, call>>

-----------------------------------------------------------------------------
(* Scopes and ownership *)

Enter ==
  /\ pc = "script" /\ depth < MaxDepth
  /\ depth' = depth + 1
  /\ UNCHANGED <<table, children, op, reserved, shutdown, call>>

\* Mutant: the new owner's count is not told.
TransferUntold(r, s) ==
  /\ pc = "script"
  /\ Live(r) /\ s < owner[r]
  /\ owner' = [owner EXCEPT ![r] = s]
  /\ counts' = [counts EXCEPT ![owner[r]] = @ - 1]
  /\ UNCHANGED <<depth, children, op, reserved, shutdown, call>>

\* transfer_owned_host_resource, for each resource of a value that leaves for
\* an enclosing scope: only outward, from a scope that descends from it.
Transfer(r, s) ==
  /\ pc = "script"
  /\ Live(r) /\ s < owner[r]
  /\ owner' = [owner EXCEPT ![r] = s]
  /\ counts' = [counts EXCEPT ![owner[r]] = @ - 1, ![s] = @ + 1]
  /\ UNCHANGED <<depth, children, op, reserved, shutdown, call>>

\* Mutant: a scope that has released before its deferred actions is not looked
\* at again when it is left.
LeaveScopeOnce(then) ==
  /\ pc = "script" /\ depth > 0
  /\ IF counts[depth] = 0 \/ then = "exit"
       THEN /\ depth' = IF then = "exit" THEN depth - 1 ELSE depth
            /\ pc' = IF depth' = 0 THEN "over" ELSE "script"
            /\ UNCHANGED why
       ELSE pc' = "release" /\ why' = then /\ UNCHANGED depth
  /\ UNCHANGED <<table, children, op, reserved, shutdown, list, at, done, held,
                 ending, failed, lost>>

\* release_owned_host_resources, before the deferred actions or on exit; an
\* owner with a count of zero is not looked for.
LeaveScope(then) ==
  /\ pc = "script" /\ depth > 0
  /\ IF counts[depth] = 0
       THEN /\ depth' = IF then = "exit" THEN depth - 1 ELSE depth
            /\ pc' = IF depth' = 0 THEN "over" ELSE "script"
            /\ UNCHANGED why
       ELSE pc' = "release" /\ why' = then /\ UNCHANGED depth
  /\ UNCHANGED <<table, children, op, reserved, shutdown, list, at, done, held,
                 ending, failed, lost>>

\* cleanup_scope_process_handles: the handles of the scope, one by one, ...
ReleaseHandle(h) ==
  /\ pc = "release"
  /\ owner[h] = depth
  /\ Take(h)
  /\ IF kind[h] = "detached"
       THEN /\ loose' = loose \cup {h}
            /\ UNCHANGED <<sig, pc, ending>>
       ELSE /\ Signal(h, "term")
            /\ pc' = "end" /\ ending' = h
            /\ UNCHANGED loose
  /\ UNCHANGED <<depth, kind, os, late, broken, op, reserved, shutdown, why, list,
                 at, done, held, failed, lost>>

\* ... and cleanup_net_jobs: the reservation goes back before the transport
\* has stopped.
ReleaseJob(j) ==
  /\ pc = "release"
  /\ owner[j] = depth
  /\ \A h \in Handles : owner[h] # depth
  /\ Take(j)
  /\ reserved' = Released
  /\ op' = [op EXCEPT ![j] = IF @ = "pending" THEN "canceled" ELSE @]
  /\ pc' = "endJob" /\ ending' = j
  /\ UNCHANGED <<depth, children, shutdown, why, list, at, done, held, failed, lost>>

ReleaseDone ==
  /\ pc = "release"
  /\ Owned(depth) = {}
  /\ depth' = IF why = "exit" THEN depth - 1 ELSE depth
  /\ pc' = IF depth' = 0 THEN "over" ELSE "script"
  /\ why' = "call"
  /\ UNCHANGED <<table, children, op, reserved, shutdown, list, at, done, held, ending,
                 failed, lost>>

-----------------------------------------------------------------------------
(* Cancelling what was taken out of a table *)

Back == IF why = "call" THEN "script" ELSE IF why = "signal" THEN "signal" ELSE "release"

\* ProcessHandle.cancel; cancelling a handle that is not live does nothing.
Cancel(h) ==
  /\ pc = "script"
  /\ Live(h)
  /\ Take(h)
  /\ Signal(h, "term")
  /\ pc' = "end" /\ ending' = h /\ why' = "call"
  /\ UNCHANGED <<depth, kind, os, late, broken, loose, op, reserved, shutdown, list,
                 at, done, held, failed, lost>>

\* Mutant: a child that survives its first signal is polled for ever.
EndKillNever ==
  /\ pc = "end" /\ sig[ending] = "none"
  /\ Signal(ending, "kill")
  /\ UNCHANGED <<depth, table, kind, os, late, broken, loose, op, reserved, shutdown,
                 call>>

\* cancel_managed: kill after the grace, ...
EndKill ==
  /\ pc = "end" /\ sig[ending] # "kill"
  /\ Signal(ending, "kill")
  /\ UNCHANGED <<depth, table, kind, os, late, broken, loose, op, reserved, shutdown,
                 call>>

\* ... and poll until the child is reaped or its input fails.
EndPoll ==
  /\ pc = "end"
  /\ \/ Reap(ending) /\ UNCHANGED failed
     \/ Break(ending) /\ failed' = (failed \/ why = "signal")
     \/ Fails(ending) /\ failed' = (failed \/ why = "signal") /\ UNCHANGED children
  /\ pc' = Back /\ ending' = None
  /\ UNCHANGED <<depth, table, op, reserved, shutdown, why, list, at, done, held, lost>>

CancelJob(j) ==
  /\ pc = "script"
  /\ Live(j)
  /\ Take(j)
  /\ op' = [op EXCEPT ![j] = IF @ = "pending" THEN "canceled" ELSE @]
  /\ pc' = "endJob" /\ ending' = j /\ why' = "call"
  /\ UNCHANGED <<depth, children, reserved, shutdown, list, at, done, held, failed, lost>>

\* wait_transport_operation without checkpoints; only cancel_net_job has kept
\* its reservation until now.
EndJob ==
  /\ pc = "endJob" /\ op[ending] = "answered"
  /\ reserved' = IF why = "call" THEN Released ELSE reserved
  /\ pc' = Back /\ ending' = None
  /\ UNCHANGED <<depth, table, children, op, shutdown, why, list, at, done, held,
                 failed, lost>>

-----------------------------------------------------------------------------
(* Process handles *)

Spawn(h, k) ==
  /\ pc = "script" /\ depth > 0
  /\ kind[h] = "none"
  /\ kind' = [kind EXCEPT ![h] = k]
  /\ os' = [os EXCEPT ![h] = "running"]
  /\ Insert(h)
  /\ UNCHANGED <<depth, sig, late, broken, loose, op, reserved, shutdown, call>>

\* wait of one handle or of a list: the live ones in order.
Wait(l) ==
  /\ pc = "script"
  /\ pc' = "wait" /\ list' = l
  /\ UNCHANGED <<depth, table, children, op, reserved, shutdown, why, at, done, held,
                 ending, failed, lost>>

WaitNext ==
  /\ pc = "wait" /\ held = None
  /\ IF list = <<>>
       THEN pc' = "script" /\ UNCHANGED <<table, list, held>>
       ELSE /\ list' = Tail(list)
            /\ IF Live(Head(list))
                 THEN Take(Head(list)) /\ held' = Head(list)
                 ELSE UNCHANGED <<table, held>>
            /\ UNCHANGED pc
  /\ UNCHANGED <<depth, children, op, reserved, shutdown, why, at, done, ending, failed,
                 lost>>

\* wait_managed: a status or an error gives the next handle its turn.
WaitPoll ==
  /\ pc = "wait" /\ held # None
  /\ \/ Reap(held)
     \/ Break(held)
     \/ Fails(held) /\ UNCHANGED children
  /\ held' = None
  /\ UNCHANGED <<depth, table, op, reserved, shutdown, pc, why, list, at, done, ending,
                 failed, lost>>

\* Its timeout kills; check_cancellation forwards a signal, or SIGTERM at the
\* deadline of an enclosing `within`, and kills after the grace.
WaitStops(s) ==
  /\ pc = "wait" /\ held # None
  /\ Going(held)
  /\ s = "kill" => held \in late \/ sig[held] # "none"
  /\ sig[held] # "kill"
  /\ Signal(held, s)
  /\ UNCHANGED <<depth, table, kind, os, late, broken, loose, op, reserved, shutdown,
                 call>>

\* process.wait_any, wait_timeout and wait_ready.
PollList(l, p) ==
  /\ pc = "script"
  /\ pc' = p /\ list' = l /\ at' = 1 /\ done' = {}
  /\ UNCHANGED <<depth, table, children, op, reserved, shutdown, why, held, ending,
                 failed, lost>>

\* A handle that is no longer live, or a failing poll, is an error at once; what
\* wait_ready has reaped stays in the table.
PollFails ==
  /\ pc \in {"any", "timed", "ready", "drain"}
  /\ LET h == list[at]
     IN \/ ~Live(h) /\ UNCHANGED children
        \/ Live(h) /\ Fails(h) /\ UNCHANGED children
        \/ Live(h) /\ Break(h)
  /\ pc' = "script" /\ list' = <<>> /\ at' = 1
  /\ lost' = lost \cup done
  /\ done' = {}
  /\ UNCHANGED <<depth, table, op, reserved, shutdown, why, held, ending, failed>>

\* Mutant: the handle whose child was reaped stays in the table.
AnyEndsUntaken ==
  /\ pc \in {"any", "timed"}
  /\ Live(list[at])
  /\ Reap(list[at])
  /\ pc' = "script" /\ list' = <<>> /\ at' = 1
  /\ UNCHANGED <<depth, table, op, reserved, shutdown, why, done, held, ending, failed,
                 lost>>

AnyEnds ==
  /\ pc \in {"any", "timed"}
  /\ Live(list[at])
  /\ Reap(list[at])
  /\ Take(list[at])
  /\ pc' = "script" /\ list' = <<>> /\ at' = 1
  /\ UNCHANGED <<depth, op, reserved, shutdown, why, done, held, ending, failed, lost>>

\* The end of a pass: another one, unless wait_timeout's limit has passed.
AnyGoesOn ==
  /\ pc \in {"any", "timed"}
  /\ Live(list[at])
  /\ KillIfLate(list[at])
  /\ IF at < Len(list) THEN at' = at + 1 /\ UNCHANGED <<pc, list>>
     ELSE /\ at' = 1
          /\ \/ UNCHANGED <<pc, list>>
             \/ pc = "timed" /\ pc' = "script" /\ list' = <<>>
  /\ UNCHANGED <<depth, table, op, reserved, shutdown, why, done, held, ending, failed,
                 lost>>

\* One poll of wait_ready; "drain" is its second look at what still runs.
ReadyPoll ==
  /\ pc \in {"ready", "drain"}
  /\ LET h == list[at]
         seen == pc = "drain" /\ h \in done
     IN \/ Live(h) /\ Reap(h) /\ done' = done \cup {h}
        \/ Live(h) /\ ~seen /\ KillIfLate(h) /\ UNCHANGED done
        \/ seen /\ UNCHANGED <<children, done>>
  /\ IF at < Len(list) THEN at' = at + 1 /\ UNCHANGED pc
     ELSE at' = 1 /\ pc' = IF done' = {} THEN "ready" ELSE "drain"
  /\ UNCHANGED <<depth, table, op, reserved, shutdown, why, list, held, ending, failed,
                 lost>>

\* The drain is over, because all are reaped or its time is: take them.
ReadyTakes ==
  /\ pc = "take" \/ (pc = "drain" /\ at = 1)
  /\ \E h \in done :
       /\ Take(h)
       /\ done' = done \ {h}
       /\ IF done' = {} THEN pc' = "script" /\ list' = <<>>
                        ELSE pc' = "take" /\ UNCHANGED list
  /\ UNCHANGED <<depth, children, op, reserved, shutdown, why, at, held, ending,
                 failed, lost>>

-----------------------------------------------------------------------------
(* Network jobs *)

\* admit_net_job, submission and net_job_value; a submission that fails gives
\* the admission back before anything else runs.
Start(j) ==
  /\ pc = "script" /\ depth > 0
  /\ op[j] = "none"
  /\ Cardinality(LiveJobs) < JobLimit /\ reserved < ByteLimit
  /\ reserved' = reserved + 1
  /\ op' = [op EXCEPT ![j] = "pending"]
  /\ Insert(j)
  /\ UNCHANGED <<depth, children, shutdown, call>>

WaitJob(j) ==
  /\ pc = "script"
  /\ Live(j)
  /\ Take(j)
  /\ pc' = "waitJob" /\ held' = j
  /\ UNCHANGED <<depth, children, op, reserved, shutdown, why, list, at, done, ending,
                 failed, lost>>

\* Mutant: the reservation of a job that answers is not given back.
JobAnsweredKept ==
  /\ pc = "waitJob" /\ op[held] = "answered"
  /\ pc' = "script" /\ held' = None
  /\ UNCHANGED <<depth, table, children, op, reserved, shutdown, why, list, at, done,
                 ending, failed, lost>>

JobAnswered ==
  /\ pc = "waitJob" /\ op[held] = "answered"
  /\ reserved' = Released
  /\ pc' = "script" /\ held' = None
  /\ UNCHANGED <<depth, table, children, op, shutdown, why, list, at, done, ending,
                 failed, lost>>

\* A checkpoint of the wait returns an error, for a `within` deadline or at the
\* end of a shutdown: cancel, and look once more for an answer.
GiveUpJob ==
  /\ op' = [op EXCEPT ![held] = IF @ = "pending" THEN "canceled" ELSE @]
  /\ reserved' = Released
  /\ pc' = "script" /\ held' = None

JobDue ==
  /\ pc = "waitJob"
  /\ GiveUpJob
  /\ UNCHANGED <<depth, table, children, shutdown, why, list, at, done, ending, failed,
                 lost>>

-----------------------------------------------------------------------------
(* service_pending_signal, for a signal without a hook *)

\* Every checkpoint drives the inputs of the live handles; a failure stays with
\* the handle.
DriveInput(h) ==
  /\ pc \in {"script", "waitJob"}
  /\ Live(h) /\ Break(h)
  /\ UNCHANGED <<depth, table, op, reserved, shutdown, call>>

Checkpoint ==
  /\ pc \in {"script", "waitJob"}
  /\ primary /\ ~complete
  /\ pc' = "signal" /\ why' = "signal"
  /\ UNCHANGED <<depth, table, children, op, reserved, shutdown, list, at, done, held,
                 ending, failed, lost>>

\* cancel_process_handles_for_signal takes every handle, ...
SignalHandle(h) ==
  /\ pc = "signal"
  /\ Live(h)
  /\ Take(h)
  /\ IF kind[h] = "detached"
       THEN /\ loose' = loose \cup {h}
            /\ UNCHANGED <<sig, pc, ending>>
       ELSE /\ Signal(h, "term")
            /\ pc' = "end" /\ ending' = h
            /\ UNCHANGED loose
  /\ UNCHANGED <<depth, kind, os, late, broken, op, reserved, shutdown, why, list, at,
                 done, held, failed, lost>>

\* ... and the first error of one returns before the jobs are canceled,
SignalError ==
  /\ pc = "signal" /\ LiveHandles = {} /\ failed
  /\ IF held = None THEN pc' = "script" /\ UNCHANGED <<op, reserved, held>>
                    ELSE GiveUpJob
  /\ why' = "call" /\ failed' = FALSE
  /\ UNCHANGED <<depth, table, children, shutdown, list, at, done, ending, lost>>

\* which cancel_net_jobs_for_signal does otherwise.
SignalJob(j) ==
  /\ pc = "signal" /\ LiveHandles = {} /\ ~failed
  /\ Live(j)
  /\ Take(j)
  /\ reserved' = Released
  /\ op' = [op EXCEPT ![j] = IF @ = "pending" THEN "canceled" ELSE @]
  /\ pc' = "endJob" /\ ending' = j
  /\ UNCHANGED <<depth, children, shutdown, why, list, at, done, held, failed, lost>>

\* Mutant: a script without handles has nothing to cancel.
SignalDoneEarly ==
  /\ pc = "signal" /\ LiveHandles = {} /\ ~failed
  /\ complete' = TRUE
  /\ IF held = None THEN pc' = "script" /\ UNCHANGED <<op, reserved, held>>
                    ELSE GiveUpJob
  /\ why' = "call"
  /\ UNCHANGED <<depth, table, children, primary, list, at, done, ending, failed, lost>>

SignalDone ==
  /\ pc = "signal" /\ LiveHandles \cup LiveJobs = {} /\ ~failed
  /\ complete' = TRUE
  /\ IF held = None THEN pc' = "script" /\ UNCHANGED <<op, reserved, held>>
                    ELSE GiveUpJob
  /\ why' = "call"
  /\ UNCHANGED <<depth, table, children, primary, list, at, done, ending, failed, lost>>

-----------------------------------------------------------------------------
Init ==
  /\ depth = 1
  /\ owner = [r \in Things |-> 0] /\ counts = [s \in Scopes |-> 0]
  /\ kind = [h \in Handles |-> "none"] /\ os = [h \in Handles |-> "none"]
  /\ sig = [h \in Handles |-> "none"]
  /\ late = {} /\ broken = {} /\ loose = {}
  /\ op = [j \in Jobs |-> "none"] /\ reserved = 0
  /\ primary = FALSE /\ complete = FALSE
  /\ pc = "script" /\ why = "call"
  /\ list = <<>> /\ at = 1 /\ done = {}
  /\ held = None /\ ending = None /\ failed = FALSE
  /\ lost = {}

Script ==
  \/ Enter
  \/ \E then \in {"defers", "exit"} : LeaveScope(then)
  \/ \E r \in Things, s \in Scopes : Transfer(r, s)
  \/ \E h \in Handles : Cancel(h) \/ \E k \in KindsOf[h] : Spawn(h, k)
  \/ \E l \in Lists : Wait(l) \/ \E p \in {"any", "timed", "ready"} : PollList(l, p)
  \/ \E j \in Jobs : Start(j) \/ WaitJob(j) \/ CancelJob(j)

Calls ==
  \/ \E h \in Handles : ReleaseHandle(h) \/ SignalHandle(h)
  \/ \E j \in Jobs : ReleaseJob(j) \/ SignalJob(j)
  \/ ReleaseDone
  \/ EndKill \/ EndPoll \/ EndJob
  \/ WaitNext \/ WaitPoll
  \/ PollFails \/ AnyEnds \/ AnyGoesOn \/ ReadyPoll
  \/ JobAnswered
  \/ Checkpoint \/ SignalError \/ SignalDone

Stops ==
  \/ \E s \in {"term", "kill"} : WaitStops(s)
  \/ JobDue
  \/ \E h \in Handles : DriveInput(h)

Environment ==
  \/ \E h \in Handles : ChildEnds(h) \/ Late(h) \/ ReaperReaps(h)
  \/ \E j \in Jobs : Answers(j)
  \/ SignalArrives

Next == Script \/ Calls \/ ReadyTakes \/ Stops \/ Environment

Spec == Init /\ [][Next]_vars

\* The evaluator's thread runs: a host call polls on, takes what it finds, stops
\* what a signal or a timeout tells it to.  SIGKILL ends a child, the network
\* runtime answers a canceled operation (OperationsEnd of module NetRuntime), and
\* the 1 ms of wait_ready's second look is over at the start of some pass, which
\* is when it asks.  Nothing else has to happen.
FairSpec ==
  /\ Spec
  /\ WF_vars(Calls)
  /\ SF_vars(ReadyTakes)
  /\ WF_vars((primary \/ late # {}) /\ \E s \in {"term", "kill"} : WaitStops(s))
  /\ \A h \in Handles : WF_vars(sig[h] = "kill" /\ ChildEnds(h))
  /\ \A j \in Jobs : WF_vars(op[j] = "canceled" /\ Answers(j))

-----------------------------------------------------------------------------
(* Properties *)

\* The types of the variables.
TypeOK ==
  /\ depth \in 0..MaxDepth
  /\ owner \in [Things -> 0..MaxDepth] /\ counts \in [Scopes -> Nat]
  /\ kind \in [Handles -> Kinds \cup {"none"}]
  /\ os \in [Handles -> {"none", "running", "zombie", "reaped"}]
  /\ sig \in [Handles -> {"none", "term", "kill"}]
  /\ late \subseteq Handles /\ broken \subseteq Handles /\ loose \subseteq Handles
  /\ op \in [Jobs -> {"none", "pending", "canceled", "answered"}] /\ reserved \in Nat
  /\ primary \in BOOLEAN /\ complete \in BOOLEAN /\ failed \in BOOLEAN
  /\ pc \in {"script", "wait", "any", "timed", "ready", "drain", "take", "end", "waitJob",
             "endJob", "release", "signal", "over"}
  /\ why \in {"call", "defers", "exit", "signal"}
  /\ list \in Seq(Handles) /\ at \in Nat \ {0}
  /\ done \subseteq Handles /\ lost \subseteq Handles
  /\ held \in Things \cup {None} /\ ending \in Things \cup {None}

\* The count that decides whether the exit of a scope looks for activities is
\* the number of them, for every scope, however resources moved between scopes
\* (register_owned_resource, forget_owned_resource, which panics at none).
CountsExact == \A s \in Scopes : counts[s] = Cardinality(Owned(s))

\* A live resource belongs to a scope that is open, so that some exit will find
\* it; a child that is none of a live handle's, being waited for, being
\* cancelled or left to a reaper has been reaped, and such a job's transport has
\* been told to stop or has answered.
NothingEscapes ==
  /\ \A r \in Things : owner[r] <= depth
  /\ \A h \in Handles :
       os[h] \in {"running", "zombie"} => Live(h) \/ h \in loose \cup {held, ending}
  /\ \A j \in Jobs : op[j] = "pending" => Live(j) \/ held = j

\* The reservation is that of the live jobs and of the one that is waited for or
\* cancelled by the script, within its limit; none is lost and none given back
\* twice.
Charged == LiveJobs \cup ({held} \cap Jobs)
                    \cup (IF why = "call" THEN {ending} \cap Jobs ELSE {})
ReservationExact == reserved = Cardinality(Charged) /\ reserved <= ByteLimit

\* A handle in the table has a child that was not reaped, so that a cancellation
\* signals it and its wait ends; the exceptions are a child whose input failed
\* and one that a failing wait_ready forgot (module_process.rs:208 and 224).
TableIsUnreaped ==
  \A h \in Handles :
    Live(h) /\ os[h] = "reaped" => h \in broken \cup lost \cup done

\* When a shutdown is declared complete it has left nothing: no handle, no job,
\* every child it could reap reaped and every transport stopped.
CancelsAll ==
  [][complete' /\ ~complete =>
       /\ \A r \in Things : owner'[r] = 0
       /\ \A h \in Handles : os'[h] \in {"running", "zombie"} => h \in loose'
       /\ \A j \in Jobs : op'[j] # "pending"]_vars

\* A call that waits for a child which a failing wait_ready has reaped.
Hung(r) == r \in lost

\* Cancelling, leaving a scope and serving a signal end, and so does every wait
\* once a signal asks for it, unless they meet a forgotten child.  A job that a
\* deferred action waits for after the shutdown is left to its own timeout.
CallsReturn ==
  /\ pc \in {"end", "endJob", "release", "signal", "drain", "take"}
       ~> pc \in {"script", "over"} \/ Hung(ending)
  /\ primary /\ (pc = "wait" \/ (pc = "waitJob" /\ ~complete))
       ~> pc = "script" \/ Hung(held) \/ Hung(ending)

\* docs/SPEC.md:5700: cancel signals, kills after kill_after, and reaps; on a
\* handle whose child has already exited it does nothing and returns.
CancelReturns == pc = "end" ~> pc # "end"
=============================================================================
