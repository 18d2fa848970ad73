------------------------------ MODULE Shutdown ------------------------------
(***************************************************************************)
(* Signal-driven shutdown of a script: the two signal cells the OS handler *)
(* writes, the evaluator's checkpoints, the signal hook, the list of       *)
(* process groups the evaluator signals, and the foreground waits,         *)
(* handles and streams those groups belong to.                             *)
(*                                                                         *)
(* A process group is its number: after the leader is reaped the system    *)
(* may hand the number to a stranger, which is what makes a stale entry of *)
(* active_process_groups matter.  The evaluator is one thread; pc says     *)
(* where it stands, in the hook's body when sig.running, in a deferred     *)
(* action when cleanup # "no", and in the script's other statements        *)
(* otherwise.  The script's blocks are not told apart: one is left at any  *)
(* time, with any of the handles and streams and some of the deferred      *)
(* actions.  Network jobs, traces, exit statuses and forced exits are left *)
(* out.                                                                    *)
(***************************************************************************)
EXTENDS Naturals, FiniteSets

CONSTANTS Group,      \* process group numbers
          Sig,        \* the signals the process handles
          HookSig,    \* the one the script declares a hook for
          NoSig, NoGroup,
          Starts,     \* the statements by which the script starts a child
          MaxPending, \* bound: deferred actions and the deadline, together
          MaxStrangers \* bound: foreign processes holding a number at once

ASSUME ShutdownAssumption ==
  /\ HookSig \in Sig
  /\ NoSig \notin Sig
  /\ NoGroup \notin Group
  /\ Starts \subseteq {"inherit", "capture", "spawn", "stream"}
  /\ MaxPending \in Nat
  /\ MaxStrangers \in Nat

VARIABLES primary, escalation,  \* PRIMARY_SIGNAL and ESCALATION_SIGNAL
          hook,      \* the hook of HookSig: "late" is ignore_pending_primary
          sig,       \* EvaluatorSignalState, and whether pre_cancel is spent
          active,    \* active_process_groups: <<group, hook_owned>>
          handles,   \* groups of the live process handles
          streams,   \* groups of the open process streams
          waits,     \* the foreground run of the script and of the hook
          pc, seen,  \* the evaluator's place; the primary a wait's policy read
          victim,    \* the handle or stream it is cancelling, and how far
          due,       \* the deadline of one `within` scope
          defers,    \* the deferred actions of the scopes that are open
          cleanup,   \* cleanup_depth, and how the scope of the action is left
          os,        \* who holds each number, and the signals it was sent
          stale      \* history: reaped numbers still held for signalling

vars == <<primary, escalation, hook, sig, active, handles, streams, waits,
          pc, seen, victim, due, defers, cleanup, os, stale>>

NoWait == [group |-> NoGroup, form |-> "none", cancel |-> "no"]
NoVictim == [group |-> NoGroup, stage |-> "no"]
Free == [who |-> "free", alive |-> FALSE, got |-> {}]
Live(who) == [who |-> who, alive |-> TRUE, got |-> {}]

\* The context the evaluator runs in, and the wait it is in the loop of.
Ctx == IF sig.running THEN "hook" ELSE "main"
Wait == waits[Ctx]

\* The signals a group is sent, who holds a number, a foreground run, and the
\* handle or stream that is being cancelled.
Kind == {"primary", "term", "kill"}
Holder == [who : {"free", "child", "stranger"}, alive : BOOLEAN,
           got : SUBSET Kind]
Run == [group : Group \cup {NoGroup},
        form : {"none", "inherit", "capture"},
        cancel : {"no", "sent", "overdue", "killed", "limit"}]
Victim == [group : Group \cup {NoGroup},
           stage : {"no", "sent", "overdue", "killed", "swept"}]
SignalState == [started : BOOLEAN, running : BOOLEAN, forwarded : BOOLEAN,
                complete : BOOLEAN, spent : BOOLEAN]

TypeOK ==
  /\ primary \in Sig \cup {NoSig}
  /\ escalation \in BOOLEAN
  /\ hook \in {"none", "armed", "late"}
  /\ sig \in SignalState
  /\ active \subseteq Group \X BOOLEAN
  /\ handles \subseteq Group
  /\ streams \subseteq Group
  /\ waits \in [{"main", "hook"} -> Run]
  /\ pc \in {"check", "service", "stmt", "rest", "poll", "decide", "reap",
             "back", "after", "cancel", "leave", "unwind", "done"}
  /\ seen \in Sig \cup {NoSig}
  /\ victim \in Victim
  /\ due \in {"open", "due", "given", "swallowed"}
  /\ defers \in Nat
  /\ cleanup \in {"no", "leave", "unwind"}
  /\ os \in [Group -> Holder]
  /\ stale \subseteq Group

Init ==
  /\ primary = NoSig /\ escalation = FALSE
  /\ hook = "none"
  /\ sig = [started |-> FALSE, running |-> FALSE, forwarded |-> FALSE,
            complete |-> FALSE, spent |-> FALSE]
  /\ active = {} /\ handles = {} /\ streams = {}
  /\ waits = [c \in {"main", "hook"} |-> NoWait]
  /\ pc = "check" /\ seen = NoSig /\ victim = NoVictim
  /\ due = "open" /\ defers = 0 /\ cleanup = "no"
  /\ os = [g \in Group |-> Free]
  /\ stale = {}

(***************************************************************************)
(* The operating system and the children.                                  *)
(***************************************************************************)

\* What one kill(2) to each group of S makes of the table: a number nobody
\* holds, or that only an unreaped child holds, swallows it.
Sent(table, S, what) ==
  [g \in Group |-> IF g \in S /\ table[g].alive
                   THEN [table[g] EXCEPT !.got = @ \cup what]
                   ELSE table[g]]

\* The handler: the first signal is the primary, the second the escalation,
\* whichever it is, and the rest are dropped.
record_signal(s) ==
  /\ pc # "done"
  /\ IF primary = NoSig
     THEN primary' = s /\ UNCHANGED escalation
     ELSE ~escalation /\ escalation' = TRUE /\ UNCHANGED primary
  /\ UNCHANGED <<hook, sig, active, handles, streams, waits, pc, seen, victim,
                 due, defers, cleanup, os, stale>>

\* A child exits by itself or of a signal; its group number stays its own
\* until it is reaped.
ChildEnds(g) ==
  /\ os[g].who = "child" /\ os[g].alive
  /\ os' = [os EXCEPT ![g] = [Free EXCEPT !.who = "child"]]
  /\ UNCHANGED <<primary, escalation, hook, sig, active, handles, streams,
                 waits, pc, seen, victim, due, defers, cleanup, stale>>

ChildDies(g) == "kill" \in os[g].got /\ ChildEnds(g)

\* A free number may go to a process the evaluator does not know.
StrangerTakes(g) ==
  /\ os[g].who = "free"
  /\ Cardinality({h \in Group : os[h].who = "stranger"}) < MaxStrangers
  /\ os' = [os EXCEPT ![g] = Live("stranger")]
  /\ UNCHANGED <<primary, escalation, hook, sig, active, handles, streams,
                 waits, pc, seen, victim, due, defers, cleanup, stale>>

StrangerLeaves(g) ==
  /\ os[g].who = "stranger"
  /\ os' = [os EXCEPT ![g] = Free]
  /\ UNCHANGED <<primary, escalation, hook, sig, active, handles, streams,
                 waits, pc, seen, victim, due, defers, cleanup, stale>>

\* The deferred actions that are registered or under way, and a deadline that
\* has passed: what the bound MaxPending is on.
Pending == defers + (IF cleanup = "no" THEN 0 ELSE 1)
                  + (IF due = "open" THEN 0 ELSE 1)

\* The clock: the pre-cancel budget, the `within` deadline, the cancellation
\* grace of a wait and the kill_after of a handle.
BudgetSpent ==
  /\ sig.running /\ ~sig.spent
  /\ sig' = [sig EXCEPT !.spent = TRUE]
  /\ UNCHANGED <<primary, escalation, hook, active, handles, streams, waits,
                 pc, seen, victim, due, defers, cleanup, os, stale>>

DeadlinePasses ==
  /\ due = "open" /\ pc # "done" /\ Pending < MaxPending
  /\ due' = "due"
  /\ UNCHANGED <<primary, escalation, hook, sig, active, handles, streams,
                 waits, pc, seen, victim, defers, cleanup, os, stale>>

GraceElapses ==
  /\ \/ /\ Wait.cancel = "sent"
        /\ waits' = [waits EXCEPT ![Ctx].cancel = "overdue"]
        /\ UNCHANGED victim
     \/ /\ victim.stage = "sent"
        /\ victim' = [victim EXCEPT !.stage = "overdue"]
        /\ UNCHANGED waits
  /\ UNCHANGED <<primary, escalation, hook, sig, active, handles, streams, pc,
                 seen, due, defers, cleanup, os, stale>>

(***************************************************************************)
(* The evaluator's list of process groups.                                 *)
(***************************************************************************)
track_process_group(g) == active' = active \cup {<<g, sig.running>>}

\* Mutant: process_group_finished is the trait's empty default.
UntrackNothing(g) ==
  /\ UNCHANGED active
  /\ stale' = stale \ {g}

untrack_process_group(g) ==
  /\ active' = {a \in active : a[1] # g}
  /\ stale' = stale \ {g}

\* Mutant: hook_owned is not looked at.
ForwardableAll == {a[1] : a \in active}

\* The groups a signal to the script is forwarded to: not the hook's own.
Forwardable == {a[1] : a \in {b \in active : ~b[2]}}

Tracked == {a[1] : a \in active}

\* forward_primary_to_active: once in a run.
forward_primary_to_active ==
  /\ os' = IF sig.forwarded THEN os ELSE Sent(os, Forwardable, {"primary"})
  /\ sig' = [sig EXCEPT !.forwarded = TRUE]

kill_active_process_groups == Sent(os, Tracked, {"kill"})

(***************************************************************************)
(* Checkpoints: service_pending_signal, between statements and from a      *)
(* foreground wait.  Look is its start, the `within` test and the read of  *)
(* PRIMARY_SIGNAL; ESCALATION_SIGNAL is read after it.  Once it is set the *)
(* primary stays.                                                          *)
(***************************************************************************)

\* due_within_deadline: the scopes are set aside while a deferred action runs.
Overdue == due = "due" /\ cleanup = "no"

\* The hook's body is left, if it is running; its budget does not matter then.
HookLeft == [sig EXCEPT !.running = FALSE, !.spent = FALSE]

\* A deadline that a wait has swallowed is due again at the next statement.
Look ==
  /\ pc = "check"
  /\ IF Overdue \/ (due = "swallowed" /\ cleanup = "no")
     THEN /\ due' = "given"
          /\ sig' = HookLeft
          /\ pc' = IF sig.running THEN "after" ELSE "leave"
     ELSE /\ pc' = IF primary = NoSig THEN "stmt" ELSE "service"
          /\ UNCHANGED <<due, sig>>
  /\ UNCHANGED <<primary, escalation, hook, active, handles, streams, waits,
                 seen, victim, defers, cleanup, os, stale>>

\* A statement list or a loop stops here, unless it is a deferred action's.
shutting_down(complete) == complete /\ cleanup = "no"

\* Mutant: the statement list does not look at the shutdown.
ReturnAnyway(complete) == IF Wait # NoWait THEN "back" ELSE "stmt"

\* Where a checkpoint's caller goes on: a wait asks whether the primary was
\* forwarded, a hook's body that must stop unwinds to the end of the hook, the
\* script's statements to its end.  The hook that interrupted a deferred action
\* goes on as the action does.
Return(complete) ==
  CASE Wait # NoWait                             -> "back"
    [] Wait = NoWait /\ shutting_down(complete) ->
         IF sig.running THEN "after" ELSE "unwind"
    [] OTHER                                     -> "stmt"

ServiceEscalation ==
  /\ pc = "service" /\ escalation
  /\ os' = kill_active_process_groups
  /\ sig' = IF cleanup = "no" THEN [HookLeft EXCEPT !.complete = TRUE]
                               ELSE [sig EXCEPT !.complete = TRUE]
  /\ pc' = Return(TRUE)
  /\ UNCHANGED <<primary, escalation, hook, active, handles, streams, waits,
                 seen, victim, due, defers, cleanup, stale>>

\* Mutant: the hook's first checkpoint forwards, whatever the budget.
ServiceInHookAtOnce ==
  /\ pc = "service" /\ ~escalation /\ sig.running
  /\ forward_primary_to_active
  /\ pc' = Return(FALSE)
  /\ UNCHANGED <<primary, escalation, hook, active, handles, streams, waits,
                 seen, victim, due, defers, cleanup, stale>>

ServiceInHook ==
  /\ pc = "service" /\ ~escalation /\ sig.running
  /\ IF sig.spent THEN forward_primary_to_active ELSE UNCHANGED <<os, sig>>
  /\ pc' = Return(FALSE)
  /\ UNCHANGED <<primary, escalation, hook, active, handles, streams, waits,
                 seen, victim, due, defers, cleanup, stale>>

\* A handled signal and no hook to run: the hook has run, or was armed when
\* the signal was already pending and ignores it.
ServiceAgain ==
  /\ pc = "service" /\ ~escalation /\ ~sig.running
  /\ \/ sig.started \/ sig.complete
     \/ primary = HookSig /\ hook = "late"
  /\ pc' = Return(sig.complete)
  /\ UNCHANGED <<primary, escalation, hook, sig, active, handles, streams,
                 waits, seen, victim, due, defers, cleanup, os, stale>>

\* Mutant: hook_started and shutdown_complete are not tested.
UnservedAgain ==
  /\ pc = "service" /\ ~escalation
  /\ ~sig.running

Unserved ==
  /\ pc = "service" /\ ~escalation
  /\ ~sig.running /\ ~sig.started /\ ~sig.complete

ServiceUnhooked ==
  /\ Unserved
  /\ ~(primary = HookSig /\ hook # "none")
  /\ pc' = "cancel"
  /\ UNCHANGED <<primary, escalation, hook, sig, active, handles, streams,
                 waits, seen, victim, due, defers, cleanup, os, stale>>

ServiceHook ==
  /\ Unserved
  /\ primary = HookSig /\ hook = "armed"
  /\ sig' = [sig EXCEPT !.started = TRUE, !.running = TRUE]
  /\ pc' = "check"
  /\ UNCHANGED <<primary, escalation, hook, active, handles, streams, waits,
                 seen, victim, due, defers, cleanup, os, stale>>

\* The hook's body has ended: the primary goes to the script's groups, then
\* the handles are cancelled.
AfterHook ==
  /\ pc = "after"
  /\ forward_primary_to_active
  /\ pc' = "cancel"
  /\ UNCHANGED <<primary, escalation, hook, active, handles, streams, waits,
                 seen, victim, due, defers, cleanup, stale>>

\* cancel_process_handles_for_signal: one cancel_managed after the other, then
\* the open streams' groups are killed, with every other tracked one.
CancelHandle(g) ==
  /\ pc = "cancel" /\ victim = NoVictim /\ g \in handles
  /\ handles' = handles \ {g}
  /\ victim' = [group |-> g, stage |-> "sent"]
  /\ os' = Sent(os, {g}, {"primary"})
  /\ UNCHANGED <<primary, escalation, hook, sig, active, streams, waits, pc,
                 seen, due, defers, cleanup, stale>>

\* Mutant: shutdown_complete is left unset after the hook.
CancelEndsOpen ==
  /\ pc = "cancel" /\ victim = NoVictim /\ handles = {}
  /\ os' = IF streams = {} THEN os ELSE kill_active_process_groups
  /\ sig' = [sig EXCEPT !.complete = ~sig.started]
  /\ pc' = Return(~sig.started)
  /\ UNCHANGED <<primary, escalation, hook, active, handles, streams, waits,
                 seen, victim, due, defers, cleanup, stale>>

\* Without a hook and with process or network work to cancel, or when the hook
\* failed, this ends in an error that a `try` of the statement under way may
\* catch.
CancelEnds ==
  /\ pc = "cancel" /\ victim = NoVictim /\ handles = {}
  /\ os' = IF streams = {} THEN os ELSE kill_active_process_groups
  /\ sig' = [sig EXCEPT !.complete = TRUE]
  /\ pc' \in {Return(TRUE)} \cup IF Wait = NoWait THEN {"rest"} ELSE {}
  /\ UNCHANGED <<primary, escalation, hook, active, handles, streams, waits,
                 seen, victim, due, defers, cleanup, stale>>

\* cancel_managed: poll, kill after the grace, and once reaped after a kill
\* one more SIGKILL to what is left of the group.
VictimReaped ==
  /\ victim.stage \in {"sent", "overdue", "killed"}
  /\ LET g == victim.group IN
       /\ ~os[g].alive
       /\ os' = [os EXCEPT ![g] = Free]
       /\ streams' = streams \ {g}
       /\ IF g \in streams
          THEN untrack_process_group(g) /\ victim' = NoVictim
          ELSE /\ UNCHANGED active
               /\ IF victim.stage = "killed"
                  THEN /\ victim' = [victim EXCEPT !.stage = "swept"]
                       /\ stale' = stale \cup {g}
                  ELSE victim' = NoVictim /\ UNCHANGED stale
  /\ UNCHANGED <<primary, escalation, hook, sig, handles, waits, pc, seen,
                 due, defers, cleanup>>

VictimKilled ==
  /\ victim.stage = "overdue"
  /\ os[victim.group].alive
  /\ os' = Sent(os, {victim.group}, {"kill"})
  /\ victim' = [victim EXCEPT !.stage = "killed"]
  /\ UNCHANGED <<primary, escalation, hook, sig, active, handles, streams,
                 waits, pc, seen, due, defers, cleanup, stale>>

VictimSwept ==
  /\ victim.stage = "swept"
  /\ os' = Sent(os, {victim.group}, {"kill"})
  /\ victim' = NoVictim
  /\ stale' = IF victim.group \in Tracked THEN stale ELSE stale \ {victim.group}
  /\ UNCHANGED <<primary, escalation, hook, sig, active, handles, streams,
                 waits, pc, seen, due, defers, cleanup>>

(***************************************************************************)
(* Statements: the script's, the hook's and the deferred actions'.  "stmt" *)
(* is a statement that passed its checkpoint, "rest" one that has done     *)
(* something and may do more of it.                                        *)
(***************************************************************************)
Body == pc \in {"stmt", "rest"}

Started(g) == os' = [os EXCEPT ![g] = Live("child")]

\* A `run`, with its output inherited or captured: the group is tracked only
\* when the wait first asks the policy.
RunForeground(g, form) ==
  /\ Body /\ os[g].who = "free" /\ form \in Starts
  /\ Started(g)
  /\ waits' = [waits EXCEPT ![Ctx] = [group |-> g, form |-> form,
                                      cancel |-> "no"]]
  /\ pc' = "poll"
  /\ UNCHANGED <<primary, escalation, hook, sig, active, handles, streams,
                 seen, victim, due, defers, cleanup, stale>>

Spawn(g) ==
  /\ Body /\ ~sig.running /\ os[g].who = "free" /\ "spawn" \in Starts
  /\ Started(g)
  /\ handles' = handles \cup {g}
  /\ pc' = "rest"
  /\ UNCHANGED <<primary, escalation, hook, sig, active, streams, waits, seen,
                 victim, due, defers, cleanup, stale>>

OpenStream(g) ==
  /\ Body /\ ~sig.running /\ os[g].who = "free" /\ "stream" \in Starts
  /\ Started(g)
  /\ streams' = streams \cup {g}
  /\ track_process_group(g)
  /\ pc' = "rest"
  /\ UNCHANGED <<primary, escalation, hook, sig, handles, waits, seen, victim,
                 due, defers, cleanup, stale>>

\* The consumer reads a stream to its end: the child is reaped.
FinishStream(g) ==
  /\ Body /\ ~sig.running /\ g \in streams /\ ~os[g].alive
  /\ os' = [os EXCEPT ![g] = Free]
  /\ streams' = streams \ {g}
  /\ untrack_process_group(g)
  /\ pc' = "rest"
  /\ UNCHANGED <<primary, escalation, hook, sig, handles, waits, seen, victim,
                 due, defers, cleanup>>

\* The statement is over, and the next one begins with a checkpoint.
StatementEnds ==
  /\ pc = "rest"
  /\ pc' = "check"
  /\ UNCHANGED <<primary, escalation, hook, sig, active, handles, streams,
                 waits, seen, victim, due, defers, cleanup, os, stale>>

\* `on HookSig`, at the top level: a primary that is already pending will not
\* run the hook.
register_indexed_signal_hook ==
  /\ pc = "stmt" /\ ~sig.running /\ cleanup = "no" /\ hook = "none"
  /\ hook' = IF primary = HookSig THEN "late" ELSE "armed"
  /\ pc' = "check"
  /\ UNCHANGED <<primary, escalation, sig, active, handles, streams, waits,
                 seen, victim, due, defers, cleanup, os, stale>>

\* `defer`, in the script's blocks.
Defer ==
  /\ pc = "stmt" /\ ~sig.running /\ cleanup = "no"
  /\ Pending < MaxPending
  /\ defers' = defers + 1
  /\ pc' = "check"
  /\ UNCHANGED <<primary, escalation, hook, sig, active, handles, streams,
                 waits, seen, victim, due, cleanup, os, stale>>

\* A body is left, at its last statement or by an error: the hook's, a block
\* of the script after which the statement around it goes on, or the script's.
BodyEnds ==
  /\ Body /\ (sig.running \/ cleanup = "no")
  /\ sig' = HookLeft
  /\ pc' \in IF sig.running THEN {"after"} ELSE {"leave", "unwind"}
  /\ UNCHANGED <<primary, escalation, hook, active, handles, streams, waits,
                 seen, victim, due, defers, cleanup, os, stale>>

Leaving == pc \in {"leave", "unwind"} /\ victim = NoVictim

\* Leaving the scope cancels its streams and its handles with SIGTERM.
cleanup_scope(g) ==
  /\ Leaving /\ g \in handles \cup streams
  /\ handles' = handles \ {g}
  /\ victim' = [group |-> g, stage |-> "sent"]
  /\ os' = Sent(os, {g}, {"term"})
  /\ UNCHANGED <<primary, escalation, hook, sig, active, streams, waits, pc,
                 seen, due, defers, cleanup, stale>>

\* step_cleanup_group: the last action registered runs, with the `within`
\* deadlines set aside.  It begins with a checkpoint when it is a block.
RunDeferred ==
  /\ Leaving /\ defers > 0
  /\ defers' = defers - 1
  /\ cleanup' = pc
  /\ pc' \in {"check", "rest"}
  /\ UNCHANGED <<primary, escalation, hook, sig, active, handles, streams,
                 waits, seen, victim, due, os, stale>>

\* The action is over.  If it failed, the scope is left with that error, which
\* may end the script.
ActionEnds ==
  /\ Body /\ ~sig.running /\ cleanup # "no"
  /\ cleanup' = "no"
  /\ pc' \in {cleanup, "unwind"}
  /\ UNCHANGED <<primary, escalation, hook, sig, active, handles, streams,
                 waits, seen, victim, due, defers, os, stale>>

\* A block has been left and the statement around it goes on.
BlockLeft ==
  /\ pc = "leave" /\ victim = NoVictim
  /\ pc' = "rest"
  /\ UNCHANGED <<primary, escalation, hook, sig, active, handles, streams,
                 waits, seen, victim, due, defers, cleanup, os, stale>>

\* Mutant: the scope's cleanup takes a complete shutdown for a forced one.
ScriptEndsForced ==
  /\ pc = "unwind" /\ victim = NoVictim
  /\ handles \cup streams = {} \/ sig.complete
  /\ pc' = "done"
  /\ UNCHANGED <<primary, escalation, hook, sig, active, handles, streams,
                 waits, seen, victim, due, defers, cleanup, os, stale>>

ScriptEnds ==
  /\ pc = "unwind" /\ victim = NoVictim
  /\ handles \cup streams = {} /\ defers = 0
  /\ pc' = "done"
  /\ UNCHANGED <<primary, escalation, hook, sig, active, handles, streams,
                 waits, seen, victim, due, defers, cleanup, os, stale>>

(***************************************************************************)
(* Foreground waits: wait_managed and wait_children ("inherit") and        *)
(* run_capture_stdio ("capture").  A turn of the loop polls the child and  *)
(* its deadline, then asks the evaluator's CancellationPolicy.             *)
(***************************************************************************)

\* The wait is over; what its group number was tracked for stays in the list
\* unless process_group_finished is called.
EndWait(finished) ==
  LET g == Wait.group IN
    /\ os' = [os EXCEPT ![g] = Free]
    /\ waits' = [waits EXCEPT ![Ctx] = NoWait]
    /\ pc' = "rest"
    /\ IF finished
       THEN untrack_process_group(g)
       ELSE /\ stale' = IF g \in Tracked THEN stale \cup {g} ELSE stale
            /\ UNCHANGED active
    /\ UNCHANGED <<primary, escalation, hook, sig, handles, streams, seen,
                   victim, due, defers, cleanup>>

\* The child is reaped.  A capture that was cancelled, or that overflowed,
\* returns before process_group_finished.
WaitEnds ==
  /\ pc = "poll" /\ ~os[Wait.group].alive
  /\ EndWait(Wait.form = "inherit" \/ Wait.cancel = "no")

\* --timeout: kill the group, wait for it, and return the timeout error.
WaitTimesOut ==
  /\ pc = "poll" /\ os[Wait.group].alive
  /\ os' = Sent(os, {Wait.group}, {"kill"})
  /\ waits' = [waits EXCEPT ![Ctx].cancel = "killed"]
  /\ pc' = "reap"
  /\ UNCHANGED <<primary, escalation, hook, sig, active, handles, streams,
                 seen, victim, due, defers, cleanup, stale>>

TimeoutReaped ==
  /\ pc = "reap" /\ ~os[Wait.group].alive
  /\ EndWait(FALSE)

\* drain_capture_fd: past the limit the group is killed and the policy is not
\* asked any more.
CaptureOverflows ==
  /\ pc = "poll" /\ Wait.form = "capture" /\ Wait.cancel # "limit"
  /\ os' = Sent(os, {Wait.group}, {"kill"})
  /\ waits' = [waits EXCEPT ![Ctx].cancel = "limit"]
  /\ UNCHANGED <<primary, escalation, hook, sig, active, handles, streams, pc,
                 seen, victim, due, defers, cleanup, stale>>

\* Mutant: tick does not wait for the grace period.
CancelledAtOnce(table, what) ==
  LET g == Wait.group
      first == IF Wait.cancel = "no" THEN Sent(table, {g}, what) ELSE table
  IN IF Wait.cancel \in {"sent", "overdue"} THEN Sent(first, {g}, {"kill"}) ELSE first

\* Cancellation::new and tick, on the wait's own group: what is sent when the
\* policy forwards for the first time, and SIGKILL once the grace is over.
Cancelled(table, what) ==
  LET g == Wait.group
      first == IF Wait.cancel = "no" THEN Sent(table, {g}, what) ELSE table
  IN IF Wait.cancel = "overdue" THEN Sent(first, {g}, {"kill"}) ELSE first

Tick(cancel, forward) ==
  CASE cancel = "overdue"        -> "killed"
    [] cancel = "no" /\ forward -> "sent"
    [] OTHER                     -> cancel

Ticked(forward) ==
  waits' = [waits EXCEPT ![Ctx].cancel = Tick(@, forward)]

\* check_process_group starts: a passed `within` deadline decides it, and
\* otherwise the snapshot's first half is read.
PolicyAsked ==
  /\ pc = "poll" /\ os[Wait.group].alive /\ Wait.cancel # "limit"
  /\ track_process_group(Wait.group)
  /\ IF Overdue
     THEN /\ os' = Cancelled(os, {"term"})
          /\ Ticked(TRUE)
          /\ UNCHANGED <<pc, seen>>
     ELSE /\ seen' = primary
          /\ pc' = "decide"
          /\ UNCHANGED <<os, waits>>
  /\ UNCHANGED <<primary, escalation, hook, sig, handles, streams, victim,
                 due, defers, cleanup, stale>>

Deciding(escalated) ==
  /\ pc = "decide"
  /\ escalation = escalated

DecideEscalate ==
  /\ Deciding(TRUE)
  /\ os' = Sent(kill_active_process_groups, {Wait.group}, {"kill"})
  /\ waits' = [waits EXCEPT ![Ctx].cancel = "killed"]
  /\ pc' = "poll"
  /\ seen' = NoSig
  /\ UNCHANGED <<primary, escalation, hook, sig, active, handles, streams,
                 victim, due, defers, cleanup, stale>>

\* Nothing is pending, or the hook is running and its own child is spared.
DecideContinue ==
  /\ Deciding(FALSE)
  /\ seen = NoSig \/ sig.running
  /\ IF seen # NoSig /\ sig.spent
     THEN /\ os' = Cancelled(IF sig.forwarded THEN os
                             ELSE Sent(os, Forwardable, {"primary"}), {})
          /\ sig' = [sig EXCEPT !.forwarded = TRUE]
     ELSE os' = Cancelled(os, {}) /\ UNCHANGED sig
  /\ Ticked(FALSE)
  /\ pc' = "poll"
  /\ seen' = NoSig
  /\ UNCHANGED <<primary, escalation, hook, active, handles, streams,
                 victim, due, defers, cleanup, stale>>

\* Mutant: an unhooked primary is left to the next statement.
DecideForwardIgnored ==
  /\ Deciding(FALSE)
  /\ seen # NoSig /\ ~sig.running
  /\ ~(seen = HookSig /\ hook # "none")
  /\ os' = Cancelled(os, {})
  /\ Ticked(FALSE)
  /\ pc' = "poll"
  /\ seen' = NoSig
  /\ UNCHANGED <<primary, escalation, hook, sig, active, handles, streams,
                 victim, due, defers, cleanup, stale>>

DecideForward ==
  /\ Deciding(FALSE)
  /\ seen # NoSig /\ ~sig.running
  /\ ~(seen = HookSig /\ hook # "none")
  /\ os' = Cancelled(os, {"primary"})
  /\ Ticked(TRUE)
  /\ pc' = "poll"
  /\ seen' = NoSig
  /\ UNCHANGED <<primary, escalation, hook, sig, active, handles, streams,
                 victim, due, defers, cleanup, stale>>

\* The primary has a hook: the policy services it from inside the wait, and
\* forwards only if that has forwarded it to the active groups.  A deadline
\* that passed since the policy's own look is what the service finds first;
\* its error is dropped, and it is due again at the next statement.
DecideService ==
  /\ Deciding(FALSE)
  /\ seen = HookSig /\ hook # "none" /\ ~sig.running
  /\ IF Overdue
     THEN due' = "swallowed" /\ pc' = "back"
     ELSE UNCHANGED due /\ pc' = "service"
  /\ seen' = NoSig
  /\ UNCHANGED <<primary, escalation, hook, sig, active, handles, streams,
                 waits, victim, defers, cleanup, os, stale>>

Back ==
  /\ pc = "back"
  /\ os' = Cancelled(os, IF sig.forwarded THEN {"primary"} ELSE {})
  /\ Ticked(sig.forwarded)
  /\ pc' = "poll"
  /\ UNCHANGED <<primary, escalation, hook, sig, active, handles, streams,
                 seen, victim, due, defers, cleanup, stale>>

-----------------------------------------------------------------------------
Checkpoint == \/ Look \/ ServiceEscalation \/ ServiceInHook
              \/ ServiceAgain \/ ServiceUnhooked \/ ServiceHook \/ AfterHook

Cancelling == \/ \E g \in Group : CancelHandle(g) \/ cleanup_scope(g)
              \/ CancelEnds \/ VictimReaped \/ VictimKilled \/ VictimSwept

Statement ==
  \/ \E g \in Group :
       \/ \E form \in {"inherit", "capture"} : RunForeground(g, form)
       \/ Spawn(g) \/ OpenStream(g) \/ FinishStream(g)
  \/ register_indexed_signal_hook \/ StatementEnds \/ BodyEnds \/ ScriptEnds
  \/ Defer \/ RunDeferred \/ ActionEnds \/ BlockLeft

Waiting == \/ WaitEnds \/ WaitTimesOut \/ TimeoutReaped \/ CaptureOverflows
           \/ PolicyAsked \/ DecideEscalate \/ DecideContinue \/ DecideForward
           \/ DecideService \/ Back

Evaluator == Checkpoint \/ Cancelling \/ Statement \/ Waiting

Environment ==
  \/ \E s \in Sig : record_signal(s)
  \/ \E g \in Group : ChildEnds(g) \/ StrangerTakes(g) \/ StrangerLeaves(g)
  \/ BudgetSpent \/ DeadlinePasses \/ GraceElapses

Next == Evaluator \/ Environment

Spec == Init /\ [][Next]_vars

\* The evaluator's thread is scheduled, clocks advance, and SIGKILL ends a
\* child.  A statement does finitely many things between two checkpoints (a
\* loop has one in every turn), and a deferred action, or the hook that
\* interrupts one, is a finite program.  Nothing makes a child exit by itself,
\* a signal arrive, or a number be taken, nor a script or a hook end.
FairSpec == /\ Spec
            /\ WF_vars(Evaluator)
            /\ SF_vars(StatementEnds)
            /\ SF_vars(cleanup # "no" /\ (ActionEnds \/ BodyEnds))
            /\ WF_vars(GraceElapses)
            /\ \A g \in Group : WF_vars(ChildDies(g))

-----------------------------------------------------------------------------
(***************************************************************************)
(* Properties.                                                             *)
(***************************************************************************)

\* A step that sends `what` to the current holder of g.
Delivers(g, what) ==
  /\ what \in os'[g].got \ os[g].got
  /\ os[g].who # "free"

\* "Work the hook itself starts is not sent the primary signal" (SPEC 12.2):
\* neither the forward after the budget nor the wait's own cancellation
\* reaches a child the hook runs.
HookWorkSpared ==
  LET g == waits["hook"].group IN
    g # NoGroup => g \in stale \/ "primary" \notin os[g].got

\* When the script is over no child of its scope is left running or unreaped:
\* not after an escalation, nor after a signal that arrived while a handle was
\* being cancelled, and not what a deferred action started.
NothingOutlives == pc = "done" => \A g \in Group : os[g].who # "child"

\* The hook runs at most once, and is not entered again from its own
\* checkpoints, its waits, or those of the cleanup that follows it.
HookRunsOnce == [][~sig.running /\ sig'.running => ~sig.started]_vars

\* While the hook is within its --pre-cancel budget the script's children do
\* not get the primary signal.
BudgetRespected ==
  [][sig.running /\ ~sig.spent /\ sig'.running
       => \A g \in Group : ~Delivers(g, "primary")]_vars

\* Without a hook a signal is forwarded and the grace period passes before the
\* foreground child is killed, unless a second signal, the child's own timeout
\* or the capture limit asks for it.
GraceBeforeKill ==
  [][LET w == waits["main"] IN
       w # NoWait /\ Delivers(w.group, "kill") /\ hook = "none"
         => \/ escalation
            \/ w.cancel = "overdue"
            \/ pc' = "reap" \/ waits'["main"].cancel = "limit"]_vars

\* Once the shutdown is complete no statement begins but a deferred action's:
\* a child is started by an action, or by what is left of the statement that
\* was under way (shutting_down and the checkpoint of step_statements).
OnlyCleanupStarts ==
  [][sig.complete /\ cleanup = "no" /\ pc # "rest"
       => \A g \in Group : os'[g].who = "child" => os[g].who = "child"]_vars

\* A number that belongs to a stranger is signalled only while the evaluator
\* holds it stale: after a timed-out wait or a cancelled capture, and in
\* cancel_managed's last SIGKILL.
StrayOnlyWhenStale ==
  [][\A g \in Group, what \in Kind :
       Delivers(g, what) /\ os[g].who = "stranger" => g \in stale]_vars

\* "The first handled signal always starts shutdown" (user-tour.md), for every
\* signal that does not hit the arming of its own hook: the script's
\* foreground child, however stubborn, is stopped and the shutdown begins.
SignalStartsShutdown ==
  (primary # NoSig) ~> (sig.started \/ sig.complete \/ hook = "late" \/ pc = "done")

\* After a second signal the script ends, whatever it or its hook waits for;
\* and so it does once the hook has ended.
ShutdownEndsScript ==
  (escalation \/ (sig.started /\ ~sig.running)) ~> (pc = "done")

(***************************************************************************)
(* What the documents say and the code does not do.                        *)
(***************************************************************************)

\* "A signal that arrived before arming is treated as having no hook" (SPEC
\* 12.2), and the first handled signal always starts shutdown.
LateSignalStartsShutdown ==
  (primary # NoSig) ~> (sig.started \/ sig.complete \/ pc = "done")

=============================================================================
