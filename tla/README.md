# xsh: a model of its processes, signals and network

xsh is a typed scripting language for Unix: a front end (syntax, semantic
checking, lowering to a verified IR), an executor, and a runtime that starts
processes, waits for them, forwards signals and runs network jobs. This
directory models that runtime in TLA+. The front end is pure; the runtime is
where threads, signals, timeouts and recycled process ids meet, and where tests
reach little.

## The system

| Part | Source | State | Operations | Talks to |
|---|---|---|---|---|
| Child identities | `src/runtime/process.rs` 99-327 | the authority's registry, epoch and flags, under one mutex | launch, signal, observe, wait, wait-any, change SIGCHLD | kernel process table |
| Timed streams | `process.rs` 1748-2860 | the stream, a watch thread and the control they share | start, next, cancel, the deadline | identities, kernel |
| Pipelines | `process.rs` 629-812, 971-1697, 3120-3354, `run.rs` | children, segment statuses, deadline, cancellation, limit | start, poll, drain, expire, finish | policy (shutdown), kernel |
| Process handles | `eval/process_handle.rs`, `module_process.rs`, `process.rs` 2915-3050, 3179-3221 | table of live handles and owners, each child's input and timeout | spawn, wait, wait-any, wait-ready, cancel, transfer, scope cleanup | scopes, shutdown, kernel |
| Signals, shutdown | `signal.rs`, `process.rs` 379-540, `eval.rs` 3757-4290, 7245-7390 | two signal cells, the hook, `EvaluatorSignalState`, `active_process_groups` | checkpoints, forward, escalate, run hook, cancel handles | every wait, handles, streams, jobs |
| Network runtime | `crates/xsh-net/src/runtime.rs` | admission counter, completions, command queue, driver's pending / preparing / active | submit, cancel, preflight, permit, finish, deadline, shutdown | evaluator thread, driver thread |
| Network jobs | `eval/net_job.rs` | job table, reserved bytes | admit, wait, cancel, transfer, cleanup | scopes, shutdown, network runtime |
| Downloads, file lane | `crates/xsh-net/src/lib.rs` 1400-1880, `runtime.rs` 860-1001 | destination and temporary file, two workers' bounded queue, each download's future | prepare, create, append, finalize, remove, deadline, cancel, shutdown | network runtime, file system |
| Structured streams | `eval/stream.rs`, `indexed_run/producer.rs` | producers and their delegation | open, pull, finish | timed streams |
| Scopes | `indexed_run/explicit_run.rs`, `eval.rs` 6688-6943, 7245-7312 | scope ids, resources counted per scope, deferred actions, `within` deadlines | enter, leave, transfer, defer | handles, jobs, shutdown |
| Executor, lowering, sema, syntax, loader | `src/runtime/eval`, `src/sema`, `src/syntax`, `src/loader.rs` | sequential, pure passes | - | - |
| Standard modules, archive, ssh, root, xshi, xsht, deser, registry, fuzz, core, formal | `src/modules`, `crates`, `core`, `formal` | sequential or separate | - | - |

What is hard here, and what makes each part correct:

- **Identities.** A number outlives its process. A stream's two threads act on a
  number while the script may reap any child or tell the kernel to forget
  endings. Correct: a signal or wait through an identity reaches that child and
  no other, and an identity once lost is never trusted again.
- **Timed streams.** A deadline, the child's exit, the reader and a cancel race.
  Correct: one verdict, of the child's own exit; a timeout is never lost; no
  child and no watch thread stays behind; every call returns.
- **Pipelines.** Any step of starting may fail, with other segments running; a
  deadline, a signal and the capture limit all end a wait. Correct: the
  verdict is the manual's pipefail rule applied to how segments ended, cut
  output is not success, all segments are reaped.
- **Shutdown.** Two cells written by a handler and read apart; a hook that runs
  the script's code at checkpoints of its own; a list of group numbers whose
  owners end; deferred actions that run statements after the shutdown has stopped
  all others. Correct: one hook run, grace before kill, escalation at once, the
  hook's work spared, nothing but cleanup starts, nothing outlives the script, no
  stranger is signalled.
- **Network runtime.** Two threads, one queue, counters as limits, results that
  arrive in any order. Correct: each accepted operation gets one result, wake-ups
  are not lost, limits are exact, deadlines and cancels end an operation at any
  stage, the driver can be joined.

- **Handles, jobs and scopes.** A child or a transport is owned by a scope through
  a table, a count per scope and a byte reservation, which a dozen calls keep in
  step by hand; any of them may be cut short by an error, a timeout or a signal.
  Correct: what lives has an owner whose exit will find it, counts and
  reservation are exact, a wait or cancel returns, a shutdown leaves nothing.
- **Downloads.** File work outlives the future that asked for it, on two threads
  that keep no order between two jobs of one download. Correct: a destination
  never shows part of a body, the caller's answer is true of it, temporary files
  go away.

`PROJECT.json` lists each hazard at its line with the properties aimed at it.

## The modules

| Module | Models | Notes |
|---|---|---|
| `ChildStatus` | `ChildStatusAuthority`, `TimedChildIdentity`, wait-any, SIGCHLD, untimed waiters | each operation that holds the mutex is one action; the kernel steps between |
| `ChildStatusProofs` | - | the theorems about it |
| `TimedStream` | `ProcessStream` and `ProcessTimeoutWatch` over `ChildStatus` | extends it; `CSSpec` is also a property, so the stream is shown to use identities as `ChildStatus` allows |
| `TimedStreamProofs` | - | the theorems about it, `CSSpec` among them |
| `ExitPolicy` | `ProcessStatus::from_segments`, `AcceptedExitCodes`, `tolerate_upstream_sigpipe`, `rejected_segment` | pure operators, next to the manual's rule in its own words |
| `Pipeline` | `start_pipeline`, `wait_children`, the capture loop, the run's verdict | extends `ExitPolicy` |
| `PipelineProofs` | - | the theorems about the pipefail rule and pipelines |
| `Shutdown` | signal cells, `service_pending_signal`, `check_process_group`, the hook, group list, waits, handles, streams, the gate before a statement, deferred actions | one evaluator thread, `pc` is its place |
| `ShutdownProofs` | - | the theorems about it |
| `NetCompletion` | what a `NetOperation` promises | abstract |
| `NetRuntime` | the actor of `xsh-net` and its callers | `KeepsPromise` maps it to `NetCompletion` |
| `NetRuntimeProofs` | - | the theorems about it, `KeepsPromise` among them |
| `Download` | `run_download`, `finalize_atomic_download`, the `FileLane` and its workers, the driver's cancel and shutdown of a download | one action per file-system call of a worker; `first`, `began`, `rival` and `excuse` are history |
| `DownloadProofs` | - | the theorems about it |
| `Activities` | the evaluator's handle and job tables, the scopes that own them, every wait and cancel, shutdown's cancellation | one evaluator thread; children, transports, clocks and a signal beside it |
| `ActivitiesProofs` | - | the theorems about it |
| `MC*` | instances for TLC | symmetry over interchangeable groups and ids |

State and actions carry the source's names where TLA+ has them; `PROJECT.json`
"map" gives each definition's lines. The kernel (process ids, zombies, pipes,
strangers who get a freed number) is modelled from how the runtime uses it.

Abstractions that matter:

- `ChildStatus`, `TimedStream`: the authority's mutex makes its critical sections
  atomic; errors are kinds. `stolen` records the untimed children whose waiter
  was answered with someone else's status: untimed waiters work by number, and
  the safety properties are about identities.
- `Pipeline`: a pass of `try_wait` over the children is one step: an ending is
  never looked at again, so reaping one earlier or later in the pass leads to
  the same states. A segment's data is only whether its reader is gone. Running
  a hook inside the wait is `Shutdown`'s. Exit code 2 is in the instance because
  it is also SIGINT's number.
- `Shutdown`: a statement is what lies between two checkpoints: "stmt" has just
  passed the gate of `step_statements`, "rest" has started something and may start
  more. A block is left ("leave") or the whole script is ("unwind"); blocks are not
  told apart, so leaving one releases any of the handles and streams and runs any
  number of the deferred actions (`cleanup` says that one runs: `cleanup_depth` is
  not 0). While one does, `shutting_down` is false and the `within` deadlines are
  set aside, and it may be interrupted by the hook. An action's own blocks and
  deferred actions (a `cleanup_depth` above 1), those of the hook, the choice
  between `defer` and `errdefer`, forced exits (`shutdown_force`), network jobs (in
  `Activities`), traces, exit statuses, stream pulls, timed identities and handles
  started in the hook are left out; there is one `within` scope. A signal a child
  has already had is not counted again (after a hook a foreground group gets the
  primary from `forward_primary_to_active` and again from `Cancellation::new`), and
  a zombie takes none. When the policy services a signal, `DecideService` looks at
  the `within` deadline once more, as `service_pending_signal` does: its error is
  dropped there and the deadline is due again at the next statement.
- `NetRuntime`: a transport is idle, running or over; permits are a number;
  queue, wake pipe and each task's turn are kept. Its callers are the jobs of
  `Activities`, which takes from it only that a canceled operation is answered.
- `Download`: a request is its options, a body its frames, a file what was
  appended to it in order. Redirects are inside "sending". All downloads go to one
  destination: others share no file and only the lane. A kill of the process
  needs no action of its own: nothing is recovered at a restart, so what it
  leaves is the `file` of some reachable state, and the invariants speak of all. A
  cancelled future is dropped in the step of the `Cancel` command; the code drops
  it in a task of its own a little later, which is a later `Cancel`. The calls that
  make the directory, open, append, remove the old destination and rename may fail
  at any time. The removal of the output or of the temporary file does not fail
  once the lane has taken it: what it would leave is what a refused removal leaves,
  which is kept.
- `Activities`: a resource is in its table under a scope, named by its depth; a
  child is how it was spawned and what the kernel has of it. What a script does
  next is a free choice, so every script is one of the behaviours; what a call
  returns is left out. Bytes are reserved in units of a request's
  `max_body_bytes`; a submission that fails undoes its admission in the same step;
  a `within` deadline is the same decision as a timeout, which `WaitStops` and
  `JobDue` may take at any poll. A list may name a handle that was never spawned,
  which stands for one that was consumed: both are in no table. The signal is
  unhooked: the hook, the second signal and forced shutdown are `Shutdown`'s.
  Producers, streams and capabilities, which scopes also own, are left out.

## The runs

| Run | Shows | Bounds, and why they are enough |
|---|---|---|
| `child_status` | identities stay safe to signal and reap; trust never returns | 2 timed and 1 untimed child on 2 ids: a number can be reused by a child and by a stranger; 2 SIGCHLD epochs: off, on, off |
| `timed_stream` | owner and watch race, kills refused, polls failing; `next` and `cancel` return; refinement of `ChildStatus` | 1 stream, 1 id: the race is between the two threads of one stream; streams meet only in the registry, which `child_status` covers |
| `pipeline` | verdicts, reports, reaping; deadline, signal and limit end a pipeline | 2 segments, with and without a list: every start failure has a segment before it, a SIGPIPE one after it to excuse it |
| `net_runtime` | nothing forgotten, one result, exact counters and admissions, no lost wake-up | 2 operations on 1 permit: one waits while one runs; a wake pipe that may fail. The admission limit, 2, is reached but not exceeded; `AdmissionSafety` covers every limit |
| `net_live` | deadlines, cancels and shutdown end operations | one operation with a deadline and one to cancel |
| `shutdown` | hook once, grace, spared work, only cleanup starts, nothing outlives, strangers | 2 groups: the script's run and the hook's, or one of them and a handle or stream, or a number and the stranger it went to; the theorems cover any number. 2 signals, one hooked; all four ways to start a child; 1 stranger; `MaxPending` = 2: two deferred actions, or one and the `within` deadline |
| `shutdown_live` | shutdown starts and ends with stubborn children | 2 groups, the hooked signal; captures, which have every way out of a wait, and handles; `MaxPending` = 1: an action or a deadline |
| `download` | whole bodies, true answers, no temporary file left | 2 downloads to one destination, both kinds; 2 workers, so that two jobs of one download overlap; a queue of 1, so that a removal can be refused; 2 frames, so that a body may be cut at any of them; a history is followed until two downloads meet at one file (`rival`), of which no property speaks |
| `activities` | exact counts and reservation, nothing escapes, the table is unreaped, shutdown leaves nothing, calls return | 2 handles, which make a list with and without repetition, one with a timeout or detached, one with input that may fail; 1 job, at its limits; 2 scopes, so that a resource can be handed out |
| `late_hook`, `pipeline_reaped`, `activities_hang` | the findings below | the smallest instance that shows each |

The type invariants are proved, and no run lists them. So is every invariant and
every action property of the passing runs, for all values of the constants: what
the runs alone show is liveness.

Every property of a passing run has, in the module, an operator marked
"Mutant": a plausible bug in that code which TLC shows to break it.

Deadlock is not checked for `Pipeline`, `NetRuntime`, `Shutdown`, `Download` and
`Activities`: a pipeline returns, a runtime is closed, a script ends. It is checked
for the others.

### Fairness

Only what the code itself schedules is fair: the loops that poll every few
milliseconds, the executor's turns, threads that hold no lock for ever, clocks,
and the death of a process that was sent SIGKILL. No child is assumed to end by
itself, no reader to read, no transport without a deadline to answer, no user
to send a second signal. `NetRuntime` needs the evaluator's own steps only once
it has begun them. In `TimedStream` liveness holds with every fault enabled, but for
a child whose kills the kernel refused (`KillsRefused`, the hazard at
`process.rs:2491`). In `Activities` the evaluator's polling is weakly fair; the
second look of `wait_ready` (`ReadyTakes`) is strongly fair, because whether its
1 ms has passed is asked once in each pass, so that step is enabled again and
again and not all the time.

In `Shutdown` the evaluator's thread, the clock of the grace and the death of a
killed child are weakly fair, and two things are strongly fair because what they
speak of is interrupted by waits: a statement that is under way ends
(`StatementEnds`: between two checkpoints the code does finitely many things, since
a loop has one in every turn), and a deferred action, or the hook that interrupts
one, comes to its end (`ActionEnds`, `BodyEnds`: after a shutdown nothing else
would stop a `defer` that loops for ever, which is what "a non-forced shutdown
still allows deferred cleanup to run to completion", `eval.rs:3945`, means).
Nothing else of the script ends by itself, nor does the hook outside of an action.

## Findings

1. `late_hook` - a signal recorded before its hook is armed is neither hooked nor
   treated as having no hook: every checkpoint returns early and nothing shuts
   down. The manual (`docs/SPEC.md:5867`) says it is treated as having no hook.
2. `activities_hang` - `process.wait_ready` reaps its list's children one after
   another and takes their handles out of the table at the end; a list that ends
   in an error leaves live handles whose children are reaped, and cancelling one,
   or leaving its scope, signals a freed number and then polls for ever. The
   manual (`docs/SPEC.md:5702`) says it does nothing and returns.
3. `pipeline_reaped` - when a later segment's redirection cannot be opened,
   `start_pipeline` returns with the earlier segments running and unreaped; the
   manual (5528) says every started segment is reaped.

More disagreements with the documents, which no run states as a property:

- the second signal kills the listed groups but not those of live process handles,
  which are ended one by one when their scope is left (5870 says owned groups are
  killed at once);
- waits that time out and captures that are cut return before
  `process_group_finished` (`process.rs:1645`), so their reaped group stays in
  `active_process_groups` and a later signal goes to whoever has the number (5871
  says escalation is "`SIGKILL` of owned process groups"); `StrayOnlyWhenStale` says
  that there is no other way;
- a timed-out statement pipeline reports a SIGPIPE death that a later segment
  excuses as a failed segment, since `wait_children` does not call
  `tolerate_upstream_sigpipe` (`Expired` shows both forms);
- `finalize_atomic_download` removes the destination before the rename
  (`lib.rs:1775`) and goes on as a job of the lane when the total deadline drops the
  future that waits for it (1630); the removal queued then (1636) may take the
  temporary file on the other worker between the two calls, and the destination is
  lost. `runtime.rs:956` says that download cleanup "can retain its atomic-file
  guarantee" there. `AtomicOutcome` names this case in its exceptions;
- `wait_any`, `wait_ready` and a wait with a timeout sleep between passes without a
  checkpoint for signals or a `within` deadline, while 5829-5833 puts checkpoints
  "while waiting on processes". `CallsReturn` leaves these three out;
- when the cleanup of a handle fails, the shutdown returns before the jobs are
  canceled and `shutdown_complete` is set. Without a hook the next checkpoint does
  the rest (`SignalError`); after a hook (`eval.rs:4242`) `hook_started` keeps every
  later checkpoint from it, and jobs and children end with their scopes only;
- after a shutdown, a deferred action's `run`, or its wait for a handle, is forwarded
  the old primary signal at its first poll, and its wait for a job is not
  interrupted at all (`eval.rs:7384`), while the comment at `eval.rs:3944` lets
  deferred cleanup run to completion;
- a hook that interrupts a deferred action is not ended by a second signal, for the
  gate that would end it looks at `cleanup_depth` (5870: remaining cleanup "may be
  skipped" then); its children are killed and it goes on to its next statement;
- when the driver's wait fails while the evaluator is between the check of
  `submit` and its registration (`runtime.rs:364`), `fail_all` does not see the new
  operation, and the wake-up byte may still be written before the driver drops the
  pipe's reader: then only the shutdown completes it. `NothingForgotten` says that
  the shutdown finds it.

Passing runs state what holds around them: `ReapedUnlessAbandoned` names the only
returns that leave a segment behind, `StrayOnlyAtLimit` and
`StrayOnlyWhenStale` the only signals that may reach a stranger,
`VerdictFollowsRule` that only a signal during the start makes a prefix of a
pipeline a success.

## The proofs

`ChildStatusProofs` proves, for every set of children and ids and every number
of epochs:

- `TypeCorrect`, `SignalSafety` (`OnlyOwnChild`), `OwnershipSafety`
  (`OwnedChildUnreaped`), `RegistrySafety` (`TrustedIsRegistered`): all from
  `Invariance`, `CSSpec => []CSInv`;
- `NoRevival` (`LostForever`), an action property, from the same invariant.

`OnlyOwnChild` speaks of what signals did and is not inductive. `CSInv` adds the
chain that protects it: living children have distinct ids (`PidsDistinct`); a
held identity was launched; a set flag was made in the current epoch
(`FlagIsCurrent`), exists only while the kernel keeps endings
(`FlagNeedsStatus`) and pins a living process (`FlagPins`); and it is in the
registry under its child's id, which is how a wait-any finds the flag it must
clear. There is one lemma for each kind of step, over lemmas about the
authority's methods. Assumptions: only `ChildAssumption`, which says that the
sets are disjoint and the bound is a number.

`PipelineProofs` proves, for any number of segments and any accepted lists:

- `PolicyIsRule`: `RejectedSegment` over the statuses that `Tolerated` leaves names
  the segment the manual's rule names, or none. It is split into what toleration
  does to one status (`ToleratedFacts`), when a status is rejected
  (`RejectsByRule`) and which of the rejected is named (`NamesByRule`);
- `VerdictSafety`, `ReportSafety`, `CutIsNotComplete`, `ReapingSafety`, `KillSafety`
  and `TypeCorrect`, from `Invariance`, `Spec => []PInv`.

`PInv` adds what ties the loop's local record to the kernel's: a record means the
child was reaped with that ending (`RecordsReaped`); the loop goes on exactly
while a record is missing (`LoopsWhilePending`); a segment that never started has
its reason on record (`MissingForReason`); what the group was sent is known to
whoever writes the value (`SignalsOnRecord`); and the group's number belongs to
the group while a started segment is unreaped (`NumberPinned`), without which the
signal of a deadline could reach a stranger. One lemma per action, and the only
assumption is `PipelineAssumption`.

`NetRuntimeProofs` proves, for any number of operations, permits and admissions,
with and without a failing wake pipe:

- `RuntimeImplementsCompletion` (`KeepsPromise`): every step of the runtime is one of
  `NetCompletion` or changes nothing the evaluator sees (`SeenSteps`); what that means
  for one operation is `FirstResultCounts` (`ResultStands`): a result stands, only an
  accepted operation gets one, and it is received once;
- `NothingForgottenSafety`, `AdmissionSafety`, `CountersSafety`, `WakeUpSafety`,
  `CanceledSafety` and `TypeCorrect`, from `Invariance`, `Spec => []NetInv`;
- `StartSafety` (`NoStartAfterResult`), an action property: only `Fill` starts a
  transport, and the first of the queue has no result.

None of these is inductive. `NetInv` follows an operation through its stages -
submitted, preparing, queued, active, being canceled - and says that they exclude
each other, which commands can wait for an operation in each (a submission and a
preflight's end at most once: `OnlyOne`), that nothing was done for an operation
before it was accepted, and that what the driver has not finished has no result
while it is up. That is why a `Complete` always meets an open completion when a
counter goes with it, so the counters stay the sizes of the collections.
`CommandsAreSeen` extends `NoLostWakeUp` to the step before the driver waits. One
lemma per action, over lemmas on the queues (`PopFacts`, `AppendFacts`,
`RemoveFirstFacts`) and on `Withdraw`; the assumption is `NetAssumption`.

`ActivitiesProofs` proves, for any handles and jobs, any nesting of scopes, any
length of lists and any limits:

- `TypesHold`, `CountsAreExact` (`CountsExact`), `NothingIsLeaked` (`NothingEscapes`),
  `ReservationIsExact` (`ReservationExact`) and `LiveIsUnreaped` (`TableIsUnreaped`),
  from `Invariant`, `Spec => []IInv`;
- `ShutdownIsComplete` (`CancelsAll`), an action property, from the same invariant.

`IInv` is the four properties with `TypeOK` and two more parts. `CallInv` ties the
place of the evaluator to what it holds: a wait or a cancellation has taken
exactly one resource, a release or a signal's cancellation says on whose behalf.
`ResourceInv` says that what was taken is in no table any more and was made before.
Without them a resource that leaves its table, on which the counts, the
reservation and ownership all turn, could be taken twice. The proof goes by
parts and within each by action; the lemmas of the first section say what a step
does to the table (`Take`, `Enter`, `Transfer`) and to the counts by cardinality.
Assumptions: `ResourcesAssumption`, `BoundsAssumption` and `KindsAssumption`.

`TimedStreamProofs` proves, for any timed children, any children without an
identity, any process numbers and any program of a child:

- `Refinement` (`CSSpec`): every step of a stream or of its monitor is a step of
  `ChildStatus` or leaves the authority alone; `StreamSignalSafety` carries
  `OnlyOwnChild` over to the streams;
- `NobodyLeft` (`NoChildLeftBehind`), `TimeoutReported` (`TimeoutIsReported`),
  `OwnExitJudged` (`VerdictIsOnOwnExit`), `MonitorGone` (`NoMonitorOutlivesStream`) and
  `TSTypeCorrect`, from `TSInvariance`, `Spec => []TSInv`.

`TSInv` is `ChildStatus`'s own `CSInv` with the types and, for each stream, the twelve
facts of `StreamOK`. They follow one timeout through the two threads: the monitor
has an outcome exactly when it ended (`Joining`); a monitor that timed out is not
forgotten on the way from its kill to the answer (`TimeoutNoted`, `TimeoutTold`); a
signal that was sent has its reason recorded (`HitsNoted`), so that a verdict on the
child's exit excludes one (`Judged`); and whoever reaped or lost the child has its
identity taken off the authority's list (`GivenUp`), which is why nobody signals it
again. Each action is one lemma: what it asks of the authority, that it writes to
its own stream only (`Moves`), and that it keeps `StreamOK`; other streams are
covered by `KeptOK`. The assumptions are `ChildStatus`'s and `TimedStream`'s.

`ShutdownProofs` proves, for any groups, signals and arrangements of the hook:

- `HookWorkIsSpared` (`HookWorkSpared`), `NothingOutlivesScript` (`NothingOutlives`) and
  `TypeCorrect`, from `Invariant`, `Spec => []SInv`;
- `HookRunsAtMostOnce` (`HookRunsOnce`), `BudgetIsRespected` (`BudgetRespected`),
  `GraceComesFirst` (`GraceBeforeKill`), `OnlyCleanupStartsChildren`
  (`OnlyCleanupStarts`) and `StraysAreStale` (`StrayOnlyWhenStale`), action properties.

`SInv` says where the evaluator stands and which run is in its wait loop there
(`Places`, `Shapes`), the hook never while a scope is left and a deferred action
never outside of one; what it knows of its signals and its hook (`HookFacts`: a
complete shutdown has a primary signal, so that every later checkpoint asks, and
none lets a statement pass but a deferred action's); that each child has one owner,
a run, a handle, a stream or the cancellation of a handle, and each owned number
is a child (`Ownership`, `Ended`); and that the list of groups to forward
to holds owned or stale numbers, the hook's own run never among the forwardable
(`Listing`). One lemma, `Recipients`, lists everybody a step may signal and why;
the action properties about signals are read off it with the invariant. The
assumption is `ShutdownAssumption`.

`DownloadProofs` proves, for any downloads, workers, parts of a body and capacity of
the lane's queue:

- `NeverPartOfABody` (`WholeUnlessRival`), `AnswerIsTrue` (`AtomicOutcome`),
  `NoTemporaryFileLeft` (`TempSweptUp`) and `TypeCorrect`, from `Invariance`,
  `Spec => []DInv`.

`DInv` has two halves. `Base` ties each job in the queue or on a worker to the
future that awaits it or has dropped it (`JobOK`), says that no two jobs of one
download are both on its way or both awaited (`LaneOK`), and what a future's place
says of its own variables (`Control`). `Files` speaks of the two paths while no two
downloads shared one: what the output holds at each place of its future
(`WrittenSoFar`), whose parts a destination written in place holds (`DestOwned`), why
the destination of an atomic download that ran alone is not what it was (`DestKept`),
and who still owes the removal of a temporary file (`TempOwed`). The last two are
the properties with the steps in between filled in: a rename that was answered and
not yet taken, a removal that is queued, an open left behind. Each action has a
lemma for `Base`, which also says which job it adds (`Adds`), and one for `Files`; a
step of a future, a step of the driver and a call of a worker have a lemma each on
what they leave alone (`FutureStep`, `DriverStep`, `TouchStep`). The assumption is
`DownloadAssumption`.

Model-checked only: liveness under fairness (and ENABLED), which TLAPS does not
reach, and the three findings, which TLC's counterexamples show. No module uses a RECURSIVE
operator, so that each can be proved about. What a recursive definition computes
for every input would need induction over data, out of reach as well.

## Plan

In order of what matters most; the first six are done.

1. `ChildStatus`, `TimedStream`, their proofs.
2. `NetCompletion`, `NetRuntime`, its proofs.
3. `Shutdown`, its proofs.
4. `ExitPolicy`, `Pipeline`, its proofs.
5. `Download`: atomic downloads on the file lane, its proofs.
6. `Activities`: handles, jobs and the scopes that own them, its proofs.
7. `Streams`: delegation between producers, early stop, parallel stages.
8. `Scopes`: the order of deferred actions, and what an error in one does to the
   rest.
9. Untimed streams and their cancel by a bare number.
10. Pure models: module cycles of the loader, the archive's budgets.

Theorems worth proving next: the safety properties of the modules still to be
written.

## Running

    tlc -config MCPipeline.cfg MCPipeline
    tlapm PipelineProofs.tla

## Not modelled

`PROJECT.json` marks each component that is not modelled, with its reason: mostly
pure passes over trees of unbounded shape (syntax, checking, lowering, the linter),
the sequential executor, thin wrappers over system calls, and vendored code. Of the
modelled components what is left out is in their notes and above.
