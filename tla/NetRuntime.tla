------------------------------- MODULE NetRuntime -------------------------------
(***************************************************************************)
(* The network runtime (crates/xsh-net/src/runtime.rs): an evaluator       *)
(* thread that submits, cancels and shuts down, and the driver thread that *)
(* schedules transports under a limited number of permits.                 *)
(*                                                                         *)
(* The driver thread runs one executor.  Its loop pops commands, and the   *)
(* preflight, transport, deadline and cancellation tasks run where the     *)
(* loop awaits: in its wait for a wake-up and wherever it cancels a task.  *)
(* The evaluator runs in parallel; a step of its own ends at each atomic   *)
(* access, lock or write to the wake pipe.                                 *)
(***************************************************************************)
EXTENDS Naturals, Sequences, FiniteSets, SequencesExt

CONSTANTS
    Op,             \* operations the evaluator may submit
    Deadlined,      \* those with a total timeout
    Cancelable,     \* those the evaluator may cancel
    Atomic,         \* those whose cancellation removes a file first
    MaxActive,      \* MAX_ACTIVE_TRANSPORT
    MaxAdmitted,    \* MAX_ACTIVE_TRANSPORT + MAX_PENDING_TRANSPORT
    Faults,         \* whether the driver's wake pipe may fail
    NoOp            \* "no operation"

ASSUME NetAssumption ==
    /\ Deadlined \subseteq Op
    /\ Cancelable \subseteq Op
    /\ Atomic \subseteq Op
    /\ MaxActive \in Nat \ {0}
    /\ MaxAdmitted \in Nat
    /\ Faults \in BOOLEAN
    /\ NoOp \notin Op

VARIABLES
    caller,     \* the evaluator's place in submit, cancel or shutdown
    life,       \* "new", "refused" or "accepted", for each operation
    received,   \* the operations whose result the evaluator has taken
    asked,      \* the operations it has canceled; it does so once
    state,      \* DRIVER_OPEN, ...
    commands,   \* the queue of DriverCommands
    wake,       \* whether a byte waits in the wake pipe
    count,      \* the counters: admitted, queued and active
    terminals,  \* the registered completions
    result,     \* what each completion was given first
    driver,     \* the place of driver_loop
    pending, preparing, active, deadlines,    \* its collections
    preflight, transport,   \* the tasks of an operation
    canceling   \* the detached tasks that cancel another task

callerVars == <<caller, life, received, asked>>
queue == <<commands, wake>>
loopVars == <<pending, preparing, active, deadlines>>
tasks == <<preflight, transport, canceling>>
vars == <<caller, life, received, asked, state, commands, wake, count, terminals, result,
          driver, pending, preparing, active, deadlines, preflight, transport, canceling>>

Command(type, o) == [type |-> type, op |-> o]

\* A command of one of these types for o waits in the queue.
InCommands(o, types) ==
    \E i \in DOMAIN commands : commands[i].op = o /\ commands[i].type \in types

--------------------------------------------------------------------------------
(* Completions: TerminalCompletion::complete.  The first result counts; then *)
(* its completion is unregistered and its admission given back.              *)

\* Mutant: a later result replaces an earlier one.
CompleteAgain(done, r) ==
    result' = [o \in Op |-> IF o \in done THEN r ELSE result[o]]

Complete(done, r) ==
    result' = [o \in Op |-> IF o \in done /\ result[o] = "none" THEN r ELSE result[o]]

\* Mutant: an admission is given back whoever unregistered the completion.
RetireAgain(o) ==
    /\ result[o] # "none" /\ count.admitted > 0
    /\ terminals' = terminals \ {o}
    /\ count' = [count EXCEPT !.admitted = @ - 1]
    /\ UNCHANGED <<callerVars, state, queue, result, driver, loopVars, tasks>>

Retire(o) ==
    /\ o \in terminals
    /\ result[o] # "none"
    /\ terminals' = terminals \ {o}
    /\ count' = [count EXCEPT !.admitted = @ - 1]
    /\ UNCHANGED <<callerVars, state, queue, result, driver, loopVars, tasks>>

--------------------------------------------------------------------------------
(* The evaluator: NetRuntimeOwner and NetOperation. *)

CallerAt(place) == caller.at = place

CallerGoes(place) == caller' = [caller EXCEPT !.at = place]

Idle == [at |-> "idle", op |-> NoOp, send |-> "none", then |-> "idle"]

\* Back from enqueue.
CallerReturns ==
    caller' = IF caller.then = "idle" THEN Idle ELSE [caller EXCEPT !.at = caller.then]

\* submit: the driver is started and its state is read.
SubmitCheck(o) ==
    /\ CallerAt("idle")
    /\ life[o] = "new"
    /\ \/ /\ driver' = IF driver.at = "off" THEN [driver EXCEPT !.at = "loop"] ELSE driver
          /\ IF state = "open"
             THEN caller' = [caller EXCEPT !.at = "admit", !.op = o] /\ UNCHANGED life
             ELSE life' = [life EXCEPT ![o] = "refused"] /\ UNCHANGED caller
          /\ UNCHANGED state
       \/ /\ Faults /\ driver.at = "off"      \* the thread could not start
          /\ driver' = [driver EXCEPT !.at = "exited"]
          /\ state' = "failed"
          /\ life' = [life EXCEPT ![o] = "refused"]
          /\ UNCHANGED caller
    /\ UNCHANGED <<received, asked, queue, count, terminals, result, loopVars, tasks>>

SubmitAdmit ==
    /\ CallerAt("admit")
    /\ IF count.admitted < MaxAdmitted
       THEN /\ count' = [count EXCEPT !.admitted = @ + 1]
            /\ CallerGoes("register")
            /\ UNCHANGED life
       ELSE /\ life' = [life EXCEPT ![caller.op] = "refused"]
            /\ caller' = Idle
            /\ UNCHANGED count
    /\ UNCHANGED <<received, asked, state, queue, terminals, result, driver, loopVars, tasks>>

SubmitRegister ==
    /\ CallerAt("register")
    /\ terminals' = terminals \cup {caller.op}
    /\ life' = [life EXCEPT ![caller.op] = "accepted"]
    /\ caller' = [caller EXCEPT !.at = "push", !.send = "Submit", !.then = "idle"]
    /\ UNCHANGED <<received, asked, state, queue, count, result, driver, loopVars, tasks>>

CancelCheck(o) ==
    /\ CallerAt("idle")
    /\ o \in Cancelable
    /\ life[o] = "accepted" /\ o \notin received \cup asked
    /\ state = "open"
    /\ asked' = asked \cup {o}
    /\ caller' = [at |-> "push", op |-> o, send |-> "Cancel", then |-> "idle"]
    /\ UNCHANGED <<life, received, state, queue, count, terminals, result, driver, loopVars,
                   tasks>>

Shutdown ==
    /\ CallerAt("idle")
    /\ state' = "shuttingDown"
    /\ caller' = [at |-> IF state # "stopped" THEN "push" ELSE "join",
                  op |-> NoOp, send |-> "Shutdown", then |-> "join"]
    /\ UNCHANGED <<life, received, asked, queue, count, terminals, result, driver, loopVars, tasks>>

\* enqueue: under the queue's lock, then under the wake writer's.
Push ==
    /\ CallerAt("push")
    /\ commands' = Append(commands, Command(caller.send, caller.op))
    /\ CallerGoes("wake")
    /\ UNCHANGED <<life, received, asked, state, wake, count, terminals, result, driver, loopVars,
                   tasks>>

\* A driver that is gone has closed the pipe: the write fails, and so does all work.
Wake ==
    /\ CallerAt("wake")
    /\ IF driver.at # "exited"
       THEN wake' = TRUE /\ UNCHANGED <<state, result>>
       ELSE state' = "failed" /\ Complete(terminals, "failed") /\ UNCHANGED wake
    /\ CallerReturns
    /\ UNCHANGED <<life, received, asked, commands, count, terminals, driver, loopVars, tasks>>

\* The driver is joined and whatever it left undone is completed.
Join ==
    /\ CallerAt("join")
    /\ driver.at \in {"off", "exited"}
    /\ state' = "stopped"
    /\ Complete(terminals, "canceled")
    /\ CallerGoes("gone")
    /\ UNCHANGED <<life, received, asked, queue, count, terminals, driver, loopVars, tasks>>

Receive(o) ==
    /\ caller.at \in {"idle", "gone"}
    /\ life[o] = "accepted" /\ o \notin received
    /\ result[o] # "none"
    /\ received' = received \cup {o}
    /\ UNCHANGED <<caller, life, asked, state, queue, count, terminals, result, driver, loopVars,
                   tasks>>

--------------------------------------------------------------------------------
(* The commands of driver_loop. *)

\* The driver's thread is still giving back what a completion held.
Busy == \E o \in terminals : result[o] # "none"

DriverAt(place) == driver.at = place /\ ~Busy

DriverGoes(place) == driver' = [at |-> place, op |-> NoOp]

\* cancel_deadline: it awaits the end of the deadline's task, if there is one.
CancelDeadline(o, place, otherwise) ==
    /\ deadlines' = deadlines \ {o}
    /\ LET at == IF o \in deadlines THEN place ELSE otherwise
       IN  driver' = [at |-> at, op |-> IF at \in {"cancel", "cancelNow"} THEN o ELSE NoOp]

Resume ==
    /\ DriverAt("awaiting")
    /\ DriverGoes("loop")
    /\ UNCHANGED <<callerVars, state, queue, count, terminals, result, loopVars, tasks>>

Pop(type) ==
    /\ DriverAt("loop")
    /\ commands # <<>>
    /\ Head(commands).type = type
    /\ commands' = Tail(commands)

HandleSubmit ==
    /\ Pop("Submit")
    /\ LET o == Head(commands).op
       IN  /\ count' = [count EXCEPT !.queued = @ + 1]
           /\ deadlines' = deadlines \cup ({o} \cap Deadlined)
           /\ preparing' = preparing \cup {o}
           /\ preflight' = [preflight EXCEPT ![o] = "running"]
    /\ UNCHANGED <<callerVars, state, wake, terminals, result, driver, pending, active,
                   transport, canceling>>

HandlePrepared ==
    /\ Pop("Prepared")
    /\ LET o == Head(commands).op
       IN  /\ preparing' = preparing \ {o}
           /\ pending' = IF o \in preparing \/ result[o] = "none"
                         THEN Append(pending, o) ELSE pending
    /\ UNCHANGED <<callerVars, state, wake, count, terminals, result, driver, active,
                   deadlines, tasks>>

HandleUnprepared ==
    /\ Pop("Unprepared")
    /\ LET o == Head(commands).op
       IN  /\ preparing' = preparing \ {o}
           /\ IF o \in preparing \/ result[o] = "none"
              THEN /\ count' = [count EXCEPT !.queued = @ - 1]
                   /\ Complete({o}, "error")
                   /\ CancelDeadline(o, "awaiting", "loop")
              ELSE UNCHANGED <<count, result, driver, deadlines>>
    /\ UNCHANGED <<callerVars, state, wake, terminals, pending, active, tasks>>

\* Mutant: the permit of an operation that is no longer active is given back too.
HandleFinishedTwice ==
    /\ Pop("Finished")
    /\ LET o == Head(commands).op
       IN  /\ active' = active \ {o}
           /\ count' = [count EXCEPT !.active = @ - 1]
           /\ CancelDeadline(o, "awaiting", "loop")
    /\ UNCHANGED <<callerVars, state, wake, terminals, result, pending, preparing, tasks>>

HandleFinished ==
    /\ Pop("Finished")
    /\ LET o == Head(commands).op
       IN  /\ active' = active \ {o}
           /\ count' = IF o \in active THEN [count EXCEPT !.active = @ - 1] ELSE count
           /\ CancelDeadline(o, "awaiting", "loop")
    /\ UNCHANGED <<callerVars, state, wake, terminals, result, pending, preparing, tasks>>

HandleCancel ==
    /\ Pop("Cancel")
    /\ CancelDeadline(Head(commands).op, "cancel", "cancelNow")
    /\ UNCHANGED <<callerVars, state, wake, count, terminals, result, pending, preparing,
                   active, tasks>>

InQueue(o) == o \in {pending[i] : i \in DOMAIN pending}

\* Mutant: only an operation that waits for a permit is completed.
WithdrawSilently(o, r) ==
    /\ \/ /\ o \in preparing
          /\ preparing' = preparing \ {o}
          /\ canceling' = [canceling EXCEPT ![o] = "preflight"]
          /\ UNCHANGED <<pending, result>>
       \/ /\ o \notin preparing /\ InQueue(o)
          /\ pending' = RemoveFirst(pending, o)
          /\ Complete({o}, r)
          /\ UNCHANGED <<preparing, canceling>>
    /\ count' = [count EXCEPT !.queued = @ - 1]

\* An operation that has no permit yet is taken out and completed at once.
Withdraw(o, r) ==
    /\ \/ /\ o \in preparing
          /\ preparing' = preparing \ {o}
          /\ canceling' = [canceling EXCEPT ![o] = "preflight"]
          /\ UNCHANGED pending
       \/ /\ o \notin preparing /\ InQueue(o)
          /\ pending' = RemoveFirst(pending, o)
          /\ UNCHANGED <<preparing, canceling>>
    /\ count' = [count EXCEPT !.queued = @ - 1]
    /\ Complete({o}, r)

\* An active operation gives its permit back; a task of its own cancels the transport.
CancelOperation ==
    /\ DriverAt("cancel") \/ DriverAt("cancelNow")
    /\ DriverGoes("loop")
    /\ LET o == driver.op
       IN  \/ Withdraw(o, "canceled") /\ UNCHANGED active
           \/ /\ o \in active
              /\ active' = active \ {o}
              /\ count' = [count EXCEPT !.active = @ - 1]
              /\ canceling' = [canceling EXCEPT ![o] = "transport"]
              /\ UNCHANGED <<result, pending, preparing>>
           \/ /\ o \notin preparing /\ ~InQueue(o) /\ o \notin active
              /\ UNCHANGED <<count, result, pending, preparing, active, canceling>>
    /\ UNCHANGED <<callerVars, state, queue, terminals, deadlines, preflight, transport>>

\* An active transport enforces its deadline itself.
HandleExpired ==
    /\ Pop("Expired")
    /\ LET o == Head(commands).op
       IN  /\ deadlines' = deadlines \ {o}
           /\ \/ Withdraw(o, "timeout")
              \/ /\ o \notin preparing /\ ~InQueue(o)
                 /\ UNCHANGED <<count, result, pending, preparing, canceling>>
    /\ UNCHANGED <<callerVars, state, wake, terminals, driver, active, preflight, transport>>

--------------------------------------------------------------------------------
(* Permits and the wait for a wake-up. *)

Settle ==
    /\ DriverAt("loop")
    /\ commands = <<>>
    /\ DriverGoes("fill")
    /\ UNCHANGED <<callerVars, state, queue, count, terminals, result, loopVars, tasks>>

Permitted == pending # <<>> /\ Cardinality(active) < MaxActive

StartTransport(o) ==
    /\ pending' = Tail(pending)
    /\ active' = active \cup {o}
    /\ count' = [count EXCEPT !.queued = @ - 1, !.active = @ + 1]
    /\ transport' = [transport EXCEPT ![o] = "running"]

Fill ==
    /\ DriverAt("fill")
    /\ Permitted
    /\ StartTransport(Head(pending))
    /\ UNCHANGED <<callerVars, state, queue, terminals, result, driver, preparing, deadlines,
                   preflight, canceling>>

Park ==
    /\ DriverAt("fill")
    /\ ~Permitted
    /\ DriverGoes("waiting")
    /\ UNCHANGED <<callerVars, state, queue, count, terminals, result, loopVars, tasks>>

WakeUp ==
    /\ DriverAt("waiting")
    /\ wake
    /\ wake' = FALSE
    /\ DriverGoes("loop")
    /\ UNCHANGED <<callerVars, state, commands, count, terminals, result, loopVars, tasks>>

\* The read fails: the state is stored, all work fails, and then the pipe is closed.
WaitFails ==
    /\ Faults
    /\ DriverAt("waiting")
    /\ state' = "failed"
    /\ DriverGoes("failing")
    /\ UNCHANGED <<callerVars, queue, count, terminals, result, loopVars, tasks>>

FailAll ==
    /\ DriverAt("failing")
    /\ Complete(terminals, "failed")
    /\ DriverGoes("exiting")
    /\ UNCHANGED <<callerVars, state, queue, count, terminals, loopVars, tasks>>

Exit ==
    /\ DriverAt("exiting")
    /\ DriverGoes("exited")
    /\ UNCHANGED <<callerVars, state, queue, count, terminals, result, loopVars, tasks>>

--------------------------------------------------------------------------------
(* The Shutdown command. *)

HandleShutdown ==
    /\ Pop("Shutdown")
    /\ state' = "shuttingDown"
    /\ deadlines' = {}
    /\ DriverGoes("drainPending")
    /\ UNCHANGED <<callerVars, wake, count, terminals, result, pending, preparing, active,
                   tasks>>

DrainPending ==
    /\ DriverAt("drainPending")
    /\ Complete({pending[i] : i \in DOMAIN pending}, "canceled")
    /\ count' = [count EXCEPT !.queued = @ - Len(pending)]
    /\ pending' = <<>>
    /\ DriverGoes("drain")
    /\ UNCHANGED <<callerVars, state, queue, terminals, preparing, active, deadlines, tasks>>

Dropped(task, o) == [task EXCEPT ![o] = IF @ = "running" THEN "dropped" ELSE @]

DrainPreparing(o) ==
    /\ DriverAt("drain")
    /\ o \in preparing
    /\ preparing' = preparing \ {o}
    /\ preflight' = Dropped(preflight, o)
    /\ UNCHANGED <<callerVars, state, queue, count, terminals, result, driver, pending, active,
                   deadlines, transport, canceling>>

\* Mutant: the shutdown waits for a transport instead of canceling it.
DrainActivePatiently(o) ==
    /\ DriverAt("drain")
    /\ preparing = {}
    /\ o \in active
    /\ transport[o] # "running"
    /\ active' = active \ {o}
    /\ count' = [count EXCEPT !.active = @ - 1]
    /\ driver' = [at |-> "drained", op |-> o]
    /\ UNCHANGED <<callerVars, state, queue, terminals, result, pending, preparing, deadlines,
                   preflight, transport, canceling>>

DrainActive(o) ==
    /\ DriverAt("drain")
    /\ preparing = {}
    /\ o \in active
    /\ active' = active \ {o}
    /\ count' = [count EXCEPT !.active = @ - 1]
    /\ transport' = Dropped(transport, o)
    /\ driver' = [at |-> "drained", op |-> o]
    /\ UNCHANGED <<callerVars, state, queue, terminals, result, pending, preparing, deadlines,
                   preflight, canceling>>

\* After the file of an atomic download is removed.
DrainComplete ==
    /\ DriverAt("drained")
    /\ Complete({driver.op}, "canceled")
    /\ DriverGoes("drain")
    /\ UNCHANGED <<callerVars, state, queue, count, terminals, loopVars, tasks>>

DrainEnd ==
    /\ DriverAt("drain")
    /\ preparing = {} /\ active = {}
    /\ state' = "stopped"
    /\ DriverGoes("exited")
    /\ UNCHANGED <<callerVars, queue, count, terminals, result, loopVars, tasks>>

--------------------------------------------------------------------------------
(* Tasks of the executor: they run on the driver's thread, while its loop awaits. *)

Yields ==
    driver.at \in {"waiting", "awaiting", "cancel", "drainPending", "drain", "drained"} /\ ~Busy

\* Mutant: a task's command does not wake the driver.
EnqueueQuietly(type, o) ==
    /\ commands' = Append(commands, Command(type, o))
    /\ UNCHANGED wake

Enqueue(type, o) ==
    /\ commands' = Append(commands, Command(type, o))
    /\ wake' = TRUE

PreflightEnds(o) ==
    /\ Yields
    /\ preflight[o] = "running"
    /\ preflight' = [preflight EXCEPT ![o] = "ended"]
    /\ \E type \in {"Prepared", "Unprepared"} : Enqueue(type, o)
    /\ UNCHANGED <<callerVars, state, count, terminals, result, driver, loopVars, transport,
                   canceling>>

TransportEnds(o) ==
    /\ Yields
    /\ transport[o] = "running"
    /\ transport' = [transport EXCEPT ![o] = "ended"]
    /\ \E r \in {"response", "error"} : Complete({o}, r)
    /\ Enqueue("Finished", o)
    /\ UNCHANGED <<callerVars, state, count, terminals, driver, loopVars, preflight, canceling>>

\* The deadline's task has ended once its command is queued.
Expired(o) == InCommands(o, {"Expired"})

DeadlineEnds(o) ==
    /\ Yields
    /\ o \in deadlines
    /\ ~Expired(o)
    /\ Enqueue("Expired", o)
    /\ UNCHANGED <<callerVars, state, count, terminals, result, driver, loopVars, tasks>>

CancelPreflight(o) ==
    /\ Yields
    /\ canceling[o] = "preflight"
    /\ canceling' = [canceling EXCEPT ![o] = "none"]
    /\ preflight' = Dropped(preflight, o)
    /\ UNCHANGED <<callerVars, state, queue, count, terminals, result, driver, loopVars,
                   transport>>

\* Mutant: the caller is told before the transport has stopped.
CancelTransportLate(o) ==
    /\ Yields
    /\ canceling[o] = "transport"
    /\ canceling' = [canceling EXCEPT ![o] = "complete"]
    /\ UNCHANGED <<callerVars, state, queue, count, terminals, result, driver, loopVars,
                   preflight, transport>>

CancelTransport(o) ==
    /\ Yields
    /\ canceling[o] = "transport"
    /\ canceling' = [canceling EXCEPT ![o] = IF o \in Atomic THEN "cleanup" ELSE "complete"]
    /\ transport' = Dropped(transport, o)
    /\ UNCHANGED <<callerVars, state, queue, count, terminals, result, driver, loopVars,
                   preflight>>

\* The file lane has removed what the download wrote.
CleanupEnds(o) ==
    /\ Yields
    /\ canceling[o] = "cleanup"
    /\ canceling' = [canceling EXCEPT ![o] = "complete"]
    /\ UNCHANGED <<callerVars, state, queue, count, terminals, result, driver, loopVars,
                   preflight, transport>>

\* Mutant: a canceled transport is dropped and nobody is told.
CancelCompletesNothing(o) ==
    /\ Yields
    /\ canceling[o] = "complete"
    /\ canceling' = [canceling EXCEPT ![o] = "none"]
    /\ UNCHANGED <<callerVars, state, queue, count, terminals, result, driver, loopVars,
                   preflight, transport>>

CancelCompletes(o) ==
    /\ Yields
    /\ canceling[o] = "complete"
    /\ canceling' = [canceling EXCEPT ![o] = "none"]
    /\ Complete({o}, "canceled")
    /\ UNCHANGED <<callerVars, state, queue, count, terminals, driver, loopVars, preflight,
                   transport>>

--------------------------------------------------------------------------------

Init ==
    /\ caller = Idle
    /\ life = [o \in Op |-> "new"]
    /\ received = {}
    /\ asked = {}
    /\ state = "open"
    /\ commands = <<>>
    /\ wake = FALSE
    /\ count = [admitted |-> 0, queued |-> 0, active |-> 0]
    /\ terminals = {}
    /\ result = [o \in Op |-> "none"]
    /\ driver = [at |-> "off", op |-> NoOp]
    /\ pending = <<>>
    /\ preparing = {}
    /\ active = {}
    /\ deadlines = {}
    /\ preflight = [o \in Op |-> "none"]
    /\ transport = [o \in Op |-> "none"]
    /\ canceling = [o \in Op |-> "none"]

Enqueuing == Push \/ Wake

Loop ==
    \/ HandleSubmit \/ HandlePrepared \/ HandleUnprepared \/ HandleFinished
    \/ Resume \/ HandleCancel \/ CancelOperation \/ HandleExpired \/ HandleShutdown
    \/ Settle \/ Fill \/ Park \/ WakeUp
    \/ FailAll \/ Exit
    \/ DrainPending \/ DrainComplete \/ DrainEnd
    \/ \E o \in Op : DrainPreparing(o) \/ DrainActive(o)

Canceling(o) ==
    CancelPreflight(o) \/ CancelTransport(o) \/ CleanupEnds(o) \/ CancelCompletes(o)

Next ==
    \/ SubmitAdmit \/ SubmitRegister \/ Shutdown \/ Enqueuing \/ Join
    \/ Loop \/ WaitFails
    \/ \E o \in Op :
          \/ SubmitCheck(o) \/ CancelCheck(o) \/ Receive(o) \/ Retire(o)
          \/ PreflightEnds(o) \/ TransportEnds(o) \/ DeadlineEnds(o) \/ Canceling(o)

Spec == Init /\ [][Next]_vars

\* Both threads run and so do the executor's tasks that wait for nothing outside.
\* The clock reaches a deadline, and a transport that has one ends by it.  Nothing
\* makes a file operation or another transport end, nor the evaluator call.
Fairness ==
    /\ WF_vars(Enqueuing \/ Join)
    /\ WF_vars(Loop \/ \E o \in Op : Retire(o))
    /\ WF_vars(\E o \in Op : Canceling(o))
    /\ \A o \in Deadlined : WF_vars(DeadlineEnds(o)) /\ WF_vars(TransportEnds(o))

FairSpec == Spec /\ Fairness

--------------------------------------------------------------------------------
(* Properties. *)

CommandTypes ==
    {"Submit", "Prepared", "Unprepared", "Finished", "Cancel", "Expired", "Shutdown"}

CallerType ==
    [at : {"idle", "admit", "register", "push", "wake", "join", "gone"},
     op : Op \cup {NoOp},
     send : {"none", "Submit", "Cancel", "Shutdown"},
     then : {"idle", "join"}]

DriverType ==
    [at : {"off", "loop", "awaiting", "cancel", "cancelNow", "fill", "waiting", "failing",
           "exiting", "drainPending", "drain", "drained", "exited"},
     op : Op \cup {NoOp}]

\* Every variable has its type; no counter is ever taken below zero.
TypeOK ==
    /\ caller \in CallerType
    /\ life \in [Op -> {"new", "refused", "accepted"}]
    /\ received \subseteq Op /\ asked \subseteq Op
    /\ state \in {"open", "shuttingDown", "failed", "stopped"}
    /\ commands \in Seq([type : CommandTypes, op : Op \cup {NoOp}])
    /\ wake \in BOOLEAN
    /\ count \in [admitted : Nat, queued : Nat, active : Nat]
    /\ terminals \subseteq Op
    /\ result \in [Op -> {"none", "response", "error", "timeout", "canceled", "failed"}]
    /\ driver \in DriverType
    /\ pending \in Seq(Op)
    /\ preparing \subseteq Op /\ active \subseteq Op /\ deadlines \subseteq Deadlined
    /\ preflight \in [Op -> {"none", "running", "ended", "dropped"}]
    /\ transport \in [Op -> {"none", "running", "ended", "dropped"}]
    /\ canceling \in [Op -> {"none", "preflight", "transport", "cleanup", "complete"}]

Accepted == {o \in Op : life[o] = "accepted"}

Scheduling == driver.at \in {"loop", "awaiting", "cancel", "cancelNow", "fill", "waiting"}

InHand(o) ==
    \/ caller.op = o /\ caller.at = "push" /\ caller.send = "Submit"
    \/ InCommands(o, {"Submit"})
    \/ /\ o \in preparing
       /\ preflight[o] = "running" \/ InCommands(o, {"Prepared", "Unprepared"})
    \/ InQueue(o)
    \/ o \in active /\ transport[o] = "running"
    \/ canceling[o] \in {"transport", "cleanup", "complete"}

\* No accepted operation is forgotten.  Until it has a result, its completion is
\* registered, so that a shutdown finds it; and while the driver schedules, something
\* that will complete it has it in hand.
NothingForgotten ==
    \A o \in Accepted :
        result[o] = "none" =>
            o \in terminals /\ (Scheduling => InHand(o))

\* The admission counter is the number of registered completions, plus the one that a
\* submission in progress has claimed: slots are neither leaked nor given back twice.
AdmissionExact ==
    count.admitted = Cardinality(terminals) + (IF CallerAt("register") THEN 1 ELSE 0)

\* The counters of the snapshot agree with the driver's collections, whatever order
\* cancellations, deadlines and completions came in; permits are respected.
CountersExact ==
    Scheduling => /\ count.queued = Cardinality(preparing) + Len(pending)
                  /\ count.active = Cardinality(active)
                  /\ Cardinality(active) <= MaxActive

\* The driver does not sleep on a command: a wake-up is there or about to come.
NoLostWakeUp ==
    DriverAt("waiting") /\ commands # <<>> => wake \/ CallerAt("wake")

\* An operation reported as canceled does nothing more: its transport is gone.
CanceledIsStopped ==
    \A o \in Op : result[o] = "canceled" /\ driver.at # "exited" => transport[o] # "running"

\* A transport never starts for an operation that already has its result.
NoStartAfterResult ==
    [][\A o \in Op : transport[o] = "none" /\ transport'[o] = "running"
                         => result[o] = "none"]_vars

\* An operation with a total timeout gets a result, even if its file preparation
\* stalls or every permit is taken for ever; and a cancellation that was sent ends
\* the operation, whatever stage it is in.
OperationsEnd ==
    /\ \A o \in Deadlined : life[o] = "accepted" ~> result[o] # "none"
    /\ \A o \in Cancelable \ Atomic :
          caller.at = "push" /\ caller.send = "Cancel" /\ caller.op = o
              ~> result[o] # "none"

\* A shutdown returns, and leaves no operation without a result.
ShutdownEnds ==
    caller.send = "Shutdown" ~>
        CallerAt("gone") /\ \A o \in Accepted : result[o] # "none"

\* What the evaluator sees is what NetCompletion promises: one result for each.
Promise == INSTANCE NetCompletion WITH
    outcome <- [o \in Op |-> IF result[o] # "none" THEN result[o] ELSE life[o]],
    delivered <- received

KeepsPromise == Promise!CSpec

================================================================================
