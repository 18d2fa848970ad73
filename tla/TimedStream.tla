------------------------------ MODULE TimedStream ------------------------------
(***************************************************************************)
(* A process stream with a deadline (src/runtime/process.rs): the owner    *)
(* thread that runs ProcessStream::start, next and cancel, and the watch   *)
(* thread of ProcessTimeoutWatch that kills the child when its deadline    *)
(* passes.  Both act on the child through the identity of ChildStatus,     *)
(* whose environment (other reapers, SIGCHLD changes, recycled process     *)
(* ids) runs beside them.                                                  *)
(*                                                                         *)
(* A step ends where a thread takes or releases a lock or makes a system   *)
(* call another thread can see.  Errors are kept by their kind; the chain  *)
(* of cleanup errors hung on them is left out.                             *)
(***************************************************************************)
EXTENDS ChildStatus

VARIABLES
    owner,      \* where the owner thread is, for each stream
    stream,     \* the fields of ProcessStream, and the locals of its calls
    watch,      \* where the watch thread is, and the control it shares
    pipe,       \* the child's stdout: open writers, unread data
    expired,    \* the streams whose deadline has passed
    killed      \* the children that a SIGKILL reached while running

streamVars == <<owner, stream, watch, pipe, expired, killed>>
vars == <<csVars, streamVars>>

--------------------------------------------------------------------------------
(* Updates of one stream's record and of one watch's record. *)

SetStream(c, field, value) == stream' = [stream EXCEPT ![c][field] = value]

Go(c, place) == owner' = [owner EXCEPT ![c] = place]

NewStream ==
    [stdout |-> TRUE,         \* stdout.is_some()
     timeout |-> "none",      \* "none", "watching" or "timedout"
     status |-> FALSE,        \* status.is_some()
     consumed |-> FALSE,      \* child.consumed
     cancellation |-> "none", \* "none", "sent" or "killed"
     result |-> "none",       \* what the last call of next returned
     final |-> "none",        \* what cancel returned
     lost |-> FALSE,          \* identity_lost of terminate_stream_child
     failure |-> FALSE,       \* failure of terminate_stream_child and cancel
     after |-> "start"]       \* the caller of terminate_stream_child

NewWatch ==
    [at |-> "off", control |-> "Monitoring", outcome |-> "none",
     lost |-> FALSE, stdoutClosed |-> FALSE, childExited |-> FALSE]

Errors == {"error", "rejected", "timeout", "canceled"}

\* SIGKILL through the identity; what the kernel makes of it is in killed.
Kill(c) ==
    /\ SignalOwned(c)
    /\ killed' = IF Owned(c) /\ life[c] = "running" THEN killed \cup {c} ELSE killed

KillRefused(c) == SignalRefused(c) /\ UNCHANGED killed

--------------------------------------------------------------------------------
(* The watch thread: process_timeout_watch_loop. *)

WatchAt(c, place) == watch[c].at = place

WatchDone(c, outcome, lost) ==
    watch' = [watch EXCEPT ![c].at = "done", ![c].control = "Finished",
                           ![c].outcome = outcome, ![c].lost = lost]

\* Only a monitor nobody asked to stop may claim its outcome.
WatchClaim(c, outcome) ==
    WatchDone(c, IF watch[c].control = "Monitoring" THEN outcome ELSE "Stopped", FALSE)

WatchCheck(c) ==
    /\ WatchAt(c, "check")
    /\ IF watch[c].control = "StopRequested"
       THEN WatchDone(c, "Stopped", FALSE)
       ELSE watch' = [watch EXCEPT ![c].at = "observe"]
    /\ UNCHANGED <<csVars, owner, stream, pipe, expired, killed>>

WatchObserve(c) ==
    /\ WatchAt(c, "observe")
    /\ Observe(c)
    /\ IF ObserveResult(c) = "lost"
       THEN WatchDone(c, "Failed", TRUE)
       ELSE watch' = [watch EXCEPT ![c].at = "decide",
                                   ![c].childExited = (ObserveResult(c) = "exited")]
    /\ UNCHANGED <<owner, stream, pipe, expired, killed>>

WatchComplete(c) ==
    /\ WatchAt(c, "decide")
    /\ c \notin expired
    /\ watch[c].childExited /\ watch[c].stdoutClosed
    /\ WatchClaim(c, "Completed")
    /\ UNCHANGED <<csVars, owner, stream, pipe, expired, killed>>

WatchExpire(c) ==
    /\ WatchAt(c, "decide")
    /\ c \in expired
    /\ IF watch[c].control = "Monitoring"
       THEN watch' = [watch EXCEPT ![c].at = "kill", ![c].control = "Finished"]
       ELSE WatchDone(c, "Stopped", FALSE)
    /\ UNCHANGED <<csVars, owner, stream, pipe, expired, killed>>

\* poll for HUP, or a sleep once the writers are gone.
WatchPoll(c) ==
    /\ WatchAt(c, "decide")
    /\ c \notin expired
    /\ ~(watch[c].childExited /\ watch[c].stdoutClosed)
    /\ watch' = [watch EXCEPT ![c].at = "check",
                              ![c].stdoutClosed = @ \/ ~pipe[c].writers]
    /\ UNCHANGED <<csVars, owner, stream, pipe, expired, killed>>

WatchPollFails(c) ==
    /\ WatchAt(c, "decide")
    /\ c \notin expired
    /\ ~watch[c].stdoutClosed
    /\ watch' = [watch EXCEPT ![c].at = "fail"]
    /\ UNCHANGED <<csVars, owner, stream, pipe, expired, killed>>

\* The group's SIGKILL at the deadline, then the child's own as a fallback; and
\* the same two in fail_process_timeout_watch.
WatchKill(c) ==
    /\ watch[c].at \in {"kill", "fail"}
    /\ LET outcome == IF WatchAt(c, "kill") THEN "TimedOut" ELSE "Failed"
           retry == IF WatchAt(c, "kill") THEN "killChild" ELSE "failChild"
       IN  \/ Kill(c) /\ WatchDone(c, outcome, ~Owned(c))
           \/ KillRefused(c) /\ watch' = [watch EXCEPT ![c].at = retry]
    /\ UNCHANGED <<owner, stream, pipe, expired>>

WatchKillChild(c) ==
    /\ watch[c].at \in {"killChild", "failChild"}
    /\ LET outcome == IF WatchAt(c, "killChild") THEN "TimedOut" ELSE "Failed"
       IN  \/ Kill(c) /\ WatchDone(c, outcome, ~Owned(c))
           \/ KillRefused(c) /\ WatchDone(c, outcome, FALSE)
    /\ UNCHANGED <<owner, stream, pipe, expired>>

Watch(c) ==
    \/ WatchCheck(c) \/ WatchObserve(c) \/ WatchComplete(c) \/ WatchExpire(c)
    \/ WatchPoll(c) \/ WatchPollFails(c) \/ WatchKill(c) \/ WatchKillChild(c)

--------------------------------------------------------------------------------
(* Start: spawn_managed_inner and ProcessStream::start. *)

Start(c, p) ==
    /\ owner[c] = "idle"
    /\ LaunchTimed(c, p)
    /\ stream' = [stream EXCEPT ![c] = NewStream]
    /\ pipe' = [pipe EXCEPT ![c].writers = TRUE]
    /\ \/ /\ Go(c, "starting")
          /\ watch' = [watch EXCEPT ![c] = [NewWatch EXCEPT !.at = "check"]]
       \/ /\ Go(c, "observe")      \* the watch thread could not start
          /\ UNCHANGED watch
    /\ UNCHANGED <<expired, killed>>

StartRefused(c) ==
    /\ owner[c] = "idle"
    /\ RefuseTimed(c)
    /\ Go(c, "refused")
    /\ UNCHANGED <<stream, watch, pipe, expired, killed>>

\* The cgroup, the child's input and the nonblocking read end are set up, or one
\* of them fails and the child is cleaned up again.
Opened(c) ==
    /\ owner[c] = "starting"
    /\ \/ Go(c, "open")
       \/ Go(c, "stopping")
    /\ SetStream(c, "timeout", "watching")
    /\ UNCHANGED <<csVars, watch, pipe, expired, killed>>

--------------------------------------------------------------------------------
(* ProcessStream::next *)

Return(c, result) ==
    /\ Go(c, "open")
    /\ stream' = [stream EXCEPT ![c].result = result]

\* A consumer pulls until the end or the first error.
CallNext(c) ==
    /\ owner[c] = "open"
    /\ stream[c].result \in {"none", "data"}
    /\ Go(c, "update")
    /\ UNCHANGED <<csVars, stream, watch, pipe, expired, killed>>

\* update_timeout_watch: a monitor that has finished is joined.
UpdateTimeoutWatch(c) ==
    /\ owner[c] = "update"
    /\ LET w == watch[c]
           joined == stream[c].timeout = "watching" /\ w.at = "done"
       IN  \/ /\ ~joined
              /\ Go(c, "read") /\ UNCHANGED stream
           \/ /\ joined /\ w.outcome = "Completed"
              /\ Go(c, "read") /\ SetStream(c, "timeout", "none")
           \/ /\ joined /\ w.outcome = "TimedOut"
              /\ Go(c, "read") /\ SetStream(c, "timeout", "timedout")
           \/ /\ joined /\ w.outcome \in {"Failed", "Stopped"}
              /\ Go(c, "observe")
              /\ stream' = [stream EXCEPT ![c].timeout = "none", ![c].stdout = FALSE,
                                          ![c].lost = (w.outcome = "Failed" /\ w.lost),
                                          ![c].after = "next"]
    /\ UNCHANGED <<csVars, watch, pipe, expired, killed>>

\* feed_input, then one nonblocking read.
Read(c) ==
    /\ owner[c] = "read"
    /\ \/ /\ stream[c].stdout /\ pipe[c].buffered
          /\ pipe' = [pipe EXCEPT ![c].buffered = FALSE]
          /\ \/ Return(c, "data")
             \/ Return(c, "error")     \* the capture limit
       \/ /\ stream[c].stdout /\ ~pipe[c].buffered /\ ~pipe[c].writers
          /\ SetStream(c, "stdout", FALSE)
          /\ Go(c, "poll")
          /\ UNCHANGED pipe
       \/ /\ stream[c].stdout => ~pipe[c].buffered /\ pipe[c].writers
          /\ Go(c, "poll")
          /\ UNCHANGED <<stream, pipe>>
       \/ /\ Return(c, "error")                  \* the child's input, or the read
          /\ UNCHANGED pipe
    /\ UNCHANGED <<csVars, watch, expired, killed>>

\* Mutant: the owner reaps while the monitor is still watching.
PollEagerly(c) ==
    /\ owner[c] = "poll"
    /\ IF ~stream[c].status /\ ~stream[c].consumed
       THEN /\ WaitOwned(c)
            /\ CASE WaitResult(c) = "none" -> Go(c, "decide") /\ UNCHANGED stream
                 [] WaitResult(c) = "error" -> Return(c, "error")
                 [] WaitResult(c) = "reaped" ->
                        /\ Go(c, "decide")
                        /\ stream' = [stream EXCEPT ![c].consumed = TRUE, ![c].status = TRUE]
       ELSE Go(c, "decide") /\ UNCHANGED <<csVars, stream>>
    /\ UNCHANGED <<watch, pipe, expired, killed>>

\* poll_stream_child, once no monitor is watching.
Poll(c) ==
    /\ owner[c] = "poll"
    /\ IF ~stream[c].status /\ stream[c].timeout # "watching" /\ ~stream[c].consumed
       THEN /\ WaitOwned(c)
            /\ \/ WaitResult(c) = "none" /\ Go(c, "decide") /\ UNCHANGED stream
               \/ WaitResult(c) = "error" /\ Return(c, "error")
               \/ /\ WaitResult(c) = "reaped"
                  /\ Go(c, "decide")
                  /\ stream' = [stream EXCEPT ![c].consumed = TRUE, ![c].status = TRUE]
       ELSE Go(c, "decide") /\ UNCHANGED <<csVars, stream>>
    /\ UNCHANGED <<watch, pipe, expired, killed>>

AtEnd(c) == stream[c].status /\ ~stream[c].stdout

\* The status and the output are complete: completion_error judges the status.
Finish(c) ==
    /\ owner[c] = "decide"
    /\ AtEnd(c)
    /\ IF stream[c].timeout = "timedout" THEN Return(c, "timeout")
       ELSE IF stream[c].cancellation # "none" THEN Return(c, "canceled")
       ELSE Return(c, "end") \/ Return(c, "rejected")
    /\ UNCHANGED <<csVars, watch, pipe, expired, killed>>

\* Mutant: the owner revokes its identity without the authority's bookkeeping.
TimedOutRevokes(c) ==
    /\ owner[c] = "decide"
    /\ ~AtEnd(c)
    /\ stream[c].timeout = "timedout"
    /\ auth' = [auth EXCEPT !.flag[c] = FALSE]
    /\ Go(c, "open")
    /\ stream' = [stream EXCEPT ![c].stdout = FALSE, ![c].result = "timeout"]
    /\ UNCHANGED <<kernel, held, consumed, stolen, hits, watch, pipe, expired, killed>>

TimedOut(c) ==
    /\ owner[c] = "decide"
    /\ ~AtEnd(c)
    /\ stream[c].timeout = "timedout"
    /\ auth' = Refresh(auth)
    /\ IF Owned(c)
       THEN Go(c, "reap") /\ SetStream(c, "stdout", FALSE)
       ELSE /\ Go(c, "open")
            /\ stream' = [stream EXCEPT ![c].stdout = FALSE, ![c].consumed = TRUE,
                                        ![c].result = "timeout"]
    /\ UNCHANGED <<kernel, held, consumed, stolen, hits, watch, pipe, expired, killed>>

\* check_cancellation_with_identity: nothing pending, the first signal, or the
\* kill that follows the grace period or an escalation.
CheckCancellation(c) ==
    /\ owner[c] = "decide"
    /\ ~AtEnd(c)
    /\ stream[c].timeout # "timedout"
    /\ \/ UNCHANGED <<csVars, stream, killed>>
       \/ /\ stream[c].cancellation = "none"
          /\ SignalOwned(c)
          /\ SetStream(c, "cancellation", "sent")
          /\ UNCHANGED killed
       \/ /\ stream[c].cancellation \in {"none", "sent"}
          /\ Kill(c)
          /\ SetStream(c, "cancellation", "killed")
    /\ Go(c, "update")
    /\ UNCHANGED <<watch, pipe, expired>>

\* reap_timeout_child
ReapTimeoutChild(c) ==
    /\ owner[c] = "reap"
    /\ WaitOwned(c)
    /\ IF WaitResult(c) = "none"
       THEN UNCHANGED <<owner, stream>>
       ELSE /\ Go(c, "open")
            /\ stream' = [stream EXCEPT ![c].consumed = TRUE, ![c].result = "timeout",
                                        ![c].status = (WaitResult(c) = "reaped")]
    /\ UNCHANGED <<watch, pipe, expired, killed>>

NextStep(c) ==
    \/ UpdateTimeoutWatch(c) \/ Read(c) \/ Poll(c) \/ Finish(c)
    \/ TimedOut(c) \/ CheckCancellation(c) \/ ReapTimeoutChild(c)

--------------------------------------------------------------------------------
(* ProcessStream::cancel, and the clean-up of a failed start. *)

\* The consumer stops, at the end, on an error or early; a drop does the same.
CallCancel(c) ==
    /\ owner[c] = "open"
    /\ Go(c, "stopping")
    /\ SetStream(c, "after", "cancel")
    /\ UNCHANGED <<csVars, watch, pipe, expired, killed>>

RequestStop(c) ==
    /\ owner[c] = "stopping"
    /\ Go(c, "joining")
    /\ watch' = IF stream[c].timeout = "watching" /\ watch[c].control = "Monitoring"
                THEN [watch EXCEPT ![c].control = "StopRequested"]
                ELSE watch
    /\ UNCHANGED <<csVars, stream, pipe, expired, killed>>

\* Mutant: cancel forgets a timeout that only the monitor knows of.
ClosedQuietly(c, s) ==
    /\ Go(c, "closed")
    /\ stream' = [stream EXCEPT ![c] =
          [s EXCEPT !.stdout = FALSE, !.final = IF s.failure THEN "error" ELSE "ok"]]

\* The end of cancel: a timeout that nobody has reported yet is its error.
Closed(c, s) ==
    /\ Go(c, "closed")
    /\ stream' = [stream EXCEPT ![c] =
          [s EXCEPT !.stdout = FALSE,
                    !.final = IF s.timeout = "timedout" /\ s.result # "timeout" THEN "timeout"
                              ELSE IF s.failure THEN "error" ELSE "ok"]]

\* Mutant: the owner does not wait for the monitor to finish.
JoinedEarly(c) ==
    /\ owner[c] = "joining"
    /\ Go(c, "observe")
    /\ SetStream(c, "timeout", "none")
    /\ UNCHANGED <<csVars, watch, pipe, expired, killed>>

\* Mutant: a child whose stdout has ended counts as reaped.
JoinedAtEof(c) ==
    /\ owner[c] = "joining"
    /\ stream[c].timeout = "watching" => watch[c].at = "done"
    /\ LET s == [stream[c] EXCEPT !.timeout = "none"]
       IN  IF s.after = "start" \/ s.stdout
           THEN Go(c, "observe") /\ stream' = [stream EXCEPT ![c] = s]
           ELSE Closed(c, s)
    /\ UNCHANGED <<csVars, watch, pipe, expired, killed>>

Joined(c) ==
    /\ owner[c] = "joining"
    /\ stream[c].timeout = "watching" => watch[c].at = "done"
    /\ LET w == watch[c]
           watched == stream[c].timeout = "watching"
           starting == stream[c].after = "start"
           s == [stream[c] EXCEPT
                   !.timeout = IF ~watched THEN @
                               ELSE IF w.outcome = "TimedOut" /\ ~starting THEN "timedout"
                               ELSE "none",
                   !.failure = (watched /\ w.outcome = "Failed"),
                   !.lost = watched /\ w.lost /\ (w.outcome = "Failed" \/ starting)]
       IN  IF starting \/ s.stdout \/ ~s.consumed
           THEN Go(c, "observe") /\ stream' = [stream EXCEPT ![c] = s]
           ELSE Closed(c, s)
    /\ UNCHANGED <<csVars, watch, pipe, expired, killed>>

--------------------------------------------------------------------------------
(* terminate_stream_child *)

\* Back to the caller, with the record s.
Terminated(c, s) ==
    \/ /\ s.after = "start"
       /\ Go(c, "failed") /\ stream' = [stream EXCEPT ![c] = s]
    \/ /\ s.after = "next"
       /\ Go(c, "open") /\ stream' = [stream EXCEPT ![c] = [s EXCEPT !.result = "error"]]
    \/ /\ s.after = "cancel"
       /\ Closed(c, s)

Lose(c) ==
    Terminated(c, [stream[c] EXCEPT !.lost = TRUE, !.consumed = TRUE, !.failure = TRUE])

TerminateObserve(c) ==
    /\ owner[c] = "observe"
    /\ \/ /\ stream[c].lost
          /\ Terminated(c, [stream[c] EXCEPT !.consumed = TRUE])
          /\ UNCHANGED csVars
       \/ /\ ~stream[c].lost /\ stream[c].consumed
          /\ Go(c, "signal")
          /\ UNCHANGED <<csVars, stream>>
       \/ /\ ~stream[c].lost /\ ~stream[c].consumed
          /\ Observe(c)
          /\ IF ObserveResult(c) = "lost"
             THEN Lose(c)
             ELSE Go(c, "signal") /\ UNCHANGED stream
    /\ UNCHANGED <<watch, pipe, expired, killed>>

\* Mutant: the child is waited for without having been killed.
TerminateSignalSkipped(c) ==
    /\ owner[c] = "signal"
    /\ Go(c, "wait")
    /\ UNCHANGED <<csVars, stream, watch, pipe, expired, killed>>

TerminateSignal(c) ==
    /\ owner[c] = "signal"
    /\ \/ /\ Kill(c)
          /\ IF Owned(c) THEN Go(c, "wait") /\ UNCHANGED stream ELSE Lose(c)
       \/ /\ KillRefused(c)
          /\ Go(c, IF stream[c].consumed THEN "wait" ELSE "signalChild")
          /\ SetStream(c, "failure", TRUE)
    /\ UNCHANGED <<watch, pipe, expired>>

TerminateSignalChild(c) ==
    /\ owner[c] = "signalChild"
    /\ \/ /\ Kill(c)
          /\ IF Owned(c) THEN Go(c, "wait") /\ UNCHANGED stream ELSE Lose(c)
       \/ KillRefused(c) /\ Go(c, "wait") /\ UNCHANGED stream
    /\ UNCHANGED <<watch, pipe, expired>>

TerminateWait(c) ==
    /\ owner[c] = "wait"
    /\ IF stream[c].consumed
       THEN Terminated(c, stream[c]) /\ UNCHANGED csVars
       ELSE /\ WaitOwned(c)
            /\ \/ WaitResult(c) = "none" /\ UNCHANGED <<owner, stream>>
               \/ /\ WaitResult(c) = "reaped"
                  /\ Terminated(c, [stream[c] EXCEPT !.consumed = TRUE, !.status = TRUE])
               \/ WaitResult(c) = "error" /\ Lose(c)
    /\ UNCHANGED <<watch, pipe, expired, killed>>

Terminate(c) ==
    TerminateObserve(c) \/ TerminateSignal(c) \/ TerminateSignalChild(c) \/ TerminateWait(c)

Cancel(c) == RequestStop(c) \/ Joined(c) \/ Terminate(c)

\* The stream and its identity are dropped.
DropStream(c) ==
    /\ owner[c] \in {"closed", "failed"}
    /\ Release(c)
    /\ UNCHANGED streamVars

--------------------------------------------------------------------------------
(* The environment: the child, the clock, and the rest of the program. *)

ChildWrites(c) ==
    /\ pipe[c].writers
    /\ pipe' = [pipe EXCEPT ![c].buffered = TRUE]
    /\ UNCHANGED <<csVars, owner, stream, watch, expired, killed>>

\* The last process that holds the write end closes it; that need not be the child.
WritersGone(c) ==
    /\ pipe[c].writers
    /\ pipe' = [pipe EXCEPT ![c].writers = FALSE]
    /\ UNCHANGED <<csVars, owner, stream, watch, expired, killed>>

DeadlinePasses(c) ==
    /\ life[c] # "unborn"
    /\ c \notin expired
    /\ expired' = expired \cup {c}
    /\ UNCHANGED <<csVars, owner, stream, watch, pipe, killed>>

KilledChildExits(c) == c \in killed /\ Exit(c) /\ UNCHANGED streamVars

Environment == Rest /\ UNCHANGED streamVars

--------------------------------------------------------------------------------

Init ==
    /\ CSInit
    /\ owner = [c \in Timed |-> "idle"]
    /\ stream = [c \in Timed |-> NewStream]
    /\ watch = [c \in Timed |-> NewWatch]
    /\ pipe = [c \in Timed |-> [writers |-> FALSE, buffered |-> FALSE]]
    /\ expired = {}
    /\ killed = {}

Stream(c) ==
    \/ \E p \in Pid : Start(c, p)
    \/ StartRefused(c) \/ Opened(c)
    \/ CallNext(c) \/ NextStep(c)
    \/ CallCancel(c) \/ Cancel(c)
    \/ DropStream(c)
    \/ Watch(c)
    \/ ChildWrites(c) \/ WritersGone(c) \/ DeadlinePasses(c)

Next == (\E c \in Timed : Stream(c)) \/ Environment

Spec == Init /\ [][Next]_vars

\* Threads run, time passes and a killed process dies.  Nothing makes a consumer
\* call next or cancel, a child write or exit, or another reaper act.
Fairness ==
    \A c \in Timed :
        /\ WF_vars(Opened(c)) /\ WF_vars(NextStep(c)) /\ WF_vars(Cancel(c))
        /\ WF_vars(Watch(c)) /\ WF_vars(DeadlinePasses(c)) /\ WF_vars(KilledChildExits(c))

FairSpec == Spec /\ Fairness

--------------------------------------------------------------------------------
(* Properties. *)

Places ==
    {"idle", "refused", "failed", "starting", "open", "update", "read", "poll", "decide",
     "reap", "stopping", "joining", "observe", "signal", "signalChild", "wait", "closed"}

StreamState ==
    [stdout : BOOLEAN, timeout : {"none", "watching", "timedout"}, status : BOOLEAN,
     consumed : BOOLEAN, cancellation : {"none", "sent", "killed"},
     result : {"none", "data", "end"} \cup Errors,
     final : {"none", "ok", "error", "timeout"},
     lost : BOOLEAN, failure : BOOLEAN, after : {"start", "next", "cancel"}]

WatchState ==
    [at : {"off", "check", "observe", "decide", "kill", "fail", "killChild", "failChild",
           "done"},
     control : {"Monitoring", "StopRequested", "Finished"},
     outcome : {"none", "Completed", "TimedOut", "Failed", "Stopped"},
     lost : BOOLEAN, stdoutClosed : BOOLEAN, childExited : BOOLEAN]

PipeState == [writers : BOOLEAN, buffered : BOOLEAN]

\* Every variable has its type.
TypeOK ==
    /\ CSTypeOK
    /\ owner \in [Timed -> Places]
    /\ stream \in [Timed -> StreamState]
    /\ watch \in [Timed -> WatchState]
    /\ pipe \in [Timed -> PipeState]
    /\ expired \subseteq Timed
    /\ killed \subseteq Timed

\* A stream that is over, or a start that failed, leaves no child behind: it was
\* reaped, unless the stream's claim to it had been revoked.
NoChildLeftBehind ==
    \A c \in held : owner[c] \in {"closed", "failed"} => ~Alive(c) \/ ~Owned(c)

\* A deadline that killed the child is reported to the consumer, by next or else
\* by cancel, whichever way the kill raced with them.
TimeoutIsReported ==
    \A c \in Timed :
        owner[c] = "closed" /\ watch[c].outcome = "TimedOut"
            => "timeout" \in {stream[c].result, stream[c].final}

\* The exit that --accept judges is the child's own: the runtime has sent it no
\* signal, its monitor saw it end before the deadline, and all output was read.
VerdictIsOnOwnExit ==
    \A c \in Timed :
        stream[c].result \in {"end", "rejected"} =>
            /\ \A h \in hits : h[1] # c
            /\ watch[c].outcome = "Completed"
            /\ ~pipe[c].writers /\ ~pipe[c].buffered

\* The monitor thread is gone once its stream is over: no kill can come later.
NoMonitorOutlivesStream ==
    \A c \in Timed : owner[c] \in {"closed", "failed"} => watch[c].at \in {"off", "done"}

\* The kernel refused the kills of the child that is waited for: terminate has
\* noted a failure, or the monitor has claimed its timeout all the same.
KillsRefused(c) ==
    /\ life[c] = "running" /\ c \notin killed
    /\ \/ owner[c] = "wait" /\ stream[c].failure
       \/ owner[c] = "reap" /\ watch[c].outcome = "TimedOut"

\* A call of next returns even if a descendant keeps the pipe open for ever, since
\* the deadline ends it, and so does cancel: the monitor acknowledges and the
\* killed child is reaped.  Only a child that may not be killed is waited for.
CallsReturn ==
    \A c \in Timed :
        /\ owner[c] = "update" ~> owner[c] \in {"open", "closed"} \/ KillsRefused(c)
        /\ owner[c] = "stopping" ~> owner[c] \in {"closed", "failed"} \/ KillsRefused(c)

================================================================================
