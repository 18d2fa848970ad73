------------------------- MODULE TimedStreamProofs --------------------------
(***************************************************************************)
(* Proofs about TimedStream, for every set of timed children, of children    *)
(* without an identity, of process identifiers and of child programs.       *)
(*                                                                         *)
(* A stream's own state is tied to the identity of its child by twelve      *)
(* named facts, StreamOK.  Each action of a stream is one lemma: it calls    *)
(* on the child-status authority as ChildStatus allows (Identity), writes    *)
(* to its own stream only (Moves), and keeps StreamOK.  From this follow     *)
(* the invariant, and that TimedStream implements ChildStatus.               *)
(***************************************************************************)
EXTENDS TimedStream, ChildStatusProofs

-----------------------------------------------------------------------------
(* The inductive invariant *)

\* A signal meant for child c has been sent.
Hit(c) == \E h \in hits : h[1] = c

\* A stream that is under way has the identity of its child.
HoldsIdentity(c) ==
    owner[c] \notin {"idle", "refused", "closed", "failed"} => c \in held

\* A stream that was not started, or refused, has no state and no child.
Untouched(c) ==
    owner[c] \in {"idle", "refused"} =>
        /\ stream[c] = NewStream /\ watch[c] = NewWatch
        /\ c \notin held /\ ~Hit(c)

\* Nothing was read or decided while start has not returned.
JustStarted(c) == owner[c] = "starting" => stream[c] = NewStream

\* Once the stream, or its monitor, has reaped the child or lost it, the authority
\* no longer lists the identity: nobody signals it again.
GivenUp(c) ==
    c \in held /\ (stream[c].consumed \/ stream[c].lost \/ watch[c].lost) => ~auth.flag[c]

\* A stream that is closed, or whose start failed, has reaped its child.
Over(c) == owner[c] \in {"closed", "failed"} => stream[c].consumed

\* The places past the monitor's join.
Joins == {"observe", "signal", "signalChild", "wait", "closed", "failed"}

\* A monitor has an outcome exactly when it has ended, and past its join it has.
Joining(c) ==
    /\ watch[c].at = "done" <=> watch[c].outcome # "none"
    /\ owner[c] \in Joins => stream[c].timeout # "watching"
    /\ owner[c] # "starting" /\ stream[c].timeout # "watching" =>
           watch[c].at \in {"off", "done"}

\* What the caller is told when a join ends is what it had asked for: a failed
\* start or a cancellation, never an element.
Caller(c) ==
    /\ owner[c] \in {"stopping", "joining"} => stream[c].after \in {"start", "cancel"}
    /\ owner[c] = "closed" => stream[c].after = "cancel"

\* A monitor that has timed out is not forgotten: the stream is still watching, has
\* noted the timeout, or is failing its start because of it.
TimeoutNoted(c) ==
    watch[c].outcome = "TimedOut" =>
        \/ owner[c] = "starting"
        \/ stream[c].timeout \in {"watching", "timedout"}
        \/ owner[c] \in Joins \ {"closed"} /\ stream[c].after = "start"

\* A stream closed after a timeout has told its caller or keeps it for finish.
TimeoutTold(c) ==
    owner[c] = "closed" /\ stream[c].timeout = "timedout"
        => "timeout" \in {stream[c].result, stream[c].final}

\* The stream is in next, or open between two of its calls.
Pulling(c) ==
    \/ owner[c] \in {"update", "read", "poll", "decide"}
    \/ owner[c] = "open" /\ stream[c].result \in {"none", "data"}

\* In next, no noted timeout means that the monitor ended with Completed; the end
\* of the output is the pipe's; and a status was read by reaping the child.
PullState(c) ==
    Pulling(c) =>
        /\ stream[c].timeout = "none" => watch[c].outcome = "Completed"
        /\ ~stream[c].stdout => ~pipe[c].writers /\ ~pipe[c].buffered
        /\ stream[c].status => stream[c].consumed /\ stream[c].timeout # "watching"

\* In next, a signal that was sent without a cancellation is the monitor's, which
\* has recorded why.
HitsNoted(c) ==
    (Pulling(c) \/ owner[c] = "starting") /\ stream[c].cancellation = "none" /\ Hit(c)
        => watch[c].outcome \in {"TimedOut", "Failed"}

\* A stream that ended with a verdict on its child's exit had no timeout, no signal
\* sent, the child reaped and the output read to its end.
Judged(c) ==
    stream[c].result \in {"end", "rejected"} =>
        /\ owner[c] \in {"open", "stopping", "joining", "closed"}
        /\ owner[c] \in {"stopping", "joining"} => stream[c].after = "cancel"
        /\ stream[c].timeout = "none" /\ watch[c].outcome = "Completed" /\ ~Hit(c)
        /\ stream[c].consumed
        /\ ~stream[c].stdout /\ ~pipe[c].writers /\ ~pipe[c].buffered

\* What holds of every stream.
StreamOK(c) ==
    /\ HoldsIdentity(c) /\ Untouched(c) /\ JustStarted(c) /\ GivenUp(c) /\ Over(c)
    /\ Joining(c) /\ Caller(c) /\ TimeoutNoted(c) /\ TimeoutTold(c)
    /\ PullState(c) /\ HitsNoted(c) /\ Judged(c)

-----------------------------------------------------------------------------
(* What a step of a stream writes *)

\* The types of a stream's variables.
Typed ==
    /\ owner \in [Timed -> Places] /\ stream \in [Timed -> StreamState]
    /\ watch \in [Timed -> WatchState] /\ pipe \in [Timed -> PipeState]
    /\ expired \subseteq Timed /\ killed \subseteq Timed

\* A step writes to the variables of the stream of c only, ...
Writes(c) ==
    /\ owner' = [owner EXCEPT ![c] = owner'[c]]
    /\ stream' = [stream EXCEPT ![c] = stream'[c]]
    /\ watch' = [watch EXCEPT ![c] = watch'[c]] /\ pipe' = [pipe EXCEPT ![c] = pipe'[c]]
    /\ expired' \subseteq Timed /\ killed' \subseteq Timed

\* ... and leaves them typed.
Moves(c) ==
    /\ Writes(c)
    /\ owner'[c] \in Places /\ stream'[c] \in StreamState
    /\ watch'[c] \in WatchState /\ pipe'[c] \in PipeState

\* A step leaves the stream of d and the signals sent to its child alone.
Kept(d) ==
    /\ owner'[d] = owner[d] /\ stream'[d] = stream[d] /\ watch'[d] = watch[d]
    /\ pipe'[d] = pipe[d] /\ (d \in held' <=> d \in held) /\ (Hit(d)' <=> Hit(d))

\* A step never makes the authority list an identity again that it gave up.
Falls(c) == c \in held => (auth'.flag[c] => auth.flag[c])

\* A stream that a step leaves alone stays as it should be.
LEMMA KeptOK ==
    ASSUME CSInv, [CSNext]_csVars, NEW d \in Timed, StreamOK(d), Kept(d), Falls(d)
    PROVE  StreamOK(d)'
  BY
     DEF StreamOK, Kept, Falls, HoldsIdentity, Untouched, JustStarted, GivenUp, Over,
         Joins, Joining, Caller, TimeoutNoted, TimeoutTold, Pulling, PullState, HitsNoted,
         Judged

-----------------------------------------------------------------------------
(* Calls on the child-status authority *)

\* A step without a call on the authority leaves identity, authority and signals.
LEMMA QuietFacts ==
    ASSUME NEW c \in Timed, UNCHANGED csVars
    PROVE  held' = held /\ auth' = auth /\ (Hit(c)' <=> Hit(c)) /\ Falls(c)
  BY DEF csVars, Hit, Falls

\* A call on the authority for c gives the identity up or leaves it (FlagsOnlyFall of
\* ChildStatusProofs).
LEMMA IdentityFalls ==
    ASSUME CSInv, NEW c \in Timed, Identity(c)
    PROVE  Falls(c)
  BY FlagsOnlyFall DEF Falls, CSNext

\* SignalOwned: the identity is held, and where the child is no longer the
\* owner's it is given up.
LEMMA SignalFacts ==
    ASSUME CSInv, NEW c \in Timed, SignalOwned(c)
    PROVE  /\ Identity(c) /\ Falls(c) /\ c \in held /\ held' = held
           /\ ~Owned(c) => ~auth'.flag[c]
  <1>1. Identity(c)
    BY DEF Identity
  <1>2. ~Owned(c) => ~auth.flag[c]
    BY OwnedIsFlagged DEF SignalOwned
  <1>3. QED
    BY <1>1, <1>2, IdentityFalls DEF SignalOwned, Falls

\* A signal call that fails sends nothing and changes no identity.
LEMMA RefusedFacts ==
    ASSUME CSInv, NEW c \in Timed, SignalRefused(c)
    PROVE  Identity(c) /\ Falls(c) /\ c \in held /\ held' = held /\ (Hit(c)' <=> Hit(c))
  BY IdentityFalls DEF Identity, SignalRefused, Hit

\* invalidate_identity takes the identity off the authority's list.
LEMMA InvalidateClears ==
    ASSUME CSInv, NEW c \in held
    PROVE  ~InvalidateIdentity(Refresh(auth), c).flag[c]
  <1>1. c \in Timed /\ CSTypeOK /\ FlagNeedsStatus
    BY DEF CSInv, CSTypeOK
  <1>2. QED
    BY <1>1, RefreshFacts DEF InvalidateIdentity, Authority

\* Observe: a lost child's identity is given up.
LEMMA ObserveFacts ==
    ASSUME CSInv, NEW c \in Timed, Observe(c)
    PROVE  /\ Identity(c) /\ Falls(c) /\ c \in held /\ held' = held /\ (Hit(c)' <=> Hit(c))
           /\ ObserveResult(c) = "lost" => ~auth'.flag[c]
  <1>1. Identity(c) /\ Falls(c) /\ c \in held /\ held' = held /\ (Hit(c)' <=> Hit(c))
    BY IdentityFalls DEF Identity, Observe, Hit
  <1>2. ~Owned(c) => ~auth'.flag[c]
    BY <1>1, OwnedIsFlagged DEF Falls
  <1>3. Owned(c) /\ ObserveResult(c) = "lost" => ~auth'.flag[c]
    BY <1>1, InvalidateClears DEF Observe
  <1>4. QED
    BY <1>1, <1>2, <1>3

\* What WaitOwned returns follows from what it observes.
LEMMA WaitResultIs ==
    ASSUME NEW c
    PROVE  WaitResult(c) = IF ObserveResult(c) = "lost" THEN "error"
                           ELSE IF ObserveResult(c) = "exited" THEN "reaped" ELSE "none"
  <1>1. ~(ObserveResult(c) = "lost" /\ ObserveResult(c) = "exited")
    OBVIOUS
  <1>2. QED
    BY <1>1, Zenon DEF WaitResult

\* WaitOwned: a child that was reaped or lost has its identity given up.
LEMMA WaitFacts ==
    ASSUME CSInv, NEW c \in Timed, WaitOwned(c)
    PROVE  /\ Identity(c) /\ Falls(c) /\ c \in held /\ held' = held /\ (Hit(c)' <=> Hit(c))
           /\ WaitResult(c) # "none" => ~auth'.flag[c]
           /\ WaitResult(c) \in {"none", "error", "reaped"}
  <1>1. Identity(c) /\ Falls(c) /\ c \in held /\ held' = held /\ (Hit(c)' <=> Hit(c))
    BY IdentityFalls DEF Identity, WaitOwned, Hit
  <1>2. ~Owned(c) => ~auth'.flag[c]
    BY <1>1, OwnedIsFlagged DEF Falls
  <1>3. Owned(c) /\ WaitResult(c) # "none" => ~auth'.flag[c]
    BY <1>1, InvalidateClears DEF WaitOwned
  <1>4. QED
    BY <1>1, <1>2, <1>3, WaitResultIs

\* The monitor's kill of the group or of the child alone.
LEMMA KillFacts ==
    ASSUME CSInv, NEW c \in Timed, Kill(c) \/ KillRefused(c)
    PROVE  /\ Identity(c) /\ Falls(c) /\ c \in held /\ held' = held
           /\ killed' \subseteq killed \cup {c}
           /\ Kill(c) /\ ~Owned(c) => ~auth'.flag[c]
           /\ KillRefused(c) => (Hit(c)' <=> Hit(c)) /\ killed' = killed
  BY SignalFacts, RefusedFacts DEF Kill, KillRefused

-----------------------------------------------------------------------------
(* The timeout monitor *)

\* A step of the monitor that goes on, or ends with an outcome and gives up the
\* identity of a child it lost, keeps its stream as it should be.
LEMMA WatchMoves ==
    ASSUME CSInv, Typed, NEW c \in Timed, StreamOK(c), held' = held, Falls(c),
           watch[c].at \notin {"off", "done"},
           NEW w \in WatchState, watch' = [watch EXCEPT ![c] = w],
           \/ w.at \notin {"off", "done"} /\ w.outcome = watch[c].outcome
              /\ w.lost = watch[c].lost
           \/ w.at = "done" /\ w.outcome # "none" /\ (w.lost => ~auth'.flag[c]),
           (Hit(c)' <=> Hit(c)) \/ w.outcome \in {"TimedOut", "Failed"},
           UNCHANGED <<owner, stream, pipe, expired>>,
           killed' \subseteq killed \cup {c}
    PROVE  Moves(c) /\ StreamOK(c)'
  <1>1. owner[c] \in Places /\ stream[c] \in StreamState /\ watch[c] \in WatchState
        /\ pipe[c] \in PipeState
    BY DEF Typed
  <1>2. Moves(c)
    BY <1>1 DEF Moves, Writes, Typed
  <1>3. StreamOK(c)'
    BY <1>1, SMTT(60)
       DEF Typed, StreamState, WatchState, PipeState, Places, Errors, StreamOK, NewStream,
           NewWatch, HoldsIdentity, Untouched, JustStarted, GivenUp, Over, Joins, Joining,
           Caller, TimeoutNoted, TimeoutTold, Pulling, PullState, HitsNoted, Judged, Falls
  <1>4. QED
    BY <1>2, <1>3

\* The monitor ends with outcome o.
LEMMA WatchEnds ==
    ASSUME CSInv, Typed, NEW c \in Timed, StreamOK(c), held' = held, Falls(c),
           watch[c].at \notin {"off", "done"},
           NEW o \in {"Completed", "TimedOut", "Failed", "Stopped"}, NEW lost \in BOOLEAN,
           WatchDone(c, o, lost), lost => ~auth'.flag[c],
           (Hit(c)' <=> Hit(c)) \/ o \in {"TimedOut", "Failed"},
           UNCHANGED <<owner, stream, pipe, expired>>, killed' \subseteq killed \cup {c}
    PROVE  Moves(c) /\ StreamOK(c)'
  <1>1. watch[c] \in WatchState
    BY DEF Typed
  <1>2. PICK w \in WatchState :
           w = [watch[c] EXCEPT !.at = "done", !.control = "Finished", !.outcome = o,
             !.lost = lost]
    BY <1>1 DEF WatchState
  <1>3. w.at = "done" /\ w.outcome = o /\ w.lost = lost
    BY <1>1, <1>2 DEF WatchState
  <1>4. watch' = [watch EXCEPT ![c] = w]
    BY <1>2 DEF WatchDone, Typed
  <1>5. QED
    BY <1>3, <1>4, WatchMoves

\* The monitor goes on without a call on the authority that changes anything.
LEMMA WatchGoesOn ==
    ASSUME CSInv, Typed, NEW c \in Timed, StreamOK(c), held' = held, Falls(c),
           Hit(c)' <=> Hit(c),
           watch[c].at \notin {"off", "done"}, NEW w \in WatchState,
           watch' = [watch EXCEPT ![c] = w],
           w.at \notin {"off", "done"}, w.outcome = watch[c].outcome,
           w.lost = watch[c].lost,
           UNCHANGED <<owner, stream, pipe, expired>>, killed' = killed
    PROVE  Moves(c) /\ StreamOK(c)'
  BY WatchMoves

\* The monitor's steps that do not ask the authority: is it told to stop, is it
\* complete, has the deadline passed, what does poll(2) say.
LEMMA WatchQuietStep ==
    ASSUME CSInv, Typed, NEW c \in Timed, StreamOK(c),
           WatchCheck(c) \/ WatchComplete(c) \/ WatchExpire(c) \/ WatchPoll(c)
             \/ WatchPollFails(c)
    PROVE  UNCHANGED csVars /\ Moves(c) /\ StreamOK(c)'
  <1>1. UNCHANGED csVars /\ UNCHANGED <<owner, stream, pipe, expired, killed>>
        /\ watch[c].at \in {"check", "decide"}
    BY DEF WatchCheck, WatchComplete, WatchExpire, WatchPoll, WatchPollFails, WatchAt
  <1>2. held' = held /\ Falls(c) /\ (Hit(c)' <=> Hit(c))
    BY <1>1, QuietFacts
  <1>3. watch[c] \in WatchState
    BY DEF Typed
  <1>4. CASE WatchDone(c, "Stopped", FALSE)
    BY <1>1, <1>2, <1>4, WatchEnds
  <1>5. CASE WatchComplete(c)
    <2>1. PICK o \in {"Completed", "Stopped"} : WatchDone(c, o, FALSE)
      BY <1>5 DEF WatchComplete, WatchClaim
    <2>2. QED
      BY <1>1, <1>2, <2>1, WatchEnds
  <1>6. CASE watch' = [watch EXCEPT ![c].at = "observe"]
               \/ watch' = [watch EXCEPT ![c].at = "fail"]
    <2>1. PICK p \in {"observe", "fail"} : watch' = [watch EXCEPT ![c].at = p]
      BY <1>6
    <2>2. PICK w \in WatchState : w = [watch[c] EXCEPT !.at = p]
      BY <1>3 DEF WatchState
    <2>3. w.at = p /\ w.outcome = watch[c].outcome /\ w.lost = watch[c].lost
      BY <1>3, <2>2 DEF WatchState
    <2>4. watch' = [watch EXCEPT ![c] = w]
      BY <2>1, <2>2 DEF Typed
    <2>5. QED
      BY <1>1, <1>2, <2>3, <2>4, WatchGoesOn
  <1>7. CASE watch' = [watch EXCEPT ![c].at = "kill", ![c].control = "Finished"]
    <2>1. PICK w \in WatchState :
                 w = [watch[c] EXCEPT !.at = "kill", !.control = "Finished"]
      BY <1>3 DEF WatchState
    <2>2. w.at = "kill" /\ w.outcome = watch[c].outcome /\ w.lost = watch[c].lost
      BY <1>3, <2>1 DEF WatchState
    <2>3. watch' = [watch EXCEPT ![c] = w]
      BY <1>7, <2>1 DEF Typed
    <2>4. QED
      BY <1>1, <1>2, <2>2, <2>3, WatchGoesOn
  <1>8. CASE WatchPoll(c)
    <2>1. PICK b \in BOOLEAN :
                 watch' = [watch EXCEPT ![c].at = "check", ![c].stdoutClosed = b]
      BY <1>3, <1>8 DEF WatchPoll, WatchState, Typed
    <2>2. PICK w \in WatchState : w = [watch[c] EXCEPT !.at = "check", !.stdoutClosed = b]
      BY <1>3 DEF WatchState
    <2>3. w.at = "check" /\ w.outcome = watch[c].outcome /\ w.lost = watch[c].lost
      BY <1>3, <2>2 DEF WatchState
    <2>4. watch' = [watch EXCEPT ![c] = w]
      BY <2>1, <2>2 DEF Typed
    <2>5. QED
      BY <1>1, <1>2, <2>3, <2>4, WatchGoesOn
  <1>9. QED
    BY <1>4, <1>5, <1>6, <1>7, <1>8 DEF WatchCheck, WatchExpire, WatchPollFails

\* The monitor observes the child.
LEMMA WatchObserveStep ==
    ASSUME CSInv, Typed, NEW c \in Timed, StreamOK(c), WatchObserve(c)
    PROVE  Identity(c) /\ Moves(c) /\ StreamOK(c)'
  <1>1. Observe(c) /\ watch[c].at = "observe"
        /\ UNCHANGED <<owner, stream, pipe, expired, killed>>
    BY DEF WatchObserve, WatchAt
  <1>2. /\ Identity(c) /\ Falls(c) /\ held' = held /\ (Hit(c)' <=> Hit(c))
        /\ ObserveResult(c) = "lost" => ~auth'.flag[c]
    BY <1>1, ObserveFacts
  <1>3. CASE ObserveResult(c) = "lost"
    <2>1. WatchDone(c, "Failed", TRUE)
      BY <1>3 DEF WatchObserve
    <2>2. QED
      BY <1>1, <1>2, <1>3, <2>1, WatchEnds
  <1>4. CASE ObserveResult(c) # "lost"
    <2>1. PICK b \in BOOLEAN :
                 watch' = [watch EXCEPT ![c].at = "decide", ![c].childExited = b]
      BY <1>4 DEF WatchObserve
    <2>2. watch[c] \in WatchState
      BY DEF Typed
    <2>3. PICK w \in WatchState : w = [watch[c] EXCEPT !.at = "decide", !.childExited = b]
      BY <2>2 DEF WatchState
    <2>4. w.at = "decide" /\ w.outcome = watch[c].outcome /\ w.lost = watch[c].lost
      BY <2>2, <2>3 DEF WatchState
    <2>5. watch' = [watch EXCEPT ![c] = w]
      BY <2>1, <2>3 DEF Typed
    <2>6. QED
      BY <1>1, <1>2, <2>4, <2>5, WatchGoesOn
  <1>5. QED
    BY <1>3, <1>4

\* The monitor kills the group, or the child where there is no group.
LEMMA WatchKillStep ==
    ASSUME CSInv, Typed, NEW c \in Timed, StreamOK(c), WatchKill(c) \/ WatchKillChild(c)
    PROVE  Identity(c) /\ Moves(c) /\ StreamOK(c)'
  <1>1. /\ watch[c].at \in {"kill", "fail", "killChild", "failChild"}
           /\ UNCHANGED <<owner, stream, pipe, expired>>
        /\ Kill(c) \/ KillRefused(c)
    BY DEF WatchKill, WatchKillChild, WatchAt
  <1>2. PICK o \in {"TimedOut", "Failed"}, p \in {"killChild", "failChild"} :
           \/ Kill(c) /\ WatchDone(c, o, ~Owned(c))
           \/ KillRefused(c) /\ WatchDone(c, o, FALSE)
           \/ KillRefused(c) /\ watch' = [watch EXCEPT ![c].at = p]
    BY DEF WatchKill, WatchKillChild
  <1>3. /\ Identity(c) /\ Falls(c) /\ held' = held /\ killed' \subseteq killed \cup {c}
        /\ Kill(c) /\ ~Owned(c) => ~auth'.flag[c]
        /\ KillRefused(c) => (Hit(c)' <=> Hit(c)) /\ killed' = killed
    BY <1>1, KillFacts
  <1>4. CASE \E lost \in BOOLEAN : WatchDone(c, o, lost) /\ (lost => Kill(c) /\ ~Owned(c))
    BY <1>1, <1>3, <1>4, WatchEnds
  <1>5. CASE KillRefused(c) /\ watch' = [watch EXCEPT ![c].at = p]
    <2>1. watch[c] \in WatchState
      BY DEF Typed
    <2>2. PICK w \in WatchState : w = [watch[c] EXCEPT !.at = p]
      BY <2>1 DEF WatchState
    <2>3. w.at = p /\ w.outcome = watch[c].outcome /\ w.lost = watch[c].lost
      BY <2>1, <2>2 DEF WatchState
    <2>4. watch' = [watch EXCEPT ![c] = w]
      BY <1>5, <2>2 DEF Typed
    <2>5. QED
      BY <1>1, <1>3, <1>5, <2>3, <2>4, WatchGoesOn
  <1>6. QED
    BY <1>2, <1>4, <1>5

-----------------------------------------------------------------------------
(* terminate_stream_child and what follows it *)

\* The places inside terminate_stream_child.
Terminating == {"observe", "signal", "signalChild", "wait"}

\* terminate_stream_child has reaped or lost the child, and the call it was made
\* for ends: a failed start, an error of next, or a cancellation.
LEMMA Lands ==
    ASSUME CSInv, Typed, NEW c \in Timed, StreamOK(c), c \in held, c \in held',
           Hit(c)' <=> Hit(c),
           owner[c] \in Terminating, ~auth'.flag[c],
           NEW o \in {"failed", "open", "closed"}, NEW t \in StreamState, t.consumed,
           t.timeout = stream[c].timeout, t.result \in {stream[c].result, "error"},
           t.after = stream[c].after,
           \/ o = "failed" /\ t.after = "start"
           \/ o = "open" /\ t.result = "error" /\ t.after = "next"
           \/ o = "closed" /\ t.after = "cancel"
              /\ (t.timeout = "timedout" => "timeout" \in {t.result, t.final}),
           Go(c, o), stream' = [stream EXCEPT ![c] = t],
           UNCHANGED <<watch, pipe, expired>>, killed' \subseteq killed \cup {c}
    PROVE  Moves(c) /\ StreamOK(c)'
  <1> USE DEF Go, Terminating
  <1>1. owner[c] \in Places /\ stream[c] \in StreamState /\ watch[c] \in WatchState
        /\ pipe[c] \in PipeState
    BY DEF Typed
  <1>2. Moves(c)
    BY <1>1 DEF Moves, Writes, Typed, Places
  <1>3. StreamOK(c)'
    BY <1>1, SMTT(60)
       DEF Typed, StreamState, WatchState, PipeState, Places, Errors, StreamOK, NewStream,
           NewWatch, HoldsIdentity, Untouched, JustStarted, GivenUp, Over, Joins, Joining,
           Caller, TimeoutNoted, TimeoutTold, Pulling, PullState, HitsNoted, Judged
  <1>4. QED
    BY <1>2, <1>3

\* The same, from the action that says how a call ends after the reaping.
LEMMA EndsCall ==
    ASSUME CSInv, Typed, NEW c \in Timed, StreamOK(c), c \in held, c \in held',
           Hit(c)' <=> Hit(c),
           owner[c] \in Terminating, ~auth'.flag[c], NEW s \in StreamState, s.consumed, 
           s.timeout = stream[c].timeout, s.result = stream[c].result,
           s.after = stream[c].after,
           Terminated(c, s), UNCHANGED <<watch, pipe, expired>>,
             killed' \subseteq killed \cup {c}
    PROVE  Moves(c) /\ StreamOK(c)'
  <1>1. CASE s.after = "start" /\ Go(c, "failed") /\ stream' = [stream EXCEPT ![c] = s]
    BY <1>1, Lands
  <1>2. CASE s.after = "next" /\ Go(c, "open")
               /\ stream' = [stream EXCEPT ![c] = [s EXCEPT !.result = "error"]]
    <2>1. PICK t \in StreamState : t = [s EXCEPT !.result = "error"]
      BY DEF StreamState, Errors
    <2>2. t.consumed = s.consumed /\ t.timeout = s.timeout /\ t.after = s.after
          /\ t.result = "error"
      BY <2>1 DEF StreamState
    <2>3. QED
      BY <1>2, <2>1, <2>2, Lands
  <1>3. CASE s.after = "cancel" /\ Closed(c, s)
    <2>1. PICK f \in {"timeout", "error", "ok"} :
             /\ stream' = [stream EXCEPT ![c] = [s EXCEPT !.stdout = FALSE, !.final = f]]
             /\ s.timeout = "timedout" /\ s.result # "timeout" => f = "timeout"
      BY <1>3 DEF Closed
    <2>2. PICK t \in StreamState : t = [s EXCEPT !.stdout = FALSE, !.final = f]
      BY DEF StreamState
    <2>3. t.consumed = s.consumed /\ t.timeout = s.timeout /\ t.after = s.after
          /\ t.result = s.result /\ t.final = f
      BY <2>2 DEF StreamState
    <2>4. QED
      BY <1>3, <2>1, <2>2, <2>3, Lands DEF Closed
  <1>4. QED
    BY <1>1, <1>2, <1>3 DEF Terminated

\* terminate_stream_child goes on to its next call.
LEMMA CleansUp ==
    ASSUME CSInv, Typed, NEW c \in Timed, StreamOK(c), c \in held, c \in held', Falls(c),
           owner[c] \in Terminating, NEW o \in Terminating, Go(c, o), NEW f \in BOOLEAN,
           SetStream(c, "failure", f), UNCHANGED <<watch, pipe, expired>>,
           killed' \subseteq killed \cup {c}, stream[c].result \notin {"end", "rejected"} 
    PROVE  Moves(c) /\ StreamOK(c)'
  <1> USE DEF SetStream, Go, Terminating
  <1>1. owner[c] \in Places /\ stream[c] \in StreamState /\ watch[c] \in WatchState
        /\ pipe[c] \in PipeState
    BY DEF Typed
  <1>2. Moves(c)
    <2>1. Writes(c)
      BY <1>1 DEF Writes, Typed
    <2>2. stream'[c] \in StreamState
      BY <1>1 DEF Typed, StreamState, Errors
    <2>3. owner'[c] \in Places /\ watch'[c] \in WatchState /\ pipe'[c] \in PipeState
      BY <1>1 DEF Typed, Places
    <2>4. QED
      BY <2>1, <2>2, <2>3 DEF Moves
  <1>3. StreamOK(c)'
    BY <1>1, SMTT(60)
       DEF Typed, StreamState, WatchState, PipeState, Places, Errors, StreamOK, NewStream,
           NewWatch, HoldsIdentity, Untouched, JustStarted, GivenUp, Over, Joins, Joining,
           Caller, TimeoutNoted, TimeoutTold, Pulling, PullState, HitsNoted, Judged, Falls
  <1>4. QED
    BY <1>2, <1>3

\* It is never entered from a stream with a verdict.
LEMMA Clean ==
    ASSUME Typed, NEW c \in Timed, StreamOK(c), owner[c] \in Terminating
    PROVE  stream[c] \in StreamState /\ stream[c].result \notin {"end", "rejected"}
           /\ c \in held
  BY DEF Typed, StreamOK, Judged, HoldsIdentity, Terminating

\* A child lost in it ends the call with an error.
LEMMA LoseEnds ==
    ASSUME CSInv, Typed, NEW c \in Timed, StreamOK(c), c \in held', Hit(c)' <=> Hit(c),
           owner[c] \in Terminating, ~auth'.flag[c], Lose(c),
           UNCHANGED <<watch, pipe, expired>>, killed' \subseteq killed \cup {c}
    PROVE  Moves(c) /\ StreamOK(c)'
  <1>1. stream[c] \in StreamState /\ c \in held
    BY Clean
  <1>2. PICK s \in StreamState :
               s = [stream[c] EXCEPT !.lost = TRUE, !.consumed = TRUE, !.failure = TRUE]
    BY <1>1 DEF StreamState
  <1>3. s.consumed /\ s.timeout = stream[c].timeout /\ s.result = stream[c].result
        /\ s.after = stream[c].after
    BY <1>1, <1>2 DEF StreamState
  <1>4. QED
    BY <1>1, <1>2, <1>3, EndsCall DEF Lose

\* It observes the child before it signals it.
LEMMA TerminateObserveStep ==
    ASSUME CSInv, Typed, NEW c \in Timed, StreamOK(c), TerminateObserve(c)
    PROVE  (Identity(c) \/ UNCHANGED csVars) /\ Moves(c) /\ StreamOK(c)'
  <1>1. /\ owner[c] \in Terminating /\ UNCHANGED <<watch, pipe, expired, killed>>
        /\ owner[c] = "observe"
    BY DEF TerminateObserve, Terminating
  <1>2. stream[c] \in StreamState /\ stream[c].result \notin {"end", "rejected"}
        /\ c \in held
    BY <1>1, Clean
  <1>3. CASE stream[c].lost /\ UNCHANGED csVars
               /\ Terminated(c, [stream[c] EXCEPT !.consumed = TRUE])
    <2>1. PICK s \in StreamState : s = [stream[c] EXCEPT !.consumed = TRUE]
      BY <1>2 DEF StreamState
    <2>2. s.consumed /\ s.timeout = stream[c].timeout /\ s.result = stream[c].result
          /\ s.after = stream[c].after
      BY <1>2, <2>1 DEF StreamState
    <2>3. held' = held /\ auth' = auth /\ (Hit(c)' <=> Hit(c)) /\ ~auth.flag[c]
      BY <1>2, <1>3, QuietFacts DEF StreamOK, GivenUp
    <2>4. QED
      BY <1>1, <1>2, <1>3, <2>1, <2>2, <2>3, EndsCall
  <1>4. CASE Go(c, "signal") /\ UNCHANGED stream /\ (Observe(c) \/ UNCHANGED csVars)
    <2>1. /\ held' = held /\ Falls(c) /\ (Identity(c) \/ UNCHANGED csVars)
      BY <1>4, QuietFacts, ObserveFacts
    <2>2. PICK f \in BOOLEAN : SetStream(c, "failure", f)
      <3>1. stream[c].failure \in BOOLEAN /\ SetStream(c, "failure", stream[c].failure)
        BY <1>2, <1>4 DEF Typed, SetStream, StreamState
      <3>2. QED
        BY <3>1
    <2>3. QED
      BY <1>1, <1>2, <1>4, <2>1, <2>2, CleansUp DEF Terminating
  <1>5. CASE Observe(c) /\ ObserveResult(c) = "lost" /\ Lose(c)
    BY <1>1, <1>5, ObserveFacts, LoseEnds
  <1>6. QED
    BY <1>3, <1>4, <1>5 DEF TerminateObserve

\* It signals the group, or the child where the group cannot be signalled.
LEMMA TerminateSignalStep ==
    ASSUME CSInv, Typed, NEW c \in Timed, StreamOK(c), TerminateSignal(c)
           \/ TerminateSignalChild(c)
    PROVE  Identity(c) /\ Moves(c) /\ StreamOK(c)'
  <1>1. /\ owner[c] \in Terminating /\ UNCHANGED <<watch, pipe, expired>>
        /\ Kill(c) \/ KillRefused(c)
    BY DEF TerminateSignal, TerminateSignalChild, Terminating
  <1>2. stream[c] \in StreamState /\ stream[c].result \notin {"end", "rejected"}
        /\ c \in held
    BY <1>1, Clean
  <1>3. /\ Identity(c) /\ Falls(c) /\ c \in held /\ held' = held
           /\ killed' \subseteq killed \cup {c}
    BY <1>1, KillFacts
  <1>4. CASE Kill(c) /\ ~Owned(c) /\ Lose(c)
    <2>1. Hit(c)' <=> Hit(c)
      BY <1>4 DEF Kill, SignalOwned, Hit
    <2>2. QED
      BY <1>1, <1>3, <1>4, <2>1, KillFacts, LoseEnds
  <1>5. ASSUME NEW o \in Terminating, NEW f \in BOOLEAN, Go(c, o),
               SetStream(c, "failure", f)
        PROVE  Moves(c) /\ StreamOK(c)'
    BY <1>1, <1>2, <1>3, <1>5, CleansUp
  <1>6. CASE UNCHANGED stream /\ Go(c, "wait")
    <2>1. PICK f \in BOOLEAN : SetStream(c, "failure", f)
      <3>1. stream[c].failure \in BOOLEAN /\ SetStream(c, "failure", stream[c].failure)
        BY <1>2, <1>6 DEF Typed, SetStream, StreamState
      <3>2. QED
        BY <3>1
    <2>2. QED
      BY <1>1, <1>2, <1>3, <1>6, <2>1, CleansUp DEF Terminating
  <1>7. CASE SetStream(c, "failure", TRUE)
               /\ Go(c, IF stream[c].consumed THEN "wait" ELSE "signalChild")
    <2>1. PICK o \in Terminating : Go(c, o)
      BY <1>7 DEF Terminating
    <2>2. QED
      BY <1>1, <1>2, <1>3, <1>7, <2>1, CleansUp
  <1>8. QED
    BY <1>4, <1>6, <1>7 DEF TerminateSignal, TerminateSignalChild

\* It waits for the child.
LEMMA TerminateWaitStep ==
    ASSUME CSInv, Typed, NEW c \in Timed, StreamOK(c), TerminateWait(c)
    PROVE  (Identity(c) \/ UNCHANGED csVars) /\ Moves(c) /\ StreamOK(c)'
  <1>1. /\ owner[c] \in Terminating /\ UNCHANGED <<watch, pipe, expired, killed>>
    BY DEF TerminateWait, Terminating
  <1>2. stream[c] \in StreamState /\ stream[c].result \notin {"end", "rejected"}
        /\ c \in held
    BY <1>1, Clean
  <1>3. CASE stream[c].consumed /\ UNCHANGED csVars /\ Terminated(c, stream[c])
    <2>1. held' = held /\ auth' = auth /\ (Hit(c)' <=> Hit(c)) /\ ~auth.flag[c]
      BY <1>2, <1>3, QuietFacts DEF StreamOK, GivenUp
    <2>2. QED
      BY <1>1, <1>2, <1>3, <2>1, EndsCall
  <1>4. CASE WaitOwned(c) /\ WaitResult(c) = "none" /\ UNCHANGED <<owner, stream>>
    <2>1. /\ held' = held /\ Falls(c) /\ Identity(c)
      BY <1>4, WaitFacts
    <2>2. stream[c].failure \in BOOLEAN /\ SetStream(c, "failure", stream[c].failure)
          /\ Go(c, owner[c])
      BY <1>2, <1>4 DEF Typed, SetStream, StreamState, Go
    <2>3. QED
      BY <1>1, <1>2, <2>1, <2>2, CleansUp
  <1>5. CASE WaitOwned(c) /\ WaitResult(c) = "reaped"
               /\ Terminated(c, [stream[c] EXCEPT !.consumed = TRUE, !.status = TRUE])
    <2>1. PICK s \in StreamState : s = [stream[c] EXCEPT !.consumed = TRUE, !.status = TRUE]
      BY <1>2 DEF StreamState
    <2>2. s.consumed /\ s.timeout = stream[c].timeout /\ s.result = stream[c].result
          /\ s.after = stream[c].after
      BY <1>2, <2>1 DEF StreamState
    <2>3. QED
      BY <1>1, <1>2, <1>5, <2>1, <2>2, WaitFacts, EndsCall
  <1>6. CASE WaitOwned(c) /\ WaitResult(c) = "error" /\ Lose(c)
    BY <1>1, <1>6, WaitFacts, LoseEnds
  <1>7. QED
    BY <1>3, <1>4, <1>5, <1>6 DEF TerminateWait

-----------------------------------------------------------------------------
(* The caller's steps *)

\* start returns the stream, or goes on to end a child whose monitor had already
\* timed out.
LEMMA OpenedStep ==
    ASSUME CSInv, Typed, NEW c \in Timed, StreamOK(c), Opened(c)
    PROVE  UNCHANGED csVars /\ Moves(c) /\ StreamOK(c)'
  <1> USE DEF Opened, Go, SetStream
  <1>1. UNCHANGED <<csVars, watch, pipe, expired, killed>>
    OBVIOUS
  <1>2. Falls(c) /\ held' = held /\ (Hit(c)' <=> Hit(c))
    BY <1>1, QuietFacts
  <1>3. owner[c] \in Places /\ stream[c] \in StreamState /\ watch[c] \in WatchState
        /\ pipe[c] \in PipeState
    BY DEF Typed
  <1>4. Moves(c)
    <2>1. Writes(c)
      BY <1>1 DEF Writes, Typed
    <2>2. stream'[c] \in StreamState
      BY <1>1, <1>3 DEF Typed, StreamState, Errors
    <2>3. owner'[c] \in Places /\ watch'[c] \in WatchState /\ pipe'[c] \in PipeState
      BY <1>1, <1>3 DEF Typed, Places
    <2>4. QED
      BY <2>1, <2>2, <2>3 DEF Moves
  <1>5. StreamOK(c)'
    BY <1>2, <1>3, <1>1, SMTT(60)
       DEF Typed, StreamState, WatchState, PipeState, Places, Errors, StreamOK, NewStream,
           NewWatch, HoldsIdentity, Untouched, JustStarted, GivenUp, Over, Joins, Joining,
           Caller, TimeoutNoted, TimeoutTold, Pulling, PullState, HitsNoted, Judged, Falls
  <1>6. QED
    BY <1>1, <1>4, <1>5

\* The caller asks for the next element.
LEMMA CallNextStep ==
    ASSUME CSInv, Typed, NEW c \in Timed, StreamOK(c), CallNext(c)
    PROVE  UNCHANGED csVars /\ Moves(c) /\ StreamOK(c)'
  <1> USE DEF CallNext, Go, SetStream
  <1>1. UNCHANGED <<csVars, stream, watch, pipe, expired, killed>>
    OBVIOUS
  <1>2. Falls(c) /\ held' = held /\ (Hit(c)' <=> Hit(c))
    BY <1>1, QuietFacts
  <1>3. owner[c] \in Places /\ stream[c] \in StreamState /\ watch[c] \in WatchState
        /\ pipe[c] \in PipeState
    BY DEF Typed
  <1>4. Moves(c)
    <2>1. Writes(c)
      BY <1>1 DEF Writes, Typed
    <2>2. owner'[c] \in Places /\ stream'[c] \in StreamState /\ watch'[c] \in WatchState
          /\ pipe'[c] \in PipeState
      BY <1>1, <1>3 DEF Typed, Places
    <2>3. QED
      BY <2>1, <2>2 DEF Moves
  <1>5. StreamOK(c)'
    BY <1>2, <1>3, <1>1, SMTT(60)
       DEF Typed, StreamState, WatchState, PipeState, Places, Errors, StreamOK, NewStream,
           NewWatch, HoldsIdentity, Untouched, JustStarted, GivenUp, Over, Joins, Joining,
           Caller, TimeoutNoted, TimeoutTold, Pulling, PullState, HitsNoted, Judged, Falls
  <1>6. QED
    BY <1>1, <1>4, <1>5

\* next notes what its monitor has ended with.
LEMMA UpdateTimeoutWatchStep ==
    ASSUME CSInv, Typed, NEW c \in Timed, StreamOK(c), UpdateTimeoutWatch(c)
    PROVE  UNCHANGED csVars /\ Moves(c) /\ StreamOK(c)'
  <1> USE DEF UpdateTimeoutWatch, Go, SetStream
  <1>1. UNCHANGED <<csVars, watch, pipe, expired, killed>>
    OBVIOUS
  <1>2. Falls(c) /\ held' = held /\ (Hit(c)' <=> Hit(c))
    BY <1>1, QuietFacts
  <1>3. owner[c] \in Places /\ stream[c] \in StreamState /\ watch[c] \in WatchState
        /\ pipe[c] \in PipeState
    BY DEF Typed
  <1>4. Moves(c)
    <2>1. Writes(c)
      BY <1>1 DEF Writes, Typed
    <2>2. stream'[c] \in StreamState
      BY <1>1, <1>3 DEF Typed, StreamState, Errors
    <2>3. owner'[c] \in Places /\ watch'[c] \in WatchState /\ pipe'[c] \in PipeState
      BY <1>1, <1>3 DEF Typed, Places
    <2>4. QED
      BY <2>1, <2>2, <2>3 DEF Moves
  <1>5. StreamOK(c)'
    BY <1>2, <1>3, <1>1, SMTT(60)
       DEF Typed, StreamState, WatchState, PipeState, Places, Errors, StreamOK, NewStream,
           NewWatch, HoldsIdentity, Untouched, JustStarted, GivenUp, Over, Joins, Joining,
           Caller, TimeoutNoted, TimeoutTold, Pulling, PullState, HitsNoted, Judged, Falls
  <1>6. QED
    BY <1>1, <1>4, <1>5

\* The caller cancels the stream.
LEMMA CallCancelStep ==
    ASSUME CSInv, Typed, NEW c \in Timed, StreamOK(c), CallCancel(c)
    PROVE  UNCHANGED csVars /\ Moves(c) /\ StreamOK(c)'
  <1> USE DEF CallCancel, Go, SetStream
  <1>1. UNCHANGED <<csVars, watch, pipe, expired, killed>>
    OBVIOUS
  <1>2. Falls(c) /\ held' = held /\ (Hit(c)' <=> Hit(c))
    BY <1>1, QuietFacts
  <1>3. owner[c] \in Places /\ stream[c] \in StreamState /\ watch[c] \in WatchState
        /\ pipe[c] \in PipeState
    BY DEF Typed
  <1>4. Moves(c)
    <2>1. Writes(c)
      BY <1>1 DEF Writes, Typed
    <2>2. stream'[c] \in StreamState
      BY <1>1, <1>3 DEF Typed, StreamState, Errors
    <2>3. owner'[c] \in Places /\ watch'[c] \in WatchState /\ pipe'[c] \in PipeState
      BY <1>1, <1>3 DEF Typed, Places
    <2>4. QED
      BY <2>1, <2>2, <2>3 DEF Moves
  <1>5. StreamOK(c)'
    BY <1>2, <1>3, <1>1, SMTT(60)
       DEF Typed, StreamState, WatchState, PipeState, Places, Errors, StreamOK, NewStream,
           NewWatch, HoldsIdentity, Untouched, JustStarted, GivenUp, Over, Joins, Joining,
           Caller, TimeoutNoted, TimeoutTold, Pulling, PullState, HitsNoted, Judged, Falls
  <1>6. QED
    BY <1>1, <1>4, <1>5

\* The stream tells its monitor to stop before it joins it.
LEMMA RequestStopStep ==
    ASSUME CSInv, Typed, NEW c \in Timed, StreamOK(c), RequestStop(c)
    PROVE  UNCHANGED csVars /\ Moves(c) /\ StreamOK(c)'
  <1> USE DEF RequestStop, Go, SetStream
  <1>1. UNCHANGED <<csVars, stream, pipe, expired, killed>>
    OBVIOUS
  <1>2. Falls(c) /\ held' = held /\ (Hit(c)' <=> Hit(c))
    BY <1>1, QuietFacts
  <1>3. owner[c] \in Places /\ stream[c] \in StreamState /\ watch[c] \in WatchState
        /\ pipe[c] \in PipeState
    BY DEF Typed
  <1>4. Moves(c)
    <2>1. Writes(c)
      BY <1>1 DEF Writes, Typed
    <2>2. watch'[c] \in WatchState
      BY <1>1, <1>3 DEF Typed, WatchState
    <2>3. owner'[c] \in Places /\ stream'[c] \in StreamState /\ pipe'[c] \in PipeState
      BY <1>1, <1>3 DEF Typed, Places
    <2>4. QED
      BY <2>1, <2>2, <2>3 DEF Moves
  <1>5. StreamOK(c)'
    BY <1>2, <1>3, <1>1, SMTT(60)
       DEF Typed, StreamState, WatchState, PipeState, Places, Errors, StreamOK, NewStream,
           NewWatch, HoldsIdentity, Untouched, JustStarted, GivenUp, Over, Joins, Joining,
           Caller, TimeoutNoted, TimeoutTold, Pulling, PullState, HitsNoted, Judged, Falls
  <1>6. QED
    BY <1>1, <1>4, <1>5

-----------------------------------------------------------------------------
(* The pipe, the reads and the end *)

\* The child writes, the writers go, the deadline passes.
LEMMA PipeStep ==
    ASSUME CSInv, Typed, NEW c \in Timed, StreamOK(c), ChildWrites(c) \/ WritersGone(c)
           \/ DeadlinePasses(c)
    PROVE  UNCHANGED csVars /\ Moves(c) /\ StreamOK(c)'
  <1> USE DEF ChildWrites , WritersGone , DeadlinePasses, Go, SetStream
  <1>1. UNCHANGED <<csVars, owner, stream, watch>>
    OBVIOUS
  <1>2. Falls(c) /\ held' = held /\ (Hit(c)' <=> Hit(c))
    BY <1>1, QuietFacts
  <1>3. owner[c] \in Places /\ stream[c] \in StreamState /\ watch[c] \in WatchState
        /\ pipe[c] \in PipeState
    BY DEF Typed
  <1>4. pipe'[c] \in PipeState
    <2>1. CASE ChildWrites(c)
      BY <1>3, <2>1 DEF Typed, PipeState
    <2>2. CASE WritersGone(c)
      BY <1>3, <2>2 DEF Typed, PipeState
    <2>3. CASE DeadlinePasses(c)
      BY <1>3, <2>3
    <2>4. QED
      BY <2>1, <2>2, <2>3
  <1>5. Moves(c)
    <2>1. Writes(c)
      BY <1>1, <1>4 DEF Writes, Typed
    <2>2. pipe'[c] \in PipeState
      BY <1>1, <1>4, <1>3 DEF Typed, PipeState
    <2>3. owner'[c] \in Places /\ stream'[c] \in StreamState /\ watch'[c] \in WatchState
      BY <1>1, <1>4, <1>3 DEF Typed, Places
    <2>4. QED
      BY <2>1, <2>2, <2>3 DEF Moves
  <1>6. StreamOK(c)'
    BY <1>2, <1>3, <1>1, <1>4, SMTT(60)
       DEF Typed, StreamState, WatchState, PipeState, Places, Errors, StreamOK, NewStream,
           NewWatch, HoldsIdentity, Untouched, JustStarted, GivenUp, Over, Joins, Joining,
           Caller, TimeoutNoted, TimeoutTold, Pulling, PullState, HitsNoted, Judged, Falls
  <1>7. QED
    BY <1>1, <1>5, <1>6

\* A read of the pipe.
LEMMA ReadStep ==
    ASSUME CSInv, Typed, NEW c \in Timed, StreamOK(c), Read(c)
    PROVE  UNCHANGED csVars /\ Moves(c) /\ StreamOK(c)'
  <1>1. owner[c] = "read" /\ UNCHANGED <<csVars, watch, expired, killed>>
    BY DEF Read
  <1>2. Falls(c) /\ held' = held /\ (Hit(c)' <=> Hit(c))
    BY <1>1, QuietFacts
  <1>3. owner[c] \in Places /\ stream[c] \in StreamState /\ watch[c] \in WatchState
        /\ pipe[c] \in PipeState
    BY DEF Typed
  <1>4. ASSUME NEW r \in {"data", "error"}, NEW b \in BOOLEAN,
               pipe' = [pipe EXCEPT ![c].buffered = b],
               pipe[c].buffered \/ ~b, Return(c, r)
        PROVE  Moves(c) /\ StreamOK(c)'
    <2>1. Moves(c)
      <3>1. Writes(c)
        BY <1>1, <1>4 DEF Writes, Typed, Go, Return, SetStream
      <3>2. stream'[c] \in StreamState
        BY <1>1, <1>4, <1>3 DEF Typed, StreamState, Errors, Go, Return, SetStream
      <3>3. pipe'[c] \in PipeState
        BY <1>1, <1>4, <1>3 DEF Typed, PipeState, Go, Return, SetStream
      <3>4. owner'[c] \in Places /\ watch'[c] \in WatchState
        BY <1>1, <1>4, <1>3 DEF Typed, Places, Go, Return, SetStream
      <3>5. QED
        BY <3>1, <3>2, <3>3, <3>4 DEF Moves
    <2>2. StreamOK(c)'
      BY <1>2, <1>3, <1>1, <1>4, SMTT(60)
         DEF Typed, StreamState, WatchState, PipeState, Places, Errors, StreamOK,
             NewStream, NewWatch, HoldsIdentity, Untouched, JustStarted, GivenUp, Over,
             Joins, Joining, Caller, TimeoutNoted, TimeoutTold, Pulling, PullState,
             HitsNoted, Judged, Falls, Go, Return, SetStream
    <2>3. QED
      BY <1>1, <1>2, <2>1, <2>2
  <1>5. CASE stream[c].stdout /\ ~pipe[c].buffered /\ ~pipe[c].writers
               /\ SetStream(c, "stdout", FALSE) /\ Go(c, "poll") /\ UNCHANGED pipe
    <2>1. Moves(c)
      <3>1. Writes(c)
        BY <1>1, <1>5 DEF Writes, Typed, Go, Return, SetStream
      <3>2. stream'[c] \in StreamState
        BY <1>1, <1>5, <1>3 DEF Typed, StreamState, Errors, Go, Return, SetStream
      <3>3. owner'[c] \in Places /\ watch'[c] \in WatchState /\ pipe'[c] \in PipeState
        BY <1>1, <1>5, <1>3 DEF Typed, Places, Go, Return, SetStream
      <3>4. QED
        BY <3>1, <3>2, <3>3 DEF Moves
    <2>2. StreamOK(c)'
      BY <1>2, <1>3, <1>1, <1>5, SMTT(60)
         DEF Typed, StreamState, WatchState, PipeState, Places, Errors, StreamOK,
             NewStream, NewWatch, HoldsIdentity, Untouched, JustStarted, GivenUp, Over,
             Joins, Joining, Caller, TimeoutNoted, TimeoutTold, Pulling, PullState,
             HitsNoted, Judged, Falls, Go, Return, SetStream
    <2>3. QED
      BY <1>1, <1>2, <2>1, <2>2
  <1>6. CASE Go(c, "poll") /\ UNCHANGED <<stream, pipe>>
    <2>1. Moves(c)
      <3>1. Writes(c)
        BY <1>1, <1>6 DEF Writes, Typed, Go, Return, SetStream
      <3>2. owner'[c] \in Places /\ stream'[c] \in StreamState /\ watch'[c] \in WatchState
            /\ pipe'[c] \in PipeState
        BY <1>1, <1>6, <1>3 DEF Typed, Places, Go, Return, SetStream
      <3>3. QED
        BY <3>1, <3>2 DEF Moves
    <2>2. StreamOK(c)'
      BY <1>2, <1>3, <1>1, <1>6, SMTT(60)
         DEF Typed, StreamState, WatchState, PipeState, Places, Errors, StreamOK,
             NewStream, NewWatch, HoldsIdentity, Untouched, JustStarted, GivenUp, Over,
             Joins, Joining, Caller, TimeoutNoted, TimeoutTold, Pulling, PullState,
             HitsNoted, Judged, Falls, Go, Return, SetStream
    <2>3. QED
      BY <1>1, <1>2, <2>1, <2>2
  <1>7. CASE Return(c, "error") /\ UNCHANGED pipe
    <2>1. PICK b \in BOOLEAN : b = pipe[c].buffered
      BY <1>3 DEF PipeState
    <2>2. pipe' = [pipe EXCEPT ![c].buffered = b]
      BY <1>7, <2>1 DEF Typed, PipeState
    <2>3. QED
      BY <1>1, <1>4, <1>7, <2>1, <2>2
  <1>8. CASE pipe[c].buffered /\ pipe' = [pipe EXCEPT ![c].buffered = FALSE]
               /\ (Return(c, "data") \/ Return(c, "error"))
    <2>1. CASE Return(c, "data")
      BY <1>1, <1>4, <1>8, <2>1
    <2>2. CASE Return(c, "error")
      BY <1>1, <1>4, <1>8, <2>2
    <2>3. QED
      BY <1>8, <2>1, <2>2
  <1>9. QED
    BY <1>1, <1>5, <1>6, <1>7, <1>8 DEF Read

\* The end of the stream judges the child's exit.
LEMMA FinishStep ==
    ASSUME CSInv, Typed, NEW c \in Timed, StreamOK(c), Finish(c)
    PROVE  UNCHANGED csVars /\ Moves(c) /\ StreamOK(c)'
  <1>1. owner[c] = "decide" /\ AtEnd(c)
        /\ UNCHANGED <<csVars, watch, pipe, expired, killed>>
    BY DEF Finish
  <1>2. Falls(c) /\ held' = held /\ (Hit(c)' <=> Hit(c))
    BY <1>1, QuietFacts
  <1>3. owner[c] \in Places /\ stream[c] \in StreamState /\ watch[c] \in WatchState
        /\ pipe[c] \in PipeState
    BY DEF Typed
  <1>4. PICK r \in Errors \cup {"end"} :
           /\ Return(c, r)
           /\ r \in {"end", "rejected"} => stream[c].timeout # "timedout"
              /\ stream[c].cancellation = "none"
    BY DEF Finish, Errors
  <1>5. Moves(c)
    <2>1. Writes(c)
      BY <1>1, <1>4 DEF Writes, Typed, Go, Return, SetStream
    <2>2. stream'[c] \in StreamState
      BY <1>1, <1>4, <1>3 DEF Typed, StreamState, Errors, Go, Return, SetStream
    <2>3. owner'[c] \in Places /\ watch'[c] \in WatchState /\ pipe'[c] \in PipeState
      BY <1>1, <1>4, <1>3 DEF Typed, Places, Go, Return, SetStream
    <2>4. QED
      BY <2>1, <2>2, <2>3 DEF Moves
  <1>6. StreamOK(c)'
    BY <1>1, <1>2, <1>3, <1>4, SMTT(60)
       DEF Typed, StreamState, WatchState, PipeState, Places, Errors, StreamOK, NewStream,
           NewWatch, HoldsIdentity, Untouched, JustStarted, GivenUp, Over, Joins, Joining,
           Caller, TimeoutNoted, TimeoutTold, Pulling, PullState, HitsNoted, Judged, Falls,
           AtEnd, Go, Return, SetStream
  <1>7. QED
    BY <1>1, <1>5, <1>6

\* next polls the child without waiting.
LEMMA PollStep ==
    ASSUME CSInv, Typed, NEW c \in Timed, StreamOK(c), Poll(c)
    PROVE  (Identity(c) \/ UNCHANGED csVars) /\ Moves(c) /\ StreamOK(c)'
  <1>1. owner[c] = "poll" /\ UNCHANGED <<watch, pipe, expired, killed>>
        /\ (WaitOwned(c) \/ UNCHANGED csVars)
    BY DEF Poll
  <1>2. (Identity(c) \/ UNCHANGED csVars) /\ Falls(c) /\ held' = held
        /\ (Hit(c)' <=> Hit(c))
    BY <1>1, QuietFacts, WaitFacts
  <1>3. owner[c] \in Places /\ stream[c] \in StreamState /\ watch[c] \in WatchState
        /\ pipe[c] \in PipeState
    BY DEF Typed
  <1>4. CASE Go(c, "decide") /\ UNCHANGED stream
    <2>1. Moves(c)
      <3>1. Writes(c)
        BY <1>1, <1>4 DEF Writes, Typed, Go, Return, SetStream
      <3>2. owner'[c] \in Places /\ stream'[c] \in StreamState /\ watch'[c] \in WatchState
            /\ pipe'[c] \in PipeState
        BY <1>1, <1>4, <1>3 DEF Typed, Places, Go, Return, SetStream
      <3>3. QED
        BY <3>1, <3>2 DEF Moves
    <2>2. StreamOK(c)'
      BY <1>2, <1>3, <1>1, <1>4, SMTT(60)
         DEF Typed, StreamState, WatchState, PipeState, Places, Errors, StreamOK,
             NewStream, NewWatch, HoldsIdentity, Untouched, JustStarted, GivenUp, Over,
             Joins, Joining, Caller, TimeoutNoted, TimeoutTold, Pulling, PullState,
             HitsNoted, Judged, Falls, Go, Return, SetStream
    <2>3. QED
      BY <1>1, <1>2, <2>1, <2>2
  <1>5. CASE Return(c, "error")
    <2>1. Moves(c)
      <3>1. Writes(c)
        BY <1>1, <1>5 DEF Writes, Typed, Go, Return, SetStream
      <3>2. stream'[c] \in StreamState
        BY <1>1, <1>5, <1>3 DEF Typed, StreamState, Errors, Go, Return, SetStream
      <3>3. owner'[c] \in Places /\ watch'[c] \in WatchState /\ pipe'[c] \in PipeState
        BY <1>1, <1>5, <1>3 DEF Typed, Places, Go, Return, SetStream
      <3>4. QED
        BY <3>1, <3>2, <3>3 DEF Moves
    <2>2. StreamOK(c)'
      BY <1>2, <1>3, <1>1, <1>5, SMTT(60)
         DEF Typed, StreamState, WatchState, PipeState, Places, Errors, StreamOK,
             NewStream, NewWatch, HoldsIdentity, Untouched, JustStarted, GivenUp, Over,
             Joins, Joining, Caller, TimeoutNoted, TimeoutTold, Pulling, PullState,
             HitsNoted, Judged, Falls, Go, Return, SetStream
    <2>3. QED
      BY <1>1, <1>2, <2>1, <2>2
  <1>6. CASE WaitOwned(c) /\ WaitResult(c) = "reaped" /\ stream[c].timeout # "watching"
               /\ Go(c, "decide")
                  /\ stream' = [stream EXCEPT ![c].consumed = TRUE, ![c].status = TRUE]
    <2>1. ~auth'.flag[c]
      BY <1>6, WaitFacts
    <2>2. Moves(c)
      <3>1. Writes(c)
        BY <1>1, <1>6, <2>1 DEF Writes, Typed, Go, Return, SetStream
      <3>2. stream'[c] \in StreamState
        BY <1>1, <1>6, <2>1, <1>3 DEF Typed, StreamState, Errors, Go, Return, SetStream
      <3>3. owner'[c] \in Places /\ watch'[c] \in WatchState /\ pipe'[c] \in PipeState
        BY <1>1, <1>6, <2>1, <1>3 DEF Typed, Places, Go, Return, SetStream
      <3>4. QED
        BY <3>1, <3>2, <3>3 DEF Moves
    <2>3. StreamOK(c)'
      BY <1>2, <1>3, <1>1, <1>6, <2>1, SMTT(60)
         DEF Typed, StreamState, WatchState, PipeState, Places, Errors, StreamOK,
             NewStream, NewWatch, HoldsIdentity, Untouched, JustStarted, GivenUp, Over,
             Joins, Joining, Caller, TimeoutNoted, TimeoutTold, Pulling, PullState,
             HitsNoted, Judged, Falls, Go, Return, SetStream
    <2>4. QED
      BY <1>1, <1>2, <2>2, <2>3
  <1>7. QED
    BY <1>2, <1>4, <1>5, <1>6 DEF Poll

\* next reports the timeout it noted.
LEMMA TimedOutStep ==
    ASSUME CSInv, Typed, NEW c \in Timed, StreamOK(c), TimedOut(c)
    PROVE  Identity(c) /\ Moves(c) /\ StreamOK(c)'
  <1>1. owner[c] = "decide" /\ c \in held /\ UNCHANGED <<watch, pipe, expired, killed>>
    BY DEF TimedOut, StreamOK, HoldsIdentity
  <1>2. SignalRefused(c) \/ (SignalOwned(c) /\ ~Owned(c) /\ UNCHANGED hits)
    <2>1. CASE Owned(c)
      BY <1>1, <2>1 DEF TimedOut, SignalRefused, kernel
    <2>2. CASE ~Owned(c)
      BY <1>1, <2>2 DEF TimedOut, SignalOwned
    <2>3. QED
      BY <2>1, <2>2
  <1>3. Identity(c) /\ Falls(c) /\ held' = held /\ (Hit(c)' <=> Hit(c))
    BY <1>1, <1>2, SignalFacts, RefusedFacts DEF Hit
  <1>4. owner[c] \in Places /\ stream[c] \in StreamState /\ watch[c] \in WatchState
        /\ pipe[c] \in PipeState
    BY DEF Typed
  <1>5. CASE Go(c, "reap") /\ SetStream(c, "stdout", FALSE)
    <2>1. Moves(c)
      <3>1. Writes(c)
        BY <1>1, <1>5 DEF Writes, Typed, Go, Return, SetStream
      <3>2. stream'[c] \in StreamState
        BY <1>1, <1>5, <1>4 DEF Typed, StreamState, Errors, Go, Return, SetStream
      <3>3. owner'[c] \in Places /\ watch'[c] \in WatchState /\ pipe'[c] \in PipeState
        BY <1>1, <1>5, <1>4 DEF Typed, Places, Go, Return, SetStream
      <3>4. QED
        BY <3>1, <3>2, <3>3 DEF Moves
    <2>2. StreamOK(c)'
      BY <1>3, <1>4, <1>1, <1>5, SMTT(60)
         DEF Typed, StreamState, WatchState, PipeState, Places, Errors, StreamOK,
             NewStream, NewWatch, HoldsIdentity, Untouched, JustStarted, GivenUp, Over,
             Joins, Joining, Caller, TimeoutNoted, TimeoutTold, Pulling, PullState,
             HitsNoted, Judged, Falls, Go, Return, SetStream
    <2>3. QED
      BY <1>1, <1>3, <2>1, <2>2
  <1>6. CASE ~Owned(c) /\ Go(c, "open")
               /\ stream' = [stream EXCEPT ![c].stdout = FALSE, ![c].consumed = TRUE,
                                        ![c].result = "timeout"]
    <2>1. ~auth'.flag[c]
      BY <1>1, <1>3, <1>6, OwnedIsFlagged DEF Falls
    <2>2. Moves(c)
      <3>1. Writes(c)
        BY <1>1, <1>6, <2>1 DEF Writes, Typed, Go, Return, SetStream
      <3>2. stream'[c] \in StreamState
        BY <1>1, <1>6, <2>1, <1>4 DEF Typed, StreamState, Errors, Go, Return, SetStream
      <3>3. owner'[c] \in Places /\ watch'[c] \in WatchState /\ pipe'[c] \in PipeState
        BY <1>1, <1>6, <2>1, <1>4 DEF Typed, Places, Go, Return, SetStream
      <3>4. QED
        BY <3>1, <3>2, <3>3 DEF Moves
    <2>3. StreamOK(c)'
      BY <1>3, <1>4, <1>1, <1>6, <2>1, SMTT(60)
         DEF Typed, StreamState, WatchState, PipeState, Places, Errors, StreamOK,
             NewStream, NewWatch, HoldsIdentity, Untouched, JustStarted, GivenUp, Over,
             Joins, Joining, Caller, TimeoutNoted, TimeoutTold, Pulling, PullState,
             HitsNoted, Judged, Falls, Go, Return, SetStream
    <2>4. QED
      BY <1>1, <1>3, <2>2, <2>3
  <1>7. QED
    BY <1>3, <1>5, <1>6 DEF TimedOut

\* next finds a cancellation.
LEMMA CheckCancellationStep ==
    ASSUME CSInv, Typed, NEW c \in Timed, StreamOK(c), CheckCancellation(c)
    PROVE  (Identity(c) \/ UNCHANGED csVars) /\ Moves(c) /\ StreamOK(c)'
  <1>1. owner[c] = "decide" /\ Go(c, "update") /\ UNCHANGED <<watch, pipe, expired>>
    BY DEF CheckCancellation
  <1>2. owner[c] \in Places /\ stream[c] \in StreamState /\ watch[c] \in WatchState
        /\ pipe[c] \in PipeState
    BY DEF Typed
  <1>3. CASE UNCHANGED <<csVars, stream, killed>>
    <2>1. Falls(c) /\ held' = held /\ (Hit(c)' <=> Hit(c))
      BY <1>3, QuietFacts
    <2>2. Moves(c)
      <3>1. Writes(c)
        BY <1>1, <1>3, <2>1 DEF Writes, Typed, Go, Return, SetStream
      <3>2. owner'[c] \in Places /\ stream'[c] \in StreamState /\ watch'[c] \in WatchState
            /\ pipe'[c] \in PipeState
        BY <1>1, <1>3, <2>1, <1>2 DEF Typed, Places, Go, Return, SetStream
      <3>3. QED
        BY <3>1, <3>2 DEF Moves
    <2>3. StreamOK(c)'
      BY <1>2, <1>1, <1>3, <2>1, SMTT(60)
         DEF Typed, StreamState, WatchState, PipeState, Places, Errors, StreamOK,
             NewStream, NewWatch, HoldsIdentity, Untouched, JustStarted, GivenUp, Over,
             Joins, Joining, Caller, TimeoutNoted, TimeoutTold, Pulling, PullState,
             HitsNoted, Judged, Falls, Go, Return, SetStream
    <2>4. QED
      BY <1>3, <2>1, <2>2, <2>3
  <1>4. CASE SignalOwned(c) /\ killed' \subseteq killed \cup {c}
               /\ (SetStream(c, "cancellation", "sent")
                  \/ SetStream(c, "cancellation", "killed"))
    <2>1. Falls(c) /\ held' = held /\ Identity(c)
      BY <1>4, SignalFacts
    <2>2. PICK x \in {"sent", "killed"} : SetStream(c, "cancellation", x)
      BY <1>4
    <2>3. Moves(c)
      <3>1. Writes(c)
        BY <1>1, <1>4, <2>1, <2>2 DEF Writes, Typed, Go, Return, SetStream
      <3>2. stream'[c] \in StreamState
        BY <1>1, <1>4, <2>1, <2>2, <1>2
           DEF Typed, StreamState, Errors, Go, Return, SetStream
      <3>3. owner'[c] \in Places /\ watch'[c] \in WatchState /\ pipe'[c] \in PipeState
        BY <1>1, <1>4, <2>1, <2>2, <1>2 DEF Typed, Places, Go, Return, SetStream
      <3>4. QED
        BY <3>1, <3>2, <3>3 DEF Moves
    <2>4. StreamOK(c)'
      BY <1>2, <1>1, <1>4, <2>1, <2>2, SMTT(60)
         DEF Typed, StreamState, WatchState, PipeState, Places, Errors, StreamOK,
             NewStream, NewWatch, HoldsIdentity, Untouched, JustStarted, GivenUp, Over,
             Joins, Joining, Caller, TimeoutNoted, TimeoutTold, Pulling, PullState,
             HitsNoted, Judged, Falls, Go, Return, SetStream
    <2>5. QED
      BY <2>1, <2>3, <2>4
  <1>5. QED
    BY <1>3, <1>4, SignalFacts DEF CheckCancellation, Kill

\* reap_timeout_child after a noted timeout.
LEMMA ReapTimeoutChildStep ==
    ASSUME CSInv, Typed, NEW c \in Timed, StreamOK(c), ReapTimeoutChild(c)
    PROVE  Identity(c) /\ Moves(c) /\ StreamOK(c)'
  <1>1. owner[c] = "reap" /\ WaitOwned(c) /\ UNCHANGED <<watch, pipe, expired, killed>>
    BY DEF ReapTimeoutChild
  <1>2. Identity(c) /\ Falls(c) /\ held' = held /\ (Hit(c)' <=> Hit(c))
    BY <1>1, WaitFacts
  <1>3. owner[c] \in Places /\ stream[c] \in StreamState /\ watch[c] \in WatchState
        /\ pipe[c] \in PipeState
    BY DEF Typed
  <1>4. CASE UNCHANGED <<owner, stream>>
    <2>1. Moves(c)
      <3>1. Writes(c)
        BY <1>1, <1>4 DEF Writes, Typed, Go, Return, SetStream
      <3>2. owner'[c] \in Places /\ stream'[c] \in StreamState /\ watch'[c] \in WatchState
            /\ pipe'[c] \in PipeState
        BY <1>1, <1>4, <1>3 DEF Typed, Places, Go, Return, SetStream
      <3>3. QED
        BY <3>1, <3>2 DEF Moves
    <2>2. StreamOK(c)'
      BY <1>2, <1>3, <1>1, <1>4, SMTT(60)
         DEF Typed, StreamState, WatchState, PipeState, Places, Errors, StreamOK,
             NewStream, NewWatch, HoldsIdentity, Untouched, JustStarted, GivenUp, Over,
             Joins, Joining, Caller, TimeoutNoted, TimeoutTold, Pulling, PullState,
             HitsNoted, Judged, Falls, Go, Return, SetStream
    <2>3. QED
      BY <1>1, <1>2, <2>1, <2>2
  <1>5. CASE WaitResult(c) # "none" /\ Go(c, "open")
               /\ stream' = [stream EXCEPT ![c].consumed = TRUE, ![c].result = "timeout",
                                        ![c].status = (WaitResult(c) = "reaped")]
    <2>1. ~auth'.flag[c]
      BY <1>1, <1>5, WaitFacts
    <2>2. PICK b \in BOOLEAN :
                 stream' = [stream EXCEPT ![c].consumed = TRUE, ![c].result = "timeout",
                   ![c].status = b]
      BY <1>5
    <2>3. Go(c, "open")
      BY <1>5
    <2>4. Moves(c)
      <3>1. Writes(c)
        BY <1>1, <2>3, <2>1, <2>2 DEF Writes, Typed, Go, Return, SetStream
      <3>2. stream'[c] \in StreamState
        BY <1>1, <2>3, <2>1, <2>2, <1>3
           DEF Typed, StreamState, Errors, Go, Return, SetStream
      <3>3. owner'[c] \in Places /\ watch'[c] \in WatchState /\ pipe'[c] \in PipeState
        BY <1>1, <2>3, <2>1, <2>2, <1>3 DEF Typed, Places, Go, Return, SetStream
      <3>4. QED
        BY <3>1, <3>2, <3>3 DEF Moves
    <2>5. StreamOK(c)'
      BY <1>2, <1>3, <1>1, <2>3, <2>1, <2>2, SMTT(60)
         DEF Typed, StreamState, WatchState, PipeState, Places, Errors, StreamOK,
             NewStream, NewWatch, HoldsIdentity, Untouched, JustStarted, GivenUp, Over,
             Joins, Joining, Caller, TimeoutNoted, TimeoutTold, Pulling, PullState,
             HitsNoted, Judged, Falls, Go, Return, SetStream
    <2>6. QED
      BY <1>1, <1>2, <2>4, <2>5
  <1>6. QED
    BY <1>2, <1>4, <1>5 DEF ReapTimeoutChild

\* The monitor is joined, and its outcome is taken.
LEMMA JoinedStep ==
    ASSUME CSInv, Typed, NEW c \in Timed, StreamOK(c), Joined(c)
    PROVE  UNCHANGED csVars /\ Moves(c) /\ StreamOK(c)'
  <1>1. owner[c] = "joining" /\ UNCHANGED <<csVars, watch, pipe, expired, killed>>
        /\ (stream[c].timeout = "watching" => watch[c].at = "done")
    BY DEF Joined
  <1>2. Falls(c) /\ held' = held /\ (Hit(c)' <=> Hit(c))
    BY <1>1, QuietFacts
  <1>3. owner[c] \in Places /\ stream[c] \in StreamState /\ watch[c] \in WatchState
        /\ pipe[c] \in PipeState
    BY DEF Typed
  <1>4. PICK to \in {"none", "timedout"}, f \in BOOLEAN, l \in BOOLEAN :
          /\ IF stream[c].timeout # "watching" THEN to = stream[c].timeout
             ELSE IF watch[c].outcome = "TimedOut" /\ stream[c].after # "start"
               THEN to = "timedout" ELSE to = "none"
          /\ l => watch[c].lost
          /\ LET s == [stream[c] EXCEPT !.timeout = to, !.failure = f, !.lost = l]
             IN  IF stream[c].after = "start" \/ s.stdout \/ ~s.consumed
                 THEN Go(c, "observe") /\ stream' = [stream EXCEPT ![c] = s]
                 ELSE Closed(c, s)
    <2> DEFINE to == IF stream[c].timeout # "watching" THEN stream[c].timeout
                     ELSE IF watch[c].outcome = "TimedOut" /\ stream[c].after # "start"
                       THEN "timedout" ELSE "none"
               f == stream[c].timeout = "watching" /\ watch[c].outcome = "Failed"
               l == stream[c].timeout = "watching" /\ watch[c].lost
                 /\ (watch[c].outcome = "Failed" \/ stream[c].after = "start")
               s == [stream[c] EXCEPT !.timeout = to, !.failure = f, !.lost = l]
    <2>1. to \in {"none", "timedout"} /\ f \in BOOLEAN /\ l \in BOOLEAN
          /\ (l => watch[c].lost)
      BY <1>3 DEF StreamState, WatchState
    <2>2. s = [stream[c] EXCEPT
                   !.timeout = IF ~(stream[c].timeout = "watching") THEN @
                               ELSE IF watch[c].outcome = "TimedOut"
                                 /\ ~(stream[c].after = "start") THEN "timedout"
                               ELSE "none",
                   !.failure = (stream[c].timeout = "watching"
                   /\ watch[c].outcome = "Failed"),
                   !.lost = stream[c].timeout = "watching" /\ watch[c].lost
                     /\ (watch[c].outcome = "Failed" \/ stream[c].after = "start")]
      OBVIOUS
    <2>3. IF stream[c].after = "start" \/ s.stdout \/ ~s.consumed
                 THEN Go(c, "observe") /\ stream' = [stream EXCEPT ![c] = s]
                 ELSE Closed(c, s)
      BY <2>2, Zenon DEF Joined
    <2>4. stream[c].timeout # "watching" => to = stream[c].timeout
      OBVIOUS
    <2>5. stream[c].timeout = "watching" => IF watch[c].outcome = "TimedOut"
          /\ stream[c].after # "start" THEN to = "timedout" ELSE to = "none"
      OBVIOUS
    <2> HIDE DEF to, f, l
    <2>6. QED
      BY <2>1, <2>3, <2>4, <2>5
  <1>5. PICK s \in StreamState :
               s = [stream[c] EXCEPT !.timeout = to, !.failure = f, !.lost = l]
    BY <1>3 DEF StreamState
  <1>6. /\ s.timeout = to /\ s.lost = l /\ s.stdout = stream[c].stdout
           /\ s.consumed = stream[c].consumed
        /\ s.after = stream[c].after /\ s.result = stream[c].result
    BY <1>3, <1>5 DEF StreamState
  <1>7. CASE Go(c, "observe") /\ stream' = [stream EXCEPT ![c] = s]
               /\ (stream[c].after = "start" \/ s.stdout \/ ~s.consumed)
    <2>1. Moves(c)
      <3>1. Writes(c)
        BY <1>1, <1>4, <1>6, <1>7 DEF Writes, Typed, Go, Return, SetStream
      <3>2. stream'[c] \in StreamState
        BY <1>1, <1>4, <1>6, <1>7, <1>3
           DEF Typed, StreamState, Errors, Go, Return, SetStream
      <3>3. owner'[c] \in Places /\ watch'[c] \in WatchState /\ pipe'[c] \in PipeState
        BY <1>1, <1>4, <1>6, <1>7, <1>3 DEF Typed, Places, Go, Return, SetStream
      <3>4. QED
        BY <3>1, <3>2, <3>3 DEF Moves
    <2>2. StreamOK(c)'
      BY <1>2, <1>3, <1>1, <1>4, <1>6, <1>7, SMTT(60)
         DEF Typed, StreamState, WatchState, PipeState, Places, Errors, StreamOK,
             NewStream, NewWatch, HoldsIdentity, Untouched, JustStarted, GivenUp, Over,
             Joins, Joining, Caller, TimeoutNoted, TimeoutTold, Pulling, PullState,
             HitsNoted, Judged, Falls, Go, Return, SetStream
    <2>3. QED
      BY <1>1, <1>2, <2>1, <2>2
  <1>8. CASE s.after # "start" /\ ~s.stdout /\ s.consumed /\ Closed(c, s)
    <2>1. PICK g \in {"timeout", "error", "ok"} :
             /\ stream' = [stream EXCEPT ![c] = [s EXCEPT !.stdout = FALSE, !.final = g]]
                /\ Go(c, "closed")
             /\ s.timeout = "timedout" /\ s.result # "timeout" => g = "timeout"
      BY <1>8 DEF Closed
    <2>2. PICK t \in StreamState : t = [s EXCEPT !.stdout = FALSE, !.final = g]
      BY DEF StreamState
    <2>3. t.timeout = to /\ t.lost = l /\ ~t.stdout /\ t.consumed /\ t.after = s.after
          /\ t.result = s.result /\ t.final = g
      BY <2>2, <1>6, <1>8 DEF StreamState
    <2>4. stream' = [stream EXCEPT ![c] = t]
      BY <2>2, <2>1
    <2>5. Moves(c)
      <3>1. Writes(c)
        BY <1>1, <1>4, <1>6, <1>8, <2>4, <2>3, <2>1 DEF Writes, Typed, Go, Return, SetStream
      <3>2. stream'[c] \in StreamState
        BY <1>1, <1>4, <1>6, <1>8, <2>4, <2>3, <2>1, <1>3
           DEF Typed, StreamState, Errors, Go, Return, SetStream
      <3>3. owner'[c] \in Places /\ watch'[c] \in WatchState /\ pipe'[c] \in PipeState
        BY <1>1, <1>4, <1>6, <1>8, <2>4, <2>3, <2>1, <1>3
           DEF Typed, Places, Go, Return, SetStream
      <3>4. QED
        BY <3>1, <3>2, <3>3 DEF Moves
    <2>6. StreamOK(c)'
      BY <1>2, <1>3, <1>1, <1>4, <1>6, <1>8, <2>4, <2>3, <2>1, SMTT(60)
         DEF Typed, StreamState, WatchState, PipeState, Places, Errors, StreamOK,
             NewStream, NewWatch, HoldsIdentity, Untouched, JustStarted, GivenUp, Over,
             Joins, Joining, Caller, TimeoutNoted, TimeoutTold, Pulling, PullState,
             HitsNoted, Judged, Falls, Go, Return, SetStream
    <2>7. QED
      BY <1>1, <1>2, <2>5, <2>6
  <1>9. QED
    BY <1>1, <1>4, <1>5, <1>6, <1>7, <1>8

-----------------------------------------------------------------------------
(* Starting and dropping a stream *)

\* A start registers the child with the authority and starts the monitor.
LEMMA StartStep ==
    ASSUME CSInv, Typed, NEW c \in Timed, StreamOK(c), NEW p \in Pid, Start(c, p)
    PROVE  Identity(c) /\ Moves(c) /\ StreamOK(c)'
  <1>1. /\ owner[c] = "idle" /\ LaunchTimed(c, p) /\ Identity(c)
           /\ UNCHANGED <<expired, killed>>
        /\ stream' = [stream EXCEPT ![c] = NewStream]
        /\ pipe' = [pipe EXCEPT ![c].writers = TRUE]
    BY DEF Start, Identity
  <1>2. c \in held' /\ (Hit(c)' <=> Hit(c))
    BY <1>1 DEF LaunchTimed, Hit
  <1>3. owner[c] \in Places /\ stream[c] \in StreamState /\ watch[c] \in WatchState
        /\ pipe[c] \in PipeState
    BY DEF Typed
  <1>4. NewStream \in StreamState /\ NewWatch \in WatchState
    BY DEF NewStream, NewWatch, StreamState, WatchState
  <1>5. PICK w \in WatchState, o \in {"starting", "observe"} :
           /\ watch' = [watch EXCEPT ![c] = w] /\ Go(c, o)
           /\ w.outcome = "none" /\ ~w.lost /\ w.at # "done"
              /\ (o = "observe" => w.at = "off")
    <2>1. CASE Go(c, "starting")
                 /\ watch' = [watch EXCEPT ![c] = [NewWatch EXCEPT !.at = "check"]]
      <3>1. PICK w \in WatchState : w = [NewWatch EXCEPT !.at = "check"]
        BY <1>4 DEF WatchState
      <3>2. w.outcome = "none" /\ ~w.lost /\ w.at = "check"
        BY <3>1 DEF NewWatch
      <3>3. QED
        BY <2>1, <3>1, <3>2
    <2>2. CASE Go(c, "observe") /\ UNCHANGED watch
      <3>1. watch[c] = NewWatch
        BY <1>1 DEF StreamOK, Untouched
      <3>2. watch' = [watch EXCEPT ![c] = NewWatch]
        BY <2>2, <3>1 DEF Typed
      <3>3. NewWatch.outcome = "none" /\ ~NewWatch.lost /\ NewWatch.at = "off"
        BY DEF NewWatch
      <3>4. QED
        BY <1>4, <2>2, <3>2, <3>3
    <2>3. QED
      BY <2>1, <2>2 DEF Start
  <1>6. Moves(c)
    <2>1. Writes(c)
      BY <1>1, <1>4, <1>5 DEF Writes, Typed, Go
    <2>2. pipe'[c] \in PipeState
      BY <1>1, <1>4, <1>5, <1>3 DEF Typed, PipeState, Go
    <2>3. owner'[c] \in Places /\ stream'[c] \in StreamState /\ watch'[c] \in WatchState
      BY <1>1, <1>4, <1>5, <1>3 DEF Typed, Places, Go
    <2>4. QED
      BY <2>1, <2>2, <2>3 DEF Moves
  <1>7. ~Hit(c)
    BY <1>1 DEF StreamOK, Untouched
  <1>8. StreamOK(c)'
    BY <1>1, <1>2, <1>3, <1>5, <1>7, SMTT(60)
       DEF Typed, StreamState, WatchState, PipeState, Places, Errors, StreamOK, NewStream,
           NewWatch, HoldsIdentity, Untouched, JustStarted, GivenUp, Over, Joins, Joining,
           Caller, TimeoutNoted, TimeoutTold, Pulling, PullState, HitsNoted, Judged, Go
  <1>9. QED
    BY <1>1, <1>6, <1>8

\* A start whose child has no identity.
LEMMA StartRefusedStep ==
    ASSUME CSInv, Typed, NEW c \in Timed, StreamOK(c), StartRefused(c)
    PROVE  Identity(c) /\ Moves(c) /\ StreamOK(c)'
  <1>1. /\ owner[c] = "idle" /\ Go(c, "refused")
           /\ UNCHANGED <<stream, watch, pipe, expired, killed, held, hits>>
        /\ Identity(c)
    BY DEF StartRefused, Identity, RefuseTimed
  <1>2. Hit(c)' <=> Hit(c)
    BY <1>1 DEF Hit
  <1>3. owner[c] \in Places /\ stream[c] \in StreamState /\ watch[c] \in WatchState
        /\ pipe[c] \in PipeState
    BY DEF Typed
  <1>4. Moves(c)
    <2>1. Writes(c)
      BY <1>1 DEF Writes, Typed, Go
    <2>2. owner'[c] \in Places /\ stream'[c] \in StreamState /\ watch'[c] \in WatchState
          /\ pipe'[c] \in PipeState
      BY <1>1, <1>3 DEF Typed, Places, Go
    <2>3. QED
      BY <2>1, <2>2 DEF Moves
  <1>5. StreamOK(c)'
    BY <1>1, <1>2, <1>3, SMTT(60)
       DEF Typed, StreamState, WatchState, PipeState, Places, Errors, StreamOK, NewStream,
           NewWatch, HoldsIdentity, Untouched, JustStarted, GivenUp, Over, Joins, Joining,
           Caller, TimeoutNoted, TimeoutTold, Pulling, PullState, HitsNoted, Judged, Go
  <1>6. QED
    BY <1>1, <1>4, <1>5

\* A dropped stream gives up its identity.
LEMMA DropStreamStep ==
    ASSUME CSInv, Typed, NEW c \in Timed, StreamOK(c), DropStream(c)
    PROVE  Identity(c) /\ Moves(c) /\ StreamOK(c)'
  <1>1. owner[c] \in {"closed", "failed"} /\ Identity(c)
        /\ UNCHANGED <<owner, stream, watch, pipe, expired, killed, hits>>
        /\ c \notin held'
    BY DEF DropStream, Identity, Release, streamVars
  <1>2. Hit(c)' <=> Hit(c)
    BY <1>1 DEF Hit
  <1>3. owner[c] \in Places /\ stream[c] \in StreamState /\ watch[c] \in WatchState
        /\ pipe[c] \in PipeState
    BY DEF Typed
  <1>4. Moves(c)
    <2>1. Writes(c)
      BY <1>1 DEF Writes, Typed
    <2>2. owner'[c] \in Places /\ stream'[c] \in StreamState /\ watch'[c] \in WatchState
          /\ pipe'[c] \in PipeState
      BY <1>1, <1>3 DEF Typed, Places
    <2>3. QED
      BY <2>1, <2>2 DEF Moves
  <1>5. StreamOK(c)'
    BY <1>1, <1>2, <1>3, SMTT(60)
       DEF Typed, StreamState, WatchState, PipeState, Places, Errors, StreamOK, NewStream,
           NewWatch, HoldsIdentity, Untouched, JustStarted, GivenUp, Over, Joins, Joining,
           Caller, TimeoutNoted, TimeoutTold, Pulling, PullState, HitsNoted, Judged
  <1>6. QED
    BY <1>1, <1>4, <1>5

-----------------------------------------------------------------------------
(* All steps *)

\* Every step of a stream.
LEMMA StreamStep ==
    ASSUME CSInv, Typed, NEW c \in Timed, StreamOK(c), Stream(c)
    PROVE  (Identity(c) \/ UNCHANGED csVars) /\ Moves(c) /\ StreamOK(c)'
  BY StartStep, StartRefusedStep, OpenedStep, CallNextStep, UpdateTimeoutWatchStep,
     ReadStep, PollStep, FinishStep, TimedOutStep, CheckCancellationStep,
     ReapTimeoutChildStep, CallCancelStep, RequestStopStep, JoinedStep,
     TerminateObserveStep, TerminateSignalStep, TerminateWaitStep, DropStreamStep,
     WatchQuietStep, WatchObserveStep, WatchKillStep, PipeStep, Zenon
     DEF Stream, NextStep, Cancel, Terminate, Watch

\* Another stream is left alone, by its own variables and by what the authority does
\* for c.
LEMMA OthersKept ==
    ASSUME CSInv, Typed, NEW c \in Timed, Identity(c) \/ UNCHANGED csVars, Moves(c)
    PROVE  Typed' /\ \A d \in Timed \ {c} : Kept(d)
  <1>1. ASSUME NEW d \in Timed \ {c}
        PROVE  (d \in held' <=> d \in held) /\ (Hit(d)' <=> Hit(d))
    BY
       DEF Identity, LaunchTimed, RefuseTimed, SignalOwned, SignalRefused, Observe,
           WaitOwned, Release, csVars, Hit
  <1>2. ASSUME NEW d \in Timed \ {c}
        PROVE  owner'[d] = owner[d] /\ stream'[d] = stream[d] /\ watch'[d] = watch[d]
               /\ pipe'[d] = pipe[d]
    BY DEF Moves, Writes, Typed
  <1>3. Typed'
    BY DEF Moves, Writes, Typed
  <1>4. QED
    BY <1>1, <1>2, <1>3 DEF Kept

\* So are all streams by what children, numbers and strangers do.
LEMMA EnvironmentKeeps ==
    ASSUME CSInv, Typed, Environment
    PROVE  Typed' /\ \A d \in Timed : Kept(d)
  <1>1. UNCHANGED <<owner, stream, watch, pipe, expired, killed>>
    BY DEF Environment, streamVars
  <1>2. held' = held
    BY
       DEF Environment, Rest, SetDisposition, WaitAny, Exit, WaitUntimed, SignalUntimed,
           LaunchUntimed, StrangerArrives, StrangerLeaves
  <1>3. hits' = hits \/ \E u \in Untimed : hits' = hits \cup ({u} \X Occupants(pidOf[u]))
    BY
       DEF Environment, Rest, SetDisposition, WaitAny, Exit, WaitUntimed, SignalUntimed,
           LaunchUntimed, StrangerArrives, StrangerLeaves
  <1>4. \A d \in Timed : Hit(d)' <=> Hit(d)
    BY <1>3, ChildAssumption DEF Hit
  <1>5. QED
    BY <1>1, <1>2, <1>4 DEF Typed, Kept

\* The step simulation: what a stream's step does to children, numbers and authority
\* is a step of ChildStatus or no step of it.
LEMMA StepRefines ==
    ASSUME CSInv, Typed, \A c \in Timed : StreamOK(c), [Next]_vars
    PROVE  [CSNext]_csVars
  <1>1. ASSUME NEW c \in Timed, Stream(c)
        PROVE  [CSNext]_csVars
    <2>1. StreamOK(c) /\ (Identity(c) \/ UNCHANGED csVars)
      BY <1>1, StreamStep
    <2>2. QED
      BY <2>1 DEF CSNext
  <1>2. CASE Environment
    BY <1>2 DEF Environment, CSNext
  <1>3. CASE UNCHANGED vars
    BY <1>3 DEF vars
  <1>4. QED
    BY <1>1, <1>2, <1>3 DEF Next

-----------------------------------------------------------------------------
(* The theorems *)

\* The inductive invariant: ChildStatus's, the types, and every stream's.
TSInv == CSInv /\ Typed /\ \A c \in Timed : StreamOK(c)

\* It holds initially.
LEMMA TSInit == Init => TSInv
  <1> SUFFICES ASSUME Init PROVE TSInv
    OBVIOUS
  <1>1. CSInv
    BY InitInv DEF Init
  <1>2. Typed
    BY DEF Init, Typed, NewStream, NewWatch, StreamState, WatchState, PipeState, Places
  <1>3. ASSUME NEW c \in Timed
        PROVE  StreamOK(c)
    <2>1. owner[c] = "idle" /\ stream[c] = NewStream /\ watch[c] = NewWatch /\ c \notin held
          /\ ~Hit(c)
      BY DEF Init, CSInit, Hit
    <2>2. QED
      BY <2>1
         DEF StreamOK, NewStream, NewWatch, HoldsIdentity, Untouched, JustStarted, GivenUp,
             Over, Joins, Joining, Caller, TimeoutNoted, TimeoutTold, Pulling, PullState,
             HitsNoted, Judged
  <1>4. QED
    BY <1>1, <1>2, <1>3 DEF TSInv

\* It is kept by every step: of the stream that takes it by its own lemma, of the
\* others because they are left alone.
LEMMA TSNext == TSInv /\ [Next]_vars => TSInv'
  <1> SUFFICES ASSUME TSInv, [Next]_vars PROVE TSInv'
    OBVIOUS
  <1> USE DEF TSInv
  <1>1. [CSNext]_csVars /\ CSInv'
    BY StepRefines, NextInv
  <1>2. \A d \in Timed : Falls(d)
    BY <1>1, FlagsOnlyFall DEF Falls
  <1>3. ASSUME NEW d \in Timed, Kept(d)
        PROVE  StreamOK(d)'
    BY <1>1, <1>2, <1>3, KeptOK
  <1>4. ASSUME NEW c \in Timed, Stream(c)
        PROVE  TSInv'
    <2>1. (Identity(c) \/ UNCHANGED csVars) /\ Moves(c) /\ StreamOK(c)'
      BY <1>4, StreamStep
    <2>2. Typed' /\ \A d \in Timed \ {c} : Kept(d)
      BY <2>1, OthersKept
    <2>3. \A d \in Timed : StreamOK(d)'
      BY <1>3, <2>1, <2>2
    <2>4. QED
      BY <1>1, <2>2, <2>3
  <1>5. CASE Environment
    BY <1>1, <1>3, <1>5, EnvironmentKeeps
  <1>6. CASE UNCHANGED vars
    <2>1. Typed' /\ \A d \in Timed : Kept(d)
      BY <1>6 DEF vars, streamVars, csVars, Typed, Kept, Hit
    <2>2. QED
      BY <1>1, <1>3, <2>1
  <1>7. QED
    BY <1>4, <1>5, <1>6 DEF Next

\* The invariant holds in every state of every number of streams and their
\* monitor threads (ProcessStream and ProcessTimeoutWatch, process.rs).
THEOREM TSInvariance == Spec => []TSInv
  BY TSInit, TSNext, PTL DEF Spec

\* Timed streams implement the abstract child identities: every call that a stream or
\* its monitor thread makes on the authority is one that ChildStatus allows, at a
\* place where it allows it.
THEOREM Refinement == Spec => CSSpec
  <1>1. Init => CSInit
    BY DEF Init
  <1>2. TSInv /\ [Next]_vars => [CSNext]_csVars
    BY StepRefines DEF TSInv
  <1>3. QED
    BY <1>1, <1>2, TSInvariance, PTL DEF Spec, CSSpec

\* No stream and no monitor sends a signal to a process or group that is not its own
\* child's (signal_group_checked asks the authority under its lock): the theorem of
\* ChildStatus, carried over by the refinement.
THEOREM StreamSignalSafety == Spec => []OnlyOwnChild
  BY Refinement, SignalSafety, PTL

\* The types of TimedStream's variables.
THEOREM TSTypeCorrect == Spec => []TypeOK
  <1>1. TSInv => TypeOK
    BY DEF TSInv, CSInv, Typed, TypeOK
  <1>2. QED
    BY <1>1, TSInvariance, PTL

\* A closed or failed stream has left no child behind that it did not reap or lose
\* (terminate_stream_child waits before it returns).
THEOREM NobodyLeft == Spec => []NoChildLeftBehind
  <1>1. TSInv => NoChildLeftBehind
    BY OwnedIsFlagged DEF TSInv, StreamOK, Over, GivenUp, NoChildLeftBehind, CSInv, CSTypeOK
  <1>2. QED
    BY <1>1, TSInvariance, PTL

\* A timeout the monitor recorded is in what the caller is told, or is kept to be
\* told (the join in request_stop, update_timeout_watch).
THEOREM TimeoutReported == Spec => []TimeoutIsReported
  <1>1. TSInv => TimeoutIsReported
    BY DEF TSInv, StreamOK, TimeoutNoted, TimeoutTold, Joining, Joins, TimeoutIsReported
  <1>2. QED
    BY <1>1, TSInvariance, PTL

\* finish judges an exit only of a child that ended by itself: no monitor's signal
\* and no cancellation preceded it.
THEOREM OwnExitJudged == Spec => []VerdictIsOnOwnExit
  <1>1. TSInv => VerdictIsOnOwnExit
    BY DEF TSInv, StreamOK, Judged, Hit, VerdictIsOnOwnExit
  <1>2. QED
    BY <1>1, TSInvariance, PTL

\* A stream that is over has joined its monitor thread.
THEOREM MonitorGone == Spec => []NoMonitorOutlivesStream
  <1>1. TSInv => NoMonitorOutlivesStream
    BY DEF TSInv, StreamOK, Joining, Joins, NoMonitorOutlivesStream
  <1>2. QED
    BY <1>1, TSInvariance, PTL
=============================================================================
