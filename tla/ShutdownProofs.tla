--------------------------- MODULE ShutdownProofs ---------------------------
(***************************************************************************)
(* Proofs about Shutdown, for every set of process groups, of signals, of   *)
(* hook arrangements and of commands.                                       *)
(*                                                                         *)
(* The state is split as the code splits it: where the evaluator stands and *)
(* what it knows of its signals (Places, Shapes, HookFacts), who answers    *)
(* for a child (Ownership), and what the list of groups that signals are    *)
(* forwarded to may hold (Listing).  What a step may send is one lemma,     *)
(* Recipients, from which the action properties follow.                     *)
(***************************************************************************)
EXTENDS Shutdown, TLAPS

-----------------------------------------------------------------------------
(* What the operators of the model do *)

\* A kill(2) to each group of a set changes only what their holders were sent.
LEMMA SentFacts ==
    ASSUME NEW table \in [Group -> Holder], NEW S, NEW what \in SUBSET Kind
    PROVE  /\ Sent(table, S, what) \in [Group -> Holder]
           /\ \A g \in Group :
                /\ Sent(table, S, what)[g].who = table[g].who
                /\ Sent(table, S, what)[g].alive = table[g].alive
                /\ table[g].got \subseteq Sent(table, S, what)[g].got
                /\ \A k \in Sent(table, S, what)[g].got \ table[g].got :
                      k \in what /\ g \in S
  <1>1. ASSUME NEW g \in Group
        PROVE  /\ Sent(table, S, what)[g] \in Holder
               /\ Sent(table, S, what)[g].who = table[g].who
               /\ Sent(table, S, what)[g].alive = table[g].alive
               /\ table[g].got \subseteq Sent(table, S, what)[g].got
               /\ \A k \in Sent(table, S, what)[g].got \ table[g].got :
                      k \in what /\ g \in S
    BY DEF Sent, Holder
  <1>2. Sent(table, S, what) \in [Group -> Holder]
    BY <1>1 DEF Sent
  <1>3. QED
    BY <1>1, <1>2

\* A turn of the cancellation of a wait signals the wait's own group, with
\* SIGKILL only once the grace is over.
LEMMA CancelledFacts ==
    ASSUME NEW table \in [Group -> Holder], NEW what \in SUBSET Kind
    PROVE  /\ Cancelled(table, what) \in [Group -> Holder]
           /\ \A g \in Group :
                /\ Cancelled(table, what)[g].who = table[g].who
                /\ Cancelled(table, what)[g].alive = table[g].alive
                /\ table[g].got \subseteq Cancelled(table, what)[g].got
                /\ \A k \in Cancelled(table, what)[g].got \ table[g].got :
                      /\ g = Wait.group
                      /\ k \in what \/ (k = "kill" /\ Wait.cancel = "overdue")
  <1> DEFINE first == Sent(table, {Wait.group}, what)
             second == Sent(table, {Wait.group}, {"kill"})
  <1>1. Wait.cancel = "overdue" => Cancelled(table, what) = second
    BY DEF Cancelled
  <1>2. Wait.cancel = "no" => Cancelled(table, what) = first
    BY DEF Cancelled
  <1>3. Wait.cancel \notin {"no", "overdue"} => Cancelled(table, what) = table
    BY DEF Cancelled
  <1>4. /\ first \in [Group -> Holder]
        /\ \A g \in Group :
                /\ first[g].who = table[g].who
                /\ first[g].alive = table[g].alive
                /\ table[g].got \subseteq first[g].got
                /\ \A k \in first[g].got \ table[g].got :
                      k \in what /\ g = Wait.group
    BY SentFacts
  <1>5. {"kill"} \in SUBSET Kind
    BY DEF Kind
  <1>6. /\ second \in [Group -> Holder]
        /\ \A g \in Group :
                /\ second[g].who = table[g].who
                /\ second[g].alive = table[g].alive
                /\ table[g].got \subseteq second[g].got
                /\ \A k \in second[g].got \ table[g].got :
                      k = "kill" /\ g = Wait.group
    BY <1>5, SentFacts
  <1> HIDE DEF first, second
  <1>7. QED
    BY <1>1, <1>2, <1>3, <1>4, <1>6

\* A turn of Cancellation::tick: SIGKILL once the grace is over, else the
\* first signal when it is forwarded.
LEMMA TickFacts ==
    ASSUME NEW c, NEW forward \in BOOLEAN
    PROVE  Tick(c, forward) = IF c = "overdue" THEN "killed"
             ELSE IF c = "no" /\ forward THEN "sent" ELSE c
  <1>1. c = "overdue" => ~(c = "no" /\ forward)
    OBVIOUS
  <1>2. QED
  BY <1>1, Zenon DEF Tick

\* Where a checkpoint's caller goes on: in its wait loop, in the cleanup after
\* the hook, out of the script, or at the statement.
LEMMA ReturnFacts ==
    ASSUME NEW c \in BOOLEAN
    PROVE  Return(c) = IF Wait # NoWait THEN "back"
             ELSE IF c /\ cleanup = "no"
             THEN (IF sig.running THEN "after" ELSE "unwind") ELSE "stmt"
  BY Zenon DEF Return, shutting_down

\* A turn of the loop that ticks keeps the wait's child and form.
LEMMA TickedFacts ==
    ASSUME TypeOK, NEW forward \in BOOLEAN, Ticked(forward)
    PROVE  /\ waits' \in [{"main", "hook"} -> Run]
           /\ \A c \in {"main", "hook"} :
                 /\ waits'[c].group = waits[c].group
                 /\ waits'[c].form = waits[c].form
                 /\ c # Ctx => waits'[c] = waits[c]
                 /\ waits'[c].cancel = "limit" => waits[c].cancel = "limit"
  <1>1. Ctx \in {"main", "hook"}
    BY DEF Ctx
  <1>2. waits \in [{"main", "hook"} -> Run]
    BY DEF TypeOK
  <1>3. waits' = [waits EXCEPT ![Ctx].cancel = Tick(waits[Ctx].cancel, forward)]
    BY DEF Ticked
  <1>4. PICK t : t = Tick(waits[Ctx].cancel, forward)
    OBVIOUS
  <1>5. t = IF waits[Ctx].cancel = "overdue" THEN "killed"
            ELSE IF waits[Ctx].cancel = "no" /\ forward THEN "sent" ELSE waits[Ctx].cancel
    BY <1>4, TickFacts
  <1>6. waits' = [waits EXCEPT ![Ctx].cancel = t]
    BY <1>3, <1>4
  <1>7. t \in {"no", "sent", "overdue", "killed", "limit"}
        /\ (t = "limit" => waits[Ctx].cancel = "limit")
    BY <1>1, <1>2, <1>5 DEF Run
  <1>8. QED
    BY <1>1, <1>2, <1>6, <1>7 DEF Run

\* What a step leaves of the table of holders: it is a table, and who holds a
\* number is as before.
SameHolders ==
    /\ os' \in [Group -> Holder]
    /\ \A g \in Group : os'[g].who = os[g].who

\* A step signals at most the holders of S, with members of what.
Sends(S, what) ==
    \A g \in Group :
      \A k \in os'[g].got \ os[g].got : k \in what /\ g \in S

\* forward_primary_to_active signals the forwardable groups with the primary.
LEMMA ForwardFacts ==
    ASSUME TypeOK, forward_primary_to_active
    PROVE  /\ SameHolders
           /\ Sends(Forwardable, {"primary"})
           /\ sig' = [sig EXCEPT !.forwarded = TRUE]
  <1>1. os \in [Group -> Holder]
    BY DEF TypeOK
  <1>2. {"primary"} \in SUBSET Kind
    BY DEF Kind
  <1>3. os' = os \/ os' = Sent(os, Forwardable, {"primary"})
    BY DEF forward_primary_to_active
  <1>4. CASE os' = os
    BY <1>1, <1>4 DEF SameHolders, Sends, forward_primary_to_active
  <1>5. CASE os' = Sent(os, Forwardable, {"primary"})
    BY <1>1, <1>2, <1>5, SentFacts DEF SameHolders, Sends, forward_primary_to_active
  <1>6. QED
    BY <1>3, <1>4, <1>5

\* One kill(2) to each group of a set.
LEMMA SendFacts ==
    ASSUME TypeOK, NEW S, NEW what \in SUBSET Kind, os' = Sent(os, S, what)
    PROVE  SameHolders /\ Sends(S, what)
  <1>1. os \in [Group -> Holder]
    BY DEF TypeOK
  <1>2. QED
    BY <1>1, SentFacts DEF SameHolders, Sends

\* A turn of a wait's cancellation.
LEMMA CancelFacts ==
    ASSUME TypeOK, NEW what \in SUBSET Kind, os' = Cancelled(os, what)
    PROVE  /\ SameHolders
           /\ Sends({Wait.group}, what \cup {"kill"})
           /\ Wait.cancel # "overdue" => Sends({Wait.group}, what)
  <1>1. os \in [Group -> Holder]
    BY DEF TypeOK
  <1>2. QED
    BY <1>1, CancelledFacts DEF SameHolders, Sends

\* A checkpoint's caller goes on at one of four places.
LEMMA ReturnTyped ==
    ASSUME NEW c \in BOOLEAN
    PROVE  Return(c) \in {"back", "after", "unwind", "stmt"}
  BY ReturnFacts

-----------------------------------------------------------------------------
(* The inductive invariant *)

\* A context that is in a foreground run.
Busy(c) == waits[c].group # NoGroup

\* Where the evaluator stands tells which run is in its wait loop: it is in a
\* wait exactly at the loop's places, the hook has a run only while its body
\* runs, and it cancels handles only outside the hook.
Places ==
    /\ pc \in {"poll", "decide", "reap", "back"} => Busy(Ctx)
    /\ pc \in {"check", "stmt", "rest"} => ~Busy(Ctx)
    /\ pc \in {"leave", "unwind", "done"} => ~Busy("main")
    /\ sig.running => pc \notin {"back", "after", "cancel", "leave", "unwind", "done"}
    /\ cleanup # "no" => pc \notin {"leave", "unwind", "done"}
    /\ sig.running /\ pc = "service" => ~Busy("hook")
    /\ ~sig.running => ~Busy("hook")

\* A context without a child is in no run, and a cancellation has a child.
Shapes ==
    /\ \A c \in {"main", "hook"} : ~Busy(c) => waits[c] = NoWait
    /\ (victim.group = NoGroup) <=> (victim.stage = "no")
    /\ victim.stage # "no" => pc \in {"cancel", "leave", "unwind"}

\* The hook is started by a signal that had it armed, and no longer runs when
\* the shutdown is complete, unless it interrupted a deferred action; a complete
\* shutdown has a signal, which every later checkpoint sees, so that only a
\* deferred action passes one.
HookFacts ==
    /\ sig.running => sig.started
    /\ sig.running /\ sig.complete => cleanup # "no"
    /\ sig.started => hook = "armed" /\ primary # NoSig
    /\ pc = "after" => sig.started
    /\ seen # NoSig => primary = seen
    /\ sig.complete \/ pc \in {"cancel", "service"} => primary # NoSig
    /\ sig.complete /\ cleanup = "no" => pc # "stmt"
    /\ pc = "service" /\ Busy(Ctx) => primary = HookSig /\ hook # "none"
    /\ pc = "cancel" /\ Busy("main") => hook # "none"

\* Who answers for a child: a foreground run, a handle, a stream, or the
\* cancellation of a handle that has left the table.
InWait(g) == \E c \in {"main", "hook"} : waits[c].group = g
InCancel(g) == victim.group = g /\ victim.stage # "swept"
Owned(g) == InWait(g) \/ g \in handles \/ g \in streams \/ InCancel(g)

\* Every child has an owner, every owned number is a child, and no two owners
\* share one, but for a stream that is being cancelled.
Ownership ==
    /\ \A g \in Group : os[g].who = "child" <=> Owned(g)
    /\ \A g \in Group : InWait(g) => g \notin handles \cup streams /\ ~InCancel(g)
    /\ \A g \in Group : g \in handles => g \notin streams /\ ~InCancel(g)
    /\ waits["main"].group = waits["hook"].group => waits["main"].group = NoGroup

\* A number in the list that no run or stream holds is stale; the hook's own
\* number is in the list as the hook's or is stale; and cancel_managed's last
\* SIGKILL goes to a number that is.
Listing ==
    /\ \A g \in Tracked : InWait(g) \/ g \in streams \/ g \in stale
    /\ \A g \in Forwardable : waits["hook"].group = g => g \in stale
    /\ victim.stage = "swept" => victim.group \in stale

\* The script's scope has been left with nothing in its tables.
Ended == pc = "done" => handles \cup streams = {}

\* The inductive invariant of the shutdown.
SInv ==
    /\ TypeOK
    /\ Places
    /\ Shapes
    /\ HookFacts
    /\ Ended
    /\ Ownership
    /\ Listing
    /\ HookWorkSpared

-----------------------------------------------------------------------------
(* Types *)

\* The initial state is typed.
LEMMA InitTyped == Init => TypeOK
  <1>1. /\ NoWait \in Run /\ NoVictim \in Victim /\ Free \in Holder
    BY DEF NoWait, NoVictim, Free, Run, Victim, Holder
  <1>2. SUFFICES ASSUME Init PROVE TypeOK
    OBVIOUS
  <1>3. waits \in [{"main", "hook"} -> Run] /\ os \in [Group -> Holder]
    BY <1>1, <1>2 DEF Init
  <1>4. sig \in SignalState /\ escalation \in BOOLEAN
    BY <1>2 DEF Init, SignalState
  <1>5. QED
    BY <1>1, <1>2, <1>3, <1>4 DEF Init, TypeOK

\* Every step keeps the types; where it writes to the run it is in, Places and
\* Shapes say that there is one.
LEMMA NextTyped ==
    ASSUME TypeOK, Places, Shapes, [Next]_vars
    PROVE  TypeOK'
  <1> USE DEF TypeOK
  <1>1. /\ Ctx \in {"main", "hook"}
        /\ Wait \in Run
        /\ os \in [Group -> Holder]
        /\ {"primary"} \in SUBSET Kind /\ {"term"} \in SUBSET Kind
        /\ {"kill"} \in SUBSET Kind /\ {} \in SUBSET Kind
    BY DEF Ctx, Wait, Run, Holder, Kind
  <1>2. ASSUME NEW s \in Sig, record_signal(s)
        PROVE  TypeOK'
    BY <1>2 DEF record_signal
  <1>3. ASSUME NEW g \in Group, ChildEnds(g)
        PROVE  TypeOK'
    <2>1. [Free EXCEPT !.who = "child"] \in Holder
      BY DEF Free, Holder
    <2>2. QED
      BY <1>3, <2>1 DEF ChildEnds
  <1>4. ASSUME NEW g \in Group, StrangerTakes(g) \/ StrangerLeaves(g)
        PROVE  TypeOK'
    <2>1. /\ Free \in Holder
          /\ Live("stranger") \in Holder
      BY DEF Free, Live, Holder
    <2>2. PICK h \in Holder : os' = [os EXCEPT ![g] = h]
      BY <1>4, <2>1 DEF StrangerTakes, StrangerLeaves
    <2>3. QED
      BY <1>4, <2>2 DEF StrangerTakes, StrangerLeaves
  <1>5. CASE BudgetSpent \/ DeadlinePasses
    <2>1. CASE BudgetSpent
      <3>1. sig' \in SignalState
        BY <2>1 DEF BudgetSpent, SignalState
      <3>2. QED
        BY <2>1, <3>1 DEF BudgetSpent
    <2>2. CASE DeadlinePasses
      BY <2>2 DEF DeadlinePasses
    <2>3. QED
      BY <1>5, <2>1, <2>2
  <1>6. CASE GraceElapses
    BY <1>1, <1>6 DEF GraceElapses, Run, Victim
  <1>7. CASE Look
    BY <1>7 DEF Look, HookLeft, SignalState
  <1>8. CASE ServiceUnhooked \/ ServiceHook
    BY <1>8 DEF ServiceUnhooked, ServiceHook, Unserved, SignalState
  <1>9. CASE ServiceEscalation
    <2>1. SameHolders
      BY <1>1, <1>9, SendFacts DEF ServiceEscalation, kill_active_process_groups
    <2>2. QED
      BY <1>9, <2>1, ReturnTyped DEF ServiceEscalation, HookLeft, SameHolders, SignalState
  <1>10. CASE ServiceInHook
    <2>1. os' \in [Group -> Holder] /\ sig' \in SignalState
      BY <1>1, <1>10, ForwardFacts DEF ServiceInHook, SameHolders, SignalState
    <2>2. QED
      BY <1>10, <2>1, ReturnTyped DEF ServiceInHook
  <1>11. CASE ServiceAgain
    BY <1>11, ReturnTyped DEF ServiceAgain, SignalState
  <1>12. CASE AfterHook
    <2>1. SameHolders
      BY <1>12, ForwardFacts DEF AfterHook
    <2>2. QED
      BY <1>12, <2>1 DEF AfterHook, SameHolders, SignalState, forward_primary_to_active
  <1>13. ASSUME NEW g \in Group, CancelHandle(g) \/ cleanup_scope(g)
         PROVE  TypeOK'
    <2>1. SameHolders
      BY <1>1, <1>13, SendFacts DEF CancelHandle, cleanup_scope
    <2>2. QED
      BY <1>13, <2>1 DEF CancelHandle, cleanup_scope, SameHolders, Victim
  <1>14. CASE CancelEnds
    <2>1. SameHolders
      BY <1>1, <1>14, SendFacts DEF CancelEnds, kill_active_process_groups, SameHolders
    <2>2. QED
      BY <1>14, <2>1, ReturnTyped DEF CancelEnds, SameHolders, SignalState
  <1>15. CASE VictimReaped
    <2>1. os' \in [Group -> Holder]
      BY <1>15 DEF VictimReaped, Free, Holder, Kind
    <2>2. active' \subseteq active
      BY <1>15 DEF VictimReaped, untrack_process_group
    <2>3. stale' \subseteq Group
      <3>1. victim.group \in Group
        BY <1>15 DEF VictimReaped, Shapes, Victim
      <3>2. QED
        BY <1>15, <3>1 DEF VictimReaped, untrack_process_group
    <2>4. victim' \in Victim
      BY <1>15 DEF VictimReaped, NoVictim, Victim
    <2>5. QED
      BY <1>15, <2>1, <2>2, <2>3, <2>4 DEF VictimReaped
  <1>16. CASE VictimKilled \/ VictimSwept
    <2>1. SameHolders
      BY <1>1, <1>16, SendFacts DEF VictimKilled, VictimSwept
    <2>2. QED
      BY <1>16, <2>1 DEF VictimKilled, VictimSwept, SameHolders, NoVictim, Victim
  <1>17. ASSUME NEW g \in Group, NEW form \in {"inherit", "capture"}, RunForeground(g, form)
         PROVE  TypeOK'
    BY <1>1, <1>17 DEF RunForeground, Started, Live, Holder, Kind, Run
  <1>18. ASSUME NEW g \in Group, Spawn(g) \/ OpenStream(g)
         PROVE  TypeOK'
    <2>1. os' \in [Group -> Holder]
      <3>1. Live("child") \in Holder
        BY DEF Live, Holder
      <3>2. PICK h \in Holder : os' = [os EXCEPT ![g] = h]
        BY <1>18, <3>1 DEF Spawn, OpenStream, Started
      <3>3. QED
        BY <3>2
    <2>2. active' \subseteq Group \X BOOLEAN
      BY <1>18 DEF Spawn, OpenStream, track_process_group, SignalState
    <2>3. QED
      BY <1>18, <2>1, <2>2 DEF Spawn, OpenStream
  <1>19. ASSUME NEW g \in Group, FinishStream(g)
         PROVE  TypeOK'
    BY <1>19 DEF FinishStream, Free, Holder, Kind, untrack_process_group
  <1>20. CASE \/ register_indexed_signal_hook \/ StatementEnds \/ BodyEnds \/ ScriptEnds
              \/ Defer \/ RunDeferred \/ ActionEnds \/ BlockLeft
    <2>1. CASE register_indexed_signal_hook \/ StatementEnds \/ ScriptEnds
      BY <2>1 DEF register_indexed_signal_hook, StatementEnds, ScriptEnds
    <2>2. CASE BodyEnds
      BY <2>2 DEF BodyEnds, HookLeft, SignalState
    <2>3. CASE Defer
      BY <2>3 DEF Defer
    <2>4. CASE RunDeferred
      BY <2>4 DEF RunDeferred, Leaving
    <2>5. CASE ActionEnds \/ BlockLeft
      BY <2>5 DEF ActionEnds, BlockLeft
    <2>6. QED
      BY <1>20, <2>1, <2>2, <2>3, <2>4, <2>5
  <1>21. CASE WaitEnds \/ TimeoutReaped
    <2>1. PICK finished \in BOOLEAN : EndWait(finished)
      BY <1>21 DEF WaitEnds, TimeoutReaped
    <2>2. os' \in [Group -> Holder]
      BY <1>1, <2>1 DEF EndWait, Free, Holder, Kind
    <2>3. waits' \in [{"main", "hook"} -> Run]
      BY <1>1, <2>1 DEF EndWait, Run, NoWait
    <2>4. active' \subseteq Group \X BOOLEAN /\ stale' \subseteq Group
      BY <1>1, <2>1 DEF EndWait, untrack_process_group, Tracked
    <2>5. QED
      BY <2>1, <2>2, <2>4, <2>3 DEF EndWait
  <1>22. CASE DecideService
    BY <1>22 DEF DecideService
  <1>23. CASE WaitTimesOut \/ CaptureOverflows \/ DecideEscalate
    <2>1. os' \in [Group -> Holder]
      <3>1. CASE WaitTimesOut \/ CaptureOverflows
        BY <1>1, <3>1, SentFacts DEF WaitTimesOut, CaptureOverflows
      <3>2. CASE DecideEscalate
        BY <1>1, <3>2, SentFacts DEF DecideEscalate, kill_active_process_groups
      <3>3. QED
        BY <1>23, <3>1, <3>2
    <2>2. waits' \in [{"main", "hook"} -> Run]
      <3>1. PICK c \in {"killed", "limit"} : waits' = [waits EXCEPT ![Ctx].cancel = c]
        BY <1>23 DEF WaitTimesOut, CaptureOverflows, DecideEscalate
      <3>2. QED
        BY <1>1, <3>1 DEF Run
    <2>3. QED
      BY <1>23, <2>1, <2>2 DEF WaitTimesOut, CaptureOverflows, DecideEscalate
  <1>24. CASE PolicyAsked
    <2>1. os' \in [Group -> Holder]
      <3>1. PICK what \in SUBSET Kind : os' = os \/ os' = Cancelled(os, what)
        BY <1>1, <1>24 DEF PolicyAsked
      <3>2. QED
        BY <3>1, CancelledFacts
    <2>2. waits' \in [{"main", "hook"} -> Run]
      <3>1. PICK f \in BOOLEAN : waits' = waits \/ Ticked(f)
        BY <1>24 DEF PolicyAsked
      <3>2. CASE waits' = waits
        BY <3>2
      <3>3. CASE Ticked(f)
        BY <3>3, TickedFacts
      <3>4. QED
        BY <3>1, <3>2, <3>3
    <2>3. active' \subseteq Group \X BOOLEAN
      <3>1. Wait.group \in Group
        BY <1>1, <1>24 DEF PolicyAsked, Places, Busy, Wait, Run
      <3>2. active' = active \cup {<<Wait.group, sig.running>>}
        BY <1>24 DEF PolicyAsked, track_process_group
      <3>3. QED
        BY <3>1, <3>2 DEF SignalState
    <2>4. QED
      BY <1>24, <2>1, <2>2, <2>3 DEF PolicyAsked
  <1>25. CASE DecideContinue
    <2>1. os' \in [Group -> Holder]
      BY <1>1, <1>25, CancelledFacts, SentFacts DEF DecideContinue
    <2>2. waits' \in [{"main", "hook"} -> Run]
      <3>1. PICK f \in BOOLEAN : Ticked(f)
        BY <1>25 DEF DecideContinue
      <3>2. QED
        BY <3>1, TickedFacts
    <2>3. QED
      BY <1>25, <2>1, <2>2 DEF DecideContinue, SignalState
  <1>26. CASE DecideForward \/ Back
    <2>1. os' \in [Group -> Holder]
      <3>1. PICK what \in SUBSET Kind : os' = Cancelled(os, what)
        BY <1>1, <1>26 DEF DecideForward, Back
      <3>2. QED
        BY <3>1, CancelledFacts
    <2>2. waits' \in [{"main", "hook"} -> Run]
      <3>1. PICK f \in BOOLEAN : Ticked(f)
        BY <1>26 DEF DecideForward, Back, SignalState
      <3>2. QED
        BY <3>1, TickedFacts
    <2>3. QED
      BY <1>26, <2>1, <2>2 DEF DecideForward, Back
  <1>27. CASE UNCHANGED vars
    BY <1>27 DEF vars
  <1>28. QED
    BY <1>2, <1>3, <1>4, <1>5, <1>6, <1>7, <1>8, <1>9, <1>10, <1>11, <1>12, <1>13, <1>14,
       <1>15, <1>16, <1>17, <1>18, <1>19, <1>20, <1>21, <1>22, <1>23, <1>24, <1>25, <1>26,
       <1>27
       DEF Next, Evaluator, Environment, Checkpoint, Cancelling, Statement, Waiting

-----------------------------------------------------------------------------
(* Where the evaluator stands *)

\* The runs of a step: the children stay, and nothing changes for a context that
\* is in no run.
SameRuns ==
    \A c \in {"main", "hook"} :
      waits'[c].group = waits[c].group /\ (Busy(c) \/ waits'[c] = waits[c])

\* A turn of the wait loop starts and ends no run.
LEMMA TickedRuns ==
    ASSUME TypeOK, Busy(Ctx), NEW forward \in BOOLEAN, Ticked(forward)
    PROVE  SameRuns
  BY TickedFacts DEF SameRuns

\* Nor do the other steps inside a wait loop, and the passing of the grace.
LEMMA RunsKept ==
    ASSUME TypeOK, Places, Shapes,
           \/ GraceElapses \/ WaitTimesOut \/ CaptureOverflows \/ PolicyAsked
           \/ DecideEscalate \/ DecideContinue \/ DecideForward \/ Back
    PROVE  SameRuns
  <1> USE DEF TypeOK
  <1>1. Ctx \in {"main", "hook"} /\ waits[Ctx] \in Run
    BY DEF Ctx
  <1>2. CASE GraceElapses
    BY <1>1, <1>2 DEF GraceElapses, SameRuns, Shapes, NoWait, Run, Wait
  <1>3. CASE WaitTimesOut \/ CaptureOverflows \/ DecideEscalate
    <2>1. PICK c : waits' = [waits EXCEPT ![Ctx].cancel = c]
      BY <1>3 DEF WaitTimesOut, CaptureOverflows, DecideEscalate
    <2>2. Busy(Ctx)
      BY <1>3 DEF WaitTimesOut, CaptureOverflows, DecideEscalate, Deciding, Places
    <2>3. QED
      BY <1>1, <2>1, <2>2 DEF SameRuns, Run
  <1>4. CASE PolicyAsked \/ DecideContinue \/ DecideForward \/ Back
    <2>1. Busy(Ctx)
      BY <1>4 DEF PolicyAsked, DecideContinue, DecideForward, Back, Deciding, Places
    <2>2. PICK f \in BOOLEAN : waits' = waits \/ Ticked(f)
      BY <1>4 DEF PolicyAsked, DecideContinue, DecideForward, Back, SignalState
    <2>3. CASE waits' = waits
      BY <2>3 DEF SameRuns
    <2>4. CASE Ticked(f)
      BY <2>1, <2>4, TickedRuns
    <2>5. QED
      BY <2>2, <2>3, <2>4
  <1>5. QED
    BY <1>2, <1>3, <1>4

\* Control: where the evaluator stands, and what is known of its signals.
LEMMA ControlKept ==
    ASSUME TypeOK, Places, Shapes, HookFacts, [Next]_vars
    PROVE  Places' /\ Shapes' /\ HookFacts'
  <1> USE DEF TypeOK, Places, HookFacts, Busy, Ctx
  <1>1. ASSUME NEW s \in Sig, record_signal(s)
        PROVE  Places' /\ Shapes' /\ HookFacts'
    BY <1>1, ShutdownAssumption DEF record_signal, Shapes
  <1>2. ASSUME NEW g \in Group, ChildEnds(g) \/ StrangerTakes(g) \/ StrangerLeaves(g)
        PROVE  Places' /\ Shapes' /\ HookFacts'
    BY <1>2 DEF ChildEnds, StrangerTakes, StrangerLeaves, Shapes
  <1>3. CASE BudgetSpent \/ DeadlinePasses
    BY <1>3 DEF BudgetSpent, DeadlinePasses, SignalState, Shapes
  <1>4. CASE GraceElapses
    <2>1. SameRuns
      BY <1>4, RunsKept
    <2>2. (victim'.group = NoGroup) <=> (victim'.stage = "no")
      BY <1>4 DEF GraceElapses, Shapes, Victim
    <2>3. victim'.stage # "no" => pc \in {"cancel", "leave", "unwind"}
      BY <1>4 DEF GraceElapses, Shapes, Victim
    <2>4. QED
      BY <1>4, <2>1, <2>2, <2>3 DEF GraceElapses, SameRuns, Shapes
  <1>5. CASE Look
    <2>1. CASE Overdue \/ (due = "swallowed" /\ cleanup = "no")
      <3>1. /\ pc' = IF sig.running THEN "after" ELSE "leave"
            /\ ~sig'.running
            /\ sig'.started = sig.started /\ sig'.complete = sig.complete
            /\ cleanup = "no" /\ ~Busy(Ctx) /\ victim.stage = "no"
        BY <1>5, <2>1 DEF Look, Overdue, HookLeft, SignalState, Shapes
      <3>2. UNCHANGED <<primary, hook, waits, seen, victim, cleanup>>
        BY <1>5 DEF Look
      <3>3. QED
        BY <3>1, <3>2 DEF Shapes
    <2>2. CASE ~(Overdue \/ (due = "swallowed" /\ cleanup = "no"))
      BY <1>5, <2>2 DEF Look, Shapes
    <2>3. QED
      BY <2>1, <2>2
  <1>6. CASE ServiceUnhooked \/ ServiceHook
    <2>1. CASE ServiceUnhooked
      BY <2>1 DEF ServiceUnhooked, Unserved, Shapes
    <2>2. CASE ServiceHook
      BY <2>2 DEF ServiceHook, Unserved, SignalState, Shapes
    <2>3. QED
      BY <1>6, <2>1, <2>2
  <1>7. CASE ServiceEscalation
    BY <1>7, ReturnFacts DEF ServiceEscalation, HookLeft, SignalState, Shapes, Wait, NoWait
  <1>8. CASE ServiceInHook
    BY <1>8, ReturnFacts, ForwardFacts DEF ServiceInHook, SignalState, Shapes, Wait, NoWait
  <1>9. CASE ServiceAgain
    BY <1>9, ReturnFacts DEF ServiceAgain, SignalState, Shapes, Wait, NoWait
  <1>10. CASE AfterHook
    BY <1>10 DEF AfterHook, SignalState, Shapes, forward_primary_to_active
  <1>11. ASSUME NEW g \in Group, CancelHandle(g) \/ cleanup_scope(g)
         PROVE  Places' /\ Shapes' /\ HookFacts'
    BY <1>11, ShutdownAssumption DEF CancelHandle, cleanup_scope, Leaving, Shapes
  <1>12. CASE CancelEnds
    BY <1>12, ReturnFacts DEF CancelEnds, SignalState, Shapes, Wait, NoWait, NoVictim
  <1>13. CASE VictimReaped \/ VictimKilled \/ VictimSwept
    BY <1>13 DEF VictimReaped, VictimKilled, VictimSwept, Shapes, NoVictim, Victim
  <1>14. ASSUME NEW g \in Group, NEW form \in {"inherit", "capture"}, RunForeground(g, form)
         PROVE  Places' /\ Shapes' /\ HookFacts'
    BY <1>14, ShutdownAssumption DEF RunForeground, Body, Shapes
  <1>15. ASSUME NEW g \in Group, Spawn(g) \/ OpenStream(g) \/ FinishStream(g)
         PROVE  Places' /\ Shapes' /\ HookFacts'
    BY <1>15 DEF Spawn, OpenStream, FinishStream, Body, Shapes
  <1>16. CASE \/ register_indexed_signal_hook \/ StatementEnds \/ BodyEnds \/ ScriptEnds
              \/ Defer \/ RunDeferred \/ ActionEnds \/ BlockLeft
    <2>1. CASE register_indexed_signal_hook
      BY <2>1 DEF register_indexed_signal_hook, Shapes
    <2>2. CASE BodyEnds
      BY <2>2 DEF BodyEnds, Body, HookLeft, SignalState, Shapes
    <2>3. CASE ScriptEnds
      BY <2>3 DEF ScriptEnds, Shapes, NoVictim
    <2>4. CASE StatementEnds \/ Defer \/ BlockLeft
      BY <2>4 DEF StatementEnds, Defer, BlockLeft, Shapes, NoVictim
    <2>5. CASE RunDeferred
      BY <2>5 DEF RunDeferred, Leaving, Shapes, NoVictim
    <2>6. CASE ActionEnds
      BY <2>6 DEF ActionEnds, Body, Shapes
    <2>7. QED
      BY <1>16, <2>1, <2>2, <2>3, <2>4, <2>5, <2>6
  <1>17. CASE WaitEnds \/ TimeoutReaped
    <2>1. PICK finished \in BOOLEAN : EndWait(finished)
      BY <1>17 DEF WaitEnds, TimeoutReaped
    <2>2. QED
      BY <1>17, <2>1 DEF WaitEnds, TimeoutReaped, EndWait, Shapes, NoWait
  <1>18. CASE DecideService
    BY <1>18, ShutdownAssumption DEF DecideService, Deciding, Shapes
  <1>19. CASE WaitTimesOut \/ CaptureOverflows \/ DecideEscalate
    <2>1. SameRuns
      BY <1>19, RunsKept
    <2>2. QED
      BY <1>19, <2>1 DEF WaitTimesOut, CaptureOverflows, DecideEscalate, Deciding, SameRuns, Shapes
  <1>20. CASE PolicyAsked
    <2>1. SameRuns
      BY <1>20, RunsKept
    <2>2. QED
      BY <1>20, <2>1 DEF PolicyAsked, SameRuns, Shapes
  <1>21. CASE DecideContinue
    <2>1. SameRuns
      BY <1>21, RunsKept
    <2>2. QED
      BY <1>21, <2>1 DEF DecideContinue, Deciding, SameRuns, Shapes, SignalState
  <1>22. CASE DecideForward \/ Back
    <2>1. SameRuns
      BY <1>22, RunsKept
    <2>2. CASE DecideForward
      BY <2>1, <2>2, ShutdownAssumption DEF DecideForward, Deciding, SameRuns, Shapes
    <2>3. CASE Back
      BY <2>1, <2>3 DEF Back, SameRuns, Shapes
    <2>4. QED
      BY <1>22, <2>2, <2>3
  <1>23. CASE UNCHANGED vars
    BY <1>23 DEF vars, Shapes
  <1>24. QED
    BY <1>1, <1>2, <1>3, <1>4, <1>5, <1>6, <1>7, <1>8, <1>9, <1>10, <1>11, <1>12, <1>13,
       <1>14, <1>15, <1>16, <1>17, <1>18, <1>19, <1>20, <1>21, <1>22, <1>23
       DEF Next, Evaluator, Environment, Checkpoint, Cancelling, Statement, Waiting

-----------------------------------------------------------------------------
(* Who answers for a child *)

\* A step that starts, reaps and hands over no child.
Quiet ==
    /\ UNCHANGED <<handles, streams, stale>>
    /\ \A c \in {"main", "hook"} : waits'[c].group = waits[c].group
    /\ victim'.group = victim.group
    /\ (victim'.stage = "swept") <=> (victim.stage = "swept")
    /\ \A g \in Group : (os'[g].who = "child") <=> (os[g].who = "child")

\* A step that starts, reaps and hands over no child keeps the owners.
LEMMA QuietOwnership ==
    ASSUME Quiet, Ownership
    PROVE  Ownership'
  BY DEF Quiet, Ownership, InWait, InCancel, Owned

\* A step that leaves the list as well keeps what the list holds.
LEMMA QuietListing ==
    ASSUME Quiet, Listing, UNCHANGED active
    PROVE  Listing'
  BY DEF Quiet, Listing, InWait, Tracked, Forwardable

\* The steps that start, reap and hand over no child.
QuietStep ==
    \/ \E s \in Sig : record_signal(s)
    \/ \E g \in Group : ChildEnds(g) \/ StrangerTakes(g) \/ StrangerLeaves(g)
    \/ BudgetSpent \/ DeadlinePasses \/ GraceElapses
    \/ Checkpoint \/ CancelEnds \/ VictimKilled
    \/ register_indexed_signal_hook \/ StatementEnds \/ BodyEnds \/ ScriptEnds
    \/ Defer \/ RunDeferred \/ ActionEnds \/ BlockLeft
    \/ WaitTimesOut \/ CaptureOverflows \/ PolicyAsked \/ DecideEscalate
    \/ DecideContinue \/ DecideForward \/ DecideService \/ Back
    \/ UNCHANGED vars

\* They do leave every child with its owner: the signals they send change what a
\* holder was sent, never who holds the number.
LEMMA QuietSteps ==
    ASSUME TypeOK, Places, Shapes, QuietStep
    PROVE  Quiet
  <1> USE DEF TypeOK
  <1>1. /\ os \in [Group -> Holder]
        /\ {"primary"} \in SUBSET Kind /\ {"term"} \in SUBSET Kind
        /\ {"kill"} \in SUBSET Kind /\ {} \in SUBSET Kind
    BY DEF Kind
  <1>2. ASSUME NEW s \in Sig, record_signal(s)
        PROVE  Quiet
    BY <1>2 DEF record_signal, Quiet
  <1>3. ASSUME NEW g \in Group, ChildEnds(g) \/ StrangerTakes(g) \/ StrangerLeaves(g)
        PROVE  Quiet
    BY <1>3 DEF ChildEnds, StrangerTakes, StrangerLeaves, Free, Live, Holder, Quiet
  <1>4. CASE BudgetSpent \/ DeadlinePasses
    BY <1>4 DEF BudgetSpent, DeadlinePasses, Quiet
  <1>5. CASE GraceElapses
    <2>1. SameRuns
      BY <1>5, RunsKept
    <2>2. QED
      BY <1>5, <2>1 DEF GraceElapses, SameRuns, Quiet, Victim
  <1>6. CASE Look \/ ServiceAgain \/ ServiceUnhooked \/ ServiceHook
    BY <1>6 DEF Look, ServiceAgain, ServiceUnhooked, ServiceHook, Quiet
  <1>7. CASE ServiceEscalation
    <2>1. SameHolders
      BY <1>1, <1>7, SendFacts DEF ServiceEscalation, kill_active_process_groups
    <2>2. QED
      BY <1>7, <2>1 DEF ServiceEscalation, SameHolders, Quiet
  <1>8. CASE ServiceInHook
    <2>1. SameHolders
      BY <1>1, <1>8, ForwardFacts DEF ServiceInHook, SameHolders
    <2>2. QED
      BY <1>8, <2>1 DEF ServiceInHook, SameHolders, Quiet
  <1>9. CASE AfterHook
    <2>1. SameHolders
      BY <1>9, ForwardFacts DEF AfterHook
    <2>2. QED
      BY <1>9, <2>1 DEF AfterHook, SameHolders, Quiet
  <1>10. CASE CancelEnds
    <2>1. SameHolders
      BY <1>1, <1>10, SendFacts DEF CancelEnds, kill_active_process_groups, SameHolders
    <2>2. QED
      BY <1>10, <2>1 DEF CancelEnds, SameHolders, Quiet
  <1>11. CASE VictimKilled
    <2>1. SameHolders
      BY <1>1, <1>11, SendFacts DEF VictimKilled
    <2>2. QED
      BY <1>11, <2>1 DEF VictimKilled, SameHolders, Quiet, Victim
  <1>12. CASE \/ register_indexed_signal_hook \/ StatementEnds \/ BodyEnds \/ ScriptEnds
              \/ Defer \/ RunDeferred \/ ActionEnds \/ BlockLeft
    BY <1>12
       DEF register_indexed_signal_hook, StatementEnds, BodyEnds, ScriptEnds, Defer,
           RunDeferred, ActionEnds, BlockLeft, Quiet
  <1>13. CASE DecideService
    BY <1>13 DEF DecideService, Quiet
  <1>14. CASE WaitTimesOut \/ CaptureOverflows \/ PolicyAsked \/ DecideEscalate \/ DecideContinue
              \/ DecideForward \/ Back
    <2>1. SameRuns
      BY <1>14, RunsKept
    <2>2. SameHolders
      <3>1. CASE WaitTimesOut \/ CaptureOverflows
        BY <1>1, <3>1, SendFacts DEF WaitTimesOut, CaptureOverflows
      <3>2. CASE DecideEscalate
        BY <1>1, <3>2, SentFacts DEF DecideEscalate, kill_active_process_groups, SameHolders
      <3>3. CASE DecideContinue
        BY <1>1, <3>3, SentFacts, CancelledFacts DEF DecideContinue, SameHolders
      <3>4. CASE PolicyAsked \/ DecideForward \/ Back
        <4>1. PICK what \in SUBSET Kind : os' = os \/ os' = Cancelled(os, what)
          BY <1>1, <3>4 DEF PolicyAsked, DecideForward, Back
        <4>2. QED
          BY <1>1, <4>1, CancelledFacts DEF SameHolders
      <3>5. QED
        BY <1>14, <3>1, <3>2, <3>3, <3>4
    <2>3. UNCHANGED <<handles, streams, stale, victim>>
      BY <1>14
         DEF WaitTimesOut, CaptureOverflows, PolicyAsked, DecideEscalate, DecideContinue,
             DecideForward, Back
    <2>4. QED
      BY <2>1, <2>2, <2>3 DEF SameRuns, SameHolders, Quiet
  <1>15. CASE UNCHANGED vars
    BY <1>15 DEF vars, Quiet
  <1>16. QED
    BY <1>2, <1>3, <1>4, <1>5, <1>6, <1>7, <1>8, <1>9, <1>10, <1>11, <1>12, <1>13, <1>14,
       <1>15
       DEF QuietStep, Checkpoint

\* Every step keeps one owner for each child: the others hand a child from one
\* owner to the next (RunForeground, Spawn, OpenStream, CancelHandle, cleanup_scope)
\* or reap it together with its owner's record (WaitEnds, FinishStream,
\* VictimReaped).
LEMMA OwnershipKept ==
    ASSUME TypeOK, Places, Shapes, Ownership, [Next]_vars
    PROVE  Ownership'
  <1> USE DEF TypeOK
  <1>1. /\ {"primary"} \in SUBSET Kind /\ {"term"} \in SUBSET Kind
           /\ {"kill"} \in SUBSET Kind
        /\ Ctx \in {"main", "hook"} /\ Wait \in Run
    BY DEF Kind, Ctx, Wait
  <1>2. CASE QuietStep
    BY <1>2, QuietSteps, QuietOwnership
  <1>3. ASSUME NEW g \in Group, CancelHandle(g)
        PROVE  Ownership'
    <2>1. SameHolders
      BY <1>1, <1>3, SendFacts DEF CancelHandle
    <2>2. \A h \in Group : ~InCancel(h)
      BY <1>3, ShutdownAssumption DEF CancelHandle, InCancel, NoVictim
    <2>3. \A h \in Group : InCancel(h)' <=> h = g
      BY <1>3 DEF CancelHandle, InCancel
    <2>4. \A h \in Group : InWait(h)' <=> InWait(h)
      BY <1>3 DEF CancelHandle, InWait
    <2>5. UNCHANGED <<waits, streams>> /\ handles' = handles \ {g}
          /\ g \in handles \cup streams
      BY <1>3 DEF CancelHandle
    <2>6. QED
      BY <2>1, <2>2, <2>3, <2>4, <2>5 DEF SameHolders, Ownership, Owned
  <1>4. ASSUME NEW g \in Group, cleanup_scope(g)
        PROVE  Ownership'
    <2>1. SameHolders
      BY <1>1, <1>4, SendFacts DEF cleanup_scope
    <2>2. \A h \in Group : ~InCancel(h)
      BY <1>4, ShutdownAssumption DEF cleanup_scope, Leaving, InCancel, NoVictim
    <2>3. \A h \in Group : InCancel(h)' <=> h = g
      BY <1>4 DEF cleanup_scope, InCancel
    <2>4. \A h \in Group : InWait(h)' <=> InWait(h)
      BY <1>4 DEF cleanup_scope, InWait
    <2>5. UNCHANGED <<waits, streams>> /\ handles' = handles \ {g}
          /\ g \in handles \cup streams
      BY <1>4 DEF cleanup_scope
    <2>6. QED
      BY <2>1, <2>2, <2>3, <2>4, <2>5 DEF SameHolders, Ownership, Owned
  <1>5. CASE VictimReaped
    BY <1>5, ShutdownAssumption
       DEF VictimReaped, Ownership, Owned, InWait, InCancel, NoVictim, Shapes, Victim,
           Free, Holder
  <1>6. CASE VictimSwept
    <2>1. SameHolders
      BY <1>1, <1>6, SendFacts DEF VictimSwept
    <2>2. \A h \in Group : ~InCancel(h) /\ ~InCancel(h)'
      BY <1>6, ShutdownAssumption DEF VictimSwept, InCancel, NoVictim
    <2>3. UNCHANGED <<waits, handles, streams>>
      BY <1>6 DEF VictimSwept
    <2>4. QED
      BY <2>1, <2>2, <2>3 DEF SameHolders, Ownership, Owned, InWait
  <1>7. ASSUME NEW g \in Group, NEW form \in {"inherit", "capture"}, RunForeground(g, form)
        PROVE  Ownership'
    BY <1>1, <1>7, ShutdownAssumption
       DEF RunForeground, Body, Started, Live, Ownership, Owned, InWait, InCancel, Places, Busy,
           Holder, Run
  <1>8. ASSUME NEW g \in Group, Spawn(g)
        PROVE  Ownership'
    BY <1>8 DEF Spawn, Started, Live, Ownership, Owned, InWait, InCancel, Holder
  <1>9. ASSUME NEW g \in Group, OpenStream(g)
        PROVE  Ownership'
    BY <1>9 DEF OpenStream, Started, Live, Ownership, Owned, InWait, InCancel, Holder
  <1>10. ASSUME NEW g \in Group, FinishStream(g)
        PROVE  Ownership'
    <2>1. \A h \in Group : ~InCancel(h) /\ ~InCancel(h)'
      BY <1>10, ShutdownAssumption DEF FinishStream, Body, InCancel, Shapes
    <2>2. UNCHANGED <<waits, handles>> /\ streams' = streams \ {g} /\ g \in streams
      BY <1>10 DEF FinishStream
    <2>3. \A h \in Group : os'[h].who = IF h = g THEN "free" ELSE os[h].who
      BY <1>10 DEF FinishStream, Free
    <2>4. QED
      BY <2>1, <2>2, <2>3 DEF Ownership, Owned, InWait
  <1>11. CASE WaitEnds \/ TimeoutReaped
    <2>1. PICK finished \in BOOLEAN : EndWait(finished)
      BY <1>11 DEF WaitEnds, TimeoutReaped
    <2>2. Busy(Ctx) /\ victim.stage = "no"
      BY <1>11 DEF WaitEnds, TimeoutReaped, Places, Shapes
    <2>3. QED
      BY <1>1, <2>1, <2>2, ShutdownAssumption
         DEF EndWait, Free, NoWait, Ownership, Owned, InWait, InCancel, Busy, Wait, Holder,
             Run, Shapes
  <1>12. QED
    BY <1>2, <1>3, <1>4, <1>5, <1>6, <1>7, <1>8, <1>9, <1>10, <1>11
       DEF Next, Evaluator, Environment, Cancelling, Statement, Waiting, QuietStep

-----------------------------------------------------------------------------
(* The list of groups *)

\* The numbers in the list are groups, the forwardable ones among them.
LEMMA TrackedGroups ==
    ASSUME TypeOK
    PROVE  Forwardable \subseteq Tracked /\ Tracked \subseteq Group
  BY DEF TypeOK, Forwardable, Tracked

\* track_process_group adds a number, to the forwardable ones unless the hook
\* runs.
LEMMA TrackFacts ==
    ASSUME NEW g, track_process_group(g), sig.running \in BOOLEAN
    PROVE  /\ Tracked' = Tracked \cup {g}
           /\ Forwardable' = Forwardable \cup (IF sig.running THEN {} ELSE {g})
  <1>1. PICK e : e[1] = g /\ e[2] = sig.running /\ active' = active \cup {e}
    BY DEF track_process_group
  <1>2. QED
    BY <1>1 DEF Tracked, Forwardable

\* untrack_process_group takes every entry of a number out.
LEMMA UntrackFacts ==
    ASSUME NEW g, untrack_process_group(g)
    PROVE  /\ Tracked' = Tracked \ {g}
           /\ Forwardable' = Forwardable \ {g}
           /\ stale' = stale \ {g}
  BY DEF Tracked, Forwardable, untrack_process_group

\* The list and the stale numbers.
LEMMA ListingKept ==
    ASSUME TypeOK, Places, Shapes, Ownership, Listing, [Next]_vars
    PROVE  Listing'
  <1> USE DEF TypeOK
  <1>1. Ctx \in {"main", "hook"} /\ Wait \in Run
    BY DEF Ctx, Wait
  <1>2. CASE PolicyAsked
    <2>1. Quiet
      BY <1>2, QuietSteps DEF QuietStep
    <2>2. track_process_group(Wait.group) /\ sig.running \in BOOLEAN
      BY <1>2 DEF PolicyAsked, SignalState
    <2>3. Tracked' = Tracked \cup {Wait.group}
      BY <2>2, TrackFacts
    <2>4. Forwardable' = Forwardable \cup (IF sig.running THEN {} ELSE {Wait.group})
      BY <2>2, TrackFacts
    <2>5. ~sig.running => ~Busy("hook") /\ Busy("main") /\ Wait = waits["main"]
      BY <1>2 DEF PolicyAsked, Places, Wait, Ctx
    <2>6. \A g \in Tracked' : InWait(g)' \/ g \in streams' \/ g \in stale'
      BY <1>1, <2>1, <2>3 DEF Quiet, Listing, InWait, Wait
    <2>7. \A g \in Forwardable' : waits'["hook"].group = g => g \in stale'
      BY <2>1, <2>4, <2>5 DEF Quiet, Listing, Busy
    <2>8. victim'.stage = "swept" => victim'.group \in stale'
      BY <2>1 DEF Quiet, Listing
    <2>9. QED
      BY <2>6, <2>7, <2>8 DEF Listing
  <1>3. CASE QuietStep /\ ~PolicyAsked
    <2>1. UNCHANGED active
      BY <1>3
         DEF QuietStep, record_signal, ChildEnds, StrangerTakes, StrangerLeaves,
             BudgetSpent, DeadlinePasses, GraceElapses, Checkpoint, Look,
             ServiceEscalation, ServiceInHook, ServiceAgain, ServiceUnhooked, ServiceHook,
             AfterHook, CancelEnds, VictimKilled, register_indexed_signal_hook, StatementEnds,
             BodyEnds, ScriptEnds, Defer, RunDeferred, ActionEnds, BlockLeft, WaitTimesOut, CaptureOverflows, DecideEscalate, DecideContinue,
             DecideForward, DecideService, Back, vars
    <2>2. QED
      BY <1>3, <2>1, QuietSteps, QuietListing
  <1>4. ASSUME NEW g \in Group, CancelHandle(g) \/ cleanup_scope(g)
        PROVE  Listing'
    BY <1>4 DEF CancelHandle, cleanup_scope, Listing, InWait, Tracked, Forwardable
  <1>5. CASE VictimReaped
    <2>1. UNCHANGED waits /\ ~Busy("hook")
      BY <1>5 DEF VictimReaped, Places, Shapes
    <2>2. Forwardable \subseteq Tracked /\ Tracked \subseteq Group
      BY TrackedGroups
    <2>3. CASE victim.group \in streams
      <3>1. /\ Tracked' = Tracked \ {victim.group}
            /\ Forwardable' = Forwardable \ {victim.group}
            /\ stale' = stale \ {victim.group}
        BY <1>5, <2>3, UntrackFacts DEF VictimReaped
      <3>2. streams' = streams \ {victim.group} /\ victim'.stage = "no"
        BY <1>5, <2>3 DEF VictimReaped, NoVictim
      <3>3. QED
        BY <2>1, <2>2, <3>1, <3>2, ShutdownAssumption DEF Listing, InWait, Busy
    <2>4. CASE victim.group \notin streams
      <3>1. Tracked' = Tracked /\ Forwardable' = Forwardable /\ streams' = streams
        BY <1>5, <2>4 DEF VictimReaped, Tracked, Forwardable
      <3>2. stale \subseteq stale' /\ (victim'.stage = "swept" => victim'.group \in stale')
        BY <1>5, <2>4 DEF VictimReaped, NoVictim, Victim
      <3>3. QED
        BY <2>1, <2>2, <3>1, <3>2, ShutdownAssumption DEF Listing, InWait, Busy
    <2>5. QED
      BY <2>3, <2>4
  <1>6. CASE VictimSwept
    <2>1. UNCHANGED <<waits, active, streams>> /\ ~Busy("hook") /\ victim' = NoVictim
      BY <1>6 DEF VictimSwept, Places, Shapes
    <2>2. \A g \in Tracked : g \in stale => g \in stale'
      BY <1>6 DEF VictimSwept
    <2>3. QED
      BY <2>1, <2>2, ShutdownAssumption
         DEF NoVictim, Listing, InWait, Tracked, Forwardable, Busy
  <1>7. ASSUME NEW g \in Group, NEW form \in {"inherit", "capture"}, RunForeground(g, form)
        PROVE  Listing'
    <2>1. ~Owned(g) /\ g \notin streams
      BY <1>7 DEF RunForeground, Ownership, Owned
    <2>2. g \in Tracked => g \in stale
      BY <2>1 DEF Listing, Owned
    <2>3. \A h \in Tracked : InWait(h) => InWait(h)'
      BY <1>1, <1>7, ShutdownAssumption DEF RunForeground, Body, InWait, Places, Busy, Tracked
    <2>4. Forwardable \subseteq Tracked
      BY DEF Forwardable, Tracked
    <2>5. QED
      BY <1>1, <1>7, <2>2, <2>3, <2>4 DEF RunForeground, Listing, Tracked, Forwardable
  <1>8. ASSUME NEW g \in Group, Spawn(g)
        PROVE  Listing'
    BY <1>8 DEF Spawn, Listing, InWait, Tracked, Forwardable
  <1>9. ASSUME NEW g \in Group, OpenStream(g)
        PROVE  Listing'
    <2>1. track_process_group(g) /\ sig.running \in BOOLEAN
      BY <1>9 DEF OpenStream, SignalState
    <2>2. Tracked' = Tracked \cup {g} /\ Forwardable' \subseteq Forwardable \cup {g}
      BY <2>1, TrackFacts
    <2>3. ~Busy("hook") /\ UNCHANGED <<waits, stale, victim>> /\ streams' = streams \cup {g}
      BY <1>9 DEF OpenStream, Places
    <2>4. QED
      BY <2>2, <2>3, ShutdownAssumption DEF Listing, InWait, Busy
  <1>10. ASSUME NEW g \in Group, FinishStream(g)
        PROVE  Listing'
    BY <1>10
       DEF FinishStream, Body, untrack_process_group, Listing, InWait, Tracked,
           Forwardable, Shapes, Places, Busy
  <1>11. CASE WaitEnds \/ TimeoutReaped
    <2>1. PICK finished \in BOOLEAN : EndWait(finished)
      BY <1>11 DEF WaitEnds, TimeoutReaped
    <2>2. victim.stage = "no" /\ UNCHANGED <<streams, victim>>
      BY <1>11, <2>1 DEF WaitEnds, TimeoutReaped, EndWait, Shapes
    <2>3. \A h : InWait(h) => InWait(h)' \/ h = Wait.group
      BY <1>1, <2>1 DEF EndWait, InWait, Wait
    <2>4. /\ waits'["hook"].group \in {waits["hook"].group, NoGroup}
          /\ Forwardable \subseteq Tracked /\ Tracked \subseteq Group
      BY <1>1, <2>1, TrackedGroups DEF EndWait, NoWait
    <2>5. CASE finished
      <3>1. /\ Tracked' = Tracked \ {Wait.group}
            /\ Forwardable' = Forwardable \ {Wait.group}
            /\ stale' = stale \ {Wait.group}
        BY <2>1, <2>5, UntrackFacts DEF EndWait
      <3>2. QED
        BY <2>2, <2>3, <2>4, <3>1, ShutdownAssumption DEF Listing
    <2>6. CASE ~finished
      <3>1. /\ Tracked' = Tracked /\ Forwardable' = Forwardable
            /\ stale \subseteq stale' /\ (Wait.group \in Tracked => Wait.group \in stale')
        BY <2>1, <2>6 DEF EndWait, Tracked, Forwardable
      <3>2. QED
        BY <2>2, <2>3, <2>4, <3>1, ShutdownAssumption DEF Listing
    <2>7. QED
      BY <2>5, <2>6
  <1>12. QED
    BY <1>2, <1>3, <1>4, <1>5, <1>6, <1>7, <1>8, <1>9, <1>10, <1>11
       DEF Next, Evaluator, Environment, Cancelling, Statement, Waiting, QuietStep

-----------------------------------------------------------------------------
(* Who may be signalled *)

\* Why the holder of g may be sent k: it is forwarded the primary signal, by
\* the script or by a hook whose budget is spent; it is a handle or a stream that
\* is cancelled; it is in the list when everything is killed; or it is the child
\* of the run in whose loop the evaluator stands, to which the hook's own run does
\* not pass the primary on.
MaySend(g, k) ==
    \/ k = "primary" /\ g \in Forwardable /\ (sig.running => sig.spent)
    \/ k = "primary" /\ g \in handles /\ ~sig.running
    \/ k = "term" /\ g \in handles \cup streams
    \/ k = "kill" /\ g \in Tracked /\ (escalation \/ pc = "cancel")
    \/ k = "kill" /\ g = victim.group /\ victim.stage # "no"
    \/ /\ g = Wait.group /\ Busy(Ctx)
       /\ k = "primary" => ~sig.running
       /\ k = "kill" => \/ escalation \/ Wait.cancel = "overdue"
                        \/ pc' = "reap" \/ waits'[Ctx].cancel = "limit"

\* No step signals anything else.
LEMMA Recipients ==
    ASSUME TypeOK, Places, Shapes, [Next]_vars,
           NEW g \in Group, NEW k \in Kind, Delivers(g, k)
    PROVE  MaySend(g, k)
  <1> USE DEF TypeOK
  <1>1. /\ os \in [Group -> Holder]
        /\ {"primary"} \in SUBSET Kind /\ {"term"} \in SUBSET Kind
        /\ {"kill"} \in SUBSET Kind /\ {} \in SUBSET Kind
        /\ Ctx \in {"main", "hook"} /\ Wait \in Run
    BY DEF Kind, Ctx, Wait
  <1>2. os'[g] # os[g] /\ k \in os'[g].got /\ k \notin os[g].got
    BY DEF Delivers
  <1>3. CASE UNCHANGED os
    BY <1>3, <1>2
  <1>4. ASSUME NEW h \in Group,
               \/ ChildEnds(h) \/ StrangerTakes(h) \/ StrangerLeaves(h) \/ Spawn(h)
                  \/ OpenStream(h)
               \/ FinishStream(h) \/ \E form \in {"inherit", "capture"} :
                  RunForeground(h, form)
        PROVE  MaySend(g, k)
    <2>1. /\ Free.got = {}
          /\ [Free EXCEPT !.who = "child"].got = {}
          /\ Live("stranger").got = {} /\ Live("child").got = {}
      BY DEF Free, Live
    <2>2. PICK r : os' = [os EXCEPT ![h] = r] /\ r.got \subseteq os[h].got
      BY <1>4, <2>1
         DEF ChildEnds, StrangerTakes, StrangerLeaves, Spawn, OpenStream, FinishStream,
             RunForeground, Started
    <2>3. QED
      BY <1>2, <2>2
  <1>5. CASE ServiceEscalation
    <2>1. Sends(Tracked, {"kill"})
      BY <1>1, <1>5, SendFacts DEF ServiceEscalation, kill_active_process_groups
    <2>2. QED
      BY <1>2, <1>5, <2>1 DEF ServiceEscalation, Sends, MaySend
  <1>6. CASE ServiceInHook \/ AfterHook
    <2>1. Sends(Forwardable, {"primary"}) \/ UNCHANGED os
      BY <1>6, ForwardFacts DEF ServiceInHook, AfterHook
    <2>2. sig.running => sig.spent \/ UNCHANGED os
      BY <1>6 DEF ServiceInHook, AfterHook, Places
    <2>3. QED
      BY <1>2, <2>1, <2>2 DEF Sends, MaySend
  <1>7. ASSUME NEW h \in Group, CancelHandle(h) \/ cleanup_scope(h)
        PROVE  MaySend(g, k)
    <2>1. CASE CancelHandle(h)
      <3>1. Sends({h}, {"primary"})
        BY <1>1, <2>1, SendFacts DEF CancelHandle
      <3>2. QED
        BY <1>2, <2>1, <3>1 DEF CancelHandle, Sends, MaySend, Places
    <2>2. CASE cleanup_scope(h)
      <3>1. Sends({h}, {"term"})
        BY <1>1, <2>2, SendFacts DEF cleanup_scope
      <3>2. QED
        BY <1>2, <2>2, <3>1 DEF cleanup_scope, Sends, MaySend
    <2>3. QED
      BY <1>7, <2>1, <2>2
  <1>8. CASE CancelEnds
    <2>1. UNCHANGED os \/ Sends(Tracked, {"kill"})
      BY <1>1, <1>8, SendFacts DEF CancelEnds, kill_active_process_groups
    <2>2. QED
      BY <1>2, <1>8, <2>1 DEF CancelEnds, Sends, MaySend
  <1>9. CASE VictimReaped
    BY <1>9, <1>2 DEF VictimReaped, Free, Holder
  <1>10. CASE VictimKilled \/ VictimSwept
    <2>1. Sends({victim.group}, {"kill"})
      BY <1>1, <1>10, SendFacts DEF VictimKilled, VictimSwept
    <2>2. QED
      BY <1>2, <1>10, <2>1 DEF VictimKilled, VictimSwept, Sends, MaySend
  <1>11. CASE WaitEnds \/ TimeoutReaped
    BY <1>11, <1>2 DEF WaitEnds, TimeoutReaped, EndWait, Free, Holder
  <1>12. CASE WaitTimesOut \/ CaptureOverflows
    <2>1. Sends({Wait.group}, {"kill"})
      BY <1>1, <1>12, SendFacts DEF WaitTimesOut, CaptureOverflows
    <2>2. pc' = "reap" \/ waits'[Ctx].cancel = "limit"
      BY <1>1, <1>12 DEF WaitTimesOut, CaptureOverflows, Run
    <2>3. QED
      BY <1>2, <1>12, <2>1, <2>2 DEF WaitTimesOut, CaptureOverflows, Sends, MaySend, Places
  <1>13. CASE PolicyAsked
    <2>1. Busy(Ctx)
      BY <1>13 DEF PolicyAsked, Places
    <2>2. UNCHANGED os
          \/ (Sends({Wait.group}, {"term", "kill"})
             /\ (Wait.cancel # "overdue" => Sends({Wait.group}, {"term"})))
      BY <1>1, <1>13, CancelFacts DEF PolicyAsked
    <2>3. QED
      BY <1>2, <2>1, <2>2 DEF Sends, MaySend
  <1>14. CASE DecideEscalate
    <2>1. k = "kill" /\ (g \in Tracked \/ g = Wait.group)
      <3>1. PICK t \in [Group -> Holder] : t = kill_active_process_groups
        BY <1>1, SentFacts DEF kill_active_process_groups
      <3>2. \A j \in t[g].got \ os[g].got : j = "kill" /\ g \in Tracked
        BY <1>1, <3>1, SentFacts DEF kill_active_process_groups
      <3>3. \A j \in os'[g].got \ t[g].got : j = "kill" /\ g = Wait.group
        BY <1>1, <1>14, <3>1, SentFacts DEF DecideEscalate
      <3>4. QED
        BY <1>2, <3>2, <3>3
    <2>2. QED
      BY <1>14, <2>1 DEF DecideEscalate, Deciding, MaySend, Places
  <1>15. CASE DecideContinue
    <2>1. Busy(Ctx)
      BY <1>15 DEF DecideContinue, Deciding, Places
    <2>2. \/ k = "primary" /\ g \in Forwardable /\ sig.spent
          \/ k = "kill" /\ g = Wait.group /\ Wait.cancel = "overdue"
      <3>1. CASE os' = Cancelled(os, {})
        BY <1>1, <1>2, <3>1, CancelledFacts
      <3>2. CASE os' = Cancelled(Sent(os, Forwardable, {"primary"}), {}) /\ sig.spent
        <4>1. PICK t \in [Group -> Holder] : t = Sent(os, Forwardable, {"primary"})
          BY <1>1, SentFacts
        <4>2. \A j \in t[g].got \ os[g].got : j = "primary" /\ g \in Forwardable
          BY <1>1, <4>1, SentFacts
        <4>3. \A j \in os'[g].got \ t[g].got : j = "kill" /\ g = Wait.group
              /\ Wait.cancel = "overdue"
          BY <1>1, <3>2, <4>1, CancelledFacts
        <4>4. QED
          BY <1>2, <3>2, <4>2, <4>3
      <3>3. QED
        BY <1>15, <3>1, <3>2 DEF DecideContinue
    <2>3. QED
      BY <2>1, <2>2 DEF MaySend
  <1>16. CASE DecideForward \/ Back
    <2>1. Busy(Ctx) /\ ~sig.running
      BY <1>16 DEF DecideForward, Back, Deciding, Places
    <2>2. PICK what \in {{}, {"primary"}} : os' = Cancelled(os, what)
      BY <1>16 DEF DecideForward, Back
    <2>3. /\ Sends({Wait.group}, what \cup {"kill"})
          /\ Wait.cancel # "overdue" => Sends({Wait.group}, what)
      BY <1>1, <2>2, CancelFacts
    <2>4. QED
      BY <1>2, <2>1, <2>2, <2>3 DEF Sends, MaySend
  <1>17. CASE \/ \E s \in Sig : record_signal(s)
              \/ BudgetSpent \/ DeadlinePasses \/ GraceElapses
              \/ Look \/ ServiceAgain \/ ServiceUnhooked \/ ServiceHook
              \/ register_indexed_signal_hook \/ StatementEnds \/ BodyEnds \/ ScriptEnds
              \/ Defer \/ RunDeferred \/ ActionEnds \/ BlockLeft
              \/ DecideService \/ UNCHANGED vars
    <2>1. UNCHANGED os
      BY <1>17
         DEF record_signal, BudgetSpent, DeadlinePasses, GraceElapses, Look,
             ServiceAgain, ServiceUnhooked, ServiceHook, register_indexed_signal_hook,
             StatementEnds, BodyEnds, ScriptEnds, Defer, RunDeferred, ActionEnds, BlockLeft,
             DecideService, vars
    <2>2. QED
      BY <1>3, <2>1
  <1>18. QED
    BY <1>4, <1>5, <1>6, <1>7, <1>8, <1>9, <1>10, <1>11, <1>12, <1>13, <1>14, <1>15, <1>16,
       <1>17
       DEF Next, Evaluator, Environment, Checkpoint, Cancelling, Statement, Waiting

\* The child the hook runs is not sent the primary.
LEMMA HookWorkKept ==
    ASSUME SInv, [Next]_vars
    PROVE  HookWorkSpared'
  <1> USE DEF SInv
  <1>1. Ctx \in {"main", "hook"} /\ waits \in [{"main", "hook"} -> Run]
    BY DEF TypeOK, Ctx
  <1>2. CASE QuietStep
    <2>1. SUFFICES ASSUME Busy("hook"), "primary" \in os'[waits["hook"].group].got
                   PROVE  waits["hook"].group \in stale
      BY <1>2, QuietSteps DEF Quiet, HookWorkSpared, Busy
    <2>2. PICK g \in Group : g = waits["hook"].group
      BY <1>1, <2>1 DEF Busy, Run
    <2>3. CASE "primary" \in os[g].got
      BY <2>1, <2>2, <2>3 DEF HookWorkSpared, Busy
    <2>4. CASE "primary" \notin os[g].got
      <3>1. sig.running
        BY <2>1 DEF Places
      <3>2. os[g].who = "child" /\ g \notin handles
        BY <2>2 DEF Ownership, Owned, InWait
      <3>3. Delivers(g, "primary")
        BY <2>1, <2>2, <2>4, <3>2 DEF Delivers
      <3>4. MaySend(g, "primary")
        BY <3>3, Recipients DEF Kind
      <3>5. g \in Forwardable
        BY <3>1, <3>2, <3>4 DEF MaySend
      <3>6. QED
        BY <2>2, <3>5 DEF Listing
    <2>5. QED
      BY <2>3, <2>4
  <1>3. ASSUME NEW g \in Group, NEW form \in {"inherit", "capture"}, RunForeground(g, form)
        PROVE  HookWorkSpared'
    <2>1. waits'["hook"].group \in {g, NoGroup}
      BY <1>1, <1>3 DEF RunForeground, Ctx, Places, Busy, Run
    <2>2. os'[g].got = {}
      BY <1>3 DEF RunForeground, Started, Live, TypeOK
    <2>3. QED
      BY <2>1, <2>2 DEF HookWorkSpared
  <1>4. CASE WaitEnds \/ TimeoutReaped
    <2>1. PICK finished \in BOOLEAN : EndWait(finished)
      BY <1>4 DEF WaitEnds, TimeoutReaped
    <2>2. waits'["hook"].group = NoGroup
      BY <1>1, <2>1 DEF EndWait, NoWait, Ctx, Places, Busy
    <2>3. QED
      BY <2>2 DEF HookWorkSpared
  <1>5. ASSUME NEW g \in Group,
               \/ CancelHandle(g) \/ cleanup_scope(g) \/ Spawn(g) \/ OpenStream(g)
                  \/ FinishStream(g)
        PROVE  HookWorkSpared'
    <2>1. UNCHANGED waits /\ ~sig.running
      BY <1>5
         DEF CancelHandle, cleanup_scope, Leaving, Spawn, OpenStream, FinishStream, Places,
             Shapes
    <2>2. QED
      BY <2>1 DEF HookWorkSpared, Places, Busy
  <1>6. CASE VictimReaped \/ VictimSwept
    <2>1. UNCHANGED waits /\ ~sig.running
      BY <1>6 DEF VictimReaped, VictimSwept, Places, Shapes
    <2>2. QED
      BY <2>1 DEF HookWorkSpared, Places, Busy
  <1>7. QED
    BY <1>2, <1>3, <1>4, <1>5, <1>6
       DEF Next, Evaluator, Environment, Cancelling, Statement, Waiting, QuietStep

-----------------------------------------------------------------------------
(* The invariant *)

\* Once the script has ended nothing enters its tables again, and it ends only
\* with empty ones.
LEMMA EndedKept ==
    ASSUME TypeOK, Shapes, Ended, [Next]_vars
    PROVE  Ended'
  <1>1. Return(TRUE) # "done" /\ Return(FALSE) # "done" /\ Return(sig.complete) # "done"
    BY ReturnTyped DEF TypeOK, SignalState
  <1>2. CASE pc = "done"
    <2>1. UNCHANGED <<handles, streams>>
      BY <1>2
         DEF Next, Evaluator, Environment, Checkpoint, Cancelling, Statement, Waiting,
             vars, record_signal, ChildEnds, StrangerTakes, StrangerLeaves, BudgetSpent,
             DeadlinePasses, GraceElapses, Look, ServiceEscalation,
             ServiceInHook, ServiceAgain, ServiceUnhooked, ServiceHook, AfterHook,
             CancelHandle, cleanup_scope, CancelEnds, VictimReaped, VictimKilled,
             VictimSwept, Shapes, RunForeground, Spawn, OpenStream, FinishStream,
             StatementEnds, Defer, RunDeferred, ActionEnds, BlockLeft, Body, Leaving,
             register_indexed_signal_hook, BodyEnds, ScriptEnds, WaitEnds, WaitTimesOut,
             TimeoutReaped, EndWait, CaptureOverflows, PolicyAsked, Deciding,
             DecideEscalate, DecideContinue, DecideForward, DecideService, Back, Unserved
    <2>2. QED
      BY <1>2, <2>1 DEF Ended
  <1>3. CASE pc # "done"
    <2>1. pc' = "done" => ScriptEnds
      BY <1>1, <1>3
         DEF Next, Evaluator, Environment, Checkpoint, Cancelling, Statement, Waiting,
             vars, record_signal, ChildEnds, StrangerTakes, StrangerLeaves, BudgetSpent,
             DeadlinePasses, GraceElapses, Look, ServiceEscalation,
             ServiceInHook, ServiceAgain, ServiceUnhooked, ServiceHook, AfterHook,
             CancelHandle, cleanup_scope, CancelEnds, VictimReaped, VictimKilled,
             VictimSwept, RunForeground, Spawn, OpenStream, FinishStream,
             StatementEnds, Defer, RunDeferred, ActionEnds, BlockLeft, TypeOK,
             register_indexed_signal_hook, BodyEnds, WaitEnds, WaitTimesOut, TimeoutReaped,
             EndWait, CaptureOverflows, PolicyAsked, DecideEscalate, DecideContinue,
             DecideForward, DecideService, Back
    <2>2. QED
      BY <2>1 DEF Ended, ScriptEnds
  <1>4. QED
    BY <1>2, <1>3

\* The initial state satisfies the invariant: nothing runs and nothing is listed.
LEMMA InitHolds == Init => SInv
  BY InitTyped, ShutdownAssumption
     DEF Init, SInv, Places, Shapes, HookFacts, Ended, Ownership, Listing, HookWorkSpared,
         Busy, Owned, InWait, InCancel, Tracked, Forwardable, NoWait, NoVictim, Free, Ctx

\* The invariant is inductive.
LEMMA NextKeeps == SInv /\ [Next]_vars => SInv'
  <1> SUFFICES ASSUME SInv, [Next]_vars PROVE SInv'
    OBVIOUS
  <1>1. TypeOK'
    BY NextTyped DEF SInv
  <1>2. Places' /\ Shapes' /\ HookFacts'
    BY ControlKept DEF SInv
  <1>3. Ownership'
    BY OwnershipKept DEF SInv
  <1>4. Listing'
    BY ListingKept DEF SInv
  <1>5. HookWorkSpared'
    BY HookWorkKept
  <1>6. Ended'
    BY EndedKept DEF SInv
  <1>7. QED
    BY <1>1, <1>2, <1>3, <1>4, <1>5, <1>6 DEF SInv

-----------------------------------------------------------------------------
(* The theorems *)

\* Of the whole shutdown (service_pending_signal, eval.rs, and cancel_managed and
\* Cancellation, process.rs): the invariant holds in every state, whatever order
\* signals, deaths, number reuse, timeouts and statements come in.
THEOREM Invariant == Spec => []SInv
  BY InitHolds, NextKeeps, PTL DEF Spec

\* The types of the variables, as the process runtime keeps them.
THEOREM TypeCorrect == Spec => []TypeOK
  BY Invariant, PTL DEF SInv

\* Neither the forward after a spent budget nor the cancellation of the hook's
\* own waits (Cancellation::new under a running hook) sends the primary signal to a
\* child the hook runs, unless its number was reused: it is not among the
\* forwardable entries of the list while it is the hook's.
THEOREM HookWorkIsSpared == Spec => []HookWorkSpared
  BY Invariant, PTL DEF SInv

\* The end of the script (cleanup_scope_process_handles after an unwinding or a
\* last statement) leaves no child, not even one that a deferred action started:
\* every child has an owner, and an ended script has none left, no run, no
\* handle, no stream and no cancellation under way.
THEOREM NothingOutlivesScript == Spec => []NothingOutlives
  <1>1. SInv => NothingOutlives
    <2> SUFFICES ASSUME SInv, pc = "done", NEW g \in Group
                 PROVE  os[g].who # "child"
      BY DEF NothingOutlives
    <2>1. ~Busy("main") /\ ~Busy("hook")
      BY DEF SInv, Places
    <2>2. handles \cup streams = {} /\ victim.group = NoGroup
      BY DEF SInv, Ended, Shapes
    <2>3. ~Owned(g)
      BY <2>1, <2>2, ShutdownAssumption DEF Owned, InWait, InCancel, Busy
    <2>4. QED
      BY <2>3 DEF SInv, Ownership
  <1>2. QED
    BY <1>1, Invariant, PTL

\* service_pending_signal enters the hook only from a state in which it was not
\* started, and no step takes that mark back.
THEOREM HookRunsAtMostOnce == Spec => HookRunsOnce
  <1>1. TypeOK /\ [Next]_vars => [~sig.running /\ sig'.running => ~sig.started]_vars
    <2> SUFFICES ASSUME TypeOK, Next, ~sig.running, sig'.running
                 PROVE  ~sig.started
      BY DEF vars
    <2> USE DEF TypeOK, SignalState
    <2>1. CASE ServiceHook
      BY <2>1 DEF ServiceHook, Unserved
    <2>2. CASE ~ServiceHook
      <3>1. sig'.running => sig.running
        BY <2>2
           DEF Next, Evaluator, Environment, Checkpoint, Cancelling, Statement, Waiting,
               record_signal, ChildEnds, StrangerTakes, StrangerLeaves, BudgetSpent,
               DeadlinePasses, GraceElapses, Look, ServiceEscalation,
               ServiceInHook, ServiceAgain, ServiceUnhooked, AfterHook, CancelHandle,
               cleanup_scope, CancelEnds, VictimReaped, VictimKilled, VictimSwept,
               RunForeground, Spawn, OpenStream, FinishStream,
               StatementEnds, Defer, RunDeferred, ActionEnds, BlockLeft, HookLeft,
               register_indexed_signal_hook, BodyEnds, ScriptEnds, WaitEnds, WaitTimesOut,
               TimeoutReaped, EndWait, CaptureOverflows, PolicyAsked, DecideEscalate,
               DecideContinue, DecideForward, DecideService, Back, forward_primary_to_active
      <3>2. QED
        BY <3>1
    <2>3. QED
      BY <2>1, <2>2
  <1>2. QED
    BY <1>1, TypeCorrect, PTL DEF Spec, HookRunsOnce

\* While the hook is within its --pre-cancel budget no step sends the primary
\* signal to anything (service_pending_signal looks at the budget before it calls
\* forward_primary_to_active).
THEOREM BudgetIsRespected == Spec => BudgetRespected
  <1>1. SInv /\ [Next]_vars
          => [sig.running /\ ~sig.spent /\ sig'.running
                => \A g \in Group : ~Delivers(g, "primary")]_vars
    <2> SUFFICES ASSUME SInv, Next, sig.running, ~sig.spent,
                        NEW g \in Group, Delivers(g, "primary")
                 PROVE  FALSE
      OBVIOUS
    <2>1. MaySend(g, "primary")
      BY Recipients DEF SInv, Kind
    <2>2. QED
      BY <2>1 DEF MaySend
  <1>2. QED
    BY <1>1, Invariant, PTL DEF Spec, BudgetRespected

\* Without a hook the foreground child is killed only by its own timeout, by the
\* capture limit, by an escalation, or by the cancellation whose grace is over: no
\* other SIGKILL of the runtime, of a cancelled handle say, is sent to its number,
\* for it has no second owner.
THEOREM GraceComesFirst == Spec => GraceBeforeKill
  <1>1. SInv /\ [Next]_vars
          => [LET w == waits["main"] IN
                w # NoWait /\ Delivers(w.group, "kill") /\ hook = "none"
                  => \/ escalation
                     \/ w.cancel = "overdue"
                     \/ pc' = "reap" \/ waits'["main"].cancel = "limit"]_vars
    <2> SUFFICES ASSUME SInv, Next, waits["main"] # NoWait, hook = "none",
                        Delivers(waits["main"].group, "kill")
                 PROVE  \/ escalation
                        \/ waits["main"].cancel = "overdue"
                        \/ pc' = "reap" \/ waits'["main"].cancel = "limit"
      OBVIOUS
    <2>1. PICK g \in Group : g = waits["main"].group
      BY DEF SInv, TypeOK, Shapes, Busy, Run
    <2>2. Delivers(g, "kill") /\ Busy("main")
      BY <2>1, ShutdownAssumption DEF Delivers, Busy
    <2>3. MaySend(g, "kill")
      BY <2>2, Recipients DEF SInv, Kind
    <2>4. ~sig.running /\ Ctx = "main" /\ pc # "cancel"
      BY <2>2 DEF SInv, HookFacts, Ctx
    <2>5. g = victim.group => victim.stage = "swept" \/ victim.stage = "no"
      BY <2>1 DEF SInv, Ownership, InWait, InCancel
    <2>6. victim.stage = "no"
      BY <2>2, <2>4 DEF SInv, Shapes, Places
    <2>7. QED
      BY <2>1, <2>3, <2>4, <2>6 DEF MaySend, Wait
  <1>2. QED
    BY <1>1, Invariant, PTL DEF Spec, GraceBeforeKill

\* Once the shutdown is complete, the checkpoint before each statement
\* (step_statements, of shutting_down) lets only a deferred action pass, so that
\* outside of one no step makes a child but what is left of a statement.
THEOREM OnlyCleanupStartsChildren == Spec => OnlyCleanupStarts
  <1>1. SInv /\ [Next]_vars
          => [sig.complete /\ cleanup = "no" /\ pc # "rest"
                => \A g \in Group : os'[g].who = "child" => os[g].who = "child"]_vars
    <2> SUFFICES ASSUME SInv, Next, sig.complete, cleanup = "no", pc # "rest",
                        NEW g \in Group, os'[g].who = "child"
                 PROVE  os[g].who = "child"
      OBVIOUS
    <2>1. ~Body
      BY DEF SInv, HookFacts, Body
    <2>2. CASE QuietStep
      BY <2>2, QuietSteps DEF SInv, Quiet
    <2>3. ASSUME NEW h \in Group, CancelHandle(h) \/ cleanup_scope(h)
          PROVE  os[g].who = "child"
      <3>1. PICK what \in SUBSET Kind : os' = Sent(os, {h}, what)
        BY <2>3 DEF CancelHandle, cleanup_scope, Kind
      <3>2. QED
        BY <3>1, SentFacts DEF SInv, TypeOK
    <2>4. CASE VictimSwept
      <3>1. PICK what \in SUBSET Kind : os' = Sent(os, {victim.group}, what)
        BY <2>4 DEF VictimSwept, Kind
      <3>2. QED
        BY <3>1, SentFacts DEF SInv, TypeOK
    <2>5. CASE VictimReaped \/ WaitEnds \/ TimeoutReaped
      BY <2>5 DEF VictimReaped, WaitEnds, TimeoutReaped, EndWait, Free, SInv, TypeOK
    <2>6. QED
      BY <2>1, <2>2, <2>3, <2>4, <2>5
         DEF Next, Evaluator, Environment, Cancelling, Statement, Waiting, QuietStep,
             RunForeground, Spawn, OpenStream, FinishStream
  <1>2. QED
    BY <1>1, Invariant, PTL DEF Spec, OnlyCleanupStarts

\* A signal reaches a holder of a number that is no child only where the evaluator
\* holds that number stale: everything else it signals has an owner, and what is
\* owned is a child.
THEOREM StraysAreStale == Spec => StrayOnlyWhenStale
  <1>1. SInv /\ [Next]_vars
          => [\A g \in Group, what \in Kind :
                Delivers(g, what) /\ os[g].who = "stranger" => g \in stale]_vars
    <2> SUFFICES ASSUME SInv, Next, NEW g \in Group, NEW what \in Kind,
                        Delivers(g, what), os[g].who = "stranger"
                 PROVE  g \in stale
      OBVIOUS
    <2>1. MaySend(g, what)
      BY Recipients DEF SInv
    <2>2. ~Owned(g)
      BY DEF SInv, Ownership
    <2>3. Ctx \in {"main", "hook"}
      BY DEF Ctx
    <2>4. Forwardable \subseteq Tracked
      BY TrackedGroups DEF SInv
    <2>5. QED
      BY <2>1, <2>2, <2>3, <2>4 DEF MaySend, Owned, InWait, InCancel, SInv, Listing, Wait
  <1>2. QED
    BY <1>1, Invariant, PTL DEF Spec, StrayOnlyWhenStale
=============================================================================
