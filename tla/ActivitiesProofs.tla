-------------------------- MODULE ActivitiesProofs --------------------------
(***************************************************************************)
(* Every reachable state of module Activities keeps its table, its counts  *)
(* and its reservation in step, for every number of handles, jobs, scopes  *)
(* and list lengths.                                                       *)
(***************************************************************************)
EXTENDS Activities, FiniteSetTheorems, TLAPS

Polling == {"any", "timed", "ready", "drain"}

\* What the evaluator is doing agrees with what it holds: a wait or a
\* cancellation has a resource that is in no table, and `why` says on whose
\* behalf only while something is cancelled.
CallInv ==
  /\ pc = "over" <=> depth = 0
  /\ pc = "end" <=> ending \in Handles
  /\ pc = "endJob" <=> ending \in Jobs
  /\ pc = "waitJob" => held \in Jobs
  /\ held \in Handles => pc = "wait"
  /\ held \in Jobs => pc = "waitJob" \/ why = "signal"
  /\ pc = "signal" => why = "signal"
  /\ why = "signal" => pc \in {"signal", "end", "endJob"}
  /\ pc = "release" => why \in {"defers", "exit"}
  /\ why \in {"defers", "exit"} => pc \in {"release", "end", "endJob"}
  /\ pc \in Polling => at \in 1..Len(list)
  /\ done # {} => pc \in {"ready", "drain", "take"}

\* What is held or being cancelled is in no table, and was made once.
ResourceInv ==
  /\ \A r \in {held, ending} \ {None} : owner[r] = 0
  /\ held = ending => held = None
  /\ \A h \in Handles :
       /\ kind[h] = "none" <=> os[h] = "none"
       /\ os[h] = "none" => owner[h] = 0 /\ h \notin loose \cup {held, ending}
       /\ h \in loose => owner[h] = 0
       /\ h \in broken => os[h] = "reaped"
       /\ h \in done => os[h] = "reaped" /\ owner[h] # 0
  /\ \A j \in Jobs : op[j] = "none" => owner[j] = 0 /\ j \notin {held, ending}

IInv ==
  /\ TypeOK
  /\ CallInv
  /\ ResourceInv
  /\ CountsExact
  /\ NothingEscapes
  /\ ReservationExact
  /\ TableIsUnreaped

-----------------------------------------------------------------------------
(* The table *)

\* There are finitely many resources.
LEMMA ThingsFinite == IsFiniteSet(Things)
  BY FS_Union, ResourcesAssumption DEF Things

\* A scope owns finitely many, so that they can be counted.
LEMMA OwnedFinite ==
  ASSUME NEW s
  PROVE  IsFiniteSet(Owned(s)) /\ Cardinality(Owned(s)) \in Nat
<1>1. Owned(s) \subseteq Things
  BY DEF Owned
<1> QED
  BY <1>1, ThingsFinite, FS_Subset, FS_CardinalityType

TableOK == owner \in [Things -> 0..MaxDepth] /\ counts \in [Scopes -> Nat]

\* Taking a live resource out of the table lowers the count of its scope, which
\* was at least one.
LEMMA TakeStep ==
  ASSUME TableOK, CountsExact, NEW r \in Things, owner[r] # 0, Take(r)
  PROVE  TableOK' /\ CountsExact'
<1> SUFFICES ASSUME NEW s \in Scopes, owner[r] = s PROVE TableOK' /\ CountsExact'
  BY DEF TableOK, Scopes
<1>1. /\ owner' = [owner EXCEPT ![r] = 0]
      /\ counts' = [counts EXCEPT ![s] = @ - 1]
  BY DEF Take
<1>2. 0 \notin Scopes
  BY DEF Scopes
<1>3. Owned(s)' = Owned(s) \ {r} /\ r \in Owned(s)
  BY <1>1, <1>2 DEF Owned, TableOK
<1>4. \A t \in Scopes \ {s} : Owned(t)' = Owned(t)
  BY <1>1, <1>2 DEF Owned
<1>5. Cardinality(Owned(s)') = Cardinality(Owned(s)) - 1 /\ Cardinality(Owned(s)') \in Nat
  BY <1>3, OwnedFinite, FS_RemoveElement, FS_CardinalityType
<1>6. counts[s] = Cardinality(Owned(s))
  BY DEF CountsExact
<1>7. counts'[s] = Cardinality(Owned(s)') /\ counts'[s] \in Nat
  BY <1>1, <1>5, <1>6 DEF TableOK
<1>8. TableOK'
  BY <1>1, <1>7, BoundsAssumption DEF TableOK
<1>9. \A t \in Scopes \ {s} : counts'[t] = counts[t]
  BY <1>1
<1>10. CountsExact'
  BY <1>4, <1>7, <1>9 DEF CountsExact
<1> QED
  BY <1>8, <1>10

\* Entering a resource under the open scope raises the count of that scope.
LEMMA InsertStep ==
  ASSUME TableOK, CountsExact, depth \in Scopes, NEW r \in Things, owner[r] = 0, Insert(r)
  PROVE  TableOK' /\ CountsExact'
<1> SUFFICES ASSUME NEW s \in Scopes, depth = s PROVE TableOK' /\ CountsExact'
  OBVIOUS
<1>1. /\ owner' = [owner EXCEPT ![r] = s]
      /\ counts' = [counts EXCEPT ![s] = @ + 1]
  BY DEF Insert
<1>2. 0 \notin Scopes
  BY DEF Scopes
<1>3. Owned(s)' = Owned(s) \cup {r} /\ r \notin Owned(s)
  BY <1>1, <1>2 DEF Owned, TableOK
<1>4. \A t \in Scopes \ {s} : Owned(t)' = Owned(t)
  BY <1>1, <1>2 DEF Owned
<1>5. Cardinality(Owned(s)') = Cardinality(Owned(s)) + 1
  BY <1>3, OwnedFinite, FS_AddElement
<1>6. TableOK'
  BY <1>1 DEF TableOK, Scopes
<1>7. CountsExact'
  BY <1>1, <1>4, <1>5 DEF CountsExact, TableOK
<1> QED
  BY <1>6, <1>7

\* Handing a live resource outward moves one from a count to another.
LEMMA TransferStep ==
  ASSUME TableOK, CountsExact, NEW r \in Things, NEW s \in Scopes, Transfer(r, s)
  PROVE  TableOK' /\ CountsExact'
<1>0. owner[r] # 0
  BY DEF Transfer, Live
<1> SUFFICES ASSUME NEW t \in Scopes, owner[r] = t PROVE TableOK' /\ CountsExact'
  BY <1>0 DEF TableOK, Scopes
<1>1. /\ owner' = [owner EXCEPT ![r] = s]
      /\ counts' = [counts EXCEPT ![t] = @ - 1, ![s] = @ + 1]
      /\ s # t
  BY DEF Transfer, Scopes
<1>2. /\ Owned(t)' = Owned(t) \ {r} /\ r \in Owned(t)
      /\ Owned(s)' = Owned(s) \cup {r} /\ r \notin Owned(s)
  BY <1>1 DEF Owned, TableOK
<1>3. \A u \in Scopes \ {s, t} : Owned(u)' = Owned(u)
  BY <1>1 DEF Owned
<1>4. /\ Cardinality(Owned(t)') = Cardinality(Owned(t)) - 1
      /\ Cardinality(Owned(t)') \in Nat
  BY <1>2, OwnedFinite, FS_RemoveElement, FS_CardinalityType
<1>5. Cardinality(Owned(s)') = Cardinality(Owned(s)) + 1
  BY <1>2, OwnedFinite, FS_AddElement
<1>6. counts[t] = Cardinality(Owned(t)) /\ counts[s] = Cardinality(Owned(s))
  BY DEF CountsExact
<1>7. /\ counts'[t] = Cardinality(Owned(t)') /\ counts'[t] \in Nat
      /\ counts'[s] = Cardinality(Owned(s)') /\ counts'[s] \in Nat
  BY <1>1, <1>4, <1>5, <1>6 DEF TableOK
<1>8. \A u \in Scopes \ {s, t} : counts'[u] = counts[u]
  BY <1>1 DEF TableOK
<1>9. counts' \in [Scopes -> Nat]
  BY <1>1, <1>7, <1>8 DEF TableOK
<1>10. owner' \in [Things -> 0..MaxDepth]
  BY <1>1 DEF TableOK, Scopes
<1>11. CountsExact'
  BY <1>3, <1>7, <1>8 DEF CountsExact
<1> QED
  BY <1>9, <1>10, <1>11 DEF TableOK

\* Every step that changes the table takes, enters or hands over one resource.
LEMMA TableStep ==
  ASSUME IInv, [Next]_vars
  PROVE  TableOK' /\ CountsExact'
<1>1. ASSUME NEW h \in Handles, ChildEnds(h) PROVE TableOK' /\ CountsExact'
  BY <1>1 DEF ChildEnds, table, IInv, TypeOK, TableOK, CountsExact, Owned
<1>2. ASSUME NEW h \in Handles, Late(h) PROVE TableOK' /\ CountsExact'
  BY <1>2 DEF Late, table, IInv, TypeOK, TableOK, CountsExact, Owned
<1>3. ASSUME NEW h \in Handles, ReaperReaps(h) PROVE TableOK' /\ CountsExact'
  BY <1>3 DEF ReaperReaps, table, IInv, TypeOK, TableOK, CountsExact, Owned
<1>4. ASSUME NEW j \in Jobs, Answers(j) PROVE TableOK' /\ CountsExact'
  BY <1>4 DEF Answers, table, IInv, TypeOK, TableOK, CountsExact, Owned
<1>5. ASSUME SignalArrives PROVE TableOK' /\ CountsExact'
  BY <1>5 DEF SignalArrives, table, IInv, TypeOK, TableOK, CountsExact, Owned
<1>6. ASSUME Enter PROVE TableOK' /\ CountsExact'
  BY <1>6 DEF Enter, table, IInv, TypeOK, TableOK, CountsExact, Owned
<1>7. ASSUME NEW r \in Things, NEW s \in Scopes, Transfer(r, s) PROVE TableOK' /\ CountsExact'
  BY <1>7, TransferStep DEF IInv, TypeOK, TableOK
<1>8. ASSUME NEW then \in {"defers", "exit"}, LeaveScope(then) PROVE TableOK' /\ CountsExact'
  BY <1>8 DEF LeaveScope, table, IInv, TypeOK, TableOK, CountsExact, Owned
<1>9. ASSUME NEW h \in Handles, ReleaseHandle(h) PROVE TableOK' /\ CountsExact'
  <2>1. owner[h] # 0 /\ Take(h) /\ h \in Things
    BY <1>9 DEF ReleaseHandle, Things, IInv, CallInv
  <2> QED
    BY <2>1, TakeStep DEF IInv, TypeOK, TableOK
<1>10. ASSUME NEW j \in Jobs, ReleaseJob(j) PROVE TableOK' /\ CountsExact'
  <2>1. owner[j] # 0 /\ Take(j) /\ j \in Things
    BY <1>10 DEF ReleaseJob, Things, IInv, CallInv
  <2> QED
    BY <2>1, TakeStep DEF IInv, TypeOK, TableOK
<1>11. ASSUME ReleaseDone PROVE TableOK' /\ CountsExact'
  BY <1>11 DEF ReleaseDone, table, IInv, TypeOK, TableOK, CountsExact, Owned
<1>12. ASSUME NEW h \in Handles, Cancel(h) PROVE TableOK' /\ CountsExact'
  <2>1. owner[h] # 0 /\ Take(h) /\ h \in Things
    BY <1>12 DEF Cancel, Things, Live
  <2> QED
    BY <2>1, TakeStep DEF IInv, TypeOK, TableOK
<1>13. ASSUME EndKill PROVE TableOK' /\ CountsExact'
  BY <1>13 DEF EndKill, table, IInv, TypeOK, TableOK, CountsExact, Owned
<1>14. ASSUME EndPoll PROVE TableOK' /\ CountsExact'
  BY <1>14 DEF EndPoll, table, IInv, TypeOK, TableOK, CountsExact, Owned
<1>15. ASSUME NEW j \in Jobs, CancelJob(j) PROVE TableOK' /\ CountsExact'
  <2>1. owner[j] # 0 /\ Take(j) /\ j \in Things
    BY <1>15 DEF CancelJob, Things, Live
  <2> QED
    BY <2>1, TakeStep DEF IInv, TypeOK, TableOK
<1>16. ASSUME EndJob PROVE TableOK' /\ CountsExact'
  BY <1>16 DEF EndJob, table, IInv, TypeOK, TableOK, CountsExact, Owned
<1>17. ASSUME NEW h \in Handles, NEW k \in KindsOf[h], Spawn(h, k) PROVE TableOK' /\ CountsExact'
  <2>1. owner[h] = 0 /\ Insert(h) /\ h \in Things /\ depth \in Scopes
    BY <1>17 DEF Spawn, Things, Scopes, IInv, TypeOK, ResourceInv
  <2> QED
    BY <2>1, InsertStep DEF IInv, TypeOK, TableOK
<1>18. ASSUME NEW l \in Lists, Wait(l) PROVE TableOK' /\ CountsExact'
  BY <1>18 DEF Wait, table, IInv, TypeOK, TableOK, CountsExact, Owned
<1>19. ASSUME WaitNext PROVE TableOK' /\ CountsExact'
  <2>1. CASE list # <<>> /\ Live(Head(list))
    <3>1. owner[Head(list)] # 0 /\ Take(Head(list)) /\ Head(list) \in Things
      BY <1>19, <2>1 DEF WaitNext, Live, Things, IInv, TypeOK
    <3> QED
      BY <3>1, TakeStep DEF IInv, TypeOK, TableOK
  <2>2. CASE list = <<>> \/ ~Live(Head(list))
    <3>1. UNCHANGED table
      BY <1>19, <2>2 DEF WaitNext
    <3> QED
      BY <3>1 DEF table, IInv, TypeOK, TableOK, CountsExact, Owned
  <2> QED
    BY <2>1, <2>2
<1>20. ASSUME WaitPoll PROVE TableOK' /\ CountsExact'
  BY <1>20 DEF WaitPoll, table, IInv, TypeOK, TableOK, CountsExact, Owned
<1>21. ASSUME NEW s \in {"term", "kill"}, WaitStops(s) PROVE TableOK' /\ CountsExact'
  BY <1>21 DEF WaitStops, table, IInv, TypeOK, TableOK, CountsExact, Owned
<1>22. ASSUME NEW l \in Lists, NEW p \in {"any", "timed", "ready"}, PollList(l, p) PROVE TableOK' /\ CountsExact'
  BY <1>22 DEF PollList, table, IInv, TypeOK, TableOK, CountsExact, Owned
<1>23. ASSUME PollFails PROVE TableOK' /\ CountsExact'
  BY <1>23 DEF PollFails, table, IInv, TypeOK, TableOK, CountsExact, Owned
<1>24. ASSUME AnyEnds PROVE TableOK' /\ CountsExact'
  <2>1. owner[list[at]] # 0 /\ Take(list[at]) /\ list[at] \in Things
    BY <1>24 DEF AnyEnds, Live, Things, IInv, TypeOK, CallInv, Polling
  <2> QED
    BY <2>1, TakeStep DEF IInv, TypeOK, TableOK
<1>25. ASSUME AnyGoesOn PROVE TableOK' /\ CountsExact'
  BY <1>25 DEF AnyGoesOn, table, IInv, TypeOK, TableOK, CountsExact, Owned
<1>26. ASSUME ReadyPoll PROVE TableOK' /\ CountsExact'
  BY <1>26 DEF ReadyPoll, table, IInv, TypeOK, TableOK, CountsExact, Owned
<1>27. ASSUME ReadyTakes PROVE TableOK' /\ CountsExact'
  <2>1. PICK h \in done : Take(h)
    BY <1>27 DEF ReadyTakes
  <2>2. owner[h] # 0 /\ h \in Things
    BY <2>1 DEF Things, IInv, TypeOK, ResourceInv
  <2> QED
    BY <2>1, <2>2, TakeStep DEF IInv, TypeOK, TableOK
<1>28. ASSUME NEW j \in Jobs, Start(j) PROVE TableOK' /\ CountsExact'
  <2>1. owner[j] = 0 /\ Insert(j) /\ j \in Things /\ depth \in Scopes
    BY <1>28 DEF Start, Things, Scopes, IInv, TypeOK, ResourceInv
  <2> QED
    BY <2>1, InsertStep DEF IInv, TypeOK, TableOK
<1>29. ASSUME NEW j \in Jobs, WaitJob(j) PROVE TableOK' /\ CountsExact'
  <2>1. owner[j] # 0 /\ Take(j) /\ j \in Things
    BY <1>29 DEF WaitJob, Things, Live
  <2> QED
    BY <2>1, TakeStep DEF IInv, TypeOK, TableOK
<1>30. ASSUME JobAnswered PROVE TableOK' /\ CountsExact'
  BY <1>30 DEF JobAnswered, table, IInv, TypeOK, TableOK, CountsExact, Owned
<1>31. ASSUME JobDue PROVE TableOK' /\ CountsExact'
  BY <1>31 DEF JobDue, table, IInv, TypeOK, TableOK, CountsExact, Owned
<1>32. ASSUME NEW h \in Handles, DriveInput(h) PROVE TableOK' /\ CountsExact'
  BY <1>32 DEF DriveInput, table, IInv, TypeOK, TableOK, CountsExact, Owned
<1>33. ASSUME Checkpoint PROVE TableOK' /\ CountsExact'
  BY <1>33 DEF Checkpoint, table, IInv, TypeOK, TableOK, CountsExact, Owned
<1>34. ASSUME NEW h \in Handles, SignalHandle(h) PROVE TableOK' /\ CountsExact'
  <2>1. owner[h] # 0 /\ Take(h) /\ h \in Things
    BY <1>34 DEF SignalHandle, Things, Live
  <2> QED
    BY <2>1, TakeStep DEF IInv, TypeOK, TableOK
<1>35. ASSUME SignalError PROVE TableOK' /\ CountsExact'
  BY <1>35 DEF SignalError, table, IInv, TypeOK, TableOK, CountsExact, Owned
<1>36. ASSUME NEW j \in Jobs, SignalJob(j) PROVE TableOK' /\ CountsExact'
  <2>1. owner[j] # 0 /\ Take(j) /\ j \in Things
    BY <1>36 DEF SignalJob, Things, Live
  <2> QED
    BY <2>1, TakeStep DEF IInv, TypeOK, TableOK
<1>37. ASSUME SignalDone PROVE TableOK' /\ CountsExact'
  BY <1>37 DEF SignalDone, table, IInv, TypeOK, TableOK, CountsExact, Owned
<1>38. CASE UNCHANGED vars
  BY <1>38 DEF vars, table, IInv, TypeOK, TableOK, CountsExact, Owned
<1> QED
  BY <1>1, <1>2, <1>3, <1>4, <1>5, <1>6, <1>7, <1>8, <1>9, <1>10, <1>11, <1>12, <1>13, 
     <1>14, <1>15, <1>16, <1>17, <1>18, <1>19, <1>20, <1>21, <1>22, <1>23, <1>24, <1>25,
     <1>26, <1>27, <1>28, <1>29, <1>30, <1>31, <1>32, <1>33, <1>34, <1>35, <1>36, <1>37,
     <1>38
     DEF Next, Script, Calls, Stops, Environment

-----------------------------------------------------------------------------
(* Types *)

\* The list of handles between two waits.
LEMMA EmptyIsSeq == <<>> \in Seq(Handles)
  OBVIOUS

\* The lists a script passes.
LEMMA ListsAreSeqs == Lists \subseteq Seq(Handles)
  BY DEF Lists

\* Giving a job up keeps the types of what it touches.
LEMMA GiveUpTypes ==
  ASSUME TypeOK, UNCHANGED <<op, reserved, held>> \/ GiveUpJob
  PROVE  (op' \in [Jobs -> {"none", "pending", "canceled", "answered"}] /\ reserved' \in Nat)
  BY DEF TypeOK, GiveUpJob, Released

ChildrenOK ==
  /\ kind \in [Handles -> Kinds \cup {"none"}]
  /\ os \in [Handles -> {"none", "running", "zombie", "reaped"}]
  /\ sig \in [Handles -> {"none", "term", "kill"}]
  /\ late \subseteq Handles /\ broken \subseteq Handles /\ loose \subseteq Handles
  /\ op \in [Jobs -> {"none", "pending", "canceled", "answered"}] /\ reserved \in Nat
  /\ primary \in BOOLEAN /\ complete \in BOOLEAN

CallOK ==
  /\ pc \in {"script", "wait", "any", "timed", "ready", "drain", "take", "end", "waitJob",
             "endJob", "release", "signal", "over"}
  /\ why \in {"call", "defers", "exit", "signal"}
  /\ list \in Seq(Handles) /\ at \in Nat \ {0}
  /\ done \subseteq Handles /\ lost \subseteq Handles /\ failed \in BOOLEAN
  /\ held \in Things \cup {None} /\ ending \in Things \cup {None}

\* Every step keeps the types; those of the table are TableStep's.
LEMMA TypeStep ==
  ASSUME IInv, [Next]_vars
  PROVE  TypeOK'
<1>1. ASSUME NEW h \in Handles, ChildEnds(h) PROVE TypeOK'
  BY <1>1, TableStep DEF ChildEnds, IInv, TypeOK, TableOK, shutdown, call
<1>2. ASSUME NEW h \in Handles, Late(h) PROVE TypeOK'
  BY <1>2, TableStep DEF Late, IInv, TypeOK, TableOK, shutdown, call
<1>3. ASSUME NEW h \in Handles, ReaperReaps(h) PROVE TypeOK'
  BY <1>3, TableStep DEF ReaperReaps, Reap, Ended, IInv, TypeOK, TableOK, shutdown, call
<1>4. ASSUME NEW j \in Jobs, Answers(j) PROVE TypeOK'
  BY <1>4, TableStep DEF Answers, IInv, TypeOK, TableOK, children, shutdown, call
<1>5. ASSUME SignalArrives PROVE TypeOK'
  BY <1>5, TableStep DEF SignalArrives, IInv, TypeOK, TableOK, children, call
<1>6. ASSUME Enter PROVE TypeOK'
  BY <1>6, TableStep, BoundsAssumption
     DEF Enter, IInv, TypeOK, TableOK, children, shutdown, call
<1>7. ASSUME NEW r \in Things, NEW s \in Scopes, Transfer(r, s) PROVE TypeOK'
  BY <1>7, TableStep DEF Transfer, IInv, TypeOK, TableOK, children, shutdown, call
<1>8. ASSUME NEW then \in {"defers", "exit"}, LeaveScope(then) PROVE TypeOK'
  BY <1>8, TableStep, BoundsAssumption
     DEF LeaveScope, IInv, TypeOK, TableOK, children, shutdown, Kinds
<1>9. ASSUME NEW h \in Handles, ReleaseHandle(h) PROVE TypeOK'
  BY <1>9, TableStep DEF ReleaseHandle, Signal, IInv, TypeOK, TableOK, shutdown, Things
<1>10. ASSUME NEW j \in Jobs, ReleaseJob(j) PROVE TypeOK'
  BY <1>10, TableStep
     DEF ReleaseJob, Released, IInv, TypeOK, TableOK, children, shutdown, Things
<1>11. ASSUME ReleaseDone PROVE TypeOK'
  <2>1. ChildrenOK'
    BY <1>11 DEF ReleaseDone, children, shutdown, IInv, TypeOK, ChildrenOK
  <2>2. depth' \in 0..MaxDepth
    BY <1>11, BoundsAssumption DEF ReleaseDone, IInv, TypeOK, CallInv
  <2>3. CallOK'
    BY <1>11 DEF ReleaseDone, IInv, TypeOK, CallOK
  <2> QED
    BY <2>1, <2>2, <2>3, TableStep DEF TypeOK, TableOK, ChildrenOK, CallOK
<1>12. ASSUME NEW h \in Handles, Cancel(h) PROVE TypeOK'
  BY <1>12, TableStep DEF Cancel, Signal, IInv, TypeOK, TableOK, shutdown, Things
<1>13. ASSUME EndKill PROVE TypeOK'
  BY <1>13, TableStep DEF EndKill, Signal, IInv, TypeOK, TableOK, shutdown, call
<1>14. ASSUME EndPoll PROVE TypeOK'
  BY <1>14, TableStep
     DEF EndPoll, Reap, Ended, Break, Breaks, Fails, Back, IInv, TypeOK, TableOK, children,
         shutdown, CallInv
<1>15. ASSUME NEW j \in Jobs, CancelJob(j) PROVE TypeOK'
  BY <1>15, TableStep DEF CancelJob, IInv, TypeOK, TableOK, children, shutdown, Things
<1>16. ASSUME EndJob PROVE TypeOK'
  BY <1>16, TableStep DEF EndJob, Released, Back, IInv, TypeOK, TableOK, children, shutdown
<1>17. ASSUME NEW h \in Handles, NEW k \in KindsOf[h], Spawn(h, k) PROVE TypeOK'
  BY <1>17, TableStep, KindsAssumption DEF Spawn, IInv, TypeOK, TableOK, shutdown, call
<1>18. ASSUME NEW l \in Lists, Wait(l) PROVE TypeOK'
  <2>1. ChildrenOK'
    BY <1>18 DEF Wait, children, shutdown, IInv, TypeOK, ChildrenOK
  <2>2. depth' \in 0..MaxDepth
    BY <1>18 DEF Wait, IInv, TypeOK
  <2>3. CallOK'
    BY <1>18, ListsAreSeqs DEF Wait, IInv, TypeOK, CallOK
  <2> QED
    BY <2>1, <2>2, <2>3, TableStep DEF TypeOK, TableOK, ChildrenOK, CallOK
<1>19. ASSUME WaitNext PROVE TypeOK'
  <2>1. ChildrenOK' /\ depth' \in 0..MaxDepth
    BY <1>19 DEF WaitNext, children, shutdown, IInv, TypeOK, ChildrenOK
  <2>2. list' \in Seq(Handles) /\ held' \in Things \cup {None}
    <3>1. CASE list = <<>>
      BY <1>19, <3>1 DEF WaitNext, IInv
    <3>2. CASE list # <<>>
      <4>1. list' = Tail(list) /\ held' \in {held, Head(list)}
        BY <1>19, <3>2 DEF WaitNext
      <4> QED
        BY <3>2, <4>1 DEF IInv, TypeOK, Things
    <3> QED
      BY <3>1, <3>2
  <2>3. CallOK'
    BY <1>19, <2>2 DEF WaitNext, IInv, TypeOK, CallOK
  <2> QED
    BY <2>1, <2>3, TableStep DEF TypeOK, TableOK, ChildrenOK, CallOK
<1>20. ASSUME WaitPoll PROVE TypeOK'
  BY <1>20, TableStep
     DEF WaitPoll, Reap, Ended, Break, Breaks, Fails, IInv, TypeOK, TableOK, children,
         shutdown, Things, CallInv
<1>21. ASSUME NEW s \in {"term", "kill"}, WaitStops(s) PROVE TypeOK'
  BY <1>21, TableStep DEF WaitStops, Going, Signal, IInv, TypeOK, TableOK, shutdown, call
<1>22. ASSUME NEW l \in Lists, NEW p \in {"any", "timed", "ready"}, PollList(l, p) PROVE TypeOK'
  <2>1. ChildrenOK'
    BY <1>22 DEF PollList, children, shutdown, IInv, TypeOK, ChildrenOK
  <2>2. depth' \in 0..MaxDepth
    BY <1>22 DEF PollList, IInv, TypeOK
  <2>3. CallOK'
    BY <1>22, ListsAreSeqs DEF PollList, IInv, TypeOK, CallOK
  <2> QED
    BY <2>1, <2>2, <2>3, TableStep DEF TypeOK, TableOK, ChildrenOK, CallOK
<1>23. ASSUME PollFails PROVE TypeOK'
  <2> DEFINE h == list[at]
  <2>1. h \in Handles
    BY <1>23 DEF PollFails, IInv, TypeOK, CallInv, Polling
  <2>2. UNCHANGED children \/ Break(h)
    BY <1>23 DEF PollFails
  <2> HIDE DEF h
  <2>3. ChildrenOK'
    BY <1>23, <2>1, <2>2 DEF PollFails, Break, children, shutdown, IInv, TypeOK, ChildrenOK
  <2>4. CallOK' /\ depth' \in 0..MaxDepth
    BY <1>23 DEF PollFails, IInv, TypeOK, CallOK
  <2> QED
    BY <2>3, <2>4, TableStep DEF TypeOK, TableOK, ChildrenOK, CallOK
<1>24. ASSUME AnyEnds PROVE TypeOK'
  <2>1. ChildrenOK'
    BY <1>24 DEF AnyEnds, Reap, Ended, shutdown, IInv, TypeOK, ChildrenOK
  <2>2. depth' \in 0..MaxDepth
    BY <1>24 DEF AnyEnds, IInv, TypeOK
  <2>3. CallOK'
    BY <1>24 DEF AnyEnds, Reap, Ended, IInv, TypeOK, CallOK
  <2> QED
    BY <2>1, <2>2, <2>3, TableStep DEF TypeOK, TableOK, ChildrenOK, CallOK
<1>25. ASSUME AnyGoesOn PROVE TypeOK'
  <2> DEFINE h == list[at]
  <2>1. h \in Handles
    BY <1>25 DEF AnyGoesOn, IInv, TypeOK, CallInv, Polling
  <2>2. KillIfLate(h)
    BY <1>25 DEF AnyGoesOn
  <2> HIDE DEF h
  <2>3. ChildrenOK'
    BY <1>25, <2>1, <2>2
       DEF AnyGoesOn, KillIfLate, Signal, shutdown, IInv, TypeOK, ChildrenOK
  <2>4. (at' = 1 \/ at' = at + 1) /\ (list' = list \/ list' = <<>>) /\ pc' \in {pc, "script"}
    BY <1>25 DEF AnyGoesOn
  <2>5. list' \in Seq(Handles)
    BY <2>4, EmptyIsSeq DEF IInv, TypeOK
  <2>6. at' \in Nat \ {0}
    BY <2>4 DEF IInv, TypeOK
  <2>7. CallOK' /\ depth' \in 0..MaxDepth
    BY <1>25, <2>4, <2>5, <2>6 DEF AnyGoesOn, IInv, TypeOK, CallOK
  <2> QED
    BY <2>3, <2>7, TableStep DEF TypeOK, TableOK, ChildrenOK, CallOK
<1>26. ASSUME ReadyPoll PROVE TypeOK'
  <2>1. ChildrenOK'
    BY <1>26
       DEF ReadyPoll, Reap, Ended, KillIfLate, Going, Signal, children, shutdown, IInv,
           TypeOK, ChildrenOK
  <2>2. depth' \in 0..MaxDepth
    BY <1>26 DEF ReadyPoll, IInv, TypeOK
  <2>3. CallOK'
    BY <1>26
       DEF ReadyPoll, Reap, Ended, KillIfLate, Going, Signal, IInv, TypeOK, CallOK,
           CallInv, Polling
  <2> QED
    BY <2>1, <2>2, <2>3, TableStep DEF TypeOK, TableOK, ChildrenOK, CallOK
<1>27. ASSUME ReadyTakes PROVE TypeOK'
  <2>1. ChildrenOK' /\ depth' \in 0..MaxDepth
    BY <1>27 DEF ReadyTakes, children, shutdown, IInv, TypeOK, ChildrenOK
  <2>2. done' \subseteq done /\ (list' = list \/ list' = <<>>) /\ pc' \in {"script", "take"}
    BY <1>27 DEF ReadyTakes
  <2>3. list' \in Seq(Handles)
    BY <2>2, EmptyIsSeq DEF IInv, TypeOK
  <2>4. CallOK'
    BY <1>27, <2>2, <2>3 DEF ReadyTakes, IInv, TypeOK, CallOK
  <2> QED
    BY <2>1, <2>4, TableStep DEF TypeOK, TableOK, ChildrenOK, CallOK
<1>28. ASSUME NEW j \in Jobs, Start(j) PROVE TypeOK'
  <2>1. ChildrenOK'
    BY <1>28 DEF Start, children, shutdown, IInv, TypeOK, ChildrenOK
  <2>2. depth' \in 0..MaxDepth
    BY <1>28 DEF Start, IInv, TypeOK
  <2>3. CallOK'
    BY <1>28 DEF Start, call, IInv, TypeOK, CallOK
  <2> QED
    BY <2>1, <2>2, <2>3, TableStep DEF TypeOK, TableOK, ChildrenOK, CallOK
<1>29. ASSUME NEW j \in Jobs, WaitJob(j) PROVE TypeOK'
  BY <1>29, TableStep DEF WaitJob, IInv, TypeOK, TableOK, children, shutdown, Things
<1>30. ASSUME JobAnswered PROVE TypeOK'
  BY <1>30, TableStep DEF JobAnswered, Released, IInv, TypeOK, TableOK, children, shutdown
<1>31. ASSUME JobDue PROVE TypeOK'
  <2>1. UNCHANGED <<kind, os, sig, late, broken, loose, primary>> /\ complete' \in BOOLEAN
    BY <1>31 DEF JobDue, children, shutdown, IInv, TypeOK
  <2>2. (op' \in [Jobs -> {"none", "pending", "canceled", "answered"}] /\ reserved' \in Nat)
    BY <1>31, GiveUpTypes DEF JobDue, IInv
  <2>3. depth' \in 0..MaxDepth /\ CallOK'
    BY <1>31 DEF JobDue, GiveUpJob, IInv, TypeOK, CallOK
  <2> QED
    BY <2>1, <2>2, <2>3, TableStep DEF IInv, TypeOK, TableOK, CallOK
<1>32. ASSUME NEW h \in Handles, DriveInput(h) PROVE TypeOK'
  BY <1>32, TableStep DEF DriveInput, Break, Breaks, IInv, TypeOK, TableOK, shutdown, call
<1>33. ASSUME Checkpoint PROVE TypeOK'
  BY <1>33, TableStep DEF Checkpoint, IInv, TypeOK, TableOK, children, shutdown
<1>34. ASSUME NEW h \in Handles, SignalHandle(h) PROVE TypeOK'
  BY <1>34, TableStep DEF SignalHandle, Signal, IInv, TypeOK, TableOK, shutdown, Things
<1>35. ASSUME SignalError PROVE TypeOK'
  <2>1. UNCHANGED <<kind, os, sig, late, broken, loose, primary>> /\ complete' \in BOOLEAN
    BY <1>35 DEF SignalError, children, shutdown, IInv, TypeOK
  <2>2. (op' \in [Jobs -> {"none", "pending", "canceled", "answered"}] /\ reserved' \in Nat)
    BY <1>35, GiveUpTypes DEF SignalError, IInv
  <2>3. depth' \in 0..MaxDepth /\ CallOK'
    BY <1>35 DEF SignalError, GiveUpJob, IInv, TypeOK, CallOK
  <2> QED
    BY <2>1, <2>2, <2>3, TableStep DEF IInv, TypeOK, TableOK, CallOK
<1>36. ASSUME NEW j \in Jobs, SignalJob(j) PROVE TypeOK'
  BY <1>36, TableStep
     DEF SignalJob, Released, IInv, TypeOK, TableOK, children, shutdown, Things
<1>37. ASSUME SignalDone PROVE TypeOK'
  <2>1. UNCHANGED <<kind, os, sig, late, broken, loose, primary>> /\ complete' \in BOOLEAN
    BY <1>37 DEF SignalDone, children, IInv
  <2>2. (op' \in [Jobs -> {"none", "pending", "canceled", "answered"}] /\ reserved' \in Nat)
    BY <1>37, GiveUpTypes DEF SignalDone, IInv
  <2>3. depth' \in 0..MaxDepth /\ CallOK'
    BY <1>37 DEF SignalDone, GiveUpJob, IInv, TypeOK, CallOK
  <2> QED
    BY <2>1, <2>2, <2>3, TableStep DEF IInv, TypeOK, TableOK, CallOK
<1>38. CASE UNCHANGED vars
  BY <1>38 DEF vars, children, table, shutdown, call, IInv, TypeOK
<1> QED
  BY <1>1, <1>2, <1>3, <1>4, <1>5, <1>6, <1>7, <1>8, <1>9, <1>10, <1>11, <1>12, <1>13, 
     <1>14, <1>15, <1>16, <1>17, <1>18, <1>19, <1>20, <1>21, <1>22, <1>23, <1>24, <1>25,
     <1>26, <1>27, <1>28, <1>29, <1>30, <1>31, <1>32, <1>33, <1>34, <1>35, <1>36, <1>37,
     <1>38
     DEF Next, Script, Calls, Stops, Environment

-----------------------------------------------------------------------------
(* What the evaluator holds *)

\* Every step leaves the evaluator holding what its place says.
LEMMA CallStep ==
  ASSUME IInv, [Next]_vars
  PROVE  CallInv'
<1>1. ASSUME NEW h \in Handles, ChildEnds(h) PROVE CallInv'
  BY <1>1 DEF ChildEnds, IInv, CallInv, call
<1>2. ASSUME NEW h \in Handles, Late(h) PROVE CallInv'
  BY <1>2 DEF Late, IInv, CallInv, call
<1>3. ASSUME NEW h \in Handles, ReaperReaps(h) PROVE CallInv'
  BY <1>3 DEF ReaperReaps, Reap, Ended, IInv, CallInv, call
<1>4. ASSUME NEW j \in Jobs, Answers(j) PROVE CallInv'
  BY <1>4 DEF Answers, IInv, CallInv, call
<1>5. ASSUME SignalArrives PROVE CallInv'
  BY <1>5 DEF SignalArrives, IInv, CallInv, call
<1>6. ASSUME Enter PROVE CallInv'
  BY <1>6 DEF Enter, IInv, TypeOK, CallInv, call
<1>7. ASSUME NEW r \in Things, NEW s \in Scopes, Transfer(r, s) PROVE CallInv'
  BY <1>7 DEF Transfer, IInv, CallInv, call
<1>8. ASSUME NEW then \in {"defers", "exit"}, LeaveScope(then) PROVE CallInv'
  BY <1>8 DEF LeaveScope, IInv, CallInv, Polling
<1>9. ASSUME NEW h \in Handles, ReleaseHandle(h) PROVE CallInv'
  BY <1>9, ResourcesAssumption DEF ReleaseHandle, Take, Signal, IInv, CallInv, Polling
<1>10. ASSUME NEW j \in Jobs, ReleaseJob(j) PROVE CallInv'
  BY <1>10 DEF ReleaseJob, Take, Released, IInv, CallInv, Polling
<1>11. ASSUME ReleaseDone PROVE CallInv'
  BY <1>11 DEF ReleaseDone, IInv, CallInv, Polling
<1>12. ASSUME NEW h \in Handles, Cancel(h) PROVE CallInv'
  BY <1>12, ResourcesAssumption DEF Cancel, Take, Signal, IInv, CallInv, Polling
<1>13. ASSUME EndKill PROVE CallInv'
  BY <1>13 DEF EndKill, Signal, IInv, CallInv, call
<1>14. ASSUME EndPoll PROVE CallInv'
  BY <1>14, ResourcesAssumption
     DEF EndPoll, Reap, Ended, Break, Breaks, Fails, Back, IInv, TypeOK, CallInv, Polling
<1>15. ASSUME NEW j \in Jobs, CancelJob(j) PROVE CallInv'
  BY <1>15, ResourcesAssumption DEF CancelJob, Take, IInv, CallInv, Polling
<1>16. ASSUME EndJob PROVE CallInv'
  BY <1>16, ResourcesAssumption DEF EndJob, Released, Back, IInv, TypeOK, CallInv, Polling
<1>17. ASSUME NEW h \in Handles, NEW k \in KindsOf[h], Spawn(h, k) PROVE CallInv'
  BY <1>17 DEF Spawn, Insert, IInv, CallInv, call
<1>18. ASSUME NEW l \in Lists, Wait(l) PROVE CallInv'
  BY <1>18 DEF Wait, IInv, CallInv, Polling
<1>19. ASSUME WaitNext PROVE CallInv'
  BY <1>19, ResourcesAssumption DEF WaitNext, Take, IInv, TypeOK, CallInv, Polling
<1>20. ASSUME WaitPoll PROVE CallInv'
  BY <1>20, ResourcesAssumption
     DEF WaitPoll, Reap, Ended, Break, Breaks, Fails, IInv, CallInv
<1>21. ASSUME NEW s \in {"term", "kill"}, WaitStops(s) PROVE CallInv'
  BY <1>21 DEF WaitStops, Going, Signal, IInv, CallInv, call
<1>22. ASSUME NEW l \in Lists, NEW p \in {"any", "timed", "ready"}, PollList(l, p) PROVE CallInv'
  <2>1. Len(l) \in Nat \ {0}
    BY DEF Lists
  <2> QED
    BY <1>22, <2>1 DEF PollList, IInv, CallInv, Polling
<1>23. ASSUME PollFails PROVE CallInv'
  BY <1>23 DEF PollFails, Fails, Break, Breaks, IInv, CallInv, Polling
<1>24. ASSUME AnyEnds PROVE CallInv'
  BY <1>24 DEF AnyEnds, Reap, Ended, Take, IInv, CallInv, Polling
<1>25. ASSUME AnyGoesOn PROVE CallInv'
  BY <1>25 DEF AnyGoesOn, KillIfLate, Going, Signal, IInv, CallInv, Polling
<1>26. ASSUME ReadyPoll PROVE CallInv'
  BY <1>26 DEF ReadyPoll, Reap, Ended, KillIfLate, Going, Signal, IInv, CallInv, Polling
<1>27. ASSUME ReadyTakes PROVE CallInv'
  BY <1>27 DEF ReadyTakes, Take, IInv, CallInv, Polling
<1>28. ASSUME NEW j \in Jobs, Start(j) PROVE CallInv'
  BY <1>28 DEF Start, Insert, IInv, CallInv, call
<1>29. ASSUME NEW j \in Jobs, WaitJob(j) PROVE CallInv'
  BY <1>29, ResourcesAssumption DEF WaitJob, Take, IInv, CallInv, Polling
<1>30. ASSUME JobAnswered PROVE CallInv'
  BY <1>30, ResourcesAssumption DEF JobAnswered, Released, IInv, CallInv, Polling
<1>31. ASSUME JobDue PROVE CallInv'
  BY <1>31, ResourcesAssumption DEF JobDue, GiveUpJob, Released, IInv, CallInv, Polling
<1>32. ASSUME NEW h \in Handles, DriveInput(h) PROVE CallInv'
  BY <1>32 DEF DriveInput, Break, Breaks, IInv, CallInv, call
<1>33. ASSUME Checkpoint PROVE CallInv'
  BY <1>33 DEF Checkpoint, IInv, CallInv, Polling
<1>34. ASSUME NEW h \in Handles, SignalHandle(h) PROVE CallInv'
  BY <1>34, ResourcesAssumption DEF SignalHandle, Take, Signal, IInv, CallInv, Polling
<1>35. ASSUME SignalError PROVE CallInv'
  BY <1>35, ResourcesAssumption DEF SignalError, GiveUpJob, Released, IInv, CallInv, Polling
<1>36. ASSUME NEW j \in Jobs, SignalJob(j) PROVE CallInv'
  BY <1>36, ResourcesAssumption DEF SignalJob, Take, Released, IInv, CallInv, Polling
<1>37. ASSUME SignalDone PROVE CallInv'
  BY <1>37, ResourcesAssumption DEF SignalDone, GiveUpJob, Released, IInv, CallInv, Polling
<1>38. CASE UNCHANGED vars
  BY <1>38 DEF vars, IInv, CallInv, call
<1> QED
  BY <1>1, <1>2, <1>3, <1>4, <1>5, <1>6, <1>7, <1>8, <1>9, <1>10, <1>11, <1>12, <1>13, 
     <1>14, <1>15, <1>16, <1>17, <1>18, <1>19, <1>20, <1>21, <1>22, <1>23, <1>24, <1>25,
     <1>26, <1>27, <1>28, <1>29, <1>30, <1>31, <1>32, <1>33, <1>34, <1>35, <1>36, <1>37,
     <1>38
     DEF Next, Script, Calls, Stops, Environment

\* What a step takes leaves the table, and nothing is made twice.
LEMMA ResourceStep ==
  ASSUME IInv, [Next]_vars
  PROVE  ResourceInv'
<1>1. ASSUME NEW h \in Handles, ChildEnds(h) PROVE ResourceInv'
  BY <1>1 DEF ChildEnds, IInv, ResourceInv, table, call
<1>2. ASSUME NEW h \in Handles, Late(h) PROVE ResourceInv'
  BY <1>2 DEF Late, IInv, ResourceInv, table, call
<1>3. ASSUME NEW h \in Handles, ReaperReaps(h) PROVE ResourceInv'
  BY <1>3 DEF ReaperReaps, Reap, Ended, IInv, ResourceInv, table, call
<1>4. ASSUME NEW j \in Jobs, Answers(j) PROVE ResourceInv'
  BY <1>4 DEF Answers, IInv, ResourceInv, children, table, call
<1>5. ASSUME SignalArrives PROVE ResourceInv'
  BY <1>5 DEF SignalArrives, IInv, ResourceInv, children, table, call
<1>6. ASSUME Enter PROVE ResourceInv'
  BY <1>6 DEF Enter, IInv, ResourceInv, children, table, call
<1>7. ASSUME NEW r \in Things, NEW s \in Scopes, Transfer(r, s) PROVE ResourceInv'
  BY <1>7 DEF Transfer, Live, IInv, CallInv, ResourceInv, children, call
<1>8. ASSUME NEW then \in {"defers", "exit"}, LeaveScope(then) PROVE ResourceInv'
  BY <1>8 DEF LeaveScope, IInv, ResourceInv, children, table
<1>9. ASSUME NEW h \in Handles, ReleaseHandle(h) PROVE ResourceInv'
  BY <1>9 DEF ReleaseHandle, Take, Signal, IInv, TypeOK, CallInv, ResourceInv, Things
<1>10. ASSUME NEW j \in Jobs, ReleaseJob(j) PROVE ResourceInv'
  BY <1>10
     DEF ReleaseJob, Take, Released, IInv, TypeOK, CallInv, ResourceInv, children, Things
<1>11. ASSUME ReleaseDone PROVE ResourceInv'
  BY <1>11 DEF ReleaseDone, IInv, ResourceInv, children, table
<1>12. ASSUME NEW h \in Handles, Cancel(h) PROVE ResourceInv'
  BY <1>12 DEF Cancel, Take, Signal, Live, IInv, TypeOK, CallInv, ResourceInv, Things
<1>13. ASSUME EndKill PROVE ResourceInv'
  BY <1>13 DEF EndKill, Signal, IInv, ResourceInv, table, call
<1>14. ASSUME EndPoll PROVE ResourceInv'
  BY <1>14, ResourcesAssumption
     DEF EndPoll, Reap, Ended, Break, Breaks, Fails, IInv, TypeOK, ResourceInv, children,
         table
<1>15. ASSUME NEW j \in Jobs, CancelJob(j) PROVE ResourceInv'
  BY <1>15, ResourcesAssumption
     DEF CancelJob, Take, Live, IInv, TypeOK, ResourceInv, children, Things
<1>16. ASSUME EndJob PROVE ResourceInv'
  BY <1>16, ResourcesAssumption DEF EndJob, Released, IInv, ResourceInv, children, table
<1>17. ASSUME NEW h \in Handles, NEW k \in KindsOf[h], Spawn(h, k) PROVE ResourceInv'
  <2>1. kind[h] = "none" /\ k # "none" /\ k \in Kinds
    BY <1>17, KindsAssumption DEF Spawn, Kinds
  <2>2. /\ owner' = [owner EXCEPT ![h] = depth]
        /\ kind' = [kind EXCEPT ![h] = k] /\ os' = [os EXCEPT ![h] = "running"]
        /\ UNCHANGED <<loose, broken, op, done, held, ending>>
    BY <1>17 DEF Spawn, Insert, call
  <2>3. h \notin loose \cup broken \cup done \cup {held, ending} /\ h \in Things
    BY <2>1 DEF IInv, ResourceInv, Things
  <2> QED
    BY <2>1, <2>2, <2>3, ResourcesAssumption DEF IInv, TypeOK, ResourceInv
<1>18. ASSUME NEW l \in Lists, Wait(l) PROVE ResourceInv'
  BY <1>18 DEF Wait, IInv, ResourceInv, children, table
<1>19. ASSUME WaitNext PROVE ResourceInv'
  BY <1>19
     DEF WaitNext, Take, Live, IInv, TypeOK, CallInv, ResourceInv, children, table, Things
<1>20. ASSUME WaitPoll PROVE ResourceInv'
  BY <1>20, ResourcesAssumption
     DEF WaitPoll, Reap, Ended, Break, Breaks, Fails, IInv, TypeOK, ResourceInv, children,
         table
<1>21. ASSUME NEW s \in {"term", "kill"}, WaitStops(s) PROVE ResourceInv'
  BY <1>21 DEF WaitStops, Going, Signal, IInv, ResourceInv, table, call
<1>22. ASSUME NEW l \in Lists, NEW p \in {"any", "timed", "ready"}, PollList(l, p) PROVE ResourceInv'
  BY <1>22 DEF PollList, IInv, ResourceInv, children, table
<1>23. ASSUME PollFails PROVE ResourceInv'
  <2> DEFINE h == list[at]
  <2>1. h \in Handles
    BY <1>23 DEF PollFails, IInv, TypeOK, CallInv, Polling
  <2>2. UNCHANGED children \/ Break(h)
    BY <1>23 DEF PollFails
  <2> HIDE DEF h
  <2> QED
    BY <1>23, <2>1, <2>2
       DEF PollFails, Break, Breaks, children, table, IInv, TypeOK, ResourceInv
<1>24. ASSUME AnyEnds PROVE ResourceInv'
  BY <1>24 DEF AnyEnds, Reap, Ended, Take, IInv, ResourceInv
<1>25. ASSUME AnyGoesOn PROVE ResourceInv'
  BY <1>25 DEF AnyGoesOn, KillIfLate, Going, Signal, IInv, ResourceInv, table
<1>26. ASSUME ReadyPoll PROVE ResourceInv'
  BY <1>26
     DEF ReadyPoll, Live, Reap, Ended, KillIfLate, Going, Signal, IInv, TypeOK,
         ResourceInv, children, table
<1>27. ASSUME ReadyTakes PROVE ResourceInv'
  BY <1>27 DEF ReadyTakes, Take, IInv, ResourceInv, children
<1>28. ASSUME NEW j \in Jobs, Start(j) PROVE ResourceInv'
  BY <1>28, ResourcesAssumption DEF Start, Insert, IInv, TypeOK, ResourceInv, children, call
<1>29. ASSUME NEW j \in Jobs, WaitJob(j) PROVE ResourceInv'
  BY <1>29, ResourcesAssumption
     DEF WaitJob, Take, Live, IInv, TypeOK, ResourceInv, children, Things
<1>30. ASSUME JobAnswered PROVE ResourceInv'
  BY <1>30, ResourcesAssumption
     DEF JobAnswered, Released, IInv, ResourceInv, children, table
<1>31. ASSUME JobDue PROVE ResourceInv'
  BY <1>31, ResourcesAssumption
     DEF JobDue, GiveUpJob, Released, IInv, ResourceInv, children, table
<1>32. ASSUME NEW h \in Handles, DriveInput(h) PROVE ResourceInv'
  BY <1>32 DEF DriveInput, Break, Breaks, IInv, TypeOK, ResourceInv, table, call
<1>33. ASSUME Checkpoint PROVE ResourceInv'
  BY <1>33 DEF Checkpoint, IInv, ResourceInv, children, table
<1>34. ASSUME NEW h \in Handles, SignalHandle(h) PROVE ResourceInv'
  BY <1>34 DEF SignalHandle, Take, Signal, Live, IInv, TypeOK, CallInv, ResourceInv, Things
<1>35. ASSUME SignalError PROVE ResourceInv'
  BY <1>35, ResourcesAssumption
     DEF SignalError, GiveUpJob, Released, IInv, TypeOK, ResourceInv, children, table
<1>36. ASSUME NEW j \in Jobs, SignalJob(j) PROVE ResourceInv'
  BY <1>36, ResourcesAssumption
     DEF SignalJob, Take, Released, Live, IInv, TypeOK, ResourceInv, children, Things
<1>37. ASSUME SignalDone PROVE ResourceInv'
  BY <1>37, ResourcesAssumption
     DEF SignalDone, GiveUpJob, Released, IInv, TypeOK, ResourceInv, children, table
<1>38. CASE UNCHANGED vars
  BY <1>38 DEF vars, IInv, ResourceInv, children, table, call
<1> QED
  BY <1>1, <1>2, <1>3, <1>4, <1>5, <1>6, <1>7, <1>8, <1>9, <1>10, <1>11, <1>12, <1>13, 
     <1>14, <1>15, <1>16, <1>17, <1>18, <1>19, <1>20, <1>21, <1>22, <1>23, <1>24, <1>25,
     <1>26, <1>27, <1>28, <1>29, <1>30, <1>31, <1>32, <1>33, <1>34, <1>35, <1>36, <1>37,
     <1>38
     DEF Next, Script, Calls, Stops, Environment

-----------------------------------------------------------------------------
(* Nothing escapes, and the table is unreaped *)

\* No step leaves a child or a transport without an owner.
LEMMA OwnStep ==
  ASSUME IInv, [Next]_vars
  PROVE  NothingEscapes'
<1>1. ASSUME NEW h \in Handles, ChildEnds(h) PROVE NothingEscapes'
  BY <1>1 DEF ChildEnds, Live, IInv, NothingEscapes, table, call
<1>2. ASSUME NEW h \in Handles, Late(h) PROVE NothingEscapes'
  BY <1>2 DEF Late, Live, IInv, NothingEscapes, table, call
<1>3. ASSUME NEW h \in Handles, ReaperReaps(h) PROVE NothingEscapes'
  BY <1>3 DEF ReaperReaps, Reap, Ended, Live, IInv, NothingEscapes, table, call
<1>4. ASSUME NEW j \in Jobs, Answers(j) PROVE NothingEscapes'
  BY <1>4 DEF Answers, Live, IInv, NothingEscapes, children, table, call
<1>5. ASSUME SignalArrives PROVE NothingEscapes'
  BY <1>5 DEF SignalArrives, Live, IInv, NothingEscapes, children, table, call
<1>6. ASSUME Enter PROVE NothingEscapes'
  BY <1>6
     DEF Enter, Live, IInv, TypeOK, CallInv, ResourceInv, NothingEscapes, children, table
<1>7. ASSUME NEW r \in Things, NEW s \in Scopes, Transfer(r, s) PROVE NothingEscapes'
  BY <1>7 DEF Transfer, Live, Scopes, IInv, TypeOK, NothingEscapes, children, call
<1>8. ASSUME NEW then \in {"defers", "exit"}, LeaveScope(then) PROVE NothingEscapes'
  <2>1. CASE counts[depth] = 0
    <3>1. depth \in Scopes
      BY <1>8 DEF LeaveScope, IInv, TypeOK, Scopes
    <3>2. Owned(depth) = {}
      BY <2>1, <3>1, OwnedFinite, FS_EmptySet DEF IInv, CountsExact
    <3> QED
      BY <1>8, <3>1, <3>2
         DEF LeaveScope, table, children, IInv, TypeOK, NothingEscapes, Owned, Live
  <2>2. CASE counts[depth] # 0
    BY <1>8, <2>2 DEF LeaveScope, table, children, IInv, NothingEscapes, Live
  <2> QED
    BY <2>1, <2>2
<1>9. ASSUME NEW h \in Handles, ReleaseHandle(h) PROVE NothingEscapes'
  BY <1>9, ResourcesAssumption
     DEF ReleaseHandle, Take, Signal, Live, IInv, TypeOK, CallInv, NothingEscapes
<1>10. ASSUME NEW j \in Jobs, ReleaseJob(j) PROVE NothingEscapes'
  BY <1>10
     DEF ReleaseJob, Take, Released, Live, IInv, TypeOK, CallInv, NothingEscapes, children
<1>11. ASSUME ReleaseDone PROVE NothingEscapes'
  BY <1>11 DEF ReleaseDone, Live, Owned, IInv, TypeOK, NothingEscapes, children, table
<1>12. ASSUME NEW h \in Handles, Cancel(h) PROVE NothingEscapes'
  BY <1>12, ResourcesAssumption
     DEF Cancel, Take, Signal, Live, IInv, TypeOK, CallInv, NothingEscapes
<1>13. ASSUME EndKill PROVE NothingEscapes'
  BY <1>13 DEF EndKill, Signal, Live, IInv, NothingEscapes, table, call
<1>14. ASSUME EndPoll PROVE NothingEscapes'
  <2>1. ending \in Handles /\ pc' # "end" /\ ending' = None
    BY <1>14 DEF EndPoll, Back, IInv, CallInv
  <2>2. os' = [os EXCEPT ![ending] = "reaped"] /\ loose' = loose
    BY <1>14, <2>1 DEF EndPoll, Reap, Break, Fails, children, IInv, TypeOK, ResourceInv
  <2>3. UNCHANGED <<depth, owner, op, held>>
    BY <1>14 DEF EndPoll, table
  <2> QED
    BY <2>1, <2>2, <2>3 DEF IInv, TypeOK, NothingEscapes, Live
<1>15. ASSUME NEW j \in Jobs, CancelJob(j) PROVE NothingEscapes'
  BY <1>15 DEF CancelJob, Take, Live, IInv, TypeOK, CallInv, NothingEscapes, children
<1>16. ASSUME EndJob PROVE NothingEscapes'
  BY <1>16 DEF EndJob, Released, Live, IInv, CallInv, NothingEscapes, children, table
<1>17. ASSUME NEW h \in Handles, NEW k \in KindsOf[h], Spawn(h, k) PROVE NothingEscapes'
  BY <1>17 DEF Spawn, Insert, Live, IInv, TypeOK, CallInv, NothingEscapes, Things
<1>18. ASSUME NEW l \in Lists, Wait(l) PROVE NothingEscapes'
  BY <1>18 DEF Wait, Live, IInv, NothingEscapes, children, table
<1>19. ASSUME WaitNext PROVE NothingEscapes'
  <2>1. held = None /\ UNCHANGED <<depth, os, loose, op, ending>>
    BY <1>19 DEF WaitNext, children
  <2>2. \/ UNCHANGED <<owner, held>>
        \/ \E h \in Handles : owner' = [owner EXCEPT ![h] = 0] /\ held' = h
    BY <1>19 DEF WaitNext, Take, table, IInv, TypeOK
  <2>3. CASE UNCHANGED <<owner, held>>
    BY <2>1, <2>3 DEF IInv, NothingEscapes, Live
  <2>4. ASSUME NEW h \in Handles, owner' = [owner EXCEPT ![h] = 0], held' = h
        PROVE  NothingEscapes'
    <3>1. \A r \in Things : owner'[r] = IF r = h THEN 0 ELSE owner[r]
      BY <2>4 DEF IInv, TypeOK
    <3>2. \A j \in Jobs : j \in Things /\ j # h /\ j # None
      BY ResourcesAssumption DEF Things
    <3>3. \A r \in Things : owner'[r] <= depth'
      BY <2>1, <3>1, BoundsAssumption DEF IInv, TypeOK, NothingEscapes
    <3>4. \A g \in Handles :
            os'[g] \in {"running", "zombie"} => owner'[g] # 0 \/ g \in loose' \cup {held', ending'}
      BY <2>1, <2>4, <3>1, ResourcesAssumption DEF IInv, NothingEscapes, Live
    <3>5. \A j \in Jobs : op'[j] = "pending" => owner'[j] # 0
      BY <2>1, <3>1, <3>2 DEF IInv, NothingEscapes, Live
    <3> QED
      BY <3>3, <3>4, <3>5 DEF NothingEscapes, Live
  <2> QED
    BY <2>2, <2>3, <2>4
<1>20. ASSUME WaitPoll PROVE NothingEscapes'
  BY <1>20
     DEF WaitPoll, Reap, Ended, Break, Breaks, Fails, Live, IInv, TypeOK, CallInv,
         ResourceInv, NothingEscapes, children, table, shutdown
<1>21. ASSUME NEW s \in {"term", "kill"}, WaitStops(s) PROVE NothingEscapes'
  BY <1>21 DEF WaitStops, Going, Signal, Live, IInv, NothingEscapes, table, call
<1>22. ASSUME NEW l \in Lists, NEW p \in {"any", "timed", "ready"}, PollList(l, p) PROVE NothingEscapes'
  BY <1>22 DEF PollList, Live, IInv, NothingEscapes, children, table
<1>23. ASSUME PollFails PROVE NothingEscapes'
  BY <1>23
     DEF PollFails, Live, Fails, Break, Breaks, IInv, TypeOK, NothingEscapes, children,
         table
<1>24. ASSUME AnyEnds PROVE NothingEscapes'
  BY <1>24, ResourcesAssumption
     DEF AnyEnds, Live, Reap, Ended, Take, Polling, IInv, TypeOK, CallInv, NothingEscapes
<1>25. ASSUME AnyGoesOn PROVE NothingEscapes'
  BY <1>25 DEF AnyGoesOn, Live, KillIfLate, Going, Signal, IInv, NothingEscapes, table
<1>26. ASSUME ReadyPoll PROVE NothingEscapes'
  BY <1>26
     DEF ReadyPoll, Live, Reap, Ended, KillIfLate, Going, Signal, IInv, TypeOK,
         NothingEscapes, children, table
<1>27. ASSUME ReadyTakes PROVE NothingEscapes'
  BY <1>27, ResourcesAssumption
     DEF ReadyTakes, Take, Live, IInv, TypeOK, ResourceInv, NothingEscapes, children
<1>28. ASSUME NEW j \in Jobs, Start(j) PROVE NothingEscapes'
  BY <1>28 DEF Start, Insert, Live, IInv, TypeOK, CallInv, NothingEscapes, children, Things
<1>29. ASSUME NEW j \in Jobs, WaitJob(j) PROVE NothingEscapes'
  BY <1>29 DEF WaitJob, Take, Live, IInv, TypeOK, CallInv, NothingEscapes, children
<1>30. ASSUME JobAnswered PROVE NothingEscapes'
  BY <1>30 DEF JobAnswered, Released, Live, IInv, CallInv, NothingEscapes, children, table
<1>31. ASSUME JobDue PROVE NothingEscapes'
  BY <1>31
     DEF JobDue, GiveUpJob, Released, Live, IInv, TypeOK, CallInv, NothingEscapes,
         children, table
<1>32. ASSUME NEW h \in Handles, DriveInput(h) PROVE NothingEscapes'
  BY <1>32 DEF DriveInput, Live, Break, Breaks, IInv, NothingEscapes, table, call
<1>33. ASSUME Checkpoint PROVE NothingEscapes'
  BY <1>33 DEF Checkpoint, Live, IInv, NothingEscapes, children, table
<1>34. ASSUME NEW h \in Handles, SignalHandle(h) PROVE NothingEscapes'
  BY <1>34, ResourcesAssumption
     DEF SignalHandle, Take, Signal, Live, IInv, TypeOK, CallInv, NothingEscapes
<1>35. ASSUME SignalError PROVE NothingEscapes'
  <2>1. UNCHANGED <<depth, owner, os, loose, ending>>
    BY <1>35 DEF SignalError, table, children
  <2>2. held \notin Handles
    BY <1>35 DEF SignalError, IInv, CallInv
  <2>3. \/ UNCHANGED <<op, held>>
        \/ /\ op' = [op EXCEPT ![held] = IF @ = "pending" THEN "canceled" ELSE @]
           /\ held' = None
    BY <1>35 DEF SignalError, GiveUpJob
  <2> QED
    BY <2>1, <2>2, <2>3 DEF IInv, TypeOK, NothingEscapes, Live
<1>36. ASSUME NEW j \in Jobs, SignalJob(j) PROVE NothingEscapes'
  BY <1>36
     DEF SignalJob, Take, Released, Live, IInv, TypeOK, CallInv, NothingEscapes, children
<1>37. ASSUME SignalDone PROVE NothingEscapes'
  <2>1. UNCHANGED <<depth, owner, os, loose, ending>>
    BY <1>37 DEF SignalDone, table, children
  <2>2. held \notin Handles
    BY <1>37 DEF SignalDone, IInv, CallInv
  <2>3. \/ UNCHANGED <<op, held>>
        \/ /\ op' = [op EXCEPT ![held] = IF @ = "pending" THEN "canceled" ELSE @]
           /\ held' = None
    BY <1>37 DEF SignalDone, GiveUpJob
  <2> QED
    BY <2>1, <2>2, <2>3 DEF IInv, TypeOK, NothingEscapes, Live
<1>38. CASE UNCHANGED vars
  BY <1>38 DEF vars, Live, IInv, NothingEscapes, children, table, call
<1> QED
  BY <1>1, <1>2, <1>3, <1>4, <1>5, <1>6, <1>7, <1>8, <1>9, <1>10, <1>11, <1>12, <1>13, 
     <1>14, <1>15, <1>16, <1>17, <1>18, <1>19, <1>20, <1>21, <1>22, <1>23, <1>24, <1>25,
     <1>26, <1>27, <1>28, <1>29, <1>30, <1>31, <1>32, <1>33, <1>34, <1>35, <1>36, <1>37,
     <1>38
     DEF Next, Script, Calls, Stops, Environment

\* No step leaves a reaped child in the table, but for the exceptions named.
LEMMA UnreapedStep ==
  ASSUME IInv, [Next]_vars
  PROVE  TableIsUnreaped'
<1>1. ASSUME NEW h \in Handles, ChildEnds(h) PROVE TableIsUnreaped'
  BY <1>1 DEF ChildEnds, Live, IInv, TableIsUnreaped, table, call
<1>2. ASSUME NEW h \in Handles, Late(h) PROVE TableIsUnreaped'
  BY <1>2 DEF Late, Live, IInv, TableIsUnreaped, table, call
<1>3. ASSUME NEW h \in Handles, ReaperReaps(h) PROVE TableIsUnreaped'
  BY <1>3
     DEF ReaperReaps, Reap, Ended, Live, IInv, ResourceInv, TableIsUnreaped, table, call
<1>4. ASSUME NEW j \in Jobs, Answers(j) PROVE TableIsUnreaped'
  BY <1>4 DEF Answers, Live, IInv, TableIsUnreaped, children, table, call
<1>5. ASSUME SignalArrives PROVE TableIsUnreaped'
  BY <1>5 DEF SignalArrives, Live, IInv, TableIsUnreaped, children, table, call
<1>6. ASSUME Enter PROVE TableIsUnreaped'
  BY <1>6 DEF Enter, Live, IInv, TableIsUnreaped, children, table, call
<1>7. ASSUME NEW r \in Things, NEW s \in Scopes, Transfer(r, s) PROVE TableIsUnreaped'
  BY <1>7 DEF Transfer, Live, IInv, TableIsUnreaped, children, call
<1>8. ASSUME NEW then \in {"defers", "exit"}, LeaveScope(then) PROVE TableIsUnreaped'
  BY <1>8 DEF LeaveScope, Live, IInv, TableIsUnreaped, children, table
<1>9. ASSUME NEW h \in Handles, ReleaseHandle(h) PROVE TableIsUnreaped'
  BY <1>9 DEF ReleaseHandle, Take, Signal, Live, IInv, TableIsUnreaped
<1>10. ASSUME NEW j \in Jobs, ReleaseJob(j) PROVE TableIsUnreaped'
  BY <1>10 DEF ReleaseJob, Take, Released, Live, IInv, TableIsUnreaped, children
<1>11. ASSUME ReleaseDone PROVE TableIsUnreaped'
  BY <1>11 DEF ReleaseDone, Live, IInv, TableIsUnreaped, children, table
<1>12. ASSUME NEW h \in Handles, Cancel(h) PROVE TableIsUnreaped'
  BY <1>12 DEF Cancel, Take, Signal, Live, IInv, TableIsUnreaped
<1>13. ASSUME EndKill PROVE TableIsUnreaped'
  BY <1>13 DEF EndKill, Signal, Live, IInv, TableIsUnreaped, table, call
<1>14. ASSUME EndPoll PROVE TableIsUnreaped'
  BY <1>14, ResourcesAssumption
     DEF EndPoll, Reap, Ended, Break, Breaks, Fails, Live, IInv, TypeOK, ResourceInv,
         TableIsUnreaped, children, table
<1>15. ASSUME NEW j \in Jobs, CancelJob(j) PROVE TableIsUnreaped'
  BY <1>15 DEF CancelJob, Take, Live, IInv, TableIsUnreaped, children
<1>16. ASSUME EndJob PROVE TableIsUnreaped'
  BY <1>16 DEF EndJob, Released, Live, IInv, TableIsUnreaped, children, table
<1>17. ASSUME NEW h \in Handles, NEW k \in KindsOf[h], Spawn(h, k) PROVE TableIsUnreaped'
  BY <1>17 DEF Spawn, Insert, Live, IInv, TypeOK, TableIsUnreaped, call
<1>18. ASSUME NEW l \in Lists, Wait(l) PROVE TableIsUnreaped'
  BY <1>18 DEF Wait, Live, IInv, TableIsUnreaped, children, table
<1>19. ASSUME WaitNext PROVE TableIsUnreaped'
  BY <1>19 DEF WaitNext, Take, Live, IInv, TypeOK, TableIsUnreaped, children, table, Things
<1>20. ASSUME WaitPoll PROVE TableIsUnreaped'
  BY <1>20
     DEF WaitPoll, Reap, Ended, Break, Breaks, Fails, Live, IInv, TypeOK, ResourceInv,
         TableIsUnreaped, children, table
<1>21. ASSUME NEW s \in {"term", "kill"}, WaitStops(s) PROVE TableIsUnreaped'
  BY <1>21 DEF WaitStops, Going, Signal, Live, IInv, TableIsUnreaped, table, call
<1>22. ASSUME NEW l \in Lists, NEW p \in {"any", "timed", "ready"}, PollList(l, p) PROVE TableIsUnreaped'
  BY <1>22 DEF PollList, Live, IInv, CallInv, TableIsUnreaped, children, table
<1>23. ASSUME PollFails PROVE TableIsUnreaped'
  BY <1>23
     DEF PollFails, Live, Fails, Break, Breaks, IInv, TypeOK, TableIsUnreaped, children,
         table
<1>24. ASSUME AnyEnds PROVE TableIsUnreaped'
  BY <1>24 DEF AnyEnds, Live, Reap, Ended, Take, IInv, TypeOK, TableIsUnreaped, Things
<1>25. ASSUME AnyGoesOn PROVE TableIsUnreaped'
  BY <1>25 DEF AnyGoesOn, Live, KillIfLate, Going, Signal, IInv, TableIsUnreaped, table
<1>26. ASSUME ReadyPoll PROVE TableIsUnreaped'
  BY <1>26
     DEF ReadyPoll, Live, Reap, Ended, KillIfLate, Going, Signal, IInv, TypeOK,
         TableIsUnreaped, children, table
<1>27. ASSUME ReadyTakes PROVE TableIsUnreaped'
  BY <1>27 DEF ReadyTakes, Take, Live, IInv, TypeOK, TableIsUnreaped, children, Things
<1>28. ASSUME NEW j \in Jobs, Start(j) PROVE TableIsUnreaped'
  BY <1>28, ResourcesAssumption
     DEF Start, Insert, Live, IInv, TableIsUnreaped, children, call
<1>29. ASSUME NEW j \in Jobs, WaitJob(j) PROVE TableIsUnreaped'
  BY <1>29 DEF WaitJob, Take, Live, IInv, TableIsUnreaped, children
<1>30. ASSUME JobAnswered PROVE TableIsUnreaped'
  BY <1>30 DEF JobAnswered, Released, Live, IInv, TableIsUnreaped, children, table
<1>31. ASSUME JobDue PROVE TableIsUnreaped'
  BY <1>31 DEF JobDue, GiveUpJob, Released, Live, IInv, TableIsUnreaped, children, table
<1>32. ASSUME NEW h \in Handles, DriveInput(h) PROVE TableIsUnreaped'
  BY <1>32 DEF DriveInput, Live, Break, Breaks, IInv, TableIsUnreaped, table, call
<1>33. ASSUME Checkpoint PROVE TableIsUnreaped'
  BY <1>33 DEF Checkpoint, Live, IInv, TableIsUnreaped, children, table
<1>34. ASSUME NEW h \in Handles, SignalHandle(h) PROVE TableIsUnreaped'
  BY <1>34 DEF SignalHandle, Take, Signal, Live, IInv, TableIsUnreaped
<1>35. ASSUME SignalError PROVE TableIsUnreaped'
  BY <1>35
     DEF SignalError, GiveUpJob, Released, Live, IInv, TableIsUnreaped, children, table
<1>36. ASSUME NEW j \in Jobs, SignalJob(j) PROVE TableIsUnreaped'
  BY <1>36 DEF SignalJob, Take, Released, Live, IInv, TableIsUnreaped, children
<1>37. ASSUME SignalDone PROVE TableIsUnreaped'
  BY <1>37 DEF SignalDone, GiveUpJob, Released, Live, IInv, TableIsUnreaped, children, table
<1>38. CASE UNCHANGED vars
  BY <1>38 DEF vars, Live, IInv, TableIsUnreaped, children, table, call
<1> QED
  BY <1>1, <1>2, <1>3, <1>4, <1>5, <1>6, <1>7, <1>8, <1>9, <1>10, <1>11, <1>12, <1>13, 
     <1>14, <1>15, <1>16, <1>17, <1>18, <1>19, <1>20, <1>21, <1>22, <1>23, <1>24, <1>25,
     <1>26, <1>27, <1>28, <1>29, <1>30, <1>31, <1>32, <1>33, <1>34, <1>35, <1>36, <1>37,
     <1>38
     DEF Next, Script, Calls, Stops, Environment

-----------------------------------------------------------------------------
(* The reservation *)

\* The jobs that are charged for can be counted.
LEMMA ChargedFinite == IsFiniteSet(Charged) /\ Cardinality(Charged) \in Nat
<1>1. Charged \subseteq Jobs
  BY DEF Charged, LiveJobs
<1> QED
  BY <1>1, ResourcesAssumption, FS_Subset, FS_CardinalityType

\* A step that moves no job and gives up none keeps the reservation.
LEMMA SameCharged ==
  ASSUME ReservationExact, Charged' = Charged, reserved' = reserved
  PROVE  ReservationExact'
  BY DEF ReservationExact

\* Giving back a job's bytes takes one job from those charged for.
LEMMA LessCharged ==
  ASSUME ReservationExact, NEW j \in Charged, Charged' = Charged \ {j}, reserved' = Released
  PROVE  ReservationExact'
<1>1. Cardinality(Charged \ {j}) = Cardinality(Charged) - 1 /\ Cardinality(Charged \ {j}) \in Nat
  BY ChargedFinite, FS_RemoveElement, FS_CardinalityType
<1> QED
  BY <1>1, ChargedFinite, BoundsAssumption DEF ReservationExact, Released

\* Every step that charges or frees a job changes the reservation by as much.
LEMMA ReservationStep ==
  ASSUME IInv, [Next]_vars
  PROVE  ReservationExact'
<1>1. ASSUME NEW h \in Handles, ChildEnds(h) PROVE ReservationExact'
  <2>1. Charged' = Charged /\ reserved' = reserved
    BY <1>1 DEF ChildEnds, IInv, Charged, LiveJobs, Live, table, call
  <2> QED
    BY <2>1, SameCharged DEF IInv
<1>2. ASSUME NEW h \in Handles, Late(h) PROVE ReservationExact'
  <2>1. Charged' = Charged /\ reserved' = reserved
    BY <1>2 DEF Late, IInv, Charged, LiveJobs, Live, table, call
  <2> QED
    BY <2>1, SameCharged DEF IInv
<1>3. ASSUME NEW h \in Handles, ReaperReaps(h) PROVE ReservationExact'
  <2>1. Charged' = Charged /\ reserved' = reserved
    BY <1>3 DEF ReaperReaps, IInv, Charged, LiveJobs, Live, table, call
  <2> QED
    BY <2>1, SameCharged DEF IInv
<1>4. ASSUME NEW j \in Jobs, Answers(j) PROVE ReservationExact'
  <2>1. Charged' = Charged /\ reserved' = reserved
    BY <1>4 DEF Answers, IInv, Charged, LiveJobs, Live, table, call
  <2> QED
    BY <2>1, SameCharged DEF IInv
<1>5. ASSUME SignalArrives PROVE ReservationExact'
  <2>1. Charged' = Charged /\ reserved' = reserved
    BY <1>5 DEF SignalArrives, IInv, Charged, LiveJobs, Live, table, call
  <2> QED
    BY <2>1, SameCharged DEF IInv
<1>6. ASSUME Enter PROVE ReservationExact'
  <2>1. Charged' = Charged /\ reserved' = reserved
    BY <1>6 DEF Enter, IInv, Charged, LiveJobs, Live, table, call
  <2> QED
    BY <2>1, SameCharged DEF IInv
<1>7. ASSUME NEW r \in Things, NEW s \in Scopes, Transfer(r, s) PROVE ReservationExact'
  <2>1. Charged' = Charged /\ reserved' = reserved
    BY <1>7 DEF Transfer, IInv, Charged, LiveJobs, Live, call, Scopes
  <2> QED
    BY <2>1, SameCharged DEF IInv
<1>8. ASSUME NEW then \in {"defers", "exit"}, LeaveScope(then) PROVE ReservationExact'
  <2>1. Charged' = Charged /\ reserved' = reserved
    BY <1>8 DEF LeaveScope, IInv, CallInv, Charged, LiveJobs, Live, table
  <2> QED
    BY <2>1, SameCharged DEF IInv
<1>9. ASSUME NEW h \in Handles, ReleaseHandle(h) PROVE ReservationExact'
  <2>1. Charged' = Charged /\ reserved' = reserved
    BY <1>9, ResourcesAssumption
       DEF ReleaseHandle, Take, IInv, CallInv, Charged, LiveJobs, Live
  <2> QED
    BY <2>1, SameCharged DEF IInv
<1>10. ASSUME NEW j \in Jobs, ReleaseJob(j) PROVE ReservationExact'
  <2>1. Charged' = Charged \ {j} /\ j \in Charged
    BY <1>10 DEF ReleaseJob, Take, IInv, TypeOK, CallInv, Charged, LiveJobs, Live, Things
  <2> QED
    BY <1>10, <2>1, LessCharged DEF ReleaseJob, IInv
<1>11. ASSUME ReleaseDone PROVE ReservationExact'
  <2>1. Charged' = Charged /\ reserved' = reserved
    BY <1>11 DEF ReleaseDone, IInv, CallInv, Charged, LiveJobs, Live, table
  <2> QED
    BY <2>1, SameCharged DEF IInv
<1>12. ASSUME NEW h \in Handles, Cancel(h) PROVE ReservationExact'
  <2>1. Charged' = Charged /\ reserved' = reserved
    BY <1>12 DEF Cancel, Take, IInv, CallInv, Charged, LiveJobs, Live
  <2> QED
    BY <2>1, SameCharged DEF IInv
<1>13. ASSUME EndKill PROVE ReservationExact'
  <2>1. Charged' = Charged /\ reserved' = reserved
    BY <1>13 DEF EndKill, IInv, Charged, LiveJobs, Live, table, call
  <2> QED
    BY <2>1, SameCharged DEF IInv
<1>14. ASSUME EndPoll PROVE ReservationExact'
  <2>1. Charged' = Charged /\ reserved' = reserved
    BY <1>14, ResourcesAssumption DEF EndPoll, IInv, CallInv, Charged, LiveJobs, Live, table
  <2> QED
    BY <2>1, SameCharged DEF IInv
<1>15. ASSUME NEW j \in Jobs, CancelJob(j) PROVE ReservationExact'
  <2>1. Charged' = Charged /\ reserved' = reserved
    BY <1>15 DEF CancelJob, Take, IInv, CallInv, Charged, LiveJobs, Live
  <2> QED
    BY <2>1, SameCharged DEF IInv
<1>16. ASSUME EndJob PROVE ReservationExact'
  <2>1. CASE why = "call"
    <3>1. Charged' = Charged \ {ending} /\ ending \in Charged
      BY <1>16, <2>1, ResourcesAssumption
         DEF EndJob, IInv, CallInv, ResourceInv, Charged, LiveJobs, Live, table
    <3> QED
      BY <1>16, <2>1, <3>1, LessCharged DEF EndJob, IInv
  <2>2. CASE why # "call"
    <3>1. Charged' = Charged
      BY <1>16, <2>2 DEF EndJob, IInv, Charged, LiveJobs, Live, table
    <3> QED
      BY <1>16, <2>2, <3>1, SameCharged DEF EndJob, IInv
  <2> QED
    BY <2>1, <2>2
<1>17. ASSUME NEW h \in Handles, NEW k \in KindsOf[h], Spawn(h, k) PROVE ReservationExact'
  <2>1. Charged' = Charged /\ reserved' = reserved
    BY <1>17, ResourcesAssumption DEF Spawn, Insert, IInv, Charged, LiveJobs, Live, call
  <2> QED
    BY <2>1, SameCharged DEF IInv
<1>18. ASSUME NEW l \in Lists, Wait(l) PROVE ReservationExact'
  <2>1. Charged' = Charged /\ reserved' = reserved
    BY <1>18 DEF Wait, IInv, Charged, LiveJobs, Live, table
  <2> QED
    BY <2>1, SameCharged DEF IInv
<1>19. ASSUME WaitNext PROVE ReservationExact'
  <2>1. Charged' = Charged /\ reserved' = reserved
    BY <1>19, ResourcesAssumption
       DEF WaitNext, Take, IInv, TypeOK, Charged, LiveJobs, Live, table, Things
  <2> QED
    BY <2>1, SameCharged DEF IInv
<1>20. ASSUME WaitPoll PROVE ReservationExact'
  <2>1. Charged' = Charged /\ reserved' = reserved
    BY <1>20, ResourcesAssumption
       DEF WaitPoll, IInv, CallInv, Charged, LiveJobs, Live, table
  <2> QED
    BY <2>1, SameCharged DEF IInv
<1>21. ASSUME NEW s \in {"term", "kill"}, WaitStops(s) PROVE ReservationExact'
  <2>1. Charged' = Charged /\ reserved' = reserved
    BY <1>21 DEF WaitStops, IInv, Charged, LiveJobs, Live, table, call
  <2> QED
    BY <2>1, SameCharged DEF IInv
<1>22. ASSUME NEW l \in Lists, NEW p \in {"any", "timed", "ready"}, PollList(l, p) PROVE ReservationExact'
  <2>1. Charged' = Charged /\ reserved' = reserved
    BY <1>22 DEF PollList, IInv, Charged, LiveJobs, Live, table
  <2> QED
    BY <2>1, SameCharged DEF IInv
<1>23. ASSUME PollFails PROVE ReservationExact'
  <2>1. Charged' = Charged /\ reserved' = reserved
    BY <1>23 DEF PollFails, IInv, Charged, LiveJobs, Live, table
  <2> QED
    BY <2>1, SameCharged DEF IInv
<1>24. ASSUME AnyEnds PROVE ReservationExact'
  <2>1. Charged' = Charged /\ reserved' = reserved
    BY <1>24, ResourcesAssumption
       DEF AnyEnds, Take, IInv, TypeOK, CallInv, Charged, LiveJobs, Live, Polling
  <2> QED
    BY <2>1, SameCharged DEF IInv
<1>25. ASSUME AnyGoesOn PROVE ReservationExact'
  <2>1. Charged' = Charged /\ reserved' = reserved
    BY <1>25 DEF AnyGoesOn, KillIfLate, IInv, Charged, LiveJobs, Live, table
  <2> QED
    BY <2>1, SameCharged DEF IInv
<1>26. ASSUME ReadyPoll PROVE ReservationExact'
  <2>1. Charged' = Charged /\ reserved' = reserved
    BY <1>26 DEF ReadyPoll, KillIfLate, IInv, Charged, LiveJobs, Live, table
  <2> QED
    BY <2>1, SameCharged DEF IInv
<1>27. ASSUME ReadyTakes PROVE ReservationExact'
  <2>1. Charged' = Charged /\ reserved' = reserved
    BY <1>27, ResourcesAssumption
       DEF ReadyTakes, Take, IInv, TypeOK, Charged, LiveJobs, Live
  <2> QED
    BY <2>1, SameCharged DEF IInv
<1>28. ASSUME NEW j \in Jobs, Start(j) PROVE ReservationExact'
  <2>1. Charged' = Charged \cup {j} /\ j \notin Charged
    BY <1>28
       DEF Start, Insert, IInv, TypeOK, ResourceInv, Charged, LiveJobs, Live, call, Things
  <2>2. Cardinality(Charged') = Cardinality(Charged) + 1
    BY <2>1, ChargedFinite, FS_AddElement
  <2>3. reserved' = reserved + 1 /\ reserved < ByteLimit
    BY <1>28 DEF Start
  <2> QED
    BY <2>2, <2>3, BoundsAssumption DEF IInv, TypeOK, ReservationExact
<1>29. ASSUME NEW j \in Jobs, WaitJob(j) PROVE ReservationExact'
  <2>1. Charged' = Charged /\ reserved' = reserved
    BY <1>29 DEF WaitJob, Take, IInv, CallInv, Charged, LiveJobs, Live
  <2> QED
    BY <2>1, SameCharged DEF IInv
<1>30. ASSUME JobAnswered PROVE ReservationExact'
  <2>1. Charged' = Charged \ {held} /\ held \in Charged
    BY <1>30, ResourcesAssumption
       DEF JobAnswered, IInv, CallInv, ResourceInv, Charged, LiveJobs, Live, table
  <2> QED
    BY <1>30, <2>1, LessCharged DEF JobAnswered, IInv
<1>31. ASSUME JobDue PROVE ReservationExact'
  <2>1. Charged' = Charged \ {held} /\ held \in Charged
    BY <1>31, ResourcesAssumption
       DEF JobDue, GiveUpJob, IInv, CallInv, ResourceInv, Charged, LiveJobs, Live, table
  <2> QED
    BY <1>31, <2>1, LessCharged DEF JobDue, GiveUpJob, IInv
<1>32. ASSUME NEW h \in Handles, DriveInput(h) PROVE ReservationExact'
  <2>1. Charged' = Charged /\ reserved' = reserved
    BY <1>32 DEF DriveInput, IInv, Charged, LiveJobs, Live, table, call
  <2> QED
    BY <2>1, SameCharged DEF IInv
<1>33. ASSUME Checkpoint PROVE ReservationExact'
  <2>1. Charged' = Charged /\ reserved' = reserved
    BY <1>33 DEF Checkpoint, IInv, CallInv, Charged, LiveJobs, Live, table
  <2> QED
    BY <2>1, SameCharged DEF IInv
<1>34. ASSUME NEW h \in Handles, SignalHandle(h) PROVE ReservationExact'
  <2>1. Charged' = Charged /\ reserved' = reserved
    BY <1>34, ResourcesAssumption
       DEF SignalHandle, Take, IInv, CallInv, Charged, LiveJobs, Live
  <2> QED
    BY <2>1, SameCharged DEF IInv
<1>35. ASSUME SignalError PROVE ReservationExact'
  <2>1. CASE held = None
    <3>1. Charged' = Charged /\ reserved' = reserved
      BY <1>35, <2>1 DEF SignalError, IInv, CallInv, Charged, LiveJobs, Live, table
    <3> QED
      BY <3>1, SameCharged DEF IInv
  <2>2. CASE held # None
    <3>1. Charged' = Charged \ {held} /\ held \in Charged
      BY <1>35, <2>2
         DEF SignalError, GiveUpJob, IInv, TypeOK, CallInv, ResourceInv, Charged, LiveJobs,
             Live, table, Things
    <3>2. reserved' = Released
      BY <1>35, <2>2 DEF SignalError, GiveUpJob
    <3> QED
      BY <3>1, <3>2, LessCharged DEF IInv
  <2> QED
    BY <2>1, <2>2
<1>36. ASSUME NEW j \in Jobs, SignalJob(j) PROVE ReservationExact'
  <2>1. Charged' = Charged \ {j} /\ j \in Charged
    BY <1>36
       DEF SignalJob, Take, IInv, TypeOK, CallInv, ResourceInv, Charged, LiveJobs, Live,
           Things
  <2> QED
    BY <1>36, <2>1, LessCharged DEF SignalJob, IInv
<1>37. ASSUME SignalDone PROVE ReservationExact'
  <2>1. CASE held = None
    <3>1. Charged' = Charged /\ reserved' = reserved
      BY <1>37, <2>1 DEF SignalDone, IInv, CallInv, Charged, LiveJobs, Live, table
    <3> QED
      BY <3>1, SameCharged DEF IInv
  <2>2. CASE held # None
    <3>1. Charged' = Charged \ {held} /\ held \in Charged
      BY <1>37, <2>2
         DEF SignalDone, GiveUpJob, IInv, TypeOK, CallInv, Charged, LiveJobs, Live, table,
             Things
    <3>2. reserved' = Released
      BY <1>37, <2>2 DEF SignalDone, GiveUpJob
    <3> QED
      BY <3>1, <3>2, LessCharged DEF IInv
  <2> QED
    BY <2>1, <2>2
<1>38. CASE UNCHANGED vars
  <2>1. Charged' = Charged /\ reserved' = reserved
    BY <1>38 DEF vars, IInv, Charged, LiveJobs, Live, table, call
  <2> QED
    BY <2>1, SameCharged DEF IInv
<1> QED
  BY <1>1, <1>2, <1>3, <1>4, <1>5, <1>6, <1>7, <1>8, <1>9, <1>10, <1>11, <1>12, <1>13, 
     <1>14, <1>15, <1>16, <1>17, <1>18, <1>19, <1>20, <1>21, <1>22, <1>23, <1>24, <1>25,
     <1>26, <1>27, <1>28, <1>29, <1>30, <1>31, <1>32, <1>33, <1>34, <1>35, <1>36, <1>37,
     <1>38
     DEF Next, Script, Calls, Stops, Environment

-----------------------------------------------------------------------------
(* The invariant *)

\* A script starts with no resource and no reservation.
LEMMA InitInv == Init => IInv
<1> SUFFICES ASSUME Init PROVE IInv
  OBVIOUS
<1>1. TypeOK
  <2>1. ChildrenOK
    BY DEF Init, ChildrenOK
  <2>2. TableOK /\ depth \in 0..MaxDepth
    BY BoundsAssumption DEF Init, TableOK
  <2>3. list \in Seq(Handles)
    BY EmptyIsSeq DEF Init
  <2>4. /\ pc = "script" /\ why = "call" /\ at = 1 /\ done = {} /\ lost = {}
        /\ held = None /\ ending = None /\ failed = FALSE
    BY DEF Init
  <2>5. /\ done \subseteq Handles /\ lost \subseteq Handles /\ failed \in BOOLEAN
        /\ held \in Things \cup {None} /\ ending \in Things \cup {None}
    BY <2>4
  <2>6. CallOK
    BY <2>3, <2>4, <2>5 DEF CallOK
  <2> QED
    BY <2>1, <2>2, <2>6 DEF TypeOK, ChildrenOK, TableOK, CallOK
<1>2. CallInv /\ ResourceInv
  BY ResourcesAssumption DEF Init, CallInv, ResourceInv, Polling, Things
<1>3. CountsExact
  <2>1. \A s \in Scopes : Owned(s) = {}
    BY DEF Init, Owned, Scopes
  <2> QED
    BY <2>1, FS_EmptySet DEF Init, CountsExact
<1>4. NothingEscapes /\ TableIsUnreaped
  BY DEF Init, NothingEscapes, TableIsUnreaped
<1>5. ReservationExact
  <2>1. Charged = {}
    BY ResourcesAssumption DEF Init, Charged, LiveJobs, Live, Things
  <2> QED
    BY <2>1, FS_EmptySet, BoundsAssumption DEF Init, ReservationExact
<1> QED
  BY <1>1, <1>2, <1>3, <1>4, <1>5 DEF IInv

\* IInv is inductive.
LEMMA StepInv == IInv /\ [Next]_vars => IInv'
  BY TypeStep, CallStep, ResourceStep, TableStep, OwnStep, ReservationStep, UnreapedStep
     DEF IInv

\* Every reachable state satisfies IInv.
LEMMA Invariant == Spec => []IInv
  BY InitInv, StepInv, PTL DEF Spec

\* The variables keep their types.
THEOREM TypesHold == Spec => []TypeOK
  BY Invariant, PTL DEF IInv

\* forget_owned_resource never finds a count of zero, and a scope whose count is
\* zero owns nothing: the exit that does not look has nothing to release.
THEOREM CountsAreExact == Spec => []CountsExact
  BY Invariant, PTL DEF IInv

\* However values are handed outward and scopes are left, every child and every
\* transport is some open scope's, or is being waited for or ended, until it is
\* reaped or told to stop.
THEOREM NothingIsLeaked == Spec => []NothingEscapes
  BY Invariant, PTL DEF IInv

\* The reservation of the network jobs is neither lost nor given back twice on
\* any path through wait, cancel, scope exit and shutdown.
THEOREM ReservationIsExact == Spec => []ReservationExact
  BY Invariant, PTL DEF IInv

\* Outside the two exceptions, a live handle's child was not reaped.
THEOREM LiveIsUnreaped == Spec => []TableIsUnreaped
  BY Invariant, PTL DEF IInv

-----------------------------------------------------------------------------
(* Shutdown *)

Complete ==
  complete' /\ ~complete =>
    /\ \A r \in Things : owner'[r] = 0
    /\ \A h \in Handles : os'[h] \in {"running", "zombie"} => h \in loose'
    /\ \A j \in Jobs : op'[j] # "pending"

\* The shutdown is marked complete by a step that leaves nothing.
LEMMA CompleteStep ==
  ASSUME IInv, [Next]_vars
  PROVE  Complete
<1>1. ASSUME NEW h \in Handles, ChildEnds(h) PROVE Complete
  BY <1>1 DEF ChildEnds, shutdown, Complete
<1>2. ASSUME NEW h \in Handles, Late(h) PROVE Complete
  BY <1>2 DEF Late, shutdown, Complete
<1>3. ASSUME NEW h \in Handles, ReaperReaps(h) PROVE Complete
  BY <1>3 DEF ReaperReaps, shutdown, Complete
<1>4. ASSUME NEW j \in Jobs, Answers(j) PROVE Complete
  BY <1>4 DEF Answers, shutdown, Complete
<1>5. ASSUME SignalArrives PROVE Complete
  BY <1>5 DEF SignalArrives, Complete
<1>6. ASSUME Enter PROVE Complete
  BY <1>6 DEF Enter, shutdown, Complete
<1>7. ASSUME NEW r \in Things, NEW s \in Scopes, Transfer(r, s) PROVE Complete
  BY <1>7 DEF Transfer, shutdown, Complete
<1>8. ASSUME NEW then \in {"defers", "exit"}, LeaveScope(then) PROVE Complete
  BY <1>8 DEF LeaveScope, shutdown, Complete
<1>9. ASSUME NEW h \in Handles, ReleaseHandle(h) PROVE Complete
  BY <1>9 DEF ReleaseHandle, shutdown, Complete
<1>10. ASSUME NEW j \in Jobs, ReleaseJob(j) PROVE Complete
  BY <1>10 DEF ReleaseJob, shutdown, Complete
<1>11. ASSUME ReleaseDone PROVE Complete
  BY <1>11 DEF ReleaseDone, shutdown, Complete
<1>12. ASSUME NEW h \in Handles, Cancel(h) PROVE Complete
  BY <1>12 DEF Cancel, shutdown, Complete
<1>13. ASSUME EndKill PROVE Complete
  BY <1>13 DEF EndKill, shutdown, Complete
<1>14. ASSUME EndPoll PROVE Complete
  BY <1>14 DEF EndPoll, shutdown, Complete
<1>15. ASSUME NEW j \in Jobs, CancelJob(j) PROVE Complete
  BY <1>15 DEF CancelJob, shutdown, Complete
<1>16. ASSUME EndJob PROVE Complete
  BY <1>16 DEF EndJob, shutdown, Complete
<1>17. ASSUME NEW h \in Handles, NEW k \in KindsOf[h], Spawn(h, k) PROVE Complete
  BY <1>17 DEF Spawn, shutdown, Complete
<1>18. ASSUME NEW l \in Lists, Wait(l) PROVE Complete
  BY <1>18 DEF Wait, shutdown, Complete
<1>19. ASSUME WaitNext PROVE Complete
  BY <1>19 DEF WaitNext, shutdown, Complete
<1>20. ASSUME WaitPoll PROVE Complete
  BY <1>20 DEF WaitPoll, shutdown, Complete
<1>21. ASSUME NEW s \in {"term", "kill"}, WaitStops(s) PROVE Complete
  BY <1>21 DEF WaitStops, shutdown, Complete
<1>22. ASSUME NEW l \in Lists, NEW p \in {"any", "timed", "ready"}, PollList(l, p) PROVE Complete
  BY <1>22 DEF PollList, shutdown, Complete
<1>23. ASSUME PollFails PROVE Complete
  BY <1>23 DEF PollFails, shutdown, Complete
<1>24. ASSUME AnyEnds PROVE Complete
  BY <1>24 DEF AnyEnds, shutdown, Complete
<1>25. ASSUME AnyGoesOn PROVE Complete
  BY <1>25 DEF AnyGoesOn, shutdown, Complete
<1>26. ASSUME ReadyPoll PROVE Complete
  BY <1>26 DEF ReadyPoll, shutdown, Complete
<1>27. ASSUME ReadyTakes PROVE Complete
  BY <1>27 DEF ReadyTakes, shutdown, Complete
<1>28. ASSUME NEW j \in Jobs, Start(j) PROVE Complete
  BY <1>28 DEF Start, shutdown, Complete
<1>29. ASSUME NEW j \in Jobs, WaitJob(j) PROVE Complete
  BY <1>29 DEF WaitJob, shutdown, Complete
<1>30. ASSUME JobAnswered PROVE Complete
  BY <1>30 DEF JobAnswered, shutdown, Complete
<1>31. ASSUME JobDue PROVE Complete
  BY <1>31 DEF JobDue, shutdown, Complete
<1>32. ASSUME NEW h \in Handles, DriveInput(h) PROVE Complete
  BY <1>32 DEF DriveInput, shutdown, Complete
<1>33. ASSUME Checkpoint PROVE Complete
  BY <1>33 DEF Checkpoint, shutdown, Complete
<1>34. ASSUME NEW h \in Handles, SignalHandle(h) PROVE Complete
  BY <1>34 DEF SignalHandle, shutdown, Complete
<1>35. ASSUME SignalError PROVE Complete
  BY <1>35 DEF SignalError, shutdown, Complete
<1>36. ASSUME NEW j \in Jobs, SignalJob(j) PROVE Complete
  BY <1>36 DEF SignalJob, shutdown, Complete
<1>37. ASSUME SignalDone PROVE Complete
  <2>1. \A r \in Things : owner'[r] = 0
    BY <1>37 DEF SignalDone, LiveHandles, LiveJobs, Live, table, Things
  <2>2. ending = None /\ held \notin Handles
    BY <1>37 DEF SignalDone, IInv, TypeOK, CallInv, Things
  <2>3. \A h \in Handles : os[h] \in {"running", "zombie"} => h \in loose
    BY <1>37, <2>2, ResourcesAssumption DEF SignalDone, LiveHandles, IInv, NothingEscapes
  <2>4. \A h \in Handles : os'[h] \in {"running", "zombie"} => h \in loose'
    BY <1>37, <2>3 DEF SignalDone, children
  <2>5. \A j \in Jobs : op[j] = "pending" => held = j
    BY <1>37 DEF SignalDone, LiveJobs, IInv, NothingEscapes
  <2>6. \A j \in Jobs : op'[j] # "pending"
    <3>1. CASE held = None
      BY <1>37, <2>5, <3>1, ResourcesAssumption DEF SignalDone
    <3>2. CASE held # None
      <4>1. op' = [op EXCEPT ![held] = IF @ = "pending" THEN "canceled" ELSE @]
        BY <1>37, <3>2 DEF SignalDone, GiveUpJob
      <4> QED
        BY <2>5, <4>1 DEF IInv, TypeOK
    <3> QED
      BY <3>1, <3>2
  <2> QED
    BY <2>1, <2>4, <2>6 DEF Complete
<1>38. CASE UNCHANGED vars
  BY <1>38 DEF vars, shutdown, Complete
<1> QED
  BY <1>1, <1>2, <1>3, <1>4, <1>5, <1>6, <1>7, <1>8, <1>9, <1>10, <1>11, <1>12, <1>13, 
     <1>14, <1>15, <1>16, <1>17, <1>18, <1>19, <1>20, <1>21, <1>22, <1>23, <1>24, <1>25,
     <1>26, <1>27, <1>28, <1>29, <1>30, <1>31, <1>32, <1>33, <1>34, <1>35, <1>36, <1>37,
     <1>38
     DEF Next, Script, Calls, Stops, Environment

\* service_pending_signal declares the shutdown complete only when no handle and
\* no job is left, whatever the signal interrupted.
THEOREM ShutdownIsComplete == Spec => CancelsAll
<1>1. IInv /\ [Next]_vars => Complete
  BY CompleteStep
<1>2. Spec => [][Complete]_vars
  BY <1>1, Invariant, PTL DEF Spec
<1> QED
  BY <1>2 DEF CancelsAll, Complete
=============================================================================
