--------------------------- MODULE ChildStatusProofs ---------------------------
(***************************************************************************)
(* Proofs about ChildStatus, for every set of children and process ids.    *)
(***************************************************************************)
EXTENDS ChildStatus, TLAPS

(***************************************************************************)
(* The inductive invariant.  OnlyOwnChild says what signals did; what      *)
(* keeps it true is the chain from an identity's flag to the process:      *)
(* a trusted flag is registered under its child's number, was made in the  *)
(* current epoch, exists only while statuses are kept, and pins a process  *)
(* that has not been reaped.                                               *)
(***************************************************************************)
PidsDistinct ==
    /\ \A c \in Child : Alive(c) => pidOf[c] \in Pid \ strangers
    /\ \A c, d \in Child : Alive(c) /\ Alive(d) /\ pidOf[c] = pidOf[d] => c = d

HeldIsLaunched == \A c \in held : life[c] # "unborn" /\ pidOf[c] \in Pid

FlagIsCurrent == \A c \in held : auth.flag[c] => auth.made[c] = auth.epoch

FlagNeedsStatus == \A c \in held : auth.flag[c] => keepsStatus /\ auth.retains

FlagPins == \A c \in held \ stolen : auth.flag[c] => Alive(c)

CSInv ==
    /\ CSTypeOK
    /\ PidsDistinct
    /\ HeldIsLaunched
    /\ FlagIsCurrent
    /\ FlagNeedsStatus
    /\ FlagPins
    /\ TrustedIsRegistered
    /\ OnlyOwnChild

--------------------------------------------------------------------------------
(* The authority's methods. *)

\* update_status_retention keeps the type of the authority.
LEMMA UpdateRetentionType ==
    ASSUME NEW a \in Authority, NEW keeps \in BOOLEAN
    PROVE  UpdateRetention(a, keeps) \in Authority
  <1>1. CASE a.retains /\ ~keeps
    <2> DEFINE flags == [c \in Timed |-> IF \E p \in Pid : a.identities[p] = c
                                         THEN FALSE ELSE a.flag[c]]
    <2>1. flags \in [Timed -> BOOLEAN]
      BY DEF Authority
    <2>2. NoIdentities \in [Pid -> Timed \cup {NoChild}]
      BY DEF NoIdentities
    <2>3. UpdateRetention(a, keeps) = [a EXCEPT !.retains = FALSE, !.epoch = a.epoch + 1,
                                                !.flag = flags, !.identities = NoIdentities]
      BY <1>1 DEF UpdateRetention
    <2> HIDE DEF flags
    <2>4. UpdateRetention(a, keeps) =
            [retains |-> FALSE, epoch |-> a.epoch + 1, identities |-> NoIdentities,
             flag |-> flags, made |-> a.made]
      BY <2>3 DEF Authority
    <2>5. QED
      BY <2>1, <2>2, <2>4 DEF Authority
  <1>2. CASE ~(a.retains /\ ~keeps)
    BY <1>2 DEF UpdateRetention, Authority
  <1>3. QED
    BY <1>1, <1>2

\* invalidate_pid and invalidate_identity keep the type of the authority.
LEMMA InvalidateType ==
    ASSUME NEW a \in Authority, NEW c \in Timed, NEW p \in Pid, pidOf[c] \in Pid
    PROVE  /\ InvalidatePid(a, p) \in Authority
           /\ InvalidateIdentity(a, c) \in Authority
  BY DEF InvalidatePid, InvalidateIdentity, Authority

\* register keeps the type of the authority.
LEMMA RegisterType ==
    ASSUME NEW a \in Authority, NEW c \in Timed, NEW p \in Pid
    PROVE  Register(a, c, p) \in Authority
  BY DEF Register, Authority

\* A refresh takes over the kernel's setting and trusts nobody it did not
\* trust before; while somebody is trusted it changes nothing at all.
LEMMA RefreshFacts ==
    ASSUME CSTypeOK, FlagNeedsStatus
    PROVE  /\ Refresh(auth) \in Authority
           /\ Refresh(auth).retains = keepsStatus
           /\ \A c \in Timed : Refresh(auth).flag[c] => auth.flag[c]
           /\ \A c \in held : auth.flag[c] => Refresh(auth) = auth
  <1>1. Refresh(auth) \in Authority
    BY UpdateRetentionType DEF Refresh, CSTypeOK
  <1>2. Refresh(auth).retains = keepsStatus
    BY DEF Refresh, UpdateRetention, CSTypeOK, Authority
  <1>3. \A c \in Timed : Refresh(auth).flag[c] => auth.flag[c]
    BY DEF Refresh, UpdateRetention, CSTypeOK, Authority
  <1>4. ASSUME NEW c \in held, auth.flag[c]
        PROVE  Refresh(auth) = auth
    <2>1. keepsStatus = TRUE /\ auth.retains = TRUE
      BY <1>4 DEF FlagNeedsStatus, CSTypeOK, Authority
    <2>2. Refresh(auth) = [auth EXCEPT !.retains = TRUE]
      BY <2>1 DEF Refresh, UpdateRetention
    <2>3. QED
      BY <2>1, <2>2 DEF CSTypeOK, Authority
  <1>5. QED
    BY <1>1, <1>2, <1>3, <1>4

--------------------------------------------------------------------------------
(* The identities' operations.  What each lemma says of auth' is what the   *)
(* invariant needs to survive the step.                                     *)

\* The conjuncts of the invariant that speak of the authority.
AuthInv ==
    /\ FlagIsCurrent
    /\ FlagNeedsStatus
    /\ FlagPins
    /\ TrustedIsRegistered

\* A step that only refreshes the authority keeps them, as long as no trusted
\* child's process changes.
LEMMA RefreshKeepsAuthInv ==
    ASSUME CSInv, auth' = Refresh(auth), keepsStatus' = keepsStatus, pidOf' = pidOf,
           held' \subseteq held, stolen' = stolen,
           \A c \in held \ stolen : auth.flag[c] /\ Alive(c) => Alive(c)'
    PROVE  auth' \in Authority /\ AuthInv'
  <1>1. CSTypeOK /\ FlagNeedsStatus
    BY DEF CSInv
  <1>2. auth' \in Authority /\ \A c \in Timed : auth'.flag[c] => auth.flag[c]
    BY <1>1, RefreshFacts
  <1>3. ASSUME NEW c \in held', auth'.flag[c]
        PROVE  auth' = auth /\ auth.flag[c] /\ c \in held
    BY <1>1, <1>2, <1>3, RefreshFacts DEF CSTypeOK
  <1>4. QED
    BY <1>2, <1>3 DEF CSInv, AuthInv, FlagIsCurrent, FlagNeedsStatus, FlagPins,
                      TrustedIsRegistered

\* Revoking the identity of one process id, and nothing else, keeps them too: only
\* the child whose number it is may have been reaped.
LEMMA InvalidatePidKeepsAuthInv ==
    ASSUME CSInv, NEW p \in Pid, auth' = InvalidatePid(Refresh(auth), p),
           keepsStatus' = keepsStatus, pidOf' = pidOf, held' = held, stolen' = stolen,
           \A c \in held \ stolen : pidOf[c] # p /\ Alive(c) => Alive(c)'
    PROVE  auth' \in Authority /\ AuthInv'
  <1>1. CSTypeOK /\ FlagNeedsStatus
    BY DEF CSInv
  <1>2. Refresh(auth) \in Authority
    BY <1>1, RefreshFacts
  <1>3. auth' \in Authority
    BY <1>2 DEF InvalidatePid, Authority
  <1>4. ASSUME NEW c \in held, auth'.flag[c]
        PROVE  /\ auth.flag[c]
               /\ auth'.made = auth.made /\ auth'.epoch = auth.epoch
               /\ auth'.retains = auth.retains
               /\ pidOf[c] # p
               /\ auth'.identities[pidOf[c]] = auth.identities[pidOf[c]]
    <2>1. c \in Timed /\ pidOf[c] \in Pid
      BY DEF CSInv, CSTypeOK, HeldIsLaunched
    <2>2. Refresh(auth).flag[c] /\ c # Refresh(auth).identities[p]
      BY <1>2, <1>4, <2>1 DEF InvalidatePid, Authority
    <2>3. auth.flag[c] /\ Refresh(auth) = auth
      BY <1>1, <2>1, <2>2, RefreshFacts
    <2>4. pidOf[c] # p
      BY <2>2, <2>3 DEF CSInv, TrustedIsRegistered
    <2>5. QED
      BY <1>2, <2>1, <2>3, <2>4 DEF InvalidatePid, Authority
  <1>5. QED
    BY <1>3, <1>4 DEF CSInv, AuthInv, FlagIsCurrent, FlagNeedsStatus, FlagPins,
                      TrustedIsRegistered

\* So does revoking one's own identity.
LEMMA InvalidateIdentityKeepsAuthInv ==
    ASSUME CSInv, NEW i \in held, Owned(i), auth' = InvalidateIdentity(Refresh(auth), i),
           keepsStatus' = keepsStatus, pidOf' = pidOf, held' = held, stolen' = stolen,
           \A c \in held \ stolen : pidOf[c] # pidOf[i] /\ Alive(c) => Alive(c)'
    PROVE  auth' \in Authority /\ AuthInv'
  <1>1. CSTypeOK /\ FlagNeedsStatus
    BY DEF CSInv
  <1>2. i \in Timed /\ pidOf[i] \in Pid
    BY DEF CSInv, CSTypeOK, HeldIsLaunched
  <1>3. auth.flag[i] /\ Refresh(auth) = auth
    BY <1>1, <1>2, RefreshFacts DEF Owned, IsValid
  <1>4. auth \in Authority
    BY DEF CSInv, CSTypeOK
  <1>5. auth' \in Authority
    BY <1>2, <1>3, <1>4, InvalidateType
  <1>6. ASSUME NEW c \in held, auth'.flag[c]
        PROVE  /\ auth.flag[c] /\ c # i
               /\ auth'.made = auth.made /\ auth'.epoch = auth.epoch
               /\ auth'.retains = auth.retains
               /\ pidOf[c] # pidOf[i]
               /\ auth'.identities[pidOf[c]] = auth.identities[pidOf[c]]
    <2>1. c \in Timed /\ pidOf[c] \in Pid
      BY DEF CSInv, CSTypeOK, HeldIsLaunched
    <2>2. auth.flag[c] /\ c # i
      BY <1>2, <1>3, <1>4, <1>6, <2>1 DEF InvalidateIdentity, Authority
    <2>3. pidOf[c] # pidOf[i]
      BY <1>3, <2>2 DEF CSInv, TrustedIsRegistered
    <2>4. QED
      BY <1>2, <1>3, <1>4, <2>1, <2>2, <2>3 DEF InvalidateIdentity, Authority
  <1>7. QED
    BY <1>5, <1>6 DEF CSInv, AuthInv, FlagIsCurrent, FlagNeedsStatus, FlagPins,
                      TrustedIsRegistered

\* Launches: the child that gets a free number is trusted; nobody else's trust moves.
LEMMA LaunchKeepsInv ==
    ASSUME CSInv, NEW c \in Timed, NEW p \in Pid, LaunchTimed(c, p)
    PROVE  CSInv'
  <1> USE DEF LaunchTimed
  <1>1. CSTypeOK /\ FlagNeedsStatus /\ c \in Child
    BY DEF CSInv, Child
  <1>2. keepsStatus /\ Refresh(auth) \in Authority
    BY <1>1, RefreshFacts
  <1>3. Refresh(auth).made = auth.made /\ Refresh(auth).epoch = auth.epoch
        /\ Refresh(auth).flag = auth.flag /\ Refresh(auth).identities = auth.identities
        /\ Refresh(auth).retains = TRUE
    BY <1>1, <1>2 DEF Refresh, UpdateRetention, CSTypeOK, Authority
  <1>4. CSTypeOK'
    BY <1>1, <1>2, RegisterType DEF CSTypeOK
  <1>5. PidsDistinct'
    BY <1>1 DEF CSInv, PidsDistinct, CSTypeOK, FreePid, Occupants, Alive
  <1>6. HeldIsLaunched'
    BY <1>1 DEF CSInv, HeldIsLaunched, CSTypeOK
  <1>7. auth'.flag[c] /\ auth'.made[c] = auth'.epoch /\ auth'.retains
        /\ auth'.identities[p] = c
    BY <1>2, <1>3 DEF Register, Authority
  <1>8. ASSUME NEW d \in held, d # c, auth'.flag[d]
        PROVE  /\ auth.flag[d] /\ auth'.made[d] = auth.made[d] /\ auth'.epoch = auth.epoch
               /\ pidOf[d] # p
               /\ auth'.identities[pidOf[d]] = auth.identities[pidOf[d]]
    <2>1. d \in Timed /\ pidOf[d] \in Pid
      BY DEF CSInv, CSTypeOK, HeldIsLaunched
    <2>2. auth.flag[d] /\ d # (IF auth.identities[p] \in held THEN auth.identities[p] ELSE NoChild)
      BY <1>2, <1>3, <1>8, <2>1 DEF Register, Authority
    <2>3. auth.identities[pidOf[d]] = d
      BY <2>2 DEF CSInv, TrustedIsRegistered
    <2>4. pidOf[d] # p
      BY <2>2, <2>3
    <2>5. QED
      BY <1>2, <1>3, <1>8, <2>1, <2>2, <2>3, <2>4 DEF Register, Authority
  <1>9. c \notin held
    BY DEF CSInv, HeldIsLaunched
  <1>10. pidOf'[c] = p /\ Alive(c)' /\ \A d \in held : pidOf'[d] = pidOf[d] /\ Alive(d)' = Alive(d)
    BY <1>1, <1>9 DEF CSTypeOK, Alive, Child
  <1>11. FlagIsCurrent' /\ FlagNeedsStatus' /\ FlagPins' /\ TrustedIsRegistered'
    BY <1>2, <1>7, <1>8, <1>10 DEF CSInv, FlagIsCurrent, FlagNeedsStatus, FlagPins,
       TrustedIsRegistered
  <1>12. OnlyOwnChild'
    BY DEF CSInv, OnlyOwnChild
  <1>13. QED
    BY <1>4, <1>5, <1>6, <1>11, <1>12 DEF CSInv

\* A trusted child that nobody stole is the only occupant of its process id.
LEMMA OwnedIsSoleOccupant ==
    ASSUME CSInv, NEW c \in held \ stolen, Owned(c)
    PROVE  /\ c \in Timed /\ c \in Child /\ Alive(c) /\ auth.flag[c]
           /\ Occupants(pidOf[c]) = {c}
           /\ ChildrenAt(pidOf[c]) = {c}
  <1>1. CSTypeOK /\ FlagNeedsStatus /\ c \in Timed /\ c \in Child
    BY DEF CSInv, CSTypeOK, Child
  <1>2. auth.flag[c]
    BY <1>1, RefreshFacts DEF Owned, IsValid
  <1>3. Alive(c)
    BY <1>2 DEF CSInv, FlagPins
  <1>4. pidOf[c] \notin strangers
    BY <1>1, <1>3 DEF CSInv, PidsDistinct
  <1>5. \A d \in Child : Alive(d) /\ pidOf[d] = pidOf[c] <=> d = c
    BY <1>1, <1>3 DEF CSInv, PidsDistinct
  <1>6. ChildrenAt(pidOf[c]) = {c}
    BY <1>1, <1>5 DEF ChildrenAt
  <1>7. Occupants(pidOf[c]) = {c}
    <2>1. Occupants(pidOf[c]) = ChildrenAt(pidOf[c]) \cup {}
      BY <1>4 DEF Occupants, ChildrenAt
    <2>2. QED
      BY <1>6, <2>1
  <1>8. QED
    BY <1>1, <1>2, <1>3, <1>6, <1>7

\* waitpid reaps at most the child that has the number, which is the owner's own
\* unless that was stolen; either way no trusted child vanishes.
LEMMA WaitOwnedKeepsInv ==
    ASSUME CSInv, NEW c \in Timed, WaitOwned(c)
    PROVE  CSInv'
  <1> USE DEF WaitOwned
  <1>1. CSTypeOK /\ FlagNeedsStatus /\ pidOf[c] \in Pid
    BY DEF CSInv, HeldIsLaunched
  <1>2. /\ life' \in [Child -> {"unborn", "running", "zombie", "gone"}]
        /\ \A d \in Child : (life'[d] = "unborn") <=> (life[d] = "unborn")
        /\ \A d \in Child : life'[d] # "gone" => life'[d] = life[d]
    BY <1>1 DEF CSTypeOK, ChildrenAt, Alive
  <1>3. \A d \in Child : Alive(d)' => Alive(d)
    BY <1>1, <1>2 DEF Alive, CSTypeOK
  <1>4. \A d \in held \ stolen : pidOf[d] # pidOf[c] /\ Alive(d) => Alive(d)'
    BY <1>1 DEF ChildrenAt, Alive, CSTypeOK, Child
  <1>5. auth' \in Authority /\ AuthInv'
    <2>1. CASE Owned(c) /\ WaitResult(c) # "none"
      BY <1>4, <2>1, InvalidateIdentityKeepsAuthInv
    <2>2. CASE ~(Owned(c) /\ WaitResult(c) # "none")
      <3>1. WaitResult(c) # "reaped"
        BY <2>2 DEF WaitResult, ObserveResult
      <3>2. \A d \in held \ stolen : Alive(d) => Alive(d)'
        BY <1>1, <3>1 DEF Alive, CSTypeOK, Child
      <3>3. QED
        BY <2>2, <3>2, RefreshKeepsAuthInv
    <2>3. QED
      BY <2>1, <2>2
  <1>6. CSTypeOK'
    BY <1>1, <1>2, <1>5 DEF CSTypeOK
  <1>7. PidsDistinct'
    BY <1>3 DEF CSInv, PidsDistinct
  <1>8. HeldIsLaunched'
    BY <1>1, <1>2 DEF CSInv, HeldIsLaunched, CSTypeOK, Child
  <1>9. OnlyOwnChild'
    BY DEF CSInv, OnlyOwnChild
  <1>10. QED
    BY <1>5, <1>6, <1>7, <1>8, <1>9 DEF CSInv, AuthInv

\* The other operations of an identity.
LEMMA IdentityKeepsInv ==
    ASSUME CSInv, NEW c \in Timed, Identity(c)
    PROVE  CSInv'
  <1>1. CSTypeOK /\ FlagNeedsStatus
    BY DEF CSInv
  <1>2. ASSUME auth' = Refresh(auth), UNCHANGED <<kernel, consumed, stolen>>, held' \subseteq held,
               OnlyOwnChild', hits' \subseteq Child \X (Child \cup {Stranger})
        PROVE  CSInv'
    <2>1. \A d \in held \ stolen : Alive(d) => Alive(d)'
      BY <1>2 DEF kernel, Alive
    <2>2. auth' \in Authority /\ AuthInv'
      BY <1>2, <2>1, RefreshKeepsAuthInv DEF kernel
    <2>3. CSTypeOK'
      BY <1>1, <1>2, <2>2 DEF CSTypeOK, kernel
    <2>4. PidsDistinct' /\ HeldIsLaunched'
      BY <1>2 DEF CSInv, PidsDistinct, HeldIsLaunched, kernel, Alive
    <2>5. QED
      BY <1>2, <2>2, <2>3, <2>4 DEF CSInv, AuthInv
  <1>3. ASSUME NEW p \in Pid, LaunchTimed(c, p)
        PROVE  CSInv'
    BY <1>3, LaunchKeepsInv
  <1>4. CASE RefuseTimed(c)
    BY <1>1, <1>2, <1>4 DEF RefuseTimed, CSInv, OnlyOwnChild, CSTypeOK
  <1>5. CASE SignalRefused(c)
    BY <1>1, <1>2, <1>5 DEF SignalRefused, CSInv, OnlyOwnChild, CSTypeOK
  <1>6. CASE SignalOwned(c)
    <2>1. OnlyOwnChild'
      <3>1. c \notin stolen /\ Owned(c) => Occupants(pidOf[c]) = {c}
        BY <1>6, OwnedIsSoleOccupant DEF SignalOwned
      <3>2. QED
        BY <1>6, <3>1 DEF SignalOwned, CSInv, OnlyOwnChild
    <2>2. hits' \subseteq Child \X (Child \cup {Stranger})
      BY <1>1, <1>6 DEF SignalOwned, CSTypeOK, Occupants, Child
    <2>3. QED
      BY <1>2, <1>6, <2>1, <2>2 DEF SignalOwned
  <1>7. CASE Observe(c)
    <2>1. CASE Owned(c) /\ ObserveResult(c) = "lost"
      <3>1. \A d \in held \ stolen : Alive(d) => Alive(d)'
        BY <1>7 DEF Observe, kernel, Alive
      <3>2. auth' \in Authority /\ AuthInv'
        BY <1>7, <2>1, <3>1, InvalidateIdentityKeepsAuthInv DEF Observe, kernel
      <3>3. CSTypeOK'
        BY <1>1, <1>7, <3>2 DEF CSTypeOK, Observe, kernel
      <3>4. PidsDistinct' /\ HeldIsLaunched' /\ OnlyOwnChild'
        BY <1>7 DEF CSInv, PidsDistinct, HeldIsLaunched, OnlyOwnChild, Observe, kernel, Alive
      <3>5. QED
        BY <3>2, <3>3, <3>4 DEF CSInv, AuthInv
    <2>2. CASE ~(Owned(c) /\ ObserveResult(c) = "lost")
      BY <1>1, <1>2, <1>7, <2>2 DEF Observe, CSInv, OnlyOwnChild, CSTypeOK
    <2>3. QED
      BY <2>1, <2>2
  <1>8. CASE WaitOwned(c)
    BY <1>8, WaitOwnedKeepsInv
  <1>9. CASE Release(c)
    BY <1>9 DEF Release, kernel, CSInv, CSTypeOK, PidsDistinct, HeldIsLaunched, FlagIsCurrent,
       FlagNeedsStatus, FlagPins, TrustedIsRegistered, OnlyOwnChild, Alive
  <1>10. QED
    BY <1>3, <1>4, <1>5, <1>6, <1>7, <1>8, <1>9 DEF Identity

\* A change of the SIGCHLD action that discards statuses revokes everything trusted.
LEMMA SetDispositionKeepsInv ==
    ASSUME CSInv, NEW keeps \in BOOLEAN, SetDisposition(keeps)
    PROVE  CSInv'
  <1> DEFINE a == UpdateRetention(auth, keepsStatus)
  <1>1. CSTypeOK /\ FlagNeedsStatus /\ a = Refresh(auth)
    BY DEF CSInv, Refresh
  <1>2. a \in Authority /\ auth' \in Authority /\ auth' = UpdateRetention(a, keeps)
    BY <1>1, RefreshFacts, UpdateRetentionType DEF SetDisposition
  <1>3. a.retains = keepsStatus /\ \A c \in held : a.flag[c] => a = auth /\ auth.flag[c]
    BY <1>1, RefreshFacts DEF CSTypeOK
  <1> HIDE DEF a
  <1>4. ASSUME NEW c \in held, auth'.flag[c]
        PROVE  auth' = auth /\ auth.flag[c] /\ keeps /\ keepsStatus
    <2>1. c \in Timed /\ pidOf[c] \in Pid
      BY DEF CSInv, CSTypeOK, HeldIsLaunched
    <2>2. a.flag[c]
      BY <1>2, <1>4, <2>1 DEF UpdateRetention, Authority
    <2>3. a = auth /\ auth.flag[c] /\ auth.retains /\ keepsStatus
      BY <1>3, <2>2 DEF CSInv, FlagNeedsStatus
    <2>4. auth.identities[pidOf[c]] = c
      BY <2>3 DEF CSInv, TrustedIsRegistered
    <2>5. keeps
      BY <1>2, <1>4, <2>1, <2>3, <2>4 DEF UpdateRetention, Authority
    <2>6. auth' = [auth EXCEPT !.retains = TRUE]
      BY <1>2, <2>3, <2>5 DEF UpdateRetention
    <2>7. QED
      BY <1>1, <2>3, <2>5, <2>6 DEF CSTypeOK, Authority
  <1>5. CSTypeOK'
    BY <1>1, <1>2 DEF CSTypeOK, SetDisposition
  <1>6. QED
    BY <1>4, <1>5 DEF SetDisposition, CSInv, PidsDistinct, HeldIsLaunched, FlagIsCurrent,
       FlagNeedsStatus, FlagPins, TrustedIsRegistered, OnlyOwnChild, Alive

\* Every other step of the environment.
LEMMA RestKeepsInv ==
    ASSUME CSInv, Rest
    PROVE  CSInv'
  <1> USE DEF Alive
  <1>1. CSTypeOK
    BY DEF CSInv
  <1>2. ASSUME NEW keeps \in BOOLEAN, SetDisposition(keeps)
        PROVE  CSInv'
    BY <1>2, SetDispositionKeepsInv
  <1>3. ASSUME NEW c \in Child, WaitAny(c)
        PROVE  CSInv'
    <2>1. pidOf[c] \in Pid
      BY <1>3 DEF WaitAny, CSInv, PidsDistinct
    <2>2. \A d \in held \ stolen : pidOf[d] # pidOf[c] /\ Alive(d) => Alive(d)'
      BY <1>1, <1>3 DEF WaitAny, CSTypeOK, Child
    <2>3. auth' \in Authority /\ AuthInv'
      BY <1>3, <2>1, <2>2, InvalidatePidKeepsAuthInv DEF WaitAny
    <2>4. CSTypeOK'
      BY <1>1, <1>3, <2>3 DEF WaitAny, CSTypeOK
    <2>5. PidsDistinct' /\ HeldIsLaunched' /\ OnlyOwnChild'
      BY <1>1, <1>3 DEF WaitAny, CSInv, CSTypeOK, PidsDistinct, HeldIsLaunched, OnlyOwnChild, Child
    <2>6. QED
      BY <2>3, <2>4, <2>5 DEF CSInv, AuthInv
  <1>4. ASSUME NEW c \in Child, Exit(c)
        PROVE  CSInv'
    BY <1>1, <1>4 DEF Exit, CSInv, CSTypeOK, PidsDistinct, HeldIsLaunched, FlagIsCurrent,
       FlagNeedsStatus, FlagPins, TrustedIsRegistered, OnlyOwnChild, Child
  <1>5. ASSUME NEW u \in Untimed, WaitUntimed(u)
        PROVE  CSInv'
    <2>1. PICK c \in ChildrenAt(pidOf[u]) :
              /\ life[c] = "zombie"
              /\ life' = [life EXCEPT ![c] = "gone"]
              /\ stolen' = IF c \in Timed THEN stolen \cup {c} ELSE stolen
      BY <1>5 DEF WaitUntimed
    <2>2. c \in Child /\ consumed' = consumed \cup {u}
          /\ UNCHANGED <<pidOf, strangers, keepsStatus, auth, held, hits>>
      BY <1>5 DEF WaitUntimed, ChildrenAt
    <2>3. CSTypeOK'
      BY <1>1, <2>1, <2>2 DEF CSTypeOK
    <2>4. PidsDistinct' /\ HeldIsLaunched'
      BY <1>1, <2>1, <2>2 DEF CSInv, CSTypeOK, PidsDistinct, HeldIsLaunched, Child
    <2>5. FlagIsCurrent' /\ FlagNeedsStatus' /\ TrustedIsRegistered' /\ OnlyOwnChild'
      BY <2>1, <2>2 DEF CSInv, FlagIsCurrent, FlagNeedsStatus, TrustedIsRegistered, OnlyOwnChild
    <2>6. FlagPins'
      BY <1>1, <2>1, <2>2 DEF CSInv, CSTypeOK, FlagPins, Child
    <2>7. QED
      BY <2>3, <2>4, <2>5, <2>6 DEF CSInv
  <1>6. ASSUME NEW u \in Untimed, SignalUntimed(u)
        PROVE  CSInv'
    <2>1. u \notin Timed /\ u \in Child
      BY ChildAssumption DEF Child
    <2>2. hits' \subseteq Child \X (Child \cup {Stranger})
      BY <1>1, <1>6, <2>1 DEF SignalUntimed, CSTypeOK, Occupants
    <2>3. OnlyOwnChild'
      BY <1>6, <2>1 DEF SignalUntimed, CSInv, OnlyOwnChild
    <2>4. QED
      BY <1>6, <2>2, <2>3 DEF SignalUntimed, kernel, CSInv, CSTypeOK, PidsDistinct, HeldIsLaunched,
         FlagIsCurrent, FlagNeedsStatus, FlagPins, TrustedIsRegistered
  <1>7. ASSUME NEW u \in Untimed, NEW p \in Pid, LaunchUntimed(u, p)
        PROVE  CSInv'
    <2>1. u \notin Timed /\ u \in Child
      BY ChildAssumption DEF Child
    <2>2. CSTypeOK'
      BY <1>1, <1>7, <2>1 DEF LaunchUntimed, CSTypeOK
    <2>3. PidsDistinct'
      BY <1>1, <1>7, <2>1 DEF LaunchUntimed, CSInv, CSTypeOK, PidsDistinct, FreePid, Occupants
    <2>4. \A c \in held : c \in Child /\ c # u
      BY <1>1, <2>1 DEF CSTypeOK, Child
    <2>5. HeldIsLaunched' /\ FlagPins' /\ TrustedIsRegistered'
      BY <1>1, <1>7, <2>4 DEF LaunchUntimed, CSInv, CSTypeOK, HeldIsLaunched, FlagPins,
         TrustedIsRegistered
    <2>6. FlagIsCurrent' /\ FlagNeedsStatus' /\ OnlyOwnChild'
      BY <1>7 DEF LaunchUntimed, CSInv, FlagIsCurrent, FlagNeedsStatus, OnlyOwnChild
    <2>7. QED
      BY <2>2, <2>3, <2>5, <2>6 DEF CSInv
  <1>8. ASSUME NEW p \in Pid, StrangerArrives(p) \/ StrangerLeaves(p)
        PROVE  CSInv'
    <2>1. CSTypeOK' /\ PidsDistinct'
      BY <1>1, <1>8 DEF StrangerArrives, StrangerLeaves, CSInv, CSTypeOK, PidsDistinct, FreePid,
         Occupants
    <2>2. QED
      BY <1>8, <2>1 DEF StrangerArrives, StrangerLeaves, CSInv, HeldIsLaunched, FlagIsCurrent,
         FlagNeedsStatus, FlagPins, TrustedIsRegistered, OnlyOwnChild
  <1>9. QED
    BY <1>2, <1>3, <1>4, <1>5, <1>6, <1>7, <1>8 DEF Rest

--------------------------------------------------------------------------------
(* The theorems. *)

\* The invariant holds initially, when no identity exists.
LEMMA InitInv == CSInit => CSInv
  BY DEF CSInit, CSInv, CSTypeOK, Authority, NoIdentities, PidsDistinct, HeldIsLaunched,
     FlagIsCurrent, FlagNeedsStatus, FlagPins, TrustedIsRegistered, OnlyOwnChild, Alive

\* Every step keeps it.
LEMMA NextInv == CSInv /\ [CSNext]_csVars => CSInv'
  <1> SUFFICES ASSUME CSInv, [CSNext]_csVars
               PROVE  CSInv'
    OBVIOUS
  <1>1. ASSUME NEW c \in Timed, Identity(c)
        PROVE  CSInv'
    BY <1>1, IdentityKeepsInv
  <1>2. CASE Rest
    BY <1>2, RestKeepsInv
  <1>3. CASE UNCHANGED csVars
    BY <1>3 DEF csVars, CSInv, CSTypeOK, PidsDistinct, HeldIsLaunched, FlagIsCurrent,
       FlagNeedsStatus, FlagPins, TrustedIsRegistered, OnlyOwnChild, Alive
  <1>4. QED
    BY <1>1, <1>2, <1>3 DEF CSNext

\* CSInv is an invariant of the authority, for any number of children and ids.
THEOREM Invariance == CSSpec => []CSInv
  BY InitInv, NextInv, PTL DEF CSSpec

\* Type correctness: the authority and the process table keep their types.
THEOREM TypeCorrect == CSSpec => []CSTypeOK
  BY Invariance, PTL DEF CSInv

\* A signal sent through an identity reaches that child and nobody else.
THEOREM SignalSafety == CSSpec => []OnlyOwnChild
  BY Invariance, PTL DEF CSInv

\* An identity its owner trusts pins the process id.
THEOREM OwnershipSafety == CSSpec => []OwnedChildUnreaped
  <1>1. CSInv => OwnedChildUnreaped
    BY OwnedIsSoleOccupant DEF OwnedChildUnreaped
  <1>2. QED
    BY <1>1, Invariance, PTL

\* The registry lists every identity that is still trusted.
THEOREM RegistrySafety == CSSpec => []TrustedIsRegistered
  BY Invariance, PTL DEF CSInv

\* Under the invariant, being owned and having the flag are the same.
LEMMA OwnedIsFlagged == CSInv => \A c \in held : Owned(c) <=> auth.flag[c]
  <1> SUFFICES ASSUME CSInv, NEW c \in held
               PROVE  Owned(c) <=> auth.flag[c]
    OBVIOUS
  <1>1. CSTypeOK /\ FlagNeedsStatus /\ c \in Timed
    BY DEF CSInv, CSTypeOK
  <1>2. Owned(c) => auth.flag[c]
    BY <1>1, RefreshFacts DEF Owned, IsValid
  <1>3. auth.flag[c] => Owned(c)
    BY <1>1, RefreshFacts DEF CSInv, FlagIsCurrent, FlagNeedsStatus, Owned, IsValid
  <1>4. QED
    BY <1>2, <1>3

\* No step gives a held identity its flag back: only register raises a flag, and it
\* does so for a child that was not launched before.
LEMMA FlagsOnlyFall ==
    ASSUME CSInv, [CSNext]_csVars, NEW c \in held
    PROVE  auth'.flag[c] => auth.flag[c]
  <1>1. CSTypeOK /\ FlagNeedsStatus /\ c \in Timed /\ pidOf[c] \in Pid
    BY DEF CSInv, CSTypeOK, HeldIsLaunched
  <1>2. Refresh(auth) \in Authority /\ (Refresh(auth).flag[c] => auth.flag[c])
    BY <1>1, RefreshFacts
  <1>3. ASSUME NEW d \in Timed, Identity(d)
        PROVE  auth'.flag[c] => auth.flag[c]
    <2>1. ASSUME NEW p \in Pid, LaunchTimed(d, p)
          PROVE  auth'.flag[c] => auth.flag[c]
      <3>1. c # d
        BY <2>1 DEF LaunchTimed, CSInv, HeldIsLaunched
      <3>2. QED
        BY <1>1, <1>2, <2>1, <3>1 DEF LaunchTimed, Register, Authority
    <2>2. CASE Observe(d) \/ WaitOwned(d)
      <3>1. pidOf[d] \in Pid
        BY <2>2 DEF Observe, WaitOwned, CSInv, HeldIsLaunched
      <3>2. InvalidateIdentity(Refresh(auth), d).flag[c] => Refresh(auth).flag[c]
        BY <1>1, <1>2 DEF InvalidateIdentity, Authority
      <3>3. QED
        BY <1>2, <2>2, <3>2 DEF Observe, WaitOwned
    <2>3. CASE RefuseTimed(d) \/ SignalOwned(d) \/ SignalRefused(d) \/ Release(d)
      BY <1>2, <2>3 DEF RefuseTimed, SignalOwned, SignalRefused, Release
    <2>4. QED
      BY <1>3, <2>1, <2>2, <2>3 DEF Identity
  <1>4. ASSUME NEW keeps \in BOOLEAN, SetDisposition(keeps)
        PROVE  auth'.flag[c] => auth.flag[c]
    BY <1>1, <1>2, <1>4 DEF SetDisposition, Refresh, UpdateRetention, Authority
  <1>5. ASSUME NEW d \in Child, WaitAny(d)
        PROVE  auth'.flag[c] => auth.flag[c]
    BY <1>1, <1>2, <1>5 DEF WaitAny, InvalidatePid, Authority
  <1>6. CASE UNCHANGED auth
    BY <1>6
  <1>7. QED
    BY <1>3, <1>4, <1>5, <1>6 DEF CSNext, csVars, Rest, Exit, WaitUntimed, SignalUntimed,
       LaunchUntimed, StrangerArrives, StrangerLeaves

\* An identity that passes the check of an operation has its flag up.
LEMMA OwnedHasFlag ==
  CSTypeOK /\ FlagNeedsStatus => \A d \in Timed : Owned(d) => auth.flag[d]
  BY RefreshFacts DEF Owned, IsValid

\* An identity once lost stays lost, even if status collection is restored.
THEOREM NoRevival == CSSpec => LostForever
  <1>0. (CSTypeOK /\ FlagNeedsStatus => \A d \in Timed : Owned(d) => auth.flag[d])'
    BY OwnedHasFlag, PTL
  <1>1. CSInv /\ CSInv' /\ [CSNext]_csVars =>
            [\A c \in held : ~Owned(c) => ~Owned(c)']_csVars
    <2> SUFFICES ASSUME CSInv, CSInv', [CSNext]_csVars, NEW c \in held, ~Owned(c), c \in Timed,
                        Owned(c)'
                 PROVE  FALSE
      BY DEF CSInv, CSTypeOK
    <2>1. ~auth.flag[c]
      BY OwnedIsFlagged
    <2>2. ~auth'.flag[c]
      BY <2>1, FlagsOnlyFall
    <2>3. CSTypeOK' /\ FlagNeedsStatus'
      BY DEF CSInv
    <2>4. c \in Timed => (Owned(c)' => auth'.flag[c])
      BY <1>0, <2>3
    <2>5. QED
      BY <2>2, <2>3, <2>4
  <1>2. QED
    BY <1>1, Invariance, PTL DEF CSSpec, LostForever

================================================================================
