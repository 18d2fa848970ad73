------------------------------ MODULE ChildStatus ------------------------------
(***************************************************************************)
(* Ownership of child process identities (src/runtime/process.rs, the      *)
(* types ChildStatusAuthority and TimedChildIdentity).                     *)
(*                                                                         *)
(* The kernel recycles a process id once its process has been reaped.  A   *)
(* timed stream signals and reaps its child by number from two threads,    *)
(* while the same program may reap any child with wait(-1) and may tell    *)
(* the kernel to discard exit statuses.  One mutex, the authority, orders  *)
(* these operations: each of them holds it from its first check to its     *)
(* last system call and is one action here.  The kernel's own steps (an    *)
(* exit, a process id taken by a stranger) come at any moment between.     *)
(*                                                                         *)
(* Timed children are launched under the authority and get an identity.    *)
(* Untimed children are waited for and signalled by number only, outside   *)
(* the authority, as ManagedChild does everywhere else.                    *)
(***************************************************************************)
EXTENDS Naturals, FiniteSets

CONSTANTS
    Timed,      \* children of timed streams
    Untimed,    \* children owned by number only
    Pid,        \* process ids the kernel hands out
    NoPid,      \* "has no process id yet"
    NoChild,    \* "no registered identity"
    Stranger,   \* a process that is not a child of this program
    MaxEpoch    \* bound on the epoch counter (a wrapping u64 in the code)

Child == Timed \cup Untimed

ASSUME ChildAssumption ==
    /\ Timed \cap Untimed = {}
    /\ NoChild \notin Child
    /\ Stranger \notin Child
    /\ NoPid \notin Pid
    /\ MaxEpoch \in Nat

VARIABLES
    \* The kernel.
    life,         \* "unborn", "running", "zombie" or "gone", for each child
    pidOf,        \* the process id a child was given
    strangers,    \* the process ids that belong to unrelated processes
    keepsStatus,  \* whether the SIGCHLD action lets exit statuses be collected
    \* The program.
    auth,         \* the fields of ChildStatusAuthority, and the identities' own
    held,         \* the timed children some clone of whose identity is alive
    consumed,     \* the untimed children whose owner has collected a status
    \* History.
    stolen,       \* the timed children an untimed waiter reaped by number
    hits          \* <<c, v>>: a signal sent in the name of c reached v

kernel == <<life, pidOf, strangers, keepsStatus>>
csVars == <<life, pidOf, strangers, keepsStatus, auth, held, consumed, stolen, hits>>

--------------------------------------------------------------------------------
(* The kernel's process table. *)

Alive(c) == life[c] \in {"running", "zombie"}

\* The processes that a signal to process id p reaches.
Occupants(p) ==
    {c \in Child : Alive(c) /\ pidOf[c] = p}
        \cup (IF p \in strangers THEN {Stranger} ELSE {})

FreePid(p) == Occupants(p) = {}

--------------------------------------------------------------------------------
(* The methods of ChildStatusAuthority, as functions of its state.         *)
(*   retains, epoch, identities : the fields of the struct                 *)
(*   flag, made : the valid flag and the epoch inside each identity        *)

NoIdentities == [p \in Pid |-> NoChild]

\* Mutant: losing the status of children revokes nothing.
UpdateRetentionOnly(a, keeps) == [a EXCEPT !.retains = keeps]

UpdateRetention(a, keeps) ==
    IF a.retains /\ ~keeps
    THEN [a EXCEPT !.retains = FALSE,
                   !.epoch = a.epoch + 1,
                   !.flag = [c \in Timed |-> IF \E p \in Pid : a.identities[p] = c
                                           THEN FALSE ELSE a.flag[c]],
                   !.identities = NoIdentities]
    ELSE [a EXCEPT !.retains = keeps]

Refresh(a) == UpdateRetention(a, keepsStatus)

InvalidatePid(a, p) ==
    [a EXCEPT !.flag = [c \in Timed |-> a.flag[c] /\ c # a.identities[p]],
              !.identities[p] = NoChild]

\* Prune the entries nobody holds, revoke the number's last identity, enter the new.
Register(a, c, p) ==
    LET kept == [q \in Pid |-> IF a.identities[q] \in held THEN a.identities[q] ELSE NoChild]
    IN  [a EXCEPT !.identities = [kept EXCEPT ![p] = c],
                  !.flag = [d \in Timed |-> d = c \/ (a.flag[d] /\ d # kept[p])],
                  !.made[c] = a.epoch]

InvalidateIdentity(a, c) ==
    [a EXCEPT !.flag[c] = FALSE,
              !.identities[pidOf[c]] = IF a.identities[pidOf[c]] = c
                                       THEN NoChild ELSE a.identities[pidOf[c]]]

IsValid(a, c) == a.retains /\ a.epoch = a.made[c] /\ a.flag[c]

\* What an operation that takes the authority for c finds after its refresh.
Owned(c) == IsValid(Refresh(auth), c)

--------------------------------------------------------------------------------
(* Launches. *)

\* begin_timed_child_launch, the spawn and register, under one lock.
LaunchTimed(c, p) ==
    /\ life[c] = "unborn"
    /\ FreePid(p)
    /\ Refresh(auth).retains
    /\ life' = [life EXCEPT ![c] = "running"]
    /\ pidOf' = [pidOf EXCEPT ![c] = p]
    /\ auth' = Register(Refresh(auth), c, p)
    /\ held' = held \cup {c}
    /\ UNCHANGED <<strangers, keepsStatus, consumed, stolen, hits>>

\* begin_timed_child_launch answers ECHILD: nothing is spawned.
RefuseTimed(c) ==
    /\ life[c] = "unborn"
    /\ ~Refresh(auth).retains
    /\ auth' = Refresh(auth)
    /\ UNCHANGED <<kernel, held, consumed, stolen, hits>>

LaunchUntimed(c, p) ==
    /\ life[c] = "unborn"
    /\ FreePid(p)
    /\ life' = [life EXCEPT ![c] = "running"]
    /\ pidOf' = [pidOf EXCEPT ![c] = p]
    /\ UNCHANGED <<strangers, keepsStatus, auth, held, consumed, stolen, hits>>

--------------------------------------------------------------------------------
(* The operations of an identity; its owner still holds it. *)

\* signal_group_checked, signal_process_checked and signal_group.  A kill that
\* the kernel refuses reaches nobody.
SignalOwned(c) ==
    /\ c \in held
    /\ auth' = Refresh(auth)
    /\ hits' = IF Owned(c) THEN hits \cup ({c} \X Occupants(pidOf[c])) ELSE hits
    /\ UNCHANGED <<kernel, held, consumed, stolen>>

SignalRefused(c) ==
    /\ c \in held
    /\ Owned(c)
    /\ auth' = Refresh(auth)
    /\ UNCHANGED <<kernel, held, consumed, stolen, hits>>

\* observe: waitid with WNOWAIT names the process id, so it sees whichever
\* child of this program has that number now.
ChildrenAt(p) == {d \in Child : Alive(d) /\ pidOf[d] = p}

ObserveResult(c) ==
    IF ~Owned(c) \/ ChildrenAt(pidOf[c]) = {} THEN "lost"
    ELSE IF \E d \in ChildrenAt(pidOf[c]) : life[d] = "zombie" THEN "exited"
    ELSE "running"

Observe(c) ==
    /\ c \in held
    /\ auth' = IF Owned(c) /\ ObserveResult(c) = "lost"
               THEN InvalidateIdentity(Refresh(auth), c)
               ELSE Refresh(auth)
    /\ UNCHANGED <<kernel, held, consumed, stolen, hits>>

\* waitpid: "reaped" collects the status and gives up the identity.
WaitResult(c) ==
    CASE ObserveResult(c) = "lost" -> "error"
      [] ObserveResult(c) = "exited" -> "reaped"
      [] OTHER -> "none"

\* Mutant: an identity outlives its own reaping.
WaitOwnedKeepsIdentity(c) ==
    /\ c \in held
    /\ life' = [d \in Child |-> IF WaitResult(c) = "reaped" /\ d \in ChildrenAt(pidOf[c])
                                THEN "gone" ELSE life[d]]
    /\ auth' = Refresh(auth)
    /\ UNCHANGED <<pidOf, strangers, keepsStatus, held, consumed, stolen, hits>>

WaitOwned(c) ==
    /\ c \in held
    /\ life' = [d \in Child |-> IF WaitResult(c) = "reaped" /\ d \in ChildrenAt(pidOf[c])
                                THEN "gone" ELSE life[d]]
    /\ auth' = IF Owned(c) /\ WaitResult(c) # "none"
               THEN InvalidateIdentity(Refresh(auth), c)
               ELSE Refresh(auth)
    /\ UNCHANGED <<pidOf, strangers, keepsStatus, held, consumed, stolen, hits>>

\* The last clone of the identity is dropped: its weak reference in the map
\* is dead until the next registration prunes it.
Release(c) ==
    /\ c \in held
    /\ held' = held \ {c}
    /\ UNCHANGED <<kernel, auth, consumed, stolen, hits>>

--------------------------------------------------------------------------------
(* Operations that may take the place of an owner. *)

\* change_process_signal_action for SIGCHLD.
SetDisposition(keeps) ==
    /\ auth.epoch < MaxEpoch
    /\ keepsStatus' = keeps
    /\ auth' = UpdateRetention(UpdateRetention(auth, keepsStatus), keeps)
    /\ UNCHANGED <<life, pidOf, strangers, held, consumed, stolen, hits>>

\* Mutant: the identity of a child reaped by wait(-1) is not revoked.
WaitAnyKeepsIdentity(c) ==
    /\ life[c] = "zombie"
    /\ life' = [life EXCEPT ![c] = "gone"]
    /\ auth' = Refresh(auth)
    /\ UNCHANGED <<pidOf, strangers, keepsStatus, held, consumed, stolen, hits>>

\* wait_any_child_nohang reaps some child, or finds none ready.
WaitAny(c) ==
    /\ life[c] = "zombie"
    /\ life' = [life EXCEPT ![c] = "gone"]
    /\ auth' = InvalidatePid(Refresh(auth), pidOf[c])
    /\ UNCHANGED <<pidOf, strangers, keepsStatus, held, consumed, stolen, hits>>

\* waitpid_managed for an untimed child: by number and without the authority.
WaitUntimed(u) ==
    /\ life[u] # "unborn"
    /\ u \notin consumed
    /\ \E c \in ChildrenAt(pidOf[u]) :
           /\ life[c] = "zombie"
           /\ life' = [life EXCEPT ![c] = "gone"]
           /\ stolen' = IF c \in Timed THEN stolen \cup {c} ELSE stolen
    /\ consumed' = consumed \cup {u}
    /\ UNCHANGED <<pidOf, strangers, keepsStatus, auth, held, hits>>

\* ProcessGroup::signal and ProcessGroup::kill for an untimed child.
SignalUntimed(u) ==
    /\ life[u] # "unborn"
    /\ u \notin consumed
    /\ hits' = hits \cup ({u} \X Occupants(pidOf[u]))
    /\ UNCHANGED <<kernel, auth, held, consumed, stolen>>

--------------------------------------------------------------------------------
(* The kernel. *)

Exit(c) ==
    /\ life[c] = "running"
    /\ life' = [life EXCEPT ![c] = IF keepsStatus THEN "zombie" ELSE "gone"]
    /\ UNCHANGED <<pidOf, strangers, keepsStatus, auth, held, consumed, stolen, hits>>

StrangerArrives(p) ==
    /\ FreePid(p)
    /\ strangers' = strangers \cup {p}
    /\ UNCHANGED <<life, pidOf, keepsStatus, auth, held, consumed, stolen, hits>>

StrangerLeaves(p) ==
    /\ p \in strangers
    /\ strangers' = strangers \ {p}
    /\ UNCHANGED <<life, pidOf, keepsStatus, auth, held, consumed, stolen, hits>>

--------------------------------------------------------------------------------

\* ChildStatusAuthority::new; SIGCHLD may have been inherited ignored.
CSInit ==
    /\ life = [c \in Child |-> "unborn"]
    /\ pidOf = [c \in Child |-> NoPid]
    /\ strangers \in SUBSET Pid
    /\ keepsStatus \in BOOLEAN
    /\ auth = [retains |-> TRUE, epoch |-> 0, identities |-> NoIdentities,
               flag |-> [c \in Timed |-> FALSE], made |-> [c \in Timed |-> 0]]
    /\ held = {}
    /\ consumed = {}
    /\ stolen = {}
    /\ hits = {}

Identity(c) ==
    \/ \E p \in Pid : LaunchTimed(c, p)
    \/ RefuseTimed(c)
    \/ SignalOwned(c)
    \/ SignalRefused(c)
    \/ Observe(c)
    \/ WaitOwned(c)
    \/ Release(c)

Rest ==
    \/ \E keeps \in BOOLEAN : SetDisposition(keeps)
    \/ \E c \in Child : WaitAny(c) \/ Exit(c)
    \/ \E u \in Untimed : WaitUntimed(u) \/ SignalUntimed(u) \/ \E p \in Pid : LaunchUntimed(u, p)
    \/ \E p \in Pid : StrangerArrives(p) \/ StrangerLeaves(p)

CSNext == (\E c \in Timed : Identity(c)) \/ Rest

CSSpec == CSInit /\ [][CSNext]_csVars

--------------------------------------------------------------------------------
(* Properties. *)

Authority ==
    [retains : BOOLEAN, epoch : Nat, identities : [Pid -> Timed \cup {NoChild}],
     flag : [Timed -> BOOLEAN], made : [Timed -> Nat]]

\* Every variable has its type.
CSTypeOK ==
    /\ life \in [Child -> {"unborn", "running", "zombie", "gone"}]
    /\ pidOf \in [Child -> Pid \cup {NoPid}]
    /\ strangers \subseteq Pid
    /\ keepsStatus \in BOOLEAN
    /\ auth \in Authority
    /\ held \subseteq Timed
    /\ consumed \subseteq Untimed
    /\ stolen \subseteq Timed
    /\ hits \subseteq Child \X (Child \cup {Stranger})

\* A signal sent through an identity reaches that child and nobody else, however
\* reaping, recycling of process ids and changes of the SIGCHLD action interleave
\* with it.  The one exception is a child whose status an untimed waiter collected
\* by a recycled number behind the authority's back.
OnlyOwnChild ==
    \A h \in hits : h[1] \in Timed \ stolen => h[2] = h[1]

\* An identity that its owner still trusts pins the process id: the child has not
\* been reaped by anybody, so the number cannot have been given away.
OwnedChildUnreaped ==
    \A c \in held \ stolen : Owned(c) => Alive(c)

\* Whoever reaps a child by number can find the identity to revoke: the registry
\* lists every identity that is still trusted, under the number of its child.
TrustedIsRegistered ==
    \A c \in held : auth.flag[c] => auth.identities[pidOf[c]] = c

\* An identity once lost stays lost, even if the program later restores status
\* collection (docs/SPEC.md, Capture).
LostForever ==
    [][\A c \in held : ~Owned(c) => ~Owned(c)']_csVars

================================================================================
