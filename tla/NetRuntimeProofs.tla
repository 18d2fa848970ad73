----------------------------- MODULE NetRuntimeProofs -----------------------------
(***************************************************************************)
(* Proofs about the network runtime, for any number of operations, permits *)
(* and admissions: its invariants, that no transport starts for an         *)
(* operation that has its result, and that it implements NetCompletion.    *)
(*                                                                         *)
(* The invariant follows an operation through its stages: submitted,       *)
(* preparing, queued, active, being canceled.  They exclude each other,    *)
(* each command in the queue belongs to one of them, and what the driver   *)
(* has not finished has no result yet.  There is one lemma for each action.*)
(***************************************************************************)
EXTENDS NetRuntime, FiniteSetTheorems, SequenceTheorems, TLAPS

--------------------------------------------------------------------------------
(* The inductive invariant. *)

Ready == {"Prepared", "Unprepared"}

\* A place in the queue of commands is the only one of its kind.
OnlyOne(o, types) ==
    \A i, j \in DOMAIN commands :
        /\ commands[i].op = o /\ commands[i].type \in types
        /\ commands[j].op = o /\ commands[j].type \in types
        => i = j

\* What the evaluator, the driver and each command speak of.
Subjects ==
    /\ caller.at \in {"admit", "register"} => caller.op \in Op /\ life[caller.op] = "new"
    /\ caller.at \in {"push", "wake"} =>
          \/ caller.send = "Shutdown" /\ caller.op = NoOp
          \/ caller.send \in {"Submit", "Cancel"} /\ caller.op \in Op /\ driver.at # "off"
    /\ driver.at \in {"cancel", "cancelNow", "drained"} => driver.op \in Op
    /\ \A i \in DOMAIN commands : commands[i].type # "Shutdown" => commands[i].op \in Op

\* Nothing has been done for an operation that was not accepted.
NothingBeforeAcceptance ==
    \A o \in Op : life[o] # "accepted" =>
        /\ o \notin terminals /\ result[o] = "none" /\ o \notin received
        /\ preflight[o] = "none" /\ transport[o] = "none" /\ canceling[o] = "none"
        /\ o \notin deadlines /\ ~InCommands(o, CommandTypes)
        /\ driver.op # o
        /\ ~(caller.at \in {"push", "wake"} /\ caller.op = o)

\* Before the driver starts nothing is accepted, or about to be.
OffIsEmpty ==
    driver.at = "off" => caller.at \notin {"admit", "register"} /\ Accepted = {}

\* The stages of an operation exclude each other.
Submitted(o) ==
    /\ caller.at = "push" /\ caller.send = "Submit" /\ caller.op = o =>
          preflight[o] = "none" /\ ~InCommands(o, {"Submit"})
    /\ InCommands(o, {"Submit"}) => preflight[o] = "none" /\ OnlyOne(o, {"Submit"})
    /\ preflight[o] = "none" =>
          /\ o \notin preparing /\ ~InQueue(o) /\ o \notin active /\ ~InCommands(o, Ready)
          /\ transport[o] = "none" /\ canceling[o] = "none"

SubmittedStage == \A o \in Op : Submitted(o)

Preparing(o) ==
    /\ o \in preparing =>
          /\ preflight[o] \in {"running", "ended"}
          /\ preflight[o] = "ended" => InCommands(o, Ready)
          /\ ~InQueue(o) /\ o \notin active
          /\ transport[o] = "none" /\ canceling[o] = "none"
    /\ InCommands(o, Ready) =>
          /\ preflight[o] = "ended" /\ OnlyOne(o, Ready)
          /\ ~InQueue(o) /\ o \notin active /\ transport[o] = "none"
          /\ canceling[o] \in {"none", "preflight"}
          /\ Scheduling => o \in preparing \/ result[o] # "none"

PreparingStage == \A o \in Op : Preparing(o)

QueuedStage ==
    /\ \A o \in Op : InQueue(o) =>
          preflight[o] = "ended" /\ o \notin active
          /\ transport[o] = "none" /\ canceling[o] = "none"
    /\ \A i, j \in DOMAIN pending : pending[i] = pending[j] => i = j

ActiveStage ==
    \A o \in Op :
        /\ o \in active => transport[o] \in {"running", "ended"} /\ canceling[o] = "none"
        /\ transport[o] = "running" => o \in active \/ canceling[o] = "transport"
        /\ transport[o] # "none" => preflight[o] = "ended"
        /\ transport[o] = "ended" => result[o] # "none"
        /\ InCommands(o, {"Finished"}) => transport[o] = "ended"

CancelingStage ==
    /\ \A o \in Op :
          /\ canceling[o] = "preflight" => transport[o] = "none"
          /\ canceling[o] = "transport" => transport[o] \in {"running", "ended"}
          /\ canceling[o] \in {"cleanup", "complete"} => transport[o] \in {"ended", "dropped"}
    /\ driver.at = "drained" => transport[driver.op] \in {"ended", "dropped"}

\* While the driver has not failed, what it has not finished has no result.
Up == driver.at \notin {"failing", "exiting", "exited"}

UnfinishedHasNoResult ==
    Up => \A o \in Op :
              preflight[o] = "none" \/ o \in preparing \/ InQueue(o) \/ transport[o] = "running"
                            => result[o] = "none"

\* Every command that waits will be seen.
CommandsAreSeen ==
    driver.at \in {"fill", "waiting"} /\ commands # <<>> => wake \/ CallerAt("wake")

Counted ==
    /\ IsFiniteSet(terminals) /\ IsFiniteSet(preparing) /\ IsFiniteSet(active)
    /\ Scheduling \/ driver.at \in {"off", "drainPending"} =>
          count.queued = Cardinality(preparing) + Len(pending)
    /\ Up => count.active = Cardinality(active)
    /\ Cardinality(active) <= MaxActive

NetInv ==
    /\ TypeOK
    /\ Subjects
    /\ NothingBeforeAcceptance
    /\ OffIsEmpty
    /\ SubmittedStage
    /\ PreparingStage
    /\ QueuedStage
    /\ ActiveStage
    /\ CancelingStage
    /\ UnfinishedHasNoResult
    /\ CommandsAreSeen
    /\ Counted
    /\ AdmissionExact
    /\ NothingForgotten
    /\ CanceledIsStopped

--------------------------------------------------------------------------------
(* The queue of commands, the queue of operations, and finite sets. *)

CommandsTyped == commands \in Seq([type : CommandTypes, op : Op \cup {NoOp}])

\* The commands of an operation o that changed are those of the types in question.
Popped(type, x) ==
    /\ CommandsTyped'
    /\ x \in Op \cup {NoOp} /\ type \in CommandTypes
    /\ \A o, types : InCommands(o, types)' => InCommands(o, types)
    /\ \A o, types :
          InCommands(o, types) => InCommands(o, types)' \/ (x = o /\ type \in types)
    /\ \A o, types : OnlyOne(o, types) => OnlyOne(o, types)'
    /\ \A types : type \in types /\ OnlyOne(x, types) => ~InCommands(x, types)'
    /\ \A types : type \in types => InCommands(x, types)
    /\ \A i \in DOMAIN commands' :
          \E j \in DOMAIN commands : commands'[i] = commands[j]
    /\ \E j \in DOMAIN commands : commands[j].type = type /\ commands[j].op = x

Appended(type, x) ==
    /\ CommandsTyped'
    /\ commands' # <<>>
    /\ \A o, types : InCommands(o, types) => InCommands(o, types)'
    /\ \A types : type \in types => InCommands(x, types)'
    /\ \A o, types :
          InCommands(o, types)' => InCommands(o, types) \/ (x = o /\ type \in types)
    /\ \A o, types :
          OnlyOne(o, types) /\ ~(x = o /\ type \in types) => OnlyOne(o, types)'
    /\ \A types : ~InCommands(x, types) => OnlyOne(x, types)'
    /\ \A i \in DOMAIN commands' :
          \/ commands'[i] = Command(type, x)
          \/ \E j \in DOMAIN commands : commands'[i] = commands[j]

\* Taking the first command out moves the others and loses only that one.
LEMMA PopFacts ==
    ASSUME TypeOK, NEW type, Pop(type)
    PROVE  \E x : x = Head(commands).op /\ Popped(type, x)
  <1> SUFFICES ASSUME NEW x, x = Head(commands).op
               PROVE  Popped(type, x)
    OBVIOUS
  <1> DEFINE C == [type : CommandTypes, op : Op \cup {NoOp}]
  <1>1. /\ commands \in Seq(C) /\ commands # <<>> /\ commands' = Tail(commands)
        /\ x = commands[1].op /\ commands[1].type = type /\ commands[1] \in C
    <2>1. commands \in Seq(C) /\ commands # <<>>
      BY DEF TypeOK, Pop
    <2>2. Head(commands) = commands[1] /\ commands[1] \in C
      <3> HIDE DEF C
      <3> QED
        BY <2>1
    <2>3. QED
      BY <2>1, <2>2 DEF Pop
  <1>2. x \in Op \cup {NoOp} /\ type \in CommandTypes
    BY <1>1
  <1> HIDE DEF C
  <1>3. /\ commands' \in Seq(C)
        /\ 1 \in DOMAIN commands
        /\ \A i \in DOMAIN commands' :
              i \in Nat \ {0} /\ i + 1 \in DOMAIN commands /\ commands'[i] = commands[i + 1]
        /\ \A i \in DOMAIN commands : i # 1 =>
              i \in Nat /\ i - 1 \in DOMAIN commands' /\ commands'[i - 1] = commands[i]
    BY <1>1
  <1>4. \A o, types : InCommands(o, types)' => InCommands(o, types)
    BY <1>3 DEF InCommands
  <1>5. ASSUME NEW o, NEW types, InCommands(o, types), ~(x = o /\ type \in types)
        PROVE  InCommands(o, types)'
    <2>1. PICK i \in DOMAIN commands : commands[i].op = o /\ commands[i].type \in types
      BY <1>5 DEF InCommands
    <2>2. i # 1
      BY <1>1, <1>5, <2>1
    <2>3. i - 1 \in DOMAIN commands' /\ commands'[i - 1] = commands[i]
      BY <1>3, <2>2
    <2>4. QED
      BY <2>1, <2>3 DEF InCommands
  <1>6. \A o, types : OnlyOne(o, types) => OnlyOne(o, types)'
    BY <1>3 DEF OnlyOne
  <1>7. ASSUME NEW types, type \in types, OnlyOne(x, types), InCommands(x, types)'
        PROVE  FALSE
    <2>1. PICK i \in DOMAIN commands' : commands'[i].op = x /\ commands'[i].type \in types
      BY <1>7 DEF InCommands
    <2>2. i \in Nat \ {0} /\ i + 1 \in DOMAIN commands /\ commands'[i] = commands[i + 1]
      BY <1>3
    <2>3. i + 1 = 1
      BY <1>1, <1>3, <1>7, <2>1, <2>2 DEF OnlyOne
    <2>4. QED
      BY <2>2, <2>3
  <1>8. \A types : type \in types => InCommands(x, types)
    BY <1>1, <1>3 DEF InCommands
  <1>9. \A i \in DOMAIN commands' : \E j \in DOMAIN commands : commands'[i] = commands[j]
    BY <1>3
  <1>10. QED
    BY <1>2, <1>1, <1>3, <1>4, <1>5, <1>6, <1>7, <1>8, <1>9 DEF C, Popped,
       CommandsTyped

\* A command that is added comes behind all others.
LEMMA AppendFacts ==
    ASSUME TypeOK, NEW type \in CommandTypes, NEW x \in Op \cup {NoOp},
           commands' = Append(commands, Command(type, x))
    PROVE  Appended(type, x)
  <1> DEFINE C == [type : CommandTypes, op : Op \cup {NoOp}]
             new == Command(type, x)
             n == Len(commands) + 1
  <1>1. /\ commands \in Seq(C) /\ new \in C /\ new.type = type /\ new.op = x
        /\ commands' = Append(commands, new)
    BY DEF TypeOK, Command
  <1> HIDE DEF C, new
  <1>2. /\ commands' \in Seq(C) /\ commands' # <<>>
        /\ n \in DOMAIN commands' /\ n \notin DOMAIN commands /\ commands'[n] = new
        /\ \A i \in DOMAIN commands' : i = n \/ i \in DOMAIN commands
        /\ \A i \in DOMAIN commands : i \in DOMAIN commands' /\ commands'[i] = commands[i]
    BY <1>1
  <1> HIDE DEF n
  <1>3. \A o, types : InCommands(o, types) => InCommands(o, types)'
    BY <1>2 DEF InCommands
  <1>4. \A types : type \in types => InCommands(x, types)'
    BY <1>1, <1>2 DEF InCommands
  <1>5. ASSUME NEW o, NEW types, InCommands(o, types)', ~InCommands(o, types)
        PROVE  x = o /\ type \in types
    <2>1. PICK i \in DOMAIN commands' : commands'[i].op = o /\ commands'[i].type \in types
      BY <1>5 DEF InCommands
    <2>2. i = n
      BY <1>2, <1>5, <2>1 DEF InCommands
    <2>3. QED
      BY <1>1, <1>2, <2>1, <2>2
  <1>6. ASSUME NEW o, NEW types, OnlyOne(o, types), ~(x = o /\ type \in types)
        PROVE  OnlyOne(o, types)'
    BY <1>1, <1>2, <1>6 DEF OnlyOne
  <1>7. ASSUME NEW types, ~InCommands(x, types)
        PROVE  OnlyOne(x, types)'
    BY <1>1, <1>2, <1>7 DEF OnlyOne, InCommands
  <1>8. \A i \in DOMAIN commands' :
                 commands'[i] = new \/ \E j \in DOMAIN commands : commands'[i] = commands[j]
    BY <1>2
  <1>9. QED
    BY <1>2, <1>3, <1>4, <1>5, <1>6, <1>7, <1>8 DEF C, new, Appended, CommandsTyped

\* In a queue without repetitions, RemoveFirst takes out that operation only.
LEMMA RemoveFirstFacts ==
    ASSUME NEW q \in Seq(Op), NEW o, NEW k \in DOMAIN q, q[k] = o,
           \A i, j \in DOMAIN q : q[i] = q[j] => i = j
    PROVE  /\ RemoveFirst(q, o) \in Seq(Op)
           /\ Len(RemoveFirst(q, o)) = Len(q) - 1
           /\ \A i \in DOMAIN RemoveFirst(q, o) :
                 RemoveFirst(q, o)[i] # o /\ \E j \in DOMAIN q : q[j] = RemoveFirst(q, o)[i]
           /\ \A j \in DOMAIN q : q[j] # o =>
                 \E i \in DOMAIN RemoveFirst(q, o) : RemoveFirst(q, o)[i] = q[j]
           /\ \A i, j \in DOMAIN RemoveFirst(q, o) :
                 RemoveFirst(q, o)[i] = RemoveFirst(q, o)[j] => i = j
  <1> DEFINE I == {i \in 1 .. Len(q) : q[i] = o}
             a == SubSeq(q, 1, k - 1)
             b == SubSeq(q, k + 1, Len(q))
             r == a \o b
  <1>1. I = {k} /\ k \in 1 .. Len(q)
    OBVIOUS
  <1>2. SelectInSeq(q, LAMBDA v : v = o) = k
    <2>1. Min({k}) = k
      BY <1>1 DEF Min
    <2>2. QED
      BY <1>1, <2>1 DEF SelectInSeq
  <1>3. RemoveFirst(q, o) = r
    BY <1>1, <1>2 DEF RemoveFirst, RemoveAt
  <1>4. /\ a \in Seq(Op) /\ Len(a) = k - 1
        /\ \A i \in 1 .. k - 1 : a[i] = q[i]
    BY <1>1
  <1>5. /\ b \in Seq(Op) /\ Len(b) = Len(q) - k
        /\ \A i \in 1 .. Len(q) - k : b[i] = q[k + i]
    BY <1>1
  <1> HIDE DEF a, b
  <1>6. /\ r \in Seq(Op)
        /\ Len(r) = Len(q) - 1
        /\ \A i \in 1 .. Len(q) - 1 : r[i] = IF i < k THEN q[i] ELSE q[i + 1]
    <2>1. r \in Seq(Op) /\ Len(r) = Len(a) + Len(b)
      BY <1>4, <1>5, ConcatProperties
    <2>2. \A i \in 1 .. Len(a) + Len(b) : r[i] = IF i <= Len(a) THEN a[i] ELSE b[i - Len(a)]
      BY <1>4, <1>5, ConcatProperties
    <2> HIDE DEF r
    <2>3. Len(r) = Len(q) - 1
      BY <1>1, <1>4, <1>5, <2>1
    <2>4. ASSUME NEW i \in 1 .. Len(q) - 1
          PROVE  r[i] = IF i < k THEN q[i] ELSE q[i + 1]
      <3>1. /\ k \in Nat /\ Len(q) \in Nat /\ k <= Len(q) /\ k >= 1
            /\ Len(a) = k - 1 /\ Len(b) = Len(q) - k
        BY <1>1, <1>4, <1>5
      <3>2. r[i] = IF i <= k - 1 THEN a[i] ELSE b[i - (k - 1)]
        <4>1. i \in 1 .. Len(a) + Len(b)
          BY <3>1
        <4>2. QED
          BY <2>2, <3>1, <4>1
      <3>3. CASE i < k
        BY <1>4, <3>1, <3>3, <3>2
      <3>4. CASE i >= k
        <4>1. r[i] = b[i - (k - 1)] /\ i - (k - 1) \in 1 .. Len(q) - k
          BY <3>1, <3>4, <3>2
        <4>2. b[i - (k - 1)] = q[k + (i - (k - 1))] /\ k + (i - (k - 1)) = i + 1
          BY <1>1, <1>5, <4>1
        <4>3. QED
          BY <1>1, <3>4, <4>1, <4>2
      <3>5. QED
        BY <1>1, <3>3, <3>4
    <2>5. QED
      BY <2>1, <2>3, <2>4
  <1> HIDE DEF r
  <1>7. ASSUME NEW i \in DOMAIN r, NEW j \in DOMAIN r, r[i] = r[j]
        PROVE  i = j
    <2> DEFINE at(m) == IF m < k THEN m ELSE m + 1
    <2>1. i \in 1 .. Len(q) - 1 /\ j \in 1 .. Len(q) - 1
      BY <1>1, <1>6
    <2>2. /\ at(i) \in DOMAIN q /\ at(j) \in DOMAIN q
          /\ r[i] = q[at(i)] /\ r[j] = q[at(j)]
      <3>1. \A m \in 1 .. Len(q) - 1 : at(m) \in DOMAIN q /\ r[m] = q[at(m)]
        BY <1>1, <1>6
      <3>2. QED
        BY <2>1, <3>1
    <2>3. at(i) = at(j)
      BY <1>7, <2>2
    <2>4. QED
      BY <1>1, <2>1, <2>3
  <1>8. \A i \in DOMAIN r : r[i] # o /\ \E j \in DOMAIN q : q[j] = r[i]
    BY <1>6
  <1>9. \A j \in DOMAIN q : q[j] # o => \E i \in DOMAIN r : r[i] = q[j]
    <2> SUFFICES ASSUME NEW j \in DOMAIN q, q[j] # o
                 PROVE  \E i \in DOMAIN r : r[i] = q[j]
      OBVIOUS
    <2>1. CASE j < k
      BY <1>6, <2>1
    <2>2. CASE j > k
      <3>1. j - 1 \in DOMAIN r
        BY <1>1, <1>6, <2>2
      <3>2. r[j - 1] = q[j]
        BY <1>1, <1>6, <2>2, <3>1
      <3>3. QED
        BY <3>1, <3>2
    <2>3. QED
      BY <1>1, <2>1, <2>2
  <1>10. QED
    BY <1>3, <1>6, <1>7, <1>8, <1>9

\* A queue that is left alone holds the same commands.
LEMMA SameFacts ==
    ASSUME commands' = commands
    PROVE  /\ \A o, types : InCommands(o, types)' <=> InCommands(o, types)
           /\ \A o, types : OnlyOne(o, types)' <=> OnlyOne(o, types)
    BY DEF InCommands, OnlyOne

\* What is assumed of the constants, but for the fault.
LEMMA ConstantFacts ==
    /\ NoOp \notin Op /\ Deadlined \subseteq Op
    /\ MaxActive \in Nat \ {0} /\ MaxAdmitted \in Nat
    BY NetAssumption

\* The sizes of a finite set with an element more and an element less.
LEMMA CardFacts ==
    ASSUME NEW S, IsFiniteSet(S), NEW x
    PROVE  /\ Cardinality(S) \in Nat
           /\ IsFiniteSet(S \ {x}) /\ IsFiniteSet(S \cup {x})
           /\ x \in S => Cardinality(S \ {x}) = Cardinality(S) - 1 /\ Cardinality(S) # 0
           /\ x \notin S => S \ {x} = S /\ Cardinality(S \cup {x}) = Cardinality(S) + 1
  <1>1. Cardinality(S) \in Nat /\ IsFiniteSet(S \ {x}) /\ IsFiniteSet(S \cup {x})
    BY FS_CardinalityType, FS_AddElement, FS_RemoveElement
  <1>2. x \in S => Cardinality(S \ {x}) = Cardinality(S) - 1
    BY FS_RemoveElement
  <1>3. x \in S => Cardinality(S) # 0
    BY FS_EmptySet
  <1>4. x \notin S => Cardinality(S \cup {x}) = Cardinality(S) + 1
    BY FS_AddElement
  <1>5. QED
    BY <1>1, <1>2, <1>3, <1>4

\* What is known of an operation whose submission waits in the queue.
LEMMA SubmittedFacts ==
    ASSUME NetInv, NEW x \in Op, InCommands(x, {"Submit"})
    PROVE  /\ preflight[x] = "none" /\ OnlyOne(x, {"Submit"})
           /\ x \notin preparing /\ ~InQueue(x) /\ x \notin active /\ ~InCommands(x, Ready)
           /\ transport[x] = "none" /\ canceling[x] = "none"
           /\ Up => result[x] = "none"
           /\ ~(caller.at = "push" /\ caller.send = "Submit" /\ caller.op = x)
  <1>1. preflight[x] = "none" /\ OnlyOne(x, {"Submit"})
    BY DEF NetInv, SubmittedStage, Submitted
  <1>2. /\ x \notin preparing /\ ~InQueue(x) /\ x \notin active /\ ~InCommands(x, Ready)
        /\ transport[x] = "none" /\ canceling[x] = "none"
    BY <1>1 DEF NetInv, SubmittedStage, Submitted
  <1>3. Up => result[x] = "none"
    BY <1>1 DEF NetInv, UnfinishedHasNoResult
  <1>4. ~(caller.at = "push" /\ caller.send = "Submit" /\ caller.op = x)
    BY DEF NetInv, SubmittedStage, Submitted
  <1>5. QED
    BY <1>1, <1>2, <1>3, <1>4

\* What is known of an operation whose preflight has ended and is not yet handled.
LEMMA ReadyFacts ==
    ASSUME NetInv, NEW x \in Op, InCommands(x, Ready)
    PROVE  /\ preflight[x] = "ended" /\ OnlyOne(x, Ready)
           /\ ~InQueue(x) /\ x \notin active /\ transport[x] = "none"
           /\ canceling[x] \in {"none", "preflight"}
           /\ Scheduling => x \in preparing \/ result[x] # "none"
           /\ x \in preparing => canceling[x] = "none" /\ (Up => result[x] = "none")
  <1>1. /\ preflight[x] = "ended" /\ OnlyOne(x, Ready)
        /\ ~InQueue(x) /\ x \notin active /\ transport[x] = "none"
        /\ canceling[x] \in {"none", "preflight"}
        /\ Scheduling => x \in preparing \/ result[x] # "none"
        /\ x \in preparing => canceling[x] = "none"
    BY DEF NetInv, PreparingStage, Preparing
  <1>2. x \in preparing /\ Up => result[x] = "none"
    BY DEF NetInv, UnfinishedHasNoResult
  <1>3. QED
    BY <1>1, <1>2

\* An operation that is added to a queue is the only new one in it.
LEMMA InQueueAppend ==
    ASSUME NEW q \in Seq(Op), NEW x \in Op
    PROVE  {Append(q, x)[i] : i \in DOMAIN Append(q, x)} = {q[i] : i \in DOMAIN q} \cup {x}
  <1> DEFINE r == Append(q, x)
  <1>1. /\ \A i \in DOMAIN q : i \in DOMAIN r /\ r[i] = q[i]
        /\ \A i \in DOMAIN r : i \in DOMAIN q \/ i = Len(q) + 1
        /\ Len(q) + 1 \in DOMAIN r /\ r[Len(q) + 1] = x
    OBVIOUS
  <1> HIDE DEF r
  <1>2. QED
    BY <1>1

\* An operation that has no permit is taken out: what that does to the collections.
Withdrawn(x, r) ==
    /\ preflight[x] \in {"running", "ended"} /\ (preflight[x] = "ended" \/ x \in preparing)
    /\ x \notin active /\ transport[x] = "none" /\ canceling[x] = "none"
    /\ result[x] = "none" /\ result' = [result EXCEPT ![x] = r]
    /\ preparing' = preparing \ {x} /\ IsFiniteSet(preparing')
    /\ pending' \in Seq(Op)
    /\ \A i, j \in DOMAIN pending' : pending'[i] = pending'[j] => i = j
    /\ \A o : InQueue(o)' <=> InQueue(o) /\ o # x
    /\ count' = [count EXCEPT !.queued = @ - 1] /\ count.queued \in Nat \ {0}
    /\ count'.queued = Cardinality(preparing') + Len(pending')

\* Withdraw takes out a waiting operation only, and completes and cancels no other.
LEMMA WithdrawFacts ==
    ASSUME NetInv, Scheduling, NEW x \in Op, NEW r, Withdraw(x, r)
    PROVE  /\ Withdrawn(x, r)
           /\ canceling' = [canceling EXCEPT ![x] =
                IF x \in preparing THEN "preflight" ELSE "none"]
           /\ \A o \in Op : o # x => canceling'[o] = canceling[o] /\ result'[o] = result[o]
           /\ result'[x] = r /\ canceling'[x] \in {"none", "preflight"}
  <1>1. /\ count.queued = Cardinality(preparing) + Len(pending) /\ IsFiniteSet(preparing)
        /\ Cardinality(preparing) \in Nat /\ Len(pending) \in Nat /\ pending \in Seq(Op)
        /\ \A i, j \in DOMAIN pending : pending[i] = pending[j] => i = j
    BY FS_CardinalityType DEF NetInv, TypeOK, Counted, QueuedStage
  <1>2. /\ count \in [admitted : Nat, queued : Nat, active : Nat]
        /\ canceling \in [Op -> {"none", "preflight", "transport", "cleanup", "complete"}]
        /\ result \in [Op -> {"none", "response", "error", "timeout", "canceled", "failed"}]
    BY DEF NetInv, TypeOK
  <1>3. /\ count' = [count EXCEPT !.queued = @ - 1]
        /\ result[x] = "none" => result' = [result EXCEPT ![x] = r]
    BY <1>2 DEF Withdraw, Complete
  <1>4. ASSUME x \in preparing
        PROVE  Withdrawn(x, r)
    <2>1. /\ preflight[x] \in {"running", "ended"} /\ ~InQueue(x)
          /\ x \notin active /\ transport[x] = "none" /\ canceling[x] = "none"
      BY <1>4 DEF NetInv, PreparingStage, Preparing
    <2>2. result[x] = "none"
      BY <1>4 DEF NetInv, UnfinishedHasNoResult, Up, Scheduling
    <2>3. /\ preparing' = preparing \ {x} /\ pending' = pending
          /\ canceling' = [canceling EXCEPT ![x] = "preflight"]
      BY <1>4 DEF Withdraw
    <2>4. /\ Cardinality(preparing') = Cardinality(preparing) - 1 /\ IsFiniteSet(preparing')
          /\ Cardinality(preparing) # 0
      BY <1>1, <1>4, <2>3, CardFacts
    <2>5. \A o : InQueue(o)' <=> InQueue(o) /\ o # x
      BY <2>1, <2>3 DEF InQueue
    <2>6. count'.queued = Cardinality(preparing') + Len(pending') /\ count.queued # 0
      BY <1>1, <1>2, <1>3, <2>3, <2>4
    <2>7. QED
      BY <1>1, <1>2, <1>3, <1>4, <2>1, <2>2, <2>3, <2>4, <2>5, <2>6 DEF Withdrawn
  <1>5. ASSUME x \notin preparing
        PROVE  Withdrawn(x, r)
    <2>1. /\ InQueue(x) /\ pending' = RemoveFirst(pending, x)
          /\ preparing' = preparing /\ canceling' = canceling
      BY <1>5 DEF Withdraw
    <2>2. /\ preflight[x] = "ended" /\ x \notin active
          /\ transport[x] = "none" /\ canceling[x] = "none"
      BY <2>1 DEF NetInv, QueuedStage
    <2>3. result[x] = "none"
      BY <2>1 DEF NetInv, UnfinishedHasNoResult, Up, Scheduling
    <2>4. PICK k \in DOMAIN pending : pending[k] = x
      BY <2>1 DEF InQueue
    <2>5. /\ pending' \in Seq(Op) /\ Len(pending') = Len(pending) - 1
          /\ \A i \in DOMAIN pending' :
                pending'[i] # x /\ \E j \in DOMAIN pending : pending[j] = pending'[i]
          /\ \A j \in DOMAIN pending :
                pending[j] # x => \E i \in DOMAIN pending' : pending'[i] = pending[j]
          /\ \A i, j \in DOMAIN pending' : pending'[i] = pending'[j] => i = j
      <3>1. /\ pending \in Seq(Op)
            /\ \A i, j \in DOMAIN pending : pending[i] = pending[j] => i = j
        BY <1>1
      <3>2. QED
        BY <2>1, <2>4, <3>1, RemoveFirstFacts
    <2>6. \A o : InQueue(o)' <=> InQueue(o) /\ o # x
      BY <2>5 DEF InQueue
    <2>7. count'.queued = Cardinality(preparing') + Len(pending') /\ count.queued # 0
      BY <1>1, <1>2, <1>3, <2>1, <2>4, <2>5
    <2>8. preparing' = preparing \ {x} /\ IsFiniteSet(preparing')
      BY <1>1, <1>5, <2>1
    <2>9. QED
      BY <1>1, <1>2, <1>3, <1>5, <2>2, <2>3, <2>5, <2>6, <2>7, <2>8 DEF Withdrawn
  <1>6. canceling' = [canceling EXCEPT ![x] =
                          IF x \in preparing THEN "preflight" ELSE "none"]
    <2>1. CASE x \in preparing
      BY <2>1 DEF Withdraw
    <2>2. CASE x \notin preparing
      BY <1>2, <1>5, <2>2 DEF Withdraw, Withdrawn
    <2>3. QED
      BY <2>1, <2>2
  <1>7. Withdrawn(x, r)
    BY <1>4, <1>5
  <1>8. /\ \A o \in Op : o # x => canceling'[o] = canceling[o] /\ result'[o] = result[o]
        /\ result'[x] = r /\ canceling'[x] \in {"none", "preflight"}
    BY <1>2, <1>6, <1>7 DEF Withdrawn
  <1>9. QED
    BY <1>6, <1>7, <1>8

--------------------------------------------------------------------------------
(* The actions. *)

\* A submission starts the driver, or finds that it cannot.
LEMMA SubmitCheckKeepsInv ==
    ASSUME NetInv, NEW o \in Op, SubmitCheck(o)
    PROVE  NetInv'
  <1>1. /\ caller.at = "idle" /\ life[o] = "new"
        /\ UNCHANGED <<received, asked, commands, wake, count, terminals, result, pending,
                       preparing, active, deadlines, preflight, transport, canceling>>
    BY DEF SubmitCheck, CallerAt, queue, loopVars, tasks
  <1>2. /\ driver' \in {driver, [driver EXCEPT !.at = "loop"], [driver EXCEPT !.at = "exited"]}
        /\ driver'.at # driver.at => driver.at = "off"
        /\ driver'.at # "off"
    <2>1. driver \in DriverType
      BY DEF NetInv, TypeOK
    <2>2. \/ driver.at = "off" /\ driver' = [driver EXCEPT !.at = "loop"]
          \/ driver.at # "off" /\ driver' = driver
          \/ driver.at = "off" /\ driver' = [driver EXCEPT !.at = "exited"]
      BY Zenon DEF SubmitCheck
    <2>3. QED
      BY <2>1, <2>2 DEF DriverType
  <1>3. \/ caller' = [caller EXCEPT !.at = "admit", !.op = o] /\ life' = life
        \/ caller' = caller /\ life' = [life EXCEPT ![o] = "refused"]
    BY Zenon DEF SubmitCheck
  <1>4. state' = state \/ state' = "failed"
    BY Zenon DEF SubmitCheck
  <1>5. /\ caller'.at = "idle" \/ (caller'.at = "admit" /\ caller'.op = o /\ life'[o] = "new")
        /\ \A p \in Op : life'[p] = "accepted" <=> life[p] = "accepted"
    <2>1. caller \in CallerType /\ life \in [Op -> {"new", "refused", "accepted"}]
      BY DEF NetInv, TypeOK
    <2>2. QED
      BY <1>1, <1>3, <2>1 DEF CallerType
  <1>6. driver'.at \notin {"loop", "exited"} => driver' = driver
    BY <1>2 DEF NetInv, TypeOK, DriverType
  <1>7. driver'.op = driver.op
    BY <1>2 DEF NetInv, TypeOK, DriverType
  <1>8. TypeOK'
    <2>1. caller' \in CallerType
      <3>1. caller \in CallerType
        BY DEF NetInv, TypeOK
      <3>2. QED
        BY <1>3, <3>1 DEF CallerType
    <2>2. life' \in [Op -> {"new", "refused", "accepted"}]
      BY <1>3 DEF NetInv, TypeOK
    <2>3. driver' \in DriverType
      BY <1>2 DEF NetInv, TypeOK, DriverType
    <2>4. state' \in {"open", "shuttingDown", "failed", "stopped"}
      BY <1>4 DEF NetInv, TypeOK
    <2>5. QED
      BY <1>1, <2>1, <2>2, <2>3, <2>4 DEF NetInv, TypeOK
  <1>9. Subjects'
    BY <1>1, <1>5, <1>6 DEF NetInv, Subjects
  <1>10. NothingBeforeAcceptance'
    BY <1>1, <1>5, <1>7 DEF NetInv, NothingBeforeAcceptance, InCommands
  <1>11. OffIsEmpty'
    BY <1>2 DEF OffIsEmpty
  <1>12. SubmittedStage'
    BY <1>1, <1>5 DEF NetInv, SubmittedStage, Submitted, InCommands, OnlyOne, InQueue
  <1>13. PreparingStage'
    <2>1. CASE driver.at = "off"
      <3>1. \A p \in Op : preflight[p] = "none" /\ ~InCommands(p, Ready) /\ p \notin preparing
        BY <2>1 DEF NetInv, OffIsEmpty, Accepted, NothingBeforeAcceptance,
           SubmittedStage, Submitted, InCommands, CommandTypes, Ready
      <3>2. QED
        BY <1>1, <3>1 DEF PreparingStage, Preparing, InCommands
    <2>2. CASE driver.at # "off"
      <3>1. Scheduling' = Scheduling
        BY <1>2, <2>2 DEF Scheduling
      <3>2. QED
        BY <1>1, <3>1 DEF NetInv, PreparingStage, Preparing, InCommands, OnlyOne,
           InQueue
    <2>3. QED
      BY <2>1, <2>2
  <1>14. QueuedStage' /\ ActiveStage'
    BY <1>1 DEF NetInv, QueuedStage, ActiveStage, InQueue, InCommands
  <1>15. CancelingStage'
    BY <1>1, <1>6 DEF NetInv, CancelingStage
  <1>16. UnfinishedHasNoResult'
    BY <1>1, <1>2 DEF NetInv, TypeOK, UnfinishedHasNoResult, Up, InQueue
  <1>17. CommandsAreSeen'
    BY <1>1, <1>6 DEF NetInv, CommandsAreSeen, CallerAt
  <1>18. Counted'
    BY <1>1, <1>2 DEF NetInv, TypeOK, Counted, Up, Scheduling
  <1>19. AdmissionExact'
    BY <1>1, <1>5 DEF NetInv, AdmissionExact, CallerAt
  <1>20. NothingForgotten'
    BY <1>1, <1>2, <1>3 DEF NetInv, TypeOK, NothingForgotten, InHand, Accepted,
       Scheduling, InCommands, OffIsEmpty, InQueue
  <1>21. CanceledIsStopped'
    BY <1>1, <1>2 DEF NetInv, TypeOK, CanceledIsStopped
  <1>22. QED
    BY <1>8, <1>9, <1>10, <1>11, <1>12, <1>13, <1>14, <1>15, <1>16, <1>17, <1>18,
       <1>19, <1>20, <1>21 DEF NetInv

\* A slot is claimed: the one completion more that is about to be registered.
LEMMA SubmitAdmitKeepsInv ==
    ASSUME NetInv, SubmitAdmit
    PROVE  NetInv'
  <1>1. /\ caller.at = "admit" /\ caller.op \in Op /\ life[caller.op] = "new"
        /\ caller \in CallerType /\ count \in [admitted : Nat, queued : Nat, active : Nat]
        /\ life \in [Op -> {"new", "refused", "accepted"}]
    BY DEF SubmitAdmit, CallerAt, NetInv, TypeOK, Subjects
  <1>2. /\ \/ /\ count' = [count EXCEPT !.admitted = @ + 1]
              /\ caller' = [caller EXCEPT !.at = "register"]
              /\ life' = life
           \/ /\ caller' = Idle /\ count' = count
              /\ life' = [life EXCEPT ![caller.op] = "refused"]
        /\ UNCHANGED <<received, asked, state, queue, terminals, result, driver, loopVars,
                       tasks>>
    BY DEF SubmitAdmit, CallerGoes
  <1>3. TypeOK'
    <2>1. caller' \in CallerType
      BY <1>1, <1>2 DEF CallerType, Idle
    <2>2. count' \in [admitted : Nat, queued : Nat, active : Nat]
      BY <1>1, <1>2
    <2>3. life' \in [Op -> {"new", "refused", "accepted"}]
      BY <1>1, <1>2
    <2>4. QED
      BY <1>2, <2>1, <2>2, <2>3 DEF queue, loopVars, tasks, NetInv, TypeOK
  <1>4. Subjects'
    <2>1. \/ caller'.at = "register" /\ caller'.op = caller.op /\ life' = life
          \/ caller'.at = "idle"
      BY <1>1, <1>2 DEF CallerType, Idle
    <2>2. QED
      BY <1>1, <1>2, <2>1 DEF queue, NetInv, Subjects
  <1>5. NothingBeforeAcceptance' /\ OffIsEmpty' /\ SubmittedStage' /\ CommandsAreSeen'
    BY ConstantFacts DEF SubmitAdmit, CallerAt, CallerGoes, Idle, queue, loopVars,
       tasks, CallerType, CommandTypes, DriverType, Accepted, InCommands, Submitted,
       InQueue, Ready, OnlyOne, NetInv, TypeOK, Subjects, NothingBeforeAcceptance,
       OffIsEmpty, SubmittedStage, CommandsAreSeen
  <1>6. Counted' /\ NothingForgotten'
    BY ConstantFacts DEF SubmitAdmit, CallerAt, CallerGoes, Idle, queue, loopVars,
       tasks, Scheduling, Up, CallerType, CommandTypes, DriverType, Accepted, InHand,
       InQueue, InCommands, NetInv, TypeOK, Counted, NothingForgotten
  <1>7. AdmissionExact'
    <2>1. Cardinality(terminals) \in Nat
      BY FS_CardinalityType DEF NetInv, Counted
    <2>2. QED
      BY <1>1, <1>2, <2>1 DEF CallerAt, CallerType, Idle, NetInv, AdmissionExact
  <1>8. /\ PreparingStage' /\ QueuedStage' /\ ActiveStage' /\ CancelingStage'
         /\ UnfinishedHasNoResult' /\ CanceledIsStopped'
    BY DEF SubmitAdmit, queue, loopVars, tasks, Preparing, InCommands, Ready, InQueue,
       OnlyOne, Scheduling, Up, NetInv, PreparingStage, QueuedStage, ActiveStage,
       CancelingStage, UnfinishedHasNoResult, CanceledIsStopped
  <1>9. QED
    BY <1>3, <1>4, <1>5, <1>6, <1>7, <1>8 DEF NetInv

\* The completion is registered before the command is queued.
LEMMA SubmitRegisterKeepsInv ==
    ASSUME NetInv, SubmitRegister
    PROVE  NetInv'
  <1>1. caller.op \in Op /\ caller.op \notin terminals
    BY DEF SubmitRegister, CallerAt, NetInv, Subjects, NothingBeforeAcceptance
  <1>2. IsFiniteSet(terminals') /\ Cardinality(terminals') = Cardinality(terminals) + 1
    BY <1>1, CardFacts DEF SubmitRegister, NetInv, Counted
  <1>3. TypeOK'
    <2>1. terminals' \subseteq Op
      BY <1>1 DEF SubmitRegister, NetInv, TypeOK
    <2>2. life' \in [Op -> {"new", "refused", "accepted"}]
      BY <1>1 DEF SubmitRegister, NetInv, TypeOK
    <2>3. caller' \in CallerType
      BY DEF SubmitRegister, NetInv, TypeOK, CallerType
    <2>4. QED
      BY <2>1, <2>2, <2>3 DEF SubmitRegister, queue, loopVars, tasks, NetInv, TypeOK
  <1>4. Subjects'
    BY <1>1 DEF SubmitRegister, CallerAt, queue, NetInv, TypeOK, CallerType, Subjects,
       OffIsEmpty
  <1>5. NothingBeforeAcceptance' /\ OffIsEmpty' /\ SubmittedStage' /\ CommandsAreSeen'
    BY ConstantFacts DEF SubmitRegister, CallerAt, queue, loopVars, tasks,
       CommandTypes, CallerType, DriverType, InCommands, Accepted, Submitted, InQueue,
       Ready, OnlyOne, NetInv, TypeOK, Subjects, NothingBeforeAcceptance, OffIsEmpty,
       SubmittedStage, CommandsAreSeen
  <1>6. Counted'
    BY <1>2 DEF SubmitRegister, loopVars, Scheduling, Up, NetInv, Counted
  <1>7. AdmissionExact'
    BY <1>1, <1>2, CardFacts DEF SubmitRegister, CallerAt, NetInv, TypeOK, CallerType,
       Counted, AdmissionExact
  <1>8. NothingForgotten'
    BY DEF SubmitRegister, CallerAt, queue, loopVars, tasks, Accepted, Scheduling,
       InHand, InQueue, InCommands, NetInv, NothingForgotten
  <1>9. /\ PreparingStage' /\ QueuedStage' /\ ActiveStage' /\ CancelingStage'
         /\ UnfinishedHasNoResult' /\ CanceledIsStopped'
    BY DEF SubmitRegister, queue, loopVars, tasks, Preparing, InCommands, Ready,
       InQueue, OnlyOne, Scheduling, Up, NetInv, PreparingStage, QueuedStage,
       ActiveStage, CancelingStage, UnfinishedHasNoResult, CanceledIsStopped
  <1>10. QED
    BY <1>3, <1>4, <1>5, <1>6, <1>7, <1>8, <1>9 DEF NetInv

\* Only an accepted operation is canceled.
LEMMA CancelCheckKeepsInv ==
    ASSUME NetInv, NEW o \in Op, CancelCheck(o)
    PROVE  NetInv'
  <1>1. driver.at # "off"
    BY DEF CancelCheck, NetInv, OffIsEmpty, Accepted
  <1>2. TypeOK' /\ NothingBeforeAcceptance' /\ OffIsEmpty' /\ SubmittedStage'
    BY ConstantFacts DEF CancelCheck, CallerAt, queue, loopVars, tasks, CallerType,
       CommandTypes, DriverType, InCommands, Accepted, Submitted, InQueue, Ready,
       OnlyOne, NetInv, TypeOK, NothingBeforeAcceptance, OffIsEmpty, SubmittedStage
  <1>3. Subjects'
    BY <1>1 DEF CancelCheck, queue, NetInv, Subjects
  <1>4. CommandsAreSeen' /\ AdmissionExact' /\ NothingForgotten'
    BY DEF CancelCheck, CallerAt, queue, loopVars, tasks, Accepted, Scheduling,
       InHand, InQueue, InCommands, NetInv, CommandsAreSeen, AdmissionExact,
       NothingForgotten
  <1>5. /\ PreparingStage' /\ QueuedStage' /\ ActiveStage' /\ CancelingStage'
         /\ UnfinishedHasNoResult' /\ Counted' /\ CanceledIsStopped'
    BY DEF CancelCheck, queue, loopVars, tasks, Preparing, InCommands, Ready, InQueue,
       OnlyOne, Scheduling, Up, NetInv, PreparingStage, QueuedStage, ActiveStage,
       CancelingStage, UnfinishedHasNoResult, Counted, CanceledIsStopped
  <1>6. QED
    BY <1>2, <1>3, <1>4, <1>5 DEF NetInv

\* A shutdown sends a command of its own.
LEMMA ShutdownKeepsInv ==
    ASSUME NetInv, Shutdown
    PROVE  NetInv'
  <1>1. TypeOK' /\ Subjects' /\ NothingBeforeAcceptance' /\ OffIsEmpty'
    BY ConstantFacts DEF Shutdown, CallerAt, queue, loopVars, tasks, CallerType,
       CommandTypes, DriverType, InCommands, Accepted, NetInv, TypeOK, Subjects,
       NothingBeforeAcceptance, OffIsEmpty
  <1>2. SubmittedStage' /\ CommandsAreSeen' /\ AdmissionExact' /\ NothingForgotten'
    BY DEF Shutdown, CallerAt, queue, loopVars, tasks, Submitted, InQueue, Ready,
       InCommands, OnlyOne, Accepted, Scheduling, InHand, NetInv, SubmittedStage,
       CommandsAreSeen, AdmissionExact, NothingForgotten
  <1>3. /\ PreparingStage' /\ QueuedStage' /\ ActiveStage' /\ CancelingStage'
         /\ UnfinishedHasNoResult' /\ Counted' /\ CanceledIsStopped'
    BY DEF Shutdown, queue, loopVars, tasks, Preparing, InCommands, Ready, InQueue,
       OnlyOne, Scheduling, Up, NetInv, PreparingStage, QueuedStage, ActiveStage,
       CancelingStage, UnfinishedHasNoResult, Counted, CanceledIsStopped
  <1>4. QED
    BY <1>1, <1>2, <1>3 DEF NetInv

\* The command of the evaluator comes behind all others.
LEMMA PushKeepsInv ==
    ASSUME NetInv, Push
    PROVE  NetInv'
  <1>1. PICK type \in CommandTypes, x \in Op \cup {NoOp} :
            type = caller.send /\ x = caller.op /\ Appended(type, x)
    BY AppendFacts DEF NetInv, Push, TypeOK, CallerType, Subjects, CallerAt,
       CommandTypes
  <1>2. /\ caller.at = "push" /\ type \notin Ready
        /\ caller' = [caller EXCEPT !.at = "wake"]
        /\ UNCHANGED <<life, received, asked, state, wake, count, terminals, result,
                       driver, loopVars,
                       tasks>>
    BY <1>1 DEF Push, CallerAt, CallerGoes, Ready, NetInv, TypeOK, CallerType
  <1>3. TypeOK'
    BY ConstantFacts, <1>1 DEF Push, CallerAt, Command, CallerGoes, loopVars, tasks,
       CallerType, CommandTypes, DriverType, Appended, CommandsTyped, NetInv, TypeOK
  <1>4. Subjects'
    BY <1>1 DEF Push, CallerAt, Command, CallerGoes, Appended, NetInv, Subjects
  <1>5. NothingBeforeAcceptance' /\ OffIsEmpty'
    BY ConstantFacts, <1>1 DEF Push, CallerAt, Command, CallerGoes, loopVars, tasks,
       CommandTypes, Appended, Accepted, NetInv, NothingBeforeAcceptance, OffIsEmpty
  <1>6. SubmittedStage'
    <2> SUFFICES ASSUME NEW o \in Op
                 PROVE  Submitted(o)'
      BY DEF SubmittedStage
    <2>1. Submitted(o)
      BY DEF NetInv, SubmittedStage
    <2>2. caller'.at = "wake"
      BY <1>2 DEF NetInv, TypeOK, CallerType
    <2>3. InCommands(o, Ready)' => InCommands(o, Ready)
      BY <1>1, <1>2 DEF Appended
    <2>4. CASE type = "Submit" /\ x = o
      <3>1. preflight[o] = "none" /\ ~InCommands(o, {"Submit"})
        BY <1>1, <1>2, <2>1, <2>4 DEF Submitted
      <3>2. OnlyOne(o, {"Submit"})'
        BY <1>1, <2>4, <3>1 DEF Appended
      <3>3. QED
        BY <1>2, <2>1, <2>2, <2>3, <3>1, <3>2 DEF Submitted, InQueue, loopVars,
           tasks
    <2>5. CASE ~(type = "Submit" /\ x = o)
      <3>1. InCommands(o, {"Submit"})' => InCommands(o, {"Submit"})
        BY <1>1, <2>5 DEF Appended
      <3>2. OnlyOne(o, {"Submit"}) => OnlyOne(o, {"Submit"})'
        BY <1>1, <2>5 DEF Appended
      <3>3. QED
        BY <1>2, <2>1, <2>2, <2>3, <3>1, <3>2 DEF Submitted, InQueue, loopVars,
           tasks
    <2>6. QED
      BY <2>4, <2>5
  <1>7. PreparingStage'
    <2> SUFFICES ASSUME NEW o \in Op
                 PROVE  Preparing(o)'
      BY DEF PreparingStage
    <2>1. Preparing(o)
      BY DEF NetInv, PreparingStage
    <2>2. InCommands(o, Ready)' <=> InCommands(o, Ready)
      BY <1>1, <1>2 DEF Appended
    <2>3. OnlyOne(o, Ready) => OnlyOne(o, Ready)'
      BY <1>1, <1>2 DEF Appended
    <2>4. QED
      BY <1>2, <2>1, <2>2, <2>3 DEF Preparing, InQueue, Scheduling, loopVars, tasks
  <1>8. ActiveStage' /\ CommandsAreSeen' /\ AdmissionExact' /\ NothingForgotten'
    BY <1>1 DEF Push, CallerAt, Command, CallerGoes, loopVars, tasks, CallerType,
       CommandTypes, DriverType, Appended, Accepted, Scheduling, InHand, InQueue,
       NetInv, TypeOK, ActiveStage, CommandsAreSeen, AdmissionExact, NothingForgotten
  <1>9. /\ QueuedStage' /\ CancelingStage' /\ UnfinishedHasNoResult' /\ Counted'
         /\ CanceledIsStopped'
    BY DEF Push, loopVars, tasks, InQueue, Up, Scheduling, NetInv, QueuedStage,
       CancelingStage, UnfinishedHasNoResult, Counted, CanceledIsStopped
  <1>10. QED
    BY <1>3, <1>4, <1>5, <1>6, <1>7, <1>8, <1>9 DEF NetInv

\* The byte is written, or the driver is gone and all work fails.
LEMMA WakeKeepsInv ==
    ASSUME NetInv, Wake
    PROVE  NetInv'
  <1>1. TypeOK'
    <2>1. wake' \in BOOLEAN
      BY Zenon DEF Wake, NetInv, TypeOK
    <2>2. caller' \in CallerType
      <3>1. caller \in CallerType
        BY DEF NetInv, TypeOK
      <3>2. caller' = Idle \/ caller' = [caller EXCEPT !.at = caller.then]
        BY DEF Wake, CallerReturns
      <3>3. QED
        BY <3>1, <3>2 DEF Idle, CallerType
    <2>3. /\ state' \in {"open", "shuttingDown", "failed", "stopped"}
          /\ result' \in [Op -> {"none", "response", "error", "timeout", "canceled", "failed"}]
      BY DEF Wake, Complete, NetInv, TypeOK
    <2>4. QED
      BY <2>1, <2>2, <2>3 DEF Wake, loopVars, tasks, NetInv, TypeOK
  <1>2. Subjects' /\ NothingBeforeAcceptance' /\ OffIsEmpty' /\ SubmittedStage'
    BY ConstantFacts DEF Wake, CallerAt, Complete, CallerReturns, loopVars, tasks,
       Idle, CallerType, CommandTypes, DriverType, InCommands, Accepted, Submitted,
       InQueue, Ready, OnlyOne, NetInv, TypeOK, Subjects, NothingBeforeAcceptance,
       OffIsEmpty, SubmittedStage
  <1>3. PreparingStage' /\ ActiveStage' /\ UnfinishedHasNoResult' /\ CommandsAreSeen'
    BY DEF Wake, CallerAt, Complete, CallerReturns, loopVars, tasks, Idle, Preparing,
       Ready, InQueue, Scheduling, InCommands, OnlyOne, Up, NetInv, PreparingStage,
       ActiveStage, UnfinishedHasNoResult, CommandsAreSeen
  <1>4. AdmissionExact'
    BY DEF Wake, CallerAt, Complete, CallerReturns, loopVars, tasks, Idle, CallerType,
       CommandTypes, DriverType, NetInv, TypeOK, AdmissionExact
  <1>5. NothingForgotten' /\ CanceledIsStopped'
    BY DEF Wake, CallerAt, Complete, CallerReturns, loopVars, tasks, Idle, Accepted,
       Scheduling, InHand, InQueue, InCommands, NetInv, NothingForgotten,
       CanceledIsStopped
  <1>6. QueuedStage' /\ CancelingStage' /\ Counted'
    BY DEF Wake, loopVars, tasks, InQueue, Scheduling, Up, NetInv, QueuedStage,
       CancelingStage, Counted
  <1>7. QED
    BY <1>1, <1>2, <1>3, <1>4, <1>5, <1>6 DEF NetInv

\* Once the driver is gone, everything that is left is canceled.
LEMMA JoinKeepsInv ==
    ASSUME NetInv, Join
    PROVE  NetInv'
  <1>1. TypeOK' /\ Subjects'
    BY ConstantFacts DEF Join, CallerAt, Complete, CallerGoes, queue, loopVars, tasks,
       CallerType, CommandTypes, DriverType, NetInv, TypeOK, Subjects
  <1>2. NothingBeforeAcceptance' /\ OffIsEmpty'
    BY ConstantFacts DEF Join, CallerAt, Complete, CallerGoes, queue, loopVars, tasks,
       CommandTypes, InCommands, Accepted, NetInv, NothingBeforeAcceptance, OffIsEmpty
  <1>3. SubmittedStage' /\ PreparingStage' /\ ActiveStage' /\ UnfinishedHasNoResult'
    BY DEF Join, CallerAt, Complete, CallerGoes, queue, loopVars, tasks, Submitted,
       InQueue, Ready, InCommands, OnlyOne, Preparing, Scheduling, CommandTypes,
       Accepted, Up, NetInv, Subjects, NothingBeforeAcceptance, OffIsEmpty,
       SubmittedStage, PreparingStage, QueuedStage, ActiveStage, CancelingStage,
       UnfinishedHasNoResult
  <1>4. CommandsAreSeen' /\ AdmissionExact' /\ NothingForgotten'
    BY DEF Join, CallerAt, Complete, CallerGoes, queue, loopVars, tasks, Accepted,
       Scheduling, InHand, InQueue, InCommands, NetInv, CommandsAreSeen,
       AdmissionExact, NothingForgotten
  <1>5. CanceledIsStopped'
    <2>1. CASE driver.at = "off"
      BY <2>1 DEF Join, Complete, tasks, NetInv, TypeOK, OffIsEmpty, Accepted,
         NothingBeforeAcceptance, CanceledIsStopped
    <2>2. CASE driver.at = "exited"
      BY <2>2 DEF Join, CanceledIsStopped
    <2>3. QED
      BY <2>1, <2>2 DEF Join
  <1>6. QueuedStage' /\ CancelingStage' /\ Counted'
    BY DEF Join, loopVars, tasks, InQueue, Scheduling, Up, NetInv, QueuedStage,
       CancelingStage, Counted
  <1>7. QED
    BY <1>1, <1>2, <1>3, <1>4, <1>5, <1>6 DEF NetInv

\* A result is taken once it is there.
LEMMA ReceiveKeepsInv ==
    ASSUME NetInv, NEW o \in Op, Receive(o)
    PROVE  NetInv'
  <1>1. TypeOK' /\ NothingBeforeAcceptance'
    BY ConstantFacts DEF Receive, queue, loopVars, tasks, CallerType, CommandTypes,
       DriverType, InCommands, NetInv, TypeOK, NothingBeforeAcceptance
  <1>2. /\ Subjects' /\ OffIsEmpty' /\ SubmittedStage' /\ PreparingStage' /\ QueuedStage'
         /\ ActiveStage' /\ CancelingStage' /\ UnfinishedHasNoResult' /\ CommandsAreSeen'
         /\ Counted' /\ AdmissionExact' /\ NothingForgotten' /\ CanceledIsStopped'
    BY DEF Receive, queue, loopVars, tasks, Accepted, Submitted, InCommands, OnlyOne,
       InQueue, Ready, Preparing, Scheduling, Up, CallerAt, InHand, NetInv, Subjects,
       OffIsEmpty, SubmittedStage, PreparingStage, QueuedStage, ActiveStage,
       CancelingStage, UnfinishedHasNoResult, CommandsAreSeen, Counted,
       AdmissionExact, NothingForgotten, CanceledIsStopped
  <1>3. QED
    BY <1>1, <1>2 DEF NetInv

\* The registration and the slot go together.
LEMMA RetireKeepsInv ==
    ASSUME NetInv, NEW o \in Op, Retire(o)
    PROVE  NetInv'
  <1>1. /\ IsFiniteSet(terminals') /\ Cardinality(terminals') = Cardinality(terminals) - 1
        /\ Cardinality(terminals) \in Nat \ {0}
    BY CardFacts DEF Retire, NetInv, Counted
  <1>2. TypeOK'
    BY <1>1 DEF Retire, callerVars, queue, loopVars, tasks, CallerAt, NetInv, TypeOK,
       AdmissionExact
  <1>3. NothingBeforeAcceptance' /\ NothingForgotten'
    BY ConstantFacts DEF Retire, callerVars, queue, loopVars, tasks, CommandTypes,
       InCommands, Accepted, Scheduling, InHand, InQueue, NetInv,
       NothingBeforeAcceptance, NothingForgotten
  <1>4. Counted'
    BY <1>1 DEF Retire, loopVars, Scheduling, Up, NetInv, Counted
  <1>5. AdmissionExact'
    BY <1>1 DEF Retire, callerVars, CallerAt, NetInv, TypeOK, AdmissionExact
  <1>6. /\ Subjects' /\ OffIsEmpty' /\ SubmittedStage' /\ PreparingStage' /\ QueuedStage'
         /\ ActiveStage' /\ CancelingStage' /\ UnfinishedHasNoResult' /\ CommandsAreSeen'
         /\ CanceledIsStopped'
    BY DEF Retire, callerVars, queue, loopVars, tasks, Accepted, Submitted,
       InCommands, OnlyOne, InQueue, Ready, Preparing, Scheduling, Up, CallerAt,
       NetInv, Subjects, OffIsEmpty, SubmittedStage, PreparingStage, QueuedStage,
       ActiveStage, CancelingStage, UnfinishedHasNoResult, CommandsAreSeen,
       CanceledIsStopped
  <1>7. QED
    BY <1>2, <1>3, <1>4, <1>5, <1>6 DEF NetInv

\* The driver goes on when the task it canceled is gone.
LEMMA ResumeKeepsInv ==
    ASSUME NetInv, Resume
    PROVE  NetInv'
  <1>1. TypeOK' /\ Subjects' /\ NothingBeforeAcceptance' /\ OffIsEmpty'
    BY ConstantFacts DEF Resume, DriverAt, DriverGoes, callerVars, queue, loopVars,
       tasks, Busy, CallerType, CommandTypes, DriverType, InCommands, Accepted,
       NetInv, TypeOK, Subjects, NothingBeforeAcceptance, OffIsEmpty
  <1>2. PreparingStage' /\ CancelingStage' /\ UnfinishedHasNoResult' /\ CommandsAreSeen'
    BY DEF Resume, DriverAt, DriverGoes, queue, loopVars, tasks, Busy, Preparing,
       Ready, InQueue, Scheduling, InCommands, OnlyOne, Up, callerVars, CallerAt,
       NetInv, PreparingStage, CancelingStage, UnfinishedHasNoResult, CommandsAreSeen
  <1>3. Counted' /\ NothingForgotten' /\ CanceledIsStopped'
    BY ConstantFacts DEF Resume, DriverAt, DriverGoes, loopVars, Busy, Scheduling, Up,
       callerVars, queue, tasks, Accepted, InHand, InQueue, InCommands, NetInv,
       Counted, NothingForgotten, CanceledIsStopped
  <1>4. SubmittedStage' /\ QueuedStage' /\ ActiveStage' /\ AdmissionExact'
    BY DEF Resume, callerVars, queue, loopVars, tasks, Submitted, InCommands, OnlyOne,
       InQueue, Ready, CallerAt, NetInv, SubmittedStage, QueuedStage, ActiveStage,
       AdmissionExact
  <1>5. QED
    BY <1>1, <1>2, <1>3, <1>4 DEF NetInv

\* A submission: the preflight starts, and the operation waits for it.
LEMMA HandleSubmitKeepsInv ==
    ASSUME NetInv, HandleSubmit
    PROVE  NetInv'
  <1>1. PICK x : x = Head(commands).op /\ Popped("Submit", x)
    BY PopFacts DEF NetInv, HandleSubmit
  <1>2. InCommands(x, {"Submit"}) /\ x \in Op
    BY <1>1 DEF Popped, NetInv, Subjects
  <1>3. OnlyOne(x, {"Submit"}) => ~InCommands(x, {"Submit"})'
    BY <1>1 DEF Popped
  <1>4. /\ preparing' = preparing \cup {x} /\ x \notin preparing /\ IsFiniteSet(preparing')
        /\ Cardinality(preparing') = Cardinality(preparing) + 1
        /\ Cardinality(preparing) \in Nat
    BY <1>1, <1>2, SubmittedFacts, CardFacts DEF HandleSubmit, NetInv, Counted
  <1>5. preflight' = [preflight EXCEPT ![x] = "running"] /\ UNCHANGED <<callerVars,
                                                                        driver, result,
                                                                        pending, active,
                                                                        transport,
                                                                        canceling>>
    BY <1>1 DEF HandleSubmit
  <1>6. TypeOK'
    <2>1. CommandsTyped'
      BY <1>1 DEF Popped
    <2>2. count' \in [admitted : Nat, queued : Nat, active : Nat]
      BY DEF HandleSubmit, NetInv, TypeOK
    <2>3. deadlines' \subseteq Deadlined /\ preparing' \subseteq Op
      BY <1>1, <1>2 DEF HandleSubmit, NetInv, TypeOK
    <2>4. preflight' \in [Op -> {"none", "running", "ended", "dropped"}]
      BY <1>2, <1>5 DEF NetInv, TypeOK
    <2>5. QED
      BY <2>1, <2>2, <2>3, <2>4 DEF HandleSubmit, callerVars, CommandsTyped, NetInv,
         TypeOK
  <1>7. Subjects' /\ NothingBeforeAcceptance'
    BY <1>1, ConstantFacts DEF HandleSubmit, Pop, callerVars, DriverAt, Busy, Popped,
       CommandTypes, NetInv, Subjects, NothingBeforeAcceptance
  <1>8. SubmittedStage'
    <2>1. SubmittedStage /\ preflight \in [Op -> {"none", "running", "ended", "dropped"}]
      BY DEF NetInv, TypeOK
    <2> SUFFICES ASSUME NEW o \in Op
                 PROVE  Submitted(o)'
      BY DEF SubmittedStage
    <2>2. CASE o = x
      BY <1>2, <1>3, <1>5, <2>1, <2>2, SubmittedFacts DEF callerVars, Submitted
    <2>3. CASE o # x
      BY <1>1, <1>4, <1>5, <2>1, <2>3 DEF Popped, callerVars, InQueue,
         SubmittedStage, Submitted
    <2>4. QED
      BY <2>2, <2>3
  <1>9. PreparingStage' /\ QueuedStage'
    BY <1>1 DEF HandleSubmit, Pop, callerVars, DriverAt, Busy, CallerType,
       CommandTypes, DriverType, Submitted, InQueue, Ready, Preparing, Scheduling,
       Popped, NetInv, TypeOK, Subjects, SubmittedStage, PreparingStage, QueuedStage
  <1>10. ActiveStage' /\ CommandsAreSeen' /\ AdmissionExact' /\ NothingForgotten'
    BY <1>1 DEF HandleSubmit, Pop, callerVars, DriverAt, Busy, Submitted, InQueue,
       Ready, Preparing, Scheduling, Popped, CallerAt, Accepted, InHand, CallerType,
       CommandTypes, DriverType, NetInv, TypeOK, Subjects, SubmittedStage,
       PreparingStage, QueuedStage, ActiveStage, CancelingStage, CommandsAreSeen,
       AdmissionExact, NothingForgotten
  <1>11. UnfinishedHasNoResult'
    BY <1>2, <1>4, <1>5, SubmittedFacts DEF NetInv, TypeOK, UnfinishedHasNoResult,
       InQueue, Up
  <1>12. Counted'
    BY <1>4, <1>5 DEF HandleSubmit, Pop, DriverAt, NetInv, TypeOK, Counted,
       Scheduling, Up
  <1>13. OffIsEmpty' /\ CancelingStage' /\ CanceledIsStopped'
    BY DEF HandleSubmit, callerVars, Accepted, NetInv, OffIsEmpty, CancelingStage,
       CanceledIsStopped
  <1>14. QED
    BY <1>6, <1>7, <1>8, <1>9, <1>10, <1>11, <1>12, <1>13 DEF NetInv

\* A preflight that succeeded: the operation joins the queue, unless it was canceled.
LEMMA HandlePreparedKeepsInv ==
    ASSUME NetInv, HandlePrepared
    PROVE  NetInv'
  <1>1. PICK x : x = Head(commands).op /\ Popped("Prepared", x)
    BY PopFacts DEF NetInv, HandlePrepared
  <1>2. InCommands(x, Ready) /\ (OnlyOne(x, Ready) => ~InCommands(x, Ready)') /\ x \in Op
    BY <1>1 DEF Popped, NetInv, Subjects, Ready
  <1>3. driver.at = "loop" /\ UNCHANGED <<driver, callerVars, wake, count, terminals,
                                          result, active,
                   deadlines, tasks>>
    BY DEF HandlePrepared, Pop, DriverAt
  <1>4. \/ x \in preparing /\ pending' = Append(pending, x)
        \/ x \notin preparing /\ pending' = pending
    BY <1>1, <1>2, <1>3, ReadyFacts DEF HandlePrepared, Scheduling
  <1>5. preparing' = preparing \ {x}
    BY <1>1 DEF HandlePrepared
  <1>6. \A o \in Op : InQueue(o)' <=> InQueue(o) \/ (o = x /\ x \in preparing)
    <2>1. pending \in Seq(Op)
      BY DEF NetInv, TypeOK
    <2>2. QED
      BY <1>4, <2>1, InQueueAppend DEF InQueue
  <1>7. TypeOK' /\ Subjects'
    BY ConstantFacts, <1>1 DEF HandlePrepared, Pop, callerVars, tasks, DriverAt, Busy,
       CallerType, CommandTypes, DriverType, Popped, CommandsTyped, NetInv, TypeOK,
       Subjects
  <1>8. NothingBeforeAcceptance' /\ SubmittedStage'
    BY ConstantFacts, <1>1 DEF HandlePrepared, Pop, callerVars, tasks, DriverAt, Busy,
       CommandTypes, Popped, Submitted, InQueue, Ready, NetInv,
       NothingBeforeAcceptance, SubmittedStage
  <1>9. PreparingStage'
    <2>1. PreparingStage
      BY DEF NetInv
    <2> SUFFICES ASSUME NEW o \in Op
                 PROVE  Preparing(o)'
      BY DEF PreparingStage
    <2>2. CASE o = x
      BY <1>2, <1>5, <2>2, ReadyFacts DEF Preparing
    <2>3. CASE o # x
      BY <1>1, <1>3, <1>5, <1>6, <2>1, <2>3 DEF Popped, tasks, Scheduling,
         PreparingStage, Preparing
    <2>4. QED
      BY <2>2, <2>3
  <1>10. QueuedStage'
    <2>1. /\ pending \in Seq(Op)
          /\ \A i, j \in DOMAIN pending : pending[i] = pending[j] => i = j
      BY DEF NetInv, TypeOK, QueuedStage
    <2>2. ~InQueue(x) /\ x \notin active /\ preflight[x] = "ended" /\ transport[x] = "none"
      BY <1>2, ReadyFacts
    <2>3. x \in preparing => canceling[x] = "none"
      BY <1>2, ReadyFacts
    <2>4. \A i, j \in DOMAIN pending' : pending'[i] = pending'[j] => i = j
      <3>1. CASE pending' = pending
        BY <2>1, <3>1
      <3>2. CASE pending' = Append(pending, x)
        <4>1. /\ \A i \in DOMAIN pending : pending'[i] = pending[i] /\ pending[i] # x
              /\ \A i \in DOMAIN pending' : i \in DOMAIN pending \/ i = Len(pending) + 1
              /\ pending'[Len(pending) + 1] = x
          BY <2>1, <2>2, <3>2 DEF InQueue
        <4>2. QED
          BY <2>1, <4>1
      <3>3. QED
        BY <1>4, <3>1, <3>2
    <2>5. QED
      BY <1>3, <1>6, <2>2, <2>3, <2>4 DEF tasks, NetInv, QueuedStage
  <1>11. ActiveStage' /\ UnfinishedHasNoResult' /\ CommandsAreSeen'
    BY <1>1 DEF HandlePrepared, Pop, tasks, DriverAt, Busy, Popped, Up, InQueue,
       callerVars, CallerAt, NetInv, ActiveStage, UnfinishedHasNoResult,
       CommandsAreSeen
  <1>12. Counted'
    <2>1. CASE x \in preparing
      <3>1. /\ Cardinality(preparing') = Cardinality(preparing) - 1 /\ IsFiniteSet(preparing')
            /\ Cardinality(preparing) \in Nat
        BY <1>5, <2>1, CardFacts DEF NetInv, Counted
      <3>2. Len(pending') = Len(pending) + 1 /\ Len(pending) \in Nat
        BY <1>4, <2>1 DEF NetInv, TypeOK
      <3>3. QED
        BY <1>3, <3>1, <3>2 DEF NetInv, TypeOK, Counted, Scheduling, Up
    <2>2. CASE x \notin preparing
      BY <1>3, <1>4, <1>5, <2>2, CardFacts DEF NetInv, TypeOK, Counted, Scheduling,
         Up
    <2>3. QED
      BY <2>1, <2>2
  <1>13. NothingForgotten'
    BY <1>1, <1>2, <1>3, <1>4, <1>5, <1>6 DEF Popped, NetInv, NothingForgotten,
       InHand, callerVars, tasks, Accepted, Scheduling
  <1>14. OffIsEmpty' /\ CancelingStage' /\ AdmissionExact' /\ CanceledIsStopped'
    BY DEF HandlePrepared, callerVars, tasks, Accepted, CallerAt, NetInv, OffIsEmpty,
       CancelingStage, AdmissionExact, CanceledIsStopped
  <1>15. QED
    BY <1>7, <1>8, <1>9, <1>10, <1>11, <1>12, <1>13, <1>14 DEF NetInv

\* A preflight that failed: the operation has its result.
LEMMA HandleUnpreparedKeepsInv ==
    ASSUME NetInv, HandleUnprepared
    PROVE  NetInv'
  <1>1. PICK x : x = Head(commands).op /\ Popped("Unprepared", x)
    BY PopFacts DEF NetInv, HandleUnprepared
  <1>2. InCommands(x, Ready) /\ (OnlyOne(x, Ready) => ~InCommands(x, Ready)') /\ x \in Op
    BY <1>1 DEF Popped, NetInv, Subjects, Ready
  <1>3. driver.at = "loop"
    BY DEF HandleUnprepared, Pop, DriverAt
  <1>4. \/ /\ x \in preparing /\ preparing' = preparing \ {x}
           /\ count' = [count EXCEPT !.queued = @ - 1]
           /\ result' = [result EXCEPT ![x] = "error"]
           /\ CancelDeadline(x, "awaiting", "loop")
           /\ Cardinality(preparing') = Cardinality(preparing) - 1 /\ IsFiniteSet(preparing')
           /\ Cardinality(preparing) \in Nat \ {0}
        \/ x \notin preparing /\ UNCHANGED <<preparing, count, result, driver, deadlines>>
    <2>1. CASE x \in preparing
      <3>1. /\ preparing' = preparing \ {x} /\ count' = [count EXCEPT !.queued = @ - 1]
            /\ Complete({x}, "error") /\ CancelDeadline(x, "awaiting", "loop")
        BY <1>1, <2>1 DEF HandleUnprepared
      <3>2. result' = [result EXCEPT ![x] = "error"]
        BY <1>2, <1>3, <2>1, <3>1, ReadyFacts DEF Complete, Up, NetInv, TypeOK
      <3>3. /\ Cardinality(preparing') = Cardinality(preparing) - 1 /\ IsFiniteSet(preparing')
            /\ Cardinality(preparing) \in Nat \ {0}
        BY <2>1, <3>1, CardFacts DEF NetInv, Counted
      <3>4. QED
        BY <2>1, <3>1, <3>2, <3>3
    <2>2. CASE x \notin preparing
      <3>1. preparing' = preparing /\ result[x] # "none"
        BY <1>1, <1>2, <1>3, <2>2, ReadyFacts DEF HandleUnprepared, Scheduling
      <3>2. QED
        BY <1>1, <2>2, <3>1 DEF HandleUnprepared
    <2>3. QED
      BY <2>1, <2>2
  <1>5. UNCHANGED <<callerVars, state, wake, terminals, pending, active, tasks>>
    BY DEF HandleUnprepared
  <1>6. TypeOK'
    <2>1. CommandsTyped'
      BY <1>1 DEF Popped
    <2>2. count' \in [admitted : Nat, queued : Nat, active : Nat]
      BY <1>3, <1>4 DEF NetInv, TypeOK, Counted, Scheduling
    <2>3. /\ deadlines' \subseteq Deadlined /\ preparing' \subseteq Op
          /\ driver' \in DriverType
          /\ result' \in [Op -> {"none", "response", "error", "timeout", "canceled", "failed"}]
      BY <1>2, <1>3, <1>4 DEF CancelDeadline, DriverType, NetInv, TypeOK
    <2>4. QED
      BY <1>5, <2>1, <2>2, <2>3 DEF callerVars, tasks, CommandsTyped, NetInv, TypeOK
  <1>7. Subjects' /\ NothingBeforeAcceptance' /\ OffIsEmpty' /\ SubmittedStage'
    BY <1>1, ConstantFacts DEF HandleUnprepared, Pop, Complete, CancelDeadline,
       callerVars, DriverAt, Busy, Popped, tasks, CommandTypes, Accepted, Submitted,
       InQueue, Ready, NetInv, Subjects, NothingBeforeAcceptance, OffIsEmpty,
       SubmittedStage
  <1>8. PreparingStage' /\ ActiveStage' /\ CancelingStage' /\ UnfinishedHasNoResult'
    BY <1>1 DEF HandleUnprepared, Pop, Complete, CancelDeadline, tasks, DriverAt,
       Busy, Preparing, Ready, InQueue, Scheduling, Popped, callerVars, CommandTypes,
       Submitted, Accepted, Up, NetInv, Subjects, NothingBeforeAcceptance, OffIsEmpty,
       SubmittedStage, PreparingStage, QueuedStage, ActiveStage, CancelingStage,
       UnfinishedHasNoResult
  <1>9. CommandsAreSeen' /\ AdmissionExact' /\ NothingForgotten' /\ CanceledIsStopped'
    BY <1>1 DEF HandleUnprepared, Pop, Complete, CancelDeadline, callerVars, DriverAt,
       Busy, CallerAt, Popped, tasks, CallerType, CommandTypes, DriverType, Accepted,
       Scheduling, InHand, InQueue, NetInv, TypeOK, CommandsAreSeen, AdmissionExact,
       NothingForgotten, CanceledIsStopped
  <1>10. Counted'
    <2>1. CASE x \in preparing
      BY <1>3, <1>4, <1>5, <2>1 DEF CancelDeadline, NetInv, TypeOK, Counted,
         Scheduling, Up
    <2>2. CASE x \notin preparing
      BY <1>3, <1>4, <1>5, <2>2 DEF NetInv, TypeOK, Counted, Scheduling, Up
    <2>3. QED
      BY <2>1, <2>2
  <1>11. QueuedStage'
    BY DEF HandleUnprepared, tasks, InQueue, NetInv, QueuedStage
  <1>12. QED
    BY <1>6, <1>7, <1>8, <1>9, <1>10, <1>11 DEF NetInv

\* A transport that ended gives its permit back, if it still has one.
LEMMA HandleFinishedKeepsInv ==
    ASSUME NetInv, HandleFinished
    PROVE  NetInv'
  <1>1. PICK x : x = Head(commands).op /\ Popped("Finished", x)
    BY PopFacts DEF NetInv, HandleFinished
  <1>2. InCommands(x, {"Finished"}) /\ x \in Op
    BY <1>1 DEF Popped, NetInv, Subjects
  <1>3. transport[x] = "ended" /\ result[x] # "none"
    BY <1>2 DEF NetInv, ActiveStage
  <1>4. /\ active' = active \ {x}
        /\ count' = IF x \in active THEN [count EXCEPT !.active = @ - 1] ELSE count
        /\ CancelDeadline(x, "awaiting", "loop")
        /\ driver.at = "loop"
        /\ UNCHANGED <<callerVars, state, wake, terminals, result, pending, preparing,
                       tasks>>
    BY <1>1 DEF HandleFinished, Pop, DriverAt
  <1>5. /\ IsFiniteSet(active') /\ Cardinality(active) \in Nat
        /\ \/ /\ x \in active /\ Cardinality(active) # 0
              /\ Cardinality(active') = Cardinality(active) - 1
           \/ x \notin active /\ active' = active
    BY <1>4, CardFacts DEF NetInv, Counted
  <1>6. TypeOK'
    <2>1. CommandsTyped'
      BY <1>1 DEF Popped
    <2>2. count' \in [admitted : Nat, queued : Nat, active : Nat]
      BY <1>4, <1>5 DEF NetInv, TypeOK, Counted, Up
    <2>3. /\ deadlines' \subseteq Deadlined /\ active' \subseteq Op
          /\ driver' \in DriverType
      BY <1>2, <1>4 DEF CancelDeadline, DriverType, NetInv, TypeOK
    <2>4. QED
      BY <1>4, <2>1, <2>2, <2>3 DEF callerVars, tasks, CommandsTyped, NetInv, TypeOK
  <1>7. Subjects' /\ NothingBeforeAcceptance' /\ OffIsEmpty' /\ SubmittedStage'
    BY <1>1, ConstantFacts DEF HandleFinished, Pop, CancelDeadline, callerVars,
       DriverAt, Busy, Popped, tasks, CommandTypes, Accepted, Submitted, InQueue,
       Ready, NetInv, Subjects, NothingBeforeAcceptance, OffIsEmpty, SubmittedStage
  <1>8. PreparingStage' /\ QueuedStage' /\ CancelingStage' /\ UnfinishedHasNoResult'
    BY <1>1 DEF HandleFinished, Pop, CancelDeadline, tasks, DriverAt, Busy, Preparing,
       Ready, InQueue, Scheduling, Popped, Up, NetInv, PreparingStage, QueuedStage,
       CancelingStage, UnfinishedHasNoResult
  <1>9. ActiveStage'
    BY <1>1, <1>2, <1>3, <1>4 DEF Popped, tasks, NetInv, ActiveStage
  <1>10. CommandsAreSeen' /\ AdmissionExact' /\ CanceledIsStopped'
    BY <1>1 DEF HandleFinished, Pop, CancelDeadline, callerVars, DriverAt, Busy,
       CallerAt, Popped, tasks, NetInv, CommandsAreSeen, AdmissionExact,
       CanceledIsStopped
  <1>11. Counted'
    <2>1. MaxActive \in Nat /\ driver'.at \in {"loop", "awaiting"}
      BY <1>4, NetAssumption DEF CancelDeadline
    <2>2. count'.active = Cardinality(active')
      BY <1>4, <1>5 DEF NetInv, TypeOK, Counted, Up
    <2>3. count'.queued = Cardinality(preparing') + Len(pending')
      BY <1>4 DEF NetInv, TypeOK, Counted, Scheduling
    <2>4. Cardinality(active') <= MaxActive
      <3>1. Cardinality(active) <= MaxActive
        BY DEF NetInv, Counted
      <3>2. QED
        BY <1>5, <2>1, <3>1
    <2>5. QED
      BY <1>4, <1>5, <2>2, <2>3, <2>4 DEF NetInv, Counted
  <1>12. NothingForgotten'
    BY <1>1, <1>3, <1>4 DEF Popped, NetInv, NothingForgotten, InHand, callerVars,
       tasks, Accepted, Scheduling, CancelDeadline, InQueue
  <1>13. QED
    BY <1>6, <1>7, <1>8, <1>9, <1>10, <1>11, <1>12 DEF NetInv

\* A cancellation is taken up; the driver may first await.
LEMMA HandleCancelKeepsInv ==
    ASSUME NetInv, HandleCancel
    PROVE  NetInv'
  <1>1. PICK x : x = Head(commands).op /\ Popped("Cancel", x)
    BY PopFacts DEF NetInv, HandleCancel
  <1>2. /\ UNCHANGED <<callerVars, state, wake, count, terminals, result, pending,
                       preparing,
                       active, tasks>>
        /\ driver'.at \in {"cancel", "cancelNow"} /\ driver.at = "loop"
    BY DEF HandleCancel, CancelDeadline, Pop, DriverAt
  <1>3. \A o : /\ InCommands(o, Ready)' <=> InCommands(o, Ready)
               /\ InCommands(o, {"Submit"})' <=> InCommands(o, {"Submit"})
               /\ OnlyOne(o, Ready) => OnlyOne(o, Ready)'
    BY <1>1 DEF Popped, Ready
  <1>4. TypeOK' /\ Subjects' /\ NothingBeforeAcceptance' /\ OffIsEmpty'
    BY ConstantFacts, <1>1 DEF HandleCancel, Pop, CancelDeadline, callerVars, tasks,
       DriverAt, Busy, CallerType, CommandTypes, DriverType, Popped, CommandsTyped,
       Accepted, NetInv, TypeOK, Subjects, NothingBeforeAcceptance, OffIsEmpty
  <1>5. SubmittedStage' /\ ActiveStage' /\ CancelingStage' /\ UnfinishedHasNoResult'
    BY <1>1 DEF HandleCancel, Pop, CancelDeadline, callerVars, tasks, DriverAt, Busy,
       Submitted, InQueue, Ready, Popped, Up, NetInv, SubmittedStage, ActiveStage,
       CancelingStage, UnfinishedHasNoResult
  <1>6. PreparingStage'
    BY <1>2, <1>3 DEF tasks, InQueue, Scheduling, NetInv, PreparingStage, Preparing
  <1>7. CommandsAreSeen' /\ Counted' /\ CanceledIsStopped'
    BY <1>1, ConstantFacts DEF HandleCancel, Pop, CancelDeadline, callerVars,
       DriverAt, Busy, CallerAt, Popped, Scheduling, Up, tasks, NetInv,
       CommandsAreSeen, Counted, CanceledIsStopped
  <1>8. NothingForgotten'
    BY <1>2, <1>3 DEF callerVars, tasks, InQueue, InHand, Ready, Accepted, Scheduling,
       NetInv, NothingForgotten
  <1>9. QueuedStage' /\ AdmissionExact'
    BY DEF HandleCancel, callerVars, tasks, InQueue, CallerAt, NetInv, QueuedStage,
       AdmissionExact
  <1>10. QED
    BY <1>4, <1>5, <1>6, <1>7, <1>8, <1>9 DEF NetInv

\* The operation is withdrawn, or its transport is canceled, or it is too late.
LEMMA CancelOperationKeepsInv ==
    ASSUME NetInv, CancelOperation
    PROVE  NetInv'
  <1>1. PICK x : x = driver.op
    OBVIOUS
  <1>2. x \in Op /\ Scheduling /\ Scheduling' /\ Up /\ Up'
    BY <1>1 DEF CancelOperation, DriverAt, DriverGoes, Scheduling, Up, NetInv,
       Subjects
  <1>3. /\ UNCHANGED <<callerVars, state, queue, terminals, deadlines, preflight,
                       transport>>
        /\ driver' = [at |-> "loop", op |-> NoOp]
        /\ \/ Withdraw(x, "canceled") /\ UNCHANGED active
           \/ /\ x \in active
              /\ active' = active \ {x}
              /\ count' = [count EXCEPT !.active = @ - 1]
              /\ canceling' = [canceling EXCEPT ![x] = "transport"]
              /\ UNCHANGED <<result, pending, preparing>>
           \/ UNCHANGED <<count, result, pending, preparing, active, canceling>>
    BY <1>1 DEF CancelOperation, DriverGoes
  <1>4. ASSUME Withdraw(x, "canceled") /\ UNCHANGED active
        PROVE  TypeOK' /\ SubmittedStage' /\ PreparingStage' /\ QueuedStage'
               /\ UnfinishedHasNoResult' /\ Counted' /\ NothingForgotten'
    <2>1. /\ Withdrawn(x, "canceled")
          /\ canceling' = [canceling EXCEPT ![x] =
               IF x \in preparing THEN "preflight" ELSE "none"]
          /\ \A o \in Op : o # x => canceling'[o] = canceling[o] /\ result'[o] = result[o]
          /\ result'[x] = "canceled" /\ canceling'[x] \in {"none", "preflight"}
      BY <1>2, <1>4, WithdrawFacts
    <2> USE <1>2, <1>3, <1>4, <2>1 DEF Withdrawn
    <2>2. TypeOK'
      <3>1. count' \in [admitted : Nat, queued : Nat, active : Nat]
        <4>1. count \in [admitted : Nat, queued : Nat, active : Nat]
          BY DEF NetInv, TypeOK
        <4>2. count.queued \in Nat \ {0} /\ count' = [count EXCEPT !.queued = @ - 1]
          OBVIOUS
        <4>3. QED
          BY <4>1, <4>2
      <3>2. result' \in [Op -> {"none", "response", "error", "timeout", "canceled", "failed"}]
        BY DEF NetInv, TypeOK
      <3>3. canceling' \in [Op -> {"none", "preflight", "transport", "cleanup", "complete"}]
        BY DEF NetInv, TypeOK
      <3>4. preparing' \subseteq Op /\ driver' \in DriverType
        BY DEF NetInv, TypeOK, DriverType
      <3>5. QED
        BY <3>1, <3>2, <3>3, <3>4 DEF callerVars, queue, NetInv, TypeOK
    <2>3. SubmittedStage'
      BY DEF callerVars, queue, NetInv, SubmittedStage, Submitted, InCommands,
         OnlyOne
    <2>4. PreparingStage'
      BY DEF queue, NetInv, PreparingStage, Preparing, InCommands, OnlyOne
    <2>5. QueuedStage'
      BY DEF NetInv, QueuedStage
    <2>6. UnfinishedHasNoResult'
      BY DEF NetInv, UnfinishedHasNoResult
    <2>7. Counted'
      BY DEF NetInv, TypeOK, Counted
    <2>8. NothingForgotten'
      BY DEF callerVars, queue, Accepted, InHand, InCommands, NetInv,
         NothingForgotten
    <2>9. QED
      BY <2>2, <2>3, <2>4, <2>5, <2>6, <2>7, <2>8
  <1>5. ASSUME x \in active,
               active' = active \ {x},
               count' = [count EXCEPT !.active = @ - 1],
               canceling' = [canceling EXCEPT ![x] = "transport"],
               UNCHANGED <<result, pending, preparing>>
        PROVE  TypeOK' /\ SubmittedStage' /\ PreparingStage' /\ QueuedStage'
               /\ UnfinishedHasNoResult' /\ Counted' /\ NothingForgotten'
    <2>1. /\ IsFiniteSet(active') /\ Cardinality(active') = Cardinality(active) - 1
          /\ Cardinality(active) \in Nat \ {0}
      BY <1>5, CardFacts DEF NetInv, Counted
    <2>2. /\ \A o \in Op : o # x => canceling'[o] = canceling[o]
          /\ canceling'[x] = "transport"
      BY <1>2, <1>5 DEF NetInv, TypeOK
    <2>3. /\ transport[x] \in {"running", "ended"}
          /\ preflight[x] = "ended" /\ canceling[x] = "none"
      BY <1>5, <1>2 DEF NetInv, ActiveStage
    <2>4. x \notin preparing /\ ~InQueue(x) /\ ~InCommands(x, Ready)
      BY <1>5, <1>2 DEF NetInv, PreparingStage, Preparing, QueuedStage
    <2> USE <1>2, <1>3, <1>5, <2>1, <2>2, <2>3, <2>4
    <2>5. TypeOK'
      <3>1. /\ count' \in [admitted : Nat, queued : Nat, active : Nat]
            /\ canceling' \in [Op -> {"none", "preflight", "transport", "cleanup", "complete"}]
            /\ active' \subseteq Op
            /\ driver' \in DriverType
        BY DEF NetInv, TypeOK, DriverType, Counted
      <3>2. QED
        BY <3>1 DEF callerVars, queue, NetInv, TypeOK
    <2>6. SubmittedStage'
      BY DEF callerVars, queue, NetInv, SubmittedStage, Submitted, InCommands,
         OnlyOne, InQueue
    <2>7. PreparingStage'
      BY DEF queue, NetInv, PreparingStage, Preparing, InCommands, OnlyOne, InQueue
    <2>8. QueuedStage'
      BY DEF NetInv, QueuedStage, InQueue
    <2>9. UnfinishedHasNoResult'
      BY DEF NetInv, UnfinishedHasNoResult, InQueue
    <2>10. Counted'
      <3>1. MaxActive \in Nat
        BY NetAssumption
      <3>2. QED
        BY <3>1 DEF NetInv, TypeOK, Counted
    <2>11. NothingForgotten'
      BY DEF callerVars, queue, Accepted, InHand, InCommands, NetInv,
         NothingForgotten, InQueue
    <2>12. QED
      BY <2>5, <2>6, <2>7, <2>8, <2>9, <2>10, <2>11
  <1>6. ASSUME UNCHANGED <<count, result, pending, preparing, active, canceling>>
        PROVE  TypeOK' /\ SubmittedStage' /\ PreparingStage' /\ QueuedStage'
               /\ UnfinishedHasNoResult' /\ Counted' /\ NothingForgotten'
    <2> USE <1>2, <1>3, <1>6
    <2>1. TypeOK'
      <3>1. driver' \in DriverType
        BY DEF DriverType
      <3>2. QED
        BY <3>1 DEF callerVars, queue, NetInv, TypeOK
    <2>2. SubmittedStage'
      BY DEF callerVars, queue, NetInv, SubmittedStage, Submitted, InCommands,
         OnlyOne, InQueue
    <2>3. PreparingStage'
      BY DEF queue, NetInv, PreparingStage, Preparing, InCommands, OnlyOne, InQueue
    <2>4. QueuedStage'
      BY DEF NetInv, QueuedStage, InQueue
    <2>5. UnfinishedHasNoResult'
      BY DEF NetInv, UnfinishedHasNoResult, InQueue
    <2>6. Counted'
      BY DEF NetInv, TypeOK, Counted
    <2>7. NothingForgotten'
      BY DEF callerVars, queue, Accepted, InHand, InCommands, NetInv,
         NothingForgotten, InQueue
    <2>8. QED
      BY <2>1, <2>2, <2>3, <2>4, <2>5, <2>6, <2>7
  <1>7. TypeOK' /\ SubmittedStage' /\ PreparingStage' /\ QueuedStage'
        /\ UnfinishedHasNoResult' /\ Counted' /\ NothingForgotten'
    BY <1>3, <1>4, <1>5, <1>6
  <1>8. Subjects' /\ NothingBeforeAcceptance' /\ OffIsEmpty' /\ ActiveStage'
    BY ConstantFacts DEF CancelOperation, DriverAt, DriverGoes, Withdraw, InQueue,
       callerVars, queue, Busy, Complete, CommandTypes, CallerType, DriverType,
       InCommands, Accepted, Submitted, Ready, Preparing, Scheduling, OnlyOne, NetInv,
       TypeOK, Subjects, NothingBeforeAcceptance, OffIsEmpty, SubmittedStage,
       PreparingStage, QueuedStage, ActiveStage, CancelingStage
  <1>9. CancelingStage' /\ CommandsAreSeen' /\ AdmissionExact' /\ CanceledIsStopped'
    BY DEF CancelOperation, DriverAt, DriverGoes, Withdraw, InQueue, callerVars,
       queue, Busy, Complete, CallerType, CommandTypes, DriverType, Submitted, Ready,
       Preparing, Scheduling, InCommands, OnlyOne, CallerAt, Up, NetInv, TypeOK,
       Subjects, SubmittedStage, PreparingStage, QueuedStage, ActiveStage,
       CancelingStage, UnfinishedHasNoResult, CommandsAreSeen, AdmissionExact,
       CanceledIsStopped
  <1>10. QED
    BY <1>7, <1>8, <1>9 DEF NetInv

\* A deadline withdraws an operation that has no permit.
LEMMA HandleExpiredKeepsInv ==
    ASSUME NetInv, HandleExpired
    PROVE  NetInv'
  <1>1. PICK x : x = Head(commands).op /\ Popped("Expired", x)
    BY PopFacts DEF NetInv, HandleExpired
  <1>2. InCommands(x, {"Expired"}) /\ x \in Op
    BY <1>1 DEF Popped, NetInv, Subjects
  <1>3. /\ Scheduling /\ Scheduling' /\ Up /\ Up'
        /\ deadlines' = deadlines \ {x}
        /\ UNCHANGED <<callerVars, state, wake, terminals, driver, active, preflight,
                       transport>>
    BY <1>1 DEF HandleExpired, Pop, DriverAt, Scheduling, Up
  <1>4. \/ Withdraw(x, "timeout")
        \/ UNCHANGED <<count, result, pending, preparing, canceling>>
    BY <1>1 DEF HandleExpired
  <1>5. ASSUME Withdraw(x, "timeout")
        PROVE  TypeOK' /\ SubmittedStage' /\ PreparingStage' /\ QueuedStage'
               /\ UnfinishedHasNoResult' /\ Counted' /\ NothingForgotten'
    <2>1. /\ Withdrawn(x, "timeout")
          /\ canceling' = [canceling EXCEPT ![x] =
               IF x \in preparing THEN "preflight" ELSE "none"]
          /\ \A o \in Op : o # x => canceling'[o] = canceling[o] /\ result'[o] = result[o]
          /\ result'[x] = "timeout" /\ canceling'[x] \in {"none", "preflight"}
      BY <1>2, <1>3, <1>5, WithdrawFacts
    <2> USE <1>2, <1>3, <2>1 DEF Withdrawn
    <2>2. TypeOK'
      <3>1. count' \in [admitted : Nat, queued : Nat, active : Nat]
        <4>1. count \in [admitted : Nat, queued : Nat, active : Nat]
          BY DEF NetInv, TypeOK
        <4>2. count.queued \in Nat \ {0} /\ count' = [count EXCEPT !.queued = @ - 1]
          OBVIOUS
        <4>3. QED
          BY <4>1, <4>2
      <3>2. result' \in [Op -> {"none", "response", "error", "timeout", "canceled", "failed"}]
        BY DEF NetInv, TypeOK
      <3>3. canceling' \in [Op -> {"none", "preflight", "transport", "cleanup", "complete"}]
        BY DEF NetInv, TypeOK
      <3>4. preparing' \subseteq Op /\ deadlines' \subseteq Deadlined
        BY DEF NetInv, TypeOK
      <3>5. CommandsTyped'
        BY <1>1 DEF Popped
      <3>6. QED
        BY <3>1, <3>2, <3>3, <3>4, <3>5 DEF CommandsTyped, callerVars, NetInv,
           TypeOK
    <2>3. SubmittedStage'
      BY <1>1 DEF Popped, callerVars, NetInv, SubmittedStage, Submitted
    <2>4. PreparingStage'
      BY <1>1 DEF Popped, Ready, NetInv, PreparingStage, Preparing
    <2>5. QueuedStage'
      BY DEF NetInv, QueuedStage
    <2>6. UnfinishedHasNoResult'
      BY DEF NetInv, UnfinishedHasNoResult
    <2>7. Counted'
      BY DEF NetInv, TypeOK, Counted
    <2>8. NothingForgotten'
      BY <1>1 DEF Popped, callerVars, Accepted, InHand, NetInv, NothingForgotten
    <2>9. QED
      BY <2>2, <2>3, <2>4, <2>5, <2>6, <2>7, <2>8
  <1>6. ASSUME UNCHANGED <<count, result, pending, preparing, canceling>>
        PROVE  TypeOK' /\ SubmittedStage' /\ PreparingStage' /\ QueuedStage'
               /\ UnfinishedHasNoResult' /\ Counted' /\ NothingForgotten'
    <2> USE <1>2, <1>3, <1>6
    <2>1. TypeOK'
      <3>1. CommandsTyped' /\ deadlines' \subseteq Deadlined
        BY <1>1 DEF Popped, NetInv, TypeOK
      <3>2. QED
        BY <3>1 DEF CommandsTyped, callerVars, NetInv, TypeOK
    <2>2. SubmittedStage'
      BY <1>1 DEF Popped, callerVars, NetInv, SubmittedStage, Submitted, InQueue
    <2>3. PreparingStage'
      BY <1>1 DEF Popped, Ready, NetInv, PreparingStage, Preparing, InQueue
    <2>4. QueuedStage'
      BY DEF NetInv, QueuedStage, InQueue
    <2>5. UnfinishedHasNoResult'
      BY DEF NetInv, UnfinishedHasNoResult, InQueue
    <2>6. Counted'
      BY DEF NetInv, TypeOK, Counted
    <2>7. NothingForgotten'
      BY <1>1 DEF Popped, callerVars, Accepted, InHand, NetInv, NothingForgotten,
         InQueue
    <2>8. QED
      BY <2>1, <2>2, <2>3, <2>4, <2>5, <2>6, <2>7
  <1>7. TypeOK' /\ SubmittedStage' /\ PreparingStage' /\ QueuedStage'
        /\ UnfinishedHasNoResult' /\ Counted' /\ NothingForgotten'
    BY <1>4, <1>5, <1>6
  <1>8. Subjects' /\ NothingBeforeAcceptance' /\ ActiveStage' /\ CancelingStage'
    BY <1>1, ConstantFacts DEF HandleExpired, Pop, Withdraw, InQueue, callerVars,
       DriverAt, Complete, Busy, Popped, CommandTypes, CallerType, DriverType,
       Submitted, Ready, Preparing, Scheduling, NetInv, TypeOK, Subjects,
       NothingBeforeAcceptance, SubmittedStage, PreparingStage, QueuedStage,
       ActiveStage, CancelingStage
  <1>9. CommandsAreSeen' /\ AdmissionExact' /\ CanceledIsStopped'
    BY <1>1 DEF HandleExpired, Pop, Withdraw, InQueue, callerVars, DriverAt, Complete,
       Busy, CallerAt, Popped, CallerType, CommandTypes, DriverType, NetInv, TypeOK,
       CommandsAreSeen, AdmissionExact, CanceledIsStopped
  <1>10. OffIsEmpty'
    BY DEF HandleExpired, callerVars, Accepted, NetInv, OffIsEmpty
  <1>11. QED
    BY <1>7, <1>8, <1>9, <1>10 DEF NetInv

\* The driver begins to drain.
LEMMA HandleShutdownKeepsInv ==
    ASSUME NetInv, HandleShutdown
    PROVE  NetInv'
  <1>1. PICK x : x = Head(commands).op /\ Popped("Shutdown", x)
    BY PopFacts DEF NetInv, HandleShutdown
  <1>2. /\ UNCHANGED <<callerVars, wake, count, terminals, result, pending, preparing,
                       active,
                       tasks>>
        /\ ~Scheduling'
    BY DEF HandleShutdown, DriverGoes, Scheduling
  <1>3. \A o : /\ InCommands(o, Ready)' <=> InCommands(o, Ready)
               /\ OnlyOne(o, Ready) => OnlyOne(o, Ready)'
    BY <1>1 DEF Popped, Ready
  <1>4. TypeOK' /\ Subjects' /\ NothingBeforeAcceptance' /\ OffIsEmpty'
    BY ConstantFacts, <1>1 DEF HandleShutdown, Pop, DriverGoes, callerVars, tasks,
       DriverAt, Busy, CallerType, CommandTypes, DriverType, Popped, CommandsTyped,
       Accepted, NetInv, TypeOK, Subjects, NothingBeforeAcceptance, OffIsEmpty
  <1>5. SubmittedStage' /\ ActiveStage' /\ CancelingStage' /\ UnfinishedHasNoResult'
    BY <1>1 DEF HandleShutdown, Pop, DriverGoes, callerVars, tasks, DriverAt, Busy,
       Submitted, InQueue, Ready, Popped, Up, NetInv, SubmittedStage, ActiveStage,
       CancelingStage, UnfinishedHasNoResult
  <1>6. PreparingStage'
    BY <1>2, <1>3 DEF tasks, InQueue, NetInv, PreparingStage, Preparing
  <1>7. CommandsAreSeen' /\ Counted' /\ NothingForgotten' /\ CanceledIsStopped'
    BY <1>1, ConstantFacts DEF HandleShutdown, Pop, DriverGoes, callerVars, DriverAt,
       Busy, CallerAt, Popped, Scheduling, Up, tasks, Accepted, InHand, InQueue,
       NetInv, CommandsAreSeen, Counted, NothingForgotten, CanceledIsStopped
  <1>8. QueuedStage' /\ AdmissionExact'
    BY DEF HandleShutdown, callerVars, tasks, InQueue, CallerAt, NetInv, QueuedStage,
       AdmissionExact
  <1>9. QED
    BY <1>4, <1>5, <1>6, <1>7, <1>8 DEF NetInv

\* No command is left.
LEMMA SettleKeepsInv ==
    ASSUME NetInv, Settle
    PROVE  NetInv'
  <1>1. TypeOK' /\ Subjects' /\ NothingBeforeAcceptance' /\ OffIsEmpty'
    BY ConstantFacts DEF Settle, DriverAt, DriverGoes, callerVars, queue, loopVars,
       tasks, Busy, CallerType, CommandTypes, DriverType, InCommands, Accepted,
       NetInv, TypeOK, Subjects, NothingBeforeAcceptance, OffIsEmpty
  <1>2. PreparingStage' /\ CancelingStage' /\ UnfinishedHasNoResult' /\ CommandsAreSeen'
    BY DEF Settle, DriverAt, DriverGoes, queue, loopVars, tasks, Busy, Preparing,
       Ready, InQueue, Scheduling, InCommands, OnlyOne, Up, callerVars, CallerAt,
       NetInv, PreparingStage, CancelingStage, UnfinishedHasNoResult, CommandsAreSeen
  <1>3. Counted' /\ NothingForgotten' /\ CanceledIsStopped'
    BY ConstantFacts DEF Settle, DriverAt, DriverGoes, loopVars, Busy, Scheduling, Up,
       callerVars, queue, tasks, Accepted, InHand, InQueue, InCommands, NetInv,
       Counted, NothingForgotten, CanceledIsStopped
  <1>4. SubmittedStage' /\ QueuedStage' /\ ActiveStage' /\ AdmissionExact'
    BY DEF Settle, callerVars, queue, loopVars, tasks, Submitted, InCommands, OnlyOne,
       InQueue, Ready, CallerAt, NetInv, SubmittedStage, QueuedStage, ActiveStage,
       AdmissionExact
  <1>5. QED
    BY <1>1, <1>2, <1>3, <1>4 DEF NetInv

\* The first of the queue takes a permit.
LEMMA FillKeepsInv ==
    ASSUME NetInv, Fill
    PROVE  NetInv'
  <1>1. PICK x : x = Head(pending)
    OBVIOUS
  <1>2. /\ pending \in Seq(Op) /\ pending # <<>>
        /\ \A i, j \in DOMAIN pending : pending[i] = pending[j] => i = j
    BY DEF Fill, Permitted, NetInv, TypeOK, QueuedStage
  <1>3. /\ pending' = Tail(pending)
        /\ active' = active \cup {x}
        /\ count' = [count EXCEPT !.queued = @ - 1, !.active = @ + 1]
        /\ transport' = [transport EXCEPT ![x] = "running"]
        /\ Cardinality(active) < MaxActive
        /\ driver.at = "fill"
        /\ UNCHANGED <<callerVars, state, queue, terminals, result, driver, preparing,
                       deadlines,
                   preflight, canceling>>
    BY <1>1 DEF Fill, Permitted, StartTransport, DriverAt
  <1>4. /\ x \in Op /\ InQueue(x)
        /\ pending' \in Seq(Op) /\ Len(pending') = Len(pending) - 1
        /\ \A i, j \in DOMAIN pending' : pending'[i] = pending'[j] => i = j
        /\ \A o : InQueue(o)' <=> InQueue(o) /\ o # x
    <2>1. /\ x = pending[1] /\ x \in Op /\ 1 \in DOMAIN pending
          /\ pending' \in Seq(Op) /\ Len(pending') = Len(pending) - 1
          /\ \A i \in DOMAIN pending' :
                 i \in Nat \ {0} /\ i + 1 \in DOMAIN pending /\ pending'[i] = pending[i + 1]
          /\ \A i \in DOMAIN pending : i # 1 =>
                 i \in Nat /\ i - 1 \in DOMAIN pending' /\ pending'[i - 1] = pending[i]
      <3>1. x = pending[1] /\ x \in Op /\ 1 \in DOMAIN pending
        BY <1>1, <1>2
      <3>2. pending' \in Seq(Op) /\ Len(pending') = Len(pending) - 1
        BY <1>2, <1>3
      <3>3. \A i \in DOMAIN pending' :
               
                 i \in Nat \ {0} /\ i + 1 \in DOMAIN pending /\ pending'[i] = pending[i + 1]
        BY <1>2, <1>3, <3>2
      <3>4. \A i \in DOMAIN pending : i # 1 =>
               i \in Nat /\ i - 1 \in DOMAIN pending' /\ pending'[i - 1] = pending[i]
        BY <1>2, <1>3, <3>2
      <3>5. QED
        BY <3>1, <3>2, <3>3, <3>4
    <2>2. \A i, j \in DOMAIN pending' : pending'[i] = pending'[j] => i = j
      BY <1>2, <2>1
    <2>3. InQueue(x)
      BY <2>1 DEF InQueue
    <2>4. ~InQueue(x)'
      <3>1. \A i \in DOMAIN pending' : i + 1 # 1
        BY <2>1
      <3>2. QED
        BY <1>2, <2>1, <3>1 DEF InQueue
    <2>5. \A o : InQueue(o)' => InQueue(o)
      BY <2>1 DEF InQueue
    <2>6. \A o : InQueue(o) /\ o # x => InQueue(o)'
      BY <2>1 DEF InQueue
    <2>7. QED
      BY <2>1, <2>2, <2>3, <2>4, <2>5, <2>6
  <1>5. /\ x \notin preparing /\ x \notin active /\ preflight[x] = "ended"
        /\ transport[x] = "none" /\ canceling[x] = "none" /\ ~InCommands(x, Ready)
        /\ life[x] = "accepted" /\ result[x] = "none"
    <2>1. /\ preflight[x] = "ended" /\ x \notin active
          /\ transport[x] = "none" /\ canceling[x] = "none"
      BY <1>4 DEF NetInv, QueuedStage
    <2>2. x \notin preparing /\ ~InCommands(x, Ready)
      BY <1>4 DEF NetInv, PreparingStage, Preparing
    <2>3. life[x] = "accepted"
      BY <1>4, <2>1 DEF NetInv, NothingBeforeAcceptance
    <2>4. result[x] = "none"
      BY <1>3, <1>4 DEF NetInv, UnfinishedHasNoResult, Up
    <2>5. QED
      BY <2>1, <2>2, <2>3, <2>4
  <1>6. /\ IsFiniteSet(active') /\ Cardinality(active') = Cardinality(active) + 1
        /\ Cardinality(active) \in Nat
    BY <1>3, <1>5, CardFacts DEF NetInv, Counted
  <1>7. \A o \in Op : transport'[o] = IF o = x THEN "running" ELSE transport[o]
    BY <1>3, <1>4 DEF NetInv, TypeOK
  <1>8. TypeOK'
    <2>1. count' \in [admitted : Nat, queued : Nat, active : Nat]
      <3>1. count \in [admitted : Nat, queued : Nat, active : Nat]
        BY DEF NetInv, TypeOK
      <3>2. count.queued # 0
        BY <1>2, <1>3, FS_CardinalityType DEF NetInv, Counted, Scheduling
      <3>3. count' = [count EXCEPT !.queued = @ - 1, !.active = @ + 1]
        BY <1>3
      <3>4. count' = [admitted |-> count.admitted, queued |-> count.queued - 1,
                      active |-> count.active + 1]
        BY <3>1, <3>3
      <3>5. QED
        BY <3>1, <3>2, <3>4
    <2>2. /\ active' \subseteq Op
          /\ transport' \in [Op -> {"none", "running", "ended", "dropped"}]
      BY <1>3, <1>4 DEF NetInv, TypeOK
    <2>3. QED
      BY <1>3, <1>4, <2>1, <2>2 DEF callerVars, queue, NetInv, TypeOK
  <1>9. NothingBeforeAcceptance'
    BY <1>3, <1>5, <1>7 DEF callerVars, queue, InCommands, NetInv,
       NothingBeforeAcceptance
  <1>10. SubmittedStage'
    BY <1>3, <1>4, <1>5, <1>7 DEF callerVars, queue, InCommands, OnlyOne, NetInv,
       SubmittedStage, Submitted
  <1>11. PreparingStage'
    BY <1>3, <1>4, <1>5, <1>7 DEF queue, InCommands, OnlyOne, Scheduling, NetInv,
       PreparingStage, Preparing
  <1>12. QueuedStage'
    BY <1>3, <1>4, <1>5, <1>7 DEF NetInv, QueuedStage
  <1>13. ActiveStage'
    BY <1>3, <1>4, <1>5, <1>7 DEF queue, InCommands, NetInv, ActiveStage
  <1>14. CancelingStage' /\ AdmissionExact' /\ CanceledIsStopped'
    BY DEF Fill, DriverAt, Permitted, StartTransport, callerVars, queue, Busy,
       Submitted, InQueue, Ready, Preparing, Scheduling, InCommands, OnlyOne,
       CallerAt, CallerType, CommandTypes, DriverType, Up, NetInv, TypeOK, Subjects,
       SubmittedStage, PreparingStage, QueuedStage, ActiveStage, CancelingStage,
       UnfinishedHasNoResult, AdmissionExact, CanceledIsStopped
  <1>15. UnfinishedHasNoResult'
    BY <1>3, <1>4, <1>5, <1>7 DEF Up, NetInv, UnfinishedHasNoResult
  <1>16. Counted'
    <2>1. MaxActive \in Nat
      BY NetAssumption
    <2>2. count'.queued = count.queued - 1 /\ count'.active = count.active + 1
      BY <1>3 DEF NetInv, TypeOK
    <2>3. Cardinality(active') <= MaxActive
      BY <1>3, <1>6, <2>1
    <2>4. count'.queued = Cardinality(preparing') + Len(pending')
      BY <1>2, <1>3, <1>4, <2>2, FS_CardinalityType DEF NetInv, Counted, Scheduling
    <2>5. QED
      BY <1>3, <1>6, <2>2, <2>3, <2>4 DEF NetInv, Counted, Up
  <1>17. NothingForgotten'
    BY <1>3, <1>4, <1>5, <1>7 DEF callerVars, queue, InCommands, InHand, Accepted,
       Scheduling, NetInv, NothingForgotten
  <1>18. Subjects' /\ OffIsEmpty' /\ CommandsAreSeen'
    BY DEF Fill, callerVars, queue, Accepted, CallerAt, NetInv, Subjects, OffIsEmpty,
       CommandsAreSeen
  <1>19. QED
    BY <1>8, <1>9, <1>10, <1>11, <1>12, <1>13, <1>14, <1>15, <1>16, <1>17, <1>18 DEF
       NetInv

\* Nothing can start: the driver waits.
LEMMA ParkKeepsInv ==
    ASSUME NetInv, Park
    PROVE  NetInv'
  <1>1. TypeOK' /\ Subjects' /\ NothingBeforeAcceptance' /\ OffIsEmpty'
    BY ConstantFacts DEF Park, DriverAt, Permitted, DriverGoes, callerVars, queue,
       loopVars, tasks, Busy, CallerType, CommandTypes, DriverType, InCommands,
       Accepted, NetInv, TypeOK, Subjects, NothingBeforeAcceptance, OffIsEmpty
  <1>2. PreparingStage' /\ CancelingStage' /\ UnfinishedHasNoResult' /\ CommandsAreSeen'
    BY DEF Park, DriverAt, Permitted, DriverGoes, queue, loopVars, tasks, Busy,
       Preparing, Ready, InQueue, Scheduling, InCommands, OnlyOne, Up, callerVars,
       CallerAt, NetInv, PreparingStage, CancelingStage, UnfinishedHasNoResult,
       CommandsAreSeen
  <1>3. Counted' /\ NothingForgotten' /\ CanceledIsStopped'
    BY ConstantFacts DEF Park, DriverAt, Permitted, DriverGoes, loopVars, Busy,
       Scheduling, Up, callerVars, queue, tasks, Accepted, InHand, InQueue,
       InCommands, NetInv, Counted, NothingForgotten, CanceledIsStopped
  <1>4. SubmittedStage' /\ QueuedStage' /\ ActiveStage' /\ AdmissionExact'
    BY DEF Park, callerVars, queue, loopVars, tasks, Submitted, InCommands, OnlyOne,
       InQueue, Ready, CallerAt, NetInv, SubmittedStage, QueuedStage, ActiveStage,
       AdmissionExact
  <1>5. QED
    BY <1>1, <1>2, <1>3, <1>4 DEF NetInv

\* The byte is consumed, and the commands will be read.
LEMMA WakeUpKeepsInv ==
    ASSUME NetInv, WakeUp
    PROVE  NetInv'
  <1>1. TypeOK' /\ Subjects'
    BY ConstantFacts DEF WakeUp, DriverAt, DriverGoes, callerVars, loopVars, tasks,
       Busy, CallerType, CommandTypes, DriverType, NetInv, TypeOK, Subjects
  <1>2. NothingBeforeAcceptance' /\ OffIsEmpty'
    BY ConstantFacts DEF WakeUp, DriverAt, DriverGoes, callerVars, loopVars, tasks,
       Busy, CommandTypes, InCommands, Accepted, NetInv, NothingBeforeAcceptance,
       OffIsEmpty
  <1>3. PreparingStage' /\ CancelingStage' /\ UnfinishedHasNoResult' /\ CommandsAreSeen'
    BY DEF WakeUp, DriverAt, DriverGoes, loopVars, tasks, Busy, Preparing, Ready,
       InQueue, Scheduling, InCommands, OnlyOne, Up, callerVars, CallerAt, NetInv,
       PreparingStage, CancelingStage, UnfinishedHasNoResult, CommandsAreSeen
  <1>4. Counted' /\ NothingForgotten' /\ CanceledIsStopped'
    BY ConstantFacts DEF WakeUp, DriverAt, DriverGoes, loopVars, Busy, Scheduling, Up,
       callerVars, tasks, Accepted, InHand, InQueue, InCommands, NetInv, Counted,
       NothingForgotten, CanceledIsStopped
  <1>5. SubmittedStage' /\ QueuedStage' /\ ActiveStage' /\ AdmissionExact'
    BY DEF WakeUp, callerVars, loopVars, tasks, Submitted, InCommands, OnlyOne,
       InQueue, Ready, CallerAt, NetInv, SubmittedStage, QueuedStage, ActiveStage,
       AdmissionExact
  <1>6. QED
    BY <1>1, <1>2, <1>3, <1>4, <1>5 DEF NetInv

\* The pipe fails, and all work is about to.
LEMMA WaitFailsKeepsInv ==
    ASSUME NetInv, WaitFails
    PROVE  NetInv'
  <1>1. TypeOK' /\ Subjects' /\ NothingBeforeAcceptance' /\ OffIsEmpty'
    BY ConstantFacts DEF WaitFails, DriverAt, DriverGoes, callerVars, queue, loopVars,
       tasks, Busy, CallerType, CommandTypes, DriverType, InCommands, Accepted,
       NetInv, TypeOK, Subjects, NothingBeforeAcceptance, OffIsEmpty
  <1>2. PreparingStage' /\ CancelingStage' /\ UnfinishedHasNoResult' /\ CommandsAreSeen'
    BY DEF WaitFails, DriverAt, DriverGoes, queue, loopVars, tasks, Busy, Preparing,
       Ready, InQueue, Scheduling, InCommands, OnlyOne, Up, callerVars, CallerAt,
       NetInv, PreparingStage, CancelingStage, UnfinishedHasNoResult, CommandsAreSeen
  <1>3. Counted' /\ NothingForgotten' /\ CanceledIsStopped'
    BY ConstantFacts DEF WaitFails, DriverAt, DriverGoes, loopVars, Busy, Scheduling,
       Up, callerVars, queue, tasks, Accepted, InHand, InQueue, InCommands, NetInv,
       Counted, NothingForgotten, CanceledIsStopped
  <1>4. SubmittedStage' /\ QueuedStage' /\ ActiveStage' /\ AdmissionExact'
    BY DEF WaitFails, callerVars, queue, loopVars, tasks, Submitted, InCommands,
       OnlyOne, InQueue, Ready, CallerAt, NetInv, SubmittedStage, QueuedStage,
       ActiveStage, AdmissionExact
  <1>5. QED
    BY <1>1, <1>2, <1>3, <1>4 DEF NetInv

\* Every registered completion fails.
LEMMA FailAllKeepsInv ==
    ASSUME NetInv, FailAll
    PROVE  NetInv'
  <1>1. TypeOK' /\ Subjects' /\ NothingBeforeAcceptance' /\ OffIsEmpty'
    BY ConstantFacts DEF FailAll, DriverAt, Complete, DriverGoes, callerVars, queue,
       loopVars, tasks, Busy, CallerType, CommandTypes, DriverType, InCommands,
       Accepted, NetInv, TypeOK, Subjects, NothingBeforeAcceptance, OffIsEmpty
  <1>2. PreparingStage' /\ ActiveStage' /\ CancelingStage' /\ UnfinishedHasNoResult'
    BY DEF FailAll, DriverAt, Complete, DriverGoes, queue, loopVars, tasks, Busy,
       Preparing, Ready, InQueue, Scheduling, InCommands, OnlyOne, Up, NetInv,
       PreparingStage, ActiveStage, CancelingStage, UnfinishedHasNoResult
  <1>3. CommandsAreSeen' /\ Counted' /\ NothingForgotten' /\ CanceledIsStopped'
    BY ConstantFacts DEF FailAll, DriverAt, Complete, DriverGoes, callerVars, queue,
       Busy, CallerAt, loopVars, Scheduling, Up, tasks, Accepted, InHand, InQueue,
       InCommands, NetInv, CommandsAreSeen, Counted, NothingForgotten,
       CanceledIsStopped
  <1>4. SubmittedStage' /\ QueuedStage' /\ AdmissionExact'
    BY DEF FailAll, callerVars, queue, loopVars, tasks, Submitted, InCommands,
       OnlyOne, InQueue, Ready, CallerAt, NetInv, SubmittedStage, QueuedStage,
       AdmissionExact
  <1>5. QED
    BY <1>1, <1>2, <1>3, <1>4 DEF NetInv

\* The thread of the driver ends.
LEMMA ExitKeepsInv ==
    ASSUME NetInv, Exit
    PROVE  NetInv'
  <1>1. TypeOK' /\ Subjects' /\ NothingBeforeAcceptance' /\ OffIsEmpty'
    BY ConstantFacts DEF Exit, DriverAt, DriverGoes, callerVars, queue, loopVars,
       tasks, Busy, CallerType, CommandTypes, DriverType, InCommands, Accepted,
       NetInv, TypeOK, Subjects, NothingBeforeAcceptance, OffIsEmpty
  <1>2. PreparingStage' /\ CancelingStage' /\ UnfinishedHasNoResult' /\ CommandsAreSeen'
    BY DEF Exit, DriverAt, DriverGoes, queue, loopVars, tasks, Busy, Preparing, Ready,
       InQueue, Scheduling, InCommands, OnlyOne, Up, callerVars, CallerAt, NetInv,
       PreparingStage, CancelingStage, UnfinishedHasNoResult, CommandsAreSeen
  <1>3. Counted' /\ NothingForgotten' /\ CanceledIsStopped'
    BY ConstantFacts DEF Exit, DriverAt, DriverGoes, loopVars, Busy, Scheduling, Up,
       callerVars, queue, tasks, Accepted, InHand, InQueue, InCommands, NetInv,
       Counted, NothingForgotten, CanceledIsStopped
  <1>4. SubmittedStage' /\ QueuedStage' /\ ActiveStage' /\ AdmissionExact'
    BY DEF Exit, callerVars, queue, loopVars, tasks, Submitted, InCommands, OnlyOne,
       InQueue, Ready, CallerAt, NetInv, SubmittedStage, QueuedStage, ActiveStage,
       AdmissionExact
  <1>5. QED
    BY <1>1, <1>2, <1>3, <1>4 DEF NetInv

\* The queue is canceled as a whole.
LEMMA DrainPendingKeepsInv ==
    ASSUME NetInv, DrainPending
    PROVE  NetInv'
  <1>1. /\ driver.at = "drainPending" /\ driver' = [at |-> "drain", op |-> NoOp]
        /\ count' = [count EXCEPT !.queued = @ - Len(pending)]
        /\ pending' = <<>>
        /\ UNCHANGED <<callerVars, state, queue, terminals, preparing, active, deadlines,
                       tasks>>
    BY DEF DrainPending, DriverAt, DriverGoes
  <1>2. \A o \in Op : result'[o] =
            IF InQueue(o) /\ result[o] = "none" THEN "canceled" ELSE result[o]
    BY DEF DrainPending, Complete, InQueue
  <1>3. TypeOK'
    <2>1. count' \in [admitted : Nat, queued : Nat, active : Nat]
      <3>1. count \in [admitted : Nat, queued : Nat, active : Nat] /\ Len(pending) \in Nat
        BY DEF NetInv, TypeOK
      <3>2. count.queued >= Len(pending)
        BY <1>1, <3>1, FS_CardinalityType DEF NetInv, Counted
      <3>3. count' = [admitted |-> count.admitted, queued |-> count.queued - Len(pending),
                      active |-> count.active]
        BY <1>1, <3>1
      <3>4. QED
        BY <3>1, <3>2, <3>3
    <2>2. result' \in [Op -> {"none", "response", "error", "timeout", "canceled", "failed"}]
      BY DEF DrainPending, Complete, NetInv, TypeOK
    <2>3. pending' \in Seq(Op) /\ driver' \in DriverType
      BY <1>1 DEF DriverType
    <2>4. QED
      BY <1>1, <2>1, <2>2, <2>3 DEF callerVars, queue, tasks, NetInv, TypeOK
  <1>4. Subjects' /\ OffIsEmpty' /\ SubmittedStage' /\ PreparingStage'
    BY DEF DrainPending, DriverAt, Complete, DriverGoes, callerVars, queue, Busy,
       Accepted, tasks, Submitted, InQueue, Ready, InCommands, OnlyOne, Preparing,
       Scheduling, NetInv, Subjects, OffIsEmpty, SubmittedStage, PreparingStage
  <1>5. NothingBeforeAcceptance'
    <2>1. \A o \in Op : life[o] # "accepted" => result'[o] = result[o]
      BY <1>2 DEF NetInv, QueuedStage, NothingBeforeAcceptance
    <2>2. QED
      BY <1>1, <2>1, ConstantFacts DEF callerVars, queue, tasks, InCommands, NetInv,
         NothingBeforeAcceptance
  <1>6. QueuedStage' /\ ActiveStage' /\ CancelingStage' /\ UnfinishedHasNoResult'
    BY DEF DrainPending, DriverAt, Complete, DriverGoes, tasks, Busy, InQueue, queue,
       InCommands, callerVars, CommandTypes, Submitted, Ready, Preparing, Scheduling,
       Accepted, Up, OnlyOne, NetInv, Subjects, NothingBeforeAcceptance, OffIsEmpty,
       SubmittedStage, PreparingStage, QueuedStage, ActiveStage, CancelingStage,
       UnfinishedHasNoResult
  <1>7. CommandsAreSeen' /\ Counted' /\ AdmissionExact' /\ NothingForgotten'
    BY ConstantFacts DEF DrainPending, DriverAt, Complete, DriverGoes, callerVars,
       queue, Busy, CallerAt, Scheduling, Up, tasks, Accepted, InHand, InQueue,
       InCommands, NetInv, CommandsAreSeen, Counted, AdmissionExact, NothingForgotten
  <1>8. CanceledIsStopped'
    BY DEF DrainPending, DriverAt, Complete, DriverGoes, callerVars, queue, tasks,
       Busy, Preparing, Ready, InQueue, Scheduling, Up, InCommands, OnlyOne, NetInv,
       Subjects, PreparingStage, QueuedStage, ActiveStage, CancelingStage,
       UnfinishedHasNoResult, CanceledIsStopped
  <1>9. QED
    BY <1>3, <1>4, <1>5, <1>6, <1>7, <1>8 DEF NetInv

\* A preflight is dropped.
LEMMA DrainPreparingKeepsInv ==
    ASSUME NetInv, NEW o \in Op, DrainPreparing(o)
    PROVE  NetInv'
  <1>1. TypeOK' /\ NothingBeforeAcceptance' /\ SubmittedStage' /\ PreparingStage'
    BY ConstantFacts DEF DrainPreparing, DriverAt, Dropped, callerVars, queue, Busy,
       CallerType, CommandTypes, DriverType, InCommands, Submitted, InQueue, Ready,
       OnlyOne, Preparing, Scheduling, NetInv, TypeOK, NothingBeforeAcceptance,
       SubmittedStage, PreparingStage
  <1>2. QueuedStage' /\ ActiveStage' /\ UnfinishedHasNoResult' /\ NothingForgotten'
    BY DEF DrainPreparing, DriverAt, Dropped, Busy, InQueue, queue, InCommands, Up,
       callerVars, Accepted, Scheduling, InHand, NetInv, QueuedStage, ActiveStage,
       UnfinishedHasNoResult, NothingForgotten
  <1>3. Counted'
    <2>1. IsFiniteSet(preparing')
      BY CardFacts DEF DrainPreparing, NetInv, Counted
    <2>2. driver.at = "drain"
      BY DEF DrainPreparing, DriverAt
    <2>3. QED
      BY <2>1, <2>2 DEF DrainPreparing, Scheduling, Up, NetInv, Counted
  <1>4. /\ Subjects' /\ OffIsEmpty' /\ CancelingStage' /\ CommandsAreSeen'
         /\ AdmissionExact' /\ CanceledIsStopped'
    BY DEF DrainPreparing, callerVars, queue, Accepted, CallerAt, NetInv, Subjects,
       OffIsEmpty, CancelingStage, CommandsAreSeen, AdmissionExact, CanceledIsStopped
  <1>5. QED
    BY <1>1, <1>2, <1>3, <1>4 DEF NetInv

\* A transport is dropped before its operation is canceled.
LEMMA DrainActiveKeepsInv ==
    ASSUME NetInv, NEW o \in Op, DrainActive(o)
    PROVE  NetInv'
  <1>1. /\ driver.at = "drain" /\ driver' = [at |-> "drained", op |-> o]
        /\ o \in active /\ active' = active \ {o}
        /\ count' = [count EXCEPT !.active = @ - 1]
        /\ transport' = [transport EXCEPT ![o] = IF @ = "running" THEN "dropped" ELSE @]
        /\ UNCHANGED <<callerVars, state, queue, terminals, result, pending, preparing,
                       deadlines,
                       preflight, canceling>>
    BY DEF DrainActive, DriverAt, Dropped
  <1>2. /\ IsFiniteSet(active') /\ Cardinality(active') = Cardinality(active) - 1
        /\ Cardinality(active) \in Nat \ {0}
    BY <1>1, CardFacts DEF NetInv, Counted
  <1>3. /\ count \in [admitted : Nat, queued : Nat, active : Nat]
        /\ count.active = Cardinality(active)
    BY <1>1 DEF NetInv, TypeOK, Counted, Up
  <1>4. count' = [admitted |-> count.admitted, queued |-> count.queued,
                  active |-> count.active - 1]
    BY <1>1, <1>3
  <1>5. TypeOK'
    <2>1. count' \in [admitted : Nat, queued : Nat, active : Nat]
      BY <1>2, <1>3, <1>4
    <2>2. transport' \in [Op -> {"none", "running", "ended", "dropped"}]
      BY <1>1 DEF NetInv, TypeOK
    <2>3. active' \subseteq Op /\ driver' \in DriverType
      BY <1>1 DEF DriverType, NetInv, TypeOK
    <2>4. QED
      BY <1>1, <2>1, <2>2, <2>3 DEF callerVars, queue, NetInv, TypeOK
  <1>6. Subjects' /\ OffIsEmpty' /\ SubmittedStage' /\ PreparingStage'
    BY DEF DrainActive, DriverAt, Dropped, callerVars, queue, Busy, Accepted,
       Submitted, InQueue, Ready, InCommands, OnlyOne, Preparing, Scheduling, NetInv,
       Subjects, OffIsEmpty, SubmittedStage, PreparingStage
  <1>7. NothingBeforeAcceptance'
    <2>1. life[o] = "accepted"
      <3>1. transport[o] \in {"running", "ended"}
        BY <1>1 DEF NetInv, ActiveStage
      <3>2. QED
        BY <3>1 DEF NetInv, NothingBeforeAcceptance
    <2>2. \A p \in Op : p # o => transport'[p] = transport[p]
      BY <1>1 DEF NetInv, TypeOK
    <2>3. QED
      BY <1>1, <2>1, <2>2 DEF callerVars, queue, InCommands, NetInv,
         NothingBeforeAcceptance
  <1>8. QueuedStage' /\ ActiveStage' /\ CancelingStage' /\ UnfinishedHasNoResult'
    BY DEF DrainActive, DriverAt, Dropped, Busy, InQueue, callerVars, queue,
       CallerType, CommandTypes, DriverType, InCommands, Submitted, Ready, Preparing,
       Scheduling, OnlyOne, Up, NetInv, TypeOK, Subjects, SubmittedStage,
       PreparingStage, QueuedStage, ActiveStage, CancelingStage, UnfinishedHasNoResult
  <1>9. CommandsAreSeen' /\ AdmissionExact' /\ NothingForgotten' /\ CanceledIsStopped'
    BY DEF DrainActive, DriverAt, Dropped, callerVars, queue, Busy, CallerAt,
       Accepted, Scheduling, InHand, InQueue, InCommands, NetInv, CommandsAreSeen,
       AdmissionExact, NothingForgotten, CanceledIsStopped
  <1>10. Counted'
    <2>1. MaxActive \in Nat /\ Cardinality(active) <= MaxActive
      BY NetAssumption DEF NetInv, Counted
    <2>2. QED
      BY <1>1, <1>2, <1>3, <1>4, <2>1 DEF NetInv, Counted, Scheduling, Up
  <1>11. QED
    BY <1>5, <1>6, <1>7, <1>8, <1>9, <1>10 DEF NetInv

\* The transport is gone when the cancellation is reported.
LEMMA DrainCompleteKeepsInv ==
    ASSUME NetInv, DrainComplete
    PROVE  NetInv'
  <1>1. TypeOK' /\ Subjects' /\ NothingBeforeAcceptance' /\ OffIsEmpty'
    BY ConstantFacts DEF DrainComplete, DriverAt, Complete, DriverGoes, callerVars,
       queue, loopVars, tasks, Busy, CallerType, CommandTypes, DriverType, InCommands,
       Accepted, NetInv, TypeOK, Subjects, NothingBeforeAcceptance, OffIsEmpty
  <1>2. PreparingStage' /\ ActiveStage' /\ CancelingStage' /\ UnfinishedHasNoResult'
    BY DEF DrainComplete, DriverAt, Complete, DriverGoes, queue, loopVars, tasks,
       Busy, Preparing, Ready, InQueue, Scheduling, InCommands, OnlyOne, callerVars,
       CommandTypes, Submitted, Accepted, Up, NetInv, Subjects,
       NothingBeforeAcceptance, OffIsEmpty, SubmittedStage, PreparingStage,
       QueuedStage, ActiveStage, CancelingStage, UnfinishedHasNoResult
  <1>3. CommandsAreSeen' /\ Counted' /\ NothingForgotten' /\ CanceledIsStopped'
    BY ConstantFacts DEF DrainComplete, DriverAt, Complete, DriverGoes, callerVars,
       queue, Busy, CallerAt, loopVars, Scheduling, Up, tasks, Accepted, InHand,
       InQueue, InCommands, Preparing, Ready, OnlyOne, NetInv, Subjects,
       PreparingStage, QueuedStage, ActiveStage, CancelingStage,
       UnfinishedHasNoResult, CommandsAreSeen, Counted, NothingForgotten,
       CanceledIsStopped
  <1>4. SubmittedStage' /\ QueuedStage' /\ AdmissionExact'
    BY DEF DrainComplete, callerVars, queue, loopVars, tasks, Submitted, InCommands,
       OnlyOne, InQueue, Ready, CallerAt, NetInv, SubmittedStage, QueuedStage,
       AdmissionExact
  <1>5. QED
    BY <1>1, <1>2, <1>3, <1>4 DEF NetInv

\* Nothing is left to drain.
LEMMA DrainEndKeepsInv ==
    ASSUME NetInv, DrainEnd
    PROVE  NetInv'
  <1>1. TypeOK' /\ Subjects' /\ NothingBeforeAcceptance' /\ OffIsEmpty'
    BY ConstantFacts DEF DrainEnd, DriverAt, DriverGoes, callerVars, queue, loopVars,
       tasks, Busy, CallerType, CommandTypes, DriverType, InCommands, Accepted,
       NetInv, TypeOK, Subjects, NothingBeforeAcceptance, OffIsEmpty
  <1>2. PreparingStage' /\ CancelingStage' /\ UnfinishedHasNoResult' /\ CommandsAreSeen'
    BY DEF DrainEnd, DriverAt, DriverGoes, queue, loopVars, tasks, Busy, Preparing,
       Ready, InQueue, Scheduling, InCommands, OnlyOne, Up, callerVars, CallerAt,
       NetInv, PreparingStage, CancelingStage, UnfinishedHasNoResult, CommandsAreSeen
  <1>3. Counted' /\ NothingForgotten' /\ CanceledIsStopped'
    BY ConstantFacts DEF DrainEnd, DriverAt, DriverGoes, loopVars, Busy, Scheduling,
       Up, callerVars, queue, tasks, Accepted, InHand, InQueue, InCommands, NetInv,
       Counted, NothingForgotten, CanceledIsStopped
  <1>4. SubmittedStage' /\ QueuedStage' /\ ActiveStage' /\ AdmissionExact'
    BY DEF DrainEnd, callerVars, queue, loopVars, tasks, Submitted, InCommands,
       OnlyOne, InQueue, Ready, CallerAt, NetInv, SubmittedStage, QueuedStage,
       ActiveStage, AdmissionExact
  <1>5. QED
    BY <1>1, <1>2, <1>3, <1>4 DEF NetInv

\* A preflight ends and says so with a command.
LEMMA PreflightEndsKeepsInv ==
    ASSUME NetInv, NEW o \in Op, PreflightEnds(o)
    PROVE  NetInv'
  <1>1. PICK type \in Ready : Appended(type, o)
    BY AppendFacts DEF NetInv, PreflightEnds, Enqueue, CommandTypes, Ready
  <1>2. /\ preflight[o] = "running"
        /\ preflight' = [preflight EXCEPT ![o] = "ended"]
        /\ \A p \in Op : preflight'[p] = IF p = o THEN "ended" ELSE preflight[p]
        /\ UNCHANGED <<callerVars, state, count, terminals, result, driver, loopVars,
                       transport,
                       canceling>>
    BY DEF PreflightEnds, NetInv, TypeOK
  <1>3. /\ ~InQueue(o) /\ o \notin active /\ transport[o] = "none"
        /\ canceling[o] \in {"none", "preflight"}
    <2>1. ~InQueue(o)
      BY <1>2 DEF NetInv, QueuedStage
    <2>2. transport[o] = "none"
      BY <1>2 DEF NetInv, ActiveStage
    <2>3. o \notin active
      BY <2>2 DEF NetInv, ActiveStage
    <2>4. canceling[o] \in {"none", "preflight"}
      BY <2>2 DEF NetInv, TypeOK, CancelingStage
    <2>5. QED
      BY <2>1, <2>2, <2>3, <2>4
  <1>4. Scheduling => o \in preparing \/ result[o] # "none"
    <2> SUFFICES ASSUME Scheduling, result[o] = "none"
                 PROVE  o \in preparing
      OBVIOUS
    <2>1. life[o] = "accepted"
      BY <1>2 DEF NetInv, NothingBeforeAcceptance
    <2>2. InHand(o)
      BY <2>1 DEF NetInv, NothingForgotten, Accepted
    <2>3. /\ ~InCommands(o, {"Submit"})
          /\ ~(caller.op = o /\ caller.at = "push" /\ caller.send = "Submit")
      BY <1>2 DEF NetInv, SubmittedStage, Submitted
    <2>4. QED
      BY <1>3, <2>2, <2>3 DEF InHand
  <1>5. ~InCommands(o, Ready) /\ ~InCommands(o, {"Submit"})
    BY <1>2 DEF NetInv, PreparingStage, Preparing, SubmittedStage, Submitted
  <1>6. TypeOK' /\ Subjects' /\ NothingBeforeAcceptance' /\ SubmittedStage'
    BY ConstantFacts, <1>1 DEF PreflightEnds, Yields, Enqueue, callerVars, loopVars,
       Busy, Command, CallerType, CommandTypes, DriverType, Appended, CommandsTyped,
       Submitted, InQueue, Ready, NetInv, TypeOK, Subjects, NothingBeforeAcceptance,
       SubmittedStage
  <1>7. PreparingStage'
    <2> SUFFICES ASSUME NEW p \in Op
                 PROVE  Preparing(p)'
      BY DEF PreparingStage
    <2>1. Preparing(p)
      BY DEF NetInv, PreparingStage
    <2>2. CASE p = o
      <3>1. OnlyOne(o, Ready)' /\ InCommands(o, Ready)'
        BY <1>1, <1>5 DEF Appended
      <3>2. QED
        BY <1>2, <1>3, <1>4, <2>1, <2>2, <3>1 DEF Preparing, InQueue, Scheduling,
           loopVars
    <2>3. CASE p # o
      <3>1. InCommands(p, Ready)' <=> InCommands(p, Ready)
        BY <1>1, <2>3 DEF Appended
      <3>2. OnlyOne(p, Ready) => OnlyOne(p, Ready)'
        BY <1>1, <2>3 DEF Appended
      <3>3. QED
        BY <1>2, <2>1, <2>3, <3>1, <3>2 DEF Preparing, InQueue, Scheduling,
           loopVars
    <2>4. QED
      BY <2>2, <2>3
  <1>8. QueuedStage' /\ ActiveStage' /\ UnfinishedHasNoResult' /\ CommandsAreSeen'
    BY <1>1 DEF PreflightEnds, Yields, Enqueue, loopVars, Busy, Command, InQueue,
       Appended, callerVars, Submitted, Ready, Preparing, Scheduling, Up, CallerAt,
       NetInv, Subjects, SubmittedStage, PreparingStage, QueuedStage, ActiveStage,
       CancelingStage, UnfinishedHasNoResult, CommandsAreSeen
  <1>9. NothingForgotten'
    BY <1>1 DEF PreflightEnds, Yields, Enqueue, callerVars, loopVars, Busy, Command,
       CommandTypes, Submitted, InQueue, Ready, Preparing, Scheduling, Up, Accepted,
       InHand, Appended, NetInv, Subjects, NothingBeforeAcceptance, SubmittedStage,
       PreparingStage, QueuedStage, ActiveStage, CancelingStage,
       UnfinishedHasNoResult, NothingForgotten
  <1>10. /\ OffIsEmpty' /\ CancelingStage' /\ Counted' /\ AdmissionExact'
         /\ CanceledIsStopped'
    BY DEF PreflightEnds, callerVars, loopVars, Accepted, Scheduling, Up, CallerAt,
       NetInv, OffIsEmpty, CancelingStage, Counted, AdmissionExact, CanceledIsStopped
  <1>11. QED
    BY <1>6, <1>7, <1>8, <1>9, <1>10 DEF NetInv

\* A transport ends: result first, command after.
LEMMA TransportEndsKeepsInv ==
    ASSUME NetInv, NEW o \in Op, TransportEnds(o)
    PROVE  NetInv'
  <1>1. Appended("Finished", o)
    BY AppendFacts DEF NetInv, TransportEnds, Enqueue, CommandTypes
  <1>2. \A p \in Op : /\ InCommands(p, Ready)' <=> InCommands(p, Ready)
                      /\ InCommands(p, {"Submit"})' <=> InCommands(p, {"Submit"})
                      /\ OnlyOne(p, Ready) => OnlyOne(p, Ready)'
                      /\ OnlyOne(p, {"Submit"}) => OnlyOne(p, {"Submit"})'
    BY <1>1 DEF Appended, Ready
  <1>3. /\ transport[o] = "running" /\ preflight[o] = "ended"
        /\ ~InCommands(o, Ready) /\ o \notin preparing
    <2>1. transport[o] = "running"
      BY DEF TransportEnds
    <2>2. preflight[o] = "ended"
      BY <2>1 DEF NetInv, ActiveStage
    <2>3. QED
      BY <2>1, <2>2 DEF NetInv, PreparingStage, Preparing
  <1>4. /\ \A p \in Op : p # o => transport'[p] = transport[p] /\ result'[p] = result[p]
        /\ UNCHANGED <<callerVars, state, count, terminals, driver, loopVars, preflight,
                       canceling>>
    BY DEF TransportEnds, Complete, NetInv, TypeOK
  <1>5. TypeOK' /\ Subjects' /\ NothingBeforeAcceptance' /\ QueuedStage'
    BY ConstantFacts, <1>1 DEF TransportEnds, Yields, Complete, Enqueue, callerVars,
       loopVars, Busy, Command, CallerType, CommandTypes, DriverType, Appended,
       CommandsTyped, InQueue, NetInv, TypeOK, Subjects, NothingBeforeAcceptance,
       QueuedStage
  <1>6. SubmittedStage'
    BY <1>2, <1>3, <1>4 DEF callerVars, loopVars, InQueue, NetInv, SubmittedStage,
       Submitted
  <1>7. PreparingStage'
    BY <1>2, <1>3, <1>4 DEF Scheduling, loopVars, InQueue, NetInv, PreparingStage,
       Preparing
  <1>8. ActiveStage' /\ CancelingStage' /\ UnfinishedHasNoResult' /\ CommandsAreSeen'
    BY <1>1 DEF TransportEnds, Yields, Complete, Enqueue, callerVars, loopVars, Busy,
       Command, CallerType, CommandTypes, DriverType, Appended, Submitted, InQueue,
       Ready, Preparing, Scheduling, Accepted, Up, CallerAt, NetInv, TypeOK, Subjects,
       NothingBeforeAcceptance, OffIsEmpty, SubmittedStage, PreparingStage,
       QueuedStage, ActiveStage, CancelingStage, UnfinishedHasNoResult,
       CommandsAreSeen
  <1>9. NothingForgotten' /\ CanceledIsStopped'
    BY <1>1 DEF TransportEnds, Yields, Complete, Enqueue, callerVars, loopVars, Busy,
       Command, Accepted, Scheduling, InHand, InQueue, Appended, NetInv,
       NothingForgotten, CanceledIsStopped
  <1>10. OffIsEmpty' /\ Counted' /\ AdmissionExact'
    BY DEF TransportEnds, callerVars, loopVars, Accepted, Scheduling, Up, CallerAt,
       NetInv, OffIsEmpty, Counted, AdmissionExact
  <1>11. QED
    BY <1>5, <1>6, <1>7, <1>8, <1>9, <1>10 DEF NetInv

\* A deadline passes and says so with a command.
LEMMA DeadlineEndsKeepsInv ==
    ASSUME NetInv, NEW o \in Op, DeadlineEnds(o)
    PROVE  NetInv'
  <1>1. Appended("Expired", o)
    BY AppendFacts DEF NetInv, DeadlineEnds, Enqueue, CommandTypes
  <1>2. \A p \in Op : /\ InCommands(p, Ready)' <=> InCommands(p, Ready)
                      /\ InCommands(p, {"Submit"})' <=> InCommands(p, {"Submit"})
                      /\ OnlyOne(p, Ready) => OnlyOne(p, Ready)'
                      /\ OnlyOne(p, {"Submit"}) => OnlyOne(p, {"Submit"})'
    BY <1>1 DEF Appended, Ready
  <1>3. UNCHANGED <<callerVars, state, count, terminals, result, driver, loopVars, tasks>>
    BY DEF DeadlineEnds
  <1>4. TypeOK' /\ Subjects' /\ NothingBeforeAcceptance' /\ ActiveStage'
    BY ConstantFacts, <1>1 DEF DeadlineEnds, Yields, Expired, Enqueue, callerVars,
       loopVars, tasks, Busy, Command, CallerType, CommandTypes, DriverType, Appended,
       CommandsTyped, NetInv, TypeOK, Subjects, NothingBeforeAcceptance, ActiveStage
  <1>5. SubmittedStage'
    BY <1>2, <1>3 DEF callerVars, loopVars, tasks, InQueue, NetInv, SubmittedStage,
       Submitted
  <1>6. PreparingStage'
    BY <1>2, <1>3 DEF Scheduling, loopVars, tasks, InQueue, NetInv, PreparingStage,
       Preparing
  <1>7. CommandsAreSeen' /\ NothingForgotten'
    BY <1>1 DEF DeadlineEnds, Yields, Expired, Enqueue, callerVars, Busy, Command,
       CallerAt, Appended, loopVars, tasks, Accepted, Scheduling, InHand, InQueue,
       NetInv, CommandsAreSeen, NothingForgotten
  <1>8. /\ OffIsEmpty' /\ QueuedStage' /\ CancelingStage' /\ UnfinishedHasNoResult'
         /\ Counted' /\ AdmissionExact' /\ CanceledIsStopped'
    BY DEF DeadlineEnds, callerVars, loopVars, tasks, Accepted, InQueue, Up,
       Scheduling, CallerAt, NetInv, OffIsEmpty, QueuedStage, CancelingStage,
       UnfinishedHasNoResult, Counted, AdmissionExact, CanceledIsStopped
  <1>9. QED
    BY <1>4, <1>5, <1>6, <1>7, <1>8 DEF NetInv

\* A canceled preflight is dropped.
LEMMA CancelPreflightKeepsInv ==
    ASSUME NetInv, NEW o \in Op, CancelPreflight(o)
    PROVE  NetInv'
  <1>1. TypeOK' /\ NothingBeforeAcceptance' /\ SubmittedStage' /\ PreparingStage'
    BY ConstantFacts DEF CancelPreflight, Yields, Dropped, callerVars, queue,
       loopVars, Busy, CallerType, CommandTypes, DriverType, InCommands, Submitted,
       InQueue, Ready, OnlyOne, Preparing, Scheduling, NetInv, TypeOK,
       NothingBeforeAcceptance, SubmittedStage, PreparingStage
  <1>2. QueuedStage' /\ ActiveStage' /\ CancelingStage' /\ UnfinishedHasNoResult'
    BY DEF CancelPreflight, Yields, Dropped, loopVars, Busy, InQueue, queue,
       InCommands, Up, NetInv, QueuedStage, ActiveStage, CancelingStage,
       UnfinishedHasNoResult
  <1>3. NothingForgotten'
    BY DEF CancelPreflight, Yields, Dropped, callerVars, queue, loopVars, Busy,
       CommandTypes, Submitted, InQueue, Ready, Preparing, Scheduling, Up, Accepted,
       InHand, InCommands, OnlyOne, NetInv, Subjects, NothingBeforeAcceptance,
       SubmittedStage, PreparingStage, QueuedStage, ActiveStage, CancelingStage,
       UnfinishedHasNoResult, NothingForgotten
  <1>4. /\ Subjects' /\ OffIsEmpty' /\ CommandsAreSeen' /\ Counted' /\ AdmissionExact'
         /\ CanceledIsStopped'
    BY DEF CancelPreflight, callerVars, queue, loopVars, Accepted, CallerAt,
       Scheduling, Up, NetInv, Subjects, OffIsEmpty, CommandsAreSeen, Counted,
       AdmissionExact, CanceledIsStopped
  <1>5. QED
    BY <1>1, <1>2, <1>3, <1>4 DEF NetInv

\* A canceled transport is dropped.
LEMMA CancelTransportKeepsInv ==
    ASSUME NetInv, NEW o \in Op, CancelTransport(o)
    PROVE  NetInv'
  <1>1. TypeOK' /\ NothingBeforeAcceptance' /\ SubmittedStage' /\ PreparingStage'
    BY ConstantFacts DEF CancelTransport, Yields, Dropped, callerVars, queue,
       loopVars, Busy, CallerType, CommandTypes, DriverType, InCommands, Submitted,
       InQueue, Ready, OnlyOne, Preparing, Scheduling, NetInv, TypeOK,
       NothingBeforeAcceptance, SubmittedStage, PreparingStage
  <1>2. QueuedStage' /\ ActiveStage' /\ CancelingStage' /\ UnfinishedHasNoResult'
    BY DEF CancelTransport, Yields, Dropped, loopVars, Busy, InQueue, callerVars,
       queue, CallerType, CommandTypes, DriverType, InCommands, Up, NetInv, TypeOK,
       QueuedStage, ActiveStage, CancelingStage, UnfinishedHasNoResult
  <1>3. NothingForgotten' /\ CanceledIsStopped'
    BY DEF CancelTransport, Yields, Dropped, callerVars, queue, loopVars, Busy,
       Accepted, Scheduling, InHand, InQueue, InCommands, NetInv, NothingForgotten,
       CanceledIsStopped
  <1>4. Subjects' /\ OffIsEmpty' /\ CommandsAreSeen' /\ Counted' /\ AdmissionExact'
    BY DEF CancelTransport, callerVars, queue, loopVars, Accepted, CallerAt,
       Scheduling, Up, NetInv, Subjects, OffIsEmpty, CommandsAreSeen, Counted,
       AdmissionExact
  <1>5. QED
    BY <1>1, <1>2, <1>3, <1>4 DEF NetInv

\* The file of a canceled download is removed.
LEMMA CleanupEndsKeepsInv ==
    ASSUME NetInv, NEW o \in Op, CleanupEnds(o)
    PROVE  NetInv'
  <1>1. TypeOK' /\ NothingBeforeAcceptance' /\ SubmittedStage' /\ PreparingStage'
    BY ConstantFacts DEF CleanupEnds, Yields, callerVars, queue, loopVars, Busy,
       CallerType, CommandTypes, DriverType, InCommands, Submitted, InQueue, Ready,
       OnlyOne, Preparing, Scheduling, NetInv, TypeOK, NothingBeforeAcceptance,
       SubmittedStage, PreparingStage
  <1>2. QueuedStage' /\ ActiveStage' /\ CancelingStage' /\ NothingForgotten'
    BY DEF CleanupEnds, Yields, loopVars, Busy, InQueue, queue, InCommands,
       callerVars, Accepted, Scheduling, InHand, NetInv, QueuedStage, ActiveStage,
       CancelingStage, NothingForgotten
  <1>3. /\ Subjects' /\ OffIsEmpty' /\ UnfinishedHasNoResult' /\ CommandsAreSeen'
         /\ Counted' /\ AdmissionExact' /\ CanceledIsStopped'
    BY DEF CleanupEnds, callerVars, queue, loopVars, Accepted, Up, InQueue, CallerAt,
       Scheduling, NetInv, Subjects, OffIsEmpty, UnfinishedHasNoResult,
       CommandsAreSeen, Counted, AdmissionExact, CanceledIsStopped
  <1>4. QED
    BY <1>1, <1>2, <1>3 DEF NetInv

\* The cancellation is reported once the transport is gone.
LEMMA CancelCompletesKeepsInv ==
    ASSUME NetInv, NEW o \in Op, CancelCompletes(o)
    PROVE  NetInv'
  <1>1. TypeOK' /\ NothingBeforeAcceptance'
    BY ConstantFacts DEF CancelCompletes, Yields, Complete, callerVars, queue,
       loopVars, Busy, CallerType, CommandTypes, DriverType, InCommands, NetInv,
       TypeOK, NothingBeforeAcceptance
  <1>2. SubmittedStage' /\ PreparingStage'
    BY DEF CancelCompletes, Yields, Complete, callerVars, queue, loopVars, Busy,
       Submitted, InQueue, Ready, InCommands, OnlyOne, Preparing, Scheduling, NetInv,
       SubmittedStage, PreparingStage
  <1>3. QueuedStage' /\ ActiveStage' /\ CancelingStage' /\ UnfinishedHasNoResult'
    BY DEF CancelCompletes, Yields, Complete, loopVars, Busy, InQueue, queue,
       InCommands, callerVars, CommandTypes, Submitted, Ready, Preparing, Scheduling,
       Accepted, Up, OnlyOne, NetInv, Subjects, NothingBeforeAcceptance, OffIsEmpty,
       SubmittedStage, PreparingStage, QueuedStage, ActiveStage, CancelingStage,
       UnfinishedHasNoResult
  <1>4. NothingForgotten' /\ CanceledIsStopped'
    BY DEF CancelCompletes, Yields, Complete, callerVars, queue, loopVars, Busy,
       Accepted, Scheduling, InHand, InQueue, InCommands, Preparing, Ready, Up,
       OnlyOne, NetInv, Subjects, PreparingStage, QueuedStage, ActiveStage,
       CancelingStage, UnfinishedHasNoResult, NothingForgotten, CanceledIsStopped
  <1>5. Subjects' /\ OffIsEmpty' /\ CommandsAreSeen' /\ Counted' /\ AdmissionExact'
    BY DEF CancelCompletes, callerVars, queue, loopVars, Accepted, CallerAt,
       Scheduling, Up, NetInv, Subjects, OffIsEmpty, CommandsAreSeen, Counted,
       AdmissionExact
  <1>6. QED
    BY <1>1, <1>2, <1>3, <1>4, <1>5 DEF NetInv

--------------------------------------------------------------------------------
(* The invariant holds. *)

\* Nothing has been submitted.
LEMMA InitHasInv == Init => NetInv
  <1> SUFFICES ASSUME Init
               PROVE  NetInv
    OBVIOUS
  <1>1. TypeOK
    <2>1. caller \in CallerType /\ driver \in DriverType
      BY DEF Init, Idle, CallerType, DriverType
    <2>2. /\ commands \in Seq([type : CommandTypes, op : Op \cup {NoOp}])
          /\ pending \in Seq(Op)
      BY EmptySeq DEF Init
    <2>3. count \in [admitted : Nat, queued : Nat, active : Nat]
      BY DEF Init
    <2>4. QED
      BY <2>1, <2>2, <2>3 DEF Init, TypeOK
  <1>2. \A o, types : ~InCommands(o, types)
    BY DEF Init, InCommands
  <1>3. \A o : ~InQueue(o)
    BY DEF Init, InQueue
  <1>4. Subjects /\ NothingBeforeAcceptance /\ OffIsEmpty
    BY <1>2, ConstantFacts DEF Init, Idle, Subjects, NothingBeforeAcceptance, OffIsEmpty,
       CallerAt, Accepted
  <1>5. SubmittedStage /\ PreparingStage
    BY <1>2, <1>3 DEF Init, Idle, SubmittedStage, Submitted, PreparingStage, Preparing
  <1>6. QueuedStage /\ ActiveStage /\ CancelingStage
    BY <1>2, <1>3 DEF Init, QueuedStage, ActiveStage, CancelingStage
  <1>7. UnfinishedHasNoResult /\ CommandsAreSeen /\ NothingForgotten /\ CanceledIsStopped
    BY DEF Init, UnfinishedHasNoResult, CommandsAreSeen, NothingForgotten, Accepted,
       CanceledIsStopped
  <1>8. Counted /\ AdmissionExact
    <2>1. Cardinality({}) = 0 /\ IsFiniteSet({})
      BY FS_EmptySet
    <2>2. QED
      BY <2>1, ConstantFacts DEF Init, Idle, Counted, AdmissionExact, CallerAt
  <1>9. QED
    BY <1>1, <1>4, <1>5, <1>6, <1>7, <1>8 DEF NetInv

\* Every step of either thread, and of every task, keeps the invariant.
LEMMA StepKeepsInv == NetInv /\ [Next]_vars => NetInv'
  <1> SUFFICES ASSUME NetInv, [Next]_vars
               PROVE  NetInv'
    OBVIOUS
  <1>1. SubmitAdmit \/ SubmitRegister \/ Shutdown \/ Enqueuing \/ Join => NetInv'
    BY SubmitAdmitKeepsInv, SubmitRegisterKeepsInv, ShutdownKeepsInv, PushKeepsInv,
       WakeKeepsInv, JoinKeepsInv DEF Enqueuing
  <1>2. Loop => NetInv'
    <2>1. HandleSubmit \/ HandlePrepared \/ HandleUnprepared \/ HandleFinished => NetInv'
      BY HandleSubmitKeepsInv, HandlePreparedKeepsInv, HandleUnpreparedKeepsInv,
         HandleFinishedKeepsInv
    <2>2. Resume \/ HandleCancel \/ CancelOperation \/ HandleExpired \/ HandleShutdown
              => NetInv'
      BY ResumeKeepsInv, HandleCancelKeepsInv, CancelOperationKeepsInv,
         HandleExpiredKeepsInv, HandleShutdownKeepsInv
    <2>3. Settle \/ Fill \/ Park \/ WakeUp \/ FailAll \/ Exit => NetInv'
      BY SettleKeepsInv, FillKeepsInv, ParkKeepsInv, WakeUpKeepsInv, FailAllKeepsInv,
         ExitKeepsInv
    <2>4. DrainPending \/ DrainComplete \/ DrainEnd => NetInv'
      BY DrainPendingKeepsInv, DrainCompleteKeepsInv, DrainEndKeepsInv
    <2>5. (\E o \in Op : DrainPreparing(o) \/ DrainActive(o)) => NetInv'
      BY DrainPreparingKeepsInv, DrainActiveKeepsInv
    <2>6. QED
      BY <2>1, <2>2, <2>3, <2>4, <2>5 DEF Loop
  <1>3. WaitFails => NetInv'
    BY WaitFailsKeepsInv
  <1>4. ASSUME NEW o \in Op
        PROVE  SubmitCheck(o) \/ CancelCheck(o) \/ Receive(o) \/ Retire(o) => NetInv'
    BY SubmitCheckKeepsInv, CancelCheckKeepsInv, ReceiveKeepsInv, RetireKeepsInv
  <1>5. ASSUME NEW o \in Op
        PROVE  PreflightEnds(o) \/ TransportEnds(o) \/ DeadlineEnds(o) => NetInv'
    BY PreflightEndsKeepsInv, TransportEndsKeepsInv, DeadlineEndsKeepsInv
  <1>6. ASSUME NEW o \in Op
        PROVE  Canceling(o) => NetInv'
    BY CancelPreflightKeepsInv, CancelTransportKeepsInv, CleanupEndsKeepsInv,
       CancelCompletesKeepsInv DEF Canceling
  <1>7. CASE UNCHANGED vars
    <2>1. UNCHANGED <<caller, life, received, asked, state, commands, wake, count, terminals,
                      result, driver, pending, preparing, active, deadlines, preflight,
                      transport, canceling>>
      BY <1>7 DEF vars
    <2>2. /\ TypeOK' /\ Subjects' /\ NothingBeforeAcceptance' /\ OffIsEmpty'
          /\ SubmittedStage' /\ PreparingStage'
      BY <2>1 DEF NetInv, TypeOK, Subjects, NothingBeforeAcceptance, OffIsEmpty, Accepted,
         SubmittedStage, Submitted, PreparingStage, Preparing, InCommands, OnlyOne, InQueue,
         Scheduling
    <2>3. /\ QueuedStage' /\ ActiveStage' /\ CancelingStage' /\ UnfinishedHasNoResult'
          /\ CommandsAreSeen' /\ Counted'
      BY <2>1 DEF NetInv, QueuedStage, ActiveStage, CancelingStage, UnfinishedHasNoResult, Up,
         CommandsAreSeen, Counted, InCommands, InQueue, Scheduling, CallerAt
    <2>4. AdmissionExact' /\ NothingForgotten' /\ CanceledIsStopped'
      BY <2>1 DEF NetInv, AdmissionExact, NothingForgotten, CanceledIsStopped, InHand,
         InCommands, InQueue, Accepted, Scheduling, CallerAt
    <2>5. QED
      BY <2>2, <2>3, <2>4 DEF NetInv
  <1>8. QED
    BY <1>1, <1>2, <1>3, <1>4, <1>5, <1>6, <1>7 DEF Next

(***************************************************************************)
(* The invariant, for any number of operations and permits.                *)
(***************************************************************************)
THEOREM Invariance == Spec => []NetInv
  BY InitHasInv, StepKeepsInv, PTL DEF Spec

(***************************************************************************)
(* Every variable has its type: no counter is ever taken below zero.       *)
(***************************************************************************)
THEOREM TypeCorrect == Spec => []TypeOK
  <1>1. NetInv => TypeOK
    BY DEF NetInv
  <1>2. QED
    BY <1>1, Invariance, PTL

(***************************************************************************)
(* No submission, refusal, completion or failure leaks an admission slot   *)
(* or gives one back twice.                                                *)
(***************************************************************************)
THEOREM AdmissionSafety == Spec => []AdmissionExact
  <1>1. NetInv => AdmissionExact
    BY DEF NetInv
  <1>2. QED
    BY <1>1, Invariance, PTL

(***************************************************************************)
(* While the driver schedules, the counters of the snapshot are the sizes  *)
(* of its collections, and no more transports are active than permitted.   *)
(***************************************************************************)
THEOREM CountersSafety == Spec => []CountersExact
  <1>1. NetInv => CountersExact
    BY DEF NetInv, Counted, CountersExact, Up, Scheduling
  <1>2. QED
    BY <1>1, Invariance, PTL

(***************************************************************************)
(* An accepted operation without a result is registered and in hand.       *)
(***************************************************************************)
THEOREM NothingForgottenSafety == Spec => []NothingForgotten
  <1>1. NetInv => NothingForgotten
    BY DEF NetInv
  <1>2. QED
    BY <1>1, Invariance, PTL

(***************************************************************************)
(* The driver does not sleep on a command.                                 *)
(***************************************************************************)
THEOREM WakeUpSafety == Spec => []NoLostWakeUp
  <1>1. NetInv => NoLostWakeUp
    BY DEF NetInv, CommandsAreSeen, NoLostWakeUp, DriverAt
  <1>2. QED
    BY <1>1, Invariance, PTL

(***************************************************************************)
(* What is reported as canceled has no transport that runs.                *)
(***************************************************************************)
THEOREM CanceledSafety == Spec => []CanceledIsStopped
  <1>1. NetInv => CanceledIsStopped
    BY DEF NetInv
  <1>2. QED
    BY <1>1, Invariance, PTL

--------------------------------------------------------------------------------
(* What a step may do to a transport, and to what the evaluator sees. *)

\* Only Fill starts a transport.
LEMMA OnlyFillStarts ==
    ASSUME NetInv, Next, ~Fill, NEW p \in Op, transport[p] = "none"
    PROVE  transport'[p] # "running"
  <1>0. transport \in [Op -> {"none", "running", "ended", "dropped"}]
    BY DEF NetInv, TypeOK
  <1>1. ASSUME SubmitAdmit \/ SubmitRegister \/ Shutdown \/ Enqueuing \/ Join
        PROVE  transport' = transport
    BY <1>1 DEF SubmitAdmit, SubmitRegister, Shutdown, Enqueuing, Push, Wake, Join, tasks
  <1>2. ASSUME Loop
        PROVE  transport'[p] # "running"
    <2>1. ASSUME HandleSubmit \/ HandlePrepared \/ HandleUnprepared \/ HandleFinished
          PROVE  transport' = transport
      BY <2>1 DEF HandleSubmit, HandlePrepared, HandleUnprepared, HandleFinished, tasks
    <2>2. ASSUME Resume \/ HandleCancel \/ CancelOperation \/ HandleExpired \/ HandleShutdown
          PROVE  transport' = transport
      BY <2>2 DEF Resume, HandleCancel, CancelOperation, HandleExpired, HandleShutdown, tasks
    <2>3. ASSUME Settle \/ Park \/ WakeUp \/ FailAll \/ Exit
          PROVE  transport' = transport
      BY <2>3 DEF Settle, Park, WakeUp, FailAll, Exit, tasks
    <2>4. ASSUME DrainPending \/ DrainComplete \/ DrainEnd
          PROVE  transport' = transport
      BY <2>4 DEF DrainPending, DrainComplete, DrainEnd, tasks
    <2>5. ASSUME NEW o \in Op, DrainPreparing(o) \/ DrainActive(o)
          PROVE  transport'[p] # "running"
      BY <1>0, <2>5 DEF DrainPreparing, DrainActive, Dropped
    <2>6. QED
      BY <1>2, <2>1, <2>2, <2>3, <2>4, <2>5 DEF Loop
  <1>3. ASSUME WaitFails
        PROVE  transport' = transport
    BY <1>3 DEF WaitFails, tasks
  <1>4. ASSUME NEW o \in Op, SubmitCheck(o) \/ CancelCheck(o) \/ Receive(o) \/ Retire(o)
        PROVE  transport' = transport
    BY <1>4 DEF SubmitCheck, CancelCheck, Receive, Retire, tasks
  <1>5. ASSUME NEW o \in Op, PreflightEnds(o) \/ TransportEnds(o) \/ DeadlineEnds(o)
        PROVE  transport'[p] # "running"
    BY <1>0, <1>5 DEF PreflightEnds, TransportEnds, DeadlineEnds, tasks
  <1>6. ASSUME NEW o \in Op, Canceling(o)
        PROVE  transport'[p] # "running"
    BY <1>0, <1>6 DEF Canceling, CancelPreflight, CancelTransport, CleanupEnds,
       CancelCompletes, Dropped
  <1>7. QED
    BY <1>1, <1>2, <1>3, <1>4, <1>5, <1>6 DEF Next

(***************************************************************************)
(* A transport never starts for an operation that already has its result:  *)
(* only Fill starts one, for the first of the queue, which has none.       *)
(***************************************************************************)
THEOREM StartSafety == Spec => NoStartAfterResult
  <1>1. ASSUME NetInv, [Next]_vars,
               NEW p \in Op, transport[p] = "none", transport'[p] = "running"
        PROVE  result[p] = "none"
    <2>1. CASE Fill
      <3>1. /\ pending \in Seq(Op) /\ pending # <<>> /\ Up
            /\ transport' = [transport EXCEPT ![Head(pending)] = "running"]
            /\ transport \in [Op -> {"none", "running", "ended", "dropped"}]
        <4>1. /\ pending \in Seq(Op)
              /\ transport \in [Op -> {"none", "running", "ended", "dropped"}]
          BY <1>1 DEF NetInv, TypeOK
        <4>2. driver.at = "fill" /\ pending # <<>>
          BY <2>1 DEF Fill, Permitted, DriverAt
        <4>3. transport' = [transport EXCEPT ![Head(pending)] = "running"]
          BY <2>1 DEF Fill, StartTransport
        <4>4. QED
          BY <4>1, <4>2, <4>3 DEF Up
      <3>2. p = Head(pending)
        BY <1>1, <3>1
      <3>3. InQueue(p)
        <4>1. 1 \in DOMAIN pending /\ pending[1] = p
          BY <3>1, <3>2
        <4>2. QED
          BY <4>1 DEF InQueue
      <3>4. QED
        BY <1>1, <3>1, <3>3 DEF NetInv, UnfinishedHasNoResult
    <2>2. CASE ~Fill /\ Next
      BY <1>1, <2>2, OnlyFillStarts
    <2>3. CASE UNCHANGED vars
      BY <1>1, <2>3 DEF vars
    <2>4. QED
      BY <1>1, <2>1, <2>2, <2>3
  <1>2. NetInv /\ [Next]_vars
            => [\A o \in Op : transport[o] = "none" /\ transport'[o] = "running"
                                  => result[o] = "none"]_vars
    BY <1>1
  <1>3. QED
    BY <1>2, Invariance, PTL DEF Spec, NoStartAfterResult

Results == {"response", "error", "timeout", "canceled", "failed"}

\* Some of the accepted operations are completed, with the same result.
Completes(done, r) ==
    /\ done \subseteq Accepted /\ r \in Results
    /\ Complete(done, r)
    /\ UNCHANGED <<life, received>>

Completing == \E done, r : Completes(done, r)

Unseen == UNCHANGED <<life, received, result>>

\* The evaluator's steps that refuse or accept an operation.
Answers(o) ==
    /\ life[o] = "new"
    /\ \E answer \in {"refused", "accepted"} : life' = [life EXCEPT ![o] = answer]
    /\ UNCHANGED <<received, result>>

\* Whoever completes an operation, completes one that was accepted.
LEMMA CompleteFacts ==
    ASSUME NetInv
    PROVE  /\ terminals \subseteq Accepted
           /\ \A o \in Op : o \in preparing \/ InQueue(o) \/ transport[o] # "none"
                              \/ canceling[o] # "none" \/ driver.op = o
                              \/ InCommands(o, CommandTypes) => o \in Accepted
  BY DEF NetInv, TypeOK, NothingBeforeAcceptance, SubmittedStage, Submitted, Accepted

\* A step completes accepted operations, answers one, or delivers a result.
LEMMA SeenSteps ==
    ASSUME NetInv, Next
    PROVE  \/ Unseen
           \/ Completing
           \/ \E o \in Op : Answers(o) \/ Receive(o)
  <1>0. /\ terminals \subseteq Accepted
        /\ \A o \in Op : o \in preparing \/ InQueue(o) \/ transport[o] # "none"
                              \/ canceling[o] # "none" \/ driver.op = o
                              \/ InCommands(o, CommandTypes) => o \in Accepted
    BY CompleteFacts
  <1>1. ASSUME NEW type, Pop(type), type \in CommandTypes, type # "Shutdown"
        PROVE  Head(commands).op \in Accepted
    <2>1. PICK x : x = Head(commands).op /\ Popped(type, x)
      BY <1>1, PopFacts DEF NetInv
    <2>2. x \in Op /\ InCommands(x, CommandTypes)
      BY <1>1, <2>1 DEF Popped, NetInv, Subjects
    <2>3. QED
      BY <1>0, <2>1, <2>2
  <1>2. ASSUME SubmitAdmit \/ SubmitRegister
        PROVE  Unseen \/ (caller.op \in Op /\ Answers(caller.op))
    <2>1. caller.op \in Op /\ life[caller.op] = "new"
      BY <1>2 DEF SubmitAdmit, SubmitRegister, CallerAt, NetInv, Subjects
    <2>2. QED
      BY <1>2, <2>1 DEF SubmitAdmit, SubmitRegister, Unseen, Answers
  <1>3. ASSUME Shutdown \/ Enqueuing \/ Join
        PROVE  Unseen \/ Completing
    <2>1. CASE Shutdown \/ Push
      BY <2>1 DEF Shutdown, Push, Unseen
    <2>2. CASE Wake
      BY <1>0, <2>2 DEF Wake, Unseen, Completing, Completes, Results
    <2>3. CASE Join
      BY <1>0, <2>3 DEF Join, Completing, Completes, Results
    <2>4. QED
      BY <1>3, <2>1, <2>2, <2>3 DEF Enqueuing
  <1>4. ASSUME HandleSubmit \/ HandlePrepared \/ HandleFinished \/ Resume \/ HandleCancel
                   \/ HandleShutdown
        PROVE  Unseen
    BY <1>4 DEF HandleSubmit, HandlePrepared, HandleFinished, Resume, HandleCancel,
       HandleShutdown, callerVars, Unseen
  <1>5. ASSUME HandleUnprepared
        PROVE  Unseen \/ Completing
    <2>1. Head(commands).op \in Accepted
      BY <1>1, <1>5 DEF HandleUnprepared, CommandTypes
    <2>2. Unseen \/ Completes({Head(commands).op}, "error")
      BY <1>5, <2>1 DEF HandleUnprepared, callerVars, Completes, Results, Unseen
    <2>3. QED
      BY <2>2 DEF Completing
  <1>6. ASSUME CancelOperation
        PROVE  Unseen \/ Completing
    <2>1. driver.op \in Accepted
      BY <1>0, <1>6 DEF CancelOperation, DriverAt, NetInv, Subjects
    <2>2. Unseen \/ Completes({driver.op}, "canceled")
      BY <1>6, <2>1 DEF CancelOperation, Withdraw, callerVars, Completes, Results, Unseen
    <2>3. QED
      BY <2>2 DEF Completing
  <1>7. ASSUME HandleExpired
        PROVE  Unseen \/ Completing
    <2>1. Head(commands).op \in Accepted
      BY <1>1, <1>7 DEF HandleExpired, CommandTypes
    <2>2. Unseen \/ Completes({Head(commands).op}, "timeout")
      BY <1>7, <2>1 DEF HandleExpired, Withdraw, callerVars, Completes, Results, Unseen
    <2>3. QED
      BY <2>2 DEF Completing
  <1>8. ASSUME Settle \/ Fill \/ Park \/ WakeUp \/ WaitFails \/ Exit \/ DrainEnd
        PROVE  Unseen
    BY <1>8 DEF Settle, Fill, Park, WakeUp, WaitFails, Exit, DrainEnd, callerVars, Unseen
  <1>9. ASSUME FailAll \/ DrainPending \/ DrainComplete
        PROVE  Completing
    <2>1. CASE FailAll
      BY <1>0, <2>1 DEF FailAll, callerVars, Completing, Completes, Results
    <2>2. CASE DrainPending
      <3>1. {pending[i] : i \in DOMAIN pending} \subseteq Accepted
        BY <1>0 DEF InQueue, NetInv, TypeOK
      <3>2. QED
        BY <2>2, <3>1 DEF DrainPending, callerVars, Completing, Completes, Results
    <2>3. CASE DrainComplete
      <3>1. driver.op \in Accepted
        BY <1>0, <2>3 DEF DrainComplete, DriverAt, NetInv, Subjects
      <3>2. QED
        BY <2>3, <3>1 DEF DrainComplete, callerVars, Completing, Completes, Results
    <2>4. QED
      BY <1>9, <2>1, <2>2, <2>3
  <1>10. ASSUME NEW o \in Op, DrainPreparing(o) \/ DrainActive(o)
         PROVE  Unseen
    BY <1>10 DEF DrainPreparing, DrainActive, callerVars, Unseen
  <1>11. ASSUME NEW o \in Op, SubmitCheck(o) \/ CancelCheck(o) \/ Retire(o)
         PROVE  Unseen \/ Answers(o)
    BY <1>11 DEF SubmitCheck, CancelCheck, Retire, callerVars, Unseen, Answers
  <1>12. ASSUME NEW o \in Op, PreflightEnds(o) \/ TransportEnds(o) \/ DeadlineEnds(o)
         PROVE  Unseen \/ Completing
    <2>1. CASE TransportEnds(o)
      <3>1. {o} \subseteq Accepted
        BY <1>0, <2>1 DEF TransportEnds
      <3>2. \E r \in {"response", "error"} : Completes({o}, r)
        BY <2>1, <3>1 DEF TransportEnds, callerVars, Completes, Results
      <3>3. QED
        BY <3>2 DEF Completing
    <2>2. CASE PreflightEnds(o) \/ DeadlineEnds(o)
      BY <2>2 DEF PreflightEnds, DeadlineEnds, callerVars, Unseen
    <2>3. QED
      BY <1>12, <2>1, <2>2
  <1>13. ASSUME NEW o \in Op, Canceling(o)
         PROVE  Unseen \/ Completing
    <2>1. CASE CancelCompletes(o)
      <3>1. {o} \subseteq Accepted
        BY <1>0, <2>1 DEF CancelCompletes
      <3>2. Completes({o}, "canceled")
        BY <2>1, <3>1 DEF CancelCompletes, callerVars, Completes, Results
      <3>3. QED
        BY <3>2 DEF Completing
    <2>2. CASE CancelPreflight(o) \/ CancelTransport(o) \/ CleanupEnds(o)
      BY <2>2 DEF CancelPreflight, CancelTransport, CleanupEnds, callerVars, Unseen
    <2>3. QED
      BY <1>13, <2>1, <2>2 DEF Canceling
  <1>14. Loop => Unseen \/ Completing
    BY <1>4, <1>5, <1>6, <1>7, <1>8, <1>9, <1>10 DEF Loop
  <1>15. QED
    BY <1>2, <1>3, <1>8, <1>11, <1>12, <1>13, <1>14 DEF Next

\* What the evaluator sees of an operation.
Outcome == [o \in Op |-> IF result[o] # "none" THEN result[o] ELSE life[o]]

\* An operation that is not accepted yet has no result, and an accepted one is not "new".
LEMMA OutcomeFacts ==
    ASSUME NetInv
    PROVE  /\ \A o \in Op : life[o] = "new" => Outcome[o] = "new"
           /\ \A o \in Op : result[o] # "none" => Outcome[o] \in Results
           /\ \A o \in Accepted : result[o] = "none" => Outcome[o] = "accepted"
  BY DEF NetInv, TypeOK, NothingBeforeAcceptance, Accepted, Outcome, Results

\* Every step is one of the promise, or changes nothing that it speaks of.
LEMMA StepKeepsPromise ==
    ASSUME NetInv, NetInv', [Next]_vars
    PROVE  [Promise!CNext]_(Promise!cVars)
  <1>1. CASE Unseen \/ UNCHANGED vars
    BY <1>1 DEF Unseen, vars, Promise!cVars
  <1>2. CASE Completing
    <2>1. PICK done, r : Completes(done, r)
      BY <1>2 DEF Completing
    <2> DEFINE first == {o \in done : result[o] = "none"}
    <2>2. Outcome' = [o \in Op |-> IF o \in first THEN r ELSE Outcome[o]]
      BY <2>1 DEF Completes, Complete, Outcome, Results, Accepted
    <2>3. first \in SUBSET {o \in Op : Outcome[o] = "accepted"}
      BY <2>1, OutcomeFacts DEF Completes, Accepted
    <2>4. Promise!Resolve
      BY <2>1, <2>2, <2>3 DEF Promise!Resolve, Promise!Results, Outcome, Completes, Results
    <2>5. QED
      BY <2>4 DEF Promise!CNext
  <1>3. ASSUME NEW o \in Op, Answers(o)
        PROVE  Promise!Refuse(o) \/ Promise!Accept(o)
    <2>1. /\ result[o] = "none" /\ Outcome[o] = "new"
          /\ life \in [Op -> {"new", "refused", "accepted"}]
      BY <1>3, OutcomeFacts DEF Answers, NetInv, TypeOK, NothingBeforeAcceptance
    <2>2. PICK answer \in {"refused", "accepted"} : life' = [life EXCEPT ![o] = answer]
      BY <1>3 DEF Answers
    <2>3. Outcome' = [Outcome EXCEPT ![o] = answer]
      BY <1>3, <2>1, <2>2 DEF Answers, Outcome
    <2>4. QED
      BY <1>3, <2>1, <2>2, <2>3 DEF Answers, Outcome, Promise!Refuse, Promise!Accept
  <1>4. ASSUME NEW o \in Op, Receive(o)
        PROVE  Promise!Deliver(o)
    <2>1. Outcome[o] \in Results /\ Outcome' = Outcome
      BY <1>4, OutcomeFacts DEF Receive, Outcome
    <2>2. QED
      BY <1>4, <2>1 DEF Receive, Outcome, Results, Promise!Deliver, Promise!Results
  <1>5. QED
    BY <1>1, <1>2, <1>3, <1>4, SeenSteps DEF Promise!CNext

(***************************************************************************)
(* The runtime keeps its promise: a submission is refused or accepted, and *)
(* an accepted operation gets one result that never changes, whichever of  *)
(* transport, deadline, cancellation, shutdown and failure comes first.    *)
(***************************************************************************)
THEOREM RuntimeImplementsCompletion == Spec => KeepsPromise
  <1>1. Init => Promise!CInit
    BY DEF Init, Promise!CInit
  <1>2. NetInv /\ NetInv' /\ [Next]_vars => [Promise!CNext]_(Promise!cVars)
    BY StepKeepsPromise
  <1>3. QED
    BY <1>1, <1>2, Invariance, PTL DEF Spec, KeepsPromise, Promise!CSpec

\* What the promise means for one operation: a result stands, only an accepted
\* operation gets one, and it is received once, after it is there.
ResultStands ==
    [][\A o \in Op :
          /\ result[o] # "none" => result'[o] = result[o]
          /\ result'[o] # result[o] => life[o] = "accepted"
          /\ o \in received' \ received => result[o] # "none"
          /\ o \in received => o \in received']_vars

(***************************************************************************)
(* The first result counts (TerminalCompletion::complete): a late answer,  *)
(* a deadline or a shutdown that comes after it changes nothing, and       *)
(* NetOperation::try_receive never hands out anything else.  It follows    *)
(* from the steps that NetCompletion allows and the types of the runtime.  *)
(***************************************************************************)
THEOREM FirstResultCounts == Spec => ResultStands
  <1>1. ASSUME NetInv, NetInv', [Next]_vars, NEW o \in Op
        PROVE  /\ result[o] # "none" => result'[o] = result[o]
               /\ result'[o] # result[o] => life[o] = "accepted"
               /\ o \in received' \ received => result[o] # "none"
               /\ o \in received => o \in received'
    <2>1. [Promise!CNext]_(Promise!cVars)
      BY <1>1, StepKeepsPromise
    <2>2. /\ result[o] \in Results \cup {"none"} /\ result'[o] \in Results \cup {"none"}
          /\ life[o] \in {"new", "refused", "accepted"}
          /\ life'[o] \in {"new", "refused", "accepted"}
          /\ result[o] # "none" => life[o] = "accepted"
      BY <1>1 DEF NetInv, TypeOK, Results, NothingBeforeAcceptance, Accepted
    <2>3. /\ Outcome[o] = IF result[o] # "none" THEN result[o] ELSE life[o]
          /\ Outcome'[o] = IF result'[o] # "none" THEN result'[o] ELSE life'[o]
      BY DEF Outcome
    <2>4. /\ Outcome[o] \in Results => Outcome'[o] = Outcome[o]
          /\ Outcome'[o] \in Results => Outcome[o] \in Results \cup {"accepted"}
          /\ o \in received' \ received => Outcome[o] \in Results
          /\ o \in received => o \in received'
      <3>1. CASE UNCHANGED <<Outcome, received>>
        BY <3>1 DEF Results
      <3>2. CASE Promise!Resolve
        BY <3>2 DEF Promise!Resolve, Promise!Results, Outcome, Results
      <3>3. ASSUME NEW x \in Op, Promise!Refuse(x) \/ Promise!Accept(x)
            PROVE  <2>4!1 /\ <2>4!2 /\ <2>4!3 /\ <2>4!4
        BY <3>3 DEF Promise!Refuse, Promise!Accept, Outcome, Results
      <3>4. ASSUME NEW x \in Op, Promise!Deliver(x)
            PROVE  <2>4!1 /\ <2>4!2 /\ <2>4!3 /\ <2>4!4
        BY <3>4 DEF Promise!Deliver, Promise!Results, Outcome, Results
      <3>5. QED
        BY <2>1, <3>1, <3>2, <3>3, <3>4 DEF Promise!CNext, Promise!cVars, Outcome
    <2>5. QED
      BY <2>2, <2>3, <2>4 DEF Results
  <1>2. NetInv /\ NetInv' /\ [Next]_vars => [\A o \in Op :
          /\ result[o] # "none" => result'[o] = result[o]
          /\ result'[o] # result[o] => life[o] = "accepted"
          /\ o \in received' \ received => result[o] # "none"
          /\ o \in received => o \in received']_vars
    BY <1>1
  <1>3. QED
    BY <1>2, Invariance, PTL DEF Spec, ResultStands

================================================================================
