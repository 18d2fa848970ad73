--------------------------- MODULE DownloadProofs ---------------------------
(***************************************************************************)
(* Proofs about Download, for every number of parts of a body, of workers    *)
(* and of places in the file lane's queue, and for every set of downloads.   *)
(*                                                                         *)
(* The invariant has two halves.  Base says what every job that is queued or *)
(* runs says of the future that awaits it or has dropped it, and no two jobs *)
(* of one download are awaited together.  It is kept by each action alone    *)
(* (the lemmas ...Step), and Adds says which job an action adds.  Files, on  *)
(* top of it, says what the two paths hold while nobody but the downloads    *)
(* themselves wrote there (the lemmas ...Files).  Of Files follow the three  *)
(* safety properties of the runs.                                          *)
(***************************************************************************)
EXTENDS Download, SequenceTheorems, TLAPS

-----------------------------------------------------------------------------
(* The jobs of the lane *)

\* The places of a worker.
At == {"idle", "prepare", "create", "append", "remove", "exists", "unlink", "rename",
  "undo"}
\* What a worker holds.
WorkerState == [job : Jobs, at : At]
\* The jobs a download queues on its way; the fifth is the removal of its output.
Main == {"prepare", "create", "append", "finalize"}
\* The places inside finalize_atomic_download.
Finalize == {"exists", "unlink", "rename", "undo"}

\* The workers that run a job.
Busy(ws) == {w \in Workers : ws[w].at # "idle"}
\* The jobs that are queued or run.
JobsOf(l, ws) == {l[i] : i \in DOMAIN l} \cup {ws[w].job : w \in Busy(ws)}

\* A job is one that a download queues.
Fits(job) == job.op \in Downloads /\ job.kind \in Main \cup {"remove"}

\* Two jobs that cannot be in the lane together: both on the way of one download, or
\* both awaited by one future.
Clash(j, k) ==
    /\ j.op = k.op
    /\ (j.kind \in Main /\ k.kind \in Main) \/ (j.live /\ k.live)

\* The queue and the workers hold typed jobs, each worker makes a call of its job,
\* and no two jobs clash.
LaneOK(l, ws) ==
    /\ l \in Seq(Jobs)
    /\ ws \in [Workers -> WorkerState]
    /\ \A j \in JobsOf(l, ws) : Fits(j)
    /\ \A w \in Busy(ws) :
          ws[w].job.kind = IF ws[w].at \in Finalize THEN "finalize" ELSE ws[w].at
    /\ \A i, k \in DOMAIN l : i # k => ~Clash(l[i], l[k])
    /\ \A i \in DOMAIN l, w \in Busy(ws) : ~Clash(l[i], ws[w].job)
    /\ \A v, w \in Busy(ws) : v # w => ~Clash(ws[v].job, ws[w].job)

\* Clash is symmetric.
LEMMA ClashSym == \A j, k : Clash(j, k) => Clash(k, j)
  BY DEF Clash

\* What a download queues is a job.
LEMMA JobTyped ==
    ASSUME NEW o \in Downloads, NEW kind \in Main \cup {"remove"}, NEW part \in 0..Parts
    PROVE  Job(o, kind, part) \in Jobs /\ Fits(Job(o, kind, part))
  BY DEF Job, Jobs, Fits, Main

\* What an idle worker holds has its type.
LEMMA IdleTyped == Idle \in WorkerState
  BY DownloadAssumption DEF Idle, Job, WorkerState, Jobs, At

\* A worker takes the head of the queue: the jobs are the same ones.
LEMMA TakeKeeps ==
    ASSUME NEW l, NEW ws, LaneOK(l, ws), l # <<>>, NEW w \in Workers, ws[w].at = "idle"
    PROVE  LET ws2 == [ws EXCEPT ![w] = [job |-> Head(l), at |-> FirstCall(Head(l).kind)]]
           IN  LaneOK(Tail(l), ws2) /\ JobsOf(Tail(l), ws2) = JobsOf(l, ws)
  <1> DEFINE ws2 == [ws EXCEPT ![w] = [job |-> Head(l), at |-> FirstCall(Head(l).kind)]]
             n == Len(l)
  <1>1. l \in Seq(Jobs) /\ ws \in [Workers -> WorkerState]
    BY DEF LaneOK
  <1>2. /\ n \in Nat \ {0} /\ DOMAIN l = 1..n /\ Head(l) = l[1] /\ l[1] \in Jobs
        /\ DOMAIN Tail(l) = 1..(n - 1) /\ Tail(l) \in Seq(Jobs)
        /\ \A i \in 1..(n - 1) : Tail(l)[i] = l[i + 1]
    BY <1>1
  <1>3. Fits(l[1])
    BY <1>2 DEF LaneOK, JobsOf
  <1>4. /\ FirstCall(l[1].kind) \in At \ {"idle"}
        /\ l[1].kind = IF FirstCall(l[1].kind) \in Finalize THEN "finalize"
           ELSE FirstCall(l[1].kind)
    BY <1>3 DEF Fits, FirstCall, Finalize, At, Main
  <1>5. ws2 \in [Workers -> WorkerState]
    BY <1>1, <1>2, <1>4 DEF WorkerState
  <1>6. Busy(ws2) = Busy(ws) \cup {w} /\ w \notin Busy(ws)
    BY <1>1, <1>2, <1>4 DEF Busy
  <1>7. /\ ws2[w].job = l[1] /\ ws2[w].at = FirstCall(l[1].kind)
        /\ \A v \in Workers \ {w} : ws2[v] = ws[v]
    BY <1>1, <1>2
  <1> HIDE DEF ws2, n
  <1>8. JobsOf(Tail(l), ws2) = JobsOf(l, ws)
    <2>1. {l[i] : i \in DOMAIN l} = {Tail(l)[i] : i \in DOMAIN Tail(l)} \cup {l[1]}
      <3>1. \A i \in 1..n : i = 1 \/ (i - 1 \in 1..(n - 1) /\ l[i] = Tail(l)[i - 1])
        BY <1>2
      <3>2. \A i \in 1..(n - 1) : i + 1 \in 1..n
        BY <1>2
      <3>3. QED
        BY <1>2, <3>1, <3>2
    <2>2. {ws2[v].job : v \in Busy(ws2)} = {ws[v].job : v \in Busy(ws)} \cup {l[1]}
      BY <1>6, <1>7 DEF Busy
    <2>3. QED
      BY <2>1, <2>2 DEF JobsOf
  <1>9. LaneOK(Tail(l), ws2)
    <2>1. \A j \in JobsOf(Tail(l), ws2) : Fits(j)
      BY <1>8 DEF LaneOK
    <2>2. \A v \in Busy(ws2) :
          ws2[v].job.kind = IF ws2[v].at \in Finalize THEN "finalize" ELSE ws2[v].at
      BY <1>4, <1>6, <1>7 DEF LaneOK, Busy
    <2>3. \A i, k \in DOMAIN Tail(l) : i # k => ~Clash(Tail(l)[i], Tail(l)[k])
      BY <1>2 DEF LaneOK
    <2>4. \A i \in DOMAIN Tail(l), v \in Busy(ws2) : ~Clash(Tail(l)[i], ws2[v].job)
      <3> SUFFICES ASSUME NEW i \in DOMAIN Tail(l), NEW v \in Busy(ws2)
                   PROVE  ~Clash(l[i + 1], ws2[v].job)
        BY <1>2
      <3>1. i + 1 \in DOMAIN l /\ 1 \in DOMAIN l /\ i + 1 # 1
        BY <1>2
      <3>2. QED
        BY <1>6, <1>7, <3>1 DEF LaneOK, Busy
    <2>5. \A v, x \in Busy(ws2) : v # x => ~Clash(ws2[v].job, ws2[x].job)
      <3>1. 1 \in DOMAIN l
        BY <1>2
      <3>2. QED
        BY <1>6, <1>7, <3>1, ClashSym DEF LaneOK, Busy
    <2>6. QED
      BY <1>2, <1>5, <2>1, <2>2, <2>3, <2>4, <2>5 DEF LaneOK
  <1>10. QED
    BY <1>8, <1>9 DEF ws2

\* A download queues a job that clashes with none.
LEMMA AwaitKeeps ==
    ASSUME NEW l, NEW ws, LaneOK(l, ws), NEW job \in Jobs, Fits(job),
           \A j \in JobsOf(l, ws) : ~Clash(j, job)
    PROVE  LaneOK(Append(l, job), ws)
           /\ JobsOf(Append(l, job), ws) = JobsOf(l, ws) \cup {job}
  <1> DEFINE n == Len(l)
             m == Append(l, job)
  <1>1. l \in Seq(Jobs)
    BY DEF LaneOK
  <1>2. /\ n \in Nat /\ DOMAIN l = 1..n /\ m \in Seq(Jobs) /\ DOMAIN m = 1..(n + 1)
        /\ m[n + 1] = job /\ \A i \in 1..n : m[i] = l[i]
    BY <1>1
  <1> HIDE DEF n, m
  <1>3. 1..(n + 1) = 1..n \cup {n + 1} /\ n + 1 \notin 1..n
    BY <1>2
  <1>4. JobsOf(m, ws) = JobsOf(l, ws) \cup {job}
    BY <1>2, <1>3 DEF JobsOf
  <1>5. \A i \in DOMAIN l : ~Clash(l[i], job) /\ ~Clash(job, l[i])
    BY ClashSym DEF JobsOf
  <1>6. \A w \in Busy(ws) : ~Clash(ws[w].job, job) /\ ~Clash(job, ws[w].job)
    BY ClashSym DEF JobsOf
  <1>7. LaneOK(m, ws)
    <2>1. \A i, k \in DOMAIN m : i # k => ~Clash(m[i], m[k])
      BY <1>2, <1>3, <1>5 DEF LaneOK
    <2>2. \A i \in DOMAIN m, w \in Busy(ws) : ~Clash(m[i], ws[w].job)
      BY <1>2, <1>3, <1>6 DEF LaneOK
    <2>3. QED
      BY <1>2, <1>4, <2>1, <2>2 DEF LaneOK
  <1>8. QED
    BY <1>4, <1>7 DEF m

\* A worker's job ends: the jobs left are the others, and none clashes with it.
LEMMA AnswerKeeps ==
    ASSUME NEW l, NEW ws, LaneOK(l, ws), NEW w \in Busy(ws)
    PROVE  LET ws2 == [ws EXCEPT ![w] = Idle]
           IN  /\ LaneOK(l, ws2)
               /\ JobsOf(l, ws2) \subseteq JobsOf(l, ws)
               /\ JobsOf(l, ws) \subseteq JobsOf(l, ws2) \cup {ws[w].job}
               /\ \A j \in JobsOf(l, ws2) : ~Clash(j, ws[w].job)
  <1> DEFINE ws2 == [ws EXCEPT ![w] = Idle]
  <1>1. ws \in [Workers -> WorkerState] /\ w \in Workers
    BY DEF LaneOK, Busy
  <1>2. ws2 \in [Workers -> WorkerState]
    BY <1>1, IdleTyped
  <1>3. Busy(ws2) = Busy(ws) \ {w} /\ \A v \in Busy(ws2) : ws2[v] = ws[v]
    BY <1>1 DEF Busy, Idle
  <1> HIDE DEF ws2
  <1>4. /\ JobsOf(l, ws2) \subseteq JobsOf(l, ws)
        /\ JobsOf(l, ws) \subseteq JobsOf(l, ws2) \cup {ws[w].job}
    BY <1>3 DEF JobsOf
  <1>5. \A j \in JobsOf(l, ws2) : ~Clash(j, ws[w].job)
    BY <1>3 DEF JobsOf, LaneOK
  <1>6. LaneOK(l, ws2)
    BY <1>2, <1>3, <1>4 DEF LaneOK
  <1>7. QED
    BY <1>4, <1>5, <1>6 DEF ws2

\* A worker goes on to the next call of a rename.
LEMMA GoOnKeeps ==
    ASSUME NEW l, NEW ws, LaneOK(l, ws), NEW w \in Busy(ws), ws[w].at \in Finalize,
           NEW r \in WorkerState, r.job = ws[w].job, r.at \in Finalize
    PROVE  LET ws2 == [ws EXCEPT ![w] = r]
           IN  LaneOK(l, ws2) /\ JobsOf(l, ws2) = JobsOf(l, ws)
  <1> DEFINE ws2 == [ws EXCEPT ![w] = r]
  <1>1. ws \in [Workers -> WorkerState] /\ w \in Workers
    BY DEF LaneOK, Busy
  <1>2. ws2 \in [Workers -> WorkerState]
    BY <1>1
  <1>3. ws2[w] = r /\ \A v \in Workers \ {w} : ws2[v] = ws[v]
    BY <1>1
  <1> HIDE DEF ws2
  <1>4. Busy(ws2) = Busy(ws) /\ \A v \in Busy(ws) : ws2[v].job = ws[v].job
    BY <1>1, <1>3 DEF Busy, Finalize
  <1>5. JobsOf(l, ws2) = JobsOf(l, ws)
    BY <1>4 DEF JobsOf
  <1>6. \A v \in Busy(ws2) :
          ws2[v].job.kind = IF ws2[v].at \in Finalize THEN "finalize" ELSE ws2[v].at
    BY <1>1, <1>3, <1>4 DEF LaneOK, Busy
  <1>7. \A i \in DOMAIN l, v \in Busy(ws2) : ~Clash(l[i], ws2[v].job)
    BY <1>4 DEF LaneOK
  <1>8. \A v, x \in Busy(ws2) : v # x => ~Clash(ws2[v].job, ws2[x].job)
    BY <1>4 DEF LaneOK
  <1>9. \A j \in JobsOf(l, ws2) : Fits(j)
    BY <1>5 DEF LaneOK
  <1>10. l \in Seq(Jobs) /\ \A i, k \in DOMAIN l : i # k => ~Clash(l[i], l[k])
    BY DEF LaneOK
  <1>11. LaneOK(l, ws2)
    BY <1>2, <1>6, <1>7, <1>8, <1>9, <1>10 DEF LaneOK
  <1>12. QED
    BY <1>5, <1>11 DEF ws2

\* The queue once the futures of the downloads in D are dropped, ...
OrphanedLane(l, D) == [i \in DOMAIN l |-> Orphan(l[i], D)]
\* ... and the workers.
OrphanedWorkers(ws, D) == [w \in Workers |-> [ws[w] EXCEPT !.job = Orphan(ws[w].job, D)]]

\* A job whose future is dropped is the same job, awaited by nobody.
LEMMA OrphanFacts ==
    ASSUME NEW job \in Jobs, NEW D
    PROVE  LET j == Orphan(job, D)
           IN  /\ j \in Jobs /\ j.op = job.op /\ j.kind = job.kind /\ j.part = job.part
               /\ j.live <=> job.live /\ job.op \notin D
  BY DEF Orphan, Jobs

\* Dropping the futures of the downloads in D changes which jobs are awaited.
LEMMA DropKeeps ==
    ASSUME NEW l, NEW ws, LaneOK(l, ws), NEW D
    PROVE  LET l2 == OrphanedLane(l, D)
               ws2 == OrphanedWorkers(ws, D)
           IN  /\ LaneOK(l2, ws2) /\ Len(l2) = Len(l)
               /\ JobsOf(l2, ws2) = {Orphan(j, D) : j \in JobsOf(l, ws)}
  <1> DEFINE l2 == OrphanedLane(l, D)
             ws2 == OrphanedWorkers(ws, D)
  <1>1. l \in Seq(Jobs) /\ ws \in [Workers -> WorkerState] /\ DOMAIN l = 1..Len(l)
        /\ Len(l) \in Nat
    BY DEF LaneOK
  <1>2. \A i \in DOMAIN l : l[i] \in Jobs
    BY <1>1
  <1>3. \A w \in Workers : ws[w].job \in Jobs
    BY <1>1 DEF WorkerState
  <1>4. l2 \in Seq(Jobs) /\ DOMAIN l2 = DOMAIN l /\ \A i \in DOMAIN l :
        l2[i] = Orphan(l[i], D)
    <2>1. \A i \in DOMAIN l : Orphan(l[i], D) \in Jobs
      BY <1>2, OrphanFacts
    <2>2. QED
      BY <1>1, <2>1 DEF OrphanedLane
  <1>5. /\ ws2 \in [Workers -> WorkerState]
        /\ \A w \in Workers : ws2[w].job = Orphan(ws[w].job, D) /\ ws2[w].at = ws[w].at
    <2>1. \A w \in Workers : Orphan(ws[w].job, D) \in Jobs
      BY <1>3, OrphanFacts
    <2>2. QED
      BY <1>1, <2>1 DEF OrphanedWorkers, WorkerState
  <1> HIDE DEF l2, ws2
  <1>6. Busy(ws2) = Busy(ws)
    BY <1>5 DEF Busy
  <1>7. JobsOf(l2, ws2) = {Orphan(j, D) : j \in JobsOf(l, ws)}
    BY <1>4, <1>5, <1>6 DEF JobsOf, Busy
  <1>8. \A j \in JobsOf(l, ws) : j \in Jobs
    BY <1>2, <1>3 DEF JobsOf, Busy
  <1>9. \A j \in JobsOf(l2, ws2) : Fits(j)
    BY <1>7, <1>8, OrphanFacts DEF LaneOK, Fits
  <1>10. \A j, k \in Jobs : Clash(Orphan(j, D), Orphan(k, D)) => Clash(j, k)
    BY OrphanFacts DEF Clash
  <1>11. LaneOK(l2, ws2)
    <2>1. \A w \in Busy(ws2) :
          ws2[w].job.kind = IF ws2[w].at \in Finalize THEN "finalize" ELSE ws2[w].at
      BY <1>3, <1>5, <1>6, OrphanFacts DEF LaneOK, Busy
    <2>2. \A i, k \in DOMAIN l2 : i # k => ~Clash(l2[i], l2[k])
      BY <1>2, <1>4, <1>10 DEF LaneOK
    <2>3. \A i \in DOMAIN l2, w \in Busy(ws2) : ~Clash(l2[i], ws2[w].job)
      BY <1>2, <1>3, <1>4, <1>5, <1>6, <1>10 DEF LaneOK, Busy
    <2>4. \A v, w \in Busy(ws2) : v # w => ~Clash(ws2[v].job, ws2[w].job)
      BY <1>3, <1>5, <1>6, <1>10 DEF LaneOK, Busy
    <2>5. QED
      BY <1>4, <1>5, <1>9, <2>1, <2>2, <2>3, <2>4 DEF LaneOK
  <1>12. Len(l2) = Len(l)
    BY <1>1, <1>4
  <1>13. QED
    BY <1>7, <1>11, <1>12 DEF l2, ws2

-----------------------------------------------------------------------------
(* What a job says of its download *)

\* The jobs of the state.
J == JobsOf(lane, worker)

\* The places of a download that may have left a job behind in the lane.
Dropped == {"failed", "cleaning", "answered", "stopping", "sweeping", "shutSweeping",
  "done"}
\* The places of a download whose removal job is queued or runs and is awaited.
Removing == {"discarding", "cleaning", "sweeping", "shutSweeping", "done"}

\* Where a future awaits a job of its way.
Phase(kind) ==
    IF kind = "prepare" THEN "preparing" ELSE IF kind = "create" THEN "creating"
    ELSE IF kind = "append" THEN "appending" ELSE "finalizing"

\* What a job says of its download.  An awaited job has no reply, and its future waits
\* for it at the place that queued it.  A job nobody awaits belongs to a download that
\* was timed out or cancelled: no call of it was answered ok; an open left behind is
\* noted in excuse, and so is a rename.
JobOK(j) ==
    /\ j.live => reply[j.op] = "none"
    /\ j.kind \in Main =>
         /\ IF j.live THEN pc[j.op] = Phase(j.kind) ELSE pc[j.op] \in Dropped
         /\ result[j.op] # "ok"
    /\ j.kind = "remove" => IF j.live THEN pc[j.op] \in Removing ELSE pc[j.op] \in Dropped
    /\ j.kind = "create" => j.op \notin began /\ (j.live \/ "create" \in excuse[j.op])
    /\ j.kind \in {"append", "finalize"} => j.op \in began
    /\ j.kind = "append" /\ j.live => j.part = sent[j.op] + 1
    /\ j.kind = "finalize" =>
         opt[j.op].atomic /\ (j.live \/ excuse[j.op] \cap {"deadline", "cancel"} # {})

\* Each job says it.
JobsOK == \A j \in J : JobOK(j)

\* What the place of a download's future says of its own variables.
Control(o) ==
    /\ pc[o] \in {"idle", "preparing", "sending", "creating"} => sent[o] = 0
    /\ pc[o] \in {"idle", "preparing", "sending"} => o \notin began
    /\ pc[o] \in {"streaming", "appending", "finalizing"} => o \in began
    /\ pc[o] = "creating" => (o \in began <=> reply[o] = "ok")
    /\ pc[o] \in {"idle", "sending", "streaming", "fail", "failed", "stopping", "answered"}
         => reply[o] = "none"
    /\ pc[o] \in {"idle", "preparing", "failed", "cleaning"} \cup Inner
       => result[o] = "none"
    /\ pc[o] = "preparing" => driver = "open"
    /\ pc[o] = "appending" => sent[o] < Parts
    /\ pc[o] = "finalizing" => opt[o].atomic /\ sent[o] = Parts

\* A rival was met only where two downloads were submitted.
TwoMet == rival => \E x, y \in Downloads : x # y /\ pc[x] # "idle" /\ pc[y] # "idle"

\* The type of what the file system holds.
FileOK(f) == DOMAIN f \subseteq Paths /\ \A p \in DOMAIN f : f[p] \in Content

\* The types of the variables the lane does not hold.
Typed ==
    /\ FileOK(file) /\ FileOK(first)
    /\ opt \in [Downloads -> [atomic : BOOLEAN, overwrite : BOOLEAN]]
    /\ pc \in [Downloads -> PCs] /\ sent \in [Downloads -> 0..Parts]
    /\ reply \in [Downloads -> {"none", "ok", "error"}]
    /\ result \in [Downloads -> {"none", "ok", "error"}]
    /\ Len(lane) <= LaneCapacity
    /\ driver \in {"open", "shutting", "stopped"}
    /\ began \subseteq Downloads /\ rival \in BOOLEAN
    /\ excuse \in [Downloads -> SUBSET Excuses]

\* The part of the invariant that does not speak of what the files hold.
Base ==
    /\ Typed /\ LaneOK(lane, worker) /\ JobsOK /\ TwoMet
    /\ \A o \in Downloads : Control(o)

\* It gives the type invariant.
LEMMA BaseTyped == Base => TypeOK
  BY DEF Base, Typed, TypeOK, FileOK, LaneOK, WorkerState, At

\* The jobs are typed.
LEMMA JTyped ==
    ASSUME LaneOK(lane, worker)
    PROVE  J \subseteq Jobs
  BY DEF LaneOK, J, JobsOf, Busy, WorkerState

\* A worker's job is one of the jobs, and its call is a call of it.
LEMMA RunningJob ==
    ASSUME LaneOK(lane, worker), NEW w \in Workers, worker[w].at # "idle"
    PROVE  /\ w \in Busy(worker) /\ worker[w].job \in J /\ worker[w].job \in Jobs
           /\ worker[w].job.op \in Downloads
           /\ worker[w].job.kind = IF worker[w].at \in Finalize THEN "finalize"
              ELSE worker[w].at
  BY DEF LaneOK, J, JobsOf, Busy, WorkerState, Fits

-----------------------------------------------------------------------------
(* The calls of the workers *)

\* Take: nothing of a download changes.
LEMMA TakeStep ==
    ASSUME Base, NEW w \in Workers, Take(w)
    PROVE  Base' /\ J' = J
  <1>1. LaneOK(lane, worker)' /\ J' = J
    BY TakeKeeps DEF Base, Take, Running, J
  <1>2. Len(lane') <= LaneCapacity
    BY DownloadAssumption DEF Base, Typed, Take, LaneOK
  <1>3. Typed'
    BY <1>2 DEF Base, Typed, Take, history
  <1>4. QED
    BY <1>1, <1>3 DEF Base, Take, history, JobsOK, JobOK, TwoMet, Control

\* A worker's answer is that of a job that no job left of its download clashes with.
LEMMA AnswerFacts ==
    ASSUME Base, NEW w \in Workers, worker[w].at # "idle",
           NEW outcome \in {"ok", "error"}, Answer(w, outcome), lane' = lane
    PROVE  /\ LaneOK(lane, worker)' /\ J' \subseteq J /\ J \subseteq J' \cup {worker[w].job}
           /\ \A j \in J' : ~Clash(j, worker[w].job)
           /\ reply' \in [Downloads -> {"none", "ok", "error"}]
           /\ \A o \in Downloads :
                reply'[o] = IF worker[w].job.live /\ o = worker[w].job.op THEN outcome
                  ELSE reply[o]
  <1>1. w \in Busy(worker) /\ worker[w].job.op \in Downloads
    BY RunningJob DEF Base
  <1>2. /\ LaneOK(lane, worker)' /\ J' \subseteq J /\ J \subseteq J' \cup {worker[w].job}
        /\ \A j \in J' : ~Clash(j, worker[w].job)
    BY <1>1, AnswerKeeps DEF Base, Answer, J
  <1>3. reply' = IF worker[w].job.live THEN [reply EXCEPT ![worker[w].job.op] = outcome]
        ELSE reply
    BY DEF Answer
  <1>4. QED
    BY <1>1, <1>2, <1>3 DEF Base, Typed

\* A download that has a rival is one of two that were submitted.
LEMMA RivalMeans ==
    ASSUME Base, NEW o \in Downloads, pc[o] # "idle", Rival(o)
    PROVE  \E x, y \in Downloads : x # y /\ pc[x] # "idle" /\ pc[y] # "idle"
  <1>1. PICK y \in Downloads \ {o} : y \in began
    BY DEF Rival
  <1>2. pc[y] # "idle"
    BY <1>1 DEF Base, Control
  <1>3. QED
    BY <1>1, <1>2

\* The last call of a job: the reply reaches the future that awaits it, if one does.
LEMMA AnswerStep ==
    ASSUME Base, NEW w \in Workers, worker[w].at # "idle",
           NEW outcome \in {"ok", "error"}, Answer(w, outcome),
           UNCHANGED <<opt, pc, sent, result, lane, driver, first, excuse>>,
           FileOK(file'),
           LET o == worker[w].job.op IN
             /\ rival' = rival \/ rival' = (rival \/ Rival(o))
             /\ began' = IF worker[w].at = "create" /\ outcome = "ok" THEN began \cup {o}
                ELSE began
    PROVE  Base'
  <1> DEFINE k == worker[w].job
             o == k.op
  <1>1. /\ k \in J /\ k \in Jobs /\ o \in Downloads
        /\ k.kind = IF worker[w].at \in Finalize THEN "finalize" ELSE worker[w].at
    BY RunningJob DEF Base
  <1>2. /\ LaneOK(lane, worker)' /\ J' \subseteq J
        /\ \A j \in J' : ~Clash(j, k)
        /\ reply' \in [Downloads -> {"none", "ok", "error"}]
        /\ \A x \in Downloads : reply'[x] = IF k.live /\ x = o THEN outcome ELSE reply[x]
    BY AnswerFacts
  <1>3. JobOK(k) /\ J' \subseteq Jobs
    BY <1>1, <1>2, JTyped DEF Base, JobsOK
  <1>4. k.kind = "create" <=> worker[w].at = "create"
    BY <1>1 DEF Finalize
  <1> HIDE DEF k, o
  <1>5. began' = IF worker[w].at = "create" /\ outcome = "ok" THEN began \cup {o} ELSE began
    BY DEF k, o
  <1>6. o = k.op
    BY DEF o
  <1>7. pc[o] # "idle"
    BY <1>1, <1>3, <1>6 DEF JobOK, Phase, Dropped, Removing, Main, J, Base, LaneOK, Fits
  <1>8. Typed'
    BY <1>1, <1>2, <1>5 DEF Base, Typed, Rival, k, o
  <1>9. TwoMet'
    <2>1. rival' => rival \/ Rival(o)
      BY DEF k, o
    <2>2. QED
      BY <1>1, <1>7, <2>1, RivalMeans DEF Base, TwoMet
  <1>10. ASSUME NEW j \in J'
        PROVE  JobOK(j)'
    <2>1. JobOK(j) /\ ~Clash(j, k) /\ j.op \in Downloads /\ j.live \in BOOLEAN
      BY <1>2, <1>3, <1>10 DEF Base, JobsOK, LaneOK, Fits, J, Jobs
    <2>2. CASE j.op # o
      BY <1>2, <1>5, <2>1, <2>2 DEF JobOK
    <2>3. CASE j.op = o
      <3>1. j.live => ~k.live
        BY <1>6, <2>1, <2>3 DEF Clash
      <3>2. j.kind = "create" => began' = began
        BY <1>6, <1>5, <1>4, <2>1, <2>3 DEF Clash, Main
      <3>3. QED
        BY <1>6, <1>2, <1>5, <2>1, <2>3, <3>1, <3>2 DEF JobOK
    <2>4. QED
      BY <2>2, <2>3
  <1>11. ASSUME NEW x \in Downloads
        PROVE  Control(x)'
    <2>1. Control(x)
      BY DEF Base
    <2>2. CASE x # o
      BY <1>2, <1>5, <2>1, <2>2 DEF Control
    <2>3. CASE x = o
      <3>1. k.kind \in Main \cup {"remove"} /\ k.live \in BOOLEAN
        BY <1>1 DEF Base, LaneOK, Fits, J, Jobs
      <3>2. QED
        BY <1>6, <1>1, <1>2, <1>3, <1>5, <1>4, <2>1, <2>3, <3>1
           DEF Control, JobOK, Phase, Dropped, Removing, Main, Inner
    <2>4. QED
      BY <2>2, <2>3
  <1>12. QED
    BY <1>2, <1>8, <1>9, <1>10, <1>11 DEF Base, JobsOK

\* Writing a path and removing it keep the type of the file system.
LEMMA WithTyped ==
    ASSUME FileOK(file), NEW p \in Paths, NEW c \in Content
    PROVE  FileOK(With(p, c)) /\ FileOK(Without(p))
  BY DEF FileOK, With, Without

\* GoOnKeeps for the lane of the state.
LEMMA GoOnLane ==
    ASSUME LaneOK(lane, worker), NEW w \in Busy(worker), worker[w].at \in Finalize,
           NEW r \in WorkerState, r.job = worker[w].job, r.at \in Finalize,
           worker' = [worker EXCEPT ![w] = r], lane' = lane
    PROVE  LaneOK(lane, worker)' /\ JobsOf(lane, worker)' = JobsOf(lane, worker)
  BY GoOnKeeps

\* A worker that goes on in a rename changes no job.
LEMMA GoOnJobs ==
    ASSUME LaneOK(lane, worker), NEW w \in Workers, worker[w].at \in Finalize,
           NEW at \in Finalize,
           worker' = [worker EXCEPT ![w].at = at], lane' = lane
    PROVE  /\ LaneOK(lane, worker)' /\ J' = J
           /\ worker'[w].at = at /\ \A v \in Workers \ {w} : worker'[v] = worker[v]
  <1>1. worker[w] \in WorkerState /\ worker \in [Workers -> WorkerState]
    BY DEF LaneOK
  <1>2. PICK r : r = [worker[w] EXCEPT !.at = at]
    OBVIOUS
  <1>3. r \in WorkerState /\ r.job = worker[w].job /\ r.at = at
    BY <1>1, <1>2 DEF WorkerState, Finalize, At
  <1>4. worker' = [worker EXCEPT ![w] = r]
    BY <1>2
  <1>5. worker[w].at \in Finalize /\ r.at \in Finalize
    BY <1>3
  <1>6. w \in Busy(worker)
    BY DEF Busy, Finalize
  <1>7. LaneOK(lane, worker)' /\ JobsOf(lane, worker)' = JobsOf(lane, worker)
    BY <1>3, <1>4, <1>5, <1>6, GoOnLane
  <1>8. worker'[w] = r /\ \A v \in Workers \ {w} : worker'[v] = worker[v]
    BY <1>1, <1>4
  <1>9. QED
    BY <1>3, <1>7, <1>8 DEF J

\* A call of finalize_atomic_download that is not its last.
LEMMA GoOnStep ==
    ASSUME Base, NEW w \in Workers, worker[w].at \in Finalize, NEW at \in Finalize,
           worker' = [worker EXCEPT ![w].at = at],
           UNCHANGED <<opt, pc, sent, reply, result, lane, driver, first, began>>,
           FileOK(file'),
           LET o == worker[w].job.op IN
             /\ rival' = (rival \/ Rival(o))
             /\ excuse' = excuse \/ excuse' = [excuse EXCEPT ![o] = @ \cup {"fault"}]
    PROVE  Base' /\ J' = J
  <1> DEFINE k == worker[w].job
             o == k.op
  <1>1. worker[w].at # "idle"
    BY DEF Finalize
  <1>2. /\ k \in J /\ k \in Jobs /\ o \in Downloads /\ w \in Busy(worker)
           /\ k.kind = "finalize"
    BY <1>1, RunningJob DEF Base
  <1>3. LaneOK(lane, worker)' /\ J' = J
    BY GoOnJobs DEF Base
  <1>4. JobOK(k) /\ J \subseteq Jobs
    BY <1>2, JTyped DEF Base, JobsOK
  <1>5. pc[o] # "idle"
    BY <1>2, <1>4 DEF JobOK, Phase, Dropped, Main
  <1>6. excuse' \in [Downloads -> SUBSET Excuses] /\ \A x \in Downloads :
        excuse[x] \subseteq excuse'[x]
    <2>1. excuse \in [Downloads -> SUBSET Excuses] /\ "fault" \in Excuses
      BY DEF Base, Typed, Excuses
    <2>2. excuse' = excuse \/ excuse' = [excuse EXCEPT ![o] = @ \cup {"fault"}]
      OBVIOUS
    <2>3. QED
      BY <1>2, <2>1, <2>2
  <1>7. rival' = (rival \/ Rival(o))
    OBVIOUS
  <1> HIDE DEF k, o
  <1>8. Typed'
    BY <1>2, <1>6, <1>7 DEF Base, Typed, Rival
  <1>9. TwoMet'
    BY <1>2, <1>5, <1>7, RivalMeans DEF Base, TwoMet
  <1>10. ASSUME NEW j \in J
        PROVE  JobOK(j)'
    BY <1>4, <1>10, <1>6 DEF Base, JobsOK, JobOK, LaneOK, Fits, J
  <1>11. \A x \in Downloads : Control(x)'
    BY DEF Base, Control
  <1>12. QED
    BY <1>3, <1>8, <1>9, <1>10, <1>11 DEF Base, JobsOK

\* What an open leaves in a file is content.
LEMMA EmptyTyped == <<>> \in Content
  BY DEF Content

\* Every call of a worker.
LEMMA CallStep ==
    ASSUME Base, NEW w \in Workers, Call(w)
    PROVE  Base'
  <1> DEFINE o == worker[w].job.op
             out == Output(o)
             part == worker[w].job.part
  <1>1. worker[w].at # "idle" /\ FileOK(file)
    BY
       DEF Call, PrepareCall, CreateCall, AppendCall, RemoveCall, ExistsCall, UnlinkCall,
           RenameCall, UndoCall, Base, Typed
  <1>2. o \in Downloads /\ part \in 0..Parts /\ 0 \in 0..Parts
    BY <1>1, RunningJob, DownloadAssumption DEF Base, Jobs
  <1>3. out \in Paths /\ "dest" \in Paths /\ "temp" \in Paths
    BY DEF Output, Paths
  <1>4. CASE PrepareCall(w)
    <2>1. PICK outcome \in {"ok", "error"} : Answer(w, outcome)
      BY <1>4 DEF PrepareCall
    <2>2. QED
      BY <1>1, <1>4, <2>1, AnswerStep DEF PrepareCall, history
  <1>5. CASE CreateCall(w)
    <2>1. CASE /\ file' = With(out, <<>>) /\ began' = began \cup {o} /\ Answer(w, "ok")
      <3>1. FileOK(file')
        BY <1>1, <1>3, <2>1, WithTyped, EmptyTyped
      <3>2. QED
        BY <1>1, <1>5, <2>1, <3>1, AnswerStep DEF CreateCall, Touch
    <2>2. CASE UNCHANGED <<file, began>> /\ Answer(w, "error")
      BY <1>1, <1>5, <2>2, AnswerStep DEF CreateCall, Touch
    <2>3. QED
      BY <1>5, <2>1, <2>2 DEF CreateCall
  <1>6. CASE AppendCall(w)
    <2>1. CASE Exists(out)
      <3>1. PICK x \in {part, 0}, outcome \in {"ok", "error"} :
               file' = With(out, Append(file[out], <<o, x>>)) /\ Answer(w, outcome)
        BY <1>6, <2>1 DEF AppendCall
      <3>2. <<o, x>> \in (Downloads \cup {"disk"}) \X (0..Parts) /\ file[out] \in Content
        BY <1>1, <1>2, <2>1 DEF FileOK, Exists
      <3>3. Append(file[out], <<o, x>>) \in Content
        BY <3>2 DEF Content
      <3>4. FileOK(file')
        BY <1>1, <1>3, <3>1, <3>3, WithTyped
      <3>5. QED
        BY <1>1, <1>6, <3>1, <3>4, AnswerStep DEF AppendCall, Touch
    <2>2. CASE ~Exists(out)
      BY <1>1, <1>6, <2>2, AnswerStep DEF AppendCall, Touch
    <2>3. QED
      BY <2>1, <2>2
  <1>7. CASE RemoveCall(w)
    <2>1. FileOK(file')
      BY <1>1, <1>3, <1>7, WithTyped, EmptyTyped DEF RemoveCall
    <2>2. QED
      BY <1>1, <1>7, <2>1, AnswerStep DEF RemoveCall, Touch
  <1>8. CASE ExistsCall(w)
    <2>1. PICK at \in Finalize : worker' = [worker EXCEPT ![w].at = at]
      BY <1>8 DEF ExistsCall, Finalize
    <2>2. worker[w].at \in Finalize
      BY <1>8 DEF ExistsCall, Finalize
    <2>3. QED
      BY <1>1, <1>8, <2>1, <2>2, GoOnStep DEF ExistsCall, Touch
  <1>9. CASE UnlinkCall(w)
    <2>1. PICK at \in Finalize : worker' = [worker EXCEPT ![w].at = at]
      BY <1>9 DEF UnlinkCall, Finalize
    <2>2. worker[w].at \in Finalize
      BY <1>9 DEF UnlinkCall, Finalize
    <2>3. FileOK(file')
      BY <1>1, <1>3, <1>9, WithTyped, EmptyTyped DEF UnlinkCall
    <2>4. QED
      BY <1>9, <2>1, <2>2, <2>3, GoOnStep DEF UnlinkCall, Touch
  <1>10. CASE RenameCall(w)
    <2>1. CASE Exists("temp") /\ file' = [q \in {"dest"} |-> file["temp"]]
                 /\ Answer(w, "ok") /\ UNCHANGED excuse
      <3>1. FileOK(file')
        BY <1>1, <1>3, <2>1 DEF FileOK, Exists
      <3>2. QED
        BY <1>1, <1>10, <2>1, <3>1, AnswerStep DEF RenameCall, Touch
    <2>2. CASE /\ worker' = [worker EXCEPT ![w].at = "undo"]
               /\ excuse' = excuse \/ excuse' = [excuse EXCEPT ![o] = @ \cup {"fault"}]
               /\ UNCHANGED <<file, reply>>
      <3>1. worker[w].at \in Finalize /\ "undo" \in Finalize
        BY <1>10 DEF RenameCall, Finalize
      <3>2. QED
        BY <1>1, <1>10, <2>2, <3>1, GoOnStep DEF RenameCall, Touch
    <2>3. QED
      BY <1>10, <2>1, <2>2 DEF RenameCall
  <1>11. CASE UndoCall(w)
    <2>1. FileOK(file')
      BY <1>1, <1>3, <1>11, WithTyped, EmptyTyped DEF UndoCall
    <2>2. QED
      BY <1>1, <1>11, <2>1, AnswerStep DEF UndoCall, Touch
  <1>12. QED
    BY <1>4, <1>5, <1>6, <1>7, <1>8, <1>9, <1>10, <1>11 DEF Call

-----------------------------------------------------------------------------
(* The steps of a future *)

\* A job that a future queues clashes with none: those left of its download were
\* dropped, or are removals.
LEMMA AwaitFacts ==
    ASSUME Base, NEW o \in Downloads, NEW kind \in Main \cup {"remove"},
           NEW part \in 0..Parts,
           NEW next, HasRoom, Await(o, kind, part, next), worker' = worker,
           pc[o] \in {"idle", "sending", "streaming", "fail", "failed", "stopping"},
           kind \in Main => pc[o] \in {"idle", "sending", "streaming"}
    PROVE  /\ LaneOK(lane, worker)' /\ J' = J \cup {Job(o, kind, part)}
           /\ Len(lane') <= LaneCapacity
           /\ \A j \in J : j.op = o => ~j.live /\ (kind \in Main => j.kind \notin Main)
  <1>1. Job(o, kind, part) \in Jobs /\ Fits(Job(o, kind, part))
    BY JobTyped
  <1>2. \A j \in J : j.op = o => ~j.live /\ (kind \in Main => j.kind \notin Main)
    <2> SUFFICES ASSUME NEW j \in J, j.op = o
                 PROVE  ~j.live /\ (kind \in Main => j.kind \notin Main)
      OBVIOUS
    <2>1. JobOK(j) /\ Fits(j)
      BY DEF Base, JobsOK, LaneOK, J
    <2>2. QED
      BY <2>1 DEF JobOK, Fits, Phase, Main, Dropped, Removing
  <1>3. \A j \in J : ~Clash(j, Job(o, kind, part))
    BY <1>2 DEF Clash, Job
  <1>4. LaneOK(lane, worker)' /\ J' = J \cup {Job(o, kind, part)}
    BY <1>1, <1>3, AwaitKeeps DEF Base, J, Await
  <1>5. lane \in Seq(Jobs)
    BY DEF Base, LaneOK
  <1>6. Len(lane') <= LaneCapacity
    BY <1>1, <1>5, DownloadAssumption DEF Await, HasRoom
  <1>7. QED
    BY <1>2, <1>4, <1>6

\* What is known of one job.
LEMMA JobFacts ==
    ASSUME Base, NEW j \in J
    PROVE  /\ JobOK(j) /\ j \in Jobs /\ j.op \in Downloads /\ j.live \in BOOLEAN
           /\ j.kind \in Main \cup {"remove"}
  <1>1. JobOK(j) /\ Fits(j) /\ j \in Jobs
    BY JTyped DEF Base, JobsOK, LaneOK, J
  <1>2. QED
    BY <1>1 DEF Fits, Jobs

\* The kinds of a download's jobs that are left, ...
LEMMA OutstandingNow == \A x : Outstanding(x) = {j.kind : j \in {i \in J : i.op = x}}
  BY DEF Outstanding, JobsOf, Busy, Running, J

\* ... and those left after a step.
LEMMA OutstandingThen == \A x : Outstanding(x)' = {j.kind : j \in {i \in J' : i.op = x}}
  BY DEF Outstanding, JobsOf, Busy, Running, J

\* The step adds jobs of these kinds to those of download o, and takes none away.
Adds(o, kinds) ==
    \A x \in Downloads :
       Outstanding(x)' = IF x = o THEN Outstanding(x) \cup kinds ELSE Outstanding(x)

\* A step that keeps the jobs keeps their kinds.
LEMMA SameJobs ==
    ASSUME J' = J
    PROVE  \A x : Outstanding(x)' = Outstanding(x)
  BY OutstandingNow, OutstandingThen

\* A step that keeps the jobs adds none.
LEMMA NoneAdded ==
    ASSUME J' = J, NEW o
    PROVE  Adds(o, {})
  BY SameJobs DEF Adds

\* A step that queues one job adds its kind.
LEMMA OneAdded ==
    ASSUME NEW o \in Downloads, NEW kind, NEW part, J' = J \cup {Job(o, kind, part)}
    PROVE  Adds(o, {kind})
  <1>1. Job(o, kind, part).op = o /\ Job(o, kind, part).kind = kind
    BY DEF Job
  <1>2. QED
    BY <1>1, OutstandingNow, OutstandingThen DEF Adds

\* A step that concerns one download keeps Base, if its own facts and jobs do.
LEMMA OwnStep ==
    ASSUME Base, NEW o \in Downloads, Typed', LaneOK(lane, worker)',
           UNCHANGED <<driver, began, rival>>,
           \A x \in Downloads \ {o} :
              /\ pc'[x] = pc[x] /\ sent'[x] = sent[x] /\ reply'[x] = reply[x]
              /\ result'[x] = result[x] /\ opt'[x] = opt[x] /\ excuse'[x] = excuse[x],
           pc'[o] # "idle",
           \A j \in J' : IF j.op = o THEN JobOK(j)' ELSE j \in J,
           Control(o)'
    PROVE  Base'
  <1>1. \A j \in J' : JobOK(j)'
    <2> SUFFICES ASSUME NEW j \in J', j.op # o, j \in J
                 PROVE  JobOK(j)'
      OBVIOUS
    <2>1. JobOK(j) /\ j.op \in Downloads
      BY JobFacts
    <2>2. QED
      BY <2>1 DEF JobOK
  <1>2. TwoMet'
    BY DEF Base, TwoMet
  <1>3. \A x \in Downloads : Control(x)'
    <2> SUFFICES ASSUME NEW x \in Downloads, x # o
                 PROVE  Control(x)'
      OBVIOUS
    <2>1. Control(x)
      BY DEF Base
    <2>2. QED
      BY <2>1 DEF Control
  <1>4. QED
    BY <1>1, <1>2, <1>3 DEF Base, JobsOK

\* The same, for a step that leaves the lane alone.
LEMMA QuietStep ==
    ASSUME Base, NEW o \in Downloads, Typed',
           UNCHANGED <<lane, worker, opt, excuse, driver, began, rival>>,
           \A x \in Downloads \ {o} :
              /\ pc'[x] = pc[x] /\ sent'[x] = sent[x] /\ reply'[x] = reply[x]
              /\ result'[x] = result[x],
           pc'[o] # "idle",
           \A j \in J : j.op = o => JobOK(j)',
           Control(o)'
    PROVE  Base' /\ Adds(o, {})
  <1>1. LaneOK(lane, worker)' /\ J' = J
    BY DEF Base, J
  <1>2. QED
    BY <1>1, NoneAdded, OwnStep

\* A download queues a job and awaits it.
LEMMA AwaitStep ==
    ASSUME Base, NEW o \in Downloads, NEW kind \in Main \cup {"remove"},
           NEW part \in 0..Parts,
           NEW next \in PCs \ {"idle"}, HasRoom, Await(o, kind, part, next),
           UNCHANGED <<file, sent, reply, result, worker, driver, history>>,
           opt' \in [Downloads -> [atomic : BOOLEAN, overwrite : BOOLEAN]],
           \A x \in Downloads \ {o} : opt'[x] = opt[x],
           pc[o] \in {"idle", "sending", "streaming", "fail", "failed", "stopping"},
           IF kind \in Main
             THEN next = Phase(kind) /\ pc[o] \in {"idle", "sending", "streaming"}
             ELSE next \in Removing /\ pc[o] \in {"fail", "failed", "stopping"},
           next = "discarding" => pc[o] = "fail",
           kind = "create" => o \notin began,
           kind \in {"append", "finalize"} => o \in began,
           kind = "append" => part = sent[o] + 1,
           kind = "finalize" => opt'[o].atomic,
           kind # "prepare" => opt' = opt,
           Control(o)'
    PROVE  Base' /\ Adds(o, {kind})
  <1>1. /\ LaneOK(lane, worker)' /\ J' = J \cup {Job(o, kind, part)}
        /\ Len(lane') <= LaneCapacity
        /\ \A j \in J : j.op = o => ~j.live /\ (kind \in Main => j.kind \notin Main)
    BY AwaitFacts
  <1>2. pc' = [pc EXCEPT ![o] = next]
    BY DEF Await
  <1>3. Typed'
    BY <1>1, <1>2 DEF Base, Typed, history
  <1>4. pc'[o] = next /\ \A x \in Downloads \ {o} : pc'[x] = pc[x]
    BY <1>2 DEF Base, Typed
  <1>5. kind \in Main => result[o] # "ok"
    BY DEF Base, Control, Inner
  <1>6. reply[o] = "none"
    BY DEF Base, Control, Inner
  <1>7. ASSUME NEW j \in J', j.op = o
        PROVE  JobOK(j)'
    <2>1. CASE j = Job(o, kind, part)
      BY <1>4, <1>5, <1>6, <2>1 DEF Job, JobOK, history, Main
    <2>2. CASE j \in J
      <3>1. JobOK(j) /\ ~j.live /\ j.kind \in Main \cup {"remove"}
            /\ (kind \in Main => j.kind \notin Main)
        BY <1>1, <1>7, <2>2, JobFacts
      <3>2. QED
        BY <1>4, <1>7, <3>1 DEF JobOK, history, Main, Dropped, Removing
    <2>3. QED
      BY <1>1, <1>7, <2>1, <2>2
  <1>8. \A j \in J' : IF j.op = o THEN JobOK(j)' ELSE j \in J
    BY <1>1, <1>7 DEF Job
  <1>9. QED
    BY <1>1, <1>3, <1>4, <1>8, OneAdded, OwnStep DEF history

\* A future takes the reply it waited for.
LEMMA ConsumeFacts ==
    ASSUME Base, NEW o \in Downloads, Consume(o), NEW to \in PCs,
           pc' = [pc EXCEPT ![o] = to]
    PROVE  /\ reply[o] \in {"ok", "error"} /\ reply'[o] = "none" /\ pc'[o] = to
           /\ \A x \in Downloads \ {o} : reply'[x] = reply[x] /\ pc'[x] = pc[x]
           /\ reply' \in [Downloads -> {"none", "ok", "error"}]
              /\ pc' \in [Downloads -> PCs]
  BY DEF Base, Typed, Consume

\* The jobs left of a download whose awaited job has ended are those it dropped.
LEMMA NoLiveJob ==
    ASSUME Base, NEW o \in Downloads, reply[o] # "none", NEW j \in J, j.op = o
    PROVE  ~j.live /\ pc[o] \in Dropped /\ JobOK(j) /\ j.kind \in Main \cup {"remove"}
  <1>1. JobOK(j) /\ j.kind \in Main \cup {"remove"}
    BY JobFacts
  <1>2. QED
    BY <1>1 DEF JobOK

\* A download goes on after a reply.
LEMMA ConsumeStep ==
    ASSUME Base, NEW o \in Downloads, Consume(o), NEW to \in PCs \ {"idle"},
           pc' = [pc EXCEPT ![o] = to],
           sent' \in [Downloads -> 0..Parts], \A x \in Downloads \ {o} : sent'[x] = sent[x],
           result' \in [Downloads -> {"none", "ok", "error"}],
           \A x \in Downloads \ {o} : result'[x] = result[x],
           UNCHANGED <<file, opt, lane, worker, driver, history>>,
           pc[o] \in Dropped => to \in Dropped /\ (result[o] # "ok" => result'[o] # "ok"),
           Control(o)'
    PROVE  Base' /\ Adds(o, {})
  <1>1. /\ reply[o] \in {"ok", "error"} /\ reply'[o] = "none" /\ pc'[o] = to
        /\ \A x \in Downloads \ {o} : reply'[x] = reply[x] /\ pc'[x] = pc[x]
        /\ reply' \in [Downloads -> {"none", "ok", "error"}] /\ pc' \in [Downloads -> PCs]
    BY ConsumeFacts
  <1>2. Typed'
    BY <1>1 DEF Base, Typed, history
  <1>3. ASSUME NEW j \in J, j.op = o
        PROVE  JobOK(j)'
    <2>1. ~j.live /\ pc[o] \in Dropped /\ JobOK(j) /\ j.kind \in Main \cup {"remove"}
      BY <1>1, <1>3, NoLiveJob
    <2>2. QED
      BY <1>1, <1>3, <2>1 DEF JobOK, history
  <1>4. QED
    BY <1>1, <1>2, <1>3, QuietStep DEF history

\* A download goes on without one: its response or its body failed, or its caller is
\* told.
LEMMA GoStep ==
    ASSUME Base, NEW o \in Downloads, NEW from \in PCs, NEW to \in PCs \ {"idle"},
           Go(o, from, to),
           \/ from \in {"sending", "streaming"} /\ to \in {"fail", "failed"}
           \/ from = "answered" /\ to = "done"
    PROVE  Base' /\ Adds(o, {})
  <1>1. pc' \in [Downloads -> PCs] /\ pc'[o] = to /\ \A x \in Downloads \ {o} :
        pc'[x] = pc[x]
    BY DEF Base, Typed, Go
  <1>2. Typed'
    BY <1>1 DEF Base, Typed, Go, history
  <1>3. ASSUME NEW j \in J, j.op = o
        PROVE  JobOK(j)'
    <2>1. JobOK(j) /\ j.kind \in Main \cup {"remove"}
      BY JobFacts
    <2>2. QED
      BY <1>1, <1>3, <2>1 DEF JobOK, Go, history, Phase, Main, Dropped, Removing
  <1>4. Control(o)'
    <2>1. Control(o)
      BY DEF Base
    <2>2. QED
      BY <1>1, <2>1 DEF Control, Go, history, Inner
  <1>5. QED
    BY <1>1, <1>2, <1>3, <1>4, QuietStep DEF Go, history

\* Submit: a download is queued, with a job that makes its directory.
LEMMA SubmitStep ==
    ASSUME Base, NEW o \in Downloads, Submit(o)
    PROVE  Base' /\ \E kinds : Adds(o, kinds)
  <1>1. Control(o) /\ pc[o] = "idle" /\ driver = "open"
    BY DEF Base, Submit
  <1>2. /\ opt' \in [Downloads -> [atomic : BOOLEAN, overwrite : BOOLEAN]]
        /\ \A x \in Downloads \ {o} : opt'[x] = opt[x]
    BY DownloadAssumption DEF Base, Typed, Submit
  <1>3. pc \in [Downloads -> PCs] /\ result \in [Downloads -> {"none", "ok", "error"}]
    BY DEF Base, Typed
  <1>4. CASE HasRoom /\ Await(o, "prepare", 0, "preparing") /\ UNCHANGED result
    <2>1. Control(o)'
      BY <1>1, <1>3, <1>4 DEF Control, Submit, Await, Inner, history
    <2>2. "preparing" \in PCs \ {"idle"} /\ 0 \in 0..Parts /\ "prepare" \in Main
      BY DownloadAssumption DEF PCs, Main
    <2>3. QED
      BY <1>1, <1>2, <1>4, <2>1, <2>2, AwaitStep DEF Submit, Phase
  <1>5. CASE /\ ~HasRoom /\ pc' = [pc EXCEPT ![o] = "done"]
             /\ result' = [result EXCEPT ![o] = "error"] /\ UNCHANGED lane
    <2>1. Typed'
      BY <1>2, <1>5 DEF Base, Typed, Submit, history, PCs
    <2>2. Control(o)'
      BY <1>1, <1>3, <1>5 DEF Control, Submit, Inner, history
    <2>3. LaneOK(lane, worker)' /\ J' = J
      BY <1>5 DEF Base, J, Submit
    <2>4. ASSUME NEW j \in J, j.op = o
          PROVE  FALSE
      <3>1. JobOK(j) /\ j.kind \in Main \cup {"remove"}
        BY JobFacts
      <3>2. QED
        BY <1>1, <2>4, <3>1 DEF JobOK, Phase, Main, Dropped, Removing
    <2>5. \A x \in Downloads \ {o} : pc'[x] = pc[x] /\ result'[x] = result[x]
      BY <1>3, <1>5
    <2>6. pc'[o] # "idle"
      BY <1>3, <1>5
    <2>7. QED
      BY <1>2, <2>1, <2>2, <2>3, <2>4, <2>5, <2>6, NoneAdded, OwnStep DEF Submit, history
  <1>6. QED
    BY <1>4, <1>5 DEF Submit

\* Prepared: the reply of that job.
LEMMA PreparedStep ==
    ASSUME Base, NEW o \in Downloads, Prepared(o)
    PROVE  Base' /\ Adds(o, {})
  <1>1. PICK to \in {"sending", "done"} :
           /\ pc' = [pc EXCEPT ![o] = to]
           /\ result' = IF to = "done" THEN [result EXCEPT ![o] = "error"] ELSE result
    BY DEF Prepared
  <1>2. result' \in [Downloads -> {"none", "ok", "error"}] /\ \A x \in Downloads \ {o} :
        result'[x] = result[x]
    BY <1>1 DEF Base, Typed
  <1>3. /\ reply'[o] = "none" /\ pc'[o] = to
    BY <1>1, ConsumeFacts DEF Prepared, PCs, Inner, Active
  <1>4. Control(o)'
    <2>1. Control(o)
      BY DEF Base
    <2>2. QED
      BY <1>1, <1>3, <2>1 DEF Control, Prepared, Inner, history
  <1>5. sent' \in [Downloads -> 0..Parts] /\ to \in PCs \ {"idle"}
    BY <1>1 DEF Base, Typed, Prepared, PCs, Inner, Active
  <1>6. QED
    BY <1>1, <1>2, <1>4, <1>5, ConsumeStep DEF Prepared, Dropped

\* Response: the head of the response is here, and the output is opened.
LEMMA ResponseStep ==
    ASSUME Base, NEW o \in Downloads, Response(o)
    PROVE  Base' /\ Adds(o, {"create"})
  <1>1. Control(o) /\ pc[o] = "sending" /\ pc \in [Downloads -> PCs]
        /\ opt \in [Downloads -> [atomic : BOOLEAN, overwrite : BOOLEAN]]
    BY DEF Base, Typed, Response
  <1>2. "creating" \in PCs \ {"idle"} /\ 0 \in 0..Parts /\ "create" \in Main
    BY DownloadAssumption DEF PCs, Main, Inner, Active
  <1>3. Control(o)'
    BY <1>1 DEF Control, Response, Await, Inner, history
  <1>4. o \notin began
    BY <1>1 DEF Control
  <1>5. QED
    BY <1>1, <1>2, <1>3, <1>4, AwaitStep DEF Response, Phase

\* Created: the reply of the open.
LEMMA CreatedStep ==
    ASSUME Base, NEW o \in Downloads, Created(o)
    PROVE  Base' /\ Adds(o, {})
  <1>1. PICK to \in {"streaming", "fail"} :
           pc' = [pc EXCEPT ![o] = to] /\ (to = "streaming" <=> reply[o] = "ok")
    BY DEF Created
  <1>2. to \in PCs \ {"idle"} /\ sent' \in [Downloads -> 0..Parts]
        /\ result' \in [Downloads -> {"none", "ok", "error"}]
    BY DEF Base, Typed, Created, PCs, Inner, Active
  <1>3. reply'[o] = "none" /\ pc'[o] = to
    BY <1>1, <1>2, ConsumeFacts DEF Created
  <1>4. Control(o)'
    <2>1. Control(o)
      BY DEF Base
    <2>2. QED
      BY <1>1, <1>3, <2>1 DEF Control, Created, Inner, history
  <1>5. QED
    BY <1>1, <1>2, <1>4, ConsumeStep DEF Created, Dropped

\* Frame: a part of the body is here, and is appended.
LEMMA FrameStep ==
    ASSUME Base, NEW o \in Downloads, Frame(o)
    PROVE  Base' /\ Adds(o, {"append"})
  <1>1. Control(o) /\ pc[o] = "streaming" /\ pc \in [Downloads -> PCs]
        /\ opt \in [Downloads -> [atomic : BOOLEAN, overwrite : BOOLEAN]]
        /\ sent[o] \in 0..Parts
    BY DEF Base, Typed, Frame
  <1>2. "appending" \in PCs \ {"idle"} /\ sent[o] + 1 \in 0..Parts /\ "append" \in Main
    BY <1>1, DownloadAssumption DEF PCs, Main, Inner, Active, Frame
  <1>3. Control(o)'
    BY <1>1 DEF Control, Frame, Await, Inner, history
  <1>4. o \in began
    BY <1>1 DEF Control
  <1>5. QED
    BY <1>1, <1>2, <1>3, <1>4, AwaitStep DEF Frame, Phase

\* Appended: the reply of the append.
LEMMA AppendedStep ==
    ASSUME Base, NEW o \in Downloads, Appended(o)
    PROVE  Base' /\ Adds(o, {})
  <1>1. PICK to \in {"streaming", "fail"} :
           /\ pc' = [pc EXCEPT ![o] = to]
           /\ sent' = IF to = "streaming" THEN [sent EXCEPT ![o] = @ + 1] ELSE sent
    BY DEF Appended
  <1>2. sent \in [Downloads -> 0..Parts] /\ Control(o) /\ pc[o] = "appending"
    BY DEF Base, Typed, Appended
  <1>3. sent[o] + 1 \in 0..Parts
    BY <1>2, DownloadAssumption DEF Control
  <1>4. sent' \in [Downloads -> 0..Parts] /\ \A x \in Downloads \ {o} : sent'[x] = sent[x]
    BY <1>1, <1>2, <1>3
  <1>5. to \in PCs \ {"idle"} /\ result' \in [Downloads -> {"none", "ok", "error"}]
    BY DEF Base, Typed, Appended, PCs, Inner, Active
  <1>6. reply'[o] = "none" /\ pc'[o] = to
    BY <1>1, <1>5, ConsumeFacts DEF Appended
  <1>7. Control(o)'
    BY <1>1, <1>2, <1>6 DEF Control, Appended, Inner, history
  <1>8. QED
    BY <1>1, <1>4, <1>5, <1>7, ConsumeStep DEF Appended, Dropped

\* Whole: the body is here; an atomic download is renamed, the others are done.
LEMMA WholeStep ==
    ASSUME Base, NEW o \in Downloads, Whole(o)
    PROVE  Base' /\ IF pc'[o] = "finalizing" THEN Adds(o, {"finalize"}) ELSE Adds(o, {})
  <1>1. Control(o) /\ pc[o] = "streaming" /\ pc \in [Downloads -> PCs]
        /\ opt \in [Downloads -> [atomic : BOOLEAN, overwrite : BOOLEAN]]
        /\ result \in [Downloads -> {"none", "ok", "error"}] /\ sent[o] = Parts
    BY DEF Base, Typed, Whole
  <1>2. CASE opt[o].atomic /\ HasRoom /\ Await(o, "finalize", 0, "finalizing")
               /\ UNCHANGED result
    <2>1. "finalizing" \in PCs \ {"idle"} /\ 0 \in 0..Parts /\ "finalize" \in Main
      BY DownloadAssumption DEF PCs, Main, Inner, Active
    <2>2. Control(o)'
      BY <1>1, <1>2 DEF Control, Whole, Await, Inner, history
    <2>3. o \in began
      BY <1>1 DEF Control
    <2>4. pc'[o] = "finalizing"
      BY <1>1, <1>2 DEF Await
    <2>5. QED
      BY <1>1, <1>2, <2>4, <2>1, <2>2, <2>3, AwaitStep DEF Whole, Phase
  <1>3. ASSUME NEW to \in {"failed", "answered"}, pc' = [pc EXCEPT ![o] = to],
               UNCHANGED lane,
               result' = IF to = "answered" THEN [result EXCEPT ![o] = "ok"] ELSE result
        PROVE  Base' /\ pc'[o] # "finalizing" /\ Adds(o, {})
    <2>1. pc'[o] = to /\ \A x \in Downloads \ {o} : pc'[x] = pc[x] /\ result'[x] = result[x]
      BY <1>1, <1>3
    <2>2. result'[o] = IF to = "answered" THEN "ok" ELSE result[o]
      BY <1>1, <1>3
    <2>3. Typed'
      BY <1>1, <1>3 DEF Base, Typed, Whole, history, PCs, Active
    <2>4. Control(o)'
      BY <1>1, <2>1, <2>2 DEF Control, Whole, Inner, history
    <2>5. ASSUME NEW j \in J, j.op = o
          PROVE  JobOK(j)'
      <3>1. JobOK(j) /\ j.kind \in Main \cup {"remove"}
        BY JobFacts
      <3>2. QED
        BY <1>1, <2>5, <3>1 DEF JobOK, Phase, Main, Dropped, Removing
    <2>6. QED
      BY <1>3, <2>1, <2>3, <2>4, <2>5, QuietStep DEF Whole, history
  <1>4. CASE opt[o].atomic /\ ~HasRoom /\ pc' = [pc EXCEPT ![o] = "failed"]
               /\ UNCHANGED <<lane, result>>
    BY <1>3, <1>4
  <1>5. CASE /\ ~opt[o].atomic /\ pc' = [pc EXCEPT ![o] = "answered"]
             /\ result' = [result EXCEPT ![o] = "ok"] /\ UNCHANGED lane
    BY <1>3, <1>5
  <1>6. QED
    BY <1>2, <1>4, <1>5 DEF Whole

\* Finalized: the reply of the rename.
LEMMA FinalizedStep ==
    ASSUME Base, NEW o \in Downloads, Finalized(o)
    PROVE  Base' /\ Adds(o, {})
  <1>1. PICK to \in {"answered", "failed"} :
           /\ pc' = [pc EXCEPT ![o] = to]
           /\ result' = IF to = "answered" THEN [result EXCEPT ![o] = "ok"] ELSE result
    BY DEF Finalized
  <1>2. result' \in [Downloads -> {"none", "ok", "error"}] /\ \A x \in Downloads \ {o} :
        result'[x] = result[x]
    BY <1>1 DEF Base, Typed
  <1>3. to \in PCs \ {"idle"} /\ sent' \in [Downloads -> 0..Parts]
    BY DEF Base, Typed, Finalized, PCs, Inner, Active
  <1>4. reply'[o] = "none" /\ pc'[o] = to
    BY <1>1, <1>3, ConsumeFacts DEF Finalized
  <1>5. Control(o)'
    <2>1. Control(o)
      BY DEF Base
    <2>2. QED
      BY <1>1, <1>4, <2>1 DEF Control, Finalized, Inner, history
  <1>6. QED
    BY <1>1, <1>2, <1>3, <1>5, ConsumeStep DEF Finalized, Dropped

\* Discard: a body that failed has its output removed.
LEMMA DiscardStep ==
    ASSUME Base, NEW o \in Downloads, Discard(o)
    PROVE  Base' /\ IF pc'[o] = "discarding" THEN Adds(o, {"remove"}) ELSE Adds(o, {})
  <1>1. Control(o) /\ pc[o] = "fail" /\ pc \in [Downloads -> PCs]
        /\ opt \in [Downloads -> [atomic : BOOLEAN, overwrite : BOOLEAN]]
    BY DEF Base, Typed, Discard
  <1>2. CASE HasRoom /\ Await(o, "remove", 0, "discarding")
    <2>1. "discarding" \in PCs \ {"idle"} /\ 0 \in 0..Parts /\ "remove" \notin Main
      BY DownloadAssumption DEF PCs, Main, Inner, Active
    <2>2. Control(o)'
      BY <1>1, <1>2 DEF Control, Discard, Await, Inner, history
    <2>3. pc'[o] = "discarding"
      BY <1>1, <1>2 DEF Await
    <2>4. QED
      BY <1>1, <1>2, <2>3, <2>1, <2>2, AwaitStep DEF Discard, Removing
  <1>3. CASE ~HasRoom /\ pc' = [pc EXCEPT ![o] = "failed"] /\ UNCHANGED lane
    <2>1. pc'[o] = "failed" /\ \A x \in Downloads \ {o} : pc'[x] = pc[x]
      BY <1>1, <1>3
    <2>2. Typed'
      BY <1>3 DEF Base, Typed, Discard, history, PCs, Active
    <2>3. Control(o)'
      BY <1>1, <2>1 DEF Control, Discard, Inner, history
    <2>4. ASSUME NEW j \in J, j.op = o
          PROVE  JobOK(j)'
      <3>1. JobOK(j) /\ j.kind \in Main \cup {"remove"}
        BY JobFacts
      <3>2. QED
        BY <1>1, <2>4, <3>1 DEF JobOK, Phase, Main, Dropped, Removing
    <2>5. QED
      BY <1>3, <2>1, <2>2, <2>3, <2>4, QuietStep DEF Discard, history
  <1>4. QED
    BY <1>2, <1>3 DEF Discard

\* Discarded: the reply of that removal.
LEMMA DiscardedStep ==
    ASSUME Base, NEW o \in Downloads, Discarded(o)
    PROVE  Base' /\ Adds(o, {})
  <1>1. "failed" \in PCs \ {"idle"} /\ sent' \in [Downloads -> 0..Parts]
        /\ result' \in [Downloads -> {"none", "ok", "error"}]
    BY DEF Base, Typed, Discarded, PCs, Active
  <1>2. reply'[o] = "none" /\ pc'[o] = "failed"
    BY <1>1, ConsumeFacts DEF Discarded
  <1>3. Control(o)'
    <2>1. Control(o)
      BY DEF Base
    <2>2. QED
      BY <1>2, <2>1 DEF Control, Discarded, Inner, history
  <1>4. QED
    BY <1>1, <1>3, ConsumeStep DEF Discarded, Dropped

\* What a caller is told once a download has failed.
LEMMA ToldTyped ==
    ASSUME Base, NEW o \in Downloads
    PROVE  /\ Told(o) \in [Downloads -> {"none", "ok", "error"}]
           /\ \A x \in Downloads \ {o} : Told(o)[x] = result[x]
           /\ Told(o)[o] = IF result[o] = "none" THEN "error" ELSE result[o]
  BY DEF Base, Typed, Told

\* A download is given up, whatever its caller is told.
LEMMA GiveUp ==
    ASSUME Base, NEW o \in Downloads, NEW to \in {"answered", "done"},
           pc[o] \in {"failed", "stopping"},
           pc' = [pc EXCEPT ![o] = to],
           result' \in [Downloads -> {"none", "ok", "error"}],
           \A x \in Downloads \ {o} : result'[x] = result[x],
           result[o] # "ok" => result'[o] # "ok",
           NEW why \in SUBSET Excuses, excuse' = [excuse EXCEPT ![o] = @ \cup why],
           UNCHANGED <<reply, file, opt, sent, lane, worker, driver, first, began, rival>>
    PROVE  Base' /\ Adds(o, {})
  <1>1. pc'[o] = to /\ \A x \in Downloads \ {o} : pc'[x] = pc[x]
    BY DEF Base, Typed
  <1>2. /\ excuse' \in [Downloads -> SUBSET Excuses] /\ excuse[o] \subseteq excuse'[o]
        /\ \A x \in Downloads \ {o} : excuse'[x] = excuse[x]
    BY DEF Base, Typed
  <1>3. Typed'
    BY <1>2 DEF Base, Typed, PCs, Active
  <1>4. Control(o)'
    <2>1. Control(o)
      BY DEF Base
    <2>2. QED
      BY <1>1, <2>1 DEF Control, Inner
  <1>5. LaneOK(lane, worker)' /\ J' = J
    BY DEF Base, J
  <1>6. ASSUME NEW j \in J, j.op = o
        PROVE  JobOK(j)'
    <2>1. JobOK(j) /\ j.kind \in Main \cup {"remove"}
      BY JobFacts
    <2>2. QED
      BY <1>1, <1>2, <1>6, <2>1 DEF JobOK, Dropped, Removing, Phase, Main
  <1>7. QED
    BY <1>1, <1>2, <1>3, <1>4, <1>5, <1>6, NoneAdded, OwnStep

\* CleanUp: the cleanup after a failed download queues a removal, or is refused it.
LEMMA CleanUpStep ==
    ASSUME Base, NEW o \in Downloads, CleanUp(o)
    PROVE  Base' /\ IF pc'[o] = "cleaning" THEN Adds(o, {"remove"}) ELSE Adds(o, {})
  <1>1. Control(o) /\ pc[o] = "failed" /\ pc \in [Downloads -> PCs]
        /\ opt \in [Downloads -> [atomic : BOOLEAN, overwrite : BOOLEAN]]
        /\ result \in [Downloads -> {"none", "ok", "error"}]
    BY DEF Base, Typed, CleanUp
  <1>2. CASE opt[o].atomic /\ HasRoom /\ Await(o, "remove", 0, "cleaning")
               /\ UNCHANGED <<result, excuse>>
    <2>1. "cleaning" \in PCs \ {"idle"} /\ 0 \in 0..Parts /\ "remove" \notin Main
      BY DownloadAssumption DEF PCs, Main, Active
    <2>2. Control(o)'
      BY <1>1, <1>2 DEF Control, CleanUp, Await, Inner
    <2>3. pc'[o] = "cleaning"
      BY <1>1, <1>2 DEF Await
    <2>4. QED
      BY <1>1, <1>2, <2>3, <2>1, <2>2, AwaitStep DEF CleanUp, Removing, history
  <1>3. CASE /\ opt[o].atomic => ~HasRoom
             /\ pc' = [pc EXCEPT ![o] = "answered"]
             /\ result' = [result EXCEPT ![o] = "error"]
             /\ excuse' = [excuse EXCEPT ![o] = @ \cup Refused(o)]
             /\ UNCHANGED lane
    <2>1. Refused(o) \in SUBSET Excuses
      BY DEF Refused, Excuses
    <2>2. /\ result' \in [Downloads -> {"none", "ok", "error"}] /\ result'[o] = "error"
          /\ \A x \in Downloads \ {o} : result'[x] = result[x]
      BY <1>1, <1>3
    <2>3. pc'[o] = "answered"
      BY <1>1, <1>3
    <2>4. QED
      BY <1>1, <1>3, <2>1, <2>2, <2>3, GiveUp DEF CleanUp
  <1>4. QED
    BY <1>2, <1>3 DEF CleanUp

\* CleanedUp: the reply of that removal.
LEMMA CleanedUpStep ==
    ASSUME Base, NEW o \in Downloads, CleanedUp(o)
    PROVE  Base' /\ Adds(o, {})
  <1>1. "answered" \in PCs \ {"idle"} /\ sent' \in [Downloads -> 0..Parts]
    BY DEF Base, Typed, CleanedUp, PCs, Active
  <1>2. /\ result' \in [Downloads -> {"none", "ok", "error"}] /\ result'[o] = "error"
        /\ \A x \in Downloads \ {o} : result'[x] = result[x]
    BY DEF Base, Typed, CleanedUp
  <1>3. reply'[o] = "none" /\ pc'[o] = "answered"
    BY <1>1, ConsumeFacts DEF CleanedUp
  <1>4. Control(o)'
    <2>1. Control(o)
      BY DEF Base
    <2>2. QED
      BY <1>2, <1>3, <2>1 DEF Control, CleanedUp, Inner, history
  <1>5. QED
    BY <1>1, <1>2, <1>4, ConsumeStep DEF CleanedUp, Dropped

\* Sweep: the cleanup after a cancellation queues a removal, or is refused it.
LEMMA SweepStep ==
    ASSUME Base, NEW o \in Downloads, Sweep(o)
    PROVE  Base' /\ IF pc'[o] = "sweeping" THEN Adds(o, {"remove"}) ELSE Adds(o, {})
  <1>1. Control(o) /\ pc[o] = "stopping" /\ pc \in [Downloads -> PCs]
        /\ opt \in [Downloads -> [atomic : BOOLEAN, overwrite : BOOLEAN]]
    BY DEF Base, Typed, Sweep
  <1>2. CASE HasRoom /\ Await(o, "remove", 0, "sweeping") /\ UNCHANGED <<result, excuse>>
    <2>1. "sweeping" \in PCs \ {"idle"} /\ 0 \in 0..Parts /\ "remove" \notin Main
      BY DownloadAssumption DEF PCs, Main
    <2>2. Control(o)'
      BY <1>1, <1>2 DEF Control, Sweep, Await, Inner
    <2>3. pc'[o] = "sweeping"
      BY <1>1, <1>2 DEF Await
    <2>4. QED
      BY <1>1, <1>2, <2>3, <2>1, <2>2, AwaitStep DEF Sweep, Removing, history
  <1>3. CASE /\ ~HasRoom /\ pc' = [pc EXCEPT ![o] = "done"] /\ result' = Told(o)
             /\ excuse' = [excuse EXCEPT ![o] = @ \cup {"refused"}] /\ UNCHANGED lane
    <2>1. {"refused"} \in SUBSET Excuses
      BY DEF Excuses
    <2>2. pc'[o] = "done"
      BY <1>1, <1>3
    <2>3. QED
      BY <1>1, <1>3, <2>1, <2>2, ToldTyped, GiveUp DEF Sweep
  <1>4. QED
    BY <1>2, <1>3 DEF Sweep

\* Swept: the reply of that removal.
LEMMA SweptStep ==
    ASSUME Base, NEW o \in Downloads, Swept(o)
    PROVE  Base' /\ Adds(o, {})
  <1>1. "done" \in PCs \ {"idle"} /\ sent' \in [Downloads -> 0..Parts]
    BY DEF Base, Typed, Swept, PCs
  <1>2. reply'[o] = "none" /\ pc'[o] = "done"
    BY <1>1, ConsumeFacts DEF Swept
  <1>3. Control(o)'
    <2>1. Control(o)
      BY DEF Base
    <2>2. QED
      BY <1>2, <2>1 DEF Control, Swept, Inner, history
  <1>4. QED
    BY <1>1, <1>3, ToldTyped, ConsumeStep DEF Swept, Dropped

-----------------------------------------------------------------------------
(* Futures that are dropped *)

\* The futures of the downloads in D are dropped: their jobs stay, awaited by nobody.
LEMMA DropFacts ==
    ASSUME Base, NEW D \in SUBSET Downloads, Drop(D)
    PROVE  /\ LaneOK(lane, worker)' /\ J' = {Orphan(j, D) : j \in J}
           /\ Len(lane') = Len(lane)
           /\ reply' \in [Downloads -> {"none", "ok", "error"}]
           /\ \A x \in Downloads : reply'[x] = IF x \in D THEN "none" ELSE reply[x]
  <1>1. LaneOK(lane, worker)
    BY DEF Base
  <1>2. lane' = OrphanedLane(lane, D) /\ worker' = OrphanedWorkers(worker, D)
    BY DEF Drop, OrphanLane, OrphanWorkers, OrphanedLane, OrphanedWorkers
  <1>3. LaneOK(lane, worker)' /\ J' = {Orphan(j, D) : j \in J} /\ Len(lane') = Len(lane)
    BY <1>1, <1>2, DropKeeps DEF J
  <1>4. /\ reply' \in [Downloads -> {"none", "ok", "error"}]
        /\ \A x \in Downloads : reply'[x] = IF x \in D THEN "none" ELSE reply[x]
    BY DEF Drop, Forget, Base, Typed
  <1>5. QED
    BY <1>3, <1>4

\* Job j is what is left of job i when the futures of the downloads in D are dropped.
Left(j, i, D) ==
    /\ j.op = i.op /\ j.kind = i.kind /\ j.part = i.part
    /\ (j.live <=> i.live /\ i.op \notin D) /\ j.live \in BOOLEAN
    /\ i.live \in BOOLEAN /\ i.op \in Downloads /\ JobOK(i)
    /\ i.kind \in Main \cup {"remove"} /\ (i.op \notin D => j = i)

\* Orphan gives such a job.
LEMMA OrphanLeft ==
    ASSUME Base, NEW D \in SUBSET Downloads, NEW i \in J
    PROVE  Left(Orphan(i, D), i, D)
  <1>1. i \in Jobs /\ JobOK(i) /\ i.op \in Downloads /\ i.kind \in Main \cup {"remove"}
        /\ i.live \in BOOLEAN
    BY JobFacts
  <1>2. PICK j : j = Orphan(i, D)
    OBVIOUS
  <1>3. i.op \notin D => j = i
    BY <1>1, <1>2 DEF Orphan, Jobs
  <1>4. j \in Jobs /\ j.op = i.op /\ j.kind = i.kind /\ j.part = i.part
        /\ (j.live <=> i.live /\ i.op \notin D)
    BY <1>1, <1>2, OrphanFacts
  <1>5. j.live \in BOOLEAN
    BY <1>4 DEF Jobs
  <1>6. Left(j, i, D)
    BY <1>1, <1>3, <1>4, <1>5 DEF Left
  <1>7. QED
    BY <1>2, <1>6

\* Every job after a drop is one of before.
LEMMA DroppedJob ==
    ASSUME Base, NEW D \in SUBSET Downloads, Drop(D), NEW j \in J'
    PROVE  \E i \in J : Left(j, i, D)
  BY DropFacts, OrphanLeft

\* A drop takes no job off the lane.
LEMMA SameKinds ==
    ASSUME Base, NEW D \in SUBSET Downloads, Drop(D)
    PROVE  \A x : Outstanding(x)' = Outstanding(x)
  <1>1. \A i \in J : Orphan(i, D) \in J' /\ Left(Orphan(i, D), i, D)
    BY DropFacts, OrphanLeft
  <1>2. \A j \in J' : \E i \in J : Left(j, i, D)
    BY DroppedJob
  <1>3. \A x : Outstanding(x)' \subseteq Outstanding(x)
    BY <1>2, OutstandingNow, OutstandingThen DEF Left
  <1>4. \A x : Outstanding(x) \subseteq Outstanding(x)'
    BY <1>1, OutstandingNow, OutstandingThen DEF Left
  <1>5. QED
    BY <1>3, <1>4

\* What a drop notes: why, if a rename was under way, and the open it left behind.
LEMMA LateIs ==
    ASSUME Base, NEW o \in Downloads, NEW why \in {"deadline", "cancel"}
    PROVE  /\ Late(o, why) \in SUBSET Excuses
           /\ pc[o] = "finalizing" => why \in Late(o, why)
           /\ \A j \in J : j.op = o /\ j.kind = "create" => "create" \in Late(o, why)
  <1>1. \A j \in J : j.op = o /\ j.kind = "create" => "create" \in Outstanding(o)
    BY OutstandingNow
  <1>2. QED
    BY <1>1 DEF Late, Excuses

\* The future of one download is dropped.
LEMMA DropStep ==
    ASSUME Base, NEW o \in Downloads, Drop({o}),
           NEW to \in {"failed", "done", "stopping"}, pc' = [pc EXCEPT ![o] = to],
           pc[o] \in {"preparing"} \cup Active,
           to = "failed" => pc[o] \in Inner,
           UNCHANGED <<file, opt, sent, driver, first, began, rival>>,
           result' \in [Downloads -> {"none", "ok", "error"}],
           \A x \in Downloads \ {o} : result'[x] = result[x],
           result[o] # "ok" => result'[o] # "ok",
           to = "failed" => result' = result,
           NEW why \in {"deadline", "cancel"},
           excuse' = [excuse EXCEPT ![o] = @ \cup Late(o, why)]
    PROVE  Base' /\ Adds(o, {})
  <1>1. pc'[o] = to /\ \A x \in Downloads \ {o} : pc'[x] = pc[x]
    BY DEF Base, Typed
  <1>2. LaneOK(lane, worker)' /\ Len(lane') = Len(lane)
        /\ reply' \in [Downloads -> {"none", "ok", "error"}] /\ reply'[o] = "none"
        /\ \A x \in Downloads \ {o} : reply'[x] = reply[x]
    BY DropFacts
  <1>3. /\ excuse' \in [Downloads -> SUBSET Excuses]
           /\ excuse'[o] = excuse[o] \cup Late(o, why)
        /\ \A x \in Downloads \ {o} : excuse'[x] = excuse[x]
    BY LateIs DEF Base, Typed
  <1>4. Typed'
    BY <1>2, <1>3 DEF Base, Typed, PCs, Active
  <1>5. Control(o)'
    <2>1. Control(o)
      BY DEF Base
    <2>2. QED
      BY <1>1, <1>2, <2>1 DEF Control, Inner, Active
  <1>6. ASSUME NEW j \in J'
        PROVE  IF j.op = o THEN JobOK(j)' ELSE j \in J
    <2>1. PICK i \in J : Left(j, i, {o})
      BY DroppedJob
    <2>2. CASE j.op # o
      BY <2>1, <2>2 DEF Left
    <2>3. CASE j.op = o
      <3>1. ~j.live /\ pc'[o] \in Dropped
        BY <1>1, <2>1, <2>3 DEF Dropped, Left
      <3>2. j.kind = "create" => j.op \notin began /\ "create" \in Late(o, why)
        BY <2>1, <2>3, LateIs DEF JobOK, Left
      <3>3. j.kind \in {"append", "finalize"} => j.op \in began
        BY <2>1 DEF JobOK, Left
      <3>4. j.kind = "finalize" => opt[o].atomic
        BY <2>1, <2>3 DEF JobOK, Left
      <3>5. j.kind = "finalize" => excuse'[o] \cap {"deadline", "cancel"} # {}
        <4>1. CASE i.live
          BY <1>3, <2>1, <2>3, <4>1, LateIs DEF JobOK, Phase, Main, Left
        <4>2. CASE ~i.live
          BY <1>3, <2>1, <2>3, <4>2 DEF JobOK, Left
        <4>3. QED
          BY <2>1, <4>1, <4>2 DEF Left
      <3>6. j.kind \in Main => result'[o] # "ok"
        BY <2>1, <2>3 DEF JobOK, Left
      <3>7. QED
        BY <1>3, <2>1, <2>3, <3>1, <3>2, <3>3, <3>4, <3>5, <3>6 DEF JobOK, Main, Left
    <2>4. QED
      BY <2>2, <2>3
  <1>7. pc'[o] # "idle"
    BY <1>1
  <1>8. QED
    BY <1>1, <1>2, <1>3, <1>4, <1>5, <1>6, <1>7, SameKinds, OwnStep DEF Adds

\* Timeout: the deadline of a download passes.
LEMMA TimeoutStep ==
    ASSUME Base, NEW o \in Downloads, Timeout(o)
    PROVE  Base' /\ Adds(o, {})
  <1>1. CASE pc[o] \in Inner
    BY <1>1, DropStep DEF Timeout, Base, Typed, Active
  <1>2. CASE pc[o] \notin Inner
    <2>1. pc[o] = "preparing" /\ pc' = [pc EXCEPT ![o] = "done"]
          /\ result' = [result EXCEPT ![o] = "error"]
      BY <1>2 DEF Timeout
    <2>2. /\ result' \in [Downloads -> {"none", "ok", "error"}] /\ result'[o] = "error"
          /\ \A x \in Downloads \ {o} : result'[x] = result[x]
      BY <2>1 DEF Base, Typed
    <2>3. QED
      BY <2>1, <2>2, DropStep DEF Timeout
  <1>3. QED
    BY <1>1, <1>2

\* Cancel: the caller cancels it.
LEMMA CancelStep ==
    ASSUME Base, NEW o \in Downloads, Cancel(o)
    PROVE  Base' /\ Adds(o, {})
  <1>1. CASE pc' = [pc EXCEPT ![o] = "stopping"] /\ UNCHANGED result
    BY <1>1, DropStep DEF Cancel, Base, Typed
  <1>2. CASE pc' = [pc EXCEPT ![o] = "done"] /\ result' = Told(o)
    BY <1>2, ToldTyped, DropStep DEF Cancel
  <1>3. QED
    BY <1>1, <1>2 DEF Cancel

\* ShutCancel: the driver cancels it as it shuts down.
LEMMA ShutCancelStep ==
    ASSUME Base, NEW o \in Downloads, ShutCancel(o)
    PROVE  Base' /\ IF pc'[o] = "shutSweeping" THEN Adds(o, {"remove"}) ELSE Adds(o, {})
  <1>1. pc[o] \in Active /\ LaneOK(lane, worker)
    BY DEF ShutCancel, Base
  <1>2. PICK D \in SUBSET Downloads : D = {o}
    OBVIOUS
  <1>3. PICK l2, ws2, job : /\ l2 = OrphanedLane(lane, D)
               /\ ws2 = OrphanedWorkers(worker, D)
                            /\ job = Job(o, "remove", 0)
    OBVIOUS
  <1>4. /\ LaneOK(l2, ws2) /\ Len(l2) = Len(lane)
        /\ JobsOf(l2, ws2) = {Orphan(j, D) : j \in J}
    BY <1>1, <1>3, DropKeeps DEF J
  <1>5. OrphanLane({o}) = l2 /\ worker' = ws2
    BY <1>2, <1>3 DEF ShutCancel, OrphanLane, OrphanWorkers, OrphanedLane, OrphanedWorkers
  <1>6. ASSUME NEW j \in JobsOf(l2, ws2)
        PROVE  \E i \in J : Left(j, i, {o})
    BY <1>4, <1>2, OrphanLeft
  <1>7. job \in Jobs /\ Fits(job) /\ job.op = o /\ job.kind = "remove" /\ job.live = TRUE
    <2>1. 0 \in 0..Parts /\ "remove" \in Main \cup {"remove"}
      BY DownloadAssumption
    <2>2. QED
      BY <1>3, <2>1, JobTyped DEF Job
  <1>8. \A j \in JobsOf(l2, ws2) : ~Clash(j, job)
    BY <1>6, <1>7 DEF Clash, Main, Left
  <1>9. LaneOK(Append(l2, job), ws2)
        /\ JobsOf(Append(l2, job), ws2) = JobsOf(l2, ws2) \cup {job}
    BY <1>4, <1>7, <1>8, AwaitKeeps
  <1>10. PICK to \in {"shutSweeping", "done"} :
          /\ pc' = [pc EXCEPT ![o] = to]
          /\ lane' = IF to = "done" THEN l2 ELSE Append(l2, job)
          /\ to = "shutSweeping" => HasRoom
    <2>1. CASE /\ opt[o].atomic /\ HasRoom
               /\ lane' = Append(OrphanLane({o}), Job(o, "remove", 0))
               /\ pc' = [pc EXCEPT ![o] = "shutSweeping"]
      <3> WITNESS "shutSweeping" \in {"shutSweeping", "done"}
      <3> QED
        BY <1>5, <1>3, <2>1
    <2>2. CASE lane' = OrphanLane({o}) /\ pc' = [pc EXCEPT ![o] = "done"]
      <3> WITNESS "done" \in {"shutSweeping", "done"}
      <3> QED
        BY <1>5, <2>2
    <2>3. QED
      BY <2>1, <2>2 DEF ShutCancel
  <1>11. LaneOK(lane, worker)' /\ J' \subseteq JobsOf(l2, ws2) \cup {job}
        /\ (to = "done" => J' = JobsOf(l2, ws2))
    BY <1>4, <1>5, <1>9, <1>10 DEF J
  <1>12. Len(lane') <= LaneCapacity
    <2>1. l2 \in Seq(Jobs)
      BY <1>4 DEF LaneOK
    <2>2. Len(lane) <= LaneCapacity
      BY DEF Base, Typed
    <2>3. QED
      BY <1>4, <1>7, <1>10, <2>1, <2>2, DownloadAssumption DEF HasRoom
  <1>13. /\ reply' \in [Downloads -> {"none", "ok", "error"}] /\ reply'[o] = "none"
         /\ \A x \in Downloads \ {o} : reply'[x] = reply[x]
    BY DEF ShutCancel, Forget, Base, Typed
  <1>14. /\ excuse' \in [Downloads -> SUBSET Excuses]
         /\ excuse[o] \cup Late(o, "cancel") \subseteq excuse'[o]
         /\ \A x \in Downloads \ {o} : excuse'[x] = excuse[x]
    <2>1. Late(o, "cancel") \in SUBSET Excuses /\ Refused(o) \in SUBSET Excuses
      BY LateIs DEF Refused, Excuses
    <2>2. PICK also \in {{}, Refused(o)} :
             excuse' = [excuse EXCEPT ![o] = @ \cup Late(o, "cancel") \cup also]
      <3>1. CASE excuse' = [excuse EXCEPT ![o] = @ \cup Late(o, "cancel")]
        BY <3>1
      <3>2. CASE excuse' = [excuse EXCEPT ![o] = @ \cup Late(o, "cancel") \cup Refused(o)]
        BY <3>2
      <3>3. QED
        BY <3>1, <3>2 DEF ShutCancel
    <2>3. excuse \in [Downloads -> SUBSET Excuses] /\ also \in SUBSET Excuses
      BY <2>1, <2>2 DEF Base, Typed
    <2>4. QED
      BY <2>1, <2>2, <2>3
  <1>15. /\ result' \in [Downloads -> {"none", "ok", "error"}]
         /\ \A x \in Downloads \ {o} : result'[x] = result[x]
         /\ result[o] # "ok" => result'[o] # "ok"
    BY ToldTyped DEF ShutCancel, Base, Typed
  <1>16. pc'[o] = to /\ \A x \in Downloads \ {o} : pc'[x] = pc[x]
    BY <1>10 DEF Base, Typed
  <1>17. Typed'
    BY <1>10, <1>12, <1>13, <1>14, <1>15 DEF Base, Typed, ShutCancel, PCs
  <1>18. Control(o)'
    <2>1. Control(o)
      BY DEF Base
    <2>2. QED
      BY <1>13, <1>16, <2>1 DEF Control, Inner, Active, ShutCancel
  <1>19. ASSUME NEW j \in J'
         PROVE  IF j.op = o THEN JobOK(j)' ELSE j \in J
    <2>1. CASE j = job
      <3>1. to = "shutSweeping" \/ j \in JobsOf(l2, ws2)
        BY <1>10, <1>11, <1>19
      <3>2. j \notin JobsOf(l2, ws2)
        BY <1>6, <1>7, <2>1 DEF Left
      <3>3. QED
        BY <1>7, <1>13, <1>16, <2>1, <3>1, <3>2 DEF JobOK, Removing, Main
    <2>2. CASE j \in JobsOf(l2, ws2)
      <3>1. PICK i \in J : Left(j, i, {o})
        BY <1>6, <2>2
      <3>2. CASE j.op # o
        BY <3>1, <3>2 DEF Left
      <3>3. CASE j.op = o
        <4>1. ~j.live /\ pc'[o] \in Dropped
          BY <1>16, <3>1, <3>3 DEF Dropped, Left
        <4>2. j.kind = "create" => j.op \notin began /\ "create" \in excuse'[o]
          BY <1>14, <3>1, <3>3, LateIs DEF JobOK, Left
        <4>3. j.kind \in {"append", "finalize"} => j.op \in began
          BY <3>1 DEF JobOK, Left
        <4>4. j.kind = "finalize" => opt[o].atomic
          BY <3>1, <3>3 DEF JobOK, Left
        <4>5. j.kind = "finalize" => excuse'[o] \cap {"deadline", "cancel"} # {}
          <5>1. CASE i.live
            BY <1>14, <3>1, <3>3, <5>1, LateIs DEF JobOK, Phase, Main, Left
          <5>2. CASE ~i.live
            BY <1>14, <3>1, <3>3, <5>2 DEF JobOK, Left
          <5>3. QED
            BY <3>1, <5>1, <5>2 DEF Left
        <4>6. j.kind \in Main => result'[o] # "ok"
          BY <1>15, <3>1, <3>3 DEF JobOK, Left
        <4>7. UNCHANGED <<opt, began>>
          BY DEF ShutCancel
        <4>8. QED
          BY <3>1, <3>3, <4>1, <4>2, <4>3, <4>4, <4>5, <4>6, <4>7 DEF JobOK, Main, Left
      <3>4. QED
        BY <3>2, <3>3
    <2>3. QED
      BY <1>11, <1>19, <2>1, <2>2
  <1>20. pc'[o] # "idle"
    BY <1>16
  <1>21. Base'
    BY <1>11, <1>13, <1>14, <1>15, <1>16, <1>17, <1>18, <1>19, <1>20, OwnStep DEF ShutCancel
  <1>22. IF to = "done" THEN J' = JobsOf(l2, ws2) ELSE J' = JobsOf(l2, ws2) \cup {job}
    BY <1>4, <1>5, <1>9, <1>10 DEF J
  <1>23. /\ \A i \in J : \E j \in JobsOf(l2, ws2) : Left(j, i, {o})
         /\ \A j \in JobsOf(l2, ws2) : \E i \in J : Left(j, i, {o})
    BY <1>4, <1>6, <1>2, OrphanLeft
  <1>24. \A x : {j.kind : j \in {i \in JobsOf(l2, ws2) : i.op = x}} = Outstanding(x)
    <2>1. \A x : {j.kind :
          j \in {i \in JobsOf(l2, ws2) : i.op = x}} \subseteq Outstanding(x)
      BY <1>23, OutstandingNow DEF Left
    <2>2. \A x : Outstanding(x) \subseteq {j.kind :
          j \in {i \in JobsOf(l2, ws2) : i.op = x}}
      BY <1>23, OutstandingNow DEF Left
    <2>3. QED
      BY <2>1, <2>2
  <1>25. to = "done" => Adds(o, {})
    BY <1>22, <1>24, OutstandingThen DEF Adds
  <1>26. to # "done" => Adds(o, {"remove"})
    BY <1>7, <1>22, <1>24, OutstandingThen DEF Adds
  <1>27. QED
    BY <1>16, <1>21, <1>25, <1>26

\* Shutdown: the driver closes its queue.
LEMMA ShutdownStep ==
    ASSUME Base, Shutdown
    PROVE  Base' /\ \A x : Outstanding(x)' = Outstanding(x)
  <1>1. PICK D \in SUBSET Downloads : D = {o \in Downloads : pc[o] = "preparing"}
    OBVIOUS
  <1>2. /\ driver = "open" /\ driver' = "shutting" /\ Drop(D)
        /\ pc' = [o \in Downloads |-> IF o \in D THEN "done" ELSE pc[o]]
        /\ UNCHANGED <<file, opt, sent, result, first, began, rival, excuse>>
    BY <1>1 DEF Shutdown, history
  <1>3. /\ LaneOK(lane, worker)' /\ Len(lane') = Len(lane)
        /\ reply' \in [Downloads -> {"none", "ok", "error"}]
        /\ \A x \in Downloads : reply'[x] = IF x \in D THEN "none" ELSE reply[x]
    BY <1>2, DropFacts
  <1>4. /\ \A x \in Downloads : pc'[x] = IF x \in D THEN "done" ELSE pc[x]
        /\ \A x \in D : pc[x] = "preparing"
        /\ pc' \in [Downloads -> PCs]
    BY <1>1, <1>2 DEF Base, Typed, PCs
  <1>5. Typed'
    BY <1>2, <1>3, <1>4 DEF Base, Typed
  <1>6. ASSUME NEW j \in J'
        PROVE  JobOK(j)'
    <2>1. PICK i \in J : Left(j, i, D)
      BY <1>2, DroppedJob
    <2>2. CASE i.op \in D
      <3>1. i.kind = "create" => i.live
        BY <1>4, <2>1, <2>2 DEF Left, JobOK, Main, Dropped, Phase
      <3>2. i.kind \in Main => i.kind = "prepare"
        BY <1>4, <2>1, <2>2 DEF Left, JobOK, Main, Dropped, Phase
      <3>3. i.kind = "prepare"
        BY <1>4, <2>1, <2>2, <3>2 DEF Left, JobOK, Dropped, Removing
      <3>4. QED
        BY <1>2, <1>4, <2>1, <2>2, <3>3 DEF Left, JobOK, Dropped, Main
    <2>3. CASE i.op \notin D
      BY <1>2, <1>3, <1>4, <2>1, <2>3 DEF Left, JobOK
    <2>4. QED
      BY <2>2, <2>3
  <1>7. ASSUME NEW x \in Downloads
        PROVE  Control(x)'
    <2>1. Control(x) /\ (pc[x] = "preparing" <=> x \in D)
      BY <1>1 DEF Base
    <2>2. QED
      BY <1>2, <1>3, <1>4, <2>1 DEF Control, Inner
  <1>8. TwoMet'
    BY <1>2, <1>4 DEF Base, TwoMet
  <1>9. \A x : Outstanding(x)' = Outstanding(x)
    BY <1>2, SameKinds
  <1>10. QED
    BY <1>9, <1>3, <1>5, <1>6, <1>7, <1>8 DEF Base, JobsOK

\* Stop: the driver is done, and drops every future.
LEMMA StopStep ==
    ASSUME Base, Stop
    PROVE  Base' /\ \A x : Outstanding(x)' = Outstanding(x)
  <1>1. LaneOK(lane, worker)' /\ J' = J
    BY DEF Base, J, Stop
  <1>2. PICK left \in SUBSET Downloads :
               left = {o \in Downloads : pc[o] \in {"stopping", "sweeping"}}
    OBVIOUS
  <1>3. /\ pc' \in [Downloads -> PCs]
        /\ \A x \in Downloads : pc'[x] = IF x \in left THEN "done" ELSE pc[x]
    BY <1>2 DEF Stop, Base, Typed, PCs
  <1>4. /\ result' \in [Downloads -> {"none", "ok", "error"}]
        /\ \A x \in Downloads : result'[x] = IF pc[x] # "idle" /\ result[x] = "none"
           THEN "error" ELSE result[x]
    BY DEF Stop, Base, Typed
  <1>5. /\ excuse' \in [Downloads -> SUBSET Excuses]
        /\ \A x \in Downloads : excuse[x] \subseteq excuse'[x]
    BY DEF Stop, Base, Typed, Excuses
  <1>6. Typed'
    BY <1>3, <1>4, <1>5 DEF Base, Typed, Stop
  <1>7. ASSUME NEW j \in J
        PROVE  JobOK(j)'
    <2>1. JobOK(j) /\ j.op \in Downloads /\ j.live \in BOOLEAN
          /\ j.kind \in Main \cup {"remove"}
      BY JobFacts
    <2>2. \/ pc'[j.op] = pc[j.op]
          \/ pc'[j.op] = "done" /\ pc[j.op] \in {"stopping", "sweeping"}
      BY <1>2, <1>3, <2>1
    <2>3. result'[j.op] = result[j.op] \/ result'[j.op] = "error"
      BY <1>4, <2>1
    <2>4. QED
      BY <1>5, <2>1, <2>2, <2>3 DEF JobOK, Stop, Main, Dropped, Removing, Phase
  <1>8. ASSUME NEW x \in Downloads
        PROVE  Control(x)'
    <2>1. Control(x) /\ pc[x] \notin Active /\ pc[x] \in PCs /\ driver = "shutting"
      BY DEF Base, Stop, Typed
    <2>2. pc'[x] = pc[x] \/ pc'[x] = "done"
      BY <1>3
    <2>3. pc[x] \in {"idle", "done", "stopping", "sweeping", "shutSweeping"}
      BY <2>1 DEF Control, PCs
    <2>4. QED
      BY <1>2, <1>3, <1>4, <2>1, <2>2, <2>3 DEF Control, Inner, Stop
  <1>9. TwoMet'
    BY <1>3 DEF Base, TwoMet, Stop
  <1>10. QED
    BY <1>1, SameJobs, <1>6, <1>7, <1>8, <1>9 DEF Base, JobsOK

-----------------------------------------------------------------------------
(* Types *)

\* Base holds at the start.
LEMMA InitBase == Init => Base
  <1> SUFFICES ASSUME Init PROVE Base
    OBVIOUS
  <1>1. Old \in Content
    <2>1. <<"disk", 0>> \in (Downloads \cup {"disk"}) \X (0..Parts)
      BY DownloadAssumption
    <2>2. QED
      BY <2>1 DEF Old, Content
  <1>2. FileOK(file) /\ first = file
    BY <1>1 DEF Init, FileOK
  <1>3. Typed
    <2>1. Len(lane) <= LaneCapacity
      BY DownloadAssumption DEF Init
    <2>2. sent \in [Downloads -> 0..Parts] /\ excuse \in [Downloads -> SUBSET Excuses]
      BY DownloadAssumption DEF Init
    <2>3. QED
      BY <1>2, <2>1, <2>2 DEF Init, Typed, PCs
  <1>4. Busy(worker) = {} /\ J = {}
    BY DEF Init, Busy, Idle, J, JobsOf
  <1>5. LaneOK(lane, worker)
    BY <1>4, IdleTyped DEF Init, LaneOK, J
  <1>6. TwoMet /\ \A o \in Downloads : Control(o)
    BY DEF Init, TwoMet, Control, Inner
  <1>7. QED
    BY <1>3, <1>4, <1>5, <1>6 DEF Base, JobsOK

\* A step of a download's future keeps Base.
LEMMA OneStep ==
    ASSUME Base, NEW o \in Downloads, Step(o)
    PROVE  Base'
  <1>1. CASE NoResponse(o)
    <2>1. Go(o, "sending", "failed") /\ "sending" \in PCs /\ "failed" \in PCs \ {"idle"}
      BY <1>1 DEF NoResponse, PCs, Inner, Active
    <2>2. QED
      BY <2>1, GoStep
  <1>2. CASE BadRedirect(o)
    <2>1. Go(o, "sending", "fail") /\ "sending" \in PCs /\ "fail" \in PCs \ {"idle"}
      BY <1>2 DEF BadRedirect, PCs, Inner, Active
    <2>2. QED
      BY <2>1, GoStep
  <1>3. CASE BrokenBody(o)
    <2>1. PICK from \in {"sending", "streaming"} : Go(o, from, "fail")
      BY <1>3 DEF BrokenBody
    <2>2. from \in PCs /\ "fail" \in PCs \ {"idle"}
      BY DEF PCs, Inner, Active
    <2>3. QED
      BY <2>1, <2>2, GoStep
  <1>4. CASE Retire(o)
    BY <1>4, GoStep DEF Retire, PCs, Inner, Active
  <1>5. QED
    BY <1>1, <1>2, <1>3, <1>4, PreparedStep, ResponseStep, CreatedStep, FrameStep,
       AppendedStep, WholeStep, FinalizedStep, DiscardStep, DiscardedStep, CleanUpStep,
       CleanedUpStep
       DEF Step

\* Base is inductive.
LEMMA BaseKept == Base /\ [Next]_vars => Base'
  <1> SUFFICES ASSUME Base, [Next]_vars PROVE Base'
    OBVIOUS
  <1>1. CASE UNCHANGED vars
    <2>1. UNCHANGED <<file, opt, pc, sent, reply, result, lane, worker, driver, first,
          began, rival, excuse>>
      BY <1>1 DEF vars
    <2>2. QED
      BY <2>1 DEF Base, Typed, JobsOK, JobOK, TwoMet, Control, J
  <1>2. CASE Next
    <2>1. ASSUME NEW w \in Workers, Take(w) \/ Call(w)
          PROVE  Base'
      BY <2>1, TakeStep, CallStep
    <2>2. ASSUME NEW o \in Downloads,
                 Submit(o) \/ Step(o) \/ Timeout(o) \/ Cancel(o) \/ Sweep(o) \/ Swept(o)
                   \/ ShutCancel(o)
          PROVE  Base'
      BY <2>2, SubmitStep, OneStep, TimeoutStep, CancelStep, SweepStep, SweptStep,
         ShutCancelStep
    <2>3. QED
      BY <1>2, <2>1, <2>2, ShutdownStep, StopStep DEF Next
  <1>3. QED
    BY <1>1, <1>2

\* Every variable of the downloads, of the file lane and of the file system keeps its
\* type: the queue of the lane never exceeds its capacity, a reply and what a caller is
\* told are one of three, and a file holds parts of bodies only (FileLane::new and
\* FileLane::submit, runtime.rs).
THEOREM TypeCorrect == Spec => []TypeOK
  <1>1. Init => Base
    BY InitBase
  <1>2. Base /\ [Next]_vars => Base'
    BY BaseKept
  <1>3. Base => TypeOK
    BY BaseTyped
  <1>4. QED
    BY <1>1, <1>2, <1>3, PTL DEF Spec

-----------------------------------------------------------------------------
(* What the files hold *)

\* The first k parts of the body of download o.
Prefix(o, k) == [i \in 1..k |-> <<o, i>>]
\* Path p holds content c.
Holds(p, c) == Exists(p) /\ file[p] = c
\* Every part of content c is download o's.
Own(o, c) == \A i \in DOMAIN c : c[i][1] = o

\* Download o has opened its output and may still write it.
Engaged(o) == o \in began /\ (result[o] = "none" \/ Outstanding(o) # {})

\* What the output of a download holds at each place of its future: what it appended
\* so far, its whole body under the final name once the rename was answered, and while
\* a rename is left in the lane, the temporary file is whole.
WrittenSoFar(o) ==
    /\ pc[o] = "creating" /\ reply[o] = "ok" => Holds(Output(o), <<>>)
    /\ pc[o] = "streaming" => Holds(Output(o), Prefix(o, sent[o]))
    /\ pc[o] = "appending" /\ reply[o] = "none" => Holds(Output(o), Prefix(o, sent[o]))
    /\ pc[o] = "appending" /\ reply[o] = "ok" => Holds(Output(o), Prefix(o, sent[o] + 1))
    /\ pc[o] = "finalizing" /\ reply[o] = "none" => Exists("temp")
    /\ pc[o] = "finalizing" /\ reply[o] = "ok" => ~Exists("temp") /\ Holds("dest", Body(o))
    /\ "finalize" \in Outstanding(o) /\ Exists("temp") => file["temp"] = Body(o)

\* A download that writes in place finds nothing of another's in its destination.
DestOwned(o) ==
    (/\ o \in began /\ ~opt[o].atomic
     /\ result[o] = "none" \/ "append" \in Outstanding(o)
     /\ Exists("dest")) => Own(o, file["dest"])

\* Both, while no two downloads shared a file.
Written(o) == ~rival => WrittenSoFar(o) /\ DestOwned(o)

\* The places of a future that has not yet removed its output.
Owing == {"creating", "streaming", "appending", "fail", "discarding", "finalizing",
"failed",
          "stopping"}
\* An atomic download still has to remove its temporary file, or is excused: its open was
\* left behind, its removal was refused, or the driver stopped before it.
Owes(o) ==
    /\ o \in began /\ opt[o].atomic
    /\ \/ excuse[o] \cap {"create", "refused", "unswept"} # {}
       \/ pc[o] \in Owing
       \/ "remove" \in Outstanding(o)

\* No atomic download has opened its temporary file.
NoAtomicBegun == \A o \in began : ~opt[o].atomic
\* A temporary file is the one that was there at the start, or some download owes its
\* removal.
TempOwed ==
    ~rival /\ Exists("temp") =>
       \/ Same("temp") /\ NoAtomicBegun
       \/ \E o \in Downloads : Owes(o)

\* Download o awaits its rename, which has come to the rename(2).
Renaming(o) == pc[o] = "finalizing" /\ reply[o] = "none" /\ \E w \in Workers :
  worker[w].at = "rename"

\* The destination is what it was, or it is being replaced, or the caller was told ok,
\* or a fault or a drop during the rename is noted.
Accounted(o) ==
    \/ Same("dest")
    \/ excuse[o] \cap {"deadline", "cancel", "fault"} # {}
    \/ Renaming(o)
    \/ pc[o] = "finalizing" /\ reply[o] = "ok"
    \/ result[o] = "ok"

\* The destination of an atomic download that ran alone is accounted for; once its caller
\* was told ok, it holds the body.
DestKept(o) ==
    Alone(o) /\ (opt[o].atomic \/ pc[o] = "idle") =>
       /\ Accounted(o)
       /\ result[o] = "ok" => Holds("dest", Body(o))

\* What holds of the two paths.
Files ==
    /\ \A o \in Downloads : Written(o) /\ DestKept(o)
    /\ TempOwed /\ WholeUnlessRival

\* A prefix starts empty, grows by the next part, and ends as the body.
LEMMA PrefixFacts ==
    ASSUME NEW o
    PROVE  /\ Prefix(o, 0) = <<>> /\ Prefix(o, Parts) = Body(o)
           /\ \A k \in Nat : Append(Prefix(o, k), <<o, k + 1>>) = Prefix(o, k + 1)
  <1>1. Prefix(o, 0) = <<>>
    BY DEF Prefix
  <1>2. Prefix(o, Parts) = Body(o)
    BY DEF Prefix, Body
  <1>3. ASSUME NEW k \in Nat
        PROVE  Append(Prefix(o, k), <<o, k + 1>>) = Prefix(o, k + 1)
    <2> DEFINE s == Prefix(o, k)
               e == <<o, k + 1>>
    <2>1. s \in Seq({o} \X Nat) /\ Len(s) = k /\ \A i \in 1..k : s[i] = <<o, i>>
      BY DEF Prefix
    <2>2. e \in {o} \X Nat
      BY <1>3
    <2> HIDE DEF s, e
    <2>3. /\ Append(s, e) \in Seq({o} \X Nat) /\ Len(Append(s, e)) = k + 1
          /\ Append(s, e)[k + 1] = e /\ \A i \in 1..k : Append(s, e)[i] = s[i]
      BY <1>3, <2>1, <2>2
    <2>4. \A i \in 1..(k + 1) : Append(s, e)[i] = <<o, i>>
      BY <1>3, <2>1, <2>3 DEF e
    <2>5. Prefix(o, k + 1) \in Seq({o} \X Nat) /\ Len(Prefix(o, k + 1)) = k + 1
      BY <1>3 DEF Prefix
    <2>6. \A i \in 1..(k + 1) : Prefix(o, k + 1)[i] = <<o, i>>
      BY DEF Prefix
    <2>7. Append(s, e) = Prefix(o, k + 1)
      <3>1. k + 1 \in Nat
        BY <1>3
      <3>2. \A i \in 1..Len(Append(s, e)) : Append(s, e)[i] = Prefix(o, k + 1)[i]
        BY <2>3, <2>4, <2>6
      <3>3. QED
        BY <2>3, <2>5, <3>2, SeqEqual
    <2>8. QED
      BY <2>7 DEF s, e
  <1>4. QED
    BY <1>1, <1>2, <1>3

\* Nothing is claimed of the output of a download that is not engaged, ...
LEMMA WrittenEngaged ==
    ASSUME Base, NEW o \in Downloads, ~Engaged(o)
    PROVE  Written(o)
  <1>1. Control(o)
    BY DEF Base
  <1>2. o \notin began => "finalize" \notin Outstanding(o)
    BY JobFacts, OutstandingNow DEF JobOK
  <1>3. "append" \in Outstanding(o) => Outstanding(o) # {}
    OBVIOUS
  <1>4. "finalize" \in Outstanding(o) => Outstanding(o) # {}
    OBVIOUS
  <1>5. WrittenSoFar(o)
    BY <1>1, <1>2, <1>4 DEF Engaged, Control, Inner, WrittenSoFar
  <1>6. DestOwned(o)
    BY <1>3 DEF Engaged, DestOwned
  <1>7. QED
    BY <1>5, <1>6 DEF Written

\* ... nor after a step.
LEMMA WrittenEngagedNext ==
    ASSUME Base', NEW o \in Downloads, ~Engaged(o)'
    PROVE  Written(o)'
  <1>1. Control(o)'
    BY DEF Base
  <1>2. o \notin began' => "finalize" \notin Outstanding(o)'
    <2>1. \A j \in J' : JobOK(j)'
      BY DEF Base, JobsOK
    <2>2. QED
      BY <2>1, OutstandingThen DEF JobOK
  <1>3. "append" \in Outstanding(o)' => Outstanding(o)' # {}
    OBVIOUS
  <1>4. "finalize" \in Outstanding(o)' => Outstanding(o)' # {}
    OBVIOUS
  <1>5. WrittenSoFar(o)'
    BY <1>1, <1>2, <1>4 DEF Engaged, Control, Inner, WrittenSoFar
  <1>6. DestOwned(o)'
    BY <1>3 DEF Engaged, DestOwned
  <1>7. QED
    BY <1>5, <1>6 DEF Written

-----------------------------------------------------------------------------
(* The files and the steps of a future *)

\* What the steps of a future leave as it is.
Calm == UNCHANGED <<file, first, began, rival>>
\* A step leaves download x and its jobs alone.
Elsewhere(x) ==
    /\ pc'[x] = pc[x] /\ sent'[x] = sent[x] /\ reply'[x] = reply[x]
       /\ result'[x] = result[x]
    /\ opt'[x] = opt[x] /\ excuse'[x] = excuse[x] /\ Outstanding(x)' = Outstanding(x)

\* What its output holds, if the step is calm, is as before.
LEMMA WrittenElsewhere ==
    ASSUME Calm, NEW x \in Downloads, Elsewhere(x), Written(x)
    PROVE  Written(x)'
  BY DEF Calm, Elsewhere, Written, WrittenSoFar, DestOwned, Holds, Exists, Output

\* It owes what it owed.
LEMMA OwesElsewhere ==
    ASSUME began' = began, NEW x \in Downloads, Elsewhere(x), Owes(x)
    PROVE  Owes(x)'
  BY DEF Elsewhere, Owes

\* A step of one download's future keeps Files, if it does so for that download.
LEMMA FutureStep ==
    ASSUME Base, Base', Files, Calm, NEW o \in Downloads,
           \A x \in Downloads \ {o} : Elsewhere(x),
           o \in began => opt'[o] = opt[o],
           pc'[o] # "idle",
           pc[o] = "idle" \/ opt'[o] = opt[o],
           Written(o)',
           ~rival /\ Exists("temp") /\ Owes(o) => Owes(o)',
           DestKept(o)'
    PROVE  Files'
  <1>1. ASSUME NEW x \in Downloads
        PROVE  Written(x)' /\ DestKept(x)'
    <2>1. CASE x = o
      BY <2>1
    <2>2. CASE x # o
      <3>1. Written(x)'
        BY <2>2, WrittenElsewhere DEF Files
      <3>2. ~Alone(x)'
        BY <2>2 DEF Alone
      <3>3. QED
        BY <3>1, <3>2 DEF DestKept
    <2>3. QED
      BY <2>1, <2>2
  <1>2. \A x \in began : opt'[x] = opt[x]
    BY DEF Base, Typed, Elsewhere
  <1>3. TempOwed'
    <2>1. \A x \in Downloads : ~rival /\ Exists("temp") /\ Owes(x) => Owes(x)'
      BY OwesElsewhere DEF Calm
    <2>2. NoAtomicBegun => NoAtomicBegun'
      BY <1>2 DEF NoAtomicBegun, Calm
    <2>3. Same("temp") => Same("temp")'
      BY DEF Same, Calm, Exists
    <2>4. QED
      BY <2>1, <2>2, <2>3 DEF Files, TempOwed, Calm, Exists
  <1>4. WholeUnlessRival'
    BY <1>2 DEF Files, WholeUnlessRival, Calm, Exists, Body
  <1>5. QED
    BY <1>1, <1>3, <1>4 DEF Files

\* A step that concerns download o leaves the others alone.
LEMMA Others ==
    ASSUME NEW o \in Downloads, NEW kinds, Adds(o, kinds),
           \A x \in Downloads \ {o} :
              /\ pc'[x] = pc[x] /\ sent'[x] = sent[x] /\ reply'[x] = reply[x]
              /\ result'[x] = result[x] /\ opt'[x] = opt[x] /\ excuse'[x] = excuse[x]
    PROVE  \A x \in Downloads \ {o} : Elsewhere(x)
  BY DEF Adds, Elsewhere

\* A download that goes to a place where it does not write.
LEMMA WrittenQuiet ==
    ASSUME Calm, NEW o \in Downloads, Written(o), NEW kinds, Adds(o, kinds),
           kinds \cap {"append", "finalize"} = {},
           pc'[o] \notin {"creating", "streaming", "appending", "finalizing"},
           opt'[o] = opt[o], result'[o] = "none" => result[o] = "none"
    PROVE  Written(o)'
  BY DEF Calm, Adds, Written, WrittenSoFar, DestOwned, Holds, Exists, Output

\* A download goes on owing the removal of its output.
LEMMA OwesKept ==
    ASSUME Calm, NEW o \in Downloads, NEW kinds, Adds(o, kinds), opt'[o] = opt[o],
           excuse[o] \subseteq excuse'[o],
           \/ pc[o] \notin Owing
           \/ pc'[o] \in Owing
           \/ "remove" \in kinds
           \/ excuse'[o] \cap {"create", "refused", "unswept"} # {}
    PROVE  Owes(o) => Owes(o)'
  BY DEF Calm, Adds, Owes

\* A step of a future leaves the destination of a download that ran alone accounted for.
LEMMA DestQuiet ==
    ASSUME Base, Calm, NEW o \in Downloads, DestKept(o), Written(o),
           \A x \in Downloads \ {o} : Elsewhere(x), opt'[o] = opt[o], pc[o] # "idle",
           pc'[o] # "idle",
           excuse[o] \subseteq excuse'[o], result[o] = "ok" => result'[o] = "ok",
           pc[o] = "finalizing" =>
              \/ excuse'[o] \cap {"deadline", "cancel", "fault"} # {}
              \/ reply[o] = "ok" /\ result'[o] = "ok"
              \/ reply[o] = "error",
           result'[o] = "ok" =>
              result[o] = "ok" \/ ~opt[o].atomic
                \/ (pc[o] = "finalizing" /\ reply[o] = "ok")
    PROVE  DestKept(o)'
  <1> SUFFICES ASSUME Alone(o)', opt[o].atomic
               PROVE  Accounted(o)' /\ (result'[o] = "ok" => Holds("dest", Body(o))')
    BY DEF DestKept
  <1>1. Alone(o)
    BY DEF Alone, Elsewhere
  <1>2. Accounted(o) /\ (result[o] = "ok" => Holds("dest", Body(o)))
    BY <1>1 DEF DestKept
  <1>3. ~rival
    BY <1>1 DEF Base, TwoMet, Alone
  <1>4. CASE result'[o] = "ok"
    <2>1. Holds("dest", Body(o))
      BY <1>2, <1>3, <1>4 DEF Written, WrittenSoFar
    <2>2. Holds("dest", Body(o))'
      BY <2>1 DEF Holds, Exists, Calm, Body
    <2>3. QED
      BY <1>4, <2>2 DEF Accounted
  <1>5. CASE result'[o] # "ok"
    <2>1. Same("dest") \/ excuse[o] \cap {"deadline", "cancel", "fault"} # {}
            \/ excuse'[o] \cap {"deadline", "cancel", "fault"} # {}
      BY <1>2, <1>5 DEF Accounted, Renaming
    <2>2. Same("dest") => Same("dest")'
      BY DEF Same, Exists, Calm
    <2>3. QED
      BY <1>5, <2>1, <2>2 DEF Accounted
  <1>6. QED
    BY <1>4, <1>5

\* Submit.
LEMMA SubmitFiles ==
    ASSUME Base, Files, NEW o \in Downloads, Submit(o)
    PROVE  Files'
  <1>1. Base' /\ \E kinds : Adds(o, kinds)
    BY SubmitStep
  <1>2. Control(o) /\ pc[o] = "idle" /\ o \notin began /\ result[o] = "none" /\ Calm
    BY DEF Base, Submit, Control, Calm, history
  <1>3. /\ pc'[o] # "idle" /\ pc'[o] # "finalizing" /\ result'[o] # "ok"
        /\ reply' = reply /\ excuse' = excuse
        /\ \A x \in Downloads \ {o} :
              /\ pc'[x] = pc[x] /\ sent'[x] = sent[x] /\ reply'[x] = reply[x]
              /\ result'[x] = result[x] /\ opt'[x] = opt[x] /\ excuse'[x] = excuse[x]
    BY <1>2 DEF Submit, Await, Base, Typed, history
  <1>4. \A x \in Downloads \ {o} : Elsewhere(x)
    BY <1>1, <1>3, Others
  <1>5. Written(o)'
    BY <1>1, <1>2, WrittenEngagedNext DEF Engaged, Calm
  <1>6. DestKept(o)'
    <2> SUFFICES ASSUME Alone(o)'
                 PROVE  Accounted(o)'
      BY <1>3 DEF DestKept
    <2>1. Alone(o)
      BY <1>3 DEF Alone
    <2>2. Accounted(o)
      BY <1>2, <2>1 DEF DestKept, Files
    <2>3. Same("dest") \/ excuse[o] \cap {"deadline", "cancel", "fault"} # {}
      BY <1>2, <2>2 DEF Accounted, Renaming
    <2>4. Same("dest") => Same("dest")'
      BY <1>2 DEF Same, Exists, Calm
    <2>5. QED
      BY <1>3, <2>3, <2>4 DEF Accounted
  <1>7. ~Owes(o)
    BY <1>2 DEF Owes
  <1>8. QED
    BY <1>1, <1>2, <1>3, <1>4, <1>5, <1>6, <1>7, FutureStep

\* A step of a future that is already submitted.
LEMMA PlainStep ==
    ASSUME Base, Base', Files, Calm, NEW o \in Downloads, NEW kinds, Adds(o, kinds),
           \A x \in Downloads \ {o} :
              /\ pc'[x] = pc[x] /\ sent'[x] = sent[x] /\ reply'[x] = reply[x]
              /\ result'[x] = result[x] /\ opt'[x] = opt[x] /\ excuse'[x] = excuse[x],
           opt'[o] = opt[o], pc[o] # "idle", pc'[o] # "idle",
           excuse[o] \subseteq excuse'[o], result[o] = "ok" => result'[o] = "ok",
           Written(o)',
           \/ pc[o] \notin Owing
           \/ ~opt[o].atomic
           \/ pc'[o] \in Owing
           \/ "remove" \in kinds
           \/ excuse'[o] \cap {"create", "refused", "unswept"} # {}
           \/ ~rival /\ ~Exists("temp"),
           pc[o] = "finalizing" =>
              \/ excuse'[o] \cap {"deadline", "cancel", "fault"} # {}
              \/ reply[o] = "ok" /\ result'[o] = "ok"
              \/ reply[o] = "error",
           result'[o] = "ok" =>
              result[o] = "ok" \/ ~opt[o].atomic
                \/ (pc[o] = "finalizing" /\ reply[o] = "ok")
    PROVE  Files'
  <1>1. \A x \in Downloads \ {o} : Elsewhere(x)
    BY Others
  <1>2. Written(o) /\ DestKept(o)
    BY DEF Files
  <1>3. DestKept(o)'
    BY <1>1, <1>2, DestQuiet
  <1>4. ~rival /\ Exists("temp") /\ Owes(o) => Owes(o)'
    <2>1. CASE ~opt[o].atomic \/ (~rival /\ ~Exists("temp"))
      BY <2>1 DEF Owes
    <2>2. CASE ~(~opt[o].atomic \/ (~rival /\ ~Exists("temp")))
      BY <2>2, OwesKept
    <2>3. QED
      BY <2>1, <2>2
  <1>5. QED
    BY <1>1, <1>3, <1>4, FutureStep

\* The steps that go to a place where the download does not write.
LEMMA QuietFiles ==
    ASSUME Base, Base', Files, Calm, NEW o \in Downloads, NEW kinds, Adds(o, kinds),
           kinds \cap {"append", "finalize"} = {},
           \A x \in Downloads \ {o} :
              /\ pc'[x] = pc[x] /\ sent'[x] = sent[x] /\ reply'[x] = reply[x]
              /\ result'[x] = result[x] /\ opt'[x] = opt[x] /\ excuse'[x] = excuse[x],
           opt'[o] = opt[o], pc[o] # "idle",
           pc'[o] \notin {"idle", "creating", "streaming", "appending", "finalizing"},
           excuse[o] \subseteq excuse'[o],
           IF result[o] = "none"
             THEN result'[o] = "ok" =>
                    ~opt[o].atomic \/ (pc[o] = "finalizing" /\ reply[o] = "ok")
             ELSE result'[o] = result[o],
           \/ pc[o] \notin Owing
           \/ ~opt[o].atomic
           \/ pc'[o] \in Owing
           \/ "remove" \in kinds
           \/ excuse'[o] \cap {"create", "refused", "unswept"} # {}
           \/ ~rival /\ ~Exists("temp"),
           pc[o] = "finalizing" =>
              \/ excuse'[o] \cap {"deadline", "cancel", "fault"} # {}
              \/ reply[o] = "ok" /\ result'[o] = "ok"
              \/ reply[o] = "error"
    PROVE  Files'
  <1>1. Written(o)
    BY DEF Files
  <1>2. Written(o)'
    BY <1>1, WrittenQuiet
  <1>3. QED
    BY <1>2, PlainStep

\* The steps without a reply.
LEMMA GoFiles ==
    ASSUME Base, Files, NEW o \in Downloads, NEW from \in PCs, NEW to \in PCs \ {"idle"},
           Go(o, from, to),
           \/ from \in {"sending", "streaming"} /\ to \in {"fail", "failed"}
           \/ from = "answered" /\ to = "done"
    PROVE  Files'
  <1>1. Base' /\ Adds(o, {})
    BY GoStep
  <1>2. pc[o] = from /\ pc'[o] = to /\ \A x \in Downloads \ {o} : pc'[x] = pc[x]
    BY DEF Base, Typed, Go
  <1>3. /\ Calm /\ UNCHANGED <<opt, sent, reply, result, excuse>>
    BY DEF Go, Calm, history
  <1>4. pc[o] = "answered" => pc[o] \notin Owing
    BY DEF Owing
  <1>5. result'[o] = result[o]
    BY <1>3
  <1>6. pc'[o] \in Owing \/ pc[o] \notin Owing
    BY <1>2 DEF Owing
  <1>7. pc[o] # "finalizing"
    BY <1>2
  <1>8. result'[o] = "ok" => result[o] = "ok"
    BY <1>5
  <1>9. QED
    BY <1>1, <1>2, <1>3, <1>5, <1>6, <1>7, QuietFiles

\* Prepared.
LEMMA PreparedFiles ==
    ASSUME Base, Files, NEW o \in Downloads, Prepared(o)
    PROVE  Files'
  <1>1. Base' /\ Adds(o, {})
    BY PreparedStep
  <1>2. /\ Calm /\ UNCHANGED <<opt, sent, excuse>> /\ pc[o] = "preparing"
        /\ pc'[o] \in {"sending", "done"} /\ result'[o] \in {result[o], "error"}
        /\ \A x \in Downloads \ {o} : pc'[x] = pc[x] /\ reply'[x] = reply[x]
           /\ result'[x] = result[x]
    BY DEF Prepared, Consume, Calm, history, Base, Typed
  <1>3. result[o] = "none"
    BY <1>2 DEF Base, Control
  <1>4. pc[o] \notin Owing
    BY <1>2 DEF Owing
  <1>5. QED
    BY <1>1, <1>2, <1>3, <1>4, QuietFiles

\* Response.
LEMMA ResponseFiles ==
    ASSUME Base, Files, NEW o \in Downloads, Response(o)
    PROVE  Files'
  <1>1. Base' /\ Adds(o, {"create"})
    BY ResponseStep
  <1>2. /\ Calm /\ UNCHANGED <<opt, sent, reply, result, excuse>> /\ pc[o] = "sending"
        /\ pc'[o] = "creating" /\ \A x \in Downloads \ {o} : pc'[x] = pc[x]
    BY DEF Response, Await, Calm, history, Base, Typed
  <1>3. result[o] = "none" /\ o \notin began
    BY <1>2 DEF Base, Control, Inner
  <1>4. Written(o)'
    BY <1>1, <1>2, <1>3, WrittenEngagedNext DEF Engaged, Calm
  <1>5. pc[o] \notin Owing
    BY <1>2 DEF Owing
  <1>6. QED
    BY <1>1, <1>2, <1>3, <1>4, <1>5, PlainStep

\* Created: the output is empty.
LEMMA CreatedFiles ==
    ASSUME Base, Files, NEW o \in Downloads, Created(o)
    PROVE  Files'
  <1>1. Base' /\ Adds(o, {})
    BY CreatedStep
  <1>2. /\ Calm /\ UNCHANGED <<opt, sent, result, excuse>> /\ pc[o] = "creating"
        /\ pc'[o] = IF reply[o] = "ok" THEN "streaming" ELSE "fail"
        /\ \A x \in Downloads \ {o} : pc'[x] = pc[x] /\ reply'[x] = reply[x]
    BY DEF Created, Consume, Calm, history, Base, Typed
  <1>3. result[o] = "none" /\ sent[o] = 0
    BY <1>2 DEF Base, Control, Inner
  <1>4. Written(o)
    BY DEF Files
  <1>5. Written(o)'
    <2> SUFFICES ASSUME ~rival PROVE WrittenSoFar(o)' /\ DestOwned(o)'
      BY <1>2 DEF Written, Calm
    <2>1. WrittenSoFar(o) /\ DestOwned(o)
      BY <1>4 DEF Written
    <2>2. Outstanding(o)' = Outstanding(o)
      BY <1>1 DEF Adds
    <2>3. DestOwned(o)'
      BY <1>2, <2>1, <2>2 DEF DestOwned, Calm, Exists
    <2>4. pc'[o] = "streaming" => Holds(Output(o), <<>>)'
      BY <1>2, <2>1 DEF WrittenSoFar, Holds, Exists, Calm, Output
    <2>5. Prefix(o, sent[o])' = <<>>
      BY <1>2, <1>3, PrefixFacts DEF Prefix
    <2>6. WrittenSoFar(o)'
      BY <1>2, <2>1, <2>2, <2>4, <2>5 DEF WrittenSoFar, Calm, Exists
    <2>7. QED
      BY <2>3, <2>6
  <1>6. pc'[o] \in Owing
    BY <1>2 DEF Owing
  <1>7. QED
    BY <1>1, <1>2, <1>3, <1>5, <1>6, PlainStep

\* Frame.
LEMMA FrameFiles ==
    ASSUME Base, Files, NEW o \in Downloads, Frame(o)
    PROVE  Files'
  <1>1. Base' /\ Adds(o, {"append"})
    BY FrameStep
  <1>2. /\ Calm /\ UNCHANGED <<opt, sent, reply, result, excuse>> /\ pc[o] = "streaming"
        /\ pc'[o] = "appending" /\ \A x \in Downloads \ {o} : pc'[x] = pc[x]
    BY DEF Frame, Await, Calm, history, Base, Typed
  <1>3. result[o] = "none" /\ reply[o] = "none"
    BY <1>2 DEF Base, Control, Inner
  <1>4. Written(o)
    BY DEF Files
  <1>5. Written(o)'
    <2> SUFFICES ASSUME ~rival PROVE WrittenSoFar(o)' /\ DestOwned(o)'
      BY <1>2 DEF Written, Calm
    <2>1. WrittenSoFar(o) /\ DestOwned(o)
      BY <1>4 DEF Written
    <2>2. Outstanding(o)' = Outstanding(o) \cup {"append"}
      BY <1>1 DEF Adds
    <2>3. DestOwned(o)'
      BY <1>2, <1>3, <2>1, <2>2 DEF DestOwned, Calm, Exists
    <2>4. Holds(Output(o), Prefix(o, sent[o]))'
      BY <1>2, <2>1 DEF WrittenSoFar, Holds, Exists, Calm, Output, Prefix
    <2>5. "finalize" \in Outstanding(o)' => "finalize" \in Outstanding(o)
      BY <2>2
    <2>6. WrittenSoFar(o)'
      BY <1>2, <1>3, <2>1, <2>4, <2>5 DEF WrittenSoFar, Calm, Exists
    <2>7. QED
      BY <2>3, <2>6
  <1>6. pc'[o] \in Owing
    BY <1>2 DEF Owing
  <1>7. QED
    BY <1>1, <1>2, <1>3, <1>5, <1>6, PlainStep

\* Appended: the output is one part longer.
LEMMA AppendedFiles ==
    ASSUME Base, Files, NEW o \in Downloads, Appended(o)
    PROVE  Files'
  <1>1. Base' /\ Adds(o, {})
    BY AppendedStep
  <1>2. /\ Calm /\ UNCHANGED <<opt, result, excuse>> /\ pc[o] = "appending"
        /\ pc'[o] = IF reply[o] = "ok" THEN "streaming" ELSE "fail"
        /\ reply[o] = "ok" => sent'[o] = sent[o] + 1
        /\ \A x \in Downloads \ {o} : pc'[x] = pc[x] /\ reply'[x] = reply[x]
           /\ sent'[x] = sent[x]
    BY DEF Appended, Consume, Calm, history, Base, Typed
  <1>3. result[o] = "none"
    BY <1>2 DEF Base, Control, Inner
  <1>4. Written(o)
    BY DEF Files
  <1>5. Written(o)'
    <2> SUFFICES ASSUME ~rival PROVE WrittenSoFar(o)' /\ DestOwned(o)'
      BY <1>2 DEF Written, Calm
    <2>1. WrittenSoFar(o) /\ DestOwned(o)
      BY <1>4 DEF Written
    <2>2. Outstanding(o)' = Outstanding(o)
      BY <1>1 DEF Adds
    <2>3. DestOwned(o)'
      BY <1>2, <2>1, <2>2 DEF DestOwned, Calm, Exists
    <2>4. pc'[o] = "streaming" => Holds(Output(o), Prefix(o, sent[o]))'
      <3> SUFFICES ASSUME reply[o] = "ok" PROVE Holds(Output(o), Prefix(o, sent[o]))'
        BY <1>2
      <3>1. Holds(Output(o), Prefix(o, sent[o] + 1))
        BY <1>2, <2>1 DEF WrittenSoFar
      <3>2. Output(o)' = Output(o) /\ Prefix(o, sent[o])' = Prefix(o, sent[o] + 1)
        BY <1>2 DEF Output, Prefix
      <3>3. QED
        BY <1>2, <3>1, <3>2 DEF Holds, Exists, Calm
    <2>5. WrittenSoFar(o)'
      BY <1>2, <2>1, <2>2, <2>4 DEF WrittenSoFar, Calm, Exists
    <2>6. QED
      BY <2>3, <2>5
  <1>6. pc'[o] \in Owing
    BY <1>2 DEF Owing
  <1>7. QED
    BY <1>1, <1>2, <1>3, <1>5, <1>6, PlainStep

\* Whole: the output is the body.
LEMMA WholeFiles ==
    ASSUME Base, Files, NEW o \in Downloads, Whole(o)
    PROVE  Files'
  <1>1. Base' /\ IF pc'[o] = "finalizing" THEN Adds(o, {"finalize"}) ELSE Adds(o, {})
    BY WholeStep
  <1>2. /\ Calm /\ UNCHANGED <<opt, sent, reply, excuse>> /\ pc[o] = "streaming"
           /\ sent[o] = Parts
        /\ \A x \in Downloads \ {o} : pc'[x] = pc[x] /\ result'[x] = result[x]
        /\ \/ pc'[o] = "finalizing" /\ opt[o].atomic /\ result'[o] = result[o]
           \/ pc'[o] = "failed" /\ result'[o] = result[o]
           \/ pc'[o] = "answered" /\ ~opt[o].atomic
    BY DEF Whole, Await, Calm, history, Base, Typed
  <1>3. result[o] = "none" /\ reply[o] = "none"
    BY <1>2 DEF Base, Control, Inner
  <1>4. CASE pc'[o] # "finalizing"
    <2>1. pc'[o] = "failed" => pc'[o] \in Owing
      BY DEF Owing
    <2>2. QED
      BY <1>1, <1>2, <1>3, <1>4, <2>1, QuietFiles
  <1>5. CASE pc'[o] = "finalizing"
    <2>1. opt[o].atomic /\ result'[o] = result[o] /\ Adds(o, {"finalize"})
          /\ pc'[o] \in Owing
      BY <1>1, <1>2, <1>5 DEF Owing
    <2>2. Written(o)'
      <3> SUFFICES ASSUME ~rival PROVE WrittenSoFar(o)' /\ DestOwned(o)'
        BY <1>2 DEF Written, Calm
      <3>1. WrittenSoFar(o) /\ Written(o)
        BY DEF Files, Written
      <3>2. Holds("temp", Body(o))
        BY <1>2, <2>1, <3>1, PrefixFacts DEF WrittenSoFar, Output
      <3>3. Holds("temp", Body(o))'
        BY <1>2, <3>2 DEF Holds, Exists, Calm, Body
      <3>4. (pc'[o] = "finalizing" /\ reply'[o] = "none") /\ Body(o)' = Body(o)
        BY <1>2, <1>3, <1>5 DEF Body
      <3>5. WrittenSoFar(o)'
        BY <3>3, <3>4 DEF WrittenSoFar, Holds
      <3>6. DestOwned(o)'
        BY <1>2, <2>1 DEF DestOwned
      <3>7. QED
        BY <3>5, <3>6
    <2>3. QED
      BY <1>1, <1>2, <1>3, <2>1, <2>2, PlainStep
  <1>6. QED
    BY <1>4, <1>5

\* Finalized: the destination is the body, and there is no temporary file.
LEMMA FinalizedFiles ==
    ASSUME Base, Files, ~rival, NEW o \in Downloads, Finalized(o)
    PROVE  Files'
  <1>1. Base' /\ Adds(o, {})
    BY FinalizedStep
  <1>2. /\ Calm /\ UNCHANGED <<opt, sent, excuse>> /\ pc[o] = "finalizing"
           /\ reply[o] # "none"
        /\ pc'[o] = IF reply[o] = "ok" THEN "answered" ELSE "failed"
        /\ result'[o] = IF reply[o] = "ok" THEN "ok" ELSE result[o]
        /\ \A x \in Downloads \ {o} : pc'[x] = pc[x] /\ reply'[x] = reply[x]
           /\ result'[x] = result[x]
    BY DEF Finalized, Consume, Calm, history, Base, Typed
  <1>3. result[o] = "none" /\ reply[o] \in {"ok", "error"}
    BY <1>2 DEF Base, Control, Inner, Typed
  <1>4. CASE reply[o] = "ok"
    <2>1. ~Exists("temp")
      BY <1>2, <1>4 DEF Files, Written, WrittenSoFar
    <2>2. QED
      BY <1>1, <1>2, <1>3, <1>4, <2>1, QuietFiles
  <1>5. CASE reply[o] = "error"
    <2>1. pc'[o] \in Owing
      BY <1>2, <1>5 DEF Owing
    <2>2. QED
      BY <1>1, <1>2, <1>3, <1>5, <2>1, QuietFiles
  <1>6. QED
    BY <1>3, <1>4, <1>5

\* Discard.
LEMMA DiscardFiles ==
    ASSUME Base, Files, NEW o \in Downloads, Discard(o)
    PROVE  Files'
  <1>1. Base' /\ IF pc'[o] = "discarding" THEN Adds(o, {"remove"}) ELSE Adds(o, {})
    BY DiscardStep
  <1>2. /\ Calm /\ UNCHANGED <<opt, sent, reply, result, excuse>> /\ pc[o] = "fail"
        /\ pc'[o] \in {"discarding", "failed"} /\ \A x \in Downloads \ {o} : pc'[x] = pc[x]
    BY DEF Discard, Await, Calm, history, Base, Typed
  <1>3. pc'[o] \in Owing /\ result[o] = "none"
    BY <1>2 DEF Owing, Base, Control, Inner
  <1>4. QED
    BY <1>1, <1>2, <1>3, QuietFiles

\* Discarded.
LEMMA DiscardedFiles ==
    ASSUME Base, Files, NEW o \in Downloads, Discarded(o)
    PROVE  Files'
  <1>1. Base' /\ Adds(o, {})
    BY DiscardedStep
  <1>2. /\ Calm /\ UNCHANGED <<opt, sent, result, excuse>> /\ pc[o] = "discarding"
        /\ pc'[o] = "failed" /\ \A x \in Downloads \ {o} : pc'[x] = pc[x]
           /\ reply'[x] = reply[x]
    BY DEF Discarded, Consume, Calm, history, Base, Typed
  <1>3. pc'[o] \in Owing /\ result[o] = "none"
    BY <1>2 DEF Owing, Base, Control, Inner
  <1>4. QED
    BY <1>1, <1>2, <1>3, QuietFiles

\* CleanUp.
LEMMA CleanUpFiles ==
    ASSUME Base, Files, NEW o \in Downloads, CleanUp(o)
    PROVE  Files'
  <1>1. Base' /\ IF pc'[o] = "cleaning" THEN Adds(o, {"remove"}) ELSE Adds(o, {})
    BY CleanUpStep
  <1>2. /\ Calm /\ UNCHANGED <<opt, sent, reply>> /\ pc[o] = "failed"
        /\ \A x \in Downloads \ {o} : pc'[x] = pc[x] /\ result'[x] = result[x]
           /\ excuse'[x] = excuse[x]
        /\ excuse[o] \subseteq excuse'[o]
        /\ \/ pc'[o] = "cleaning" /\ result'[o] = result[o]
           \/ /\ pc'[o] = "answered" /\ result'[o] = "error"
              /\ ~opt[o].atomic \/ "refused" \in excuse'[o]
    BY DEF CleanUp, Await, Calm, Base, Typed, Refused
  <1>3. result[o] = "none"
    BY <1>2 DEF Base, Control
  <1>4. QED
    BY <1>1, <1>2, <1>3, QuietFiles

\* CleanedUp.
LEMMA CleanedUpFiles ==
    ASSUME Base, Files, NEW o \in Downloads, CleanedUp(o)
    PROVE  Files'
  <1>1. Base' /\ Adds(o, {})
    BY CleanedUpStep
  <1>2. /\ Calm /\ UNCHANGED <<opt, sent, excuse>> /\ pc[o] = "cleaning"
        /\ pc'[o] = "answered" /\ result'[o] = "error"
        /\ \A x \in Downloads \ {o} : pc'[x] = pc[x] /\ reply'[x] = reply[x]
           /\ result'[x] = result[x]
    BY DEF CleanedUp, Consume, Calm, history, Base, Typed
  <1>3. pc[o] \notin Owing /\ result[o] = "none"
    BY <1>2 DEF Owing, Base, Control
  <1>4. QED
    BY <1>1, <1>2, <1>3, QuietFiles

\* Sweep.
LEMMA SweepFiles ==
    ASSUME Base, Files, NEW o \in Downloads, Sweep(o)
    PROVE  Files'
  <1>1. Base' /\ IF pc'[o] = "sweeping" THEN Adds(o, {"remove"}) ELSE Adds(o, {})
    BY SweepStep
  <1>2. /\ Calm /\ UNCHANGED <<opt, sent, reply>> /\ pc[o] = "stopping"
        /\ \A x \in Downloads \ {o} : pc'[x] = pc[x] /\ excuse'[x] = excuse[x]
        /\ excuse[o] \subseteq excuse'[o]
        /\ \/ pc'[o] = "sweeping" /\ result' = result
           \/ pc'[o] = "done" /\ result' = Told(o) /\ "refused" \in excuse'[o]
    BY DEF Sweep, Await, Calm, Base, Typed
  <1>3. /\ \A x \in Downloads \ {o} : result'[x] = result[x]
        /\ IF result[o] = "none" THEN result'[o] # "ok" ELSE result'[o] = result[o]
    BY <1>2, ToldTyped
  <1>4. QED
    BY <1>1, <1>2, <1>3, QuietFiles

\* Swept.
LEMMA SweptFiles ==
    ASSUME Base, Files, NEW o \in Downloads, Swept(o)
    PROVE  Files'
  <1>1. Base' /\ Adds(o, {})
    BY SweptStep
  <1>2. /\ Calm /\ UNCHANGED <<opt, sent, excuse>> /\ pc[o] \in {"shutSweeping", "sweeping"}
        /\ pc'[o] = "done" /\ result' = Told(o)
        /\ \A x \in Downloads \ {o} : pc'[x] = pc[x] /\ reply'[x] = reply[x]
    BY DEF Swept, Consume, Calm, history, Base, Typed
  <1>3. /\ \A x \in Downloads \ {o} : result'[x] = result[x]
        /\ IF result[o] = "none" THEN result'[o] # "ok" ELSE result'[o] = result[o]
    BY <1>2, ToldTyped
  <1>4. pc[o] \notin Owing
    BY <1>2 DEF Owing
  <1>5. QED
    BY <1>1, <1>2, <1>3, <1>4, QuietFiles

\* Timeout.
LEMMA TimeoutFiles ==
    ASSUME Base, Files, NEW o \in Downloads, Timeout(o)
    PROVE  Files'
  <1>1. Base' /\ Adds(o, {})
    BY TimeoutStep
  <1>2. Drop({o}) /\ {o} \in SUBSET Downloads
    BY DEF Timeout
  <1>3. \A x \in Downloads \ {o} : reply'[x] = reply[x]
    BY <1>2, DropFacts
  <1>4. Late(o, "deadline") \in SUBSET Excuses
        /\ (pc[o] = "finalizing" => "deadline" \in Late(o, "deadline"))
    BY LateIs
  <1>5. excuse' = [excuse EXCEPT ![o] = @ \cup Late(o, "deadline")]
        /\ excuse \in [Downloads -> SUBSET Excuses]
    BY DEF Timeout, Base, Typed
  <1>6. /\ excuse[o] \subseteq excuse'[o] /\ \A x \in Downloads \ {o} :
           excuse'[x] = excuse[x]
        /\ pc[o] = "finalizing" => "deadline" \in excuse'[o]
    BY <1>4, <1>5
  <1>7. /\ Calm /\ UNCHANGED <<opt, sent>> /\ pc[o] \in {"preparing"} \cup Inner
        /\ \A x \in Downloads \ {o} : pc'[x] = pc[x] /\ result'[x] = result[x]
        /\ IF pc[o] \in Inner THEN pc'[o] = "failed" /\ result'[o] = result[o]
                              ELSE pc'[o] = "done" /\ result'[o] = "error"
    BY DEF Timeout, Calm, Base, Typed
  <1>8. result[o] = "none" /\ pc[o] # "idle"
    BY <1>7 DEF Base, Control, Inner
  <1>9. "failed" \in Owing /\ "preparing" \notin Owing
    BY DEF Owing
  <1>10. QED
    BY <1>1, <1>3, <1>6, <1>7, <1>8, <1>9, QuietFiles

\* Cancel.
LEMMA CancelFiles ==
    ASSUME Base, Files, NEW o \in Downloads, Cancel(o)
    PROVE  Files'
  <1>1. Base' /\ Adds(o, {})
    BY CancelStep
  <1>2. Drop({o}) /\ {o} \in SUBSET Downloads
    BY DEF Cancel
  <1>3. \A x \in Downloads \ {o} : reply'[x] = reply[x]
    BY <1>2, DropFacts
  <1>4. Late(o, "cancel") \in SUBSET Excuses
        /\ (pc[o] = "finalizing" => "cancel" \in Late(o, "cancel"))
    BY LateIs
  <1>5. excuse' = [excuse EXCEPT ![o] = @ \cup Late(o, "cancel")]
        /\ excuse \in [Downloads -> SUBSET Excuses]
    BY DEF Cancel, Base, Typed
  <1>6. /\ excuse[o] \subseteq excuse'[o] /\ \A x \in Downloads \ {o} :
           excuse'[x] = excuse[x]
        /\ pc[o] = "finalizing" => "cancel" \in excuse'[o]
    BY <1>4, <1>5
  <1>7. /\ Calm /\ UNCHANGED <<opt, sent>> /\ pc[o] \in {"preparing"} \cup Active
        /\ \A x \in Downloads \ {o} : pc'[x] = pc[x]
        /\ \/ pc'[o] = "stopping" /\ result' = result
           \/ pc'[o] = "done" /\ result' = Told(o)
              /\ (pc[o] = "preparing" \/ ~opt[o].atomic)
    BY DEF Cancel, Calm, Base, Typed
  <1>8. /\ \A x \in Downloads \ {o} : result'[x] = result[x]
        /\ IF result[o] = "none" THEN result'[o] # "ok" ELSE result'[o] = result[o]
    BY <1>7, ToldTyped
  <1>9. pc[o] # "idle" /\ "stopping" \in Owing /\ "preparing" \notin Owing
    BY <1>7 DEF Active, Inner, Owing
  <1>10. QED
    BY <1>1, <1>3, <1>6, <1>7, <1>8, <1>9, QuietFiles

\* ShutCancel.
LEMMA ShutCancelFiles ==
    ASSUME Base, Files, NEW o \in Downloads, ShutCancel(o)
    PROVE  Files'
  <1>1. Base' /\ IF pc'[o] = "shutSweeping" THEN Adds(o, {"remove"}) ELSE Adds(o, {})
    BY ShutCancelStep
  <1>2. \A x \in Downloads \ {o} : reply'[x] = reply[x]
    BY DEF ShutCancel, Forget, Base, Typed
  <1>3. Late(o, "cancel") \in SUBSET Excuses
        /\ (pc[o] = "finalizing" => "cancel" \in Late(o, "cancel"))
    BY LateIs
  <1>4. PICK also \in {{}, Refused(o)} :
           /\ excuse' = [excuse EXCEPT ![o] = @ \cup Late(o, "cancel") \cup also]
           /\ \/ pc' = [pc EXCEPT ![o] = "shutSweeping"] /\ result' = result
              \/ /\ pc' = [pc EXCEPT ![o] = "done"] /\ result' = Told(o)
                 /\ ~opt[o].atomic \/ also = {"refused"}
    <2>1. CASE /\ pc' = [pc EXCEPT ![o] = "shutSweeping"]
               /\ excuse' = [excuse EXCEPT ![o] = @ \cup Late(o, "cancel")]
               /\ UNCHANGED result
      BY <2>1
    <2>2. CASE /\ pc' = [pc EXCEPT ![o] = "done"]
               /\ excuse' = [excuse EXCEPT ![o] = @ \cup Late(o, "cancel") \cup Refused(o)]
               /\ result' = Told(o)
      BY <2>2 DEF Refused
    <2>3. QED
      BY <2>1, <2>2 DEF ShutCancel
  <1>5. excuse \in [Downloads -> SUBSET Excuses]
    BY DEF Base, Typed
  <1>6. /\ excuse[o] \subseteq excuse'[o] /\ \A x \in Downloads \ {o} :
           excuse'[x] = excuse[x]
        /\ pc[o] = "finalizing" => "cancel" \in excuse'[o]
        /\ also = {"refused"} => "refused" \in excuse'[o]
    BY <1>3, <1>4, <1>5
  <1>7. Calm /\ UNCHANGED <<opt, sent>> /\ pc[o] \in Active
    BY DEF ShutCancel, Calm
  <1>8. /\ \A x \in Downloads \ {o} : pc'[x] = pc[x]
        /\ \/ pc'[o] = "shutSweeping" /\ result' = result
           \/ pc'[o] = "done" /\ result' = Told(o) /\ (~opt[o].atomic \/ also = {"refused"})
    BY <1>4 DEF Base, Typed
  <1>9. /\ \A x \in Downloads \ {o} : result'[x] = result[x]
        /\ IF result[o] = "none" THEN result'[o] # "ok" ELSE result'[o] = result[o]
    BY <1>8, ToldTyped
  <1>10. pc[o] # "idle"
    BY <1>7 DEF Active, Inner
  <1>11. QED
    BY <1>1, <1>2, <1>6, <1>7, <1>8, <1>9, <1>10, QuietFiles

-----------------------------------------------------------------------------
(* The files and the driver *)

\* A step of the driver, or of a worker that makes no call, keeps Files, if it does so
\* for every download.
LEMMA DriverStep ==
    ASSUME Base, Files, Calm, opt' = opt,
           \A x \in Downloads : Written(x)' /\ DestKept(x)' /\ (Owes(x) => Owes(x)')
    PROVE  Files'
  <1>1. TempOwed'
    <2>1. Same("temp") /\ NoAtomicBegun => (Same("temp") /\ NoAtomicBegun)'
      BY DEF Same, NoAtomicBegun, Calm, Exists
    <2>2. QED
      BY <2>1 DEF Files, TempOwed, Calm, Exists
  <1>2. WholeUnlessRival'
    BY DEF Files, WholeUnlessRival, Calm, Exists, Body
  <1>3. QED
    BY <1>1, <1>2 DEF Files

\* Take.
LEMMA TakeFiles ==
    ASSUME Base, Files, NEW w \in Workers, Take(w)
    PROVE  Files'
  <1>1. Base' /\ \A x : Outstanding(x)' = Outstanding(x)
    BY TakeStep, SameJobs
  <1>2. Calm /\ UNCHANGED <<opt, pc, sent, reply, result, excuse>>
    BY DEF Take, history, Calm
  <1>3. ASSUME NEW v \in Workers, worker[v].at = "rename"
        PROVE  worker'[v].at = "rename"
    BY <1>3 DEF Take, Running, Base, LaneOK
  <1>4. ASSUME NEW x \in Downloads
        PROVE  Written(x)' /\ DestKept(x)' /\ (Owes(x) => Owes(x)')
    <2>1. Elsewhere(x)
      BY <1>1, <1>2 DEF Elsewhere
    <2>2. Written(x)'
      BY <1>2, <2>1, WrittenElsewhere DEF Files
    <2>3. Owes(x) => Owes(x)'
      BY <1>2, <2>1, OwesElsewhere DEF Calm
    <2>4. Renaming(x) => Renaming(x)'
      BY <1>2, <1>3 DEF Renaming
    <2>5. DestKept(x)'
      BY <1>2, <2>4 DEF Files, DestKept, Accounted, Alone, Same, Holds, Exists, Calm, Body
    <2>6. QED
      BY <2>2, <2>3, <2>5
  <1>5. QED
    BY <1>2, <1>4, DriverStep

\* Shutdown.
LEMMA ShutdownFiles ==
    ASSUME Base, Files, Shutdown
    PROVE  Files'
  <1>1. Base' /\ \A x : Outstanding(x)' = Outstanding(x)
    BY ShutdownStep
  <1>2. PICK D \in SUBSET Downloads : D = {o \in Downloads : pc[o] = "preparing"}
    OBVIOUS
  <1>3. /\ Calm /\ UNCHANGED <<opt, sent, result, excuse>> /\ Drop(D)
        /\ pc' = [o \in Downloads |-> IF o \in D THEN "done" ELSE pc[o]]
    BY <1>2 DEF Shutdown, history, Calm
  <1>4. \A x \in Downloads : reply'[x] = IF x \in D THEN "none" ELSE reply[x]
    BY <1>3, DropFacts
  <1>5. \A x \in Downloads : pc'[x] = IF x \in D THEN "done" ELSE pc[x]
    BY <1>3
  <1>6. \A w \in Workers : worker'[w].at = worker[w].at
    BY <1>3 DEF Drop, OrphanWorkers, Base, LaneOK, WorkerState
  <1>7. ASSUME NEW x \in Downloads
        PROVE  Written(x)' /\ DestKept(x)' /\ (Owes(x) => Owes(x)')
    <2>1. CASE x \notin D
      <3>1. Elsewhere(x)
        BY <1>1, <1>3, <1>4, <1>5, <2>1 DEF Elsewhere
      <3>2. Written(x)'
        BY <1>3, <3>1, WrittenElsewhere DEF Files
      <3>3. Owes(x) => Owes(x)'
        BY <1>3, <3>1, OwesElsewhere DEF Calm
      <3>4. Renaming(x) => Renaming(x)'
        BY <1>6, <3>1 DEF Renaming, Elsewhere
      <3>5. Alone(x)' => Alone(x)
        BY <1>5 DEF Alone
      <3>6. DestKept(x)'
        BY <1>3, <3>1, <3>4, <3>5
           DEF Files, DestKept, Accounted, Same, Holds, Exists, Calm, Body, Elsewhere
      <3>7. QED
        BY <3>2, <3>3, <3>6
    <2>2. CASE x \in D
      <3>1. pc[x] = "preparing" /\ x \notin began /\ result[x] = "none" /\ x \notin began'
        BY <1>2, <1>3, <2>2 DEF Base, Control, Calm
      <3>2. Written(x)'
        BY <1>1, <3>1, WrittenEngagedNext DEF Engaged
      <3>3. ~Owes(x)
        BY <3>1 DEF Owes
      <3>4. Alone(x)' => Alone(x)
        BY <1>5 DEF Alone
      <3>5. DestKept(x)'
        <4> SUFFICES ASSUME Alone(x)', opt[x].atomic
                     PROVE  Accounted(x)'
          BY <1>3, <1>5, <2>2, <3>1 DEF DestKept
        <4>1. Accounted(x)
          BY <3>4 DEF Files, DestKept
        <4>2. Same("dest") \/ excuse[x] \cap {"deadline", "cancel", "fault"} # {}
          BY <3>1, <4>1 DEF Accounted, Renaming
        <4>3. Same("dest") => Same("dest")'
          BY <1>3 DEF Same, Exists, Calm
        <4>4. QED
          BY <1>3, <4>2, <4>3 DEF Accounted
      <3>6. QED
        BY <3>2, <3>3, <3>5
    <2>3. QED
      BY <2>1, <2>2
  <1>8. QED
    BY <1>3, <1>7, DriverStep

\* Stop.
LEMMA StopFiles ==
    ASSUME Base, Files, Stop
    PROVE  Files'
  <1>1. Base' /\ \A x : Outstanding(x)' = Outstanding(x)
    BY StopStep
  <1>2. Calm /\ UNCHANGED <<opt, sent, reply, worker>> /\ \A x \in Downloads :
        pc[x] \notin Active
    BY DEF Stop, Calm
  <1>3. /\ \A x \in Downloads : pc'[x] = IF pc[x] \in {"stopping", "sweeping"} THEN "done"
           ELSE pc[x]
        /\ \A x \in Downloads : result'[x] = IF pc[x] # "idle" /\ result[x] = "none"
           THEN "error" ELSE result[x]
        /\ \A x \in Downloads : excuse'[x] = IF pc[x] = "stopping"
           THEN excuse[x] \cup {"unswept"} ELSE excuse[x]
    BY DEF Stop
  <1>4. ASSUME NEW x \in Downloads
        PROVE  Written(x)' /\ DestKept(x)' /\ (Owes(x) => Owes(x)')
    <2>1. pc'[x] \notin {"creating", "streaming", "appending", "finalizing"}
          /\ pc[x] \notin {"creating", "streaming", "appending", "finalizing", "fail",
             "discarding", "failed"}
      BY <1>2, <1>3 DEF Active, Inner
    <2>2. excuse[x] \subseteq excuse'[x] /\ (result'[x] = "none" => result[x] = "none")
          /\ (result'[x] = "ok" <=> result[x] = "ok")
      BY <1>3
    <2>3. Written(x)'
      BY <1>1, <1>2, <2>1, <2>2
         DEF Files, Written, WrittenSoFar, DestOwned, Exists, Calm, Body
    <2>4. Owes(x) => Owes(x)'
      BY <1>1, <1>2, <1>3, <2>1, <2>2 DEF Owes, Owing, Calm
    <2>5. Alone(x)' => Alone(x)
      BY <1>3 DEF Alone
    <2>6. DestKept(x)'
      <3> SUFFICES ASSUME Alone(x)', opt[x].atomic \/ pc'[x] = "idle"
                   PROVE  Accounted(x)' /\ (result'[x] = "ok" => Holds("dest", Body(x))')
        BY <1>2 DEF DestKept
      <3>1. opt[x].atomic \/ pc[x] = "idle"
        BY <1>3
      <3>2. Accounted(x) /\ (result[x] = "ok" => Holds("dest", Body(x)))
        BY <2>5, <3>1 DEF Files, DestKept
      <3>3. Same("dest") \/ excuse[x] \cap {"deadline", "cancel", "fault"} # {}
            \/ result[x] = "ok"
        BY <2>1, <3>2 DEF Accounted, Renaming
      <3>4. (Same("dest") => Same("dest")')
            /\ (Holds("dest", Body(x)) => Holds("dest", Body(x))')
        BY <1>2 DEF Same, Holds, Exists, Calm, Body
      <3>5. QED
        BY <2>2, <3>2, <3>3, <3>4 DEF Accounted
    <2>7. QED
      BY <2>3, <2>4, <2>6
  <1>5. QED
    BY <1>2, <1>4, DriverStep

-----------------------------------------------------------------------------
(* The files and the calls of the workers *)

\* A call leaves path p as it is.
SamePath(p) == (Exists(p)' <=> Exists(p)) /\ (Exists(p) => file'[p] = file[p])

\* A call that writes path p leaves the other path as it is, ...
LEMMA WithFacts ==
    ASSUME NEW p, NEW c, file' = With(p, c)
    PROVE  Exists(p)' /\ file'[p] = c /\ \A q : q # p => SamePath(q)
  BY DEF With, Exists, SamePath

\* ... and so does one that removes it.
LEMMA WithoutFacts ==
    ASSUME NEW p, file' = Without(p)
    PROVE  ~Exists(p)' /\ \A q : q # p => SamePath(q)
  BY DEF Without, Exists, SamePath

\* The job a worker runs.
LEMMA CallFacts ==
    ASSUME Base, NEW w \in Workers, worker[w].at # "idle",
           NEW k, k = worker[w].job, NEW o, o = k.op
    PROVE  /\ k \in J /\ JobOK(k) /\ o \in Downloads /\ k.live \in BOOLEAN
           /\ k.kind = IF worker[w].at \in Finalize THEN "finalize" ELSE worker[w].at
           /\ pc[o] # "idle" /\ k.kind \in Outstanding(o) /\ k.kind \in Main \cup {"remove"}
  <1>1. /\ k \in J /\ o \in Downloads
        /\ k.kind = IF worker[w].at \in Finalize THEN "finalize" ELSE worker[w].at
    BY RunningJob DEF Base
  <1>2. JobOK(k) /\ k.live \in BOOLEAN /\ k.kind \in Main \cup {"remove"}
    BY <1>1, JobFacts
  <1>3. k.kind \in Outstanding(o)
    BY <1>1, OutstandingNow
  <1>4. pc[o] # "idle"
    BY <1>2 DEF JobOK, Phase, Main, Dropped, Removing
  <1>5. QED
    BY <1>1, <1>2, <1>3, <1>4

\* The job's kind is the only one that an answer takes away.
LEMMA AnsweredKinds ==
    ASSUME Base, NEW w \in Workers, worker[w].at # "idle",
           NEW k, k = worker[w].job, NEW o, o = k.op,
           NEW outcome \in {"ok", "error"}, Answer(w, outcome), lane' = lane
    PROVE  /\ \A x : x # o => Outstanding(x)' = Outstanding(x)
           /\ Outstanding(o)' \subseteq Outstanding(o)
           /\ Outstanding(o) \subseteq Outstanding(o)' \cup {k.kind}
           /\ k.kind \in Main => Outstanding(o)' \cap Main = {}
           /\ \A x \in Downloads : reply'[x] = IF k.live /\ x = o THEN outcome ELSE reply[x]
           /\ \A v \in Workers \ {w} : worker'[v] = worker[v]
  <1>1. /\ J' \subseteq J /\ J \subseteq J' \cup {k} /\ \A j \in J' : ~Clash(j, k)
        /\ \A x \in Downloads : reply'[x] = IF k.live /\ x = o THEN outcome ELSE reply[x]
    BY AnswerFacts
  <1>2. \A x : Outstanding(x)' \subseteq Outstanding(x)
    BY <1>1, OutstandingNow, OutstandingThen
  <1>3. \A x : x # o => Outstanding(x) \subseteq Outstanding(x)'
    BY <1>1, OutstandingNow, OutstandingThen
  <1>4. Outstanding(o) \subseteq Outstanding(o)' \cup {k.kind}
    BY <1>1, OutstandingNow, OutstandingThen
  <1>5. k.kind \in Main => Outstanding(o)' \cap Main = {}
    BY <1>1, OutstandingThen DEF Clash
  <1>6. \A v \in Workers \ {w} : worker'[v] = worker[v]
    BY DEF Answer, Base, LaneOK
  <1>7. \A x : x # o => Outstanding(x)' = Outstanding(x)
    <2> SUFFICES ASSUME NEW x, x # o
                 PROVE  Outstanding(x)' = Outstanding(x)
      OBVIOUS
    <2>1. Outstanding(x)' \subseteq Outstanding(x)
      BY <1>2
    <2>2. Outstanding(x) \subseteq Outstanding(x)'
      BY <1>3
    <2>3. QED
      BY <2>1, <2>2
  <1>8. QED
    BY <1>1, <1>2, <1>4, <1>5, <1>6, <1>7

\* A call for download o keeps Files, if it does so for that download and takes care of
\* the temporary file.
LEMMA TouchStep ==
    ASSUME Base, Base', Files, ~rival, NEW o \in Downloads, pc[o] # "idle",
           UNCHANGED <<opt, pc, sent, result, first>>, rival' = (rival \/ Rival(o)),
           \A x \in Downloads \ {o} :
              reply'[x] = reply[x] /\ excuse'[x] = excuse[x]
              /\ Outstanding(x)' = Outstanding(x),
           began \subseteq began', began' \subseteq began \cup {o},
           excuse[o] \subseteq excuse'[o],
           opt[o].atomic /\ "remove" \in Outstanding(o) /\ Exists("temp")' =>
              "remove" \in Outstanding(o)',
           Exists("temp")' =>
              \/ SamePath("temp") /\ (began' = began \/ ~opt[o].atomic)
              \/ Exists("temp") /\ o \in began /\ opt[o].atomic
              \/ Owes(o)',
           Written(o)', WholeUnlessRival', DestKept(o)'
    PROVE  Files'
  <1>1. ASSUME NEW x \in Downloads, x # o
        PROVE  Written(x)' /\ DestKept(x)'
    <2>1. rival' \/ ~Engaged(x)
      BY <1>1 DEF Rival, Engaged
    <2>2. Engaged(x)' => Engaged(x)
      BY <1>1 DEF Engaged
    <2>3. Written(x)'
      BY <1>1, <2>1, <2>2, WrittenEngagedNext DEF Written
    <2>4. ~Alone(x)'
      BY <1>1 DEF Alone
    <2>5. QED
      BY <2>3, <2>4 DEF DestKept
  <1>2. TempOwed'
    <2> SUFFICES ASSUME Exists("temp")'
                 PROVE  (Same("temp") /\ NoAtomicBegun)' \/ \E x \in Downloads : Owes(x)'
      BY DEF TempOwed
    <2>1. ASSUME NEW x \in Downloads, Owes(x)
          PROVE  Owes(x)'
      <3>1. CASE x # o
        BY <2>1, <3>1 DEF Owes
      <3>2. CASE x = o
        BY <2>1, <3>2 DEF Owes
      <3>3. QED
        BY <3>1, <3>2
    <2>2. CASE SamePath("temp") /\ (began' = began \/ ~opt[o].atomic)
      <3>1. Same("temp") => Same("temp")'
        BY <2>2 DEF Same, SamePath, Exists
      <3>2. NoAtomicBegun => NoAtomicBegun'
        BY <2>2 DEF NoAtomicBegun
      <3>3. Exists("temp")
        BY <2>2 DEF SamePath
      <3>4. QED
        BY <2>1, <3>1, <3>2, <3>3 DEF Files, TempOwed
    <2>3. CASE Exists("temp") /\ o \in began /\ opt[o].atomic
      <3>1. ~NoAtomicBegun
        BY <2>3 DEF NoAtomicBegun
      <3>2. QED
        BY <2>1, <2>3, <3>1 DEF Files, TempOwed
    <2>4. QED
      BY <2>2, <2>3
  <1>3. QED
    BY <1>1, <1>2 DEF Files

\* A call that leaves the destination alone leaves it whole.
LEMMA WholeKept ==
    ASSUME WholeUnlessRival, ~rival, SamePath("dest"), began \subseteq began', opt' = opt
    PROVE  WholeUnlessRival'
  <1> SUFFICES ASSUME Exists("dest")'
               PROVE  \/ file'["dest"] \in {Old} \cup {Body(o) : o \in began'}
                      \/ \E o \in began' : /\ ~opt[o].atomic
                                           /\ \A i \in DOMAIN file'["dest"] :
                                              file'["dest"][i][1] = o
    BY DEF WholeUnlessRival, Body, Old
  <1>1. Exists("dest") /\ file'["dest"] = file["dest"]
    BY DEF SamePath
  <1>2. \/ file["dest"] \in {Old} \cup {Body(o) : o \in began}
        \/ \E o \in began : /\ ~opt[o].atomic
                            /\ \A i \in DOMAIN file["dest"] : file["dest"][i][1] = o
    BY <1>1 DEF WholeUnlessRival
  <1>3. QED
    BY <1>1, <1>2

\* A call that leaves the destination alone leaves it accounted for, ...
LEMMA DestAside ==
    ASSUME NEW o \in Downloads, DestKept(o), UNCHANGED <<opt, pc, result, first>>,
           SamePath("dest"),
           excuse[o] \subseteq excuse'[o],
           Alone(o) /\ Renaming(o) => Renaming(o)',
           pc[o] = "finalizing" /\ reply[o] = "ok" => reply'[o] = "ok"
    PROVE  DestKept(o)'
  <1> SUFFICES ASSUME Alone(o), opt[o].atomic \/ pc[o] = "idle"
               PROVE  Accounted(o)' /\ (result'[o] = "ok" => Holds("dest", Body(o))')
    BY DEF DestKept, Alone
  <1>1. Accounted(o) /\ (result[o] = "ok" => Holds("dest", Body(o)))
    BY DEF DestKept
  <1>2. Same("dest") => Same("dest")'
    BY DEF Same, SamePath, Exists
  <1>3. Holds("dest", Body(o)) => Holds("dest", Body(o))'
    BY DEF Holds, SamePath, Body
  <1>4. QED
    BY <1>1, <1>2, <1>3 DEF Accounted

\* ... and a job of another kind does not disturb a rename, nor its reply.
LEMMA AnswerAside ==
    ASSUME Base, Files, NEW w \in Workers, worker[w].at \notin {"idle"} \cup Finalize,
           NEW k, k = worker[w].job, NEW o, o = k.op,
           NEW outcome \in {"ok", "error"}, Answer(w, outcome), lane' = lane,
           UNCHANGED <<opt, pc, result, first, excuse>>, SamePath("dest")
    PROVE  DestKept(o)'
  <1>1. JobOK(k) /\ o \in Downloads /\ k.live \in BOOLEAN /\ k.kind = worker[w].at
        /\ k.kind \in Main \cup {"remove"}
    BY CallFacts
  <1>2. /\ reply'[o] = IF k.live THEN outcome ELSE reply[o]
        /\ \A v \in Workers \ {w} : worker'[v] = worker[v]
    BY <1>1, AnsweredKinds
  <1>3. k.kind # "finalize"
    BY <1>1 DEF Base, LaneOK, WorkerState, At
  <1>4. k.live => pc[o] # "finalizing"
    BY <1>1, <1>3 DEF JobOK, Phase, Main, Removing
  <1>5. Renaming(o) => Renaming(o)'
    BY <1>2, <1>4 DEF Renaming, Finalize
  <1>6. pc[o] = "finalizing" /\ reply[o] = "ok" => reply'[o] = "ok"
    BY <1>2, <1>4
  <1>7. QED
    BY <1>1, <1>5, <1>6, DestAside DEF Files

\* The call of a job that makes the directory.
LEMMA PrepareFiles ==
    ASSUME Base, Files, NEW w \in Workers, PrepareCall(w)
    PROVE  Files'
  <1>1. PICK k, o : k = worker[w].job /\ o = k.op
    OBVIOUS
  <1>2. worker[w].at = "prepare" /\ lane' = lane /\ Calm
        /\ UNCHANGED <<opt, pc, sent, result, excuse>>
    BY DEF PrepareCall, Calm, history
  <1>3. PICK outcome \in {"ok", "error"} : Answer(w, outcome)
    BY DEF PrepareCall
  <1>4. JobOK(k) /\ o \in Downloads /\ k.kind = "prepare" /\ pc[o] # "idle"
    BY <1>1, <1>2, CallFacts DEF Finalize
  <1>5. /\ \A x : x # o => Outstanding(x)' = Outstanding(x)
        /\ Outstanding(o)' \subseteq Outstanding(o)
        /\ Outstanding(o) \subseteq Outstanding(o)' \cup {"prepare"}
        /\ \A x \in Downloads : x # o => reply'[x] = reply[x]
    BY <1>1, <1>2, <1>3, <1>4, AnsweredKinds
  <1>6. \A x \in Downloads \ {o} : Elsewhere(x)
    BY <1>2, <1>5 DEF Elsewhere
  <1>7. pc[o] \notin {"creating", "streaming", "appending", "finalizing"}
    BY <1>1, <1>4 DEF JobOK, Phase, Main, Dropped
  <1>8. Written(o)'
    BY <1>2, <1>4, <1>5, <1>7
       DEF Files, Written, WrittenSoFar, DestOwned, Exists, Calm, Body
  <1>9. Owes(o) => Owes(o)'
    BY <1>2, <1>5 DEF Owes, Calm
  <1>10. SamePath("dest")
    BY <1>2 DEF Calm, SamePath, Exists
  <1>11. DestKept(o)'
    BY <1>1, <1>2, <1>3, <1>10, AnswerAside DEF Calm, Finalize
  <1>12. Base'
    BY CallStep DEF Call
  <1>13. QED
    BY <1>2, <1>4, <1>6, <1>8, <1>9, <1>11, <1>12, FutureStep

\* The open of the output, which empties it.
LEMMA CreateFiles ==
    ASSUME Base, Files, ~rival, NEW w \in Workers, CreateCall(w)
    PROVE  Files'
  <1>1. PICK k, o : k = worker[w].job /\ o = k.op
    OBVIOUS
  <1>2. PICK out : out = Output(o)
    OBVIOUS
  <1>3. /\ worker[w].at = "create" /\ lane' = lane
           /\ UNCHANGED <<opt, pc, sent, result, first, excuse>>
        /\ rival' = (rival \/ Rival(o))
    BY <1>1 DEF CreateCall, Touch
  <1>4. PICK outcome \in {"ok", "error"} :
           /\ Answer(w, outcome)
           /\ IF outcome = "ok" THEN file' = With(Output(o), <<>>)
              /\ began' = began \cup {o}
                                ELSE UNCHANGED <<file, began>>
    BY <1>1 DEF CreateCall
  <1>5. JobOK(k) /\ o \in Downloads /\ k.kind = "create" /\ pc[o] # "idle"
        /\ "create" \in Main /\ k.live \in BOOLEAN
    BY <1>1, <1>3, CallFacts DEF Finalize, Main
  <1>6. /\ \A x : x # o => Outstanding(x)' = Outstanding(x)
        /\ Outstanding(o) \subseteq Outstanding(o)' \cup {"create"}
        /\ Outstanding(o)' \cap Main = {}
        /\ reply'[o] = IF k.live THEN outcome ELSE reply[o]
        /\ \A x \in Downloads : x # o => reply'[x] = reply[x]
    <2>1. worker[w].at # "idle" /\ lane' = lane /\ Answer(w, outcome)
      BY <1>3, <1>4
    <2>2. QED
      BY <1>1, <1>5, <2>1, AnsweredKinds
  <1>7. /\ o \notin began /\ (k.live \/ "create" \in excuse[o])
        /\ IF k.live THEN pc[o] = "creating" /\ reply[o] = "none" ELSE pc[o] \in Dropped
    BY <1>1, <1>5 DEF JobOK, Phase
  <1>8. "append" \notin Outstanding(o)' /\ "finalize" \notin Outstanding(o)'
    BY <1>6 DEF Main
  <1>9. Base'
    BY CallStep DEF Call
  <1>10. CASE outcome = "error"
    <2>1. SamePath("dest") /\ SamePath("temp") /\ began' = began
      BY <1>4, <1>10 DEF SamePath, Exists
    <2>2. Written(o)'
      BY <1>7, <1>9, <2>1, <1>3, <1>6, <1>8, <1>10
         DEF Written, WrittenSoFar, DestOwned, Dropped
    <2>3. WholeUnlessRival'
      BY <1>3, <2>1, WholeKept DEF Files
    <2>4. DestKept(o)'
      BY <1>1, <1>3, <1>4, <2>1, AnswerAside DEF Finalize
    <2>5. QED
      BY <1>3, <1>5, <1>6, <1>9, <2>1, <2>2, <2>3, <2>4, TouchStep
  <1>11. CASE outcome = "ok"
    <2>1. /\ Exists(out)' /\ file'[out] = <<>> /\ \A q : q # out => SamePath(q)
          /\ began' = began \cup {o}
      BY <1>2, <1>4, <1>11, WithFacts
    <2>2. Output(o)' = out
      BY <1>2, <1>3 DEF Output
    <2>3. Written(o)'
      <3>1. WrittenSoFar(o)'
        BY <1>3, <1>7, <1>8, <2>1, <2>2 DEF WrittenSoFar, Dropped, Holds
      <3>2. DestOwned(o)'
        BY <1>2, <1>3, <2>1 DEF DestOwned, Output, Own
      <3>3. QED
        BY <3>1, <3>2 DEF Written
    <2>4. CASE opt[o].atomic
      <3>1. out = "temp" /\ SamePath("dest")
        BY <1>2, <2>1, <2>4 DEF Output
      <3>2. WholeUnlessRival'
        BY <1>3, <2>1, <3>1, WholeKept DEF Files
      <3>3. DestKept(o)'
        BY <1>1, <1>3, <1>4, <3>1, AnswerAside DEF Finalize
      <3>4. Owes(o)'
        BY <1>3, <1>7, <2>1, <2>4 DEF Owes, Owing
      <3>5. QED
        BY <1>3, <1>5, <1>6, <1>9, <2>1, <2>3, <3>2, <3>3, <3>4, TouchStep
    <2>5. CASE ~opt[o].atomic
      <3>1. out = "dest" /\ SamePath("temp")
        BY <1>2, <2>1, <2>5 DEF Output
      <3>2. WholeUnlessRival'
        BY <1>3, <2>1, <2>5, <3>1 DEF WholeUnlessRival
      <3>3. DestKept(o)'
        BY <1>3, <1>5, <2>5 DEF DestKept
      <3>4. QED
        BY <1>3, <1>5, <1>6, <1>9, <2>1, <2>3, <2>5, <3>1, <3>2, <3>3, TouchStep
    <2>6. QED
      BY <2>4, <2>5
  <1>12. QED
    BY <1>10, <1>11

\* The append.
LEMMA AppendFiles ==
    ASSUME Base, Files, ~rival, NEW w \in Workers, AppendCall(w)
    PROVE  Files'
  <1>1. PICK k, o : k = worker[w].job /\ o = k.op
    OBVIOUS
  <1>2. PICK out : out = Output(o)
    OBVIOUS
  <1>3. /\ worker[w].at = "append" /\ lane' = lane
        /\ UNCHANGED <<opt, pc, sent, result, first, began, excuse>>
        /\ rival' = (rival \/ Rival(o))
    BY <1>1 DEF AppendCall, Touch
  <1>4. PICK outcome \in {"ok", "error"}, part \in {k.part, 0} :
           /\ Answer(w, outcome)
           /\ outcome = "ok" => part = k.part /\ Exists(Output(o))
           /\ file' = IF Exists(Output(o))
              THEN With(Output(o), Append(file[Output(o)], <<o, part>>)) ELSE file
    BY <1>1 DEF AppendCall
  <1>5. /\ JobOK(k) /\ o \in Downloads /\ k.kind = "append" /\ pc[o] # "idle"
           /\ "append" \in Main
        /\ k.live \in BOOLEAN /\ "append" \in Outstanding(o)
    BY <1>1, <1>3, CallFacts DEF Finalize, Main
  <1>6. /\ \A x : x # o => Outstanding(x)' = Outstanding(x)
        /\ Outstanding(o) \subseteq Outstanding(o)' \cup {"append"}
        /\ Outstanding(o)' \cap Main = {}
        /\ reply'[o] = IF k.live THEN outcome ELSE reply[o]
        /\ \A x \in Downloads : x # o => reply'[x] = reply[x]
    BY <1>1, <1>3, <1>4, <1>5, AnsweredKinds
  <1>7. /\ o \in began
        /\ IF k.live THEN pc[o] = "appending" /\ reply[o] = "none" /\ k.part = sent[o] + 1
                     ELSE pc[o] \in Dropped
    BY <1>1, <1>5 DEF JobOK, Phase
  <1>8. "append" \notin Outstanding(o)' /\ "finalize" \notin Outstanding(o)'
    BY <1>6 DEF Main
  <1>9. Base' /\ WrittenSoFar(o) /\ DestOwned(o) /\ sent[o] \in Nat
    BY <1>5, CallStep DEF Call, Files, Written, Base, Typed
  <1>10. Output(o)' = out
    BY <1>2, <1>3 DEF Output
  <1>11. CASE Exists(Output(o))
    <2>1. /\ Exists(out)' /\ file'[out] = Append(file[out], <<o, part>>)
          /\ \A q : q # out => SamePath(q)
      BY <1>2, <1>4, <1>11, WithFacts
    <2>2. WrittenSoFar(o)'
      <3>1. k.live /\ outcome = "ok" => file'[out] = Prefix(o, sent[o] + 1)
        BY <1>2, <1>4, <1>7, <1>9, <2>1, PrefixFacts DEF WrittenSoFar, Holds
      <3>2. Prefix(o, sent[o] + 1)' = Prefix(o, sent[o] + 1)
        BY <1>3 DEF Prefix
      <3>3. QED
        BY <1>3, <1>6, <1>7, <1>8, <1>10, <2>1, <3>1, <3>2 DEF WrittenSoFar, Holds, Dropped
    <2>3. CASE opt[o].atomic
      <3>1. out = "temp" /\ SamePath("dest")
        BY <1>2, <2>1, <2>3 DEF Output
      <3>2. WholeUnlessRival'
        BY <1>3, <3>1, WholeKept DEF Files
      <3>3. DestKept(o)'
        BY <1>1, <1>3, <1>4, <3>1, AnswerAside DEF Finalize
      <3>4. Written(o)'
        BY <1>3, <2>2, <2>3 DEF Written, DestOwned
      <3>5. QED
        BY <1>3, <1>5, <1>6, <1>2, <1>7, <1>9, <1>11, <2>3, <3>1, <3>2, <3>3, <3>4,
           TouchStep
    <2>4. CASE ~opt[o].atomic
      <3>1. out = "dest" /\ SamePath("temp")
        BY <1>2, <2>1, <2>4 DEF Output
      <3>2. Own(o, file["dest"]) /\ file["dest"] \in Content
        BY <1>5, <1>7, <1>9, <1>11, <1>2, <2>4, <3>1
           DEF DestOwned, Base, Typed, FileOK, Exists
      <3>3. Own(o, file'["dest"])
        <4>1. file["dest"] \in Seq((Downloads \cup {"disk"}) \X (0..Parts))
          BY <3>2 DEF Content
        <4>2. <<o, part>> \in (Downloads \cup {"disk"}) \X (0..Parts) /\ <<o, part>>[1] = o
          <5>1. k.part \in 0..Parts /\ 0 \in 0..Parts
            BY <1>1, <1>3, DownloadAssumption, RunningJob DEF Base, Jobs
          <5>2. QED
            BY <1>4, <1>5, <5>1
        <4>3. PICK c, e : c = file["dest"] /\ e = <<o, part>>
          OBVIOUS
        <4>4. Append(c, e) \in Seq((Downloads \cup {"disk"}) \X (0..Parts))
              /\ Len(Append(c, e)) = Len(c) + 1 /\ Append(c, e)[Len(c) + 1] = e
              /\ \A i \in 1..Len(c) : Append(c, e)[i] = c[i]
          BY <4>1, <4>2, <4>3
        <4>5. DOMAIN Append(c, e) = 1..(Len(c) + 1) /\ DOMAIN c = 1..Len(c)
              /\ Len(c) \in Nat
          BY <4>1, <4>3, <4>4
        <4>6. \A i \in DOMAIN Append(c, e) : Append(c, e)[i][1] = o
          BY <3>2, <4>2, <4>3, <4>4, <4>5 DEF Own
        <4>7. QED
          BY <2>1, <3>1, <4>3, <4>6 DEF Own
      <3>4. Written(o)'
        BY <2>2, <3>3 DEF Written, DestOwned
      <3>5. WholeUnlessRival'
        BY <1>3, <1>7, <2>4, <3>3 DEF WholeUnlessRival, Own
      <3>6. DestKept(o)'
        BY <1>3, <1>5, <2>4 DEF DestKept
      <3>7. QED
        BY <1>3, <1>5, <1>6, <1>9, <2>4, <3>1, <3>4, <3>5, <3>6, TouchStep
    <2>5. QED
      BY <2>3, <2>4
  <1>12. CASE ~Exists(Output(o))
    <2>1. file' = file /\ outcome = "error" /\ SamePath("dest") /\ SamePath("temp")
      BY <1>4, <1>12 DEF SamePath, Exists
    <2>2. Written(o)'
      BY <1>3, <1>5, <1>6, <1>7, <1>8, <1>9, <2>1
         DEF Written, WrittenSoFar, DestOwned, Dropped, Exists
    <2>3. WholeUnlessRival'
      BY <1>3, <2>1, WholeKept DEF Files
    <2>4. DestKept(o)'
      BY <1>1, <1>3, <1>4, <2>1, AnswerAside DEF Finalize
    <2>5. QED
      BY <1>3, <1>5, <1>6, <1>9, <2>1, <2>2, <2>3, <2>4, TouchStep
  <1>13. QED
    BY <1>11, <1>12

\* The removal of the output.
LEMMA RemoveFiles ==
    ASSUME Base, Files, ~rival, NEW w \in Workers, RemoveCall(w)
    PROVE  Files'
  <1>1. PICK k, o : k = worker[w].job /\ o = k.op
    OBVIOUS
  <1>2. PICK out : out = Output(o)
    OBVIOUS
  <1>3. /\ worker[w].at = "remove" /\ lane' = lane /\ Answer(w, "ok")
        /\ UNCHANGED <<opt, pc, sent, result, first, began, excuse>>
        /\ file' = Without(out) /\ rival' = (rival \/ Rival(o))
    BY <1>1, <1>2 DEF RemoveCall, Touch
  <1>4. JobOK(k) /\ o \in Downloads /\ k.kind = "remove" /\ pc[o] # "idle"
        /\ k.live \in BOOLEAN
    BY <1>1, <1>3, CallFacts DEF Finalize
  <1>5. /\ \A x : x # o => Outstanding(x)' = Outstanding(x)
        /\ Outstanding(o)' \subseteq Outstanding(o)
        /\ \A x \in Downloads : x # o => reply'[x] = reply[x]
    BY <1>1, <1>3, <1>4, AnsweredKinds
  <1>6. pc[o] \notin {"creating", "streaming", "appending", "finalizing"}
    BY <1>1, <1>4 DEF JobOK, Removing, Dropped, Main
  <1>7. ~Exists(out)' /\ \A q : q # out => SamePath(q)
    BY <1>3, WithoutFacts
  <1>8. Base' /\ WrittenSoFar(o) /\ DestOwned(o)
    BY <1>4, CallStep DEF Call, Files, Written
  <1>9. "finalize" \in Outstanding(o) => opt[o].atomic
    BY JobFacts, OutstandingNow DEF JobOK
  <1>10. CASE opt[o].atomic
    <2>1. out = "temp" /\ SamePath("dest") /\ ~Exists("temp")'
      BY <1>2, <1>7, <1>10 DEF Output
    <2>2. Written(o)'
      BY <1>3, <1>6, <1>10, <2>1 DEF Written, WrittenSoFar, DestOwned
    <2>3. WholeUnlessRival'
      BY <1>3, <2>1, WholeKept DEF Files
    <2>4. DestKept(o)'
      BY <1>1, <1>3, <2>1, AnswerAside DEF Finalize
    <2>5. QED
      BY <1>3, <1>4, <1>5, <1>8, <2>1, <2>2, <2>3, <2>4, TouchStep
  <1>11. CASE ~opt[o].atomic
    <2>1. out = "dest" /\ SamePath("temp") /\ ~Exists("dest")'
      BY <1>2, <1>7, <1>11 DEF Output
    <2>2. Written(o)'
      BY <1>3, <1>5, <1>6, <1>9, <1>11, <2>1 DEF Written, WrittenSoFar, DestOwned
    <2>3. WholeUnlessRival'
      BY <2>1 DEF WholeUnlessRival
    <2>4. DestKept(o)'
      BY <1>3, <1>4, <1>11 DEF DestKept
    <2>5. QED
      BY <1>3, <1>4, <1>5, <1>8, <1>11, <2>1, <2>2, <2>3, <2>4, TouchStep
  <1>12. QED
    BY <1>10, <1>11

\* The job of a rename, and what it says of its download.
LEMMA FinalizeFacts ==
    ASSUME Base, Files, ~rival, NEW w \in Workers, worker[w].at \in Finalize,
           NEW k, k = worker[w].job, NEW o, o = k.op
    PROVE  /\ o \in Downloads /\ k.live \in BOOLEAN /\ pc[o] # "idle"
           /\ opt[o].atomic /\ o \in began /\ result[o] # "ok"
           /\ IF k.live THEN pc[o] = "finalizing" /\ reply[o] = "none" /\ Exists("temp")
              ELSE pc[o] \in Dropped /\ excuse[o] \cap {"deadline", "cancel"} # {}
           /\ Exists("temp") => file["temp"] = Body(o)
           /\ WrittenSoFar(o) /\ k.kind = "finalize" /\ k \in J
  <1>1. worker[w].at # "idle"
    BY DEF Finalize
  <1>2. /\ k \in J /\ JobOK(k) /\ o \in Downloads /\ k.live \in BOOLEAN
           /\ k.kind = "finalize"
        /\ pc[o] # "idle" /\ "finalize" \in Outstanding(o)
    BY <1>1, CallFacts
  <1>3. WrittenSoFar(o)
    BY <1>2 DEF Files, Written
  <1>4. QED
    BY <1>2, <1>3 DEF JobOK, Main, Phase, WrittenSoFar

\* A call of a rename that is not its last.
LEMMA GoOnFiles ==
    ASSUME Base, Base', Files, ~rival, NEW w \in Workers, worker[w].at \in Finalize,
           NEW at \in Finalize,
           NEW k, k = worker[w].job, NEW o, o = k.op,
           worker' = [worker EXCEPT ![w].at = at],
           UNCHANGED <<opt, pc, sent, reply, result, lane, first, began>>,
           rival' = (rival \/ Rival(o)), SamePath("temp"),
           excuse[o] \subseteq excuse'[o], \A x \in Downloads \ {o} :
           excuse'[x] = excuse[x],
           WholeUnlessRival', DestKept(o)'
    PROVE  Files'
  <1>1. J' = J
    BY GoOnJobs DEF Base
  <1>2. \A x : Outstanding(x)' = Outstanding(x)
    BY <1>1, SameJobs
  <1>3. /\ o \in Downloads /\ pc[o] # "idle" /\ opt[o].atomic
        /\ WrittenSoFar(o)
        /\ IF k.live THEN pc[o] = "finalizing" /\ reply[o] = "none"
                     ELSE pc[o] \in Dropped
    BY FinalizeFacts
  <1>4. WrittenSoFar(o)'
    BY <1>2, <1>3 DEF WrittenSoFar, SamePath, Dropped, Body
  <1>5. DestOwned(o)'
    BY <1>3 DEF DestOwned
  <1>6. QED
    BY <1>2, <1>3, <1>4, <1>5, TouchStep DEF Written

\* Is the destination there?
LEMMA ExistsFiles ==
    ASSUME Base, Files, ~rival, NEW w \in Workers, ExistsCall(w)
    PROVE  Files'
  <1>1. PICK k, o : k = worker[w].job /\ o = k.op
    OBVIOUS
  <1>2. PICK at \in {"unlink", "rename"} : worker' = [worker EXCEPT ![w].at = at]
    BY DEF ExistsCall
  <1>3. /\ worker[w].at = "exists" /\ at \in Finalize /\ worker[w].at \in Finalize
        /\ UNCHANGED <<file, opt, pc, sent, reply, result, lane, first, began, excuse>>
        /\ rival' = (rival \/ Rival(o))
    BY <1>1, <1>2 DEF ExistsCall, Touch, Finalize
  <1>4. SamePath("temp") /\ SamePath("dest")
    BY <1>3 DEF SamePath, Exists
  <1>5. WholeUnlessRival'
    BY <1>3, <1>4, WholeKept DEF Files
  <1>6. o \in Downloads
    BY <1>1, <1>3, FinalizeFacts
  <1>7. \A v \in Workers \ {w} : worker'[v] = worker[v]
    BY <1>2, <1>3, GoOnJobs DEF Base
  <1>8. Renaming(o) => Renaming(o)'
    BY <1>3, <1>7 DEF Renaming
  <1>9. DestKept(o)'
    BY <1>3, <1>4, <1>6, <1>8, DestAside DEF Files
  <1>10. Base'
    BY CallStep DEF Call
  <1>11. QED
    BY <1>1, <1>2, <1>3, <1>4, <1>5, <1>6, <1>9, <1>10, GoOnFiles

\* The removal of the old destination.
LEMMA UnlinkFiles ==
    ASSUME Base, Files, ~rival, NEW w \in Workers, UnlinkCall(w)
    PROVE  Files'
  <1>1. PICK k, o : k = worker[w].job /\ o = k.op
    OBVIOUS
  <1>2. PICK at \in {"undo", "rename"} :
           /\ worker' = [worker EXCEPT ![w].at = at]
           /\ IF at = "rename" THEN Exists("dest") /\ file' = Without("dest")
                               ELSE UNCHANGED file
    BY DEF UnlinkCall
  <1>3. /\ worker[w].at = "unlink" /\ at \in Finalize /\ worker[w].at \in Finalize
        /\ UNCHANGED <<opt, pc, sent, reply, result, lane, first, began, excuse>>
        /\ rival' = (rival \/ Rival(o))
    BY <1>1, <1>2 DEF UnlinkCall, Touch, Finalize
  <1>4. SamePath("temp") /\ IF at = "rename" THEN ~Exists("dest")' ELSE SamePath("dest")
    <2>1. CASE at = "rename"
      BY <1>2, <2>1, WithoutFacts
    <2>2. CASE at = "undo"
      BY <1>2, <2>2 DEF SamePath, Exists
    <2>3. QED
      BY <2>1, <2>2
  <1>5. WholeUnlessRival'
    <2>1. CASE at = "rename"
      BY <1>4, <2>1 DEF WholeUnlessRival
    <2>2. CASE at = "undo"
      BY <1>3, <1>4, <2>2, WholeKept DEF Files
    <2>3. QED
      BY <2>1, <2>2
  <1>6. /\ o \in Downloads /\ opt[o].atomic /\ result[o] # "ok"
        /\ IF k.live THEN pc[o] = "finalizing" /\ reply[o] = "none"
           ELSE excuse[o] \cap {"deadline", "cancel"} # {}
    BY <1>1, <1>3, FinalizeFacts
  <1>7. worker'[w].at = at /\ \A v \in Workers \ {w} : worker'[v] = worker[v]
    BY <1>2, <1>3, GoOnJobs DEF Base
  <1>8. DestKept(o)'
    <2>1. CASE ~k.live
      BY <1>3, <1>6, <2>1 DEF DestKept, Accounted
    <2>2. CASE k.live /\ at = "rename"
      <3>1. Renaming(o)'
        BY <1>2, <1>3, <1>6, <1>7, <2>2 DEF Renaming
      <3>2. QED
        BY <1>3, <1>6, <3>1 DEF DestKept, Accounted
    <2>3. CASE at = "undo"
      <3>1. SamePath("dest")
        BY <1>4, <2>3
      <3>2. Renaming(o) => Renaming(o)'
        BY <1>3, <1>7 DEF Renaming
      <3>3. QED
        BY <1>3, <1>6, <3>1, <3>2, DestAside DEF Files
    <2>4. QED
      BY <2>1, <2>2, <2>3
  <1>9. Base'
    BY CallStep DEF Call
  <1>10. QED
    BY <1>1, <1>2, <1>3, <1>4, <1>5, <1>6, <1>8, <1>9, GoOnFiles

\* The rename(2): the destination is the body, or stays as it was.
LEMMA RenameFiles ==
    ASSUME Base, Files, ~rival, NEW w \in Workers, RenameCall(w)
    PROVE  Files'
  <1>1. PICK k, o : k = worker[w].job /\ o = k.op
    OBVIOUS
  <1>2. /\ worker[w].at = "rename" /\ worker[w].at \in Finalize /\ worker[w].at # "idle"
        /\ UNCHANGED <<opt, pc, sent, result, lane, first, began>>
           /\ rival' = (rival \/ Rival(o))
    BY <1>1 DEF RenameCall, Touch, Finalize
  <1>3. /\ o \in Downloads /\ k.live \in BOOLEAN /\ pc[o] # "idle"
        /\ opt[o].atomic /\ o \in began /\ result[o] # "ok"
        /\ IF k.live THEN pc[o] = "finalizing" /\ reply[o] = "none" /\ Exists("temp")
           ELSE pc[o] \in Dropped /\ excuse[o] \cap {"deadline", "cancel"} # {}
        /\ Exists("temp") => file["temp"] = Body(o)
        /\ k.kind = "finalize"
    BY <1>1, <1>2, FinalizeFacts
  <1>4. Base'
    BY CallStep DEF Call
  <1>5. CASE /\ Exists("temp") /\ file' = [q \in {"dest"} |-> file["temp"]]
             /\ Answer(w, "ok") /\ UNCHANGED excuse
    <2>1. ~Exists("temp")' /\ Exists("dest")' /\ file'["dest"] = Body(o)
      BY <1>3, <1>5 DEF Exists
    <2>2. /\ \A x : x # o => Outstanding(x)' = Outstanding(x)
          /\ Outstanding(o) \subseteq Outstanding(o)' \cup {"finalize"}
          /\ reply'[o] = IF k.live THEN "ok" ELSE reply[o]
          /\ \A x \in Downloads : x # o => reply'[x] = reply[x]
      BY <1>1, <1>2, <1>3, <1>5, AnsweredKinds
    <2>3. Body(o)' = Body(o)
      BY DEF Body
    <2>4. Written(o)'
      BY <1>2, <1>3, <2>1, <2>2, <2>3 DEF Written, WrittenSoFar, DestOwned, Holds, Dropped
    <2>5. WholeUnlessRival'
      BY <1>2, <1>3, <2>1, <2>3 DEF WholeUnlessRival
    <2>6. DestKept(o)'
      BY <1>2, <1>3, <1>5, <2>2 DEF DestKept, Accounted
    <2>7. QED
      BY <1>2, <1>3, <1>4, <1>5, <2>1, <2>2, <2>4, <2>5, <2>6, TouchStep
  <1>6. CASE /\ worker' = [worker EXCEPT ![w].at = "undo"]
             /\ excuse' = IF Exists("temp") THEN [excuse EXCEPT ![o] = @ \cup {"fault"}]
                ELSE excuse
             /\ UNCHANGED <<file, reply>>
    <2>1. "undo" \in Finalize /\ SamePath("temp") /\ SamePath("dest")
      BY <1>6 DEF Finalize, SamePath, Exists
    <2>2. /\ excuse[o] \subseteq excuse'[o] /\ \A x \in Downloads \ {o} :
             excuse'[x] = excuse[x]
          /\ Exists("temp") => "fault" \in excuse'[o]
      BY <1>3, <1>6 DEF Base, Typed
    <2>3. WholeUnlessRival'
      BY <1>2, <2>1, WholeKept DEF Files
    <2>4. DestKept(o)'
      BY <1>2, <1>3, <2>2 DEF DestKept, Accounted
    <2>5. QED
      BY <1>1, <1>2, <1>3, <1>4, <1>6, <2>1, <2>2, <2>3, <2>4, GoOnFiles
  <1>7. QED
    BY <1>1, <1>5, <1>6 DEF RenameCall

\* The removal of the temporary file after a rename that failed.
LEMMA UndoFiles ==
    ASSUME Base, Files, ~rival, NEW w \in Workers, UndoCall(w)
    PROVE  Files'
  <1>1. PICK k, o : k = worker[w].job /\ o = k.op
    OBVIOUS
  <1>2. /\ worker[w].at = "undo" /\ worker[w].at \in Finalize /\ worker[w].at # "idle"
        /\ UNCHANGED <<opt, pc, sent, result, lane, first, began, excuse>>
           /\ rival' = (rival \/ Rival(o))
        /\ file' = Without("temp") /\ Answer(w, "error")
    BY <1>1 DEF UndoCall, Touch, Finalize
  <1>3. /\ o \in Downloads /\ k.live \in BOOLEAN /\ pc[o] # "idle" /\ k \in J
        /\ opt[o].atomic /\ o \in began /\ result[o] # "ok" /\ k.kind = "finalize"
        /\ IF k.live THEN pc[o] = "finalizing" /\ reply[o] = "none"
           ELSE pc[o] \in Dropped /\ excuse[o] \cap {"deadline", "cancel"} # {}
    BY <1>1, <1>2, FinalizeFacts
  <1>4. Base'
    BY CallStep DEF Call
  <1>5. ~Exists("temp")' /\ SamePath("dest")
    BY <1>2, WithoutFacts
  <1>6. /\ \A x : x # o => Outstanding(x)' = Outstanding(x)
        /\ reply'[o] = IF k.live THEN "error" ELSE reply[o]
        /\ \A x \in Downloads : x # o => reply'[x] = reply[x]
        /\ \A v \in Workers \ {w} : worker'[v] = worker[v]
    BY <1>1, <1>2, <1>3, AnsweredKinds
  <1>7. Written(o)'
    BY <1>2, <1>3, <1>5, <1>6 DEF Written, WrittenSoFar, DestOwned, Dropped
  <1>8. WholeUnlessRival'
    BY <1>2, <1>5, WholeKept DEF Files
  <1>9. DestKept(o)'
    <2>1. CASE ~k.live
      BY <1>2, <1>3, <2>1 DEF DestKept, Accounted
    <2>2. CASE k.live
      <3>1. Alone(o) => ~Renaming(o)
        <4> SUFFICES ASSUME Alone(o), NEW v \in Workers, worker[v].at = "rename"
                     PROVE  FALSE
          BY DEF Renaming
        <4>1. PICK j : j = worker[v].job
          OBVIOUS
        <4>2. worker[v].at \in Finalize /\ v # w
          BY <1>2 DEF Finalize
        <4>3. j.op \in Downloads /\ pc[j.op] # "idle" /\ j.kind = "finalize"
          BY <4>1, <4>2, FinalizeFacts
        <4>4. j.op = o
          BY <4>3 DEF Alone
        <4>5. v \in Busy(worker) /\ w \in Busy(worker)
          BY <1>2 DEF Busy
        <4>6. ~Clash(j, k)
          BY <1>1, <4>1, <4>2, <4>5 DEF Base, LaneOK
        <4>7. QED
          BY <1>1, <1>3, <4>3, <4>4, <4>6 DEF Clash, Main
      <3>2. QED
        BY <1>2, <1>3, <1>5, <2>2, <3>1, DestAside DEF Files
    <2>3. QED
      BY <2>1, <2>2
  <1>10. QED
    BY <1>2, <1>3, <1>4, <1>5, <1>6, <1>7, <1>8, <1>9, TouchStep

-----------------------------------------------------------------------------
(* The theorems *)

\* Files is inductive relative to Base.
LEMMA FilesKept ==
    ASSUME Base, Files, [Next]_vars
    PROVE  Files'
  <1>1. CASE UNCHANGED vars
    <2>1. UNCHANGED <<file, opt, pc, sent, reply, result, lane, worker, driver, first,
          began, rival, excuse>>
      BY <1>1 DEF vars
    <2>2. \A x : Outstanding(x)' = Outstanding(x)
      BY <2>1 DEF Outstanding, Running
    <2>3. Calm /\ \A x \in Downloads : Elsewhere(x)
      BY <2>1, <2>2 DEF Calm, Elsewhere
    <2>4. \A x \in Downloads : Written(x)'
      BY <2>3, WrittenElsewhere DEF Files
    <2>5. \A x \in Downloads : DestKept(x)'
      BY <2>1 DEF Files, DestKept, Accounted, Renaming, Alone, Same, Holds, Exists, Body
    <2>6. \A x \in Downloads : Owes(x) => Owes(x)'
      BY <2>1, <2>3, OwesElsewhere
    <2>7. QED
      BY <2>1, <2>3, <2>4, <2>5, <2>6, DriverStep
  <1>2. CASE Next
    <2>1. ~rival
      BY <1>2 DEF Next
    <2>2. ASSUME NEW w \in Workers, Take(w) \/ Call(w)
          PROVE  Files'
      BY <2>1, <2>2, TakeFiles, PrepareFiles, CreateFiles, AppendFiles, RemoveFiles,
         ExistsFiles, UnlinkFiles, RenameFiles, UndoFiles
         DEF Call
    <2>3. ASSUME NEW o \in Downloads, Step(o)
          PROVE  Files'
      <3>1. CASE NoResponse(o)
        <4>1. Go(o, "sending", "failed") /\ "sending" \in PCs /\ "failed" \in PCs \ {"idle"}
          BY <3>1 DEF NoResponse, PCs, Inner, Active
        <4>2. QED
          BY <4>1, GoFiles
      <3>2. CASE BadRedirect(o)
        <4>1. Go(o, "sending", "fail") /\ "sending" \in PCs /\ "fail" \in PCs \ {"idle"}
          BY <3>2 DEF BadRedirect, PCs, Inner, Active
        <4>2. QED
          BY <4>1, GoFiles
      <3>3. CASE BrokenBody(o)
        <4>1. PICK from \in {"sending", "streaming"} : Go(o, from, "fail")
          BY <3>3 DEF BrokenBody
        <4>2. from \in PCs /\ "fail" \in PCs \ {"idle"}
          BY DEF PCs, Inner, Active
        <4>3. QED
          BY <4>1, <4>2, GoFiles
      <3>4. CASE Retire(o)
        <4>1. Go(o, "answered", "done") /\ "answered" \in PCs /\ "done" \in PCs \ {"idle"}
          BY <3>4 DEF Retire, PCs, Inner, Active
        <4>2. QED
          BY <4>1, GoFiles
      <3>5. QED
        BY <2>1, <2>3, <3>1, <3>2, <3>3, <3>4, PreparedFiles, ResponseFiles, CreatedFiles,
           FrameFiles, AppendedFiles, WholeFiles, FinalizedFiles, DiscardFiles,
           DiscardedFiles, CleanUpFiles, CleanedUpFiles
           DEF Step
    <2>4. ASSUME NEW o \in Downloads,
                 Submit(o) \/ Step(o) \/ Timeout(o) \/ Cancel(o) \/ Sweep(o) \/ Swept(o)
                   \/ ShutCancel(o)
          PROVE  Files'
      BY <2>3, <2>4, SubmitFiles, TimeoutFiles, CancelFiles, SweepFiles, SweptFiles,
         ShutCancelFiles
    <2>5. QED
      BY <1>2, <2>2, <2>4, ShutdownFiles, StopFiles DEF Next
  <1>3. QED
    BY <1>1, <1>2

\* Files holds at the start.
LEMMA InitFiles == Init => Files
  <1> SUFFICES ASSUME Init PROVE Files
    OBVIOUS
  <1>1. Base
    BY InitBase
  <1>2. first = file /\ began = {} /\ \A p \in DOMAIN file : file[p] = Old
    BY DEF Init
  <1>3. Same("dest") /\ Same("temp")
    BY <1>2 DEF Same, Exists
  <1>4. \A o \in Downloads : Written(o)
    BY <1>1, <1>2, WrittenEngaged DEF Engaged
  <1>5. \A o \in Downloads : DestKept(o)
    BY <1>3 DEF DestKept, Accounted, Init
  <1>6. TempOwed
    BY <1>2, <1>3 DEF TempOwed, NoAtomicBegun
  <1>7. WholeUnlessRival
    BY <1>2 DEF WholeUnlessRival, Exists
  <1>8. QED
    BY <1>4, <1>5, <1>6, <1>7 DEF Files

\* The inductive invariant.
DInv == Base /\ Files

\* Base and Files are an invariant of the downloads, for every number of parts, workers,
\* places in the queue and downloads: what each job of the lane says of the future that
\* awaits it or has dropped it, and what the output of each download holds at each place
\* of that future (run_download and h12_download_with_redirects, lib.rs; FileLane and
\* driver_loop, runtime.rs).
THEOREM Invariance == Spec => []DInv
  <1>1. Init => DInv
    BY InitBase, InitFiles DEF DInv
  <1>2. DInv /\ [Next]_vars => DInv'
    BY BaseKept, FilesKept DEF DInv
  <1>3. QED
    BY <1>1, <1>2, PTL DEF Spec

\* WholeUnlessRival: while no two downloads shared a file, the destination of an atomic
\* download never holds part of a body: it is absent, as it was at the start, or a whole
\* body, whatever job was dropped, refused or left behind (finalize_atomic_download).
THEOREM NeverPartOfABody == Spec => []WholeUnlessRival
  <1>1. DInv => WholeUnlessRival
    BY DEF DInv, Files
  <1>2. QED
    BY <1>1, Invariance, PTL

\* AtomicOutcome: an atomic download that ran alone leaves its body in the destination
\* if its caller was told ok, and the destination as it was if the caller was told of an
\* error, unless its future was dropped while it waited for the rename, or the rename
\* failed once the destination was gone (finalize_atomic_download, driver_loop).
THEOREM AnswerIsTrue == Spec => []AtomicOutcome
  <1>1. DInv => AtomicOutcome
    <2> SUFFICES ASSUME DInv, NEW o \in Downloads, opt[o].atomic, Alone(o), Over(o)
                 PROVE  IF result[o] = "ok"
                          THEN Exists("dest") /\ file["dest"] = Body(o)
                          ELSE excuse[o] \cap {"deadline", "cancel", "fault"} = {}
                            => Same("dest")
      BY DEF AtomicOutcome
    <2>1. Control(o) /\ Accounted(o) /\ (result[o] = "ok" => Holds("dest", Body(o)))
      BY DEF DInv, Base, Files, DestKept
    <2>2. pc[o] # "finalizing"
      BY <2>1 DEF Control, Inner, Over
    <2>3. QED
      BY <2>1, <2>2 DEF Holds, Accounted, Renaming
  <1>2. QED
    BY <1>1, Invariance, PTL

\* TempSweptUp: once the downloads are over and the lane is empty, no temporary file of
\* an atomic download is left, unless a dropped open ran after its removal, the lane had
\* no room for the removal, or the driver stopped before it (the cleanups of
\* run_download and of driver_loop).
THEOREM NoTemporaryFileLeft == Spec => []TempSweptUp
  <1>1. DInv => TempSweptUp
    <2> SUFFICES ASSUME DInv, ~rival, Exists("temp"),
                        \A o \in Downloads : pc[o] # "idle" => pc[o] # "stopping" /\ Over(o)
                 PROVE  \/ Same("temp")
                        \/ \E o \in Downloads :
                           excuse[o] \cap {"create", "refused", "unswept"} # {}
      BY DEF TempSweptUp
    <2>1. CASE \E o \in Downloads : Owes(o)
      <3>1. PICK o \in Downloads : Owes(o)
        BY <2>1
      <3>2. Control(o) /\ o \in began
        BY <3>1 DEF DInv, Base, Owes
      <3>3. pc[o] # "idle"
        BY <3>2 DEF Control
      <3>4. pc[o] # "stopping" /\ result[o] # "none" /\ Outstanding(o) = {}
        BY <3>3 DEF Over
      <3>5. pc[o] \notin Owing
        BY <3>2, <3>4 DEF Control, Inner, Owing
      <3>6. QED
        BY <3>1, <3>4, <3>5 DEF Owes
    <2>2. CASE Same("temp")
      BY <2>2
    <2>3. QED
      BY <2>1, <2>2 DEF DInv, Files, TempOwed
  <1>2. QED
    BY <1>1, Invariance, PTL
=============================================================================
