------------------------------ MODULE Download ------------------------------
(***************************************************************************)
(* Downloads of the network runtime that write one destination file, the   *)
(* file lane that runs their blocking file work, and the removals that     *)
(* deadlines, cancellations and the runtime's shutdown leave to that lane  *)
(* (crates/xsh-net/src/lib.rs and runtime.rs).                             *)
(*                                                                         *)
(* An atomic download writes "temp", a name made of the destination's and  *)
(* of the process id, and renames it over "dest" when the body is whole;   *)
(* any other writes "dest" itself.  Every call on the file system is a job *)
(* of the lane: a bounded queue that two worker threads serve, each in its *)
(* own time.  A download that is dropped leaves its job where it is.  The  *)
(* files of every reachable state are what a killed process would leave.   *)
(***************************************************************************)
EXTENDS Naturals, Sequences, FiniteSets

CONSTANTS Downloads,     \* the downloads, all to one destination
          Workers,       \* MAX_FILE_WORKERS threads of the file lane
          LaneCapacity,  \* MAX_QUEUED_FILE_OPERATIONS
          Parts,         \* the frames of a response body
          Choices        \* the options a script passes

ASSUME DownloadAssumption ==
  /\ LaneCapacity \in Nat \ {0}
  /\ Parts \in Nat \ {0}
  /\ Choices \subseteq [atomic : BOOLEAN, overwrite : BOOLEAN]
  /\ "disk" \notin Downloads

VARIABLES
  file,    \* the files that exist: path -> the parts written to it, in order
  opt,     \* the options each download was submitted with
  pc,      \* where each download's future, or the driver on its behalf, is
  sent,    \* how many parts of the body the download has written
  reply,   \* the outcome of the file job the download awaits
  result,  \* what the caller of the download has been told
  lane,    \* the queued file jobs
  worker,  \* the job each worker runs and the call it makes next
  driver,  \* "open", "shutting" or "stopped"
  \* history, read by the properties only
  first,   \* the content of the destination in the initial state
  began,   \* the downloads whose output was created
  rival,   \* a job touched the files while another download was under way
  excuse   \* what kept each download from removing or renaming its output

vars == <<file, opt, pc, sent, reply, result, lane, worker, driver,
          first, began, rival, excuse>>
history == <<first, began, rival, excuse>>

Paths == {"dest", "temp"}

\* inside h12_download_with_redirects, which the total timeout encloses
Inner == {"sending", "creating", "streaming", "appending", "fail",
          "discarding", "finalizing"}
Active == Inner \cup {"failed", "cleaning", "answered"}
PCs == {"idle", "done", "stopping", "sweeping", "shutSweeping"}
         \cup {"preparing"} \cup Active

Excuses == {"create", "deadline", "cancel", "refused", "unswept", "fault"}

-----------------------------------------------------------------------------
(* Files *)

Exists(p) == p \in DOMAIN file
With(p, c) == [q \in DOMAIN file \cup {p} |-> IF q = p THEN c ELSE file[q]]
Without(p) == [q \in DOMAIN file \ {p} |-> file[q]]

Old == <<<<"disk", 0>>>>
Body(o) == [k \in 1..Parts |-> <<o, k>>]

\* The path a download writes: temp_download_path, or the destination itself.
Output(o) == IF opt[o].atomic THEN "temp" ELSE "dest"

-----------------------------------------------------------------------------
(* The file lane *)

Job(o, kind, part) == [op |-> o, kind |-> kind, part |-> part, live |-> TRUE]
Idle == [job |-> Job("disk", "none", 0), at |-> "idle"]

HasRoom == Len(lane) < LaneCapacity
Running(w) == worker[w].at # "idle"

\* The kinds of the jobs of a download that no worker has finished.
Outstanding(o) ==
  {lane[i].kind : i \in {j \in DOMAIN lane : lane[j].op = o}}
    \cup {worker[w].job.kind : w \in {v \in Workers : Running(v) /\ worker[v].job.op = o}}

\* Dropping a future drops the receiver of the job it awaits, not the job.
Orphan(job, dropped) == [job EXCEPT !.live = @ /\ job.op \notin dropped]
OrphanLane(dropped) == [i \in DOMAIN lane |-> Orphan(lane[i], dropped)]
OrphanWorkers(dropped) ==
  [w \in Workers |-> [worker[w] EXCEPT !.job = Orphan(@, dropped)]]
Forget(dropped) == [o \in Downloads |-> IF o \in dropped THEN "none" ELSE reply[o]]

\* run_file: the queue takes the job and the future awaits its reply.
Await(o, kind, part, next) ==
  /\ lane' = Append(lane, Job(o, kind, part))
  /\ pc' = [pc EXCEPT ![o] = next]

Consume(o) == reply[o] # "none" /\ reply' = [reply EXCEPT ![o] = "none"]

\* Another download that has an output and is not over.
Rival(o) ==
  \E y \in Downloads \ {o} :
     y \in began /\ (result[y] = "none" \/ Outstanding(y) # {})

Touch(o) == rival' = (rival \/ Rival(o))

-----------------------------------------------------------------------------
(* A worker takes a job and makes its calls one at a time *)

FirstCall(kind) == IF kind = "finalize" THEN "exists" ELSE kind

Take(w) ==
  /\ ~Running(w)
  /\ lane # <<>>
  /\ worker' = [worker EXCEPT ![w] =
                  [job |-> Head(lane), at |-> FirstCall(Head(lane).kind)]]
  /\ lane' = Tail(lane)
  /\ UNCHANGED <<file, opt, pc, sent, reply, result, driver, history>>

Answer(w, outcome) ==
  /\ worker' = [worker EXCEPT ![w] = Idle]
  /\ LET job == worker[w].job
     IN reply' = IF job.live THEN [reply EXCEPT ![job.op] = outcome] ELSE reply

\* prepare_download_destination refuses a destination that may not be replaced,
\* or fails to make the directories above it.
PrepareCall(w) ==
  LET o == worker[w].job.op
  IN /\ worker[w].at = "prepare"
     /\ \/ (opt[o].overwrite \/ ~Exists("dest")) /\ Answer(w, "ok")
        \/ Answer(w, "error")
     /\ UNCHANGED <<file, opt, pc, sent, result, lane, driver, history>>

\* Mutant: the output is opened without truncating it.
CreateCallKeeps(w) ==
  LET o == worker[w].job.op
  IN /\ worker[w].at = "create"
     /\ IF opt[o].overwrite \/ ~Exists(Output(o))
          THEN /\ file' = With(Output(o), IF Exists(Output(o)) THEN file[Output(o)] ELSE <<>>)
               /\ began' = began \cup {o}
               /\ Answer(w, "ok")
          ELSE /\ UNCHANGED <<file, began>>
               /\ Answer(w, "error")
     /\ Touch(o)
     /\ UNCHANGED <<opt, pc, sent, result, lane, driver, first, excuse>>

\* create_download_output: create_new unless overwriting, else truncate; it may
\* fail.
CreateCall(w) ==
  LET o == worker[w].job.op
  IN /\ worker[w].at = "create"
     /\ \/ /\ opt[o].overwrite \/ ~Exists(Output(o))
           /\ file' = With(Output(o), <<>>)
           /\ began' = began \cup {o}
           /\ Answer(w, "ok")
        \/ /\ UNCHANGED <<file, began>>
           /\ Answer(w, "error")
     /\ Touch(o)
     /\ UNCHANGED <<opt, pc, sent, result, lane, driver, first, excuse>>

\* append_download_data opens without creating; a failing write may leave some.
AppendCall(w) ==
  LET o == worker[w].job.op
      out == Output(o)
      part == worker[w].job.part
  IN /\ worker[w].at = "append"
     /\ \/ /\ Exists(out)
           /\ file' = With(out, Append(file[out], <<o, part>>))
           /\ Answer(w, "ok")
        \/ /\ Exists(out)
           /\ file' = With(out, Append(file[out], <<o, 0>>))
           /\ Answer(w, "error")
        \/ /\ ~Exists(out)
           /\ file' = file
           /\ Answer(w, "error")
     /\ Touch(o)
     /\ UNCHANGED <<opt, pc, sent, result, lane, driver, first, began, excuse>>

\* remove_download_output: a file that is not there is removed.
RemoveCall(w) ==
  LET o == worker[w].job.op
  IN /\ worker[w].at = "remove"
     /\ file' = Without(Output(o))
     /\ Answer(w, "ok")
     /\ Touch(o)
     /\ UNCHANGED <<opt, pc, sent, result, lane, driver, first, began, excuse>>

\* finalize_atomic_download: is there a destination to remove?
ExistsCall(w) ==
  LET o == worker[w].job.op
  IN /\ worker[w].at = "exists"
     /\ worker' = [worker EXCEPT ![w].at =
                     IF opt[o].overwrite /\ Exists("dest") THEN "unlink" ELSE "rename"]
     /\ Touch(o)
     /\ UNCHANGED <<file, opt, pc, sent, reply, result, lane, driver, first, began, excuse>>

UnlinkCall(w) ==
  LET o == worker[w].job.op
  IN /\ worker[w].at = "unlink"
     /\ \/ /\ Exists("dest")
           /\ file' = Without("dest")
           /\ worker' = [worker EXCEPT ![w].at = "rename"]
        \/ /\ UNCHANGED file
           /\ worker' = [worker EXCEPT ![w].at = "undo"]
     /\ Touch(o)
     /\ UNCHANGED <<opt, pc, sent, reply, result, lane, driver, first, began, excuse>>

RenameCall(w) ==
  LET o == worker[w].job.op
      moved == [q \in {"dest"} |-> file["temp"]]
  IN /\ worker[w].at = "rename"
     /\ \/ /\ Exists("temp")
           /\ file' = moved
           /\ Answer(w, "ok")
           /\ UNCHANGED excuse
        \/ /\ worker' = [worker EXCEPT ![w].at = "undo"]
           /\ excuse' = IF Exists("temp") THEN [excuse EXCEPT ![o] = @ \cup {"fault"}]
                                          ELSE excuse
           /\ UNCHANGED <<file, reply>>
     /\ Touch(o)
     /\ UNCHANGED <<opt, pc, sent, result, lane, driver, first, began>>

\* The error of either call removes the output before it is reported.
UndoCall(w) ==
  LET o == worker[w].job.op
  IN /\ worker[w].at = "undo"
     /\ file' = Without("temp")
     /\ Answer(w, "error")
     /\ Touch(o)
     /\ UNCHANGED <<opt, pc, sent, result, lane, driver, first, began, excuse>>

Call(w) == \/ PrepareCall(w) \/ CreateCall(w) \/ AppendCall(w) \/ RemoveCall(w)
           \/ ExistsCall(w) \/ UnlinkCall(w) \/ RenameCall(w) \/ UndoCall(w)

-----------------------------------------------------------------------------
(* The download's own future *)

\* The driver takes the operation and prepare_transport looks at the destination.
Submit(o) ==
  /\ driver = "open"
  /\ pc[o] = "idle"
  /\ \E choice \in Choices : opt' = [opt EXCEPT ![o] = choice]
  /\ \/ HasRoom /\ Await(o, "prepare", 0, "preparing") /\ UNCHANGED result
     \/ /\ ~HasRoom
        /\ pc' = [pc EXCEPT ![o] = "done"]
        /\ result' = [result EXCEPT ![o] = "error"]
        /\ UNCHANGED lane
  /\ UNCHANGED <<reply, file, sent, worker, driver, history>>

\* A prepared download waits for one of the active permits, which are free.
Prepared(o) ==
  /\ driver = "open"
  /\ pc[o] = "preparing"
  /\ Consume(o)
  /\ IF reply[o] = "ok"
       THEN pc' = [pc EXCEPT ![o] = "sending"] /\ UNCHANGED result
       ELSE /\ pc' = [pc EXCEPT ![o] = "done"]
            /\ result' = [result EXCEPT ![o] = "error"]
  /\ UNCHANGED <<file, opt, sent, lane, worker, driver, history>>

Go(o, from, to) ==
  /\ pc[o] = from
  /\ pc' = [pc EXCEPT ![o] = to]
  /\ UNCHANGED <<file, opt, sent, reply, result, lane, worker, driver, history>>

\* The connection fails, or the status is not accepted: the error leaves
\* h12_download_with_redirects without a removal of its own.
NoResponse(o) == Go(o, "sending", "failed")

\* A redirect that may not be followed removes the output first.
BadRedirect(o) == Go(o, "sending", "fail")

\* The final response: create the output.
Response(o) ==
  /\ pc[o] = "sending"
  /\ HasRoom
  /\ Await(o, "create", 0, "creating")
  /\ UNCHANGED <<reply, file, opt, sent, result, worker, driver, history>>

\* A failing frame, a body over the limit, or a lane without room.
BrokenBody(o) ==
  \/ Go(o, "streaming", "fail")
  \/ ~HasRoom /\ Go(o, "sending", "fail")

Created(o) ==
  /\ pc[o] = "creating"
  /\ Consume(o)
  /\ pc' = [pc EXCEPT ![o] = IF reply[o] = "ok" THEN "streaming" ELSE "fail"]
  /\ UNCHANGED <<file, opt, sent, result, lane, worker, driver, history>>

Frame(o) ==
  /\ pc[o] = "streaming"
  /\ sent[o] < Parts
  /\ HasRoom
  /\ Await(o, "append", sent[o] + 1, "appending")
  /\ UNCHANGED <<reply, file, opt, sent, result, worker, driver, history>>

Appended(o) ==
  /\ pc[o] = "appending"
  /\ Consume(o)
  /\ IF reply[o] = "ok"
       THEN /\ sent' = [sent EXCEPT ![o] = @ + 1]
            /\ pc' = [pc EXCEPT ![o] = "streaming"]
       ELSE /\ pc' = [pc EXCEPT ![o] = "fail"]
            /\ UNCHANGED sent
  /\ UNCHANGED <<file, opt, result, lane, worker, driver, history>>

\* The end of the body: rename an atomic download's output, or be done.
Whole(o) ==
  /\ pc[o] = "streaming"
  /\ sent[o] = Parts
  /\ \/ /\ opt[o].atomic /\ HasRoom
        /\ Await(o, "finalize", 0, "finalizing")
        /\ UNCHANGED result
     \/ /\ opt[o].atomic /\ ~HasRoom
        /\ pc' = [pc EXCEPT ![o] = "failed"]
        /\ UNCHANGED <<lane, result>>
     \/ /\ ~opt[o].atomic
        /\ pc' = [pc EXCEPT ![o] = "answered"]
        /\ result' = [result EXCEPT ![o] = "ok"]
        /\ UNCHANGED lane
  /\ UNCHANGED <<reply, file, opt, sent, worker, driver, history>>

\* Mutant: whatever finalize_atomic_download returns is a success.
FinalizedBlindly(o) ==
  /\ pc[o] = "finalizing"
  /\ Consume(o)
  /\ pc' = [pc EXCEPT ![o] = "answered"]
  /\ result' = [result EXCEPT ![o] = "ok"]
  /\ UNCHANGED <<file, opt, sent, lane, worker, driver, history>>

Finalized(o) ==
  /\ pc[o] = "finalizing"
  /\ Consume(o)
  /\ IF reply[o] = "ok"
       THEN /\ pc' = [pc EXCEPT ![o] = "answered"]
            /\ result' = [result EXCEPT ![o] = "ok"]
       ELSE /\ pc' = [pc EXCEPT ![o] = "failed"]
            /\ UNCHANGED result
  /\ UNCHANGED <<file, opt, sent, lane, worker, driver, history>>

\* The removal of h12_download_with_redirects, whatever becomes of it.
Discard(o) ==
  /\ pc[o] = "fail"
  /\ \/ HasRoom /\ Await(o, "remove", 0, "discarding")
     \/ /\ ~HasRoom
        /\ pc' = [pc EXCEPT ![o] = "failed"]
        /\ UNCHANGED lane
  /\ UNCHANGED <<reply, file, opt, sent, result, worker, driver, history>>

Discarded(o) ==
  /\ pc[o] = "discarding"
  /\ Consume(o)
  /\ pc' = [pc EXCEPT ![o] = "failed"]
  /\ UNCHANGED <<file, opt, sent, result, lane, worker, driver, history>>

\* A removal the lane has no room for is not made.
Refused(o) == IF opt[o].atomic THEN {"refused"} ELSE {}

\* run_download removes the output of an atomic download that failed.
CleanUp(o) ==
  /\ pc[o] = "failed"
  /\ \/ /\ opt[o].atomic /\ HasRoom
        /\ Await(o, "remove", 0, "cleaning")
        /\ UNCHANGED <<result, excuse>>
     \/ /\ opt[o].atomic => ~HasRoom
        /\ pc' = [pc EXCEPT ![o] = "answered"]
        /\ result' = [result EXCEPT ![o] = "error"]
        /\ excuse' = [excuse EXCEPT ![o] = @ \cup Refused(o)]
        /\ UNCHANGED lane
  /\ UNCHANGED <<reply, file, opt, sent, worker, driver, first, began, rival>>

CleanedUp(o) ==
  /\ pc[o] = "cleaning"
  /\ Consume(o)
  /\ pc' = [pc EXCEPT ![o] = "answered"]
  /\ result' = [result EXCEPT ![o] = "error"]
  /\ UNCHANGED <<file, opt, sent, lane, worker, driver, history>>

\* DriverCommand::Finished takes the operation off the active set.
Retire(o) ==
  /\ driver = "open"
  /\ Go(o, "answered", "done")

Step(o) ==
  \/ Prepared(o) \/ NoResponse(o) \/ BadRedirect(o) \/ Response(o)
  \/ BrokenBody(o) \/ Created(o) \/ Frame(o) \/ Appended(o) \/ Whole(o)
  \/ Finalized(o) \/ Discard(o) \/ Discarded(o) \/ CleanUp(o) \/ CleanedUp(o)
  \/ Retire(o)

-----------------------------------------------------------------------------
(* Deadlines, cancellation and the shutdown drop the future *)

Drop(dropped) ==
  /\ lane' = OrphanLane(dropped)
  /\ worker' = OrphanWorkers(dropped)
  /\ reply' = Forget(dropped)

\* A job of the lane that may change the files after its download was dropped.
Late(o, why) ==
  ({"create"} \cap Outstanding(o))
    \cup (IF pc[o] = "finalizing" THEN {why} ELSE {})

\* The total deadline: the driver's own before the transport starts, the race
\* in run_download while it runs.
Timeout(o) ==
  /\ driver # "stopped"
  /\ pc[o] \in {"preparing"} \cup Inner
  /\ Drop({o})
  /\ IF pc[o] \in Inner
       THEN pc' = [pc EXCEPT ![o] = "failed"] /\ UNCHANGED result
       ELSE /\ pc' = [pc EXCEPT ![o] = "done"]
            /\ result' = [result EXCEPT ![o] = "error"]
  /\ excuse' = [excuse EXCEPT ![o] = @ \cup Late(o, "deadline")]
  /\ UNCHANGED <<file, opt, sent, driver, first, began, rival>>

Told(o) == [result EXCEPT ![o] = IF @ = "none" THEN "error" ELSE @]

\* Mutant: no task is left to remove the output.
CancelOnly(o) ==
  /\ driver = "open"
  /\ pc[o] \in {"preparing"} \cup Active
  /\ Drop({o})
  /\ pc' = [pc EXCEPT ![o] = "done"]
  /\ result' = Told(o)
  /\ excuse' = [excuse EXCEPT ![o] = @ \cup Late(o, "cancel")]
  /\ UNCHANGED <<file, opt, sent, driver, first, began, rival>>

\* DriverCommand::Cancel: an active atomic download is left to a detached task.
Cancel(o) ==
  /\ driver = "open"
  /\ pc[o] \in {"preparing"} \cup Active
  /\ Drop({o})
  /\ IF pc[o] \in Active /\ opt[o].atomic
       THEN pc' = [pc EXCEPT ![o] = "stopping"] /\ UNCHANGED result
       ELSE pc' = [pc EXCEPT ![o] = "done"] /\ result' = Told(o)
  /\ excuse' = [excuse EXCEPT ![o] = @ \cup Late(o, "cancel")]
  /\ UNCHANGED <<file, opt, sent, driver, first, began, rival>>

\* The detached task, when the executor polls it: remove the output and answer.
Sweep(o) ==
  /\ driver # "stopped"
  /\ pc[o] = "stopping"
  /\ \/ /\ HasRoom
        /\ Await(o, "remove", 0, "sweeping")
        /\ UNCHANGED <<result, excuse>>
     \/ /\ ~HasRoom
        /\ pc' = [pc EXCEPT ![o] = "done"]
        /\ result' = Told(o)
        /\ excuse' = [excuse EXCEPT ![o] = @ \cup {"refused"}]
        /\ UNCHANGED lane
  /\ UNCHANGED <<reply, file, opt, sent, worker, driver, first, began, rival>>

Swept(o) ==
  /\ pc[o] \in {"shutSweeping", "sweeping"}
  /\ pc[o] = "sweeping" => driver # "stopped"
  /\ Consume(o)
  /\ pc' = [pc EXCEPT ![o] = "done"]
  /\ result' = Told(o)
  /\ UNCHANGED <<file, opt, sent, lane, worker, driver, history>>

\* DriverCommand::Shutdown: what has not started is dropped at once, ...
Shutdown ==
  LET waiting == {o \in Downloads : pc[o] = "preparing"}
  IN /\ driver = "open"
     /\ driver' = "shutting"
     /\ pc' = [o \in Downloads |-> IF o \in waiting THEN "done" ELSE pc[o]]
     /\ Drop(waiting)
     /\ UNCHANGED <<file, opt, sent, result, history>>

\* ... the active ones in turn, each after the removal of the one before.
ShutCancel(o) ==
  /\ driver = "shutting"
  /\ pc[o] \in Active
  /\ \A y \in Downloads : pc[y] # "shutSweeping"
  /\ worker' = OrphanWorkers({o})
  /\ reply' = Forget({o})
  /\ \/ /\ opt[o].atomic /\ HasRoom
        /\ lane' = Append(OrphanLane({o}), Job(o, "remove", 0))
        /\ pc' = [pc EXCEPT ![o] = "shutSweeping"]
        /\ excuse' = [excuse EXCEPT ![o] = @ \cup Late(o, "cancel")]
        /\ UNCHANGED result
     \/ /\ opt[o].atomic => ~HasRoom
        /\ lane' = OrphanLane({o})
        /\ pc' = [pc EXCEPT ![o] = "done"]
        /\ excuse' = [excuse EXCEPT ![o] = @ \cup Late(o, "cancel") \cup Refused(o)]
        /\ result' = Told(o)
  /\ UNCHANGED <<file, opt, sent, driver, first, began, rival>>

\* The driver returns: its executor and every detached task go with it, and
\* complete_all answers what is left.  The lane serves what it was given.
Stop ==
  /\ driver = "shutting"
  /\ \A o \in Downloads : pc[o] \notin Active \cup {"shutSweeping"}
  /\ driver' = "stopped"
  /\ LET left == {o \in Downloads : pc[o] \in {"stopping", "sweeping"}}
     IN /\ pc' = [o \in Downloads |-> IF o \in left THEN "done" ELSE pc[o]]
        /\ result' = [o \in Downloads |->
                        IF pc[o] # "idle" /\ result[o] = "none" THEN "error" ELSE result[o]]
        /\ excuse' = [o \in Downloads |->
                        IF pc[o] = "stopping" THEN excuse[o] \cup {"unswept"} ELSE excuse[o]]
  /\ UNCHANGED <<file, opt, sent, reply, lane, worker, first, began, rival>>

-----------------------------------------------------------------------------
\* The destination is there or not, and an earlier process with this process
\* id may have left its temporary file.
Init ==
  /\ \E there \in SUBSET Paths : file = [p \in there |-> Old]
  /\ first = file
  /\ opt = [o \in Downloads |-> [atomic |-> TRUE, overwrite |-> TRUE]]
  /\ pc = [o \in Downloads |-> "idle"]
  /\ sent = [o \in Downloads |-> 0]
  /\ reply = [o \in Downloads |-> "none"]
  /\ result = [o \in Downloads |-> "none"]
  /\ lane = <<>>
  /\ worker = [w \in Workers |-> Idle]
  /\ driver = "open"
  /\ began = {}
  /\ rival = FALSE
  /\ excuse = [o \in Downloads |-> {}]

\* What two downloads write over each other is in no property's reach, so that a
\* history in which they have met at one file is not followed any further.
Next ==
  /\ ~rival
  /\ \/ \E w \in Workers : Take(w) \/ Call(w)
     \/ \E o \in Downloads : \/ Submit(o) \/ Step(o) \/ Timeout(o) \/ Cancel(o)
                             \/ Sweep(o) \/ Swept(o) \/ ShutCancel(o)
     \/ Shutdown
     \/ Stop

Spec == Init /\ [][Next]_vars

-----------------------------------------------------------------------------
(* Properties *)

Content == Seq((Downloads \cup {"disk"}) \X (0..Parts))
Jobs == [op : Downloads \cup {"disk"},
         kind : {"none", "prepare", "create", "append", "remove", "finalize"},
         part : 0..Parts, live : BOOLEAN]

\* The types of the variables; the lane never holds more than its capacity
\* (bounded::<FileCommand>).
TypeOK ==
  /\ DOMAIN file \subseteq Paths /\ \A p \in DOMAIN file : file[p] \in Content
  /\ DOMAIN first \subseteq Paths /\ \A p \in DOMAIN first : first[p] \in Content
  /\ opt \in [Downloads -> [atomic : BOOLEAN, overwrite : BOOLEAN]]
  /\ pc \in [Downloads -> PCs]
  /\ sent \in [Downloads -> 0..Parts]
  /\ reply \in [Downloads -> {"none", "ok", "error"}]
  /\ result \in [Downloads -> {"none", "ok", "error"}]
  /\ lane \in Seq(Jobs) /\ Len(lane) <= LaneCapacity
  /\ worker \in [Workers -> [job : Jobs, at : {"idle", "prepare", "create", "append",
                               "remove", "exists", "unlink", "rename", "undo"}]]
  /\ driver \in {"open", "shutting", "stopped"}
  /\ began \subseteq Downloads
  /\ rival \in BOOLEAN
  /\ excuse \in [Downloads -> SUBSET Excuses]

\* The caller has its answer and no job of the download is left.
Over(o) == result[o] # "none" /\ Outstanding(o) = {}

Same(p) == (Exists(p) <=> p \in DOMAIN first) /\ (Exists(p) => file[p] = first[p])

\* Whatever a deadline, a cancellation, a full lane or a kill of the process
\* interrupts, the destination of atomic downloads never shows part of a body,
\* nor parts of two, as long as no job of one download runs while another is
\* under way (they share one temporary name, lib.rs:1864); what else it may
\* show is what a download that is not atomic wrote itself.
WholeUnlessRival ==
  ~rival /\ Exists("dest") =>
    \/ file["dest"] \in {Old} \cup {Body(o) : o \in began}
    \/ \E o \in began : /\ ~opt[o].atomic
                        /\ \A i \in DOMAIN file["dest"] : file["dest"][i][1] = o

Alone(o) == \A y \in Downloads \ {o} : pc[y] = "idle"

\* What one atomic download tells its caller is true of the destination: its
\* body after a success, and what was there before after a failure, unless the
\* rename itself failed or the future was dropped while it waited for it
\* (finalize_atomic_download removes the destination before it renames).
AtomicOutcome ==
  \A o \in Downloads :
    opt[o].atomic /\ Alone(o) /\ Over(o) =>
      IF result[o] = "ok"
        THEN Exists("dest") /\ file["dest"] = Body(o)
        ELSE excuse[o] \cap {"deadline", "cancel", "fault"} = {} => Same("dest")

\* When the downloads are over, none of them has left the temporary file,
\* unless the lane had no room for its removal (the error is ignored at
\* lib.rs:1484 and 1636), the driver stopped before it polled the detached
\* removal (runtime.rs:907) or a dropped create ran after the removal.
TempSweptUp ==
  (/\ ~rival
   /\ Exists("temp")
   /\ \A o \in Downloads : pc[o] # "idle" => pc[o] # "stopping" /\ Over(o)) =>
    \/ Same("temp")
    \/ \E o \in Downloads : excuse[o] \cap {"create", "refused", "unswept"} # {}
=============================================================================
