----------------------------- MODULE QSAService -----------------------------
(***************************************************************************)
(* The job service of the simulator: qsa_service.py with the job routes of *)
(* v1/job.py that drive it.                                                *)
(*                                                                         *)
(* Three kinds of process run concurrently and share the status files:     *)
(*   - Clients: one HTTP request at a time, served by a thread of one API  *)
(*     process (run_job, get_jobs, get_job_by_id, delete_job, cancel_job); *)
(*   - Tasks: the execution of one accepted submission, a thread of the    *)
(*     service's executor or a spawned worker process;                     *)
(*   - Services: the QSAService instances, one for each API process, here  *)
(*     as the thread that runs close().                                    *)
(*                                                                         *)
(* One step is one access to shared state: taking _status_lock with the    *)
(* first look at the directory, one open, one flush, one truncate, one     *)
(* signal, one access to the registry of workers.  What runs between two   *)
(* such accesses is merged with the earlier one.  Authentication, which    *)
(* touches none of this state, is left to a module of its own.             *)
(***************************************************************************)
EXTENDS StatusFile, ErrorResponses, FiniteSets

CONSTANTS
    Clients,        \* concurrent callers of the API
    Services,       \* QSAService instances; one per API worker process
    Home,           \* the instance that serves a client
    Main,           \* the instance whose executor runs the tasks as threads
    Jobs,           \* job ids
    JobId,          \* the id a submission asks for
    BackendOf,      \* the backend a submission asks for
    StorageOf,      \* the types of the storages a submission names
    Backends,       \* the backends available
    MaxLanes,       \* qsa_max_execution_lanes
    MultiProcess,   \* TRUE: the deployed API; FALSE: the service as a library
    Requests,       \* the operations the clients use
    Programs,       \* the program_ids the clients use; "empty" has no character
    ReasonSizes,    \* bound: lengths of the reasons a failure may add
    Reservations,   \* qsa_simulate_backend_reservations
    Stoppable,      \* the instances that may be closed
    Nil             \* no job, no task, no process, no record, no file

Procs == Clients \cup Services \cup Tasks
Locks == Services \cup Tasks
Operations == {"submit", "get", "list", "delete", "cancel"}
KnownPrograms == {"sampler", "estimator"}

(* The storage types a submission may name, the first two in the API and   *)
(* "none" (no logs wanted) for a library user only, and those there is a   *)
(* storage of.                                                             *)
StorageTypes == {"s3_compatible", "ibmcloud_cos", "file_system", "none"}
Supported == {"s3_compatible", "file_system"}

ASSUME ProcsAssumption ==
    /\ Clients \cap Services = {} /\ Clients \cap Tasks = {} /\ Services \cap Tasks = {}
    /\ Home \in [Clients -> Services] /\ Main \in Services
    /\ Nil \notin Procs \cup Jobs \cup Record \cup File
ASSUME SubmissionsAssumption ==
    /\ JobId \in [Tasks -> Jobs]
    /\ StorageOf \in [Tasks -> [{"input", "results", "logs"} -> StorageTypes]]
    /\ IsFiniteSet(Jobs) /\ MaxLanes \in Nat
    /\ MultiProcess \in BOOLEAN /\ Reservations \in BOOLEAN
    /\ Requests \subseteq Operations /\ ReasonSizes \subseteq Nat \ {0}
    /\ Stoppable \subseteq Services

VARIABLES
    file,       \* jobs_dir: the content of each job's status file, or Nil
    lock,       \* holder of each _status_lock
    registry,   \* _mp_workers of each instance: the worker started for a job
    sigterm,    \* tasks whose worker process was sent SIGTERM
    stored,     \* what the storages hold: the results, the logs of a task
    pc,         \* where each process is
    op,         \* the operation a process executes
    job,        \* the job id it works on
    out,        \* the record (the dict job) it will write
    fd,         \* its open file is still the directory's file for that id
    todo,       \* job ids of the directory listing still to be read
    seen,       \* job ids collected from the listing
    reply       \* how a caller's last call ended, "none" while it executes

vars == <<file, lock, registry, sigterm, stored, pc, op, job, out, fd, todo, seen, reply>>
shared == <<registry, sigterm, stored>>
locals == <<op, job, out, fd, todo, seen, reply>>

TaskLabels == {"unborn", "void", "ready", "put", "update", "check", "flush", "trunc",
               "openw", "flushw", "fail", "overwrite", "logs", "done", "dead"}
CallerLabels == {"idle", "list", "scan", "open", "create", "openw", "flushw", "dispatch",
                 "register", "fail", "overwrite", "read", "load", "reap", "remove",
                 "kill", "update", "check", "flush", "trunc", "shutdown", "next",
                 "closed", "broken"}

(* The labels inside a "with self._status_lock" block.                     *)
Critical == {"scan", "open", "load", "check", "flush", "trunc", "openw", "flushw",
             "overwrite"}

(* Submissions never accepted, executions that ended, worker processes or  *)
(* threads that exist.                                                     *)
Ended == {"done", "dead"}
Alive(t) == pc[t] \notin {"unborn", "void"} \cup Ended

(* A spawned worker builds a QSAService of its own (950, 976), so that its *)
(* lock is its own; a thread uses the lock of the service that runs it.    *)
Gate_OfEveryThread(p) == IF p \in Clients THEN Home[p] ELSE p    \* mutant

Gate(p) == CASE p \in Clients  -> Home[p]
             [] p \in Services -> p
             [] p \in Tasks    -> IF MultiProcess THEN p ELSE Main

Server(p) == IF p \in Services THEN p ELSE Home[p]

Init ==
    /\ file = [j \in Jobs |-> Nil]
    /\ lock = [l \in Locks |-> Nil]
    /\ registry = [s \in Services |-> [j \in Jobs |-> Nil]]
    /\ sigterm = {} /\ stored = {}
    /\ pc = [p \in Procs |-> IF p \in Tasks THEN "unborn" ELSE "idle"]
    /\ op = [p \in Procs |-> IF p \in Tasks THEN "execute"
                             ELSE IF p \in Services THEN "close" ELSE "none"]
    /\ job = [p \in Procs |-> IF p \in Tasks THEN JobId[p] ELSE Nil]
    /\ out = [p \in Procs |-> IF p \in Tasks THEN NewRecord(p) ELSE Nil]
    /\ fd = [p \in Procs |-> FALSE]
    /\ todo = [p \in Procs |-> {}]
    /\ seen = [p \in Procs |-> {}]
    /\ reply = [p \in Clients \cup Services |-> "none"]

-----------------------------------------------------------------------------
(* Control.                                                                *)

Goto(p, l) == pc' = [pc EXCEPT ![p] = l]

(* with self._status_lock                                                  *)
Acquire(p) == lock[Gate(p)] = Nil /\ lock' = [lock EXCEPT ![Gate(p)] = p]
LockFree(p) == lock[Gate(p)] = Nil /\ UNCHANGED lock
Release(p) == lock' = [lock EXCEPT ![Gate(p)] = Nil]

(* The call p serves ends, with an exception or with "OK": a client is     *)
(* idle again, and close() goes on with its next job or, if an exception   *)
(* was raised, ends with the service still active.                         *)
Return(p, outcome) ==
    /\ pc' = [pc EXCEPT ![p] = IF p \in Clients THEN "idle"
                               ELSE IF outcome = "OK" THEN "next" ELSE "broken"]
    /\ op' = [op EXCEPT ![p] = IF p \in Clients THEN "none" ELSE "close"]
    /\ job' = [job EXCEPT ![p] = Nil]
    /\ out' = [out EXCEPT ![p] = Nil]
    /\ fd' = [fd EXCEPT ![p] = FALSE]
    /\ todo' = [todo EXCEPT ![p] = {}]
    /\ seen' = [seen EXCEPT ![p] = IF p \in Clients THEN {} ELSE @]
    /\ reply' = [reply EXCEPT ![p] = outcome]

(* job_status returned, or raised an exception.                            *)
UpdateReturns(p) ==
    IF p \in Tasks THEN
        Goto(p, "logs") /\ fd' = [fd EXCEPT ![p] = FALSE]
                        /\ UNCHANGED <<op, job, out, todo, seen, reply>>
    ELSE IF op[p] = "submit" /\ out[p].status = "Running" THEN
        Goto(p, "dispatch") /\ fd' = [fd EXCEPT ![p] = FALSE]
                            /\ UNCHANGED <<op, job, out, todo, seen, reply>>
    ELSE Return(p, IF op[p] = "submit" THEN "InvalidInputError" ELSE "OK")

UpdateRaises(p) ==
    IF p \in Tasks
    THEN Goto(p, IF out[p].status = "Completed" THEN "fail" ELSE "logs") /\ UNCHANGED locals
    ELSE Return(p, "Exception")

-----------------------------------------------------------------------------
(* Requests.                                                               *)

Ready(c) == pc[c] = "idle" /\ pc[Home[c]] = "idle"

Begin(c, o, j, r, l) ==
    /\ Goto(c, l)
    /\ op' = [op EXCEPT ![c] = o] /\ job' = [job EXCEPT ![c] = j]
    /\ out' = [out EXCEPT ![c] = r] /\ reply' = [reply EXCEPT ![c] = "none"]
    /\ UNCHANGED <<file, lock, shared, fd, todo, seen>>

InFlight(t) == \E c \in Clients : op[c] = "submit" /\ out[c].task = t

(* POST /v1/jobs.  A submission that was refused may be sent again.  The   *)
(* library's users call execute_job, which has no admission control.       *)
Submit(c, t) ==
    /\ Ready(c) /\ "submit" \in Requests
    /\ pc[t] = "unborn" /\ ~InFlight(t)
    /\ MultiProcess => BackendOf[t] \in Backends
    /\ Begin(c, "submit", JobId[t], NewRecord(t), IF MultiProcess THEN "list" ELSE "create")

(* execute_job with an empty program_id, which the API's validation keeps  *)
(* out: Failed is written at once, whatever record the id has, and without *)
(* the created_time that create=True adds.                                 *)
SubmitEmpty(c, t) ==
    /\ Ready(c) /\ "submit" \in Requests /\ ~MultiProcess /\ "empty" \in Programs
    /\ pc[t] = "unborn" /\ ~InFlight(t)
    /\ pc' = [pc EXCEPT ![c] = "fail", ![t] = "void"]
    /\ op' = [op EXCEPT ![c] = "submit"] /\ job' = [job EXCEPT ![c] = JobId[t]]
    /\ out' = [out EXCEPT ![c] = [NewRecord(t) EXCEPT !.created = FALSE]]
    /\ reply' = [reply EXCEPT ![c] = "none"]
    /\ UNCHANGED <<file, lock, shared, fd, todo, seen>>

(* The backend does not exist, or random.choice says it is reserved.       *)
Refuse(c, t) ==
    /\ Ready(c) /\ "submit" \in Requests /\ MultiProcess
    /\ pc[t] = "unborn" /\ ~InFlight(t)
    /\ \/ /\ BackendOf[t] \notin Backends
          /\ reply' = [reply EXCEPT ![c] = "HTTPException"]
       \/ /\ BackendOf[t] \in Backends /\ Reservations
          /\ reply' = [reply EXCEPT ![c] = "BackendCurrentlyReservedError"]
    /\ UNCHANGED <<file, lock, shared, pc, op, job, out, fd, todo, seen>>

GetJobs(c) ==
    Ready(c) /\ "list" \in Requests /\ Begin(c, "list", Nil, Nil, "list")

(* get_job_by_id, delete_job and cancel_job start by reading the record.   *)
UseJob(c, o, j) ==
    Ready(c) /\ o \in Requests \ {"submit", "list"} /\ Begin(c, o, j, Nil, "read")

-----------------------------------------------------------------------------
(* get_jobs, called by GET /v1/jobs, by run_job and by close().            *)

List(p) ==
    /\ pc[p] = "list" /\ Acquire(p) /\ Goto(p, "scan")
    /\ todo' = [todo EXCEPT ![p] = {j \in Jobs : file[j] # Nil}]
    /\ UNCHANGED <<file, shared, op, job, out, fd, seen, reply>>

(* isfile() of some listed name: a file removed meanwhile is skipped.      *)
Scan_Waits(p) ==                                                 \* mutant
    /\ pc[p] = "scan"
    /\ \E j \in todo[p] :
        IF file[j] = Nil
        THEN UNCHANGED <<pc, job, todo>>
        ELSE /\ job' = [job EXCEPT ![p] = j] /\ Goto(p, "open")
             /\ UNCHANGED todo
    /\ UNCHANGED <<file, lock, shared, op, out, fd, seen, reply>>

Scan(p) ==
    /\ pc[p] = "scan"
    /\ \E j \in todo[p] :
        IF file[j] = Nil
        THEN /\ todo' = [todo EXCEPT ![p] = @ \ {j}]
             /\ UNCHANGED <<pc, job>>
        ELSE /\ job' = [job EXCEPT ![p] = j] /\ Goto(p, "open")
             /\ UNCHANGED todo
    /\ UNCHANGED <<file, lock, shared, op, out, fd, seen, reply>>

(* The jobs the caller of get_jobs is after: those of the same backend for *)
(* run_job, those that are running for close().                            *)
Wanted(p, r) == CASE op[p] = "submit" -> BackendOf[r.task] = BackendOf[out[p].task]
                  [] op[p] = "close"  -> r.status = "Running"
                  [] OTHER            -> FALSE

(* open() and json.load() succeed; else either raises.                     *)
Loads(j) == file[j] # Nil /\ Parses(file[j])

(* A record without created_time makes the sort of the listing raise; here *)
(* it does so when it is read, as what is read after it changes nothing.   *)
Open(p) ==
    /\ pc[p] = "open"
    /\ IF Loads(job[p]) /\ file[job[p]].rec.created
       THEN /\ Goto(p, "scan")
            /\ todo' = [todo EXCEPT ![p] = @ \ {job[p]}]
            /\ seen' = [seen EXCEPT ![p] = IF Wanted(p, file[job[p]].rec)
                                           THEN @ \cup {job[p]} ELSE @]
            /\ UNCHANGED <<lock, op, job, out, fd, reply>>
       ELSE Release(p) /\ Return(p, "Exception")
    /\ UNCHANGED <<file, shared>>

(* The listing is complete.  run_job counts the jobs of its backend.       *)
Full_OffByOne(p) == Cardinality(seen[p]) > MaxLanes              \* mutant

Full(p) == Cardinality(seen[p]) >= MaxLanes

Listed(p) ==
    /\ pc[p] = "scan" /\ todo[p] = {} /\ Release(p)
    /\ \/ op[p] = "list" /\ Return(p, "OK")
       \/ op[p] = "submit" /\ Full(p) /\ Return(p, "ExecutionLanesLimitReachedError")
       \/ /\ op[p] = "submit" /\ ~Full(p) /\ Goto(p, "create")
          /\ job' = [job EXCEPT ![p] = JobId[out[p].task]]
          /\ seen' = [seen EXCEPT ![p] = {}]
          /\ UNCHANGED <<op, out, fd, todo, reply>>
       \/ /\ op[p] = "close" /\ Goto(p, "next")
          /\ job' = [job EXCEPT ![p] = Nil]
          /\ UNCHANGED <<op, out, fd, todo, seen, reply>>
    /\ UNCHANGED <<file, shared>>

-----------------------------------------------------------------------------
(* job_status without a status: reading the record of one job.             *)

Read(p) ==
    /\ pc[p] = "read"
    /\ \/ /\ file[job[p]] = Nil /\ LockFree(p) /\ Return(p, "JobNotFoundError")
       \/ /\ file[job[p]] # Nil /\ Acquire(p) /\ Goto(p, "load")
          /\ UNCHANGED locals
    /\ UNCHANGED <<file, shared>>

(* What delete_job and cancel_job accept.                                  *)
MayDelete_Always(r) == TRUE                                      \* mutant

MayDelete(r) == r.status \in {"Completed", "Failed", "Cancelled"}

MayCancel(r) == r.status \notin {"Completed", "Failed", "Cancelled"}

(* open() and json.load(), then the caller's look at the status.           *)
Load(p) ==
    LET rec == file[job[p]].rec
    IN /\ pc[p] = "load" /\ Release(p)
       /\ IF ~Loads(job[p]) THEN Return(p, "Exception") ELSE
          \/ op[p] = "get" /\ Return(p, "OK")
          \/ /\ op[p] = "delete"
             /\ IF MayDelete(rec)
                THEN /\ Goto(p, "reap") /\ out' = [out EXCEPT ![p] = rec]
                     /\ UNCHANGED <<op, job, fd, todo, seen, reply>>
                ELSE Return(p, "UnableToDeleteJobInNonTerminalStateError")
          \/ /\ op[p] \in {"cancel", "close"}
             /\ IF MayCancel(rec)
                THEN /\ Goto(p, "kill") /\ out' = [out EXCEPT ![p] = rec]
                     /\ UNCHANGED <<op, job, fd, todo, seen, reply>>
                ELSE Return(p, "JobNotCancellableError")
       /\ UNCHANGED <<file, shared>>

-----------------------------------------------------------------------------
(* delete_job, after its check: no lock is held.                           *)

(* Process.close(), whose ValueError is ignored, and the registry's pop.   *)
Reap(c) ==
    /\ pc[c] = "reap" /\ Goto(c, "remove")
    /\ registry' = [registry EXCEPT ![Home[c]][job[c]] = Nil]
    /\ UNCHANGED <<file, lock, sigterm, stored, locals>>

(* os.remove: who has the file open keeps writing to a file without a name. *)
Remove(c) ==
    /\ pc[c] = "remove"
    /\ IF file[job[c]] = Nil THEN Return(c, "JobNotFoundError") /\ UNCHANGED file
       ELSE /\ file' = [file EXCEPT ![job[c]] = Nil]
            /\ fd' = [p \in Procs |-> fd[p] /\ job[p] # job[c]]
            /\ pc' = [pc EXCEPT ![c] = "idle"] /\ op' = [op EXCEPT ![c] = "none"]
            /\ job' = [job EXCEPT ![c] = Nil] /\ out' = [out EXCEPT ![c] = Nil]
            /\ reply' = [reply EXCEPT ![c] = "OK"] /\ UNCHANGED <<todo, seen>>
    /\ UNCHANGED <<lock, shared>>

-----------------------------------------------------------------------------
(* cancel_job, after its check: terminate() sends SIGTERM and returns.     *)

(* A delete_job of the same API process has closed the Process of a worker *)
(* that ended, after cancel_job took it from the registry: is_alive() and  *)
(* terminate() raise ValueError.                                           *)
Reaped(p) ==
    LET worker == registry[Server(p)][job[p]]
    IN /\ worker # Nil /\ ~Alive(worker)
       /\ \E d \in Clients : pc[d] = "reap" /\ job[d] = job[p] /\ Home[d] = Server(p)

Kill_DropsRecord(p) ==                                           \* mutant
    /\ pc[p] = "kill" /\ Goto(p, "update") /\ out' = [out EXCEPT ![p] = Nil]
    /\ UNCHANGED <<file, lock, shared, op, job, fd, todo, seen, reply>>

Kill_WithoutUpdate(p) ==                                         \* mutant
    LET worker == registry[Server(p)][job[p]]
    IN /\ pc[p] = "kill" /\ Return(p, "OK")
       /\ sigterm' = IF worker # Nil /\ Alive(worker) THEN sigterm \cup {worker} ELSE sigterm
       /\ UNCHANGED <<file, lock, registry, stored>>

Kill(p) ==
    LET worker == registry[Server(p)][job[p]]
    IN /\ pc[p] = "kill"
       /\ \/ /\ Goto(p, "update") /\ UNCHANGED locals
             /\ sigterm' = IF worker # Nil /\ Alive(worker) THEN sigterm \cup {worker}
                           ELSE sigterm
          \/ Reaped(p) /\ Return(p, "Exception") /\ UNCHANGED sigterm
       /\ UNCHANGED <<file, lock, registry, stored>>

-----------------------------------------------------------------------------
(* execute_job.                                                            *)

(* job_status(job, "Running", create=True)                                 *)
Create(c) ==
    /\ pc[c] = "create"
    /\ \/ /\ file[job[c]] # Nil /\ LockFree(c) /\ Return(c, "DuplicateJobError")
       \/ /\ file[job[c]] = Nil /\ Acquire(c) /\ Goto(c, "openw")
          /\ UNCHANGED locals
    /\ UNCHANGED <<file, shared>>

(* A thread is queued, a process is started, or the program is unknown.    *)
Dispatch(c) ==
    LET t == out[c].task
    IN /\ pc[c] = "dispatch"
       /\ \E program \in Programs \ {"empty"} :
            IF program \notin KnownPrograms THEN
                /\ pc' = [pc EXCEPT ![c] = "fail", ![t] = "void"]
                /\ UNCHANGED locals
            ELSE IF MultiProcess THEN
                /\ pc' = [pc EXCEPT ![c] = "register", ![t] = "ready"]
                /\ UNCHANGED locals
            ELSE
                /\ pc' = [pc EXCEPT ![c] = "idle", ![t] = "ready"]
                /\ op' = [op EXCEPT ![c] = "none"] /\ job' = [job EXCEPT ![c] = Nil]
                /\ out' = [out EXCEPT ![c] = Nil] /\ reply' = [reply EXCEPT ![c] = "OK"]
                /\ UNCHANGED <<fd, todo, seen>>
       /\ UNCHANGED <<file, lock, shared>>

Register_OfId(c) ==                                              \* mutant
    /\ pc[c] = "register" /\ Return(c, "OK")
    /\ registry' = [registry EXCEPT ![Home[c]][job[c]] = job[c]]
    /\ UNCHANGED <<file, lock, sigterm, stored>>

Register(c) ==
    /\ pc[c] = "register" /\ Return(c, "OK")
    /\ registry' = [registry EXCEPT ![Home[c]][job[c]] = out[c].task]
    /\ UNCHANGED <<file, lock, sigterm, stored>>

-----------------------------------------------------------------------------
(* job_status with a status: writing the record.                           *)

(* Completed or Cancelled, with expected_prev_status = "Running".          *)
Update(p) ==
    /\ pc[p] = "update" /\ Acquire(p)
    /\ Goto(p, IF file[job[p]] = Nil THEN "openw" ELSE "check")
    /\ out' = [out EXCEPT ![p].status = IF p \in Tasks THEN "Completed" ELSE "Cancelled"]
    /\ UNCHANGED <<file, shared, op, job, fd, todo, seen, reply>>

(* open(mode="r+"), json.load, and the comparison of the status.           *)
Check_AnyStatus(p) ==                                            \* mutant
    /\ pc[p] = "check"
    /\ IF Loads(job[p])
       THEN /\ Goto(p, "flush") /\ fd' = [fd EXCEPT ![p] = TRUE]
            /\ UNCHANGED <<lock, op, job, out, todo, seen, reply>>
       ELSE Release(p) /\ UpdateRaises(p)
    /\ UNCHANGED <<file, shared>>

Check(p) ==
    /\ pc[p] = "check"
    /\ IF Loads(job[p]) /\ file[job[p]].rec.status = "Running"
       THEN /\ Goto(p, "flush") /\ fd' = [fd EXCEPT ![p] = TRUE]
            /\ UNCHANGED <<lock, op, job, out, todo, seen, reply>>
       ELSE Release(p) /\ UpdateRaises(p)
    /\ UNCHANGED <<file, shared>>

(* A writer with another lock has written to the file since p wrote the    *)
(* first part of its text, or since p found a Running record there.        *)
Crossed(p) ==
    LET found == file[job[p]]
    IN /\ found.rec # out[p]
       /\ pc[p] = "flush" => ~found.whole \/ found.rec.status # "Running"

(* The last flush, of the whole text or, if that does not fit the buffer,  *)
(* of the rest, after a first part that is no longer p's, maybe.           *)
Dump(p) ==
    IF ~fd[p] THEN UNCHANGED file ELSE
    \/ file' = [file EXCEPT ![job[p]] = Written(@, out[p])]
    \/ /\ Crossed(p) /\ Size(out[p]) > Buffer
       /\ file' = [file EXCEPT ![job[p]] = WrittenPart(@, out[p], Size(out[p]))]

(* f.truncate() flushes the text before it cuts the file.                  *)
Flush_NoSeek(p) ==                                               \* mutant
    /\ pc[p] = "flush" /\ Goto(p, "trunc")
    /\ file' = [file EXCEPT ![job[p]] = IF fd[p] THEN [@ EXCEPT !.len = @ + Size(out[p])] ELSE @]
    /\ UNCHANGED <<lock, shared, locals>>

Flush(p) ==
    /\ pc[p] = "flush" /\ Goto(p, "trunc") /\ Dump(p)
    /\ UNCHANGED <<lock, shared, locals>>

Truncate(p) ==
    /\ pc[p] = "trunc" /\ Release(p) /\ UpdateReturns(p)
    /\ file' = [file EXCEPT ![job[p]] = IF fd[p] THEN Truncated(@, Size(out[p])) ELSE @]
    /\ UNCHANGED shared

(* open(mode="w"), then the flush of close().                              *)
OpenW(p) ==
    /\ pc[p] = "openw" /\ Goto(p, "flushw")
    /\ file' = [file EXCEPT ![job[p]] = Empty(out[p])]
    /\ fd' = [fd EXCEPT ![p] = TRUE]
    /\ UNCHANGED <<lock, shared, op, job, out, todo, seen, reply>>

FlushW(p) ==
    /\ pc[p] = "flushw" /\ Release(p) /\ UpdateReturns(p) /\ Dump(p)
    /\ UNCHANGED shared

(* A text that does not fit the buffer of the file is flushed in two parts. *)
FlushPart(p) ==
    /\ pc[p] \in {"flush", "flushw"} /\ Size(out[p]) > Buffer
    /\ file' = [file EXCEPT ![job[p]] = IF fd[p] THEN WrittenPart(@, out[p], Buffer) ELSE @]
    /\ UNCHANGED <<lock, shared, pc, locals>>

(* Failed, with neither create nor expected_prev_status.                   *)
Fail(p) ==
    /\ pc[p] = "fail" /\ Acquire(p)
    /\ Goto(p, IF file[job[p]] = Nil THEN "openw" ELSE "overwrite")
    /\ \E n \in ReasonSizes :
         out' = [out EXCEPT ![p].status = "Failed", ![p].reason = n]
    /\ UNCHANGED <<file, shared, op, job, fd, todo, seen, reply>>

(* open(mode="r+") and the flush of close(); nothing is cut.               *)
Overwrite(p) ==
    /\ pc[p] = "overwrite" /\ Release(p)
    /\ \/ /\ file[job[p]] # Nil /\ UpdateReturns(p)
          /\ file' = [file EXCEPT ![job[p]] = Written(@, out[p])]
       \/ /\ file[job[p]] = Nil /\ UpdateRaises(p) /\ UNCHANGED file
    /\ UNCHANGED shared

(* The same with a text that does not fit the buffer: a part first.        *)
OverwritePart(p) ==
    /\ pc[p] = "overwrite" /\ file[job[p]] # Nil /\ Size(out[p]) > Buffer
    /\ Goto(p, "flushw")
    /\ file' = [file EXCEPT ![job[p]] = WrittenPart(@, out[p], Buffer)]
    /\ fd' = [fd EXCEPT ![p] = TRUE]
    /\ UNCHANGED <<lock, shared, op, job, out, todo, seen, reply>>

-----------------------------------------------------------------------------
(* execute_samplerV2 and execute_estimatorV2, which share this control.    *)

(* The input is fetched, decoded and run; any of it may raise.  A service  *)
(* closed meanwhile makes the handler of the exception raise as well.      *)
Run_NoHandler(t) ==                                              \* mutant
    /\ pc[t] = "ready"
    /\ \/ Goto(t, "put") /\ out' = [out EXCEPT ![t].usage = TRUE]
       \/ Goto(t, "logs") /\ UNCHANGED out
    /\ UNCHANGED <<file, lock, shared, op, job, fd, todo, seen, reply>>

Run(t) ==
    /\ pc[t] = "ready"
    /\ IF ~MultiProcess /\ pc[Main] = "closed"
       THEN Goto(t, "done") /\ UNCHANGED out
       ELSE \/ /\ BackendOf[t] \in Backends /\ StorageOf[t].input \in Supported
               /\ Goto(t, "put") /\ out' = [out EXCEPT ![t].usage = TRUE]
            \/ Goto(t, "fail") /\ UNCHANGED out
    /\ UNCHANGED <<file, lock, shared, op, job, fd, todo, seen, reply>>

(* The results are stored before the record says so, or storing raises: it *)
(* failed, or the answer of the storage was lost.                          *)
PutResults_IgnoresErrors(t) ==                                   \* mutant
    /\ pc[t] = "put" /\ Goto(t, "update")
    /\ (stored' = stored \cup {<<t, "results">>} \/ UNCHANGED stored)
    /\ UNCHANGED <<file, lock, registry, sigterm, locals>>

PutResults(t) ==
    /\ pc[t] = "put"
    /\ \/ /\ StorageOf[t].results \in Supported /\ stored' = stored \cup {<<t, "results">>}
          /\ (Goto(t, "update") \/ Goto(t, "fail"))
       \/ Goto(t, "fail") /\ UNCHANGED stored
    /\ UNCHANGED <<file, lock, registry, sigterm, locals>>

(* finally: the logs are uploaded, if they are wanted, or uploading them    *)
(* raises; the thread or the process ends.                                 *)
PutLogs(t) ==
    /\ pc[t] = "logs" /\ Goto(t, "done")
    /\ \/ StorageOf[t].logs \in Supported /\ stored' = stored \cup {<<t, "logs">>}
       \/ UNCHANGED stored
    /\ UNCHANGED <<file, lock, registry, sigterm, locals>>

(* A worker process ends at any point.  What it has not flushed is lost,   *)
(* and its own lock with it.                                               *)
End(t) ==
    /\ MultiProcess /\ Alive(t)
    /\ Goto(t, "dead") /\ lock' = [lock EXCEPT ![t] = Nil]
    /\ fd' = [fd EXCEPT ![t] = FALSE]
    /\ UNCHANGED <<file, shared, op, job, out, todo, seen, reply>>

(* SIGTERM.                                                                *)
Die(t) == t \in sigterm /\ End(t)

-----------------------------------------------------------------------------
(* close(), called when the server has served its last request.            *)

StartClose(s) ==
    /\ s \in Stoppable /\ pc[s] = "idle"
    /\ \A c \in Clients : Home[c] = s => pc[c] = "idle"
    /\ Goto(s, "shutdown")
    /\ UNCHANGED <<file, lock, shared, locals>>

(* self._executor.shutdown() waits for the queued and running threads.     *)
Shutdown_NoWait(s) ==                                            \* mutant
    /\ pc[s] = "shutdown" /\ Goto(s, "closed")
    /\ UNCHANGED <<file, lock, shared, locals>>

Shutdown(s) ==
    /\ pc[s] = "shutdown" /\ Goto(s, "list")
    /\ MultiProcess \/ s # Main \/ \A t \in Tasks : ~Alive(t)
    /\ UNCHANGED <<file, lock, shared, locals>>

CancelNext_OnlyOne(s) ==                                         \* mutant
    /\ pc[s] = "next"
    /\ \/ \E j \in seen[s] :
            /\ Goto(s, "read") /\ job' = [job EXCEPT ![s] = j]
            /\ seen' = [seen EXCEPT ![s] = {}]
       \/ seen[s] = {} /\ Goto(s, "closed") /\ UNCHANGED <<job, seen>>
    /\ UNCHANGED <<file, lock, shared, op, out, fd, todo, reply>>

CancelNext(s) ==
    /\ pc[s] = "next"
    /\ \/ \E j \in seen[s] :
            /\ Goto(s, "read") /\ job' = [job EXCEPT ![s] = j]
            /\ seen' = [seen EXCEPT ![s] = @ \ {j}]
       \/ seen[s] = {} /\ Goto(s, "closed") /\ UNCHANGED <<job, seen>>
    /\ UNCHANGED <<file, lock, shared, op, out, fd, todo, reply>>

(* _assert_if_inactive: a closed service refuses every call, also close(). *)
Inactive(p) ==
    /\ ~MultiProcess /\ pc[Server(p)] = "closed" /\ pc[p] \in {"idle", "closed"}
    /\ reply' = [reply EXCEPT ![p] = "ServiceNotAvailableError"]
    /\ UNCHANGED <<file, lock, shared, pc, op, job, out, fd, todo, seen>>

-----------------------------------------------------------------------------
Request(c) ==
    \/ \E t \in Tasks : Submit(c, t) \/ SubmitEmpty(c, t) \/ Refuse(c, t)
    \/ GetJobs(c)
    \/ \E o \in Operations, j \in Jobs : UseJob(c, o, j)

Serve(p) ==
    \/ List(p) \/ Scan(p) \/ Open(p) \/ Listed(p) \/ Read(p) \/ Load(p) \/ Kill(p)

Write(p) ==
    \/ Update(p) \/ Check(p) \/ Flush(p) \/ Truncate(p)
    \/ OpenW(p) \/ FlushW(p) \/ FlushPart(p) \/ Fail(p) \/ Overwrite(p) \/ OverwritePart(p)

ClientStep(c) ==
    \/ Serve(c) \/ Write(c) \/ Reap(c) \/ Remove(c)
    \/ Create(c) \/ Dispatch(c) \/ Register(c)

TaskStep(t) == Run(t) \/ PutResults(t) \/ Write(t) \/ PutLogs(t)

CloseStep(s) == Shutdown(s) \/ CancelNext(s) \/ Serve(s) \/ Write(s)

Next ==
    \/ \E c \in Clients : Request(c) \/ ClientStep(c)
    \/ \E t \in Tasks : TaskStep(t) \/ Die(t)
    \/ \E s \in Services : StartClose(s) \/ CloseStep(s)
    \/ \E p \in Clients \cup Services : Inactive(p)

Spec == Init /\ [][Next]_vars

-----------------------------------------------------------------------------
(* Types, with the locals that a process has where it is.                  *)

ServerStates == {"shutdown", "next", "closed", "broken"}
WithRecord == {"create", "openw", "flushw", "dispatch", "register", "fail", "overwrite",
               "kill", "update", "check", "flush", "trunc"}
WithJob == WithRecord \cup {"open", "read", "load", "reap", "remove"}

SharedTypeOK ==
    /\ file \in [Jobs -> File \cup {Nil}]
    /\ lock \in [Locks -> Procs \cup {Nil}]
    /\ registry \in [Services -> [Jobs -> Tasks \cup {Nil}]]
    /\ sigterm \subseteq Tasks /\ stored \subseteq Tasks \X {"results", "logs"}

LocalTypeOK ==
    /\ pc \in [Procs -> TaskLabels \cup CallerLabels]
    /\ op \in [Procs -> Operations \cup {"none", "execute", "close"}]
    /\ job \in [Procs -> Jobs \cup {Nil}]
    /\ out \in [Procs -> Record \cup {Nil}]
    /\ fd \in [Procs -> BOOLEAN]
    /\ todo \in [Procs -> SUBSET Jobs] /\ seen \in [Procs -> SUBSET Jobs]
    /\ reply \in [Clients \cup Services -> Outcomes]

TaskTypeOK ==
    \A t \in Tasks :
        /\ pc[t] \in TaskLabels /\ op[t] = "execute" /\ job[t] = JobId[t]
        /\ out[t] \in Record /\ out[t].task = t

CallerTypeOK ==
    \A p \in Clients \cup Services :
        /\ pc[p] \in IF p \in Clients THEN CallerLabels \ ServerStates ELSE CallerLabels
        /\ op[p] \in IF p \in Services THEN {"close"}
                     ELSE IF pc[p] = "idle" THEN {"none"} ELSE Operations
        /\ pc[p] \in WithJob => job[p] \in Jobs
        /\ pc[p] \in WithRecord \cup {"reap", "remove"} \/ op[p] = "submit" => out[p] \in Record

(* A file that is open for writing and was not removed is in the directory. *)
HandleOK ==
    \A p \in Procs : fd[p] =>
        /\ file[job[p]] # Nil
        /\ p \in Tasks \/ pc[p] \in {"flush", "trunc", "flushw"}

Types == SharedTypeOK /\ LocalTypeOK /\ TaskTypeOK /\ CallerTypeOK

TypeOK == Types /\ HandleOK

-----------------------------------------------------------------------------
(* Safety.                                                                 *)

(* Every json.load of a status file succeeds: no reader meets a text that  *)
(* is incomplete or followed by the rest of an older one.  It is what      *)
(* _status_lock is there for (237-240).                                    *)
StatusReadsParse ==
    \A p \in Procs : pc[p] \in {"open", "load", "check"} =>
        file[job[p]] = Nil \/ Parses(file[job[p]])

(* A job reported as Completed has its results in the storage, whatever    *)
(* crashed, was cancelled, deleted or submitted again in between.          *)
CompletedHasResults ==
    \A j \in Jobs :
        file[j] # Nil /\ file[j].rec.status = "Completed" =>
            <<file[j].rec.task, "results">> \in stored

(* The logs of a job are there only when its record says how it ended, or  *)
(* is gone: no user finds the logs of a job that is still Running.         *)
LogsFollowOutcome ==
    \A j \in Jobs :
        file[j] # Nil /\ file[j].rec.status = "Running" =>
            <<file[j].rec.task, "logs">> \notin stored

(* Somebody will end the job: its execution is alive, or still being       *)
(* submitted, or was killed by a cancel_job that is about to replace the   *)
(* record.                                                                 *)
Owned(j) ==
    LET t == file[j].rec.task
    IN \/ file[j].rec.status # "Running" \/ Alive(t) \/ InFlight(t)
       \/ \E p \in Clients \cup Services :
            /\ job[p] = j /\ op[p] \in {"cancel", "close"}
            /\ pc[p] \in {"update", "check", "flush"}

(* No job is left Running without anybody to end it.                       *)
RunningIsOwned == \A j \in Jobs : file[j] # Nil => Owned(j)

(* open(mode="w"), which empties the file, is never used on the record of  *)
(* another writer: the check that chose it still holds.                    *)
OpenWClobbersNothing ==
    \A p \in Procs : pc[p] = "openw" => file[job[p]] = Nil

(* Concurrent submissions may pass the admission control together, but      *)
(* no more than one for each client: the jobs of a backend that run and the *)
(* submissions admitted exceed the limit by less than the clients, however  *)
(* often jobs end, are cancelled and are deleted to make room for others    *)
(* while a listing is counted (147-156 of v1/job.py).                       *)
Lanes(b) == {j \in Jobs : file[j] # Nil /\ BackendOf[file[j].rec.task] = b}
Busy(b) == {j \in Lanes(b) : file[j].rec.status = "Running"}
Admitted(b) == {c \in Clients : /\ op[c] = "submit" /\ pc[c] \in {"create", "openw"}
                                /\ out[c].status = "Running" /\ BackendOf[out[c].task] = b}
LaneOvershootIsBounded ==
    \A b \in Backends : Busy(b) = {} \/
        Cardinality(Busy(b)) + Cardinality(Admitted(b)) < MaxLanes + Cardinality(Clients)

(* The number of records of a backend stays within the limit of the        *)
(* configuration.                                                          *)
LaneLimit == \A b \in Backends : Cardinality(Lanes(b)) <= MaxLanes

(* After a complete close(), no record says Running.                       *)
NoneRunning == \A j \in Jobs : file[j] # Nil => file[j].rec.status # "Running"
ClosedLeavesNoneRunning == \A s \in Services : pc[s] = "closed" => NoneRunning

-----------------------------------------------------------------------------
(* Action properties.                                                      *)

(* What a reader of the job's record finds.                                *)
StatusOf(j) == IF file[j] = Nil THEN "NA"
               ELSE IF file[j].whole THEN file[j].rec.status ELSE "NA"

(* delete_job only removes the record of a job that has terminated: nobody *)
(* who reads the record before it goes finds it Running.                   *)
DeletesOnlyTerminated ==
    [][\A j \in Jobs : file[j] # Nil /\ file'[j] = Nil => StatusOf(j) # "Running"]_vars

(* The check and the removal of delete_job (577-595) hold no lock between  *)
(* them, and the id may be deleted and given to another submission there.  *)
(* But that is all: the submission that delete_job found ended never runs  *)
(* again, and a Running record that it removes is another one's.           *)
DeletesNoneFoundRunning ==
    [][\A c \in Clients : pc[c] = "remove" /\ pc'[c] # "remove" /\ file[job[c]] # Nil =>
           file[job[c]].rec.status # "Running" \/ file[job[c]].rec.task # out[c].task]_vars

(* A record comes into being by a submission only: after a deletion the id *)
(* stays unknown.                                                          *)
OnlySubmissionsCreate ==
    [][\A j \in Jobs : file[j] = Nil /\ file'[j] # Nil =>
           \E c \in Clients : op[c] = "submit" /\ job[c] = j]_vars

(* What a closed service leaves is final: close() has waited for the       *)
(* executor's threads (259), so that none of them changes a record or      *)
(* stores anything after it, and later calls are refused.                  *)
ClosedServiceIsSilent ==
    [][~MultiProcess /\ pc[Main] = "closed" => UNCHANGED <<file, stored>>]_vars

(* GET /v1/jobs is answered with one of the responses its route declares.  *)
ListingsSucceed ==
    [][\A c \in Clients : op[c] = "list" /\ op'[c] = "none" =>
           HttpStatus(reply'[c]) \in {200, 401}]_vars

-----------------------------------------------------------------------------
(* A submission whose record was written, be it then refused or not.       *)
Submitted(t) == \/ pc[t] # "unborn"
                \/ \E c \in Clients : /\ op[c] = "submit" /\ out[c].task = t
                                      /\ pc[c] = "dispatch"

(* Refinement: an id submitted once goes through the abstract lifecycle.   *)

Lifecycle == INSTANCE JobLifecycle WITH
    status <- [j \in Jobs |-> StatusOf(j)],
    used <- {j \in Jobs : \E t \in Tasks : JobId[t] = j /\ Submitted(t)}

FollowsLifecycle == Lifecycle!Spec

-----------------------------------------------------------------------------
(* Liveness, for threads: a thread that can go on does, and one that waits *)
(* for the lock gets it if it is released again and again.                 *)
Fairness ==
    /\ \A c \in Clients : SF_vars(ClientStep(c))
    /\ \A t \in Tasks : SF_vars(TaskStep(t))
    /\ \A s \in Services : SF_vars(CloseStep(s))

FairSpec == Spec /\ Fairness

(* Every job leaves the status Running.                                    *)
RunningJobsEnd == \A j \in Jobs : StatusOf(j) = "Running" ~> StatusOf(j) # "Running"

(* Every request is answered.                                              *)
RequestsAreAnswered == \A c \in Clients : pc[c] # "idle" ~> pc[c] = "idle"
=============================================================================
