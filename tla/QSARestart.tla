----------------------------- MODULE QSARestart -----------------------------
(***************************************************************************)
(* QSAService with API processes that stop and are started again.          *)
(*                                                                         *)
(* An API process may end at any point (killed, out of memory, or after a  *)
(* close()), and uvicorn starts another one in its place.  What it keeps   *)
(* in memory is gone: the calls of its clients, the registry of workers    *)
(* and the lock.  The status files stay, and so do the worker processes,   *)
(* which do not depend on it; the threads of a library user do.            *)
(*                                                                         *)
(* The code recovers nothing when it starts: __init__ looks neither at the *)
(* files nor at the workers.  What can be asked of it is that a fault      *)
(* harms the job it hit and no other.  The history variable lost collects  *)
(* the submissions that were hit; cancelled, those with a second writer.   *)
(***************************************************************************)
EXTENDS QSAService

CONSTANT
    Crashable       \* the instances whose process may stop and start again

ASSUME CrashableAssumption == Crashable \subseteq Services

VARIABLES
    lost,           \* submissions whose execution, or a call about them, a fault ended
    cancelled       \* submissions that cancel_job, or close(), has decided to cancel

rvars == <<vars, lost, cancelled>>

RInit == Init /\ lost = {} /\ cancelled = {}

-----------------------------------------------------------------------------
(* The processes that live in the API process of s.                        *)
Callees(s) == {s} \cup {c \in Clients : Home[c] = s}
Threads(s) == IF MultiProcess \/ s # Main THEN {} ELSE {t \in Tasks : Alive(t)}

(* The submissions that a call of s creates or cancels: no later call will *)
(* do what it leaves undone.                                               *)
Interrupted(s) == {out[p].task : p \in {q \in Callees(s) : pc[q] \in WithRecord}}

(* The clients of s lose their connections, and __init__ starts afresh.    *)
Forget(s) ==
    /\ pc' = [p \in Procs |-> IF p \in Callees(s) THEN "idle"
                              ELSE IF p \in Threads(s) THEN "dead" ELSE pc[p]]
    /\ op' = [p \in Procs |-> IF p \in Callees(s) \ {s} THEN "none" ELSE op[p]]
    /\ job' = [p \in Procs |-> IF p \in Callees(s) THEN Nil ELSE job[p]]
    /\ out' = [p \in Procs |-> IF p \in Callees(s) THEN Nil ELSE out[p]]
    /\ fd' = [p \in Procs |-> fd[p] /\ p \notin Callees(s) \cup Threads(s)]
    /\ todo' = [p \in Procs |-> IF p \in Callees(s) THEN {} ELSE todo[p]]
    /\ seen' = [p \in Procs |-> IF p \in Callees(s) THEN {} ELSE seen[p]]
    /\ reply' = [p \in Clients \cup Services |-> IF p \in Callees(s) THEN "none" ELSE reply[p]]
    /\ registry' = [registry EXCEPT ![s] = [j \in Jobs |-> Nil]]

(* The API process of s ends and another one takes its place.              *)
Crash_KeepsLock(s) ==                                            \* mutant
    /\ s \in Crashable /\ Forget(s)
    /\ lost' = lost \cup Interrupted(s) \cup Threads(s)
    /\ UNCHANGED <<file, lock, sigterm, stored, cancelled>>

Crash(s) ==
    /\ s \in Crashable /\ Forget(s)
    /\ lock' = [lock EXCEPT ![s] = Nil]
    /\ lost' = lost \cup Interrupted(s) \cup Threads(s)
    /\ UNCHANGED <<file, sigterm, stored, cancelled>>

(* process.start() raised OSError: the record stays as it was created.     *)
SpawnFails(c) ==
    /\ pc[c] = "dispatch" /\ MultiProcess /\ Programs \cap KnownPrograms # {}
    /\ pc' = [pc EXCEPT ![c] = "idle", ![out[c].task] = "void"]
    /\ op' = [op EXCEPT ![c] = "none"] /\ job' = [job EXCEPT ![c] = Nil]
    /\ out' = [out EXCEPT ![c] = Nil] /\ reply' = [reply EXCEPT ![c] = "Exception"]
    /\ lost' = lost \cup {out[c].task}
    /\ UNCHANGED <<file, lock, shared, fd, todo, seen, cancelled>>

(* A worker process that nobody terminated is lost.                        *)
Vanish(t) ==
    /\ t \notin sigterm /\ End(t)
    /\ lost' = lost \cup {t} /\ UNCHANGED cancelled

(* Ctrl+C reaches the workers too.  KeyboardInterrupt is no Exception, so   *)
(* that no Failed is written (806): "with" closes the file, which flushes   *)
(* what json.dump had written by then and cuts nothing, and "finally" goes  *)
(* on to the logs (812).                                                    *)
Interrupt(t) ==
    /\ MultiProcess /\ Alive(t) /\ pc[t] # "logs"
    /\ Goto(t, "logs") /\ lock' = [lock EXCEPT ![t] = Nil]
    /\ fd' = [fd EXCEPT ![t] = FALSE]
    /\ \/ UNCHANGED file
       \/ /\ \/ fd[t] /\ pc[t] # "trunc"
             \/ pc[t] = "overwrite" /\ file[job[t]] # Nil
          /\ \/ file' = [file EXCEPT ![job[t]] = Written(@, out[t])]
             \/ \E n \in 1 .. Size(out[t]) - 1 :
                    file' = [file EXCEPT ![job[t]] = WrittenPart(@, out[t], n)]
    /\ lost' = lost \cup {t}
    /\ UNCHANGED <<shared, op, job, out, todo, seen, reply, cancelled>>

(* A step of QSAService; who decides to cancel a submission is at "kill".  *)
Spared(A) ==
    /\ A /\ UNCHANGED lost
    /\ cancelled' = cancelled \cup
           {out'[p].task : p \in {q \in Clients \cup Services : pc'[q] = "kill"}}

RNext ==
    \/ Spared(Next)
    \/ \E c \in Clients : SpawnFails(c)
    \/ \E t \in Tasks : Vanish(t) \/ Interrupt(t)
    \/ \E s \in Services : Crash(s)

RSpec == RInit /\ [][RNext]_rvars

(* Fair scheduling, as in QSAService; faults are not fair.                 *)
RFairness ==
    /\ \A c \in Clients : SF_rvars(Spared(ClientStep(c)))
    /\ \A t \in Tasks : SF_rvars(Spared(TaskStep(t)))
    /\ \A s \in Services : SF_rvars(Spared(CloseStep(s)))

RFairSpec == RSpec /\ RFairness

-----------------------------------------------------------------------------
RTypeOK == TypeOK /\ lost \subseteq Tasks /\ cancelled \subseteq Tasks

(* A job that stays Running without anybody to end it was itself hit by a  *)
(* fault: a crash of an API process or the loss of a worker does not       *)
(* strand the jobs of others, and the registry it takes with it was not    *)
(* needed to end them.                                                     *)
OnlyFaultsStrand ==
    \A j \in Jobs : file[j] # Nil /\ file[j].rec.task \notin lost => Owned(j)

(* A file that does not parse, which no listing gets past, is being        *)
(* written, or its job was hit by a fault or had a second writer, which    *)
(* only a cancel_job or a close() of that very job is: whatever happens to *)
(* the others, their files stay readable.                                  *)
OnlyFaultsSpoil ==
    \A j \in Jobs : file[j] # Nil /\ ~Parses(file[j]) =>
        \/ file[j].rec.task \in lost \cup cancelled
        \/ \E p \in Procs : fd[p] /\ job[p] = j

(* The logs of a job that still says Running are there only if a fault hit *)
(* the job: those that "finally" uploads when Ctrl+C ends the worker.      *)
LogsFollowOutcomeOrFault ==
    \A j \in Jobs :
        file[j] # Nil /\ file[j].rec.status = "Running" /\ file[j].rec.task \notin lost =>
            <<file[j].rec.task, "logs">> \notin stored

(* Every job that no fault hit leaves the status Running, also those whose *)
(* API process is restarted meanwhile, again and again.                    *)
SparedJobsEnd ==
    \A j \in Jobs, t \in Tasks :
        file[j] # Nil /\ file[j].rec.task = t /\ StatusOf(j) = "Running"
            ~> StatusOf(j) # "Running" \/ t \in lost
=============================================================================
