-------------------------- MODULE QSAWritersProofs --------------------------
(***************************************************************************)
(* What the writers of the status files have in hand, with threads and     *)
(* with worker processes, for every number of clients, instances,          *)
(* submissions and ids, whatever ids are used again.  The proofs about     *)
(* threads and about ids that are submitted once build on it.              *)
(***************************************************************************)
EXTENDS QSAServiceProofs

-----------------------------------------------------------------------------
(* What the invariant says.                                                *)

(* A record is in the file of its id, and on its way to it.                *)
Ids ==
    /\ \A j \in Jobs : file[j] # Nil => JobId[file[j].rec.task] = j
    /\ \A p \in Callers : pc[p] \in WithRecord => JobId[out[p].task] = job[p]
    /\ \A c \in Clients : pc[c] \in {"reap", "remove"} => JobId[out[c].task] = job[c]

(* Where a submission is, so is its execution; nobody else submits it.     *)
Submitting == {"list", "scan", "open", "create", "openw", "flushw", "dispatch", "register",
               "fail", "overwrite"}
Submissions ==
    \A c \in Clients : op[c] = "submit" =>
        /\ pc[c] \in Submitting
        /\ pc[c] \notin {"openw", "flushw", "overwrite"} => out[c].status = "Running"
        /\ pc[c] = "overwrite" => out[c].status = "Failed"
        /\ out[c].status \in {"Running", "Failed"}
        /\ IF pc[c] = "register" THEN pc[out[c].task] \notin {"unborn", "void"}
           ELSE pc[out[c].task] = IF out[c].status = "Running" /\ pc[c] # "fail"
                                  THEN "unborn" ELSE "void"
        /\ \A d \in Clients : op[d] = "submit" /\ out[d].task = out[c].task => d = c

(* What a cancellation writes is Cancelled.                                *)
Cancellations ==
    \A p \in Callers : pc[p] \in WithRecord /\ op[p] # "submit" =>
        /\ op[p] \in {"cancel", "close"}
        /\ pc[p] \in {"kill", "update", "check", "flush", "trunc", "openw", "flushw"}
        /\ out[p].status = IF pc[p] \in {"kill", "update"} THEN "Running" ELSE "Cancelled"

(* What an execution writes is how it ended.                               *)
Executions ==
    \A t \in Tasks :
        /\ pc[t] \in {"check", "flush", "trunc"} => out[t].status = "Completed"
        /\ pc[t] = "overwrite" => out[t].status = "Failed"
        /\ pc[t] \in {"openw", "flushw"} => out[t].status \in {"Completed", "Failed"}

Locals == Submissions /\ Cancellations /\ Executions

(* Only an execution adds the usage or a reason to a record, and it has    *)
(* reported an outcome when it writes it.                                  *)
Plain(r) == r.status \in {"Running", "Cancelled"} => ~r.usage /\ r.reason = 0
AllPlain ==
    /\ \A j \in Jobs : file[j] # Nil => Plain(file[j].rec)
    /\ \A p \in Callers : pc[p] \in WithRecord \/ op[p] = "submit" => Plain(out[p])

(* An execution that is through with its record leaves none that says      *)
(* Running, and only then it stores its logs.                              *)
HasRunning(t) ==
    \E j \in Jobs : file[j] # Nil /\ file[j].rec.task = t /\ file[j].rec.status = "Running"
LastLogs(t) ==
    /\ pc[t] \in {"openw", "trunc", "flushw", "logs"} => ~HasRunning(t)
    /\ pc[t] = "flush" /\ ~fd[t] => ~HasRunning(t)
    /\ <<t, "logs">> \in stored => pc[t] \in Ended /\ ~HasRunning(t)
Logs == \A t \in Tasks : LastLogs(t)

(* A record that reports an outcome is not reported on again.              *)
BeforeReport == {"unborn", "ready", "put", "update", "check", "fail", "overwrite"}
HasReported(t) ==
    /\ pc[t] \notin BeforeReport
    /\ \A c \in Clients : op[c] = "submit" /\ out[c].task = t => pc[c] \notin {"fail", "overwrite"}
Reported ==
    \A j \in Jobs, t \in Tasks :
        /\ file[j] # Nil /\ file[j].rec.task = t
        /\ file[j].rec.status \in {"Completed", "Failed"}
        => HasReported(t)

WriterInv == Ids /\ Locals /\ AllPlain /\ Logs /\ Reported

-----------------------------------------------------------------------------

(* The steps in which one process moves, and those that also give an       *)
(* execution its place.                                                    *)

Alone(p) == \A q \in Procs : q # p =>
    pc'[q] = pc[q] /\ op'[q] = op[q] /\ job'[q] = job[q] /\ out'[q] = out[q]

ClientMoves(c) ==
    \/ GetJobs(c) \/ \E o \in Operations, j \in Jobs : UseJob(c, o, j)
    \/ \E t \in Tasks : Submit(c, t) \/ Refuse(c, t)
    \/ Reap(c) \/ Remove(c) \/ Create(c) \/ Register(c)

TaskMoves(t) == Run(t) \/ PutResults(t) \/ PutLogs(t) \/ End(t)

CloseMoves(s) == StartClose(s) \/ Shutdown(s) \/ CancelNext(s)

Moves(p) ==
    \/ p \in Callers /\ (Serve(p) \/ Inactive(p))
    \/ Write(p)
    \/ p \in Clients /\ ClientMoves(p)
    \/ p \in Tasks /\ TaskMoves(p)
    \/ p \in Services /\ CloseMoves(p)

LEMMA NextSplit ==
  ASSUME Next
  PROVE  \/ \E p \in Procs : Moves(p)
         \/ \E c \in Clients : Dispatch(c)
         \/ \E c \in Clients, t \in Tasks : SubmitEmpty(c, t)
  BY Kinds
     DEF Next, Request, ClientStep, TaskStep, CloseStep, Die,
         Moves, ClientMoves, TaskMoves, CloseMoves, Callers

LEMMA ReturnAlone ==
  ASSUME Types, NEW p \in Procs,
         \/ UpdateReturns(p) \/ UpdateRaises(p)
         \/ \E outcome \in Outcomes : Return(p, outcome)
  PROVE  Alone(p)
  BY DEF UpdateReturns, UpdateRaises, Return, Goto, locals, Types, LocalTypeOK, Alone

LEMMA MovesAlone ==
  ASSUME Types, NEW p \in Procs, Moves(p)
  PROVE  Alone(p)
<1>1. CASE Serve(p)
  BY <1>1 DEF Serve, List, Scan, Open, Listed, Read, Load, Kill, Return, Goto, locals,
              Types, LocalTypeOK, Alone
<1>2. CASE Write(p)
  <2>1. CASE UpdateReturns(p) \/ UpdateRaises(p)
    BY <2>1, ReturnAlone
  <2>2. CASE ~(UpdateReturns(p) \/ UpdateRaises(p))
    BY <1>2, <2>2 DEF Write, Update, Check, Flush, Truncate, OpenW, FlushW, FlushPart, Fail,
                      Overwrite, OverwritePart, Goto, locals, Types, LocalTypeOK, Alone
  <2> QED
    BY <2>1, <2>2
<1>3. CASE p \in Clients /\ ClientMoves(p)
  BY <1>3 DEF ClientMoves, GetJobs, UseJob, Submit, Refuse, Begin, Reap, Remove, Create,
              Register, Return, Goto, locals, Types, LocalTypeOK, Alone
<1>4. CASE p \in Tasks /\ TaskMoves(p)
  BY <1>4 DEF TaskMoves, Run, PutResults, PutLogs, End, Goto, locals, Types, LocalTypeOK, Alone
<1>5. CASE p \in Services /\ CloseMoves(p)
  BY <1>5 DEF CloseMoves, StartClose, Shutdown, CancelNext, Goto, locals, Types, LocalTypeOK,
              Alone
<1>6. CASE p \in Callers /\ Inactive(p)
  BY <1>6 DEF Inactive, Alone
<1> QED
  BY <1>1, <1>2, <1>3, <1>4, <1>5, <1>6 DEF Moves

(* Dispatch and SubmitEmpty hold no lock, and put nobody into a block.     *)
LEMMA DispatchFrame ==
  ASSUME Types, NEW c \in Clients, Dispatch(c)
  PROVE  LET t == out[c].task
         IN  /\ t \in Tasks /\ t # c /\ pc[c] = "dispatch" /\ UNCHANGED <<file, lock, fd>>
             /\ \A q \in Procs : q # c => op'[q] = op[q] /\ job'[q] = job[q] /\ out'[q] = out[q]
             /\ \A q \in Procs : q # c /\ q # t => pc'[q] = pc[q]
             /\ \/ pc'[c] = "fail" /\ pc'[t] = "void" /\ op'[c] = op[c] /\ job'[c] = job[c]
                                   /\ out'[c] = out[c]
                \/ MultiProcess /\ pc'[c] = "register" /\ pc'[t] = "ready" /\ op'[c] = op[c]
                                /\ job'[c] = job[c] /\ out'[c] = out[c]
                \/ ~MultiProcess /\ pc'[c] = "idle" /\ pc'[t] = "ready" /\ op'[c] = "none"
<1>1. c \in Procs /\ c \in Callers
  BY DEF Procs, Callers
<1>2. out[c].task \in Tasks /\ out[c].task \in Procs /\ out[c].task # c
  BY <1>1, Kinds DEF Dispatch, Types, CallerTypeOK, WithRecord, Callers, Record
<1> QED
  BY <1>1, <1>2 DEF Dispatch, locals, Types, LocalTypeOK

LEMMA EmptyFrame ==
  ASSUME Types, NEW c \in Clients, NEW t \in Tasks, SubmitEmpty(c, t)
  PROVE  /\ t # c /\ t \in Procs /\ c \in Procs /\ UNCHANGED <<file, lock, fd>>
         /\ pc[c] = "idle" /\ op[c] = "none" /\ pc[Home[c]] = "idle"
         /\ pc[t] = "unborn" /\ \A d \in Clients : op[d] = "submit" => out[d].task # t
         /\ \A q \in Procs : q # c => op'[q] = op[q] /\ job'[q] = job[q] /\ out'[q] = out[q]
         /\ \A q \in Procs : q # c /\ q # t => pc'[q] = pc[q]
         /\ pc'[c] = "fail" /\ pc'[t] = "void" /\ op'[c] = "submit" /\ job'[c] = JobId[t]
         /\ out'[c].task = t /\ out'[c].status = "Running"
         /\ ~out'[c].usage /\ out'[c].reason = 0
<1>1. c \in Procs /\ c \in Callers /\ t \in Procs /\ t # c
  BY ProcsAssumption DEF Procs, Callers
<1>2. pc[c] = "idle" => op[c] = "none"
  BY <1>1, ProcsAssumption DEF Types, CallerTypeOK
<1>3. out'[c] = [NewRecord(t) EXCEPT !.created = FALSE]
  BY <1>1 DEF SubmitEmpty, Types, LocalTypeOK
<1>4. /\ out'[c].task = t /\ out'[c].status = "Running"
      /\ ~out'[c].usage /\ out'[c].reason = 0
  BY <1>3 DEF NewRecord
<1> QED
  BY <1>1, <1>2, <1>4 DEF SubmitEmpty, Ready, InFlight, Types, LocalTypeOK

(* An update ends: a call is over, or a submission is dispatched; an       *)
(* execution goes on to its logs, or reports that it failed.               *)
LEMMA UpdateEnds ==
  ASSUME Types, NEW p \in Procs, UpdateReturns(p) \/ UpdateRaises(p)
  PROVE  /\ p \in Tasks => /\ out'[p] = out[p] /\ op'[p] = op[p] /\ job'[p] = job[p]
                           /\ pc'[p] \in {"logs", "fail"}
                           /\ pc'[p] = "fail" => UpdateRaises(p) /\ out[p].status = "Completed"
         /\ p \in Callers => \/ /\ op[p] = "submit" /\ out[p].status = "Running"
                                /\ pc'[p] = "dispatch" /\ op'[p] = op[p]
                                /\ job'[p] = job[p] /\ out'[p] = out[p] /\ UpdateReturns(p)
                             \/ pc'[p] \in {"idle", "next", "broken"} /\ op'[p] # "submit"
  BY Kinds DEF UpdateReturns, UpdateRaises, Return, Goto, locals, Types, LocalTypeOK, Callers

(* How a submission goes on.                                               *)
LEMMA SubmitterMoves ==
  ASSUME Types, Locals, NEW p \in Clients, Moves(p), op'[p] = "submit"
  PROVE  \/ /\ op[p] = "submit" /\ out[p] \in Record /\ out'[p].task = out[p].task
            /\ \/ pc[p] = "list" /\ pc'[p] = "scan" /\ out'[p] = out[p]
               \/ pc[p] = "scan" /\ pc'[p] \in {"scan", "open"} /\ out'[p] = out[p]
               \/ pc[p] = "open" /\ pc'[p] = "scan" /\ out'[p] = out[p]
               \/ /\ pc[p] = "scan" /\ pc'[p] = "create" /\ out'[p] = out[p]
                  /\ job'[p] = JobId[out[p].task] /\ Listed(p)
               \/ /\ job'[p] = job[p]
                  /\ \/ pc[p] = "create" /\ pc'[p] = "openw" /\ out'[p] = out[p]
                     \/ pc[p] = "openw" /\ pc'[p] = "flushw" /\ out'[p] = out[p]
                     \/ pc[p] = "flushw" /\ pc'[p] \in {"flushw", "dispatch"} /\ out'[p] = out[p]
                        /\ (pc'[p] = "dispatch" => out[p].status = "Running")
                     \/ pc[p] = "fail" /\ pc'[p] \in {"openw", "overwrite"} /\ out'[p].status = "Failed"
                     \/ pc[p] = "overwrite" /\ pc'[p] = "flushw" /\ out'[p] = out[p]
         \/ \E t \in Tasks : /\ Submit(p, t) /\ out'[p] = NewRecord(t) /\ job'[p] = JobId[t]
                             /\ pc'[p] = IF MultiProcess THEN "list" ELSE "create"
<1>0. p \in Callers /\ p \in Procs /\ p \notin Tasks /\ p \notin Services
  BY ProcsAssumption DEF Callers, Procs
<1>1. op[p] = "submit" => /\ pc[p] \in Submitting
                          /\ pc[p] = "overwrite" => out[p].status = "Failed"
                          /\ out[p] \in Record
  BY <1>0 DEF Locals, Submissions, Types, CallerTypeOK
<1>2. CASE Serve(p)
  <2>1. \A outcome : ~Return(p, outcome)
    BY <1>0 DEF Return, Types, LocalTypeOK
  <2>2. CASE List(p) \/ Scan(p) \/ Open(p)
    <3>1. op' = op /\ out' = out
      BY <2>1, <2>2 DEF List, Scan, Open
    <3>2. \/ pc[p] = "list" /\ pc'[p] = "scan"
          \/ pc[p] = "scan" /\ pc'[p] \in {"scan", "open"}
          \/ pc[p] = "open" /\ pc'[p] = "scan"
      BY <1>0, <2>1, <2>2 DEF List, Scan, Open, Goto, Types, LocalTypeOK
    <3> QED
      BY <1>1, <3>1, <3>2
  <2>3. CASE Listed(p)
    <3>1. pc[p] = "scan" /\ op' = op /\ out' = out
      BY <2>1, <2>3 DEF Listed
    <3>2. pc'[p] = "create" /\ job'[p] = JobId[out[p].task]
      BY <1>0, <2>1, <2>3, <3>1 DEF Listed, Goto, Types, LocalTypeOK
    <3> QED
      BY <1>1, <2>3, <3>1, <3>2
  <2>4. CASE Read(p) \/ Load(p) \/ Kill(p)
    <3>1. pc[p] \in {"read", "load", "kill"} /\ op' = op
      BY <2>1, <2>4 DEF Read, Load, Kill, locals
    <3> QED
      BY <1>1, <3>1 DEF Submitting
  <2> QED
    BY <1>2, <2>1, <2>2, <2>3, <2>4 DEF Serve
<1>3. CASE ClientMoves(p) \/ Inactive(p)
  <2>1. CASE \E t \in Tasks : Submit(p, t)
    BY <1>0, <2>1 DEF Submit, Begin, Goto, Types, LocalTypeOK
  <2>2. CASE GetJobs(p) \/ \E o \in Operations, j \in Jobs : UseJob(p, o, j)
    BY <1>0, <2>2 DEF GetJobs, UseJob, Begin, Types, LocalTypeOK
  <2>3. CASE Reap(p) \/ Remove(p) \/ Register(p)
    BY <1>0, <1>1, <2>3 DEF Reap, Remove, Register, Return, Goto, locals, Submitting, Types, LocalTypeOK
  <2>4. CASE Create(p)
    <3>1. pc[p] = "create" /\ (Return(p, "DuplicateJobError") \/ (Goto(p, "openw") /\ UNCHANGED locals))
      BY <2>4 DEF Create
    <3>2. ~Return(p, "DuplicateJobError")
      BY <1>0 DEF Return, Types, LocalTypeOK
    <3>3. pc'[p] = "openw" /\ op[p] = "submit" /\ out'[p] = out[p] /\ job'[p] = job[p]
      BY <1>0, <3>1, <3>2 DEF Goto, locals, Types, LocalTypeOK
    <3> QED
      BY <1>1, <3>1, <3>3
  <2>5. CASE Inactive(p) \/ \E t \in Tasks : Refuse(p, t)
    <3>1. op' = op /\ pc[p] \in {"idle", "closed"}
      BY <2>5 DEF Inactive, Refuse, Ready
    <3> QED
      BY <1>1, <3>1 DEF Submitting
  <2> QED
    BY <1>3, <2>1, <2>2, <2>3, <2>4, <2>5 DEF ClientMoves
<1>4. CASE Write(p)
  <2>1. CASE Fail(p)
    <3>1. /\ op[p] = "submit" /\ out[p] \in Record /\ pc[p] = "fail" /\ job'[p] = job[p]
          /\ pc'[p] \in {"openw", "overwrite"}
      BY <1>0, <1>1, <2>1 DEF Fail, Goto, Types, LocalTypeOK
    <3>2. out'[p].status = "Failed" /\ out'[p].task = out[p].task
      BY <1>0, <2>1, <3>1 DEF Fail, Record, Types, LocalTypeOK
    <3> QED
      BY <3>1, <3>2
  <2>2. CASE UpdateReturns(p) \/ UpdateRaises(p)
    <3>1. /\ op[p] = "submit" /\ out[p].status = "Running" /\ out'[p] = out[p]
          /\ pc'[p] = "dispatch" /\ job'[p] = job[p]
      BY <1>0, <2>2, UpdateEnds
    <3>2. Truncate(p) \/ FlushW(p) \/ Overwrite(p) \/ Check(p)
      BY <1>0, <1>4, <3>1
         DEF Write, Update, Flush, OpenW, FlushPart, Fail, OverwritePart, Goto, locals,
             Types, LocalTypeOK
    <3>3. pc[p] = "flushw"
      BY <1>1, <3>1, <3>2 DEF Truncate, FlushW, Overwrite, Check, Submitting
    <3> QED
      BY <1>1, <3>1, <3>3
  <2>3. CASE ~Fail(p) /\ ~(UpdateReturns(p) \/ UpdateRaises(p))
    <3>1. op' = op /\ op[p] = "submit" /\ job' = job
      BY <1>4, <2>3 DEF Write, Update, Check, Flush, Truncate, OpenW, FlushW, FlushPart, Overwrite,
             OverwritePart, locals
    <3>2. ~Update(p) /\ ~Check(p) /\ ~Flush(p)
      BY <1>1, <3>1 DEF Update, Check, Flush, Submitting
    <3> QED
      BY <1>0, <1>1, <1>4, <2>3, <3>1, <3>2
         DEF Write, Truncate, OpenW, FlushW, FlushPart, Overwrite,
             OverwritePart, Goto, locals, Submitting, Types, LocalTypeOK
  <2> QED
    BY <2>1, <2>2, <2>3
<1> QED
  BY <1>0, <1>2, <1>3, <1>4 DEF Moves

(* How a cancellation goes on.                                             *)
LEMMA CancellerMoves ==
  ASSUME Types, Locals, NEW p \in Callers, Moves(p),
         pc'[p] \in WithRecord, op'[p] # "submit"
  PROVE  /\ op'[p] = op[p] /\ op[p] \in {"cancel", "close"} /\ job'[p] = job[p]
         /\ \/ /\ pc[p] = "load" /\ pc'[p] = "kill" /\ job[p] \in Jobs /\ Loads(job[p])
               /\ out'[p] = file[job[p]].rec /\ out'[p].status = "Running"
            \/ pc[p] = "kill" /\ pc'[p] = "update" /\ out'[p] = out[p]
            \/ /\ pc[p] = "update" /\ pc'[p] \in {"openw", "check"}
               /\ out'[p].task = out[p].task /\ out'[p].status = "Cancelled"
               /\ out'[p].usage = out[p].usage /\ out'[p].reason = out[p].reason
            \/ pc[p] = "check" /\ pc'[p] = "flush" /\ out'[p] = out[p]
            \/ pc[p] = "flush" /\ pc'[p] \in {"flush", "trunc"} /\ out'[p] = out[p]
            \/ pc[p] = "openw" /\ pc'[p] = "flushw" /\ out'[p] = out[p]
            \/ pc[p] = "flushw" /\ pc'[p] = "flushw" /\ out'[p] = out[p]
<1>0. p \in Procs /\ p \notin Tasks /\ (p \in Clients \/ p \in Services)
  BY Kinds DEF Callers
<1>1. pc[p] \in WithRecord /\ op[p] # "submit" =>
        /\ op[p] \in {"cancel", "close"}
        /\ pc[p] \in {"kill", "update", "check", "flush", "trunc", "openw", "flushw"}
  BY DEF Locals, Cancellations
<1>2. pc[p] \in WithRecord => out[p] \in Record
  BY DEF Types, CallerTypeOK, Callers
<1>3. CASE Serve(p)
  <2>1. CASE Load(p)
    <3>1. pc[p] = "load" /\ job[p] \in Jobs
      BY <2>1 DEF Load, Types, CallerTypeOK, WithJob, Callers
    <3>2. ~\E outcome : Return(p, outcome)
      BY <1>0 DEF Return, WithRecord, Types, LocalTypeOK
    <3>3. Loads(job[p])
      BY <2>1, <3>2 DEF Load
    <3>4. file[job[p]].rec.status \in Statuses
      BY <3>1, <3>3 DEF Loads, Types, SharedTypeOK, File, Record
    <3>5. /\ pc'[p] \in {"kill", "reap"} /\ op'[p] = op[p] /\ job'[p] = job[p]
          /\ pc'[p] = "kill" => /\ op[p] \in {"cancel", "close"} /\ MayCancel(file[job[p]].rec)
                                /\ out'[p] = file[job[p]].rec
      BY <1>0, <2>1, <3>2, <3>3 DEF Load, Goto, locals, Types, LocalTypeOK
    <3> QED
      BY <2>1, <3>1, <3>3, <3>4, <3>5 DEF MayCancel, Statuses, Terminal, WithRecord
  <2>2. CASE ~Load(p)
    BY <1>0, <1>1, <1>3, <2>2
       DEF Serve, List, Scan, Open, Listed, Read, Kill, Return, Goto, locals,
           WithRecord, Types, LocalTypeOK
  <2> QED
    BY <2>1, <2>2
<1>4. CASE Write(p)
  <2>1. CASE Update(p)
    <3>1. /\ pc[p] = "update" /\ pc'[p] \in {"openw", "check"} /\ op'[p] = op[p]
          /\ job'[p] = job[p]
      BY <1>0, <2>1 DEF Update, Goto, Types, LocalTypeOK
    <3>2. /\ out'[p].status = "Cancelled" /\ out'[p].task = out[p].task
          /\ out'[p].usage = out[p].usage /\ out'[p].reason = out[p].reason
      BY <1>0, <1>2, <2>1, <3>1 DEF Update, Record, WithRecord, Types, LocalTypeOK
    <3> QED
      BY <1>1, <3>1, <3>2 DEF WithRecord
  <2>2. CASE UpdateReturns(p) \/ UpdateRaises(p)
    BY <2>2, <1>0, UpdateEnds DEF WithRecord
  <2>3. CASE ~Update(p) /\ ~(UpdateReturns(p) \/ UpdateRaises(p))
    BY <1>0, <1>1, <1>4, <2>3
       DEF Write, Check, Flush, Truncate, OpenW, FlushW, FlushPart, Fail, Overwrite,
           OverwritePart, Goto, locals, WithRecord, Types, LocalTypeOK
  <2> QED
    BY <2>1, <2>2, <2>3
<1>5. CASE p \in Clients /\ ClientMoves(p)
  <2>1. ASSUME NEW t \in Tasks, Submit(p, t) PROVE FALSE
    BY <1>0, <2>1 DEF Submit, Begin, Types, LocalTypeOK
  <2>2. CASE GetJobs(p) \/ \E o \in Operations, j \in Jobs : UseJob(p, o, j)
    BY <1>0, <2>2 DEF GetJobs, UseJob, Begin, Goto, WithRecord, Types, LocalTypeOK
  <2>3. CASE Reap(p) \/ Remove(p) \/ Register(p)
    BY <1>0, <1>5, <2>3 DEF Reap, Remove, Register, Return, Goto, locals, WithRecord, Types,
                            LocalTypeOK
  <2>5. CASE \E t \in Tasks : Refuse(p, t)
    BY <2>5 DEF Refuse, Ready, WithRecord
  <2>4. CASE Create(p)
    <3>1. pc[p] = "create" /\ op[p] = "submit"
      BY <1>1, <2>4 DEF Create, WithRecord
    <3>2. Return(p, "DuplicateJobError") \/ UNCHANGED locals
      BY <2>4 DEF Create
    <3> QED
      BY <1>0, <1>5, <3>1, <3>2 DEF Return, locals, WithRecord, Types, LocalTypeOK
  <2> QED
    BY <1>5, <2>1, <2>2, <2>3, <2>4, <2>5 DEF ClientMoves
<1>6. CASE p \in Services /\ CloseMoves(p)
  BY <1>0, <1>6 DEF CloseMoves, StartClose, Shutdown, CancelNext, Goto, locals, WithRecord,
       Types, LocalTypeOK
<1>7. CASE Inactive(p)
  BY <1>7 DEF Inactive, WithRecord
<1> QED
  BY <1>0, <1>3, <1>4, <1>5, <1>6, <1>7 DEF Moves

LEMMA CancellationsStep ==
  ASSUME Types, Locals, Next
  PROVE  Cancellations'
<1>0. Cancellations
  BY DEF Locals
<1>1. ASSUME NEW p \in Procs, Moves(p) PROVE Cancellations'
  <2> SUFFICES ASSUME NEW q \in Callers, pc'[q] \in WithRecord, op'[q] # "submit"
               PROVE  Cancellations!(q)'
    BY DEF Cancellations
  <2>1. CASE q = p
    BY <1>0, <1>1, <2>1, CancellerMoves DEF Cancellations, WithRecord
  <2>2. CASE q # p
    BY <1>0, <1>1, <2>2, MovesAlone, Kinds DEF Cancellations, Alone
  <2> QED
    BY <2>1, <2>2
<1>2. ASSUME NEW c \in Clients, Dispatch(c) PROVE Cancellations'
  <2>1. op[c] = "submit"
    BY <1>2, DispatchFrame, Kinds DEF Locals, Cancellations, WithRecord, Callers
  <2> QED
    BY <1>0, <1>2, <2>1, DispatchFrame, Kinds DEF Cancellations, WithRecord
<1>3. ASSUME NEW c \in Clients, NEW t \in Tasks, SubmitEmpty(c, t) PROVE Cancellations'
  BY <1>0, <1>3, EmptyFrame, Kinds DEF Cancellations
<1> QED
  BY <1>1, <1>2, <1>3, NextSplit

(* How an execution goes on.                                               *)
LEMMA ExecutionMoves ==
  ASSUME Types, Locals, NEW p \in Tasks, Moves(p)
  PROVE  /\ op'[p] = op[p] /\ job'[p] = job[p]
         /\ \/ pc[p] = "ready" /\ pc'[p] \in {"put", "fail"}
            \/ pc[p] = "ready" /\ pc'[p] = "done" /\ pc[Main] = "closed" /\ ~MultiProcess
            \/ pc[p] = "put" /\ pc'[p] \in {"update", "fail"}
            \/ pc[p] = "update" /\ pc'[p] \in {"openw", "check"} /\ out'[p].status = "Completed"
            \/ pc[p] = "check" /\ pc'[p] \in {"flush", "fail"} /\ out'[p] = out[p]
            \/ pc[p] = "flush" /\ pc'[p] \in {"flush", "trunc"} /\ out'[p] = out[p]
            \/ pc[p] = "trunc" /\ pc'[p] = "logs" /\ out'[p] = out[p]
            \/ pc[p] = "openw" /\ pc'[p] = "flushw" /\ out'[p] = out[p]
            \/ pc[p] = "flushw" /\ pc'[p] \in {"flushw", "logs"} /\ out'[p] = out[p]
            \/ pc[p] = "fail" /\ pc'[p] \in {"openw", "overwrite"} /\ out'[p].status = "Failed"
            \/ pc[p] = "overwrite" /\ pc'[p] \in {"flushw", "logs"} /\ out'[p] = out[p]
            \/ pc[p] = "logs" /\ pc'[p] = "done"
            \/ Alive(p) /\ pc'[p] = "dead" /\ MultiProcess
<1>0. p \in Procs /\ p \notin Callers /\ p \notin Clients /\ p \notin Services
  BY Kinds DEF Callers
<1>1. /\ pc[p] \in {"check", "flush", "trunc"} => out[p].status = "Completed"
      /\ pc[p] = "overwrite" => out[p].status = "Failed"
      /\ out[p] \in Record
  BY DEF Locals, Executions, Types, TaskTypeOK
<1>2. CASE TaskMoves(p)
  <2>1. CASE End(p)
    BY <1>0, <2>1 DEF End, Goto, Types, LocalTypeOK
  <2>2. CASE ~End(p)
    BY <1>0, <1>2, <2>2 DEF TaskMoves, Run, PutResults, PutLogs, Goto, locals, Types, LocalTypeOK
  <2> QED
    BY <2>1, <2>2
<1>3. CASE Write(p)
  <2>1. CASE Update(p) \/ Fail(p)
    <3>1. /\ op'[p] = op[p] /\ job'[p] = job[p]
          /\ \/ pc[p] = "update" /\ pc'[p] \in {"openw", "check"}
             \/ pc[p] = "fail" /\ pc'[p] \in {"openw", "overwrite"}
      BY <1>0, <2>1 DEF Update, Fail, Goto, Types, LocalTypeOK
    <3>2. /\ pc[p] = "update" => out'[p].status = "Completed"
          /\ pc[p] = "fail" => out'[p].status = "Failed"
      BY <1>0, <1>1, <2>1 DEF Update, Fail, Record, Types, LocalTypeOK
    <3> QED
      BY <3>1, <3>2
  <2>2. CASE UpdateReturns(p) \/ UpdateRaises(p)
    <3>1. /\ op'[p] = op[p] /\ job'[p] = job[p] /\ out'[p] = out[p] /\ pc'[p] \in {"logs", "fail"}
          /\ pc'[p] = "fail" => UpdateRaises(p) /\ out[p].status = "Completed"
      BY <1>0, <2>2, UpdateEnds
    <3>2. Check(p) \/ Truncate(p) \/ FlushW(p) \/ Overwrite(p)
      <4>1. ~(Flush(p) \/ OpenW(p) \/ OverwritePart(p) \/ Update(p) \/ Fail(p))
        BY <1>0, <3>1 DEF Flush, OpenW, OverwritePart, Update, Fail, Goto, Types, LocalTypeOK
      <4>2. ~FlushPart(p)
        BY <3>1 DEF FlushPart
      <4> QED
        BY <1>3, <4>1, <4>2 DEF Write
    <3>3. CASE Check(p)
      <4>1. UpdateRaises(p) \/ Goto(p, "flush")
        BY <3>3 DEF Check
      <4>2. UpdateRaises(p)
        BY <1>0, <3>1, <4>1 DEF Goto, Types, LocalTypeOK
      <4>3. pc'[p] = "fail" /\ pc[p] = "check"
        BY <1>0, <1>1, <3>3, <4>2 DEF Check, UpdateRaises, Goto, Types, LocalTypeOK
      <4> QED
        BY <3>1, <4>3
    <3>4. CASE Overwrite(p)
      <4>1. pc[p] = "overwrite" /\ out[p].status = "Failed"
        BY <1>1, <3>4 DEF Overwrite
      <4>2. pc'[p] = "logs"
        BY <3>1, <4>1
      <4> QED
        BY <3>1, <4>1, <4>2
    <3>5. CASE Truncate(p) \/ FlushW(p)
      <4>1. UpdateReturns(p) /\ pc[p] \in {"trunc", "flushw"}
        BY <3>5 DEF Truncate, FlushW
      <4>2. pc'[p] = "logs"
        BY <1>0, <4>1 DEF UpdateReturns, Goto, Types, LocalTypeOK
      <4> QED
        BY <3>1, <4>1, <4>2
    <3> QED
      BY <3>2, <3>3, <3>4, <3>5
  <2>3. CASE ~(Update(p) \/ Fail(p)) /\ ~(UpdateReturns(p) \/ UpdateRaises(p))
    BY <1>0, <1>3, <2>3
       DEF Write, Check, Flush, Truncate, OpenW, FlushW, FlushPart, Overwrite,
           OverwritePart, Goto, locals, Types, LocalTypeOK
  <2> QED
    BY <2>1, <2>2, <2>3
<1> QED
  BY <1>0, <1>2, <1>3 DEF Moves

(* Accepted once, an execution never is a submission again.                *)
LEMMA BirthMoves ==
  ASSUME Types, Locals, NEW p \in Procs, Moves(p), NEW t \in Tasks
  PROVE  /\ pc[t] \in {"unborn", "void"} => pc'[t] = pc[t]
         /\ pc[t] \notin {"unborn", "void"} => pc'[t] \notin {"unborn", "void"}
<1>1. CASE t = p
  BY <1>1, ExecutionMoves DEF Alive, Ended
<1>2. CASE t # p
  BY <1>2, MovesAlone, Kinds DEF Alone
<1> QED
  BY <1>1, <1>2

(* A submission that goes on, or begins, is nobody else's.                 *)
LEMMA SoleSubmitter ==
  ASSUME Types, Locals, NEW p \in Clients, Moves(p), op'[p] = "submit"
  PROVE  /\ out'[p].task \in Tasks
         /\ \A d \in Clients : d # p /\ op[d] = "submit" => out[d].task # out'[p].task
<1>1. CASE op[p] = "submit" /\ out[p] \in Record /\ out'[p].task = out[p].task
  BY <1>1 DEF Locals, Submissions, Record
<1>2. CASE \E t \in Tasks : Submit(p, t) /\ out'[p] = NewRecord(t)
  BY <1>2 DEF Submit, InFlight, NewRecord
<1> QED
  BY <1>1, <1>2, SubmitterMoves

LEMMA OwnSubmission ==
  ASSUME Types, Locals, NEW p \in Clients, Moves(p), op'[p] = "submit"
  PROVE  /\ pc'[p] \in Submitting
         /\ pc'[p] \notin {"openw", "flushw", "overwrite"} => out'[p].status = "Running"
         /\ pc'[p] = "overwrite" => out'[p].status = "Failed"
         /\ out'[p].status \in {"Running", "Failed"}
         /\ IF pc'[p] = "register" THEN pc'[out'[p].task] \notin {"unborn", "void"}
            ELSE pc'[out'[p].task] = IF out'[p].status = "Running" /\ pc'[p] # "fail"
                                     THEN "unborn" ELSE "void"
<1>1. CASE op[p] = "submit" /\ out'[p].task = out[p].task
  <2>1. Submissions!(p)!2
    BY <1>1 DEF Locals, Submissions
  <2>2. out[p].task \in Tasks
    BY <1>1, SoleSubmitter
  <2>3. pc'[p] # "register"
    BY SubmitterMoves DEF Submit
  <2>4. /\ pc'[p] \in Submitting
        /\ \/ out'[p] = out[p] /\ (pc'[p] \notin {"openw", "flushw", "overwrite"} => out[p].status = "Running")
                               /\ pc'[p] # "fail" /\ pc[p] \notin {"fail", "register"}
                               /\ pc'[p] # "overwrite"
           \/ pc[p] = "fail" /\ out'[p].status = "Failed" /\ pc'[p] \in {"openw", "overwrite"}
    <3>1. ~\E t \in Tasks : Submit(p, t)
      BY <2>1 DEF Submit, Ready, Submitting
    <3> QED
      BY <2>1, <3>1, SubmitterMoves DEF Submitting
  <2>5. /\ pc[out[p].task] \in {"unborn", "void"} => pc'[out[p].task] = pc[out[p].task]
    BY <2>2, BirthMoves, Kinds DEF Callers
  <2> QED
    BY <1>1, <2>1, <2>3, <2>4, <2>5
<1>2. ASSUME NEW t \in Tasks, Submit(p, t), out'[p] = NewRecord(t), pc'[p] \in {"list", "create"}
      PROVE  out'[p].status = "Running" /\ pc'[out'[p].task] = "unborn"
  <2>1. out'[p].status = "Running" /\ out'[p].task = t /\ pc[t] = "unborn"
    BY <1>2 DEF NewRecord, Submit
  <2>2. pc'[t] = "unborn"
    BY <2>1, BirthMoves, Kinds DEF Callers
  <2> QED
    BY <1>2, <2>1, <2>2
<1> QED
  BY <1>1, <1>2, SubmitterMoves DEF Submitting

LEMMA SubmissionsStep ==
  ASSUME Types, Locals, Next
  PROVE  Submissions'
<1>0. Submissions
  BY DEF Locals
<1>a. \A c \in Clients : c \in Procs /\ c \in Callers /\ c \notin Tasks
  BY Kinds DEF Callers
<1>b. \A c \in Clients : op[c] = "submit" => out[c] \in Record /\ out[c].task \in Tasks
  BY DEF Types, CallerTypeOK, Record
<1>1. ASSUME NEW p \in Procs, Moves(p) PROVE Submissions'
  <2> SUFFICES ASSUME NEW d \in Clients, op'[d] = "submit" PROVE Submissions!(d)!2'
    BY DEF Submissions
  <2>1. \A c \in Clients : c # p => /\ pc'[c] = pc[c] /\ op'[c] = op[c] /\ out'[c] = out[c]
    BY <1>1, <1>a, MovesAlone DEF Alone
  <2>2. CASE d = p
    BY <1>1, <2>1, <2>2, OwnSubmission, SoleSubmitter
  <2>3. CASE d # p
    <3>1. /\ op[d] = "submit" /\ pc'[d] = pc[d] /\ out'[d] = out[d] /\ Submissions!(d)!2
          /\ out[d].task \in Tasks
      BY <1>0, <1>b, <2>1, <2>3 DEF Submissions
    <3>2. /\ pc[out[d].task] \in {"unborn", "void"} => pc'[out[d].task] = pc[out[d].task]
          /\ pc[out[d].task] \notin {"unborn", "void"} => pc'[out[d].task] \notin {"unborn", "void"}
      BY <1>1, <3>1, BirthMoves
    <3>3. \A e \in Clients : op'[e] = "submit" /\ out'[e].task = out'[d].task => e = d
      BY <1>1, <2>1, <2>3, <3>1, SoleSubmitter
    <3> QED
      BY <3>1, <3>2, <3>3
  <2> QED
    BY <2>2, <2>3
<1>2. ASSUME NEW c \in Clients, Dispatch(c) PROVE Submissions'
  <2>1. op[c] = "submit" /\ out[c].status = "Running" /\ out[c].task \in Tasks
    BY <1>2, <1>a, DispatchFrame DEF Locals, Submissions, Cancellations, WithRecord
  <2>2. ASSUME NEW d \in Clients, d # c
        PROVE  /\ op'[d] = op[d] /\ out'[d] = out[d] /\ pc'[d] = pc[d]
               /\ op[d] = "submit" => /\ out[d].task # out[c].task
                                      /\ pc'[out[d].task] = pc[out[d].task]
    <3>1. d # out[c].task /\ d \in Procs
      BY <1>a, <2>1, Kinds
    <3>2. op'[d] = op[d] /\ out'[d] = out[d] /\ pc'[d] = pc[d]
      BY <1>2, <2>2, <3>1, DispatchFrame
    <3>3. ASSUME op[d] = "submit"
          PROVE out[d].task # out[c].task /\ out[d].task \in Tasks
      BY <1>0, <1>b, <2>1, <2>2, <3>3 DEF Submissions
    <3> QED
      BY <1>2, <1>a, <3>2, <3>3, DispatchFrame, Kinds
  <2>3. op'[c] = "submit" => /\ out'[c] = out[c] /\ out[c].status = "Running"
                             /\ \/ pc'[c] = "fail" /\ pc'[out[c].task] = "void"
                                \/ pc'[c] = "register" /\ pc'[out[c].task] = "ready"
    BY <1>2, <2>1, DispatchFrame
  <2> SUFFICES ASSUME NEW d \in Clients, op'[d] = "submit" PROVE Submissions!(d)!2'
    BY DEF Submissions
  <2>4. CASE d = c
    BY <2>2, <2>3, <2>4 DEF Submitting
  <2>5. CASE d # c
    <3>1. Submissions!(d)!2
      BY <1>0, <2>2, <2>5 DEF Submissions
    <3>2. \A e \in Clients : op'[e] = "submit" /\ out'[e].task = out'[d].task => e = d
      BY <2>2, <2>3, <2>5, <3>1
    <3> QED
      BY <2>2, <2>5, <3>1, <3>2
  <2> QED
    BY <2>4, <2>5
<1>3. ASSUME NEW c \in Clients, NEW t \in Tasks, SubmitEmpty(c, t) PROVE Submissions'
  <2>1. /\ out'[c].status = "Running" /\ out'[c].task = t /\ op'[c] = "submit"
        /\ pc'[c] = "fail" /\ pc'[t] = "void"
    BY <1>3, EmptyFrame
  <2>2. ASSUME NEW d \in Clients, d # c
        PROVE  /\ op'[d] = op[d] /\ out'[d] = out[d] /\ pc'[d] = pc[d]
               /\ op[d] = "submit" => out[d].task # t /\ pc'[out[d].task] = pc[out[d].task]
    BY <1>3, <1>a, <1>b, <2>2, EmptyFrame, Kinds
  <2> SUFFICES ASSUME NEW d \in Clients, op'[d] = "submit" PROVE Submissions!(d)!2'
    BY DEF Submissions
  <2>4. CASE d = c
    BY <2>1, <2>2, <2>4 DEF Submitting
  <2>5. CASE d # c
    <3>1. Submissions!(d)!2
      BY <1>0, <2>2, <2>5 DEF Submissions
    <3> QED
      BY <2>1, <2>2, <2>5, <3>1
  <2> QED
    BY <2>4, <2>5
<1> QED
  BY <1>1, <1>2, <1>3, NextSplit

LEMMA ExecutionsStep ==
  ASSUME Types, Locals, Next
  PROVE  Executions'
<1>0. Executions
  BY DEF Locals
<1>1. ASSUME NEW p \in Procs, Moves(p) PROVE Executions'
  <2> SUFFICES ASSUME NEW t \in Tasks PROVE Executions!(t)'
    BY DEF Executions
  <2>1. CASE t = p
    BY <1>0, <1>1, <2>1, ExecutionMoves DEF Executions
  <2>2. CASE t # p
    BY <1>0, <1>1, <2>2, MovesAlone, Kinds DEF Executions, Alone
  <2> QED
    BY <2>1, <2>2
<1>2. ASSUME NEW c \in Clients, Dispatch(c) PROVE Executions'
  BY <1>0, <1>2, DispatchFrame, Kinds DEF Executions, Callers
<1>3. ASSUME NEW c \in Clients, NEW t \in Tasks, SubmitEmpty(c, t) PROVE Executions'
  BY <1>0, <1>3, EmptyFrame, Kinds DEF Executions, Callers
<1> QED
  BY <1>1, <1>2, <1>3, NextSplit

LEMMA WriterKinds ==
  ASSUME Types, NEW p \in Procs,
         pc[p] \in {"openw", "flush", "trunc", "flushw", "overwrite"}
  PROVE  /\ job[p] \in Jobs /\ out[p] \in Record /\ pc[p] \in Critical
         /\ p \in Callers => pc[p] \in WithRecord
         /\ p \in Tasks => job[p] = JobId[p] /\ out[p].task = p
  BY Kinds, SubmissionsAssumption
     DEF Types, TaskTypeOK, CallerTypeOK, WithJob, WithRecord, Critical, Callers

LEMMA FileMoves ==
  ASSUME Types, HandleOK, NEW p \in Procs, Moves(p)
  PROVE  \/ file' = file /\ \A q \in Procs : q # p => fd'[q] = fd[q]
         \/ /\ p \in Clients /\ pc[p] = "remove" /\ file' = [file EXCEPT ![job[p]] = Nil]
            /\ \A q \in Procs : fd'[q] = (fd[q] /\ job[q] # job[p])
         \/ /\ pc[p] \in {"openw", "flush", "trunc", "flushw", "overwrite"}
            /\ \A q \in Procs : q # p => fd'[q] = fd[q]
            /\ \A j \in Jobs : j # job[p] => file'[j] = file[j]
            /\ pc[p] = "openw" \/ file[job[p]] # Nil
            /\ \/ file'[job[p]].rec = out[p]
               \/ pc[p] = "trunc" /\ fd[p] /\ file'[job[p]].rec = file[job[p]].rec
<1>0. p \in Tasks \/ p \in Callers
  BY Kinds
<1>1. CASE p \in Callers /\ Serve(p)
  BY <1>1 DEF Serve, List, Scan, Open, Listed, Read, Load, Kill, Return, locals, shared,
              Types, LocalTypeOK
<1>2. CASE p \in Callers /\ Inactive(p)
  BY <1>2 DEF Inactive
<1>3. CASE p \in Clients /\ ClientMoves(p)
  <2>1. CASE Remove(p)
    <3>1. CASE file[job[p]] = Nil
      BY <1>3, <2>1, <3>1 DEF Remove, Return, Types, LocalTypeOK
    <3>2. CASE file[job[p]] # Nil
      BY <1>3, <2>1, <3>2 DEF Remove
    <3> QED
      BY <3>1, <3>2
  <2>2. CASE ~Remove(p)
    BY <1>3, <2>2 DEF ClientMoves, GetJobs, UseJob, Submit, Refuse, Begin, Reap, Create, Register,
       Return, locals, Types, LocalTypeOK
  <2> QED
    BY <2>1, <2>2
<1>4. CASE p \in Tasks /\ TaskMoves(p)
  BY <1>4 DEF TaskMoves, Run, PutResults, PutLogs, End, locals, Types, LocalTypeOK
<1>5. CASE p \in Services /\ CloseMoves(p)
  BY <1>5 DEF CloseMoves, StartClose, Shutdown, CancelNext, locals
<1>6. CASE Write(p)
  <2>0. \A q \in Procs : q # p => fd'[q] = fd[q]
    <3>1. CASE UpdateReturns(p) \/ UpdateRaises(p)
      BY <3>1 DEF UpdateReturns, UpdateRaises, Return, locals, Types, LocalTypeOK
    <3>2. CASE ~(UpdateReturns(p) \/ UpdateRaises(p))
      BY <1>6, <3>2 DEF Write, Update, Check, Flush, Truncate, OpenW, FlushW, FlushPart, Fail,
                        Overwrite, OverwritePart, locals, Types, LocalTypeOK
    <3> QED
      BY <3>1, <3>2
  <2>1. CASE Update(p) \/ Check(p) \/ Fail(p)
    BY <2>0, <2>1 DEF Update, Check, Fail
  <2>2. CASE Flush(p) \/ FlushW(p) \/ FlushPart(p)
    <3>1. /\ pc[p] \in {"flush", "flushw"} /\ job[p] \in Jobs
          /\ file' = file \/ file' = [file EXCEPT ![job[p]] = Written(@, out[p])]
                          \/ \E n \in {Buffer, Size(out[p])} :
                                file' = [file EXCEPT ![job[p]] = WrittenPart(@, out[p], n)]
          /\ file' = file \/ fd[p]
      BY <2>2, WriterKinds DEF Flush, FlushW, FlushPart, Dump, Types, SharedTypeOK
    <3>2. fd[p] => file[job[p]] # Nil
      BY DEF HandleOK
    <3> QED
      BY <2>0, <3>1, <3>2 DEF Written, WrittenPart, Types, SharedTypeOK
  <2>3. CASE Truncate(p)
    <3>1. pc[p] = "trunc" /\ job[p] \in Jobs /\ (fd[p] => file[job[p]] # Nil)
      BY <2>3, WriterKinds DEF Truncate, HandleOK
    <3>2. CASE fd[p]
      <4>1. file' = [file EXCEPT ![job[p]] = Truncated(@, Size(out[p]))]
        BY <2>3, <3>1, <3>2 DEF Truncate, Types, SharedTypeOK
      <4>2. file[job[p]] \in File
        BY <3>1, <3>2 DEF Types, SharedTypeOK
      <4>3. Truncated(file[job[p]], Size(out[p])).rec = file[job[p]].rec
        BY <4>2 DEF Truncated, File
      <4> QED
        BY <2>0, <3>1, <3>2, <4>1, <4>3 DEF Types, SharedTypeOK
    <3>3. CASE ~fd[p]
      BY <2>0, <2>3, <3>1, <3>3 DEF Truncate, Types, SharedTypeOK
    <3> QED
      BY <3>2, <3>3
  <2>4. CASE OpenW(p)
    <3>1. pc[p] = "openw" /\ job[p] \in Jobs
      BY <2>4, WriterKinds DEF OpenW
    <3> QED
      BY <2>0, <2>4, <3>1 DEF OpenW, Empty, Types, SharedTypeOK
  <2>5. CASE Overwrite(p) \/ OverwritePart(p)
    <3>1. pc[p] = "overwrite" /\ job[p] \in Jobs
      BY <2>5, WriterKinds DEF Overwrite, OverwritePart
    <3>2. \/ file' = file
          \/ file[job[p]] # Nil /\ file' = [file EXCEPT ![job[p]] = Written(@, out[p])]
          \/ file[job[p]] # Nil /\ file' = [file EXCEPT ![job[p]] = WrittenPart(@, out[p], Buffer)]
      BY <2>5 DEF Overwrite, OverwritePart
    <3> QED
      BY <2>0, <3>1, <3>2 DEF Written, WrittenPart, Types, SharedTypeOK
  <2> QED
    BY <1>6, <2>1, <2>2, <2>3, <2>4, <2>5 DEF Write
<1> QED
  BY <1>0, <1>1, <1>2, <1>3, <1>4, <1>5, <1>6 DEF Moves

(* The record in hand belongs to the file it is for.                       *)
LEMMA OwnIds ==
  ASSUME Types, Ids, NEW p \in Procs,
         pc[p] \in {"openw", "flush", "trunc", "flushw", "overwrite"}
  PROVE  JobId[out[p].task] = job[p]
  BY WriterKinds, Kinds DEF Ids

(* How a deletion goes on.                                                 *)
LEMMA DeletionMoves ==
  ASSUME Types, NEW p \in Clients, Moves(p), pc'[p] \in {"reap", "remove"}
  PROVE  /\ job'[p] = job[p]
         /\ \/ pc[p] = "reap" /\ out'[p] = out[p]
            \/ /\ pc[p] = "load" /\ op[p] = "delete" /\ job[p] \in Jobs /\ Loads(job[p])
               /\ MayDelete(file[job[p]].rec) /\ out'[p] = file[job[p]].rec
<1>0. p \in Procs /\ p \in Callers /\ p \notin Tasks /\ p \notin Services
  BY ProcsAssumption DEF Procs, Callers
<1>r. \A outcome : ~Return(p, outcome)
  BY <1>0 DEF Return, Types, LocalTypeOK
<1>1. CASE Serve(p)
  <2>1. ~(List(p) \/ Scan(p) \/ Open(p) \/ Listed(p) \/ Read(p) \/ Kill(p))
    BY <1>0, <1>r DEF List, Scan, Open, Listed, Read, Kill, Goto, Types, LocalTypeOK
  <2>2. Load(p)
    BY <1>1, <2>1 DEF Serve
  <2>3. pc[p] = "load" /\ job[p] \in Jobs /\ Loads(job[p])
    BY <1>0, <1>r, <2>2 DEF Load, Types, CallerTypeOK, WithJob, Callers
  <2> QED
    BY <1>0, <1>r, <2>2, <2>3 DEF Load, Goto, locals, Types, LocalTypeOK
<1>2. CASE Inactive(p)
  BY <1>2 DEF Inactive
<1>3. ~Write(p)
  <2>1. ~(UpdateReturns(p) \/ UpdateRaises(p))
    BY <1>0, UpdateEnds
  <2> QED
    BY <1>0, <2>1 DEF Write, Update, Check, Flush, Truncate, OpenW, FlushW, FlushPart, Fail,
       Overwrite, OverwritePart, Goto, Types, LocalTypeOK
<1>4. CASE ClientMoves(p)
  <2>1. Reap(p)
    BY <1>0, <1>r, <1>4 DEF ClientMoves, GetJobs, UseJob, Submit, Refuse, Ready, Begin, Remove,
       Create, Register, Goto, Types, LocalTypeOK
  <2> QED
    BY <2>1 DEF Reap, locals
<1> QED
  BY <1>0, <1>1, <1>2, <1>3, <1>4 DEF Moves

LEMMA IdsStep ==
  ASSUME Types, HandleOK, Locals, Ids, Next
  PROVE  Ids'
<1>0. /\ \A j \in Jobs : file[j] # Nil => JobId[file[j].rec.task] = j
      /\ \A q \in Callers : pc[q] \in WithRecord => JobId[out[q].task] = job[q]
      /\ \A c \in Clients : pc[c] \in {"reap", "remove"} => JobId[out[c].task] = job[c]
  BY DEF Ids
<1>1. ASSUME NEW p \in Procs, Moves(p) PROVE Ids'
  <2>1. ASSUME NEW j \in Jobs, file'[j] # Nil PROVE JobId[file'[j].rec.task] = j
    <3>1. CASE file'[j] = file[j]
      BY <1>0, <2>1, <3>1
    <3>2. CASE file'[j] # file[j]
      <4>1. /\ pc[p] \in {"openw", "flush", "trunc", "flushw", "overwrite"} /\ j = job[p]
            /\ pc[p] = "openw" \/ file[j] # Nil
            /\ \/ file'[j].rec = out[p]
               \/ pc[p] # "openw" /\ file'[j].rec = file[j].rec
        BY <1>1, <2>1, <3>2, FileMoves DEF Types, SharedTypeOK
      <4> QED
        BY <1>0, <4>1, OwnIds
    <3> QED
      BY <3>1, <3>2
  <2>2. ASSUME NEW q \in Callers, pc'[q] \in WithRecord PROVE JobId[out'[q].task] = job'[q]
    <3>1. CASE q # p
      BY <1>0, <1>1, <2>2, <3>1, MovesAlone, Kinds DEF Alone
    <3>2. CASE q = p /\ op'[p] = "submit"
      <4>1. p \in Clients
        BY <2>2, <3>2, NextTypes DEF Types, CallerTypeOK, Callers
      <4>2. CASE \E t \in Tasks : out'[p] = NewRecord(t) /\ job'[p] = JobId[t]
        BY <3>2, <4>2 DEF NewRecord
      <4>3. CASE out'[p].task = out[p].task /\ job'[p] = job[p] /\ pc[p] \in WithRecord
        BY <1>0, <2>2, <3>2, <4>3
      <4>4. CASE out'[p].task = out[p].task /\ job'[p] = JobId[out[p].task]
        BY <3>2, <4>4
      <4> QED
        BY <1>1, <2>2, <3>2, <4>1, <4>2, <4>3, <4>4, SubmitterMoves DEF WithRecord
    <3>3. CASE q = p /\ op'[p] # "submit"
      <4>1. /\ job'[p] = job[p]
            /\ \/ out'[p].task = out[p].task /\ pc[p] \in WithRecord
               \/ job[p] \in Jobs /\ Loads(job[p]) /\ out'[p] = file[job[p]].rec
        BY <1>1, <2>2, <3>3, CancellerMoves DEF WithRecord
      <4> QED
        BY <1>0, <2>2, <3>3, <4>1 DEF Loads
    <3> QED
      BY <3>1, <3>2, <3>3
  <2>3. ASSUME NEW q \in Clients, pc'[q] \in {"reap", "remove"}
        PROVE  JobId[out'[q].task] = job'[q]
    <3>1. CASE q # p
      BY <1>0, <1>1, <2>3, <3>1, MovesAlone DEF Alone, Procs
    <3>2. CASE q = p
      BY <1>0, <1>1, <2>3, <3>2, DeletionMoves DEF Loads
    <3> QED
      BY <3>1, <3>2
  <2> QED
    BY <2>1, <2>2, <2>3 DEF Ids
<1>2. ASSUME NEW c \in Clients, Dispatch(c) PROVE Ids'
  <2>1. \A q \in Callers : q # c => pc'[q] = pc[q] /\ out'[q] = out[q] /\ job'[q] = job[q]
    BY <1>2, DispatchFrame, Kinds
  <2>2. \A d \in Clients : d \in Callers
    BY DEF Callers
  <2> QED
    BY <1>0, <1>2, <2>1, <2>2, DispatchFrame DEF Ids, WithRecord
<1>3. ASSUME NEW c \in Clients, NEW t \in Tasks, SubmitEmpty(c, t) PROVE Ids'
  <2>1. JobId[out'[c].task] = job'[c]
    BY <1>3, EmptyFrame
  <2>2. \A q \in Callers : q # c => pc'[q] = pc[q] /\ out'[q] = out[q] /\ job'[q] = job[q]
    BY <1>3, EmptyFrame, Kinds
  <2>3. \A d \in Clients : d \in Callers
    BY DEF Callers
  <2> QED
    BY <1>0, <1>3, <2>1, <2>2, <2>3, EmptyFrame DEF Ids
<1> QED
  BY <1>1, <1>2, <1>3, NextSplit

(* A record that says Running is written by its submitter.                 *)
LEMMA RunningWriter ==
  ASSUME Types, Locals, NEW p \in Procs,
         pc[p] \in {"openw", "flush", "trunc", "flushw", "overwrite"},
         out[p].status = "Running"
  PROVE  p \in Clients /\ op[p] = "submit" /\ pc[p] \in {"openw", "flushw"}
<1>1. p \notin Tasks
  BY DEF Locals, Executions
<1>2. p \in Callers
  BY <1>1, Kinds
<1>3. op[p] = "submit"
  BY <1>2 DEF Locals, Cancellations, WithRecord
<1>4. p \in Clients
  BY <1>2, <1>3 DEF Types, CallerTypeOK, Callers
<1> QED
  BY <1>3, <1>4 DEF Locals, Submissions, Submitting

-----------------------------------------------------------------------------
(* The records, and their fields.                                          *)

LEMMA WrittenPlain ==
  ASSUME Types, Locals, AllPlain, NEW p \in Procs,
         pc[p] \in {"openw", "flush", "trunc", "flushw", "overwrite"}
  PROVE  Plain(out[p])
<1>1. CASE p \in Tasks
  BY <1>1 DEF Locals, Executions, Plain
<1>2. CASE p \in Callers
  BY <1>2 DEF AllPlain, WithRecord
<1> QED
  BY <1>1, <1>2, Kinds

LEMMA AllPlainStep ==
  ASSUME Types, HandleOK, Locals, AllPlain, Next
  PROVE  AllPlain'
<1>1. ASSUME NEW p \in Procs, Moves(p) PROVE AllPlain'
  <2>1. ASSUME NEW j \in Jobs, file'[j] # Nil PROVE Plain(file'[j].rec)
    <3>1. \/ file[j] # Nil /\ file'[j].rec = file[j].rec
          \/ /\ file'[j].rec = out[p]
             /\ pc[p] \in {"openw", "flush", "trunc", "flushw", "overwrite"}
      BY <1>1, <2>1, FileMoves DEF Types, SharedTypeOK
    <3> QED
      BY <3>1, WrittenPlain DEF AllPlain
  <2>2. ASSUME NEW q \in Callers, pc'[q] \in WithRecord \/ op'[q] = "submit" PROVE Plain(out'[q])
    <3>1. CASE q # p
      BY <1>1, <2>2, <3>1, MovesAlone, Kinds DEF AllPlain, Alone
    <3>2. CASE q = p /\ op'[p] = "submit"
      <4>1. p \in Clients
        BY <2>2, <3>2, NextTypes DEF Types, CallerTypeOK, Callers
      <4>2. \A t \in Tasks : Plain(NewRecord(t))
        BY DEF Plain, NewRecord
      <4>3. out'[p].status = "Failed" => Plain(out'[p])
        BY DEF Plain
      <4>4. op[p] = "submit" => Plain(out[p])
        BY <2>2, <3>2 DEF AllPlain
      <4> QED
        BY <1>1, <3>2, <4>1, <4>2, <4>3, <4>4, SubmitterMoves
    <3>3. CASE q = p /\ op'[p] # "submit"
      <4>1. \/ out'[p] = out[p] /\ pc[p] \in WithRecord
            \/ job[p] \in Jobs /\ Loads(job[p]) /\ out'[p] = file[job[p]].rec
            \/ /\ pc[p] = "update" /\ out[p].status = "Running" /\ out'[p].status = "Cancelled"
               /\ out'[p].usage = out[p].usage /\ out'[p].reason = out[p].reason
        <5>1. pc[p] = "update" /\ op[p] # "submit" => out[p].status = "Running"
          BY <2>2, <3>3 DEF Locals, Cancellations, WithRecord
        <5> QED
          BY <1>1, <2>2, <3>3, <5>1, CancellerMoves DEF WithRecord
      <4> QED
        BY <2>2, <3>3, <4>1 DEF AllPlain, Plain, Loads, WithRecord
    <3> QED
      BY <3>1, <3>2, <3>3
  <2> QED
    BY <2>1, <2>2 DEF AllPlain
<1>2. ASSUME NEW c \in Clients, Dispatch(c) PROVE AllPlain'
  <2>1. \A q \in Callers : q # c => pc'[q] = pc[q] /\ op'[q] = op[q] /\ out'[q] = out[q]
    BY <1>2, DispatchFrame, Kinds
  <2>2. pc'[c] \in WithRecord \/ op'[c] = "submit" => out'[c] = out[c] /\ pc[c] \in WithRecord
    BY <1>2, DispatchFrame DEF WithRecord
  <2> QED
    BY <1>2, <2>1, <2>2, DispatchFrame DEF AllPlain
<1>3. ASSUME NEW c \in Clients, NEW t \in Tasks, SubmitEmpty(c, t) PROVE AllPlain'
  <2>1. \A q \in Callers : q # c => pc'[q] = pc[q] /\ op'[q] = op[q] /\ out'[q] = out[q]
    BY <1>3, EmptyFrame, Kinds
  <2>2. Plain(out'[c])
    BY <1>3, EmptyFrame DEF Plain
  <2> QED
    BY <1>3, <2>1, <2>2, EmptyFrame DEF AllPlain
<1> QED
  BY <1>1, <1>2, <1>3, NextSplit

-----------------------------------------------------------------------------
(* The logs.                                                               *)

(* Once a submission is accepted, no step makes its record say Running.    *)
LEMMA RunningStays ==
  ASSUME Types, HandleOK, Locals, NEW p \in Procs, Moves(p), NEW t \in Tasks,
         pc[t] # "unborn", HasRunning(t)'
  PROVE  HasRunning(t)
<1>1. PICK j \in Jobs : /\ file'[j] # Nil /\ file'[j].rec.task = t
                        /\ file'[j].rec.status = "Running"
  BY DEF HasRunning
<1>2. CASE file[j] # Nil /\ file'[j].rec = file[j].rec
  BY <1>1, <1>2 DEF HasRunning
<1>3. CASE /\ file'[j].rec = out[p]
           /\ pc[p] \in {"openw", "flush", "trunc", "flushw", "overwrite"}
  <2>1. p \in Clients /\ op[p] = "submit" /\ pc[p] \in {"openw", "flushw"}
    BY <1>1, <1>3, RunningWriter
  <2>2. pc[t] = "unborn"
    BY <1>1, <1>3, <2>1 DEF Locals, Submissions
  <2> QED
    BY <2>2
<1> QED
  BY <1>1, <1>2, <1>3, FileMoves DEF Types, SharedTypeOK

(* The record of an execution can only be in the file of its id.           *)
LEMMA OwnRecord ==
  ASSUME Ids, NEW t \in Tasks, HasRunning(t)
  PROVE  file[JobId[t]] # Nil /\ file[JobId[t]].rec.task = t /\ file[JobId[t]].rec.status = "Running"
  BY DEF Ids, HasRunning

(* What is stored after a step: a task's logs when it ends.                *)
LEMMA StoredMoves ==
  ASSUME Types, NEW p \in Procs, Moves(p), NEW t \in Tasks,
         <<t, "logs">> \in stored', <<t, "logs">> \notin stored
  PROVE  p = t /\ pc[t] = "logs" /\ pc'[t] = "done"
<1>1. CASE p \in Callers /\ (Serve(p) \/ Inactive(p))
  BY <1>1 DEF Serve, Inactive, List, Scan, Open, Listed, Read, Load, Kill, shared
<1>2. CASE Write(p)
  BY <1>2 DEF Write, Update, Check, Flush, Truncate, OpenW, FlushW, FlushPart, Fail, Overwrite,
       OverwritePart, shared
<1>3. CASE p \in Clients /\ ClientMoves(p)
  BY <1>3 DEF ClientMoves, GetJobs, UseJob, Submit, Refuse, Begin, Reap, Remove, Create, Register,
       shared
<1>4. CASE p \in Services /\ CloseMoves(p)
  BY <1>4 DEF CloseMoves, StartClose, Shutdown, CancelNext, shared
<1>5. CASE p \in Tasks /\ TaskMoves(p)
  BY <1>5, Kinds DEF TaskMoves, Run, PutResults, PutLogs, End, Goto, shared, Types, LocalTypeOK
<1> QED
  BY <1>1, <1>2, <1>3, <1>4, <1>5 DEF Moves

(* A process that is writing a record moves as that write does, or its     *)
(* worker process is killed.                                               *)
LEMMA WriteMoves ==
  ASSUME Types, NEW p \in Procs, Moves(p), p \in Tasks => pc'[p] # "dead"
  PROVE  /\ pc[p] = "update" => Update(p)
         /\ pc[p] = "check" => Check(p)
         /\ pc[p] = "flush" => Flush(p) \/ FlushPart(p)
         /\ pc[p] = "trunc" => Truncate(p)
         /\ pc[p] = "openw" => OpenW(p)
         /\ pc[p] = "flushw" => FlushW(p) \/ FlushPart(p)
         /\ pc[p] = "fail" => Fail(p)
         /\ pc[p] = "overwrite" => Overwrite(p) \/ OverwritePart(p)
<1> SUFFICES ASSUME pc[p] \in {"update", "check", "flush", "trunc", "openw", "flushw", "fail",
                              "overwrite"}
             PROVE  Write(p)
  BY DEF Write, Update, Check, Flush, Truncate, OpenW, FlushW, FlushPart, Fail, Overwrite,
         OverwritePart
<1>1. ~(Serve(p) \/ Inactive(p))
  BY DEF Serve, List, Scan, Open, Listed, Read, Load, Kill, Inactive
<1>2. ~ClientMoves(p)
  BY DEF ClientMoves, GetJobs, UseJob, Submit, Refuse, Ready, Reap, Remove, Create, Register
<1>3. ~CloseMoves(p)
  BY DEF CloseMoves, StartClose, Shutdown, CancelNext
<1>4. p \in Tasks => ~TaskMoves(p)
  BY DEF TaskMoves, Run, PutResults, PutLogs, End, Goto, Types, LocalTypeOK
<1> QED
  BY <1>1, <1>2, <1>3, <1>4 DEF Moves

(* What an execution has put in its file is what it reports.               *)
LEMMA OwnWrite ==
  ASSUME Types, HandleOK, Ids, NEW t \in Tasks, Moves(t), out[t].status # "Running",
         file'[JobId[t]] = Nil \/ file'[JobId[t]].rec = out[t]
  PROVE  ~HasRunning(t)'
<1> SUFFICES ASSUME NEW j \in Jobs, file'[j] # Nil, file'[j].rec.task = t,
                    file'[j].rec.status = "Running"
             PROVE  FALSE
  BY DEF HasRunning
<1>1. j # JobId[t] /\ job[t] = JobId[t]
  BY DEF Types, TaskTypeOK
<1>2. t \notin Clients
  BY Kinds DEF Callers
<1>3. file'[j] = file[j]
  BY <1>1, <1>2, FileMoves, Kinds
<1> QED
  BY <1>1, <1>3 DEF Ids

LEMMA OwnLogs ==
  ASSUME Types, HandleOK, Locals, Ids, NEW t \in Tasks, LastLogs(t), Moves(t)
  PROVE  /\ pc'[t] \in {"openw", "trunc", "flushw", "logs"} => ~HasRunning(t)'
         /\ pc'[t] = "flush" /\ ~fd'[t] => ~HasRunning(t)'
         /\ <<t, "logs">> \in stored' => pc'[t] \in Ended /\ ~HasRunning(t)'
<1>0. t \in Procs /\ job[t] = JobId[t] /\ JobId[t] \in Jobs /\ pc[t] # "unborn" /\ out[t] \in Record
  BY Kinds, ExecutionMoves, SubmissionsAssumption DEF Types, TaskTypeOK, Alive
<1>1. pc[t] \in {"openw", "trunc", "flushw", "logs"} \/ (pc[t] = "flush" /\ ~fd[t]) => ~HasRunning(t)'
  BY <1>0, RunningStays DEF LastLogs
<1>2. CASE pc'[t] = "openw"
  <2>1. pc[t] \in {"update", "fail"}
    BY <1>2, ExecutionMoves
  <2>2. Update(t) \/ Fail(t)
    BY <1>0, <1>2, <2>1, WriteMoves
  <2>3. file' = file /\ file[JobId[t]] = Nil
    BY <1>0, <1>2, <2>2 DEF Update, Fail, Goto, Types, LocalTypeOK
  <2>4. ~HasRunning(t)
    BY <2>3, OwnRecord
  <2>5. ~HasRunning(t)'
    BY <1>0, <2>4, RunningStays
  <2> QED
    BY <1>0, <1>2, <2>1, <2>5, StoredMoves DEF LastLogs, Ended
<1>3. CASE pc'[t] = "flush"
  <2>1. pc[t] \in {"check", "flush"}
    BY <1>3, ExecutionMoves
  <2>2. pc[t] = "check" => fd'[t]
    BY <1>0, <1>3, WriteMoves DEF Check, UpdateRaises, Goto, locals, Types, LocalTypeOK
  <2>3. pc[t] = "flush" => fd'[t] = fd[t]
    BY <1>0, <1>3, WriteMoves DEF Flush, FlushPart, locals
  <2> QED
    BY <1>0, <1>1, <1>3, <2>1, <2>2, <2>3, StoredMoves DEF LastLogs, Ended
<1>4. CASE pc'[t] = "trunc"
  <2>1. pc[t] = "flush"
    BY <1>4, ExecutionMoves
  <2>2. Flush(t)
    BY <1>0, <1>4, <2>1, WriteMoves DEF FlushPart
  <2>3. CASE fd[t]
    <3>1. file'[JobId[t]].rec = out[t]
      BY <1>0, <2>2, <2>3 DEF Flush, Dump, Written, WrittenPart, Types, SharedTypeOK
    <3>2. ~HasRunning(t)'
      BY <1>0, <2>1, <3>1, OwnWrite DEF Locals, Executions
    <3> QED
      BY <1>0, <1>4, <2>1, <3>2, StoredMoves DEF LastLogs, Ended
  <2> QED
    BY <1>0, <1>1, <1>4, <2>1, <2>3, StoredMoves DEF LastLogs, Ended
<1>5. CASE pc'[t] \in {"flushw", "logs"}
  <2>1. pc[t] \in {"openw", "trunc", "flushw", "overwrite"}
    BY <1>5, ExecutionMoves
  <2>2. CASE pc[t] = "overwrite"
    <3>1. Overwrite(t) \/ OverwritePart(t)
      BY <1>0, <1>5, <2>2, WriteMoves
    <3>2. file'[JobId[t]] = Nil \/ file'[JobId[t]].rec = out[t]
      BY <1>0, <3>1 DEF Overwrite, OverwritePart, Written, WrittenPart, Types, SharedTypeOK
    <3>3. ~HasRunning(t)'
      BY <1>0, <2>2, <3>2, OwnWrite DEF Locals, Executions
    <3> QED
      BY <1>0, <1>5, <2>2, <3>3, StoredMoves DEF LastLogs, Ended
  <2> QED
    BY <1>0, <1>1, <1>5, <2>1, <2>2, StoredMoves DEF LastLogs, Ended
<1>6. CASE pc'[t] \notin {"openw", "flush", "trunc", "flushw", "logs"}
  <2>1. pc[t] \notin Ended
    BY ExecutionMoves DEF Alive, Ended
  <2>2. <<t, "logs">> \in stored' => pc[t] = "logs" /\ pc'[t] = "done"
    BY <1>0, <2>1, StoredMoves DEF LastLogs
  <2> QED
    BY <1>1, <1>6, <2>2 DEF Ended
<1> QED
  BY <1>2, <1>3, <1>4, <1>5, <1>6

LEMMA OthersLogs ==
  ASSUME Types, HandleOK, Locals, Ids, NEW t \in Tasks, LastLogs(t),
         NEW p \in Procs, Moves(p), p # t
  PROVE  LastLogs(t)'
<1>0. t \in Procs /\ pc'[t] = pc[t] /\ job[t] = JobId[t] /\ JobId[t] \in Jobs
  BY Kinds, MovesAlone, SubmissionsAssumption DEF Alone, Types, TaskTypeOK
<1>1. pc[t] # "unborn" /\ ~HasRunning(t) => ~HasRunning(t)'
  BY RunningStays
<1>2. pc[t] = "flush" /\ ~fd'[t] => ~HasRunning(t)'
  <2>1. CASE fd'[t] = fd[t]
    BY <1>0, <1>1, <2>1 DEF LastLogs
  <2>2. CASE fd'[t] # fd[t]
    <3>1. file' = [file EXCEPT ![JobId[t]] = Nil]
      <4>1. /\ file' = [file EXCEPT ![job[p]] = Nil]
            /\ fd'[t] = (fd[t] /\ job[t] # job[p])
        BY <1>0, <2>2, FileMoves
      <4>2. fd[t] \in BOOLEAN
        BY <1>0 DEF Types, LocalTypeOK
      <4>3. job[t] = job[p]
        BY <2>2, <4>1, <4>2
      <4> QED
        BY <1>0, <4>1, <4>3
    <3>2. file' = [file EXCEPT ![JobId[t]] = Nil] => ~HasRunning(t)'
      BY <1>0 DEF HasRunning, Ids, Types, SharedTypeOK
    <3> QED
      BY <3>1, <3>2
  <2> QED
    BY <2>1, <2>2
<1>3. <<t, "logs">> \in stored' => <<t, "logs">> \in stored
  BY <1>0, StoredMoves
<1> QED
  BY <1>0, <1>1, <1>2, <1>3 DEF LastLogs, Ended

LEMMA LogsStep ==
  ASSUME Types, HandleOK, Locals, Ids, Next, NEW t \in Tasks, LastLogs(t)
  PROVE  LastLogs(t)'
<1>0. t \in Procs
  BY Kinds
<1>1. ASSUME NEW p \in Procs, Moves(p) PROVE LastLogs(t)'
  BY <1>1, OwnLogs, OthersLogs DEF LastLogs
<1>2. ASSUME NEW u \in Tasks, UNCHANGED <<file, fd, stored>>,
             pc'[t] = pc[t] \/ (t = u /\ pc[t] = "unborn" /\ pc'[t] \in {"void", "ready"})
      PROVE  LastLogs(t)'
  <2>1. HasRunning(t)' = HasRunning(t)
    BY <1>2 DEF HasRunning
  <2> QED
    BY <1>2, <2>1 DEF LastLogs, Ended
<1>3. ASSUME NEW c \in Clients, Dispatch(c) PROVE LastLogs(t)'
  <2>1. op[c] = "submit" /\ pc[c] = "dispatch" /\ out[c].task \in Tasks
    BY <1>3, DispatchFrame, Kinds DEF Locals, Cancellations, WithRecord, Callers
  <2>2. pc[out[c].task] = "unborn"
    BY <2>1 DEF Locals, Submissions
  <2>3. UNCHANGED <<file, fd, stored>>
    BY <1>3, DispatchFrame DEF Dispatch, shared
  <2> QED
    BY <1>0, <1>2, <1>3, <2>1, <2>2, <2>3, DispatchFrame, Kinds DEF Callers
<1>4. ASSUME NEW c \in Clients, NEW u \in Tasks, SubmitEmpty(c, u) PROVE LastLogs(t)'
  <2>1. UNCHANGED <<file, fd, stored>>
    BY <1>4 DEF SubmitEmpty, shared
  <2> QED
    BY <1>0, <1>2, <1>4, <2>1, EmptyFrame, Kinds DEF Callers
<1> QED
  BY <1>1, <1>3, <1>4, NextSplit

-----------------------------------------------------------------------------
(* The outcomes.                                                           *)

LEMMA ReportedStep ==
  ASSUME Types, HandleOK, Locals, Reported, Next
  PROVE  Reported'
<1> SUFFICES ASSUME NEW j \in Jobs, NEW t \in Tasks, file'[j] # Nil, file'[j].rec.task = t,
                    file'[j].rec.status \in {"Completed", "Failed"} PROVE HasReported(t)'
  BY DEF Reported
<1>0. t \in Procs /\ \A c \in Clients : c \in Procs /\ c # t /\ c \in Callers
  BY Kinds DEF Callers
<1>r. ASSUME file[j] # Nil, file[j].rec = file'[j].rec PROVE HasReported(t)
  BY <1>r DEF Reported
<1>1. ASSUME NEW p \in Procs, Moves(p) PROVE HasReported(t)'
  <2>1. CASE file[j] # Nil /\ file[j].rec = file'[j].rec
    <3>1. pc'[t] \notin BeforeReport
      <4>1. CASE p = t
        BY <1>1, <1>r, <2>1, <4>1, ExecutionMoves DEF HasReported, BeforeReport
      <4>2. CASE p # t
        BY <1>0, <1>1, <1>r, <2>1, <4>2, MovesAlone DEF HasReported, Alone
      <4> QED
        BY <4>1, <4>2
    <3>2. ASSUME NEW c \in Clients, op'[c] = "submit", out'[c].task = t
          PROVE  pc'[c] \notin {"fail", "overwrite"}
      <4>1. CASE c = p
        BY <1>1, <1>r, <2>1, <3>2, <4>1, SubmitterMoves DEF HasReported
      <4>2. CASE c # p
        BY <1>0, <1>1, <1>r, <2>1, <3>2, <4>2, MovesAlone DEF HasReported, Alone
      <4> QED
        BY <4>1, <4>2
    <3> QED
      BY <3>1, <3>2 DEF HasReported
  <2>2. CASE /\ file'[j].rec = out[p]
             /\ pc[p] \in {"openw", "flush", "trunc", "flushw", "overwrite"}
    <3>1. CASE p \in Tasks
      <4>1. p = t
        BY <2>2, <3>1, WriterKinds
      <4>2. pc'[t] \notin BeforeReport
        BY <1>1, <2>2, <4>1, ExecutionMoves DEF BeforeReport
      <4>3. ASSUME NEW c \in Clients, op'[c] = "submit", out'[c].task = t,
                   pc'[c] \in {"fail", "overwrite"}
            PROVE  FALSE
        <5>1. op[c] = "submit" /\ out[c].task = t /\ pc[c] \in {"fail", "overwrite"}
          BY <1>0, <1>1, <4>1, <4>3, MovesAlone DEF Alone
        <5> QED
          BY <2>2, <4>1, <5>1 DEF Locals, Submissions
      <4> QED
        BY <4>2, <4>3 DEF HasReported
    <3>2. CASE p \notin Tasks
      <4>1. p \in Callers /\ pc[p] \in WithRecord /\ out[p].status \in {"Completed", "Failed"}
        BY <2>2, <3>2, Kinds DEF WithRecord
      <4>2. op[p] = "submit" /\ p \in Clients
        BY <4>1, ProcsAssumption DEF Locals, Cancellations, Types, CallerTypeOK, Callers
      <4>3. pc[t] = "void" /\ \A c \in Clients : op[c] = "submit" /\ out[c].task = t => c = p
        BY <2>2, <4>1, <4>2 DEF Locals, Submissions
      <4>4. pc'[t] = "void"
        BY <1>1, <4>3, BirthMoves
      <4>5. ASSUME NEW c \in Clients, op'[c] = "submit", out'[c].task = t
            PROVE  pc'[c] \notin {"fail", "overwrite"}
        <5>1. c = p
          BY <1>0, <1>1, <4>3, <4>5, MovesAlone DEF Alone
        <5> QED
          BY <1>1, <2>2, <4>5, <5>1, SubmitterMoves
      <4> QED
        BY <4>4, <4>5 DEF HasReported, BeforeReport
    <3> QED
      BY <3>1, <3>2
  <2> QED
    BY <1>1, <2>1, <2>2, FileMoves DEF Types, SharedTypeOK
<1>2. ASSUME NEW d \in Clients, NEW u \in Tasks, file' = file, pc[u] = "unborn",
             \A q \in Procs : q # d => op'[q] = op[q] /\ job'[q] = job[q] /\ out'[q] = out[q],
             \A q \in Procs : q # d /\ q # u => pc'[q] = pc[q],
             op'[d] = "submit" => out'[d].task = u PROVE HasReported(t)'
  <2>1. t # u
    BY <1>2, <1>r DEF HasReported, BeforeReport
  <2>2. pc'[t] = pc[t] /\ \A c \in Clients : c # d => /\ pc'[c] = pc[c] /\ op'[c] = op[c]
                                                      /\ out'[c] = out[c]
    BY <1>0, <1>2, <2>1, Kinds
  <2> QED
    BY <1>2, <1>r, <2>1, <2>2 DEF HasReported
<1>3. ASSUME NEW d \in Clients, Dispatch(d) PROVE HasReported(t)'
  <2>1. op[d] = "submit" /\ pc[d] = "dispatch" /\ out[d].task \in Tasks
    BY <1>3, DispatchFrame, Kinds DEF Locals, Cancellations, WithRecord, Callers
  <2>2. pc[out[d].task] = "unborn"
    BY <2>1 DEF Locals, Submissions
  <2> QED
    BY <1>2, <1>3, <2>1, <2>2, DispatchFrame
<1>4. ASSUME NEW d \in Clients, NEW u \in Tasks, SubmitEmpty(d, u) PROVE HasReported(t)'
  <2>1. out'[d].task = u
    BY <1>4, EmptyFrame
  <2> QED
    BY <1>2, <1>4, <2>1, EmptyFrame
<1> QED
  BY <1>1, <1>3, <1>4, NextSplit

-----------------------------------------------------------------------------
(* The invariant.                                                          *)

LEMMA LocalsStep ==
  ASSUME Types, Locals, Next
  PROVE  Locals'
  BY SubmissionsStep, CancellationsStep, ExecutionsStep DEF Locals

LEMMA InitWriterInv == Init => WriterInv
<1> SUFFICES ASSUME Init PROVE WriterInv
  OBVIOUS
<1>1. /\ \A p \in Procs : pc[p] = IF p \in Tasks THEN "unborn" ELSE "idle"
      /\ \A p \in Procs : op[p] # "submit"
      /\ \A j \in Jobs : file[j] = Nil
      /\ stored = {}
  BY DEF Init
<1>0. /\ \A c \in Clients : c \in Procs
      /\ \A t \in Tasks : t \in Procs /\ pc[t] = "unborn"
      /\ \A p \in Callers : p \in Procs /\ pc[p] = "idle"
  BY <1>1, ProcsAssumption DEF Callers, Procs
<1>2. Ids /\ AllPlain
  BY <1>0, <1>1 DEF Ids, AllPlain, WithRecord
<1>3. Locals
  <2>1. Submissions
    BY <1>0, <1>1 DEF Submissions
  <2>2. Cancellations
    BY <1>0 DEF Cancellations, WithRecord
  <2>3. Executions
    BY <1>0 DEF Executions
  <2> QED
    BY <2>1, <2>2, <2>3 DEF Locals
<1>4. Logs /\ Reported
  BY <1>0, <1>1 DEF Logs, LastLogs, HasRunning, Reported
<1> QED
  BY <1>2, <1>3, <1>4 DEF WriterInv

LEMMA StepWriterInv ==
  ASSUME TypeOK, WriterInv, [Next]_vars
  PROVE  WriterInv'
<1>1. CASE Next
  BY <1>1, IdsStep, LocalsStep, AllPlainStep, LogsStep, ReportedStep DEF WriterInv, Logs, TypeOK
<1>2. CASE UNCHANGED vars
  <2>1. UNCHANGED <<file, stored, pc, op, job, out, fd>>
    BY <1>2 DEF vars, shared
  <2>2. Ids' /\ AllPlain'
    BY <2>1 DEF WriterInv, Ids, AllPlain
  <2>3. Locals'
    BY <2>1 DEF WriterInv, Locals, Submissions, Cancellations, Executions
  <2>4. Logs' /\ Reported'
    BY <2>1 DEF WriterInv, Logs, LastLogs, HasRunning, Reported, HasReported
  <2> QED
    BY <2>2, <2>3, <2>4 DEF WriterInv
<1> QED
  BY <1>1, <1>2

LEMMA WriterInvariant == Spec => []WriterInv
<1>1. TypeOK /\ WriterInv /\ [Next]_vars => WriterInv'
  BY StepWriterInv
<1> QED
  BY <1>1, InitWriterInv, TypeCorrect, PTL DEF Spec

LEMMA InvLogs == Types /\ Logs => LogsFollowOutcome
<1> SUFFICES ASSUME Types, Logs, NEW j \in Jobs, file[j] # Nil, file[j].rec.status = "Running"
             PROVE  <<file[j].rec.task, "logs">> \notin stored
  BY DEF LogsFollowOutcome
<1>1. file[j].rec.task \in Tasks
  BY DEF Types, SharedTypeOK, File, Record
<1>2. HasRunning(file[j].rec.task)
  BY DEF HasRunning
<1> QED
  BY <1>1, <1>2 DEF Logs, LastLogs

(* The logs of a job are stored after its record says how it ended, with   *)
(* threads and with worker processes, whatever was cancelled, deleted or   *)
(* submitted again under the same id: an execution whose record was taken  *)
(* over by another one never stores logs beside a Running record of its    *)
(* own (the finally clauses of execute_samplerV2 and execute_estimatorV2). *)
THEOREM LogsComeLast == Spec => []LogsFollowOutcome
<1>1. TypeOK /\ WriterInv => LogsFollowOutcome
  BY InvLogs DEF WriterInv, TypeOK
<1> QED
  BY <1>1, WriterInvariant, TypeCorrect, PTL
=============================================================================
