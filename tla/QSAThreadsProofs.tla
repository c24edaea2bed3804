-------------------------- MODULE QSAThreadsProofs --------------------------
(***************************************************************************)
(* What the lock gives to a service used as a library: one instance, whose *)
(* executions are threads that share its _status_lock, for every number of *)
(* callers, submissions and ids, and whatever ids are used again.          *)
(***************************************************************************)
EXTENDS QSAWritersProofs

(* The service as a library: one instance, and threads.                    *)
OneLock == ~MultiProcess /\ Services = {Main}

-----------------------------------------------------------------------------
(* What the invariant says.                                                *)

(* The process inside a "with self._status_lock" block holds the lock.     *)
Mutex == \A p \in Procs : pc[p] \in Critical => lock[Main] = p

(* Nobody else creates the file that the holder of the lock found missing, *)
(* or writes to the one it writes to.                                      *)
Handles ==
    \A p \in Procs :
        /\ pc[p] = "openw" => file[job[p]] = Nil
        /\ pc[p] \in {"flush", "trunc", "flushw"} /\ ~fd[p] => file[job[p]] = Nil
        /\ pc[p] = "trunc" /\ fd[p] => file[job[p]].rec = out[p]

(* close() is alone: no call is under way, and no thread once it has       *)
(* waited for them.                                                        *)
Quiet ==
    /\ pc[Main] # "idle" => \A c \in Clients : pc[c] = "idle"
    /\ pc[Main] \notin {"idle", "shutdown"} => \A t \in Tasks : ~Alive(t)

(* A record that says Running has an execution that has not ended, or is   *)
(* still being submitted.                                                  *)
Executing == {"ready", "put", "update", "check", "flush", "trunc", "openw", "flushw",
         "fail", "overwrite"}
Underway(t) ==
    \/ pc[t] \in Executing
    \/ \E c \in Clients : /\ op[c] = "submit" /\ out[c].task = t
                          /\ pc[c] \in {"flushw", "dispatch", "fail", "overwrite"}
RunningBy ==
    \A j \in Jobs : file[j] # Nil /\ file[j].rec.status = "Running" => Underway(file[j].rec.task)

ThreadInv == Mutex /\ Handles /\ Quiet /\ RunningBy

-----------------------------------------------------------------------------
(* Only who waits takes the lock, and only who is in the block gives it    *)
(* back.                                                                   *)
LEMMA OneGate ==
  ASSUME OneLock
  PROVE  \A p \in Procs : Gate(p) = Main
  BY ProcsAssumption DEF OneLock, Gate, Procs

LEMMA LockStep ==
  ASSUME OneLock, Types, Mutex, NEW p \in Procs, Moves(p)
  PROVE  /\ pc'[p] \in Critical => lock'[Main] = p
         /\ lock'[Main] = lock[Main] \/ lock[Main] \in {Nil, p}
<1> USE OneGate
<1>0. Main \in Locks /\ lock \in [Locks -> Procs \cup {Nil}]
      /\ (pc[p] \in Critical => lock[Main] = p)
  BY ProcsAssumption DEF Locks, Types, SharedTypeOK, Mutex
<1>1. CASE p \in Callers /\ Serve(p)
  BY <1>0, <1>1 DEF Serve, List, Scan, Open, Listed, Read, Load, Kill, Return, Goto, locals,
       shared, Acquire, LockFree, Release, Critical, Types, LocalTypeOK
<1>2. CASE Write(p)
  BY <1>0, <1>2 DEF Write, Update, Check, Flush, Truncate, OpenW, FlushW, FlushPart, Fail,
       Overwrite, OverwritePart, UpdateReturns, UpdateRaises, Return, Goto, locals,
       shared, Acquire, Release, Critical, Types, LocalTypeOK
<1>3. CASE p \in Clients /\ ClientMoves(p)
  BY <1>0, <1>3 DEF ClientMoves, GetJobs, UseJob, Submit, Refuse, Begin, Reap, Remove, Create,
       Register, Return, Goto, locals, shared, Acquire, LockFree, Critical, Types, LocalTypeOK
<1>4. CASE p \in Tasks /\ TaskMoves(p)
  BY <1>0, <1>4 DEF OneLock, TaskMoves, Run, PutResults, PutLogs, End, Goto, locals, shared, Critical,
       Types, LocalTypeOK
<1>5. CASE p \in Services /\ CloseMoves(p)
  BY <1>0, <1>5 DEF CloseMoves, StartClose, Shutdown, CancelNext, Goto, locals, shared, Critical,
       Types, LocalTypeOK
<1>6. CASE p \in Callers /\ Inactive(p)
  BY <1>0, <1>6 DEF Inactive, Critical, shared
<1> QED
  BY <1>1, <1>2, <1>3, <1>4, <1>5, <1>6 DEF Moves

LEMMA MutexStep ==
  ASSUME OneLock, Types, Locals, Mutex, Next
  PROVE  Mutex'
<1>1. ASSUME NEW p \in Procs, Moves(p) PROVE Mutex'
  BY <1>1, LockStep, MovesAlone, Kinds DEF Mutex, Alone
<1>2. ASSUME NEW c \in Clients, Dispatch(c) PROVE Mutex'
  BY <1>2, DispatchFrame DEF Mutex, Critical
<1>3. ASSUME NEW c \in Clients, NEW t \in Tasks, SubmitEmpty(c, t) PROVE Mutex'
  BY <1>3, EmptyFrame DEF Mutex, Critical
<1> QED
  BY <1>1, <1>2, <1>3, NextSplit

-----------------------------------------------------------------------------
(* close() is alone.                                                       *)

LEMMA QuietStep ==
  ASSUME OneLock, Types, Locals, Quiet, Next
  PROVE  Quiet'
<1>a. /\ Main \in Services /\ Main \in Procs /\ Main \in Callers /\ Main \notin Tasks
      /\ \A c \in Clients : c \in Procs /\ c \in Callers /\ c # Main /\ c \notin Tasks /\ Home[c] = Main
      /\ \A t \in Tasks : t \in Procs /\ t # Main /\ t \notin Callers /\ t \notin Clients
  BY ProcsAssumption DEF OneLock, Procs, Callers
<1>1. ASSUME NEW c \in Clients, Moves(c) PROVE Quiet'
  <2>1. pc'[Main] = pc[Main] /\ \A q \in Procs : q # c => pc'[q] = pc[q]
    BY <1>1, <1>a, MovesAlone DEF Alone
  <2>2. pc[c] = "idle" /\ pc[Main] # "idle" => pc'[c] = "idle"
    <3> SUFFICES ASSUME pc[c] = "idle", pc[Main] # "idle" PROVE pc'[c] = "idle"
      OBVIOUS
    <3>1. Inactive(c) \/ Serve(c) \/ Write(c) \/ ClientMoves(c)
      BY <1>1, <1>a, ProcsAssumption DEF Moves
    <3>2. ~Serve(c) /\ ~Write(c) /\ ~ClientMoves(c)
      BY <1>a DEF Serve, List, Scan, Open, Listed, Read, Load, Kill, Write, Update, Check, Flush,
         Truncate, OpenW, FlushW, FlushPart, Fail, Overwrite, OverwritePart, ClientMoves,
         GetJobs, UseJob, Submit, Refuse, Ready, Reap, Remove, Create, Register
    <3> QED
      BY <3>1, <3>2 DEF Inactive
  <2> QED
    BY <1>a, <2>1, <2>2 DEF Quiet, Alive
<1>2. ASSUME NEW t \in Tasks, Moves(t) PROVE Quiet'
  <2>1. pc'[Main] = pc[Main] /\ \A q \in Procs : q # t => pc'[q] = pc[q]
    BY <1>2, <1>a, MovesAlone DEF Alone
  <2>2. Alive(t)
    BY <1>2, ExecutionMoves DEF Alive, Ended
  <2> QED
    BY <1>a, <2>1, <2>2 DEF Quiet, Alive
<1>3. ASSUME NEW s \in Services, Moves(s) PROVE Quiet'
  <2>0. s = Main
    BY DEF OneLock
  <2>1. \A q \in Procs : q # Main => pc'[q] = pc[q]
    BY <1>3, <2>0, <1>a, MovesAlone DEF Alone
  <2>2. CASE StartClose(Main)
    BY <1>a, <2>1, <2>2 DEF StartClose, Goto, Quiet, Alive, Types, LocalTypeOK
  <2>3. CASE Shutdown(Main)
    BY <1>a, <2>1, <2>3 DEF OneLock, Shutdown, Goto, Quiet, Alive, Types, LocalTypeOK
  <2>4. CASE Inactive(Main)
    BY <1>a, <2>4 DEF Inactive, Quiet, Alive
  <2>5. CASE Serve(Main) \/ Write(Main) \/ CancelNext(Main)
    <3>1. pc[Main] \notin {"idle", "shutdown"}
      BY <2>5 DEF Serve, List, Scan, Open, Listed, Read, Load, Kill, Write, Update, Check, Flush,
         Truncate, OpenW, FlushW, FlushPart, Fail, Overwrite, OverwritePart, CancelNext
    <3> QED
      BY <1>a, <2>1, <3>1 DEF Quiet, Alive
  <2> QED
    BY <1>3, <1>a, <2>0, <2>2, <2>3, <2>4, <2>5 DEF Moves, CloseMoves, OneLock
<1>4. ASSUME NEW c \in Clients, Dispatch(c) PROVE Quiet'
  BY <1>4, <1>a, DispatchFrame DEF Quiet
<1>5. ASSUME NEW c \in Clients, NEW t \in Tasks, SubmitEmpty(c, t) PROVE Quiet'
  BY <1>5, <1>a, EmptyFrame DEF Quiet
<1> QED
  BY <1>1, <1>2, <1>3, <1>4, <1>5, NextSplit, Kinds DEF Callers

-----------------------------------------------------------------------------
(* What the processes do to the files.                                     *)

(* The handle of the process that moves.                                   *)
LEMMA OwnHandles ==
  ASSUME OneLock, Types, HandleOK, Locals, Handles, NEW p \in Procs, Moves(p)
  PROVE  /\ pc'[p] = "openw" => file'[job'[p]] = Nil
         /\ pc'[p] \in {"flush", "trunc", "flushw"} /\ ~fd'[p] => file'[job'[p]] = Nil
         /\ pc'[p] = "trunc" /\ fd'[p] => file'[job'[p]].rec = out'[p]
<1>0. /\ pc[p] \in {"flush", "flushw"} /\ ~fd[p] => file[job[p]] = Nil
      /\ fd[p] => file[job[p]] # Nil
  BY DEF Handles, HandleOK
<1>1. CASE Write(p)
  <2>1. CASE UpdateReturns(p) \/ UpdateRaises(p)
    BY <2>1, UpdateEnds, Kinds
  <2>2. CASE Update(p) \/ Fail(p)
    BY <2>2 DEF Update, Fail, Goto, Types, LocalTypeOK
  <2>3. CASE Check(p) /\ ~UpdateRaises(p)
    BY <2>3 DEF Check, Goto, Types, LocalTypeOK
  <2>4. CASE OpenW(p)
    BY <2>4 DEF OpenW, Goto, Types, LocalTypeOK
  <2>5. CASE OverwritePart(p)
    BY <2>5 DEF OverwritePart, Goto, Types, LocalTypeOK
  <2>6. CASE Flush(p) \/ FlushPart(p)
    <3>1. /\ pc[p] \in {"flush", "flushw"} /\ fd' = fd /\ job' = job /\ out' = out
          /\ pc'[p] \in {"flush", "trunc", "flushw"}
      BY <2>6 DEF Flush, FlushPart, Goto, locals, Types, LocalTypeOK
    <3>2. job[p] \in Jobs
      BY <3>1, WriterKinds
    <3>3. CASE ~fd[p]
      BY <1>0, <2>6, <3>1, <3>2, <3>3 DEF Flush, FlushPart, Dump, Types, SharedTypeOK
    <3>4. CASE fd[p]
      <4>1. pc'[p] = "trunc" => Flush(p)
        BY <2>6, <3>1 DEF FlushPart
      <4>2. Flush(p) => file'[job[p]].rec = out[p]
        BY <3>2, <3>4 DEF Flush, Dump, Written, WrittenPart, Types, SharedTypeOK
      <4> QED
        BY <3>1, <3>4, <4>1, <4>2
    <3> QED
      BY <3>3, <3>4
  <2> QED
    BY <1>1, <2>1, <2>2, <2>3, <2>4, <2>5, <2>6 DEF Write, Check, Truncate, FlushW, Overwrite
<1>2. CASE p \in Clients /\ ClientMoves(p)
  <2>1. CASE Create(p) /\ Goto(p, "openw") /\ UNCHANGED locals
    <3>1. pc'[p] = "openw" /\ job' = job /\ file' = file
      BY <2>1 DEF Create, Goto, locals, Types, LocalTypeOK
    <3>2. file[job[p]] = Nil
      <4>1. ~Return(p, "DuplicateJobError")
        BY <1>2, <3>1 DEF Return, Types, LocalTypeOK
      <4> QED
        BY <2>1, <4>1 DEF Create
    <3> QED
      BY <3>1, <3>2
  <2>2. CASE ~(Create(p) /\ Goto(p, "openw") /\ UNCHANGED locals)
    <3>1. pc'[p] \notin {"openw", "flush", "trunc", "flushw"}
      BY <1>2, <2>2 DEF ClientMoves, GetJobs, UseJob, Submit, Refuse, Ready, Begin, Reap, Remove,
         Create, Register, Return, Goto, Types, LocalTypeOK
    <3> QED
      BY <3>1
  <2> QED
    BY <2>1, <2>2
<1>3. CASE (p \in Callers /\ (Serve(p) \/ Inactive(p))) \/ (p \in Tasks /\ TaskMoves(p))
           \/ (p \in Services /\ CloseMoves(p))
  <2> pc'[p] \notin {"openw", "flush", "trunc", "flushw"}
    BY <1>3, Kinds
       DEF Serve, Inactive, List, Scan, Open, Listed, Read, Load, Kill, Return, TaskMoves, Run,
           PutResults, PutLogs, End, CloseMoves, StartClose, Shutdown, CancelNext, Goto, locals,
           Types, LocalTypeOK
  <2> QED
    OBVIOUS
<1> QED
  BY <1>1, <1>2, <1>3 DEF Moves

LEMMA HandlesStep ==
  ASSUME OneLock, Types, HandleOK, Locals, Mutex, Handles, Next
  PROVE  Handles'
<1>1. ASSUME NEW p \in Procs, Moves(p) PROVE Handles'
  <2> SUFFICES ASSUME NEW q \in Procs PROVE Handles!(q)'
    BY DEF Handles
  <2>1. CASE q = p
    BY <1>1, <2>1, OwnHandles
  <2>2. CASE q # p
    <3>1. pc'[q] = pc[q] /\ job'[q] = job[q] /\ out'[q] = out[q]
      BY <1>1, <2>2, MovesAlone DEF Alone
    <3>2. CASE pc[q] \notin {"openw", "flush", "trunc", "flushw"}
      BY <3>1, <3>2
    <3>3. CASE pc[q] \in {"openw", "flush", "trunc", "flushw"}
      <4>1. job[q] \in Jobs /\ pc[q] \in Critical
        BY <3>3, WriterKinds
      <4>2. pc[p] \notin Critical
        BY <2>2, <4>1 DEF Mutex
      <4>3. \/ file' = file /\ fd'[q] = fd[q]
            \/ /\ file' = [file EXCEPT ![job[p]] = Nil]
               /\ fd'[q] = (fd[q] /\ job[q] # job[p])
        BY <1>1, <2>2, <4>2, FileMoves, WriterKinds
      <4>4. Handles!(q)
        BY DEF Handles
      <4>5. CASE file' = file /\ fd'[q] = fd[q]
        BY <3>1, <4>4, <4>5
      <4>6. CASE /\ file' = [file EXCEPT ![job[p]] = Nil]
                 /\ fd'[q] = (fd[q] /\ job[q] # job[p])
        BY <3>1, <4>1, <4>4, <4>6 DEF Types, SharedTypeOK
      <4> QED
        BY <4>3, <4>5, <4>6
    <3> QED
      BY <3>2, <3>3
  <2> QED
    BY <2>1, <2>2
<1>2. ASSUME NEW c \in Clients, Dispatch(c) PROVE Handles'
  <2> SUFFICES ASSUME NEW q \in Procs PROVE Handles!(q)'
    BY DEF Handles
  <2>1. CASE q = c \/ q = out[c].task
    BY <1>2, <2>1, DispatchFrame
  <2>2. CASE q # c /\ q # out[c].task
    BY <1>2, <2>2, DispatchFrame DEF Handles
  <2> QED
    BY <2>1, <2>2
<1>3. ASSUME NEW c \in Clients, NEW t \in Tasks, SubmitEmpty(c, t) PROVE Handles'
  <2> SUFFICES ASSUME NEW q \in Procs PROVE Handles!(q)'
    BY DEF Handles
  <2>1. CASE q = c \/ q = t
    BY <1>3, <2>1, EmptyFrame
  <2>2. CASE q # c /\ q # t
    BY <1>3, <2>2, EmptyFrame DEF Handles
  <2> QED
    BY <2>1, <2>2
<1> QED
  BY <1>1, <1>2, <1>3, NextSplit

-----------------------------------------------------------------------------
(* Who is about to end a job.                                              *)

(* The last write of a record is in the file, unless it was removed.       *)
LEMMA WritingEnds ==
  ASSUME OneLock, Types, HandleOK, Handles, NEW p \in Procs, Moves(p),
         pc[p] \in {"trunc", "flushw", "overwrite"}, pc'[p] # "flushw"
  PROVE  file'[job[p]] = Nil \/ file'[job[p]].rec = out[p]
<1>1. Truncate(p) \/ FlushW(p) \/ Overwrite(p)
  <2>1. Write(p)
    BY Kinds DEF Moves, Serve, List, Scan, Open, Listed, Read, Load, Kill, Inactive, ClientMoves,
       GetJobs, UseJob, Submit, Refuse, Ready, Reap, Remove, Create, Register,
       OneLock, TaskMoves, Run, PutResults, PutLogs, End, CloseMoves, StartClose, Shutdown, CancelNext
  <2> QED
    BY <2>1 DEF Write, Update, Check, Flush, OpenW, FlushPart, Fail, OverwritePart, Goto,
                Types, LocalTypeOK
<1>2. job[p] \in Jobs
  BY WriterKinds
<1>3. CASE Truncate(p)
  <2>1. /\ fd[p] => file[job[p]] \in File /\ file[job[p]].rec = out[p]
        /\ ~fd[p] => file[job[p]] = Nil
        /\ pc[p] = "trunc"
    BY <1>2, <1>3 DEF Truncate, Handles, HandleOK, Types, SharedTypeOK
  <2>2. file' = [file EXCEPT ![job[p]] = IF fd[p] THEN Truncated(@, Size(out[p])) ELSE @]
    BY <1>3 DEF Truncate
  <2>3. fd[p] => Truncated(file[job[p]], Size(out[p])).rec = out[p]
    BY <2>1 DEF Truncated, File
  <2> QED
    BY <1>2, <2>1, <2>2, <2>3 DEF Types, SharedTypeOK
<1>4. CASE FlushW(p)
  <2>1. ~fd[p] => file[job[p]] = Nil
    BY <1>4 DEF FlushW, Handles
  <2> QED
    BY <1>2, <1>4, <2>1 DEF FlushW, Dump, Written, WrittenPart, Types, SharedTypeOK
<1>5. CASE Overwrite(p)
  BY <1>2, <1>5 DEF Overwrite, Written, Types, SharedTypeOK
<1> QED
  BY <1>1, <1>3, <1>4, <1>5

(* A submission ends with its Failed record written.                       *)
LEMMA SubmissionEnds ==
  ASSUME OneLock, Types, Locals, NEW p \in Clients, Moves(p), op[p] = "submit",
         pc[p] \in {"flushw", "dispatch", "fail", "overwrite"}, op'[p] # "submit"
  PROVE  /\ pc[p] \in {"flushw", "overwrite"} /\ pc'[p] # "flushw"
         /\ out[p].status # "Running"
<1>0. p \in Callers /\ p \in Procs /\ p \notin Tasks /\ p \notin Services
  BY ProcsAssumption DEF Callers, Procs
<1>1. Write(p)
  BY <1>0 DEF Moves, Serve, List, Scan, Open, Listed, Read, Load, Kill, Inactive, ClientMoves,
     GetJobs, UseJob, Submit, Refuse, Ready, Reap, Remove, Create, Register
<1>2. FlushW(p) \/ Overwrite(p)
  BY <1>0, <1>1 DEF Write, Update, Check, Flush, Truncate, OpenW, FlushPart, Fail, OverwritePart,
     locals, Types, LocalTypeOK
<1>3. UpdateReturns(p) \/ UpdateRaises(p)
  BY <1>2 DEF FlushW, Overwrite
<1>4. pc'[p] # "flushw"
  BY <1>0, <1>3, UpdateEnds
<1>5. CASE FlushW(p)
  BY <1>0, <1>4, <1>5 DEF FlushW, UpdateReturns
<1>6. CASE Overwrite(p)
  BY <1>0, <1>4, <1>6 DEF Overwrite, Locals, Submissions
<1> QED
  BY <1>2, <1>5, <1>6

(* Whoever ends a job leaves no record of it that says Running.            *)
LEMMA UnderwayStep ==
  ASSUME OneLock, Types, HandleOK, Locals, Handles, Ids, Quiet, NEW p \in Procs, Moves(p),
         NEW j \in Jobs, NEW t \in Tasks, file[j] # Nil, file[j].rec.task = t, Underway(t),
         file'[j] = file[j] \/ (file'[j] # Nil /\ file'[j].rec = file[j].rec),
         file[j].rec.status = "Running"
  PROVE  Underway(t)'
<1>0. t \in Procs /\ JobId[t] = j
  BY Kinds DEF Ids
<1>1. file'[j] # Nil /\ file'[j].rec.status = "Running" /\ file'[j].rec.task = t
  OBVIOUS
<1>2. ASSUME pc[p] \in {"trunc", "flushw", "overwrite"}, pc'[p] # "flushw",
             out[p].status # "Running", job[p] = j
      PROVE  FALSE
  BY <1>1, <1>2, WritingEnds
<1>3. CASE pc[t] \in Executing
  <2>1. CASE p # t
    BY <1>0, <1>3, <2>1, MovesAlone DEF Alone, Underway
  <2>2. CASE p = t
    <3>1. job[p] = j
      BY <1>0, <2>2 DEF Types, TaskTypeOK
    <3>2. pc[Main] # "closed"
      BY <1>0, <1>3 DEF Quiet, Alive, Ended, Executing
    <3>3. pc'[t] = "logs" => pc[t] \in {"trunc", "flushw", "overwrite"} /\ out[t].status # "Running"
      BY <1>0, <2>2, ExecutionMoves DEF Locals, Executions
    <3>4. pc'[t] \in Executing \cup {"logs"}
      BY <1>0, <1>3, <2>2, <3>2, ExecutionMoves DEF OneLock, Executing
    <3> QED
      BY <1>2, <2>2, <3>1, <3>3, <3>4 DEF Underway
  <2> QED
    BY <2>1, <2>2
<1>4. ASSUME NEW c \in Clients, op[c] = "submit", out[c].task = t,
             pc[c] \in {"flushw", "dispatch", "fail", "overwrite"}
      PROVE  Underway(t)'
  <2>1. c \in Procs /\ c \in Callers
    BY DEF Procs, Callers
  <2>2. job[c] = j
    BY <1>0, <1>4, <2>1 DEF Ids, WithRecord
  <2>3. CASE p # c
    <3>1. op'[c] = "submit" /\ out'[c].task = t
          /\ pc'[c] \in {"flushw", "dispatch", "fail", "overwrite"}
      BY <1>4, <2>1, <2>3, MovesAlone DEF Alone
    <3> QED
      BY <3>1 DEF Underway
  <2>4. CASE p = c /\ op'[c] = "submit"
    <3>1. out'[c].task = t /\ pc'[c] \in {"flushw", "dispatch", "overwrite", "openw"}
          /\ job'[c] = job[c]
      BY <1>4, <2>4, SubmitterMoves DEF Submit, Ready
    <3>2. pc'[c] # "openw"
      BY <1>1, <2>2, <2>4, <3>1, OwnHandles
    <3> QED
      BY <2>4, <3>1, <3>2 DEF Underway
  <2>5. CASE p = c /\ op'[c] # "submit"
    BY <1>2, <1>4, <2>2, <2>5, SubmissionEnds
  <2> QED
    BY <2>3, <2>4, <2>5
<1> QED
  BY <1>3, <1>4 DEF Underway

(* Nor does accepting an execution, or refusing an empty program.          *)
LEMMA DispatchedUnderway ==
  ASSUME OneLock, Types, Locals, NEW c \in Clients, Dispatch(c), NEW t \in Tasks, Underway(t)
  PROVE  Underway(t)'
<1>1. c \in Procs /\ t \in Procs /\ t # c /\ c \in Callers
  BY Kinds DEF Callers
<1>2. op[c] = "submit" /\ out[c].status = "Running" /\ pc[out[c].task] = "unborn"
  BY <1>1, DispatchFrame DEF Locals, Submissions, Cancellations, WithRecord, Callers
<1>3. CASE pc[t] \in Executing
  BY <1>1, <1>2, <1>3, DispatchFrame DEF Underway, Executing
<1>4. ASSUME NEW d \in Clients, op[d] = "submit", out[d].task = t,
             pc[d] \in {"flushw", "dispatch", "fail", "overwrite"}
      PROVE  Underway(t)'
  <2>1. CASE d = c
    BY <1>1, <1>2, <1>4, <2>1, DispatchFrame DEF Underway, Executing
  <2>2. CASE d # c
    <3>1. d \in Procs /\ d # out[c].task
      BY DispatchFrame, Kinds DEF Callers
    <3>2. op'[d] = "submit" /\ out'[d].task = t
          /\ pc'[d] \in {"flushw", "dispatch", "fail", "overwrite"}
      BY <1>4, <2>2, <3>1, DispatchFrame
    <3> QED
      BY <3>2 DEF Underway
  <2> QED
    BY <2>1, <2>2
<1> QED
  BY <1>3, <1>4 DEF Underway

LEMMA EmptyUnderway ==
  ASSUME OneLock, Types, NEW c \in Clients, NEW e \in Tasks, SubmitEmpty(c, e),
         NEW t \in Tasks, Underway(t)
  PROVE  Underway(t)'
<1>1. t \in Procs /\ t # c /\ pc[e] = "unborn" /\ op[c] = "none"
  BY EmptyFrame, Kinds DEF Callers
<1>2. CASE pc[t] \in Executing
  BY <1>1, <1>2, EmptyFrame DEF Underway, Executing
<1>3. ASSUME NEW d \in Clients, op[d] = "submit", out[d].task = t,
             pc[d] \in {"flushw", "dispatch", "fail", "overwrite"}
      PROVE  Underway(t)'
  <2>1. d \in Procs /\ d # c /\ d # e
    BY <1>1, <1>3, Kinds DEF Callers
  <2>2. op'[d] = "submit" /\ out'[d].task = t
        /\ pc'[d] \in {"flushw", "dispatch", "fail", "overwrite"}
    BY <1>3, <2>1, EmptyFrame
  <2> QED
    BY <2>2 DEF Underway
<1> QED
  BY <1>2, <1>3 DEF Underway

(* The record of a submission is written while it is under way.            *)
LEMMA SubmitterUnderway ==
  ASSUME OneLock, Types, Locals, NEW p \in Procs, Moves(p), NEW t \in Tasks,
         pc[p] \in {"openw", "flush", "trunc", "flushw", "overwrite"},
         out[p].status = "Running", out[p].task = t
  PROVE  Underway(t)'
<1>1. p \in Clients /\ op[p] = "submit" /\ pc[p] \in {"openw", "flushw"}
  BY RunningWriter
<1>2. op'[p] = "submit"
  <2>1. CASE pc[p] = "flushw"
    BY <1>1, <2>1, SubmissionEnds
  <2>2. CASE pc[p] = "openw"
    <3>1. p \in Callers /\ p \notin Tasks /\ p \notin Services
      BY <1>1, ProcsAssumption DEF Callers
    <3>2. OpenW(p)
      BY <2>2, <3>1 DEF Moves, Serve, List, Scan, Open, Listed, Read, Load, Kill, Inactive,
         ClientMoves, GetJobs, UseJob, Submit, Refuse, Ready, Reap, Remove, Create, Register, Write, Update,
         Check, Flush, Truncate, FlushW, FlushPart, Fail, Overwrite, OverwritePart
    <3> QED
      BY <1>1, <3>2 DEF OpenW
  <2> QED
    BY <1>1, <2>1, <2>2
<1>3. /\ pc'[p] \in {"flushw", "dispatch"} /\ out'[p].task = t
  BY <1>1, <1>2, SubmitterMoves DEF Submit, Ready
<1> QED
  BY <1>1, <1>2, <1>3 DEF Underway

LEMMA RunningByStep ==
  ASSUME OneLock, Types, HandleOK, Locals, Handles, Ids, Quiet, RunningBy, Next
  PROVE  RunningBy'
<1> SUFFICES ASSUME NEW j \in Jobs, file'[j] # Nil, file'[j].rec.status = "Running",
                    NEW t \in Tasks, file'[j].rec.task = t
             PROVE  Underway(t)'
  <2>1. Types'
    BY NextTypes DEF OneLock
  <2>2. \A j \in Jobs : file'[j] # Nil => file'[j].rec.task \in Tasks
    BY <2>1 DEF Types, SharedTypeOK, File, Record
  <2> QED
    BY <2>2 DEF RunningBy
<1>0. file[j] # Nil /\ file[j].rec = file'[j].rec => Underway(t)
  BY DEF RunningBy
<1>1. ASSUME NEW p \in Procs, Moves(p) PROVE Underway(t)'
  <2>1. CASE file'[j] = file[j] \/ (file[j] # Nil /\ file'[j].rec = file[j].rec)
    BY <1>0, <1>1, <2>1, UnderwayStep
  <2>2. CASE ~(file'[j] = file[j] \/ (file[j] # Nil /\ file'[j].rec = file[j].rec))
    <3>1. /\ pc[p] \in {"openw", "flush", "trunc", "flushw", "overwrite"} /\ j = job[p]
          /\ file'[j].rec = out[p]
      BY <1>1, <2>2, FileMoves DEF Types, SharedTypeOK
    <3> QED
      BY <1>1, <3>1, SubmitterUnderway
  <2> QED
    BY <2>1, <2>2
<1>2. ASSUME NEW c \in Clients, Dispatch(c) PROVE Underway(t)'
  BY <1>0, <1>2, DispatchFrame, DispatchedUnderway
<1>3. ASSUME NEW c \in Clients, NEW e \in Tasks, SubmitEmpty(c, e) PROVE Underway(t)'
  BY <1>0, <1>3, EmptyFrame, EmptyUnderway
<1> QED
  BY <1>1, <1>2, <1>3, NextSplit

-----------------------------------------------------------------------------
(* The invariant.                                                          *)

LEMMA InitThreadInv == Init => ThreadInv
<1> SUFFICES ASSUME Init PROVE ThreadInv
  OBVIOUS
<1>1. /\ \A p \in Procs : pc[p] = IF p \in Tasks THEN "unborn" ELSE "idle"
      /\ \A p \in Procs : op[p] # "submit"
      /\ \A j \in Jobs : file[j] = Nil
  BY DEF Init
<1>0. /\ \A c \in Clients : c \in Procs
      /\ \A t \in Tasks : t \in Procs
      /\ \A p \in Callers : p \in Procs /\ pc[p] = "idle"
      /\ pc[Main] = "idle"
  BY <1>1, ProcsAssumption DEF Callers, Procs
<1>2. Mutex /\ Handles /\ RunningBy
  BY <1>1, Kinds DEF Mutex, Critical, Handles, RunningBy
<1>3. Quiet
  BY <1>0, <1>1, ProcsAssumption DEF Quiet, Procs
<1> QED
  BY <1>2, <1>3 DEF ThreadInv

LEMMA StepThreadInv ==
  ASSUME OneLock, TypeOK, WriterInv, ThreadInv, [Next]_vars
  PROVE  ThreadInv'
<1>1. CASE Next
  BY <1>1, MutexStep, HandlesStep, QuietStep, RunningByStep
     DEF WriterInv, ThreadInv, TypeOK
<1>2. CASE UNCHANGED vars
  <2>1. UNCHANGED <<file, lock, pc, op, job, out, fd>>
    BY <1>2 DEF vars
  <2>2. Mutex' /\ Handles'
    BY <2>1 DEF ThreadInv, Mutex, Handles
  <2>3. Quiet' /\ RunningBy'
    BY <2>1 DEF ThreadInv, Quiet, Alive, RunningBy, Underway
  <2> QED
    BY <2>2, <2>3 DEF ThreadInv
<1> QED
  BY <1>1, <1>2

LEMMA ThreadInvariant ==
  ASSUME OneLock
  PROVE  Spec => []ThreadInv
<1>1. TypeOK /\ WriterInv /\ ThreadInv /\ [Next]_vars => ThreadInv'
  BY StepThreadInv
<1> QED
  BY <1>1, InitThreadInv, WriterInvariant, TypeCorrect, PTL DEF Spec

-----------------------------------------------------------------------------
(* What it implies.                                                        *)

(* Threads that share the lock never empty the record of another writer:   *)
(* the status file that job_status found missing is still missing when it  *)
(* creates it (520-531).                                                   *)
THEOREM ThreadsClobberNothing ==
  ASSUME OneLock
  PROVE  Spec => []OpenWClobbersNothing
<1>1. ThreadInv => OpenWClobbersNothing
  BY DEF ThreadInv, Handles, OpenWClobbersNothing
<1> QED
  BY <1>1, ThreadInvariant, PTL

LEMMA InvOwned ==
  ASSUME OneLock, TypeOK, WriterInv, ThreadInv
  PROVE  RunningIsOwned
<1> SUFFICES ASSUME NEW j \in Jobs, file[j] # Nil, file[j].rec.status = "Running"
             PROVE  Alive(file[j].rec.task) \/ InFlight(file[j].rec.task)
  BY DEF RunningIsOwned, Owned
<1>1. Underway(file[j].rec.task)
  BY DEF ThreadInv, RunningBy
<1> QED
  BY <1>1 DEF Underway, Executing, Alive, Ended, InFlight

(* No job of a library user is left Running with nobody to end it: its     *)
(* execution, or the call that submits it, still has a record to write,    *)
(* whatever was cancelled, deleted or submitted again meanwhile.           *)
THEOREM ThreadsOwnRunning ==
  ASSUME OneLock
  PROVE  Spec => []RunningIsOwned
<1>1. TypeOK /\ WriterInv /\ ThreadInv => RunningIsOwned
  BY InvOwned
<1> QED
  BY <1>1, ThreadInvariant, WriterInvariant, TypeCorrect, PTL

LEMMA InvClosed ==
  ASSUME OneLock, TypeOK, WriterInv, ThreadInv
  PROVE  ClosedLeavesNoneRunning
<1> SUFFICES ASSUME pc[Main] = "closed", NEW j \in Jobs, file[j] # Nil,
                    file[j].rec.status = "Running"
             PROVE  FALSE
  BY DEF OneLock, ClosedLeavesNoneRunning, NoneRunning
<1>1. Underway(file[j].rec.task) /\ file[j].rec.task \in Tasks
  BY DEF ThreadInv, RunningBy, TypeOK, Types, SharedTypeOK, File, Record
<1>2. ~Alive(file[j].rec.task) /\ \A c \in Clients : pc[c] = "idle"
  BY <1>1 DEF ThreadInv, Quiet
<1> QED
  BY <1>1, <1>2 DEF Underway, Executing, Alive, Ended

(* A close() that returned has left no job Running, whatever the executor  *)
(* still had in its queue when it was called (254-269).                    *)
THEOREM CloseEndsEveryJob ==
  ASSUME OneLock
  PROVE  Spec => []ClosedLeavesNoneRunning
<1>1. TypeOK /\ WriterInv /\ ThreadInv => ClosedLeavesNoneRunning
  BY InvClosed
<1> QED
  BY <1>1, ThreadInvariant, WriterInvariant, TypeCorrect, PTL

LEMMA ClosedIsSilent ==
  ASSUME OneLock, TypeOK, WriterInv, ThreadInv, [Next]_vars, pc[Main] = "closed"
  PROVE  UNCHANGED <<file, stored>>
<1>0. /\ \A c \in Clients : pc[c] = "idle" /\ c \in Procs /\ Home[c] = Main
      /\ \A t \in Tasks : pc[t] \in {"unborn", "void", "done", "dead"} /\ t \in Procs
      /\ \A s \in Services : s = Main
      /\ Types /\ Locals
  BY ProcsAssumption, Kinds DEF OneLock, TypeOK, WriterInv, ThreadInv, Quiet, Alive, Ended, Procs
<1>1. ASSUME NEW p \in Procs, Moves(p) PROVE UNCHANGED <<file, stored>>
  <2>1. pc[p] \in {"idle", "unborn", "void", "done", "dead", "closed"}
    BY <1>0 DEF Procs
  <2>2. ~Write(p)
    BY <2>1 DEF Write, Update, Check, Flush, Truncate, OpenW, FlushW, FlushPart, Fail,
                Overwrite, OverwritePart
  <2>3. ~Serve(p)
    BY <2>1 DEF Serve, List, Scan, Open, Listed, Read, Load, Kill
  <2>4. CASE p \in Clients /\ ClientMoves(p)
    BY <1>0, <2>4 DEF ClientMoves, GetJobs, UseJob, Submit, Refuse, Ready, Reap, Remove, Create, Register
  <2>5. CASE p \in Tasks /\ TaskMoves(p)
    BY <1>0, <2>5 DEF OneLock, TaskMoves, Run, PutResults, PutLogs, End
  <2>6. CASE p \in Services /\ CloseMoves(p)
    BY <1>0, <2>6 DEF CloseMoves, StartClose, Shutdown, CancelNext
  <2>7. CASE p \in Callers /\ Inactive(p)
    BY <2>7 DEF Inactive, shared
  <2> QED
    BY <1>1, <2>2, <2>3, <2>4, <2>5, <2>6, <2>7 DEF Moves
<1>2. \A c \in Clients : ~Dispatch(c) /\ \A t \in Tasks : ~SubmitEmpty(c, t)
  BY <1>0 DEF Dispatch, SubmitEmpty, Ready
<1> QED
  BY <1>0, <1>1, <1>2, NextSplit DEF vars, shared

(* And what it left is final: no thread writes a record or stores anything *)
(* after it, and no later call does.                                       *)
THEOREM ClosedIsFinal ==
  ASSUME OneLock
  PROVE  Spec => ClosedServiceIsSilent
<1>1. TypeOK /\ WriterInv /\ ThreadInv /\ [Next]_vars =>
        [~MultiProcess /\ pc[Main] = "closed" => UNCHANGED <<file, stored>>]_vars
  BY ClosedIsSilent
<1> QED
  BY <1>1, ThreadInvariant, WriterInvariant, TypeCorrect, PTL DEF Spec, ClosedServiceIsSilent
=============================================================================
