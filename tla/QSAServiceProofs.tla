-------------------------- MODULE QSAServiceProofs --------------------------
(***************************************************************************)
(* What holds of the job service for every number of clients, processes,   *)
(* submissions and job ids, with threads and with worker processes.        *)
(***************************************************************************)
EXTENDS QSAService, TLAPS

Callers == Clients \cup Services

LEMMA NewRecordType ==
  \A t \in Tasks : NewRecord(t) \in Record
                   /\ [NewRecord(t) EXCEPT !.created = FALSE] \in Record
  BY DEF NewRecord, Record, Statuses

(* The outcomes that the service itself names.                             *)
LEMMA ServiceOutcomes ==
  /\ "none" \in Outcomes /\ "OK" \in Outcomes /\ "Exception" \in Outcomes
  /\ "HTTPException" \in Outcomes /\ "BackendCurrentlyReservedError" \in Outcomes
  /\ "ExecutionLanesLimitReachedError" \in Outcomes
  /\ "JobNotFoundError" \in Outcomes /\ "DuplicateJobError" \in Outcomes
  /\ "JobNotCancellableError" \in Outcomes /\ "InvalidInputError" \in Outcomes
  /\ "UnableToDeleteJobInNonTerminalStateError" \in Outcomes
  BY DEF Outcomes, JobErrors, AccessErrors, OtherErrors

LEMMA InitTypeOK == Init => Types
<1> SUFFICES ASSUME Init PROVE Types
  OBVIOUS
<1>1. SharedTypeOK
  BY DEF Init, SharedTypeOK
<1>2. LocalTypeOK
  BY ProcsAssumption, SubmissionsAssumption, NewRecordType, ServiceOutcomes
     DEF Init, LocalTypeOK, Procs, TaskLabels, CallerLabels
<1>3. TaskTypeOK
  BY NewRecordType DEF Init, TaskTypeOK, Procs, TaskLabels, NewRecord
<1>4. CallerTypeOK
  BY ProcsAssumption
     DEF Init, CallerTypeOK, Procs, CallerLabels, ServerStates, WithJob, WithRecord
<1> QED
  BY <1>1, <1>2, <1>3, <1>4 DEF Types

LEMMA ReturnTypes ==
  ASSUME Types, NEW p \in Callers, NEW outcome \in Outcomes, Return(p, outcome)
  PROVE  LocalTypeOK' /\ TaskTypeOK' /\ CallerTypeOK'
  BY ProcsAssumption
     DEF Return, Types, LocalTypeOK, TaskTypeOK, CallerTypeOK, Procs, Callers,
         Operations, TaskLabels, CallerLabels, ServerStates, WithJob, WithRecord

(* Moving to a label that asks for no more than the process has.           *)
LEMMA GotoTypes ==
  ASSUME Types, NEW p \in Procs, NEW l, Goto(p, l),
         UNCHANGED <<op, job, out, todo, seen, reply>>, fd' \in [Procs -> BOOLEAN],
         p \in Tasks => l \in TaskLabels,
         p \in Clients => l \in CallerLabels \ (ServerStates \cup {"idle"}) /\ pc[p] # "idle",
         p \in Services => l \in CallerLabels,
         p \in Callers /\ l \in WithJob => pc[p] \in WithJob,
         p \in Callers /\ l \in WithRecord => pc[p] \in WithRecord,
         p \in Callers /\ l \in {"reap", "remove"} => pc[p] = "reap"
  PROVE  LocalTypeOK' /\ TaskTypeOK' /\ CallerTypeOK'
  BY ProcsAssumption DEF Goto, Types, LocalTypeOK, TaskTypeOK, CallerTypeOK, Callers, Procs

LEMMA UpdateReturnsTypes ==
  ASSUME Types, NEW p \in Procs, UpdateReturns(p), pc[p] \in WithRecord
  PROVE  LocalTypeOK' /\ TaskTypeOK' /\ CallerTypeOK'
<1>1. CASE p \in Tasks
  <2> fd' \in [Procs -> BOOLEAN]
    BY <1>1 DEF UpdateReturns, Types, LocalTypeOK
  <2> QED
    BY <1>1, ProcsAssumption, GotoTypes DEF UpdateReturns, TaskLabels, Callers
<1>2. CASE p \notin Tasks /\ op[p] = "submit" /\ out[p].status = "Running"
  <2> fd' \in [Procs -> BOOLEAN]
    BY <1>2 DEF UpdateReturns, Types, LocalTypeOK
  <2> p \in Clients /\ "dispatch" \in CallerLabels \ (ServerStates \cup {"idle"})
    BY <1>2, ProcsAssumption
       DEF Types, CallerTypeOK, Procs, CallerLabels, ServerStates, Callers
  <2> QED
    BY <1>2, GotoTypes, ProcsAssumption DEF UpdateReturns, WithRecord, WithJob
<1>3. CASE p \notin Tasks /\ ~(op[p] = "submit" /\ out[p].status = "Running")
  BY <1>3, ReturnTypes, ServiceOutcomes DEF UpdateReturns, Procs, Callers
<1> QED
  BY <1>1, <1>2, <1>3

LEMMA UpdateRaisesTypes ==
  ASSUME Types, NEW p \in Procs, UpdateRaises(p), pc[p] \in WithRecord
  PROVE  LocalTypeOK' /\ TaskTypeOK' /\ CallerTypeOK'
<1>1. CASE p \in Tasks
  <2> fd' \in [Procs -> BOOLEAN]
    BY <1>1 DEF UpdateRaises, Types, LocalTypeOK, locals
  <2> QED
    BY <1>1, ProcsAssumption, GotoTypes DEF UpdateRaises, TaskLabels, Callers, locals
<1>2. CASE p \notin Tasks
  BY <1>2, ReturnTypes, ServiceOutcomes DEF UpdateRaises, Procs, Callers
<1> QED
  BY <1>1, <1>2

(* The text of a file is a record of the type, whatever is done to it.     *)
LEMMA FileTypes ==
  ASSUME NEW f \in File, NEW r \in Record, NEW q \in Record
  PROVE  /\ Size(r) \in Nat /\ Empty(r) \in File /\ Written(f, r) \in File
         /\ Truncated(f, Size(q)) \in File
         /\ \A n \in Nat : WrittenPart(f, r, n) \in File
<1>1. \A x \in Record : Size(x) \in Nat
  BY BaseSizeAssumption DEF Size, Record
<1> QED
  BY <1>1, BaseSizeAssumption DEF File, Empty, Written, WrittenPart, Truncated

(* The kinds of processes do not overlap.                                  *)
LEMMA Kinds ==
  /\ \A p \in Callers : p \in Procs /\ p \notin Tasks
  /\ \A t \in Tasks : t \in Procs /\ t \notin Callers
  /\ \A p \in Procs \ Tasks : p \in Callers
  /\ \A p \in Procs : Gate(p) \in Locks
  /\ Nil \notin Procs /\ Nil \notin Jobs /\ Nil \notin Record /\ Nil \notin File
  BY ProcsAssumption DEF Callers, Procs, Locks, Gate

LEMMA LockTypes ==
  ASSUME SharedTypeOK, NEW p \in Procs, Acquire(p) \/ Release(p) \/ UNCHANGED lock
  PROVE  lock' \in [Locks -> Procs \cup {Nil}]
  BY DEF SharedTypeOK, Acquire, Release

LEMMA RequestTypes ==
  ASSUME Types, NEW c \in Clients, Request(c)
  PROVE  Types'
<1> c \in Callers /\ c \in Procs /\ c \notin Tasks /\ c \notin Services
  BY ProcsAssumption DEF Callers, Procs
<1>1. ASSUME NEW o \in Operations, NEW j \in Jobs \cup {Nil}, NEW r \in Record \cup {Nil},
             NEW l \in {"list", "create", "read"}, Begin(c, o, j, r, l),
             l # "list" => j \in Jobs, o = "submit" \/ l = "create" => r \in Record
      PROVE  Types'
  <2>1. SharedTypeOK'
    BY <1>1 DEF Types, SharedTypeOK, Begin, shared
  <2>2. LocalTypeOK'
    BY <1>1, ServiceOutcomes DEF Types, LocalTypeOK, Begin, Goto, CallerLabels, Callers
  <2>3. TaskTypeOK'
    BY <1>1, Kinds DEF Types, TaskTypeOK, LocalTypeOK, Begin, Goto
  <2>4. CallerTypeOK'
    BY <1>1, ProcsAssumption
       DEF Types, CallerTypeOK, LocalTypeOK, Begin, Goto, Procs, CallerLabels,
           ServerStates, WithJob, WithRecord
  <2> QED
    BY <2>1, <2>2, <2>3, <2>4 DEF Types
<1>2. ASSUME NEW t \in Tasks, Submit(c, t) PROVE Types'
  BY <1>1, <1>2, NewRecordType, SubmissionsAssumption DEF Submit, Operations
<1>6. ASSUME NEW t \in Tasks, SubmitEmpty(c, t) PROVE Types'
  <2>1. /\ [NewRecord(t) EXCEPT !.created = FALSE] \in Record
        /\ JobId[t] \in Jobs /\ t \in Procs /\ t # c
    BY NewRecordType, SubmissionsAssumption, Kinds
  <2>2. SharedTypeOK'
    BY <1>6 DEF SubmitEmpty, Types, SharedTypeOK, shared
  <2>3. LocalTypeOK'
    BY <1>6, <2>1, ServiceOutcomes
       DEF SubmitEmpty, Types, LocalTypeOK, TaskLabels, CallerLabels, Operations
  <2>6. \A q \in Tasks : /\ pc'[q] \in {pc[q], "void"} /\ op'[q] = op[q]
                         /\ job'[q] = job[q] /\ out'[q] = out[q]
    BY <1>6, <2>1, Kinds DEF SubmitEmpty, Types, LocalTypeOK
  <2>4. TaskTypeOK'
    BY <2>6 DEF Types, TaskTypeOK, TaskLabels
  <2>5. CallerTypeOK'
    BY <1>6, <2>1, Kinds
       DEF SubmitEmpty, Types, CallerTypeOK, LocalTypeOK, Operations, CallerLabels,
           ServerStates, WithJob, WithRecord, Callers
  <2> QED
    BY <2>2, <2>3, <2>4, <2>5 DEF Types
<1>3. ASSUME NEW t \in Tasks, Refuse(c, t) PROVE Types'
  <2>1. UNCHANGED <<file, lock, shared, pc, op, job, out, fd, todo, seen>>
        /\ reply' \in [Clients \cup Services -> Outcomes]
    BY <1>3, ServiceOutcomes DEF Refuse, Types, LocalTypeOK
  <2>2. SharedTypeOK' /\ LocalTypeOK'
    BY <2>1 DEF Types, SharedTypeOK, LocalTypeOK, shared
  <2>3. TaskTypeOK' /\ CallerTypeOK'
    BY <2>1 DEF Types, TaskTypeOK, CallerTypeOK
  <2> QED
    BY <2>2, <2>3 DEF Types
<1>4. CASE GetJobs(c)
  BY <1>1, <1>4 DEF GetJobs, Operations
<1>5. ASSUME NEW o \in Operations, NEW j \in Jobs, UseJob(c, o, j) PROVE Types'
  BY <1>1, <1>5 DEF UseJob
<1> QED
  BY <1>2, <1>3, <1>4, <1>5, <1>6 DEF Request

LEMMA ServeTypes ==
  ASSUME Types, NEW p \in Callers, Serve(p)
  PROVE  Types'
<1> p \in Procs /\ p \notin Tasks /\ pc[p] \in CallerLabels /\ fd \in [Procs -> BOOLEAN]
  BY Kinds DEF Types, LocalTypeOK, CallerTypeOK, Callers
<1> USE Kinds
<1>1. CASE List(p)
  <2>1. SharedTypeOK'
    BY <1>1, LockTypes DEF List, Types, SharedTypeOK, shared
  <2> QED
    BY <1>1, <2>1, ProcsAssumption
       DEF List, Goto, Types, LocalTypeOK, TaskTypeOK, CallerTypeOK, CallerLabels,
           ServerStates, WithJob, WithRecord, Callers
<1>2. CASE Scan(p)
  <2>1. SharedTypeOK'
    BY <1>2 DEF Scan, Types, SharedTypeOK, shared
  <2>2. PICK j \in todo[p] : Scan(p)!2!(j)
    BY <1>2 DEF Scan
  <2>3. j \in Jobs
    BY <2>2 DEF Types, LocalTypeOK
  <2> QED
    BY <1>2, <2>1, <2>2, <2>3, ProcsAssumption
       DEF Scan, Goto, Types, LocalTypeOK, TaskTypeOK, CallerTypeOK, CallerLabels,
           ServerStates, WithJob, WithRecord, Callers
<1>3. CASE Open(p)
  <2>1. SharedTypeOK'
    BY <1>3, LockTypes DEF Open, Types, SharedTypeOK, shared
  <2>2. CASE Loads(job[p]) /\ file[job[p]].rec.created
    <3> job[p] \in Jobs
      BY <1>3 DEF Open, Types, CallerTypeOK, Callers, WithJob
    <3>1. todo' \in [Procs -> SUBSET Jobs] /\ seen' \in [Procs -> SUBSET Jobs]
      BY <1>3, <2>2 DEF Open, Types, LocalTypeOK
    <3> QED
      BY <1>3, <2>1, <2>2, <3>1, ProcsAssumption
         DEF Open, Goto, Types, LocalTypeOK, TaskTypeOK, CallerTypeOK, CallerLabels,
             ServerStates, WithJob, WithRecord, Callers
  <2>3. CASE ~(Loads(job[p]) /\ file[job[p]].rec.created)
    BY <1>3, <2>1, <2>3, ReturnTypes, ServiceOutcomes DEF Open, Types
  <2> QED
    BY <2>2, <2>3
<1>4. CASE Listed(p)
  <2>1. SharedTypeOK'
    BY <1>4, LockTypes DEF Listed, Types, SharedTypeOK, shared
  <2>2. CASE \E outcome \in Outcomes : Return(p, outcome)
    BY <2>1, <2>2, ReturnTypes DEF Types
  <2>3. CASE op[p] = "submit" /\ ~Full(p)
    <3> JobId[out[p].task] \in Jobs
      BY <2>3, SubmissionsAssumption DEF Types, CallerTypeOK, Callers, Record
    <3> p \in Clients
      BY <2>3 DEF Types, CallerTypeOK, Callers
    <3> QED
      BY <1>4, <2>1, <2>3, ProcsAssumption
         DEF Listed, Goto, Types, LocalTypeOK, TaskTypeOK, CallerTypeOK, CallerLabels,
             ServerStates, WithJob, WithRecord, Callers
  <2>4. CASE op[p] = "close"
    <3> p \in Services /\ p \notin Clients
      BY <1>4, <2>4, ProcsAssumption
         DEF Listed, Types, CallerTypeOK, Callers, Operations
    <3> QED
      BY <1>4, <2>1, <2>4, ProcsAssumption
         DEF Listed, Goto, Types, LocalTypeOK, TaskTypeOK, CallerTypeOK, CallerLabels,
             ServerStates, WithJob, WithRecord, Callers
  <2>5. op[p] \in {"list", "submit", "close"}
    BY <1>4 DEF Listed
  <2> QED
    BY <1>4, <2>2, <2>3, <2>4, <2>5, ServiceOutcomes DEF Listed
<1>5. CASE Read(p)
  <2>1. SharedTypeOK'
    BY <1>5, LockTypes DEF Read, LockFree, Types, SharedTypeOK, shared
  <2>2. CASE Return(p, "JobNotFoundError")
    BY <2>1, <2>2, ReturnTypes, ServiceOutcomes DEF Types
  <2>3. CASE Goto(p, "load") /\ UNCHANGED locals
    BY <1>5, <2>1, <2>3, ProcsAssumption
       DEF Read, Goto, locals, Types, LocalTypeOK, TaskTypeOK, CallerTypeOK, CallerLabels,
           ServerStates, WithJob, WithRecord, Callers
  <2> QED
    BY <1>5, <2>2, <2>3 DEF Read
<1>6. CASE Load(p)
  <2>1. SharedTypeOK'
    BY <1>6, LockTypes DEF Load, Types, SharedTypeOK, shared
  <2>2. CASE \E outcome \in Outcomes : Return(p, outcome)
    BY <2>1, <2>2, ReturnTypes DEF Types
  <2>3. ASSUME NEW l \in {"reap", "kill"}, Loads(job[p]), Goto(p, l),
               out' = [out EXCEPT ![p] = file[job[p]].rec],
               UNCHANGED <<op, job, fd, todo, seen, reply>>
        PROVE  Types'
    <3> file[job[p]].rec \in Record
      BY <1>6, <2>3 DEF Load, Loads, Types, SharedTypeOK, CallerTypeOK, WithJob, Callers, File
    <3> QED
      BY <1>6, <2>1, <2>3, ProcsAssumption
         DEF Load, Goto, Types, LocalTypeOK, TaskTypeOK, CallerTypeOK, CallerLabels,
             ServerStates, WithJob, WithRecord, Callers
  <2>4. op[p] \in {"get", "delete", "cancel", "close"} \/ ~Loads(job[p])
    BY <1>6 DEF Load
  <2> QED
    BY <1>6, <2>2, <2>3, <2>4, ServiceOutcomes DEF Load
<1>7. CASE Kill(p)
  <2>1. SharedTypeOK'
    <3> registry[Server(p)][job[p]] \in Tasks \cup {Nil}
      BY <1>7, ProcsAssumption
         DEF Kill, Types, SharedTypeOK, CallerTypeOK, WithJob, WithRecord, Callers, Server
    <3> QED
      BY <1>7 DEF Kill, Types, SharedTypeOK
  <2>2. CASE Return(p, "Exception")
    BY <2>1, <2>2, ReturnTypes, ServiceOutcomes DEF Types
  <2>3. CASE ~Return(p, "Exception")
    BY <1>7, <2>1, <2>3, ProcsAssumption
       DEF Kill, Goto, locals, Types, LocalTypeOK, TaskTypeOK, CallerTypeOK, CallerLabels,
           ServerStates, WithJob, WithRecord, Callers
  <2> QED
    BY <2>2, <2>3
<1> QED
  BY <1>1, <1>2, <1>3, <1>4, <1>5, <1>6, <1>7 DEF Serve

(* The record a step of the write writes, and the file it writes it to.    *)
LEMMA WriterTypes ==
  ASSUME Types, NEW p \in Procs, pc[p] \in WithRecord
  PROVE  out[p] \in Record /\ job[p] \in Jobs
  BY SubmissionsAssumption, Kinds DEF Types, TaskTypeOK, CallerTypeOK, WithJob, Callers

LEMMA WriteTypes ==
  ASSUME Types, HandleOK, NEW p \in Procs, Write(p)
  PROVE  Types'
<1> USE Kinds
<1> pc[p] \in WithRecord /\ fd \in [Procs -> BOOLEAN]
  BY DEF Write, Update, Check, Flush, Truncate, OpenW, FlushW, FlushPart, Fail, Overwrite,
         OverwritePart, WithRecord, Types, LocalTypeOK
<1> out[p] \in Record /\ job[p] \in Jobs
  BY WriterTypes
<1>1. ASSUME NEW s \in Terminal, NEW n \in Nat,
             \/ out' = [out EXCEPT ![p].status = s]
             \/ out' = [out EXCEPT ![p].status = s, ![p].reason = n],
             NEW l \in {"openw", "check", "overwrite"}, Goto(p, l), Acquire(p),
             UNCHANGED <<file, shared, op, job, fd, todo, seen, reply>>,
             pc[p] # "idle"
      PROVE  Types'
  <2>1. SharedTypeOK'
    BY <1>1, LockTypes DEF Types, SharedTypeOK, shared
  <2>2. out'[p] \in Record /\ out'[p].task = out[p].task /\ out' \in [Procs -> Record \cup {Nil}]
    BY <1>1 DEF Types, LocalTypeOK, Record, Statuses
  <2>3. \A q \in Procs : q # p => out'[q] = out[q] /\ pc'[q] = pc[q]
    BY <1>1 DEF Types, LocalTypeOK, Goto
  <2>4. pc' \in [Procs -> TaskLabels \cup CallerLabels] /\ pc'[p] = l
    BY <1>1 DEF Types, LocalTypeOK, Goto, CallerLabels
  <2>5. LocalTypeOK'
    BY <1>1, <2>2, <2>4 DEF Types, LocalTypeOK
  <2>6. TaskTypeOK'
    BY <1>1, <2>2, <2>3, <2>4 DEF Types, TaskTypeOK, TaskLabels
  <2>7. CallerTypeOK'
    BY <1>1, <2>2, <2>3, <2>4 DEF Types, CallerTypeOK, CallerLabels, ServerStates, Callers
  <2> QED
    BY <2>1, <2>5, <2>6, <2>7 DEF Types
<1>2. ASSUME NEW l \in {"flush", "trunc", "flushw"}, Goto(p, l), pc[p] # "idle",
             UNCHANGED <<op, job, out, todo, seen, reply>>, fd' \in [Procs -> BOOLEAN]
      PROVE  LocalTypeOK' /\ TaskTypeOK' /\ CallerTypeOK'
  <2> /\ p \in Tasks => l \in TaskLabels
      /\ p \in Callers => l \in CallerLabels \ (ServerStates \cup {"idle"})
    BY <1>2 DEF TaskLabels, CallerLabels, ServerStates
  <2> QED
    BY <1>2, GotoTypes DEF Callers, WithJob
<1>3. CASE Update(p)
  BY <1>1, <1>3 DEF Update, Terminal
<1>4. CASE Fail(p)
  BY <1>1, <1>4, SubmissionsAssumption DEF Fail, Terminal
<1>5. CASE Check(p)
  <2>1. SharedTypeOK'
    BY <1>5, LockTypes DEF Check, Types, SharedTypeOK, shared
  <2>2. CASE UpdateRaises(p)
    BY <2>1, <2>2, UpdateRaisesTypes DEF Types
  <2>3. CASE /\ Goto(p, "flush") /\ fd' = [fd EXCEPT ![p] = TRUE]
             /\ UNCHANGED <<op, job, out, todo, seen, reply>>
    BY <1>2, <1>5, <2>1, <2>3 DEF Check, Types
  <2> QED
    BY <1>5, <2>2, <2>3 DEF Check
<1>0. ASSUME Dump(p) PROVE file' \in [Jobs -> File \cup {Nil}]
  BY <1>0, FileTypes DEF Dump, HandleOK, Types, SharedTypeOK
<1>6. CASE Flush(p)
  <2>1. SharedTypeOK'
    BY <1>0, <1>6 DEF Flush, Types, SharedTypeOK, shared
  <2> QED
    BY <1>2, <1>6, <2>1 DEF Flush, Types, locals
<1>7. CASE Truncate(p)
  <2>1. SharedTypeOK'
    BY <1>7, FileTypes, LockTypes DEF Truncate, HandleOK, Types, SharedTypeOK, shared
  <2> QED
    BY <1>7, <2>1, UpdateReturnsTypes DEF Truncate, Types
<1>8. CASE OpenW(p)
  <2>1. SharedTypeOK'
    <3> Empty(out[p]) \in File
      BY DEF Empty, File
    <3> QED
      BY <1>8 DEF OpenW, Types, SharedTypeOK, shared
  <2> QED
    BY <1>2, <1>8, <2>1 DEF OpenW, Types
<1>9. CASE FlushW(p)
  <2>1. SharedTypeOK'
    BY <1>0, <1>9, LockTypes DEF FlushW, Types, SharedTypeOK, shared
  <2> QED
    BY <1>9, <2>1, UpdateReturnsTypes DEF FlushW, Types
<1>10. CASE Overwrite(p)
  <2>1. SharedTypeOK'
    BY <1>10, FileTypes, LockTypes DEF Overwrite, Types, SharedTypeOK, shared
  <2> QED
    BY <1>10, <2>1, UpdateReturnsTypes, UpdateRaisesTypes DEF Overwrite, Types
<1>11. CASE FlushPart(p)
  <2>1. SharedTypeOK'
    BY <1>11, FileTypes, BaseSizeAssumption DEF FlushPart, HandleOK, Types, SharedTypeOK, shared
  <2> QED
    BY <1>11, <2>1
       DEF FlushPart, Types, locals, LocalTypeOK, TaskTypeOK, CallerTypeOK, Callers
<1>12. CASE OverwritePart(p)
  <2>1. SharedTypeOK'
    BY <1>12, FileTypes, BaseSizeAssumption DEF OverwritePart, Types, SharedTypeOK, shared
  <2> QED
    BY <1>2, <1>12, <2>1 DEF OverwritePart, Types
<1> QED
  BY <1>3, <1>4, <1>5, <1>6, <1>7, <1>8, <1>9, <1>10, <1>11, <1>12 DEF Write

LEMMA ClientTypes ==
  ASSUME Types, HandleOK, NEW c \in Clients, ClientStep(c)
  PROVE  Types'
<1> USE Kinds
<1> c \in Procs /\ c \notin Tasks /\ c \in Callers /\ c \notin Services
  BY ProcsAssumption DEF Callers
<1>1. CASE Serve(c)
  BY <1>1, ServeTypes
<1>2. CASE Write(c)
  BY <1>2, WriteTypes
<1>3. CASE Reap(c)
  <2>1. SharedTypeOK'
    BY <1>3, ProcsAssumption DEF Reap, locals, Types, SharedTypeOK
  <2>2. "remove" \in CallerLabels \ (ServerStates \cup {"idle"})
    BY DEF CallerLabels, ServerStates
  <2> QED
    BY <1>3, <2>1, <2>2, GotoTypes
       DEF Reap, locals, Types, LocalTypeOK, WithJob, WithRecord
<1>4. CASE Remove(c)
  <2>1. SharedTypeOK'
    BY <1>4 DEF Remove, Types, SharedTypeOK, shared
  <2>2. CASE file[job[c]] = Nil
    BY <1>4, <2>1, <2>2, ReturnTypes, ServiceOutcomes DEF Remove, Types
  <2>3. CASE file[job[c]] # Nil
    <3> fd' \in [Procs -> BOOLEAN]
      <4>1. fd' = [p \in Procs |-> fd[p] /\ job[p] # job[c]]
        BY <1>4, <2>3 DEF Remove
      <4>2. \A p \in Procs : (fd[p] /\ job[p] # job[c]) \in BOOLEAN
        OBVIOUS
      <4> QED
        BY <4>1, <4>2, Zenon
    <3>1. LocalTypeOK'
      BY <1>4, <2>3, ServiceOutcomes DEF Remove, Types, LocalTypeOK, CallerLabels, Callers
    <3>2. TaskTypeOK'
      BY <1>4, <2>3 DEF Remove, Types, LocalTypeOK, TaskTypeOK
    <3>3. CallerTypeOK'
      BY <1>4, <2>3
         DEF Remove, Types, LocalTypeOK, CallerTypeOK, Operations, CallerLabels,
             ServerStates, WithJob, WithRecord, Callers
    <3> QED
      BY <2>1, <3>1, <3>2, <3>3 DEF Types
  <2> QED
    BY <2>2, <2>3
<1>5. CASE Create(c)
  <2>1. SharedTypeOK'
    BY <1>5, LockTypes DEF Create, LockFree, Types, SharedTypeOK, shared
  <2>2. CASE Return(c, "DuplicateJobError")
    BY <2>1, <2>2, ReturnTypes, ServiceOutcomes DEF Types
  <2>3. CASE Goto(c, "openw") /\ UNCHANGED locals
    BY <1>5, <2>1, <2>3, ProcsAssumption
       DEF Create, Goto, locals, Types, LocalTypeOK, TaskTypeOK, CallerTypeOK, CallerLabels,
           ServerStates, WithJob, WithRecord, Callers
  <2> QED
    BY <1>5, <2>2, <2>3 DEF Create
<1>6. CASE Dispatch(c)
  <2>1. out[c].task \in Tasks /\ pc[c] = "dispatch" /\ SharedTypeOK'
    BY <1>6 DEF Dispatch, Types, CallerTypeOK, WithRecord, Callers, Record,
                SharedTypeOK, shared
  <2>2. ASSUME NEW l \in {"fail", "register"}, NEW k \in {"void", "ready"},
               pc' = [pc EXCEPT ![c] = l, ![out[c].task] = k], UNCHANGED locals
        PROVE  Types'
    <3>1. LocalTypeOK'
      BY <2>1, <2>2 DEF locals, Types, LocalTypeOK, TaskLabels, CallerLabels
    <3>2. TaskTypeOK'
      BY <2>1, <2>2 DEF locals, Types, LocalTypeOK, TaskTypeOK, TaskLabels
    <3>3. CallerTypeOK'
      BY <2>1, <2>2 DEF locals, Types, LocalTypeOK, CallerTypeOK, Callers, CallerLabels,
                        ServerStates, WithJob, WithRecord
    <3> QED
      BY <2>1, <3>1, <3>2, <3>3 DEF Types
  <2>3. ASSUME NEW k \in {"void", "ready"}, NEW outcome \in Outcomes,
               pc' = [pc EXCEPT ![c] = "idle", ![out[c].task] = k],
               op' = [op EXCEPT ![c] = "none"], job' = [job EXCEPT ![c] = Nil],
               out' = [out EXCEPT ![c] = Nil], reply' = [reply EXCEPT ![c] = outcome],
               UNCHANGED <<fd, todo, seen>>
        PROVE  Types'
    <3>1. LocalTypeOK'
      BY <2>1, <2>3 DEF Types, LocalTypeOK, TaskLabels, CallerLabels
    <3>2. TaskTypeOK'
      BY <2>1, <2>3 DEF Types, LocalTypeOK, TaskTypeOK, TaskLabels
    <3>3. CallerTypeOK'
      BY <2>1, <2>3 DEF Types, LocalTypeOK, CallerTypeOK, Callers, CallerLabels,
                        ServerStates, WithJob, WithRecord
    <3> QED
      BY <2>1, <3>1, <3>2, <3>3 DEF Types
  <2> QED
    BY <1>6, <2>2, <2>3, ServiceOutcomes DEF Dispatch
<1>7. CASE Register(c)
  <2> out[c].task \in Tasks
    BY <1>7 DEF Register, Types, CallerTypeOK, WithRecord, Callers, Record
  <2>1. SharedTypeOK'
    BY <1>7 DEF Register, Types, SharedTypeOK
  <2> QED
    BY <1>7, <2>1, ReturnTypes, ServiceOutcomes DEF Register, Types
<1> QED
  BY <1>1, <1>2, <1>3, <1>4, <1>5, <1>6, <1>7 DEF ClientStep

LEMMA TaskTypes ==
  ASSUME Types, HandleOK, NEW t \in Tasks, TaskStep(t) \/ End(t)
  PROVE  Types'
<1> t \in Procs /\ t \notin Callers /\ t \in Locks
  BY Kinds DEF Locks
<1>1. CASE Run(t)
  <2> \E l \in {"done", "put", "fail"} : Goto(t, l)
    BY <1>1 DEF Run
  <2> out' = out \/ out' = [out EXCEPT ![t].usage = TRUE]
    BY <1>1 DEF Run
  <2>1. SharedTypeOK'
    BY <1>1 DEF Run, shared, Types, SharedTypeOK
  <2>2. out' \in [Procs -> Record \cup {Nil}] /\ out'[t] \in Record /\ out'[t].task = t
        /\ \A q \in Procs : q # t => out'[q] = out[q]
    <3>1. CASE out' = out
      BY <3>1 DEF Types, LocalTypeOK, TaskTypeOK
    <3>2. CASE out' = [out EXCEPT ![t].usage = TRUE]
      <4>1. out[t] \in Record /\ out[t].task = t /\ out \in [Procs -> Record \cup {Nil}]
        BY DEF Types, LocalTypeOK, TaskTypeOK
      <4>2. [out[t] EXCEPT !.usage = TRUE] \in Record
        BY <4>1 DEF Record
      <4> QED
        BY <3>2, <4>1, <4>2
    <3> QED
      BY <3>1, <3>2
  <2>3. pc' \in [Procs -> TaskLabels \cup CallerLabels] /\ pc'[t] \in TaskLabels
        /\ \A q \in Procs : q # t => pc'[q] = pc[q]
    BY DEF Goto, Types, LocalTypeOK, TaskLabels
  <2> QED
    BY <1>1, <2>1, <2>2, <2>3, Kinds
       DEF Run, Types, LocalTypeOK, TaskTypeOK, CallerTypeOK, Callers
<1>2. CASE PutResults(t)
  <2>1. SharedTypeOK'
    BY <1>2 DEF PutResults, Types, SharedTypeOK
  <2> QED
    BY <1>2, <2>1, GotoTypes, Kinds
       DEF PutResults, locals, Types, LocalTypeOK, TaskLabels, Callers
<1>3. CASE Write(t)
  BY <1>3, WriteTypes
<1>4. CASE PutLogs(t)
  <2>1. SharedTypeOK'
    BY <1>4 DEF PutLogs, Types, SharedTypeOK
  <2> QED
    BY <1>4, <2>1, GotoTypes, Kinds
       DEF PutLogs, locals, Types, LocalTypeOK, TaskLabels, Callers
<1>5. CASE End(t)
  <2>1. SharedTypeOK'
    BY <1>5 DEF End, shared, Types, SharedTypeOK
  <2> QED
    BY <1>5, <2>1, GotoTypes, Kinds DEF End, Types, LocalTypeOK, TaskLabels, Callers
<1> QED
  BY <1>1, <1>2, <1>3, <1>4, <1>5 DEF TaskStep

LEMMA CloseTypes ==
  ASSUME Types, HandleOK, NEW s \in Services, StartClose(s) \/ CloseStep(s)
  PROVE  Types'
<1> s \in Procs /\ s \notin Clients /\ s \notin Tasks /\ s \in Callers
  BY ProcsAssumption DEF Callers, Procs
<1>1. ASSUME StartClose(s) \/ Shutdown(s)
      PROVE  Types'
  <2>1. SharedTypeOK' /\ fd' \in [Procs -> BOOLEAN]
    BY <1>1 DEF StartClose, Shutdown, shared, locals, Types, SharedTypeOK, LocalTypeOK
  <2>2. PICK l \in {"shutdown", "list"} : Goto(s, l)
    BY <1>1 DEF StartClose, Shutdown
  <2>3. l \in CallerLabels /\ l \notin WithJob /\ l \notin WithRecord
    BY <2>2 DEF CallerLabels, WithJob, WithRecord
  <2> QED
    BY <1>1, <2>1, <2>2, <2>3, GotoTypes DEF StartClose, Shutdown, locals, Types
<1>2. CASE CancelNext(s)
  <2>1. \A j \in seen[s] : j \in Jobs
    BY DEF Types, LocalTypeOK
  <2>2. SharedTypeOK'
    BY <1>2 DEF CancelNext, shared, Types, SharedTypeOK
  <2>3. LocalTypeOK' /\ (pc'[s] = "read" => job'[s] \in Jobs) /\ pc'[s] \in {"read", "closed"}
        /\ \A q \in Procs : q # s => pc'[q] = pc[q] /\ job'[q] = job[q]
    BY <1>2, <2>1 DEF CancelNext, Goto, Types, LocalTypeOK, CallerLabels
  <2> QED
    BY <1>2, <2>2, <2>3, Kinds
       DEF CancelNext, Types, TaskTypeOK, CallerTypeOK, CallerLabels, WithJob, WithRecord, Callers
<1>3. CASE Serve(s)
  BY <1>3, ServeTypes
<1>4. CASE Write(s)
  BY <1>4, WriteTypes
<1> QED
  BY <1>1, <1>2, <1>3, <1>4 DEF CloseStep

LEMMA InactiveTypes ==
  ASSUME Types, NEW p \in Callers, Inactive(p)
  PROVE  Types'
  BY DEF Inactive, Types, SharedTypeOK, LocalTypeOK, TaskTypeOK, CallerTypeOK, shared, Callers,
         Outcomes, JobErrors

LEMMA NextTypes ==
  ASSUME Types, HandleOK, Next
  PROVE  Types'
  BY RequestTypes, ClientTypes, TaskTypes, CloseTypes, InactiveTypes DEF Next, Callers, Die

-----------------------------------------------------------------------------
(* A file that is open for writing is in the directory: a step opens it    *)
(* when it is there, only Remove takes it away, and Remove knows who has   *)
(* it open.                                                                *)

LEMMA InitHandleOK == Init => HandleOK
  BY DEF Init, HandleOK

(* A caller that does not have a file open goes elsewhere.                 *)
LEMMA HandleFrame ==
  ASSUME Types, HandleOK, NEW p \in Procs,
         p \in Callers => pc[p] \notin {"flush", "trunc", "flushw"} \/ ~fd'[p],
         \A j \in Jobs : file[j] # Nil => file'[j] # Nil,
         fd' = fd \/ fd' = [fd EXCEPT ![p] = FALSE],
         \A q \in Callers : q # p => pc'[q] = pc[q],
         \A q \in Procs : q # p \/ q \in Tasks => job'[q] = job[q],
         \A q \in Procs : fd[q] => job[q] \in Jobs
  PROVE  HandleOK'
  BY Kinds DEF HandleOK, Types, LocalTypeOK

LEMMA ReturnHandleOK ==
  ASSUME Types, HandleOK, NEW p \in Procs,
         \/ UpdateReturns(p)
         \/ UpdateRaises(p)
         \/ p \in Callers /\ \E outcome \in Outcomes : Return(p, outcome),
         p \in Callers => pc[p] # "idle",
         \A j \in Jobs : file[j] # Nil => file'[j] # Nil,
         \A q \in Procs : fd[q] => job[q] \in Jobs
  PROVE  HandleOK'
<1>1. ASSUME p \in Callers, NEW outcome \in Outcomes, Return(p, outcome) PROVE HandleOK'
  <2>1. fd' = [fd EXCEPT ![p] = FALSE] /\ ~fd'[p] /\ p \in Procs /\ p \notin Tasks
    BY <1>1, Kinds DEF Return, Types, LocalTypeOK
  <2>2. \A q \in Procs : q # p => pc'[q] = pc[q] /\ job'[q] = job[q]
    BY <1>1 DEF Return, Types, LocalTypeOK
  <2>3. /\ \A q \in Callers : q # p => pc'[q] = pc[q]
        /\ \A q \in Procs : q # p \/ q \in Tasks => job'[q] = job[q]
    BY <2>1, <2>2, Kinds
  <2> QED
    BY <2>1, <2>3, HandleFrame
<1>2. CASE UpdateReturns(p)
  <2>1. CASE p \in Tasks \/ (op[p] = "submit" /\ out[p].status = "Running")
    BY <1>2, <2>1, HandleFrame, Kinds DEF UpdateReturns, Goto, Types, LocalTypeOK
  <2>2. CASE p \notin Tasks /\ ~(op[p] = "submit" /\ out[p].status = "Running")
    <3>1. p \in Callers /\ (Return(p, "InvalidInputError") \/ Return(p, "OK"))
      BY <1>2, <2>2, Kinds DEF UpdateReturns
    <3> QED
      BY <1>1, <3>1, ServiceOutcomes
  <2> QED
    BY <2>1, <2>2
<1>3. CASE UpdateRaises(p)
  <2>1. CASE p \in Tasks
    BY <1>3, <2>1, HandleFrame, Kinds DEF UpdateRaises, Goto, locals, Types, LocalTypeOK
  <2> QED
    BY <1>1, <1>3, <2>1, Kinds, ServiceOutcomes DEF UpdateRaises
<1> QED
  BY <1>1, <1>2, <1>3

LEMMA NextHandleOK ==
  ASSUME Types, HandleOK, Next
  PROVE  HandleOK'
<1> USE Kinds
<1>0. \A q \in Procs : fd[q] => job[q] \in Jobs
  BY SubmissionsAssumption
     DEF HandleOK, Types, TaskTypeOK, CallerTypeOK, WithJob, WithRecord, Callers
<1>a. /\ \A c \in Clients : c \in Callers /\ c \in Procs
      /\ \A s \in Services : s \in Callers /\ s \in Procs
  BY DEF Callers
<1>1. ASSUME NEW c \in Clients, Request(c) PROVE HandleOK'
  <2>1. pc[c] = "idle" /\ UNCHANGED <<file, fd>>
        /\ (\A q \in Callers : q # c => pc'[q] = pc[q])
        /\ \A q \in Procs : q # c => job'[q] = job[q]
    <3> \A t \in Tasks : t \notin Callers
      OBVIOUS
    <3>1. CASE \E t \in Tasks : SubmitEmpty(c, t)
      BY <3>1 DEF SubmitEmpty, Ready, Types, LocalTypeOK
    <3>2. CASE ~\E t \in Tasks : SubmitEmpty(c, t)
      BY <1>1, <1>a, <3>2
         DEF Request, Submit, Refuse, GetJobs, UseJob, Ready, Begin, Goto, Types, LocalTypeOK
    <3> QED
      BY <3>1, <3>2
  <2> QED
    BY <1>0, <1>a, <2>1, HandleFrame
<1>2. ASSUME NEW p \in Callers, Serve(p) PROVE HandleOK'
  <2> p \in Procs /\ UNCHANGED file
    BY <1>2 DEF Serve, List, Scan, Open, Listed, Read, Load, Kill
  <2>1. pc[p] \notin {"flush", "trunc", "flushw", "idle"}
    BY <1>2 DEF Serve, List, Scan, Open, Listed, Read, Load, Kill
  <2>2. CASE \E outcome \in Outcomes : Return(p, outcome)
    BY <1>0, <2>1, <2>2, ReturnHandleOK
  <2>3. CASE fd' = fd /\ \A q \in Procs : q # p => pc'[q] = pc[q] /\ job'[q] = job[q]
    BY <1>0, <2>1, <2>3, HandleFrame
  <2>4. \/ \E outcome \in Outcomes : Return(p, outcome)
        \/ fd' = fd /\ \A q \in Procs : q # p => pc'[q] = pc[q] /\ job'[q] = job[q]
    <3>1. CASE List(p) \/ Scan(p) \/ Kill(p)
      BY <3>1, ServiceOutcomes DEF List, Scan, Kill, Goto, locals, Types, LocalTypeOK
    <3>2. CASE Open(p) \/ Listed(p)
      BY <3>2, ServiceOutcomes DEF Open, Listed, Goto, locals, Types, LocalTypeOK
    <3>3. CASE Read(p) \/ Load(p)
      BY <3>3, ServiceOutcomes DEF Read, Load, Goto, locals, Types, LocalTypeOK
    <3> QED
      BY <1>2, <3>1, <3>2, <3>3 DEF Serve
  <2> QED
    BY <2>2, <2>3, <2>4
<1>3. ASSUME NEW p \in Procs, Write(p) PROVE HandleOK'
  <2>1. pc[p] \in WithRecord /\ pc[p] # "idle"
    BY <1>3 DEF Write, Update, Check, Flush, Truncate, OpenW, FlushW, FlushPart, Fail,
                Overwrite, OverwritePart, WithRecord
  <2>2. out[p] \in Record /\ job[p] \in Jobs
    BY <2>1, WriterTypes
  <2>3. \A f \in File, q \in Record :
           /\ Written(f, out[p]) # Nil /\ WrittenPart(f, out[p], Buffer) # Nil
           /\ WrittenPart(f, out[p], Size(out[p])) # Nil
           /\ Truncated(f, Size(q)) # Nil /\ Empty(out[p]) # Nil
    BY <2>2, FileTypes, BaseSizeAssumption
  <2>4. \A j \in Jobs : file[j] = Nil \/ file[j] \in File
    BY DEF Types, SharedTypeOK
  <2>5. CASE Update(p) \/ Fail(p)
    BY <1>0, <2>5, HandleFrame DEF Update, Fail, Goto, Types, LocalTypeOK
  <2>6. CASE Check(p)
    <3>1. CASE UpdateRaises(p) /\ UNCHANGED file
      <4> \A j \in Jobs : file[j] # Nil => file'[j] # Nil
        BY <3>1
      <4> QED
        BY <1>0, <2>1, <3>1, ReturnHandleOK, Zenon
    <3>2. CASE Loads(job[p]) /\ Goto(p, "flush") /\ fd' = [fd EXCEPT ![p] = TRUE]
               /\ UNCHANGED <<file, job>>
      BY <3>2 DEF Loads, Goto, HandleOK, Types, LocalTypeOK
    <3> QED
      BY <2>6, <3>1, <3>2 DEF Check
  <2>7. CASE Flush(p)
    <3> \A j \in Jobs : file[j] # Nil => file'[j] # Nil
      BY <2>2, <2>3, <2>4, <2>7 DEF Flush, Dump, Types, SharedTypeOK
    <3> QED
      BY <1>0, <2>7 DEF Flush, Goto, locals, HandleOK, Types, LocalTypeOK
  <2>8. CASE OpenW(p)
    <3> \A j \in Jobs : (file[j] # Nil \/ j = job[p]) => file'[j] # Nil
      BY <2>2, <2>3, <2>4, <2>8, FileTypes DEF OpenW, Empty, Types, SharedTypeOK, File
    <3> QED
      BY <1>0, <2>2, <2>8 DEF OpenW, Goto, HandleOK, Types, LocalTypeOK
  <2>9. CASE Truncate(p) \/ FlushW(p) \/ Overwrite(p)
    <3> \A j \in Jobs : file[j] # Nil => file'[j] # Nil
      BY <2>2, <2>3, <2>4, <2>9 DEF Truncate, FlushW, Dump, Overwrite, Types, SharedTypeOK
    <3>1. UpdateReturns(p) \/ UpdateRaises(p)
      BY <2>9 DEF Truncate, FlushW, Overwrite
    <3> QED
      BY <1>0, <2>1, <3>1, ReturnHandleOK, Zenon
  <2>10. CASE FlushPart(p)
    <3> \A j \in Jobs : file[j] # Nil => file'[j] # Nil
      BY <2>2, <2>3, <2>4, <2>10 DEF FlushPart, Types, SharedTypeOK
    <3> QED
      BY <1>0, <2>10 DEF FlushPart, locals, HandleOK
  <2>11. CASE OverwritePart(p)
    <3> \A j \in Jobs : (file[j] # Nil \/ j = job[p]) => file'[j] # Nil
      BY <2>2, <2>3, <2>4, <2>11 DEF OverwritePart, Types, SharedTypeOK
    <3> QED
      BY <1>0, <2>2, <2>11 DEF OverwritePart, Goto, HandleOK, Types, LocalTypeOK
  <2> QED
    BY <1>3, <2>5, <2>6, <2>7, <2>8, <2>9, <2>10, <2>11 DEF Write
<1>4. ASSUME NEW c \in Clients, Remove(c) PROVE HandleOK'
  <2> c \in Callers /\ c \in Procs
    BY <1>a
  <2>1. CASE file[job[c]] = Nil
    BY <1>0, <1>4, <2>1, ReturnHandleOK, ServiceOutcomes DEF Remove
  <2>2. CASE file[job[c]] # Nil
    <3>1. \A q \in Procs : fd'[q] => fd[q] /\ job[q] # job[c] /\ q # c
      BY <1>4, <2>2 DEF Remove
    <3>2. \A q \in Procs : q # c => pc'[q] = pc[q] /\ job'[q] = job[q]
      BY <1>4, <2>2 DEF Remove, Types, LocalTypeOK
    <3>3. \A j \in Jobs : j # job[c] => file'[j] = file[j]
      BY <1>4, <2>2 DEF Remove, Types, SharedTypeOK
    <3> QED
      BY <1>0, <3>1, <3>2, <3>3 DEF HandleOK
  <2> QED
    BY <2>1, <2>2
<1>5. ASSUME NEW c \in Clients, Reap(c) \/ Create(c) \/ Dispatch(c) \/ Register(c)
      PROVE  HandleOK'
  <2> c \in Callers /\ c \in Procs
    BY <1>a
  <2>1. pc[c] \notin {"flush", "trunc", "flushw", "idle"} /\ UNCHANGED file
    BY <1>5 DEF Reap, Create, Dispatch, Register
  <2>2. CASE \E outcome \in Outcomes : Return(c, outcome)
    BY <1>0, <2>1, <2>2, ReturnHandleOK
  <2>3. CASE fd' = fd /\ \A q \in Callers : q # c => pc'[q] = pc[q] /\ job'[q] = job[q]
    <3> \A q \in Tasks : job'[q] = job[q]
      <4>1. \A q \in Tasks : q \in Procs /\ q # c
        OBVIOUS
      <4> QED
        BY <1>5, <4>1 DEF Reap, Create, Dispatch, Register, Return,
                                      locals, Types, LocalTypeOK
    <3> QED
      BY <1>0, <2>1, <2>3, HandleFrame
  <2>4. \/ \E outcome \in Outcomes : Return(c, outcome)
        \/ fd' = fd /\ \A q \in Callers : q # c => pc'[q] = pc[q] /\ job'[q] = job[q]
    <3>1. CASE Reap(c) \/ Create(c) \/ Register(c)
      BY <3>1, ServiceOutcomes DEF Reap, Create, Register, Goto, locals, Types, LocalTypeOK
    <3>2. CASE Dispatch(c)
      <4> out[c].task \in Tasks
        BY <3>2 DEF Dispatch, Types, CallerTypeOK, WithRecord, Callers, Record
      <4> QED
        BY <3>2 DEF Dispatch, locals, Types, LocalTypeOK
    <3> QED
      BY <1>5, <3>1, <3>2
  <2> QED
    BY <2>2, <2>3, <2>4
<1>6. ASSUME NEW t \in Tasks, Run(t) \/ PutResults(t) \/ PutLogs(t) \/ End(t) PROVE HandleOK'
  <2> /\ file' = file /\ job' = job
      /\ \/ fd' = fd
         \/ fd' = [fd EXCEPT ![t] = FALSE]
      /\ \A q \in Callers : pc'[q] = pc[q]
    BY <1>6 DEF Run, PutResults, PutLogs, End, Goto, locals, Types, LocalTypeOK
  <2> t \in Procs /\ t \notin Callers /\ \A j \in Jobs : file[j] # Nil => file'[j] # Nil
    OBVIOUS
  <2> QED
    BY <1>0, HandleFrame
<1>7. ASSUME NEW s \in Services, StartClose(s) \/ Shutdown(s) \/ CancelNext(s) PROVE HandleOK'
  <2> s \in Callers /\ s \in Procs
    BY <1>a
  <2>1. pc[s] \notin {"flush", "trunc", "flushw"} /\ UNCHANGED <<file, fd>>
    BY <1>7 DEF StartClose, Shutdown, CancelNext, locals
  <2>2. \A q \in Procs : q # s => pc'[q] = pc[q] /\ job'[q] = job[q]
    BY <1>7 DEF StartClose, Shutdown, CancelNext, Goto, locals, Types, LocalTypeOK
  <2> QED
    BY <1>0, <2>1, <2>2, HandleFrame
<1>8. ASSUME NEW p \in Callers, Inactive(p) PROVE HandleOK'
  BY <1>8 DEF Inactive, HandleOK
<1> QED
  BY <1>a, <1>1, <1>2, <1>3, <1>4, <1>5, <1>6, <1>7, <1>8
     DEF Next, ClientStep, TaskStep, CloseStep, Callers, Die

LEMMA InitTypeCorrect == Init => TypeOK
  BY InitTypeOK, InitHandleOK DEF TypeOK

LEMMA StepTypeCorrect ==
  ASSUME TypeOK, [Next]_vars
  PROVE  TypeOK'
<1>1. CASE Next
  BY <1>1, NextTypes, NextHandleOK DEF TypeOK
<1>2. CASE UNCHANGED vars
  BY <1>2 DEF TypeOK, Types, HandleOK, SharedTypeOK, LocalTypeOK, TaskTypeOK, CallerTypeOK,
              vars, shared, locals
<1> QED
  BY <1>1, <1>2

(* Every state has the declared types; open files are in the directory.    *)
THEOREM TypeCorrect == Spec => []TypeOK
<1>1. TypeOK /\ [Next]_vars => TypeOK'
  BY StepTypeCorrect
<1> QED
  BY <1>1, InitTypeCorrect, PTL DEF Spec
=============================================================================
