-------------------------- MODULE QSARestartProofs --------------------------
(***************************************************************************)
(* What holds of the job service when its API processes may end at any     *)
(* point and are started again, and its workers may fail to start, be lost *)
(* or be interrupted: the types, the results of Completed jobs, and that a *)
(* fault harms no submission but those it hits.                            *)
(***************************************************************************)
EXTENDS QSARestart, QSAResultsProofs, QSAOnceProofs

LEMMA CalleeKinds ==
  ASSUME NEW s \in Services
  PROVE  /\ Callees(s) \subseteq Callers /\ Threads(s) \subseteq Tasks
         /\ Callees(s) \subseteq Procs
         /\ s \in Callees(s) /\ \A p \in Callees(s) : p # s => p \in Clients
         /\ \A p \in Callees(s) : p \notin Tasks
         /\ \A p \in Callers : p \notin Threads(s)
  BY Kinds DEF Callees, Threads, Callers

(* A crash takes calls and threads away, and leaves everybody else alone.  *)
LEMMA CrashTypes ==
  ASSUME Types, NEW s \in Services, Crash(s)
  PROVE  Types'
<1> USE CalleeKinds, Kinds
<1>1. /\ \A p \in Procs : \/ p \in Callees(s) /\ pc'[p] = "idle" /\ job'[p] = Nil /\ out'[p] = Nil
                          \/ p \in Threads(s) /\ pc'[p] = "dead" /\ job'[p] = job[p] /\ out'[p] = out[p]
                          \/ /\ p \notin Callees(s)
                             /\ pc'[p] = pc[p] /\ job'[p] = job[p] /\ out'[p] = out[p]
      /\ \A p \in Procs : op'[p] = IF p \in Callees(s) \ {s} THEN "none" ELSE op[p]
  BY DEF Crash, Forget
<1>2. SharedTypeOK'
  <2>1. lock' \in [Locks -> Procs \cup {Nil}]
    BY DEF Crash, Types, SharedTypeOK
  <2>2. registry' \in [Services -> [Jobs -> Tasks \cup {Nil}]]
    BY DEF Crash, Forget, Types, SharedTypeOK
  <2> QED
    BY <2>1, <2>2 DEF Crash, Types, SharedTypeOK
<1>3. LocalTypeOK'
  <2>1. pc' \in [Procs -> TaskLabels \cup CallerLabels]
    BY DEF Crash, Forget, Types, LocalTypeOK, TaskLabels, CallerLabels
  <2>2. op' \in [Procs -> Operations \cup {"none", "execute", "close"}]
    BY DEF Crash, Forget, Types, LocalTypeOK
  <2>3. job' \in [Procs -> Jobs \cup {Nil}] /\ out' \in [Procs -> Record \cup {Nil}]
    BY DEF Crash, Forget, Types, LocalTypeOK
  <2>4. fd' \in [Procs -> BOOLEAN]
    <3>1. fd' = [p \in Procs |-> fd[p] /\ p \notin Callees(s) \cup Threads(s)]
      BY DEF Crash, Forget
    <3>2. \A p \in Procs : (fd[p] /\ p \notin Callees(s) \cup Threads(s)) \in BOOLEAN
      OBVIOUS
    <3> QED
      BY <3>1, <3>2, Zenon
  <2>5. todo' \in [Procs -> SUBSET Jobs] /\ seen' \in [Procs -> SUBSET Jobs]
    BY DEF Crash, Forget, Types, LocalTypeOK
  <2>6. reply' \in [Clients \cup Services -> Outcomes]
    BY ServiceOutcomes DEF Crash, Forget, Types, LocalTypeOK
  <2> QED
    BY <2>1, <2>2, <2>3, <2>4, <2>5, <2>6 DEF LocalTypeOK
<1>4. TaskTypeOK'
  BY <1>1 DEF Types, TaskTypeOK, TaskLabels
<1>5. CallerTypeOK'
  <2> SUFFICES ASSUME NEW p \in Callers PROVE CallerTypeOK!(p)'
    BY DEF CallerTypeOK, Callers
  <2>1. CASE p \in Callees(s)
    BY <1>1, <2>1, ProcsAssumption
       DEF Types, CallerTypeOK, CallerLabels, ServerStates, WithJob, WithRecord, Callers
  <2>2. CASE p \notin Callees(s)
    BY <1>1, <2>2 DEF Types, CallerTypeOK, Callers
  <2> QED
    BY <2>1, <2>2
<1> QED
  BY <1>2, <1>3, <1>4, <1>5 DEF Types

LEMMA CrashHandleOK ==
  ASSUME Types, HandleOK, NEW s \in Services, Crash(s)
  PROVE  HandleOK'
  BY CalleeKinds, Kinds DEF Crash, Forget, HandleOK

(* process.start() fails: the call ends, and the execution never begins.   *)
LEMMA SpawnFrame ==
  ASSUME Types, NEW c \in Clients, SpawnFails(c)
  PROVE  /\ c \in Callers /\ c \in Procs /\ out[c].task \in Tasks /\ out[c].task \in Procs
         /\ \A t \in Tasks : t # c /\ t \in Procs
         /\ \A p \in Procs : p # c => op'[p] = op[p] /\ job'[p] = job[p] /\ out'[p] = out[p]
         /\ \A p \in Procs : p # c /\ p # out[c].task => pc'[p] = pc[p]
         /\ pc'[c] = "idle" /\ pc'[out[c].task] = "void" /\ out'[c] = Nil
<1>1. c \in Callers /\ c \in Procs /\ \A t \in Tasks : t # c /\ t \in Procs
  BY Kinds DEF Callers
<1>2. out[c].task \in Tasks
  BY <1>1 DEF SpawnFails, Types, CallerTypeOK, WithRecord, Callers, Record
<1> QED
  BY <1>1, <1>2 DEF SpawnFails, Types, LocalTypeOK

LEMMA SpawnTypes ==
  ASSUME Types, NEW c \in Clients, SpawnFails(c)
  PROVE  Types'
<1> USE SpawnFrame
<1>1. SharedTypeOK'
  BY DEF SpawnFails, shared, Types, SharedTypeOK
<1>2. LocalTypeOK'
  <2>1. reply' \in [Clients \cup Services -> Outcomes]
    BY ServiceOutcomes DEF SpawnFails, Types, LocalTypeOK
  <2> QED
    BY <2>1 DEF SpawnFails, Types, LocalTypeOK, TaskLabels, CallerLabels
<1>3. TaskTypeOK'
  BY DEF SpawnFails, Types, LocalTypeOK, TaskTypeOK, TaskLabels
<1>4. CallerTypeOK'
  <2> SUFFICES ASSUME NEW p \in Callers PROVE CallerTypeOK!(p)'
    BY DEF CallerTypeOK, Callers
  <2>1. CASE p = c
    <3>1. op'[c] = "none" /\ c \notin Services
      BY ProcsAssumption DEF SpawnFails, Types, LocalTypeOK
    <3> QED
      BY <2>1, <3>1 DEF CallerLabels, ServerStates, WithJob, WithRecord
  <2>2. CASE p # c
    <3>1. p \in Procs /\ p \notin Tasks
      BY Kinds
    <3> QED
      BY <2>2, <3>1 DEF Types, CallerTypeOK, Callers
  <2> QED
    BY <2>1, <2>2
<1> QED
  BY <1>1, <1>2, <1>3, <1>4 DEF Types

LEMMA SpawnHandleOK ==
  ASSUME Types, HandleOK, NEW c \in Clients, SpawnFails(c)
  PROVE  HandleOK'
<1>1. pc[c] = "dispatch" /\ file' = file /\ fd' = fd
  BY DEF SpawnFails
<1> QED
  BY <1>1, SpawnFrame, Kinds DEF HandleOK, Callers

LEMMA EndHandleOK ==
  ASSUME Types, HandleOK, NEW t \in Tasks, End(t)
  PROVE  HandleOK'
  BY Kinds DEF End, Goto, HandleOK, Types, LocalTypeOK

(* Ctrl+C: the execution goes on to its logs, and its file is left as it   *)
(* is or holds the record the execution was writing, maybe in part.        *)
LEMMA InterruptFrame ==
  ASSUME Types, HandleOK, NEW t \in Tasks, Interrupt(t)
  PROVE  /\ t \in Procs /\ JobId[t] \in Jobs /\ job[t] = JobId[t] /\ Alive(t)
         /\ out[t] \in Record /\ out[t].task = t
         /\ UNCHANGED <<stored, registry, sigterm, op, job, out, todo, seen, reply>>
         /\ \A q \in Procs : q # t => pc'[q] = pc[q] /\ fd'[q] = fd[q]
         /\ pc'[t] = "logs" /\ fd'[t] = FALSE
         /\ file' \in [Jobs -> File \cup {Nil}]
         /\ \A j \in Jobs : j # JobId[t] => file'[j] = file[j]
         /\ \/ file'[JobId[t]] = file[JobId[t]]
            \/ /\ (fd[t] /\ pc[t] # "trunc") \/ pc[t] = "overwrite"
               /\ file[JobId[t]] # Nil /\ file'[JobId[t]] \in File /\ file'[JobId[t]].rec = out[t]
<1>1. /\ t \in Procs /\ JobId[t] \in Jobs /\ job[t] = JobId[t] /\ Alive(t)
      /\ out[t] \in Record /\ out[t].task = t /\ Size(out[t]) \in Nat
      /\ file \in [Jobs -> File \cup {Nil}]
  <2>1. out[t] \in Record /\ out[t].task = t /\ job[t] = JobId[t]
    BY DEF Types, TaskTypeOK
  <2>2. Size(out[t]) \in Nat
    BY <2>1, BaseSizeAssumption DEF Size, Record
  <2> QED
    BY <2>1, <2>2, Kinds, SubmissionsAssumption DEF Interrupt, Types, SharedTypeOK
<1>2. CASE file' = file
  BY <1>1, <1>2 DEF Interrupt, Goto, shared, Types, LocalTypeOK
<1>3. CASE file' # file
  <2>1. file[JobId[t]] # Nil /\ file[JobId[t]] \in File
    BY <1>1, <1>3 DEF Interrupt, HandleOK
  <2>2. ASSUME NEW n \in Nat
        PROVE  /\ WrittenPart(file[JobId[t]], out[t], n) \in File
               /\ Written(file[JobId[t]], out[t]) \in File
    BY <1>1, <2>1 DEF WrittenPart, Written, File
  <2>3. PICK g \in File : file' = [file EXCEPT ![JobId[t]] = g] /\ g.rec = out[t]
    <3>1. CASE file' = [file EXCEPT ![job[t]] = Written(@, out[t])]
      BY <1>1, <2>2, <3>1 DEF Written
    <3>2. CASE \E n \in 1 .. Size(out[t]) - 1 :
                 file' = [file EXCEPT ![job[t]] = WrittenPart(@, out[t], n)]
      <4>1. PICK n \in 1 .. Size(out[t]) - 1 :
                   file' = [file EXCEPT ![job[t]] = WrittenPart(@, out[t], n)]
        BY <3>2
      <4>2. n \in Nat
        BY <1>1
      <4> QED
        BY <1>1, <2>2, <4>1, <4>2 DEF WrittenPart
    <3> QED
      BY <1>3, <3>1, <3>2 DEF Interrupt
  <2>4. (fd[t] /\ pc[t] # "trunc") \/ pc[t] = "overwrite"
    BY <1>3 DEF Interrupt
  <2>5. /\ UNCHANGED <<stored, registry, sigterm, op, job, out, todo, seen, reply>>
        /\ \A q \in Procs : q # t => pc'[q] = pc[q] /\ fd'[q] = fd[q]
        /\ pc'[t] = "logs" /\ fd'[t] = FALSE
    BY <1>1 DEF Interrupt, Goto, shared, Types, LocalTypeOK
  <2>6. file' \in [Jobs -> File \cup {Nil}]
    BY <1>1, <2>3
  <2>7. /\ \A j \in Jobs : j # JobId[t] => file'[j] = file[j]
        /\ file'[JobId[t]] \in File /\ file'[JobId[t]].rec = out[t]
    BY <1>1, <2>3
  <2> QED
    BY <1>1, <2>1, <2>4, <2>5, <2>6, <2>7
<1> QED
  BY <1>2, <1>3

LEMMA InterruptTypes ==
  ASSUME Types, HandleOK, NEW t \in Tasks, Interrupt(t)
  PROVE  Types' /\ HandleOK'
<1>0. /\ t \in Procs /\ JobId[t] \in Jobs /\ job[t] = JobId[t] /\ Alive(t)
      /\ out[t] \in Record /\ out[t].task = t
      /\ UNCHANGED <<stored, registry, sigterm, op, job, out, todo, seen, reply>>
      /\ \A q \in Procs : q # t => pc'[q] = pc[q] /\ fd'[q] = fd[q]
      /\ pc'[t] = "logs" /\ fd'[t] = FALSE
      /\ file' \in [Jobs -> File \cup {Nil}]
      /\ \A j \in Jobs : file'[j] = file[j] \/ file'[j] \in File
  BY InterruptFrame
<1>1. SharedTypeOK'
  <2>1. lock' \in [Locks -> Procs \cup {Nil}]
    BY <1>0 DEF Interrupt, Types, SharedTypeOK
  <2> QED
    BY <1>0, <2>1 DEF Types, SharedTypeOK
<1>2. LocalTypeOK'
  <2>1. pc' \in [Procs -> TaskLabels \cup CallerLabels]
    BY <1>0 DEF Interrupt, Goto, Types, LocalTypeOK, TaskLabels
  <2>2. fd' \in [Procs -> BOOLEAN]
    BY <1>0 DEF Interrupt, Types, LocalTypeOK
  <2> QED
    BY <1>0, <2>1, <2>2 DEF Types, LocalTypeOK
<1>3. TaskTypeOK'
  <2> SUFFICES ASSUME NEW u \in Tasks PROVE TaskTypeOK!(u)'
    BY DEF TaskTypeOK
  <2>1. u \in Procs /\ TaskTypeOK!(u)
    BY Kinds DEF Types, TaskTypeOK
  <2>2. pc'[u] \in TaskLabels
    BY <1>0, <2>1 DEF TaskLabels
  <2> QED
    BY <1>0, <2>1, <2>2
<1>4. CallerTypeOK'
  <2> SUFFICES ASSUME NEW p \in Callers PROVE CallerTypeOK!(p)'
    BY DEF CallerTypeOK, Callers
  <2>1. p \in Procs /\ p # t /\ CallerTypeOK!(p)
    BY Kinds DEF Types, CallerTypeOK, Callers
  <2>2. pc'[p] = pc[p] /\ op'[p] = op[p] /\ job'[p] = job[p] /\ out'[p] = out[p]
    BY <1>0, <2>1
  <2> QED
    BY <2>1, <2>2
<1>5. HandleOK'
  <2> SUFFICES ASSUME NEW p \in Procs, fd'[p] PROVE HandleOK!(p)!2'
    BY DEF HandleOK
  <2>1. p # t /\ fd[p] /\ pc'[p] = pc[p] /\ job'[p] = job[p]
    BY <1>0
  <2>2. file'[job[p]] # Nil
    <3>1. file[job[p]] # Nil /\ (p \in Tasks \/ pc[p] \in {"flush", "trunc", "flushw"})
      BY <2>1 DEF HandleOK
    <3>2. job[p] \in Jobs
      BY <3>1, WriterKinds, SubmissionsAssumption DEF Types, TaskTypeOK
    <3> QED
      BY <1>0, <3>1, <3>2, Kinds
  <2> QED
    BY <2>1, <2>2 DEF HandleOK
<1> QED
  BY <1>1, <1>2, <1>3, <1>4, <1>5 DEF Types

(* The submissions that a fault hits are submissions.                      *)
LEMMA LostTypes ==
  ASSUME Types, lost \subseteq Tasks, [RNext]_rvars
  PROVE  lost' \subseteq Tasks
<1>1. ASSUME NEW s \in Services, Crash(s) PROVE lost' \subseteq Tasks
  <2>1. \A p \in Callees(s) : pc[p] \in WithRecord => out[p].task \in Tasks
    BY CalleeKinds, WriterTypes DEF Record
  <2> QED
    BY <1>1, <2>1, CalleeKinds DEF Crash, Interrupted
<1>2. ASSUME NEW c \in Clients, SpawnFails(c) PROVE lost' \subseteq Tasks
  <2>1. out[c].task \in Tasks
    BY <1>2, SpawnFrame
  <2> QED
    BY <1>2, <2>1 DEF SpawnFails
<1>3. CASE Spared(Next)
  BY <1>3 DEF Spared
<1>4. CASE UNCHANGED rvars
  BY <1>4 DEF rvars
<1> QED
  BY <1>1, <1>2, <1>3, <1>4 DEF RNext, Vanish, Interrupt

LEMMA CancelledTypes ==
  ASSUME Types', cancelled \subseteq Tasks, [RNext]_rvars
  PROVE  cancelled' \subseteq Tasks
<1>1. CASE Spared(Next)
  <2>1. \A q \in Callers : pc'[q] = "kill" => out'[q].task \in Tasks
    BY DEF Types, CallerTypeOK, WithRecord, Record, Callers
  <2> QED
    BY <1>1, <2>1 DEF Spared, Callers
<1>2. CASE cancelled' = cancelled
  BY <1>2
<1> QED
  BY <1>1, <1>2 DEF RNext, SpawnFails, Vanish, Interrupt, Crash, rvars

(* What a step with faults is, but for what it records.                    *)
LEMMA RestartSteps ==
  ASSUME [RNext]_rvars
  PROVE  \/ [Next]_vars
         \/ \E c \in Clients : SpawnFails(c)
         \/ \E t \in Tasks : End(t) \/ Interrupt(t)
         \/ \E s \in Services : Crash(s)
  BY DEF RNext, Spared, Vanish, rvars

(* Nobody is forgotten that a fault hit or a call decided to cancel.       *)
LEMMA RecordsGrow ==
  ASSUME [RNext]_rvars
  PROVE  lost \subseteq lost' /\ cancelled \subseteq cancelled'
  BY DEF RNext, Spared, SpawnFails, Vanish, Interrupt, Crash, rvars

(* The types of QSAService survive faults: what a new API process starts   *)
(* with fits what the files and the workers of the old one are.            *)
THEOREM RestartTypeCorrect == RSpec => []RTypeOK
<1>1. RInit => RTypeOK
  BY InitTypeCorrect DEF RInit, RTypeOK
<1>2. RTypeOK /\ [RNext]_rvars => RTypeOK'
  <2> SUFFICES ASSUME TypeOK, lost \subseteq Tasks, cancelled \subseteq Tasks, [RNext]_rvars
               PROVE  RTypeOK'
    BY DEF RTypeOK
  <2>1. lost' \subseteq Tasks
    BY LostTypes DEF TypeOK
  <2>2. ASSUME NEW c \in Clients, SpawnFails(c) PROVE TypeOK'
    BY <2>2, SpawnTypes, SpawnHandleOK DEF TypeOK
  <2>3. ASSUME NEW t \in Tasks, End(t) PROVE TypeOK'
    BY <2>3, TaskTypes, EndHandleOK DEF TypeOK
  <2>4. ASSUME NEW s \in Services, Crash(s) PROVE TypeOK'
    BY <2>4, CrashTypes, CrashHandleOK DEF TypeOK
  <2>5. ASSUME NEW t \in Tasks, Interrupt(t) PROVE TypeOK'
    BY <2>5, InterruptTypes DEF TypeOK
  <2>6. TypeOK'
    BY <2>2, <2>3, <2>4, <2>5, RestartSteps, StepTypeCorrect
  <2>7. cancelled' \subseteq Tasks
    BY <2>6, CancelledTypes DEF TypeOK
  <2> QED
    BY <2>1, <2>6, <2>7 DEF RTypeOK
<1> QED
  BY <1>1, <1>2, PTL DEF RSpec

LEMMA SpawnResults ==
  ASSUME Types, Results, NEW c \in Clients, SpawnFails(c)
  PROVE  Results'
<1>1. \A t \in Tasks : pc'[t] = pc[t] \/ pc'[t] # "update"
  BY SpawnFrame
<1>2. UNCHANGED <<file, stored>>
  BY DEF SpawnFails, shared
<1>3. \A q \in Callers : q # c => pc'[q] = pc[q]
  BY SpawnFrame, Kinds
<1> QED
  BY <1>1, <1>2, <1>3, SpawnFrame, ResultsIdle

LEMMA CrashResults ==
  ASSUME Types, Results, NEW s \in Services, Crash(s)
  PROVE  Results'
<1>1. /\ \A t \in Tasks : out'[t] = out[t] /\ (pc'[t] = "update" => pc[t] = "update")
      /\ \A p \in Callers : out'[p] = Nil \/ (out'[p] = out[p] /\ pc'[p] = pc[p])
  BY CalleeKinds, Kinds DEF Crash, Forget
<1>2. UNCHANGED <<file, stored>>
  BY DEF Crash
<1> QED
  BY <1>1, <1>2 DEF Results, ResultsInHand, CompletedHasResults

LEMMA InterruptResults ==
  ASSUME Types, HandleOK, Results, NEW t \in Tasks, Interrupt(t)
  PROVE  Results'
<1>0. /\ t \in Procs /\ JobId[t] \in Jobs /\ job[t] = JobId[t] /\ Alive(t)
      /\ out[t] \in Record /\ out[t].task = t
      /\ UNCHANGED <<stored, registry, sigterm, op, job, out, todo, seen, reply>>
      /\ \A q \in Procs : q # t => pc'[q] = pc[q] /\ fd'[q] = fd[q]
      /\ pc'[t] = "logs" /\ fd'[t] = FALSE
  BY InterruptFrame
<1>1. /\ out' = out /\ stored' = stored
      /\ \A u \in Tasks : u \in Procs /\ (pc'[u] = "update" => pc[u] = "update")
      /\ \A q \in Callers : pc'[q] = pc[q]
  BY <1>0, Kinds
<1>2. \A j \in Jobs : file'[j] = file[j] \/ (file'[j].rec = out[t] /\ out[t].task = t)
  BY InterruptFrame
<1>3. ResultsInHand'
  BY <1>1, Kinds DEF Results, ResultsInHand
<1>4. CompletedHasResults'
  BY <1>1, <1>2 DEF Results, ResultsInHand, CompletedHasResults
<1> QED
  BY <1>3, <1>4 DEF Results

(* Completed implies stored results also if API processes crash at any     *)
(* point and are started again, and workers are lost or interrupted while  *)
(* they write.                                                             *)
THEOREM CompletedSurvivesRestarts == RSpec => []CompletedHasResults
<1>1. RInit => Results
  BY InitResults DEF RInit
<1>2. RTypeOK /\ Results /\ [RNext]_rvars => Results'
  BY RestartSteps, StepResults, SpawnResults, TaskResults, CrashResults, InterruptResults
     DEF RTypeOK, TypeOK
<1>3. Results => CompletedHasResults
  BY DEF Results
<1> QED
  BY <1>1, <1>2, <1>3, RestartTypeCorrect, PTL DEF RSpec

-----------------------------------------------------------------------------
(* The writers of QSAService, with faults.                                 *)

(* Who has a file open is writing to it.                                   *)
OnlyWritersHold == \A p \in Procs : fd[p] => pc[p] \in {"flush", "trunc", "flushw"}

LEMMA HoldersStep ==
  ASSUME TypeOK, TypeOK', OnlyWritersHold, Locals, Next
  PROVE  OnlyWritersHold'
<1> SUFFICES ASSUME NEW t \in Tasks, fd'[t] PROVE pc'[t] \in {"flush", "trunc", "flushw"}
  <2>1. \A p \in Callers : fd'[p] => pc'[p] \in {"flush", "trunc", "flushw"}
    BY Kinds DEF TypeOK, HandleOK
  <2> QED
    BY <2>1, Kinds DEF OnlyWritersHold
<1>0. t \in Procs /\ t \notin Clients /\ t \notin Services /\ Types /\ HandleOK
      /\ (fd[t] => pc[t] \in {"flush", "trunc", "flushw"})
  BY Kinds, ProcsAssumption DEF OnlyWritersHold, TypeOK
<1>1. CASE Moves(t)
  <2>1. CASE Write(t)
    <3>1. CASE pc[t] \in {"update", "fail"} \/ FlushPart(t)
      BY <1>0, <2>1, <3>1 DEF Write, Update, Check, Flush, Truncate, OpenW, FlushW, FlushPart,
         Fail, Overwrite, OverwritePart, locals
    <3>2. CASE Check(t) \/ Flush(t) \/ OpenW(t) \/ OverwritePart(t)
      BY <1>0, <3>2 DEF Check, UpdateRaises, Flush, OpenW, OverwritePart, Goto, locals, Types,
         LocalTypeOK
    <3>3. CASE Truncate(t) \/ FlushW(t) \/ Overwrite(t)
      BY <1>0, <3>3 DEF Truncate, FlushW, Overwrite, UpdateReturns, UpdateRaises, locals, Types,
         LocalTypeOK
    <3> QED
      BY <2>1, <3>1, <3>2, <3>3 DEF Write, Update, Fail
  <2>2. CASE TaskMoves(t)
    BY <1>0, <2>2 DEF TaskMoves, Run, PutResults, PutLogs, End, locals, Types, LocalTypeOK
  <2> QED
    BY <1>0, <1>1, <2>1, <2>2, Kinds DEF Moves
<1>2. ASSUME NEW p \in Procs, Moves(p), p # t PROVE pc'[t] \in {"flush", "trunc", "flushw"}
  <2>1. pc'[t] = pc[t]
    BY <1>0, <1>2, MovesAlone DEF Alone
  <2>2. fd[t]
    BY <1>0, <1>2, FileMoves
  <2> QED
    BY <1>0, <2>1, <2>2
<1>3. ASSUME NEW d \in Clients, Dispatch(d) PROVE pc'[t] \in {"flush", "trunc", "flushw"}
  BY <1>0, <1>3, DispatchersStay
<1>4. ASSUME NEW d \in Clients, NEW u \in Tasks, SubmitEmpty(d, u)
      PROVE  pc'[t] \in {"flush", "trunc", "flushw"}
  BY <1>0, <1>4, EmptyFrame
<1> QED
  BY <1>1, <1>2, <1>3, <1>4, NextSplit

(* Faults leave the writers that they spare what they hold.                *)
LEMMA FaultsHold ==
  ASSUME TypeOK, TypeOK', Locals, OnlyWritersHold, [RNext]_rvars
  PROVE  OnlyWritersHold'
<1>0. Types
  BY DEF TypeOK
<1>1. CASE Next
  BY <1>1, HoldersStep
<1>2. ASSUME \A p \in Procs : fd'[p] => fd[p] /\ pc'[p] = pc[p]
      PROVE  OnlyWritersHold'
  BY <1>2 DEF OnlyWritersHold
<1>3. ASSUME NEW c \in Clients, SpawnFails(c) PROVE OnlyWritersHold'
  <2>1. pc[c] = "dispatch" /\ fd' = fd /\ op[c] = "submit"
    BY <1>0, <1>3, SpawnFrame DEF SpawnFails, Locals, Cancellations, WithRecord
  <2>2. pc[out[c].task] = "unborn"
    BY <2>1 DEF Locals, Submissions
  <2>3. \A p \in Procs : fd[p] => p # c /\ p # out[c].task
    BY <2>1, <2>2 DEF OnlyWritersHold
  <2> QED
    BY <1>0, <1>2, <1>3, <2>1, <2>3, SpawnFrame
<1>4. ASSUME NEW t \in Tasks, End(t) PROVE OnlyWritersHold'
  <2>1. \A p \in Procs : fd'[p] => fd[p] /\ pc'[p] = pc[p]
    BY <1>0, <1>4, Kinds DEF End, Goto, Types, LocalTypeOK
  <2> QED
    BY <1>2, <2>1
<1>5. ASSUME NEW s \in Services, Crash(s) PROVE OnlyWritersHold'
  <2>1. \A p \in Procs : fd'[p] => fd[p] /\ p \notin Callees(s) \cup Threads(s)
    BY <1>5 DEF Crash, Forget
  <2>2. \A p \in Procs : p \notin Callees(s) \cup Threads(s) => pc'[p] = pc[p]
    BY <1>5 DEF Crash, Forget
  <2> QED
    BY <1>2, <2>1, <2>2
<1>6. ASSUME NEW t \in Tasks, Interrupt(t) PROVE OnlyWritersHold'
  <2>1. \A p \in Procs : fd'[p] => fd[p] /\ pc'[p] = pc[p]
    BY <1>0, <1>6, InterruptFrame DEF TypeOK
  <2> QED
    BY <1>2, <2>1
<1>7. UNCHANGED vars => OnlyWritersHold'
  BY <1>2 DEF vars
<1> QED
  BY <1>1, <1>3, <1>4, <1>5, <1>6, <1>7, RestartSteps

(* What WriterInv says is left by faults, but for the logs of those hit.    *)
FaultInv ==
    /\ Ids /\ Locals /\ AllPlain /\ Reported /\ OnlyWritersHold
    /\ \A t \in Tasks \ lost : LastLogs(t)

(* A fault changes no file; it ends calls, executions, and the submissions *)
(* of executions that never begin.                                         *)
FaultFrame ==
    /\ UNCHANGED <<file, stored>>
    /\ \A q \in Callers :
        \/ pc'[q] = pc[q] /\ op'[q] = op[q] /\ job'[q] = job[q] /\ out'[q] = out[q]
        \/ pc'[q] = "idle" /\ op'[q] # "submit"
    /\ \A t \in Tasks :
        /\ out'[t] = out[t]
        /\ \/ pc'[t] = pc[t] /\ fd'[t] = fd[t]
           \/ pc'[t] = "dead" /\ Alive(t)
           \/ /\ pc'[t] = "void" /\ pc[t] = "unborn"
              /\ \E d \in Clients : op[d] = "submit" /\ out[d].task = t /\ op'[d] # "submit"

LEMMA FaultWriters ==
  ASSUME Types, Ids, Locals, AllPlain, Reported, FaultFrame
  PROVE  /\ Ids' /\ Locals' /\ AllPlain' /\ Reported'
         /\ \A t \in Tasks : LastLogs(t) => LastLogs(t)'
<1>1. \A c \in Clients : c \in Callers /\ (op[c] = "submit" => out[c].task \in Tasks)
  BY DEF Callers, Types, CallerTypeOK, Record
<1>2. \A q \in Callers : pc'[q] \in WithRecord \cup {"reap", "remove"} \/ op'[q] = "submit" =>
        pc'[q] = pc[q] /\ op'[q] = op[q] /\ job'[q] = job[q] /\ out'[q] = out[q]
  BY DEF FaultFrame, WithRecord
<1>3. \A t \in Tasks : HasRunning(t)' <=> HasRunning(t)
  BY DEF FaultFrame, HasRunning
<1>4. Ids'
  <2>1. \A j \in Jobs : file'[j] # Nil => JobId[file'[j].rec.task] = j
    BY DEF Ids, FaultFrame
  <2>2. \A q \in Callers : pc'[q] \in WithRecord => JobId[out'[q].task] = job'[q]
    BY <1>2 DEF Ids
  <2>3. \A c \in Clients : pc'[c] \in {"reap", "remove"} => JobId[out'[c].task] = job'[c]
    BY <1>1, <1>2 DEF Ids
  <2> QED
    BY <2>1, <2>2, <2>3 DEF Ids
<1>5. Submissions'
  <2> SUFFICES ASSUME NEW c \in Clients, op'[c] = "submit" PROVE Submissions!(c)!2'
    BY DEF Submissions
  <2>1. /\ op[c] = "submit" /\ pc'[c] = pc[c] /\ out'[c] = out[c] /\ out[c].task \in Tasks
        /\ Submissions!(c)!2
    BY <1>1, <1>2 DEF Locals, Submissions
  <2>2. \A d \in Clients : op'[d] = "submit" /\ out'[d].task = out'[c].task => d = c
    BY <1>1, <1>2, <2>1
  <2>3. \/ pc'[out[c].task] = pc[out[c].task]
        \/ pc'[out[c].task] = "dead" /\ pc[out[c].task] \notin {"unborn", "void"}
    BY <2>1 DEF FaultFrame, Alive
  <2> QED
    BY <2>1, <2>2, <2>3
<1>6. Cancellations' /\ AllPlain'
  BY <1>2 DEF Locals, Cancellations, AllPlain, FaultFrame
<1>7. Executions'
  BY DEF Locals, Executions, FaultFrame
<1>8. ASSUME NEW t \in Tasks, LastLogs(t) PROVE LastLogs(t)'
  <2>1. (HasRunning(t)' <=> HasRunning(t)) /\ stored' = stored
    BY <1>3 DEF FaultFrame
  <2>2. \/ pc'[t] = pc[t] /\ fd'[t] = fd[t]
        \/ pc'[t] = "dead"
        \/ pc'[t] = "void" /\ pc[t] = "unborn"
    BY DEF FaultFrame
  <2> QED
    BY <1>8, <2>1, <2>2 DEF LastLogs, Ended
<1>9. Reported'
  <2> SUFFICES ASSUME NEW j \in Jobs, NEW t \in Tasks, file[j] # Nil, file[j].rec.task = t,
                      file[j].rec.status \in {"Completed", "Failed"}
               PROVE  HasReported(t)'
    BY DEF Reported, FaultFrame
  <2>1. HasReported(t)
    BY DEF Reported
  <2>2. pc'[t] \notin BeforeReport
    BY <2>1 DEF HasReported, BeforeReport, FaultFrame
  <2> QED
    BY <1>1, <1>2, <2>1, <2>2 DEF HasReported
<1> QED
  BY <1>4, <1>5, <1>6, <1>7, <1>8, <1>9 DEF Locals

LEMMA FaultFrames ==
  ASSUME Types, Locals,
         \/ \E c \in Clients : SpawnFails(c)
         \/ \E t \in Tasks : End(t)
         \/ \E s \in Services : Crash(s)
  PROVE  FaultFrame
<1>1. ASSUME NEW c \in Clients, SpawnFails(c) PROVE FaultFrame
  <2>1. /\ UNCHANGED <<file, stored>> /\ pc[c] = "dispatch"
        /\ op'[c] = "none" /\ pc'[c] = "idle"
    BY <1>1, SpawnFrame DEF SpawnFails, shared, Types, LocalTypeOK
  <2>2. op[c] = "submit" /\ pc[out[c].task] = "unborn"
    BY <1>1, <2>1, SpawnFrame DEF Locals, Submissions, Cancellations, WithRecord
  <2>3. \A q \in Callers :
        \/ pc'[q] = pc[q] /\ op'[q] = op[q] /\ job'[q] = job[q] /\ out'[q] = out[q]
        \/ pc'[q] = "idle" /\ op'[q] # "submit"
    BY <1>1, <2>1, SpawnFrame, Kinds
  <2>4. \A t \in Tasks : out'[t] = out[t] /\ fd'[t] = fd[t] /\ (t = out[c].task \/ pc'[t] = pc[t])
    BY <1>1, SpawnFrame DEF SpawnFails
  <2> QED
    BY <1>1, <2>1, <2>2, <2>3, <2>4, SpawnFrame DEF FaultFrame
<1>2. ASSUME NEW t \in Tasks, End(t) PROVE FaultFrame
  BY <1>2, Kinds DEF End, Goto, shared, FaultFrame, Types, LocalTypeOK
<1>3. ASSUME NEW s \in Services, Crash(s) PROVE FaultFrame
  <2>1. /\ UNCHANGED <<file, stored>>
        /\ pc' = [p \in Procs |-> IF p \in Callees(s) THEN "idle"
                                  ELSE IF p \in Threads(s) THEN "dead" ELSE pc[p]]
        /\ op' = [p \in Procs |-> IF p \in Callees(s) \ {s} THEN "none" ELSE op[p]]
        /\ job' = [p \in Procs |-> IF p \in Callees(s) THEN Nil ELSE job[p]]
        /\ out' = [p \in Procs |-> IF p \in Callees(s) THEN Nil ELSE out[p]]
    BY <1>3 DEF Crash, Forget
  <2>2. op[s] = "close"
    BY DEF Types, CallerTypeOK
  <2>3. \A t \in Threads(s) : Alive(t)
    BY DEF Threads
  <2>4. \A q \in Callers :
        \/ pc'[q] = pc[q] /\ op'[q] = op[q] /\ job'[q] = job[q] /\ out'[q] = out[q]
        \/ pc'[q] = "idle" /\ op'[q] # "submit"
    BY <2>1, <2>2, CalleeKinds, Kinds
  <2>5. \A t \in Tasks : t \in Threads(s) \/ fd'[t] = fd[t]
    <3>1. fd' = [p \in Procs |-> fd[p] /\ p \notin Callees(s) \cup Threads(s)]
      BY <1>3 DEF Crash, Forget
    <3>2. \A t \in Tasks : t \in Procs /\ t \notin Callees(s) /\ fd[t] \in BOOLEAN
      BY CalleeKinds, Kinds DEF Types, LocalTypeOK
    <3> QED
      BY <3>1, <3>2
  <2>6. \A t \in Tasks : /\ out'[t] = out[t]
                         /\ \/ pc'[t] = pc[t] /\ t \notin Threads(s)
                            \/ pc'[t] = "dead" /\ Alive(t)
    BY <2>1, <2>3, CalleeKinds, Kinds
  <2> QED
    BY <2>1, <2>4, <2>5, <2>6 DEF FaultFrame
<1> QED
  BY <1>1, <1>2, <1>3

LEMMA InterruptWriters ==
  ASSUME TypeOK, Ids, Locals, AllPlain, Reported, OnlyWritersHold, NEW t \in Tasks, Interrupt(t)
  PROVE  /\ Ids' /\ Locals' /\ AllPlain' /\ Reported'
         /\ \A u \in Tasks \ {t} : LastLogs(u) => LastLogs(u)'
<1> DEFINE i == JobId[t]
<1>0. /\ t \in Procs /\ i \in Jobs /\ pc[t] \notin {"unborn", "void"} /\ out[t].task = t
      /\ UNCHANGED <<stored, op, job, out>> /\ pc'[t] = "logs"
      /\ \A q \in Procs : q # t => pc'[q] = pc[q] /\ fd'[q] = fd[q]
      /\ \A q \in Callers : q \in Procs /\ q # t
      /\ \A c \in Clients : c \in Callers
  BY InterruptFrame, Kinds DEF TypeOK, Alive, Callers
<1>1. \/ file'[i] = file[i]
      \/ file'[i].rec = out[t] /\ out[t].status \in {"Completed", "Failed"}
  BY <1>0, InterruptFrame DEF TypeOK, OnlyWritersHold, Locals, Executions
<1>2. \A j \in Jobs : j # i => file'[j] = file[j]
  BY InterruptFrame DEF TypeOK
<1>3. \A c \in Clients : op[c] = "submit" /\ out[c].task = t => pc[c] = "register"
  BY <1>0 DEF Locals, Submissions
<1>4. Ids'
  <2>1. \A j \in Jobs : file'[j] # Nil => JobId[file'[j].rec.task] = j
    BY <1>0, <1>1, <1>2 DEF Ids
  <2> QED
    BY <1>0, <2>1 DEF Ids
<1>5. Submissions'
  <2> SUFFICES ASSUME NEW c \in Clients, op'[c] = "submit" PROVE Submissions!(c)!2'
    BY DEF Submissions
  <2>1. op[c] = "submit" /\ pc'[c] = pc[c] /\ Submissions!(c)!2 /\ out[c].task \in Tasks
    BY <1>0 DEF Locals, Submissions, TypeOK, Types, CallerTypeOK, Record, Callers
  <2>2. IF pc'[c] = "register" THEN pc'[out[c].task] \notin {"unborn", "void"}
        ELSE pc'[out[c].task] = pc[out[c].task]
    BY <1>0, <1>3, <2>1, Kinds
  <2> QED
    BY <1>0, <2>1, <2>2
<1>6. Cancellations' /\ Executions'
  <2>1. Cancellations'
    BY <1>0 DEF Locals, Cancellations
  <2>2. Executions'
    BY <1>0, Kinds DEF Locals, Executions
  <2> QED
    BY <2>1, <2>2
<1>7. AllPlain'
  <2>1. \A j \in Jobs : file'[j] # Nil => Plain(file'[j].rec)
    BY <1>1, <1>2 DEF AllPlain, Plain
  <2> QED
    BY <1>0, <2>1 DEF AllPlain
<1>8. Reported'
  <2> SUFFICES ASSUME NEW j \in Jobs, NEW u \in Tasks, file'[j] # Nil, file'[j].rec.task = u,
                      file'[j].rec.status \in {"Completed", "Failed"}
               PROVE  HasReported(u)'
    BY DEF Reported
  <2>1. CASE u = t
    BY <1>0, <1>3, <2>1 DEF HasReported, BeforeReport
  <2>2. CASE u # t
    <3>1. file'[j] = file[j]
      BY <1>0, <1>1, <1>2, <2>2
    <3>2. HasReported(u)
      BY <3>1 DEF Reported
    <3> QED
      BY <1>0, <2>2, <3>2, Kinds DEF HasReported
  <2> QED
    BY <2>1, <2>2
<1>9. ASSUME NEW u \in Tasks \ {t}, LastLogs(u) PROVE LastLogs(u)'
  <2>1. HasRunning(u)' => HasRunning(u)
    BY <1>0, <1>1, <1>2 DEF HasRunning
  <2>2. pc'[u] = pc[u] /\ fd'[u] = fd[u] /\ stored' = stored
    BY <1>0, Kinds
  <2> QED
    BY <1>9, <2>1, <2>2 DEF LastLogs, Ended
<1> QED
  BY <1>4, <1>5, <1>6, <1>7, <1>8, <1>9 DEF Locals

LEMMA StepFaultInv ==
  ASSUME RTypeOK, TypeOK', FaultInv, [RNext]_rvars
  PROVE  FaultInv'
<1>0. /\ TypeOK /\ Types /\ HandleOK
      /\ Ids /\ Locals /\ AllPlain /\ Reported /\ OnlyWritersHold
      /\ \A t \in Tasks \ lost : LastLogs(t)
  BY DEF RTypeOK, TypeOK, FaultInv
<1>1. OnlyWritersHold'
  BY <1>0, FaultsHold
<1>2. lost \subseteq lost'
  BY RecordsGrow
<1>3. CASE Next
  BY <1>0, <1>1, <1>2, <1>3, IdsStep, LocalsStep, AllPlainStep, ReportedStep, LogsStep DEF FaultInv
<1>4. CASE UNCHANGED vars
  <2>1. UNCHANGED <<file, stored, pc, op, job, out, fd>>
    BY <1>4 DEF vars, shared
  <2>2. Ids' /\ AllPlain'
    BY <1>0, <2>1 DEF Ids, AllPlain
  <2>3. Locals'
    BY <1>0, <2>1 DEF Locals, Submissions, Cancellations, Executions
  <2>4. Reported' /\ \A t \in Tasks \ lost : LastLogs(t)'
    BY <1>0, <2>1 DEF LastLogs, HasRunning, Reported, HasReported
  <2> QED
    BY <1>1, <1>2, <2>2, <2>3, <2>4 DEF FaultInv
<1>5. CASE \/ \E c \in Clients : SpawnFails(c)
           \/ \E t \in Tasks : End(t)
           \/ \E s \in Services : Crash(s)
  BY <1>0, <1>1, <1>2, <1>5, FaultFrames, FaultWriters DEF FaultInv
<1>6. ASSUME NEW t \in Tasks, Interrupt(t) PROVE FaultInv'
  <2>1. t \in lost'
    BY <1>6 DEF Interrupt
  <2> QED
    BY <1>0, <1>1, <1>2, <1>6, <2>1, InterruptWriters DEF FaultInv
<1> QED
  BY <1>3, <1>4, <1>5, <1>6, RestartSteps

LEMMA FaultInvariant == RSpec => []FaultInv
<1>1. RInit => FaultInv
  <2> SUFFICES ASSUME Init PROVE Ids /\ Locals /\ AllPlain /\ Reported /\ Logs /\ OnlyWritersHold
    BY DEF RInit, FaultInv, Logs
  <2>1. OnlyWritersHold
    BY DEF Init, OnlyWritersHold
  <2> QED
    BY <2>1, InitWriterInv DEF WriterInv
<1>2. RTypeOK /\ RTypeOK' /\ FaultInv /\ [RNext]_rvars => FaultInv'
  BY StepFaultInv DEF RTypeOK
<1> QED
  BY <1>1, <1>2, RestartTypeCorrect, PTL DEF RSpec

(* No record says Running whose execution has stored its logs, unless a    *)
(* fault hit that very submission: Ctrl+C, which ends an execution without *)
(* an outcome and with its logs, crashes of API processes and lost workers *)
(* do not put the logs of any other job beside a Running record.           *)
THEOREM LogsComeLastWithFaults == RSpec => []LogsFollowOutcomeOrFault
<1>1. RTypeOK /\ FaultInv => LogsFollowOutcomeOrFault
  <2> SUFFICES ASSUME RTypeOK, FaultInv, NEW j \in Jobs, file[j] # Nil,
                      file[j].rec.status = "Running", file[j].rec.task \notin lost
               PROVE  <<file[j].rec.task, "logs">> \notin stored
    BY DEF LogsFollowOutcomeOrFault
  <2>1. file[j].rec.task \in Tasks
    BY DEF RTypeOK, TypeOK, Types, SharedTypeOK, File, Record
  <2>2. HasRunning(file[j].rec.task)
    BY DEF HasRunning
  <2> QED
    BY <2>1, <2>2 DEF FaultInv, LastLogs
<1> QED
  BY <1>1, RestartTypeCorrect, FaultInvariant, PTL

-----------------------------------------------------------------------------
(* What a fault leaves alone.                                              *)

(* The step hits neither the execution t nor a call that creates or        *)
(* cancels its job, and leaves its file.                                   *)
Spares(t) ==
    /\ file'[JobId[t]] = file[JobId[t]] /\ sigterm' = sigterm
    /\ pc'[t] = pc[t] /\ out'[t] = out[t] /\ fd'[t] = fd[t]
    /\ \A q \in Callers :
        \/ /\ pc'[q] = pc[q] /\ op'[q] = op[q] /\ job'[q] = job[q] /\ out'[q] = out[q]
           /\ fd'[q] = fd[q]
        \/ pc'[q] = "idle" /\ op'[q] # "submit" /\ (pc[q] \in WithRecord => out[q].task # t)

LEMMA FaultsSpare ==
  ASSUME OneIdEach, Types, HandleOK, [RNext]_rvars, NEW t \in Tasks, t \notin lost'
  PROVE  t \notin lost /\ (Spared(Next) \/ Spares(t))
<1>1. ASSUME NEW c \in Clients, SpawnFails(c) PROVE t \notin lost /\ Spares(t)
  <2>1. out[c].task # t /\ t \notin lost /\ UNCHANGED <<file, sigterm>> /\ fd' = fd
        /\ op'[c] = "none"
    BY <1>1, SpawnFrame DEF SpawnFails, shared, Types, LocalTypeOK
  <2>2. pc'[t] = pc[t] /\ out'[t] = out[t] /\ fd'[t] = fd[t]
    BY <1>1, <2>1, SpawnFrame
  <2>3. \A q \in Callers : q # c => /\ pc'[q] = pc[q] /\ op'[q] = op[q] /\ job'[q] = job[q]
                                    /\ out'[q] = out[q]
    BY <1>1, SpawnFrame, Kinds
  <2> QED
    BY <1>1, <2>1, <2>2, <2>3, SpawnFrame DEF Spares
<1>2. ASSUME NEW u \in Tasks, Vanish(u) PROVE t \notin lost /\ Spares(t)
  <2>1. u # t /\ t \notin lost /\ End(u)
    BY <1>2 DEF Vanish
  <2>2. UNCHANGED <<file, sigterm, op, job, out>>
        /\ \A q \in Procs : q # u => pc'[q] = pc[q] /\ fd'[q] = fd[q]
    BY <2>1 DEF End, Goto, shared, Types, LocalTypeOK
  <2> QED
    BY <2>1, <2>2, Kinds DEF Spares
<1>3. ASSUME NEW s \in Services, Crash(s) PROVE t \notin lost /\ Spares(t)
  <2>1. t \notin lost /\ t \notin Interrupted(s) /\ t \notin Threads(s) /\ UNCHANGED <<file, sigterm>>
    BY <1>3 DEF Crash
  <2>2. \A q \in Callees(s) : pc[q] \in WithRecord => out[q].task # t
    BY <2>1 DEF Interrupted
  <2>3. /\ pc' = [p \in Procs |-> IF p \in Callees(s) THEN "idle"
                                  ELSE IF p \in Threads(s) THEN "dead" ELSE pc[p]]
        /\ op' = [p \in Procs |-> IF p \in Callees(s) \ {s} THEN "none" ELSE op[p]]
        /\ job' = [p \in Procs |-> IF p \in Callees(s) THEN Nil ELSE job[p]]
        /\ out' = [p \in Procs |-> IF p \in Callees(s) THEN Nil ELSE out[p]]
        /\ fd' = [p \in Procs |-> fd[p] /\ p \notin Callees(s) \cup Threads(s)]
    BY <1>3 DEF Crash, Forget
  <2>4. pc'[t] = pc[t] /\ out'[t] = out[t] /\ fd'[t] = fd[t]
    <3>1. t \in Procs /\ t \notin Callees(s) /\ t \notin Threads(s) /\ fd[t] \in BOOLEAN
      BY <2>1, CalleeKinds, Kinds DEF Types, LocalTypeOK
    <3> QED
      BY <2>3, <3>1
  <2>5. op[s] = "close"
    BY DEF Types, CallerTypeOK
  <2>6. \A q \in Callers : q \notin Callees(s) => fd'[q] = fd[q]
    <3>1. \A q \in Callers : q \in Procs /\ q \notin Threads(s) /\ fd[q] \in BOOLEAN
      BY CalleeKinds, Kinds DEF Types, LocalTypeOK
    <3> QED
      BY <2>3, <3>1
  <2>7. \A q \in Callers : q \notin Callees(s) =>
           pc'[q] = pc[q] /\ op'[q] = op[q] /\ job'[q] = job[q] /\ out'[q] = out[q]
    BY <2>3, CalleeKinds, Kinds
  <2>8. \A q \in Callees(s) : pc'[q] = "idle" /\ op'[q] # "submit"
    BY <2>3, <2>5, CalleeKinds
  <2> QED
    BY <2>1, <2>2, <2>4, <2>6, <2>7, <2>8 DEF Spares
<1>4. CASE Spared(Next)
  BY <1>4 DEF Spared
<1>5. CASE UNCHANGED rvars
  <2>1. UNCHANGED <<file, sigterm, pc, op, job, out, fd, lost>>
    BY <1>5 DEF rvars, vars
  <2> QED
    BY <2>1 DEF Spares
<1>6. ASSUME NEW u \in Tasks, Interrupt(u) PROVE t \notin lost /\ Spares(t)
  <2>1. u # t /\ t \notin lost
    BY <1>6 DEF Interrupt
  <2>2. JobId[t] \in Jobs /\ JobId[t] # JobId[u] /\ t \in Procs
    BY <2>1, Kinds, SubmissionsAssumption DEF OneIdEach
  <2>3. \A q \in Callers : q \in Procs /\ q # u
    BY Kinds
  <2>4. /\ UNCHANGED <<sigterm, op, job, out>>
        /\ \A q \in Procs : q # u => pc'[q] = pc[q] /\ fd'[q] = fd[q]
        /\ \A j \in Jobs : j # JobId[u] => file'[j] = file[j]
    BY <1>6, InterruptFrame
  <2> QED
    BY <2>1, <2>2, <2>3, <2>4 DEF Spares
<1> QED
  BY <1>1, <1>2, <1>3, <1>4, <1>5, <1>6 DEF RNext

LEMMA SparedRecords ==
  ASSUME Ids, Ids', NEW t \in Tasks, Spares(t)
  PROVE  /\ HasRunning(t)' <=> HasRunning(t)
         /\ Fresh(t)' <=> Fresh(t)
         /\ \A c \in Clients : pc[c] \in WithRecord /\ SubmittedBy(c, t) =>
               /\ SubmittedBy(c, t)' /\ pc'[c] = pc[c] /\ job'[c] = job[c] /\ out'[c] = out[c]
               /\ fd'[c] = fd[c]
         /\ \A c \in Clients : SubmittedBy(c, t)' =>
               /\ SubmittedBy(c, t) /\ pc'[c] = pc[c] /\ job'[c] = job[c] /\ out'[c] = out[c]
               /\ fd'[c] = fd[c]
<1>1. HasRunning(t)' <=> HasRunning(t)
  BY SubmissionsAssumption DEF Spares, HasRunning, Ids
<1>2. ASSUME NEW c \in Clients, pc[c] \in WithRecord, SubmittedBy(c, t)
      PROVE  /\ SubmittedBy(c, t)' /\ pc'[c] = pc[c] /\ job'[c] = job[c] /\ out'[c] = out[c]
             /\ fd'[c] = fd[c]
  BY <1>2 DEF Spares, SubmittedBy, Callers
<1>3. ASSUME NEW c \in Clients, SubmittedBy(c, t)'
      PROVE  /\ SubmittedBy(c, t) /\ pc'[c] = pc[c] /\ job'[c] = job[c] /\ out'[c] = out[c]
             /\ fd'[c] = fd[c]
  BY <1>3 DEF Spares, SubmittedBy, Callers
<1>4. Fresh(t)' <=> Fresh(t)
  BY <1>2, <1>3 DEF Spares, Fresh, Submitted, SubmittedBy, WithRecord
<1> QED
  BY <1>1, <1>2, <1>3, <1>4

LEMMA SparedOnce ==
  ASSUME Ids, Ids', NEW t \in Tasks, Spares(t), Fresh(t) => UnknownYet(t), Deletable(t)
  PROVE  (Fresh(t)' => UnknownYet(t)') /\ Deletable(t)'
<1>1. ASSUME Fresh(t)' PROVE UnknownYet(t)'
  <2>1. UnknownYet(t)
    BY <1>1, SparedRecords
  <2>2. \A p \in Callers : pc'[p] \in WithRecord /\ out'[p].task = t => op'[p] = "submit"
    BY <2>1 DEF Spares, UnknownYet, WithRecord
  <2>3. \A j \in Jobs : file'[j] # Nil /\ file'[j].rec.task = t =>
           ~file'[j].whole /\ \E c \in Clients : SubmittedBy(c, t)' /\ pc'[c] = "flushw"
    BY <2>1, SparedRecords DEF Spares, UnknownYet, WithRecord, Ids
  <2> QED
    BY <2>2, <2>3 DEF UnknownYet
<1>2. Deletable(t)'
  BY SparedRecords DEF Spares, Deletable, Callers
<1> QED
  BY <1>1, <1>2

(* A submission that a fault spares stays tended.                          *)
LEMMA SparedTended ==
  ASSUME Types, Ids, Ids', NEW t \in Tasks, Spares(t), Tended(t), OneIdEach
  PROVE  Tended(t)'
<1>0. /\ (Fresh(t) => UnknownYet(t)) /\ Deletable(t) /\ Unstarted(t) /\ Finished(t) /\ Killed(t)
      /\ Reread(t) /\ Readable(t) /\ Writable(t)
  BY DEF Tended
<1>1. /\ HasRunning(t)' <=> HasRunning(t)
      /\ Fresh(t)' <=> Fresh(t)
      /\ file'[JobId[t]] = file[JobId[t]] /\ sigterm' = sigterm /\ pc'[t] = pc[t]
      /\ JobId[t] \in Jobs
  BY SparedRecords, SubmissionsAssumption DEF Spares
<1>2. (Fresh(t)' => UnknownYet(t)') /\ Deletable(t)'
  BY <1>0, SparedOnce
<1>3. Unstarted(t)' /\ Finished(t)'
  BY <1>0, <1>1, SparedRecords DEF Unstarted, Finished, WithRecord
<1>4. Killed(t)'
  <2>1. ASSUME NEW p \in Callers, Cancelling(p, t) PROVE Cancelling(p, t)'
    <3>1. pc[p] \in WithRecord /\ job[p] = JobId[t]
      BY <2>1 DEF Cancelling, WithRecord
    <3>2. out[p].task \in Tasks /\ JobId[out[p].task] = JobId[t]
      BY <3>1 DEF Types, CallerTypeOK, Callers, Record, Ids
    <3>3. out[p].task = t
      BY <3>2 DEF OneIdEach
    <3> QED
      BY <2>1, <3>1, <3>3 DEF Spares, Cancelling
  <2> QED
    BY <1>0, <1>1, <2>1 DEF Killed
<1>5. Reread(t)'
  BY <1>0, <1>1 DEF Reread, Spares
<1>6. Readable(t)' /\ Writable(t)'
  <2>1. Readable(t)'
    BY <1>0, <1>1 DEF Readable, Ids
  <2>2. ASSUME Fresh(t)', NEW c \in Clients, SubmittedBy(c, t)', pc'[c] = "flushw" PROVE Opening(c)'
    <3>1. SubmittedBy(c, t) /\ pc[c] = "flushw" /\ job'[c] = job[c] /\ out'[c] = out[c] /\ fd'[c] = fd[c]
      BY <2>2, SparedRecords
    <3>2. c \in Callers /\ job[c] = JobId[t]
      BY <3>1 DEF Ids, SubmittedBy, Callers, WithRecord
    <3>3. Opening(c)
      BY <1>0, <1>1, <2>2, <3>1 DEF Writable
    <3> QED
      BY <1>1, <3>1, <3>2, <3>3 DEF Opening
  <2> QED
    BY <2>1, <2>2 DEF Writable
<1> QED
  BY <1>2, <1>3, <1>4, <1>5, <1>6 DEF Tended

LEMMA FaultsRegistered ==
  ASSUME Types, Ids, Registered, [RNext]_rvars
  PROVE  Registered'
<1>1. CASE Next
  BY <1>1, RegisteredStep
<1>2. ASSUME registry' = registry PROVE Registered'
  BY <1>2 DEF Registered
<1>3. ASSUME NEW s \in Services, Crash(s) PROVE Registered'
  <2>1. /\ registry' = [registry EXCEPT ![s] = [j \in Jobs |-> Nil]]
        /\ registry \in [Services -> [Jobs -> Tasks \cup {Nil}]]
    BY <1>3 DEF Crash, Forget, Types, SharedTypeOK
  <2>2. \A r \in Services, j \in Jobs : registry'[r][j] \in {Nil, registry[r][j]}
    BY <2>1
  <2> QED
    BY <2>2 DEF Registered
<1>4. \A c \in Clients : SpawnFails(c) => registry' = registry
  BY DEF SpawnFails, shared
<1>5. \A t \in Tasks : End(t) \/ Interrupt(t) => registry' = registry
  BY DEF End, Interrupt, shared
<1>6. UNCHANGED vars => registry' = registry
  BY DEF vars
<1> QED
  BY <1>1, <1>2, <1>3, <1>4, <1>5, <1>6, RestartSteps

(* A job that stays Running without anybody to end it was itself hit by a  *)
(* fault.  Crashes of API processes, which take the registry of workers    *)
(* with them, and lost workers harm the submissions that they hit and      *)
(* leave all others tended.                                                *)
THEOREM FaultsStrandTheirOwn ==
  ASSUME MultiProcess, OneIdEach
  PROVE  RSpec => []OnlyFaultsStrand
<1> DEFINE Inv == Registered /\ \A t \in Tasks \ lost : Tended(t)
<1>1. RInit => Inv
  BY InitTended DEF RInit
<1>2. RTypeOK /\ RTypeOK' /\ FaultInv /\ FaultInv' /\ Inv /\ [RNext]_rvars => Inv'
  <2> SUFFICES ASSUME RTypeOK, RTypeOK', FaultInv, FaultInv', Inv, [RNext]_rvars PROVE Inv'
    OBVIOUS
  <2>0. /\ TypeOK /\ TypeOK' /\ Types /\ Types' /\ HandleOK
        /\ Ids /\ Ids' /\ Locals /\ Locals'
    BY DEF RTypeOK, TypeOK, FaultInv
  <2>1. Registered'
    BY <2>0, FaultsRegistered
  <2> SUFFICES ASSUME NEW t \in Tasks, t \notin lost' PROVE Tended(t)'
    BY <2>1
  <2>2. t \notin lost /\ (Next \/ Spares(t)) /\ Tended(t) /\ LastLogs(t)
    BY <2>0, FaultsSpare DEF Spared, FaultInv
  <2> QED
    BY <2>0, <2>2, TendedStep, SparedTended
<1>3. RTypeOK /\ FaultInv /\ Inv => OnlyFaultsStrand
  <2> SUFFICES ASSUME RTypeOK, FaultInv, Inv, NEW j \in Jobs, file[j] # Nil,
                      file[j].rec.task \notin lost
               PROVE  Owned(j)
    BY DEF OnlyFaultsStrand
  <2>1. file[j].rec.task \in Tasks /\ Types
    BY DEF RTypeOK, TypeOK, Types, SharedTypeOK, File, Record
  <2> QED
    BY <2>1, TendedOwned DEF FaultInv
<1> QED
  BY <1>1, <1>2, <1>3, RestartTypeCorrect, FaultInvariant, PTL DEF RSpec

-----------------------------------------------------------------------------
(* The texts of the files: the lock of a worker excludes nobody, but a     *)
(* record that no caller has decided to cancel has one writer at a time.   *)

(* No caller has decided to cancel the submission, or will end its worker. *)
Uncancelled(t) ==
    /\ t \notin sigterm
    /\ \A p \in Callers : pc[p] \in WithRecord /\ out[p].task = t => op[p] = "submit"

Writing(p) == pc[p] \in {"openw", "flush", "trunc", "flushw", "overwrite"}

(* The text of a record is complete unless its writer has the file open,   *)
(* which then will complete it: no longer text is beneath what it writes,  *)
(* or it cuts what is, and what is there is its own or what it found.      *)
Sound(t) ==
    file[JobId[t]] # Nil =>
        /\ Parses(file[JobId[t]]) \/ \E p \in Procs : fd[p] /\ job[p] = JobId[t]
        /\ \A p \in Procs : fd[p] /\ job[p] = JobId[t] /\ pc[p] = "flushw" =>
              file[JobId[t]].len <= Size(out[p])
        /\ \A p \in Procs : fd[p] /\ job[p] = JobId[t] /\ pc[p] \in {"flush", "flushw"} =>
              ~Crossed(p)
        /\ fd[t] /\ pc[t] = "trunc" => file[JobId[t]].rec = out[t] /\ file[JobId[t]].whole

LEMMA UncancelledStep ==
  ASSUME OneIdEach, Types, Ids, Locals, Registered, Next, NEW t \in Tasks, Uncancelled(t),
         \A p \in Callers : pc'[p] = "kill" => out'[p].task # t
  PROVE  Uncancelled(t)'
<1>1. t \notin sigterm'
  <2> SUFFICES ASSUME t \in sigterm' PROVE FALSE
    OBVIOUS
  <2>1. PICK p \in Callers : Kill(p) /\ registry[Server(p)][job[p]] = t
    BY Terminations DEF Uncancelled
  <2>2. /\ pc[p] = "kill" /\ job[p] \in Jobs /\ Server(p) \in Services
        /\ out[p].task \in Tasks /\ JobId[out[p].task] = job[p]
    BY <2>1, ProcsAssumption
       DEF Kill, Server, Ids, Types, CallerTypeOK, WithJob, WithRecord, Record, Callers
  <2>3. JobId[t] = job[p]
    BY <2>1, <2>2, Kinds DEF Registered
  <2>4. op[p] = "submit"
    BY <2>2, <2>3 DEF OneIdEach, Uncancelled, WithRecord
  <2>5. p \in Clients
    BY <2>4 DEF Types, CallerTypeOK, Callers
  <2> QED
    BY <2>2, <2>4, <2>5 DEF Locals, Submissions, Submitting
<1>2. ASSUME NEW q \in Callers, pc'[q] \in WithRecord, out'[q].task = t, op'[q] # "submit"
      PROVE  FALSE
  <2>0. q \in Procs /\ q \notin Tasks /\ \A c \in Clients : c \in Callers
    BY Kinds DEF Callers
  <2>1. ASSUME pc'[q] = pc[q], op'[q] = op[q], out'[q] = out[q] PROVE FALSE
    BY <1>2, <2>1 DEF Uncancelled
  <2>2. ASSUME NEW p \in Procs, Moves(p) PROVE FALSE
    <3>1. CASE p = q
      <4>1. op'[q] = op[q] /\ (pc'[q] = "kill" \/ (pc[q] \in WithRecord /\ out'[q].task = out[q].task))
        BY <1>2, <2>2, <3>1, CancellerMoves DEF WithRecord
      <4> QED
        BY <1>2, <4>1 DEF Uncancelled
    <3>2. CASE p # q
      BY <2>0, <2>1, <2>2, <3>2, MovesAlone DEF Alone
    <3> QED
      BY <3>1, <3>2
  <2>3. ASSUME NEW d \in Clients, Dispatch(d) PROVE FALSE
    <3>1. q = d => op'[q] = "submit" \/ pc'[q] = "idle"
      BY <2>3, DispatchersStay, DispatchFrame
    <3> QED
      BY <1>2, <2>1, <2>3, <3>1, DispatchersStay DEF WithRecord
  <2>4. ASSUME NEW d \in Clients, NEW u \in Tasks, SubmitEmpty(d, u) PROVE FALSE
    BY <1>2, <2>0, <2>1, <2>4, EmptyFrame
  <2> QED
    BY <2>2, <2>3, <2>4, NextSplit
<1> QED
  BY <1>1, <1>2 DEF Uncancelled

(* Two that write to the same file are one.                                *)
LEMMA SoleWriter ==
  ASSUME OneIdEach, Types, Ids, Locals, NEW t \in Tasks, Uncancelled(t),
         NEW p \in Procs, NEW q \in Procs, Writing(p), Writing(q),
         job[p] = JobId[t], job[q] = JobId[t]
  PROVE  p = q
<1>1. ASSUME NEW r \in Procs, Writing(r), job[r] = JobId[t]
      PROVE  /\ out[r].task = t
             /\ r = t \/ (r \in Clients /\ op[r] = "submit")
  <2>1. out[r].task = t
    <3>1. JobId[out[r].task] = job[r] /\ out[r].task \in Tasks
      BY <1>1, OwnIds, WriterKinds DEF Writing, Record
    <3> QED
      BY <1>1, <3>1 DEF OneIdEach
  <2>2. CASE r \in Tasks
    BY <1>1, <2>1, <2>2, WriterKinds DEF Writing
  <2>3. CASE r \in Callers
    <3>1. op[r] = "submit"
      BY <1>1, <2>1, <2>3 DEF Writing, WithRecord, Uncancelled
    <3> QED
      BY <2>1, <2>3, <3>1 DEF Types, CallerTypeOK, Callers
  <2> QED
    BY <2>2, <2>3, Kinds
<1>2. ASSUME NEW c \in Clients, op[c] = "submit", Writing(c), out[c].task = t, Writing(t)
      PROVE  FALSE
  BY <1>2 DEF Locals, Submissions, Writing
<1>3. CASE p \in Clients /\ q \in Clients /\ op[p] = "submit" /\ op[q] = "submit"
  BY <1>1, <1>3 DEF Locals, Submissions
<1> QED
  BY <1>1, <1>2, <1>3

(* A Failed record is longer than the record it is written over, which     *)
(* nobody has reported to be Completed or Failed.                          *)
LEMMA FailureIsLonger ==
  ASSUME OneIdEach, TypeOK, Ids, Locals, AllPlain, Reported, NEW p \in Procs,
         pc[p] = "overwrite", file[job[p]] # Nil
  PROVE  Size(file[job[p]].rec) <= Size(out[p])
<1>0. /\ Types /\ job[p] \in Jobs /\ out[p] \in Record /\ JobId[out[p].task] = job[p]
      /\ p \in Tasks => out[p].task = p
      /\ p \in Callers => pc[p] \in WithRecord
  BY WriterKinds, OwnIds DEF TypeOK
<1> DEFINE t == out[p].task
           r == file[job[p]].rec
<1>1. r \in Record /\ r.task = t /\ t \in Tasks
  BY <1>0 DEF OneIdEach, Ids, Types, SharedTypeOK, File, Record
<1>2. out[p].status = "Failed"
  <2>1. CASE p \in Tasks
    BY <2>1 DEF Locals, Executions
  <2>2. CASE p \in Callers
    <3>1. op[p] = "submit" /\ p \in Clients
      BY <1>0, <2>2 DEF Locals, Cancellations, Types, CallerTypeOK, Callers
    <3> QED
      BY <3>1 DEF Locals, Submissions
  <2> QED
    BY <2>1, <2>2, Kinds
<1>3. r.status \notin {"Completed", "Failed"}
  <2> SUFFICES ASSUME r.status \in {"Completed", "Failed"} PROVE FALSE
    OBVIOUS
  <2>1. HasReported(t)
    BY <1>0, <1>1 DEF Reported
  <2>2. CASE p \in Tasks
    BY <1>0, <2>1, <2>2 DEF HasReported, BeforeReport
  <2>3. CASE p \in Callers
    <3>1. op[p] = "submit" /\ p \in Clients
      BY <1>0, <2>3 DEF Locals, Cancellations, Types, CallerTypeOK, Callers
    <3> QED
      BY <2>1, <3>1 DEF HasReported
  <2> QED
    BY <2>2, <2>3, Kinds
<1>4. ~r.usage /\ r.reason = 0
  <2>1. r.status \in {"Running", "Cancelled"}
    BY <1>1, <1>3 DEF Record, Statuses, Terminal
  <2>2. Plain(r)
    BY <1>0 DEF AllPlain
  <2> QED
    BY <2>1, <2>2 DEF Plain
<1> HIDE DEF r
<1>5. Size(r) <= BaseSize[t] + 1
  BY <1>1, <1>4, BaseSizeAssumption DEF Size
<1>6. BaseSize[t] + 1 <= Size(out[p])
  BY <1>0, <1>2, BaseSizeAssumption DEF Size, Record, Terminal
<1>7. Size(r) \in Nat /\ Size(out[p]) \in Nat /\ BaseSize[t] \in Nat
  BY <1>0, <1>1, BaseSizeAssumption DEF Size, Record
<1>8. Size(r) <= Size(out[p])
  BY <1>5, <1>6, <1>7
<1> QED
  BY <1>8 DEF r

(* A write leaves the text of its record sound.                            *)
LEMMA SoundWrite ==
  ASSUME OneIdEach, TypeOK, FaultInv, NEW t \in Tasks, Uncancelled(t), Sound(t),
         NEW p \in Procs, Moves(p), Writing(p), job[p] = JobId[t], p \in Tasks => pc'[p] # "dead"
  PROVE  Sound(t)'
<1> DEFINE j == JobId[t]
<1> SUFFICES ASSUME file'[j] # Nil
             PROVE  /\ Parses(file'[j]) \/ \E q \in Procs : fd'[q] /\ job'[q] = j
                    /\ \A q \in Procs : fd'[q] /\ job'[q] = j /\ pc'[q] = "flushw" =>
                          file'[j].len <= Size(out'[q])
                    /\ \A q \in Procs : fd'[q] /\ job'[q] = j /\ pc'[q] \in {"flush", "flushw"} =>
                          ~Crossed(q)'
                    /\ fd'[t] /\ pc'[t] = "trunc" => file'[j].rec = out'[t] /\ file'[j].whole
  BY DEF Sound
<1>0. /\ Types /\ HandleOK /\ Ids /\ Locals /\ AllPlain /\ Reported /\ OnlyWritersHold
      /\ j \in Jobs /\ j = job[p] /\ out[p] \in Record /\ Size(out[p]) \in Nat
      /\ t \in Procs /\ job[t] = j
  <2>1. out[p] \in Record
    BY WriterKinds DEF Writing, TypeOK
  <2> QED
    BY <2>1, Kinds, SubmissionsAssumption, BaseSizeAssumption
       DEF TypeOK, FaultInv, Size, Record, Types, TaskTypeOK
<1>a. /\ p \in Tasks => p = t
      /\ p \in Callers => p \in Clients /\ op[p] = "submit"
  <2>1. p \in Callers => pc[p] \in WithRecord /\ out[p].task = t
    BY <1>0, OwnIds DEF Writing, WithRecord, OneIdEach, Record
  <2> QED
    BY <1>0, <2>1 DEF OneIdEach, Uncancelled, Types, TaskTypeOK, CallerTypeOK, Callers
<1>b. pc[p] \in {"flush", "trunc"} => p = t
  BY <1>a, Kinds, <1>0 DEF Locals, Submissions, Submitting
<1>c. ASSUME file'[j].rec = out'[p] PROVE ~Crossed(p)' \/ job'[p] # j
  BY <1>c DEF Crossed
<1>1. \A q \in Procs : fd[q] /\ job[q] = j => q = p
  <2> SUFFICES ASSUME NEW q \in Procs, fd[q], job[q] = j PROVE q = p
    OBVIOUS
  <2>1. Writing(q)
    BY <1>0 DEF OnlyWritersHold, Writing
  <2> QED
    BY <1>0, <2>1, SoleWriter
<1>2. \A q \in Procs : fd'[q] /\ job'[q] = j => q = p
  <2> SUFFICES ASSUME NEW q \in Procs, fd'[q], job'[q] = j, q # p PROVE FALSE
    OBVIOUS
  <2>1. job[q] = j
    BY <1>0, OthersStay
  <2>2. fd[q]
    BY <1>0, FileMoves
  <2> QED
    BY <1>1, <2>1, <2>2
<1>3. fd'[t] /\ pc'[t] = "trunc" => p = t
  <2>1. ASSUME p # t, fd'[t], pc'[t] = "trunc" PROVE FALSE
    <3>1. job'[t] = j
      BY <1>0, <2>1, OthersStay
    <3> QED
      BY <1>0, <1>2, <2>1, <3>1
  <2> QED
    BY <2>1
<1>4. file[j] # Nil => file[j] \in File /\ file[j].len \in Nat
  BY <1>0 DEF Types, SharedTypeOK, File
<1>6. CASE OpenW(p)
  <2>1. /\ file'[j] = Empty(out[p]) /\ fd'[p] /\ pc'[p] = "flushw" /\ job' = job /\ out' = out
    BY <1>0, <1>6 DEF OpenW, Goto, Types, SharedTypeOK, LocalTypeOK
  <2>2. file'[j].len <= Size(out'[p]) /\ file'[j].rec = out'[p]
    BY <1>0, <2>1 DEF Empty
  <2> QED
    BY <1>0, <1>2, <1>3, <1>c, <2>1, <2>2
<1>7. CASE ~fd[p] /\ (Flush(p) \/ FlushPart(p) \/ Truncate(p) \/ FlushW(p))
  <2>1. file'[j] = file[j]
    BY <1>0, <1>7 DEF Flush, FlushPart, Truncate, FlushW, Dump, Types, SharedTypeOK
  <2>2. ~fd'[p]
    BY <1>0, <1>7 DEF Flush, FlushPart, Truncate, FlushW, UpdateReturns, Return, locals, Types,
       LocalTypeOK
  <2>3. Parses(file[j])
    BY <1>1, <1>7, <2>1 DEF Sound
  <2> QED
    BY <1>2, <1>3, <2>1, <2>2, <2>3
<1>8. CASE fd[p] /\ Flush(p)
  <2>1. p = t /\ file[j] # Nil /\ ~Crossed(p)
    BY <1>0, <1>8, <1>b DEF Flush, HandleOK, Sound
  <2>2. /\ file'[j] = Written(file[j], out[p]) /\ fd' = fd /\ pc'[p] = "trunc" /\ job' = job
        /\ out' = out
    BY <1>0, <1>8, <2>1 DEF Flush, Dump, Goto, locals, Types, SharedTypeOK, LocalTypeOK
  <2> QED
    BY <1>0, <1>2, <1>8, <2>1, <2>2 DEF Written
<1>9. CASE fd[p] /\ FlushPart(p)
  <2>1. /\ file'[j] = WrittenPart(file[j], out[p], Buffer) /\ UNCHANGED <<fd, pc, job, out>>
        /\ Size(out[p]) > Buffer /\ pc[p] \in {"flush", "flushw"}
    BY <1>0, <1>9 DEF FlushPart, locals, Types, SharedTypeOK
  <2>2. ASSUME pc[p] = "flushw" PROVE file'[j].len <= Size(out[p])
    <3>1. file[j] # Nil
      BY <1>0, <1>9 DEF HandleOK
    <3>2. file[j].len <= Size(out[p]) /\ file[j].len \in Nat
      BY <1>0, <1>4, <1>9, <2>2, <3>1 DEF Sound
    <3> QED
      BY <1>0, <2>1, <3>2, BaseSizeAssumption DEF WrittenPart
  <2>3. file'[j].rec = out'[p]
    BY <2>1 DEF WrittenPart
  <2> QED
    BY <1>0, <1>2, <1>3, <1>9, <1>c, <2>1, <2>2, <2>3
<1>10. CASE fd[p] /\ Truncate(p)
  <2>1. p = t /\ pc[p] = "trunc"
    BY <1>10, <1>b DEF Truncate
  <2>2. file[j] # Nil /\ file[j].rec = out[p] /\ file[j].whole
    BY <1>0, <1>10, <2>1 DEF HandleOK, Sound
  <2>3. file'[j] = Truncated(file[j], Size(out[p])) /\ ~fd'[p]
    BY <1>0, <1>10, <2>1 DEF Truncate, UpdateReturns, Types, SharedTypeOK, LocalTypeOK
  <2>4. Parses(file'[j])
    BY <1>0, <1>4, <2>2, <2>3 DEF Truncated, Parses, File
  <2> QED
    BY <1>2, <1>3, <2>3, <2>4
<1>11. CASE fd[p] /\ FlushW(p)
  <2>1. file[j] # Nil /\ pc[p] = "flushw"
    BY <1>0, <1>11 DEF HandleOK, FlushW
  <2>2. file[j].len <= Size(out[p]) /\ file[j].len \in Nat
    BY <1>0, <1>4, <1>11, <2>1 DEF Sound
  <2>3. file'[j] = Written(file[j], out[p]) /\ ~fd'[p]
    <3>1. ~Crossed(p)
      BY <1>0, <1>11, <2>1 DEF Sound
    <3>2. file'[j] = Written(file[j], out[p])
      BY <1>0, <1>11, <3>1 DEF FlushW, Dump, Types, SharedTypeOK
    <3> QED
      BY <1>0, <1>11, <3>2 DEF FlushW, UpdateReturns, Return, Types, LocalTypeOK
  <2>4. Parses(file'[j])
    BY <1>0, <2>2, <2>3 DEF Written, Parses
  <2> QED
    BY <1>2, <1>3, <2>3, <2>4
<1>12. CASE Overwrite(p) \/ OverwritePart(p)
  <2>1. pc[p] = "overwrite" /\ ~fd[p] /\ file[j] # Nil
    BY <1>0, <1>12 DEF OnlyWritersHold, Overwrite, OverwritePart
  <2>2. Parses(file[j])
    BY <1>1, <2>1 DEF Sound
  <2>3. file[j].len <= Size(out[p]) /\ file[j].len \in Nat
    BY <1>0, <1>4, <2>1, <2>2, FailureIsLonger DEF Parses
  <2>4. CASE Overwrite(p)
    <3>1. file'[j] = Written(file[j], out[p]) /\ ~fd'[p]
      BY <1>0, <2>1, <2>4 DEF Overwrite, UpdateReturns, Return, Types, SharedTypeOK, LocalTypeOK
    <3>2. Parses(file'[j])
      BY <1>0, <2>3, <3>1 DEF Written, Parses
    <3> QED
      BY <1>2, <1>3, <3>1, <3>2
  <2>5. CASE OverwritePart(p)
    <3>1. /\ file'[j] = WrittenPart(file[j], out[p], Buffer) /\ fd'[p] /\ job' = job /\ out' = out
          /\ pc'[p] = "flushw" /\ Size(out[p]) > Buffer
      BY <1>0, <2>5 DEF OverwritePart, Goto, Types, SharedTypeOK, LocalTypeOK
    <3>2. file'[j].len <= Size(out'[p]) /\ file'[j].rec = out'[p]
      BY <1>0, <2>3, <3>1, BaseSizeAssumption DEF WrittenPart
    <3> QED
      BY <1>0, <1>2, <1>3, <1>c, <3>1, <3>2
  <2> QED
    BY <1>12, <2>4, <2>5
<1>13. \/ OpenW(p) \/ Flush(p) \/ FlushPart(p) \/ Truncate(p) \/ FlushW(p)
       \/ Overwrite(p) \/ OverwritePart(p)
  BY <1>0, WriteMoves DEF Writing
<1> QED
  BY <1>6, <1>7, <1>8, <1>9, <1>10, <1>11, <1>12, <1>13

(* A step that does not write to the file leaves its text sound.           *)
LEMMA SoundElsewhere ==
  ASSUME TypeOK, TypeOK', FaultInv, NEW t \in Tasks, Sound(t),
         NEW p \in Procs, Moves(p), ~(Writing(p) /\ job[p] = JobId[t])
  PROVE  Sound(t)'
<1> DEFINE j == JobId[t]
<1> SUFFICES ASSUME file'[j] # Nil
             PROVE  /\ Parses(file'[j]) \/ \E q \in Procs : fd'[q] /\ job'[q] = j
                    /\ \A q \in Procs : fd'[q] /\ job'[q] = j /\ pc'[q] = "flushw" =>
                          file'[j].len <= Size(out'[q])
                    /\ \A q \in Procs : fd'[q] /\ job'[q] = j /\ pc'[q] \in {"flush", "flushw"} =>
                          ~Crossed(q)'
                    /\ fd'[t] /\ pc'[t] = "trunc" => file'[j].rec = out'[t] /\ file'[j].whole
  BY DEF Sound
<1>0. /\ Types /\ HandleOK /\ Locals /\ OnlyWritersHold
      /\ j \in Jobs /\ t \in Procs /\ job[t] = j
  BY Kinds, SubmissionsAssumption DEF TypeOK, FaultInv, Types, TaskTypeOK
<1>1. /\ file'[j] = file[j]
      /\ \A q \in Procs : q # p /\ job[q] = j => fd'[q] = fd[q]
  <2>1. file \in [Jobs -> File \cup {Nil}] /\ \A q \in Procs : fd[q] \in BOOLEAN
    BY <1>0 DEF Types, SharedTypeOK, LocalTypeOK
  <2>2. CASE /\ p \in Clients /\ pc[p] = "remove" /\ file' = [file EXCEPT ![job[p]] = Nil]
             /\ \A q \in Procs : fd'[q] = (fd[q] /\ job[q] # job[p])
    <3>1. job[p] # j
      BY <1>0, <2>1, <2>2
    <3> QED
      BY <1>0, <2>1, <2>2, <3>1
  <2> QED
    BY <1>0, <2>2, FileMoves DEF Writing
<1>2. \A q \in Procs : q # p => /\ pc'[q] = pc[q] /\ job'[q] = job[q] /\ out'[q] = out[q]
                                /\ (job[q] = j => fd'[q] = fd[q])
  BY <1>0, <1>1, MovesAlone DEF Alone
<1>3. ASSUME fd'[p], job'[p] = j, pc'[p] \in {"flushw", "trunc"} PROVE FALSE
  <2>1. CASE p \in Tasks
    BY <1>0, <1>3, <2>1, ExecutionMoves DEF Writing
  <2>2. CASE p \in Callers /\ op'[p] = "submit"
    <3>1. p \in Clients
      BY <2>2 DEF TypeOK, Types, CallerTypeOK, Callers
    <3> QED
      BY <1>0, <1>3, <2>2, <3>1, SubmitterMoves DEF Writing
  <2>3. CASE p \in Callers /\ op'[p] # "submit"
    BY <1>0, <1>3, <2>3, CancellerMoves DEF Writing, WithRecord
  <2> QED
    BY <2>1, <2>2, <2>3, Kinds
<1>4. Parses(file'[j]) \/ \E q \in Procs : fd'[q] /\ job'[q] = j
  <2>1. ASSUME NEW q \in Procs, fd[q], job[q] = j PROVE fd'[q] /\ job'[q] = j
    <3>1. q # p
      BY <1>0, <2>1 DEF OnlyWritersHold, Writing
    <3> QED
      BY <1>2, <2>1, <3>1
  <2> QED
    BY <1>1, <2>1 DEF Sound
<1>5. \A q \in Procs : fd'[q] /\ job'[q] = j /\ pc'[q] = "flushw" =>
         file'[j].len <= Size(out'[q])
  BY <1>1, <1>2, <1>3 DEF Sound
<1>6. fd'[t] /\ pc'[t] = "trunc" => file'[j].rec = out'[t] /\ file'[j].whole
  <2>1. CASE t # p
    BY <1>0, <1>1, <1>2, <2>1 DEF Sound
  <2>2. CASE t = p
    <3>1. job'[t] = j
      BY <1>0, <2>2, ExecutionMoves
    <3> QED
      BY <1>3, <2>2, <3>1
  <2> QED
    BY <2>1, <2>2
<1>7. ASSUME NEW q \in Procs, fd'[q], job'[q] = j, pc'[q] \in {"flush", "flushw"}
      PROVE  ~Crossed(q)'
  <2>1. CASE q # p
    <3>1. fd[q] /\ job[q] = j /\ pc[q] = pc'[q] /\ out'[q] = out[q] /\ file[j] # Nil
      BY <1>1, <1>2, <1>7, <2>1
    <3>2. ~Crossed(q)
      BY <1>7, <3>1 DEF Sound
    <3> QED
      BY <1>1, <1>7, <3>1, <3>2 DEF Crossed
  <2>2. CASE q = p
    <3>1. pc'[p] = "flush"
      BY <1>3, <1>7, <2>2
    <3>2. p \in Callers /\ op'[p] = "submit" => p \in Clients
      BY DEF TypeOK, Types, CallerTypeOK, Callers
    <3>3. job'[p] = job[p] /\ pc[p] = "check"
      <4>1. CASE p \in Tasks
        BY <1>0, <1>7, <2>2, <3>1, <4>1, ExecutionMoves DEF Writing
      <4>2. CASE p \in Callers /\ op'[p] = "submit"
        BY <1>0, <3>1, <3>2, <4>2, SubmitterMoves
      <4>3. CASE p \in Callers /\ op'[p] # "submit"
        BY <1>0, <1>7, <2>2, <3>1, <4>3, CancellerMoves DEF Writing, WithRecord
      <4> QED
        BY <4>1, <4>2, <4>3, Kinds
    <3>4. Check(p) /\ ~UpdateRaises(p)
      BY <1>0, <3>1, <3>3, WriteMoves, UpdateEnds, Kinds
    <3>5. file'[j].whole /\ file'[j].rec.status = "Running"
      BY <1>1, <1>7, <2>2, <3>3, <3>4 DEF Check, Loads, Parses
    <3> QED
      BY <1>7, <2>2, <3>1, <3>5 DEF Crossed
  <2> QED
    BY <2>1, <2>2
<1> QED
  BY <1>4, <1>5, <1>6, <1>7

LEMMA SoundStep ==
  ASSUME OneIdEach, MultiProcess, TypeOK, TypeOK', FaultInv, Next,
         NEW t \in Tasks, Uncancelled(t), Sound(t)
  PROVE  Sound(t)'
<1>0. Types /\ Locals /\ OnlyWritersHold /\ t \in Procs
  BY Kinds DEF TypeOK, FaultInv
<1>1. ASSUME NEW p \in Procs, Moves(p) PROVE Sound(t)'
  <2>1. Writing(p) /\ job[p] = JobId[t] /\ p \in Tasks => pc'[p] # "dead"
    <3>1. p \in Tasks /\ job[p] = JobId[t] => p = t
      BY <1>0 DEF OneIdEach, Types, TaskTypeOK
    <3> QED
      BY <1>0, <3>1, DeathsAreKills DEF Writing, Uncancelled
  <2> QED
    BY <1>1, <2>1, SoundWrite, SoundElsewhere
<1>2. ASSUME NEW d \in Clients, Dispatch(d) PROVE Sound(t)'
  <2>1. /\ UNCHANGED <<file, fd>>
        /\ \A q \in Procs : q # d => job'[q] = job[q] /\ out'[q] = out[q]
        /\ \A q \in Procs : q # d /\ q # out[d].task => pc'[q] = pc[q]
        /\ pc[d] = "dispatch" /\ pc[out[d].task] = "unborn"
        /\ d \in Procs /\ out[d].task \in Procs
    BY <1>0, <1>2, DispatchFrame, DispatchersStay, Kinds DEF Callers
  <2>2. \A q \in Procs : fd[q] => pc'[q] = pc[q] /\ job'[q] = job[q] /\ out'[q] = out[q]
    BY <1>0, <2>1 DEF OnlyWritersHold
  <2> QED
    BY <1>0, <2>1, <2>2 DEF Sound, Crossed
<1>3. \A c \in Clients, u \in Tasks : ~SubmitEmpty(c, u)
  BY DEF SubmitEmpty
<1> QED
  BY <1>1, <1>2, <1>3, NextSplit

LEMMA SparedSound ==
  ASSUME OneIdEach, TypeOK, TypeOK', FaultInv, NEW t \in Tasks, Spares(t), Sound(t)
  PROVE  Sound(t)'
<1> DEFINE j == JobId[t]
<1>0. Types /\ Types' /\ Ids /\ OnlyWritersHold
  BY DEF TypeOK, FaultInv
<1>1. ASSUME NEW q \in Procs, fd[q], job[q] = j
      PROVE  fd'[q] /\ job'[q] = j
  <2>1. pc[q] \in {"flush", "trunc", "flushw"}
    BY <1>0, <1>1 DEF OnlyWritersHold
  <2>2. out[q].task \in Tasks /\ JobId[out[q].task] = j /\ (q \in Tasks => out[q].task = q)
    BY <1>0, <1>1, <2>1, WriterKinds, OwnIds DEF Record
  <2>3. out[q].task = t
    BY <2>2 DEF OneIdEach
  <2>4. CASE q \in Tasks
    BY <1>0, <1>1, <2>2, <2>3, <2>4 DEF Spares, Types, TaskTypeOK
  <2>5. CASE q \in Callers
    BY <1>1, <2>1, <2>3, <2>5 DEF Spares, WithRecord
  <2> QED
    BY <2>4, <2>5, Kinds
<1>2. ASSUME NEW q \in Procs, fd'[q], job'[q] = j, pc'[q] \in {"flush", "flushw"}
      PROVE  fd[q] /\ job[q] = j /\ pc[q] = pc'[q] /\ out'[q] = out[q]
  <2>1. CASE q \in Tasks
    <3>1. JobId[q] = j
      BY <1>0, <1>2, <2>1 DEF Types, TaskTypeOK
    <3>2. q = t
      BY <2>1, <3>1 DEF OneIdEach
    <3> QED
      BY <1>0, <1>2, <3>2 DEF Spares, Types, TaskTypeOK
  <2>2. CASE q \in Callers
    BY <1>2, <2>2 DEF Spares
  <2> QED
    BY <2>1, <2>2, Kinds
<1>3. file[j] # Nil => /\ \A q \in Procs : fd[q] /\ job[q] = j /\ pc[q] \in {"flush", "flushw"} =>
                               ~Crossed(q)
  BY DEF Sound
<1>4. file'[j] = file[j]
  BY DEF Spares
<1>5. ASSUME file'[j] # Nil, NEW q \in Procs, fd'[q], job'[q] = j, pc'[q] \in {"flush", "flushw"}
      PROVE  ~Crossed(q)'
  <2>1. fd[q] /\ job[q] = j /\ pc[q] = pc'[q] /\ out'[q] = out[q] /\ ~Crossed(q)
    BY <1>2, <1>3, <1>4, <1>5
  <2> QED
    BY <1>4, <1>5, <2>1 DEF Crossed
<1> QED
  BY <1>1, <1>2, <1>4, <1>5 DEF Sound, Spares

(* A file that does not parse is being written, or a fault stopped the     *)
(* writer of its record, or a cancel_job or a close() of that very job was *)
(* its second writer.  The workers and the API share no lock, and clients  *)
(* cancel, delete and close while API processes crash and workers are lost *)
(* or interrupted: whatever happens to other jobs leaves the text of this  *)
(* one complete.                                                           *)
THEOREM FaultsSpoilTheirOwn ==
  ASSUME MultiProcess, OneIdEach
  PROVE  RSpec => []OnlyFaultsSpoil
<1> DEFINE Inv == /\ Registered
                  /\ \A t \in Tasks \ (lost \cup cancelled) : Uncancelled(t) /\ Sound(t)
<1>1. RInit => Inv
  <2> SUFFICES ASSUME Init PROVE Registered /\ \A t \in Tasks : Uncancelled(t) /\ Sound(t)
    BY DEF RInit
  <2>1. Registered
    BY InitTended
  <2>2. \A t \in Tasks : Uncancelled(t)
    BY Kinds DEF Init, Uncancelled, WithRecord
  <2>3. \A t \in Tasks : Sound(t)
    BY SubmissionsAssumption DEF Init, Sound
  <2> QED
    BY <2>1, <2>2, <2>3
<1>2. RTypeOK /\ RTypeOK' /\ FaultInv /\ Inv /\ [RNext]_rvars => Inv'
  <2> SUFFICES ASSUME RTypeOK, RTypeOK', FaultInv, Inv, [RNext]_rvars PROVE Inv'
    OBVIOUS
  <2>0. /\ TypeOK /\ TypeOK' /\ Types /\ HandleOK /\ Ids /\ Locals /\ Registered
        /\ cancelled \subseteq cancelled'
    BY RecordsGrow DEF RTypeOK, TypeOK, FaultInv
  <2>1. Registered'
    BY <2>0, FaultsRegistered
  <2> SUFFICES ASSUME NEW t \in Tasks, t \notin lost', t \notin cancelled'
               PROVE  Uncancelled(t)' /\ Sound(t)'
    BY <2>1
  <2>2. t \notin lost /\ (Spared(Next) \/ Spares(t)) /\ Uncancelled(t) /\ Sound(t)
    BY <2>0, FaultsSpare
  <2>3. CASE Spared(Next)
    <3>1. Next /\ \A p \in Callers : pc'[p] = "kill" => out'[p].task # t
      BY <2>3 DEF Spared, Callers
    <3> QED
      BY <2>0, <2>2, <3>1, UncancelledStep, SoundStep
  <2>4. CASE Spares(t)
    <3>1. Uncancelled(t)'
      BY <2>2, <2>4 DEF Spares, Uncancelled, WithRecord
    <3> QED
      BY <2>0, <2>2, <2>4, <3>1, SparedSound
  <2> QED
    BY <2>2, <2>3, <2>4
<1>3. RTypeOK /\ FaultInv /\ Inv => OnlyFaultsSpoil
  <2> SUFFICES ASSUME RTypeOK, FaultInv, Inv, NEW j \in Jobs, file[j] # Nil, ~Parses(file[j]),
                      file[j].rec.task \notin lost \cup cancelled
               PROVE  \E p \in Procs : fd[p] /\ job[p] = j
    BY DEF OnlyFaultsSpoil
  <2>1. file[j].rec.task \in Tasks /\ JobId[file[j].rec.task] = j
    BY DEF RTypeOK, TypeOK, Types, SharedTypeOK, File, Record, FaultInv, Ids
  <2> QED
    BY <2>1 DEF Sound
<1> QED
  BY <1>1, <1>2, <1>3, RestartTypeCorrect, FaultInvariant, PTL DEF RSpec
=============================================================================
