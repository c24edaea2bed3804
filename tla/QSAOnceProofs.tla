--------------------------- MODULE QSAOnceProofs ---------------------------
(***************************************************************************)
(* Who submits, deletes and ends a job, with threads and with worker       *)
(* processes: what delete_job may remove and how far the limit of lanes is *)
(* overshot, whatever ids the clients choose; who ends a job and what a    *)
(* complete close() leaves, when every submission has an id of its own.    *)
(***************************************************************************)
EXTENDS QSAWritersProofs, FiniteSetTheorems

(* No two submissions ask for the same id.  The id is the client's choice  *)
(* (models.py 673), and one that was deleted may be used again             *)
(* (errors.py 106): the theorems that assume this say nothing of clients   *)
(* that do so.                                                             *)
OneIdEach == \A t, u \in Tasks : JobId[t] = JobId[u] => t = u

-----------------------------------------------------------------------------
(* What the invariant says.                                                *)

(* While a submission has not written its record in full, nobody else      *)
(* knows of it: no cancellation has its record in hand, and a file of it   *)
(* is the one its submitter is writing.                                    *)
Fresh(t) == ~Submitted(t)
SubmittedBy(c, t) == op[c] = "submit" /\ out[c].task = t
UnknownYet(t) ==
    /\ \A p \in Callers : pc[p] \in WithRecord /\ out[p].task = t => op[p] = "submit"
    /\ \A j \in Jobs : file[j] # Nil /\ file[j].rec.task = t =>
           /\ ~file[j].whole
           /\ \E c \in Clients : SubmittedBy(c, t) /\ pc[c] = "flushw"
Unknown == \A t \in Tasks : Fresh(t) => UnknownYet(t)

(* delete_job has seen how the job ended, and no write makes its record    *)
(* say Running again.                                                      *)
Deletable(t) ==
    \A c \in Clients :
        pc[c] \in {"reap", "remove"} /\ out[c].task = t =>
            ~Fresh(t) /\ ~HasRunning(t)
Deletions == \A t \in Tasks : Deletable(t)

OnceInv == Unknown /\ Deletions

-----------------------------------------------------------------------------
(* Submissions.                                                            *)

(* Who is about to dispatch does just that.                                *)
LEMMA DispatchWaits ==
  ASSUME NEW c \in Clients, Moves(c)
  PROVE  pc[c] # "dispatch"
<1>1. c \notin Tasks /\ c \notin Services
  BY ProcsAssumption
<1>2. pc[c] = "dispatch" => ~Serve(c) /\ ~Inactive(c)
  BY DEF Serve, List, Scan, Open, Listed, Read, Load, Kill, Inactive
<1>3. pc[c] = "dispatch" => ~Write(c)
  BY DEF Write, Update, Check, Flush, Truncate, OpenW, FlushW, FlushPart, Fail, Overwrite,
         OverwritePart
<1>4. pc[c] = "dispatch" => ~ClientMoves(c)
  BY DEF ClientMoves, GetJobs, UseJob, Submit, Refuse, Ready, Reap, Remove, Create, Register
<1> QED
  BY <1>1, <1>2, <1>3, <1>4 DEF Moves

(* A submission that was written has been written for good.                *)
LEMMA SubmittedStays ==
  ASSUME Types, Locals, Next, NEW t \in Tasks, Submitted(t)
  PROVE  Submitted(t)'
<1>0. t \in Procs /\ \A c \in Clients : c \in Procs /\ c # t
  BY Kinds DEF Callers
<1>1. ASSUME NEW p \in Procs, Moves(p) PROVE Submitted(t)'
  <2>1. CASE pc[t] # "unborn"
    <3>1. pc'[t] # "unborn"
      BY <1>1, <2>1, BirthMoves
    <3> QED
      BY <3>1 DEF Submitted
  <2>2. ASSUME NEW c \in Clients, op[c] = "submit", out[c].task = t, pc[c] = "dispatch"
        PROVE  Submitted(t)'
    <3>1. p # c
      BY <1>1, <2>2, DispatchWaits
    <3>2. op'[c] = op[c] /\ out'[c] = out[c] /\ pc'[c] = pc[c]
      BY <1>0, <1>1, <3>1, MovesAlone DEF Alone
    <3> QED
      BY <2>2, <3>2 DEF Submitted
  <2> QED
    BY <2>1, <2>2 DEF Submitted
<1>2. ASSUME NEW d \in Clients, Dispatch(d) PROVE Submitted(t)'
  <2>1. CASE t = out[d].task
    <3>1. pc'[t] \in {"void", "ready"}
      BY <1>2, <2>1, DispatchFrame
    <3> QED
      BY <3>1 DEF Submitted
  <2>2. CASE t # out[d].task
    <3>1. pc'[t] = pc[t] /\ \A c \in Clients : c # d => op'[c] = op[c] /\ out'[c] = out[c]
      BY <1>0, <1>2, <2>2, DispatchFrame
    <3>2. out[d].task \in Tasks /\ \A c \in Clients : c # d => pc'[c] = pc[c]
      BY <1>0, <1>2, DispatchFrame, Kinds DEF Callers
    <3> QED
      BY <2>2, <3>1, <3>2 DEF Submitted
  <2> QED
    BY <2>1, <2>2
<1>3. ASSUME NEW d \in Clients, NEW u \in Tasks, SubmitEmpty(d, u) PROVE Submitted(t)'
  <2>1. pc[t] # "unborn" => pc'[t] # "unborn"
    BY <1>0, <1>3, EmptyFrame
  <2>2. \A c \in Clients : pc[c] = "dispatch" => /\ pc'[c] = pc[c] /\ op'[c] = op[c]
                                                 /\ out'[c] = out[c]
    BY <1>0, <1>3, EmptyFrame, Kinds DEF Callers
  <2> QED
    BY <2>1, <2>2 DEF Submitted
<1> QED
  BY <1>1, <1>2, <1>3, NextSplit

(* Only its submitter writes the record of a submission as Running.        *)
LEMMA RunningIsNotBack ==
  ASSUME Types, HandleOK, Locals, Next, NEW t \in Tasks, Submitted(t), HasRunning(t)'
  PROVE  HasRunning(t)
<1>1. ASSUME NEW p \in Procs, Moves(p) PROVE HasRunning(t)
  <2>1. PICK j \in Jobs : /\ file'[j] # Nil /\ file'[j].rec.task = t
                          /\ file'[j].rec.status = "Running"
    BY DEF HasRunning
  <2>2. CASE file[j] # Nil /\ file'[j].rec = file[j].rec
    BY <2>1, <2>2 DEF HasRunning
  <2>3. CASE /\ file'[j].rec = out[p]
             /\ pc[p] \in {"openw", "flush", "trunc", "flushw", "overwrite"}
    <3>1. p \in Clients /\ op[p] = "submit" /\ pc[p] \in {"openw", "flushw"}
      BY <2>1, <2>3, RunningWriter
    <3>2. pc[t] = "unborn" /\ \A c \in Clients : op[c] = "submit" /\ out[c].task = t => c = p
      BY <2>1, <2>3, <3>1 DEF Locals, Submissions
    <3> QED
      BY <3>1, <3>2 DEF Submitted
  <2> QED
    BY <1>1, <2>1, <2>2, <2>3, FileMoves DEF Types, SharedTypeOK
<1>2. ASSUME file' = file PROVE HasRunning(t)
  BY <1>2 DEF HasRunning
<1> QED
  BY <1>1, <1>2, NextSplit, DispatchFrame, EmptyFrame

-----------------------------------------------------------------------------
(* Who changes a file.                                                     *)
LEMMA ChangeMoves ==
  ASSUME NEW p \in Procs, Moves(p), file' # file
  PROVE  Write(p) \/ (p \in Clients /\ Remove(p))
<1>1. ~(Serve(p) \/ Inactive(p))
  BY DEF Serve, List, Scan, Open, Listed, Read, Load, Kill, Inactive
<1>2. ClientMoves(p) => Remove(p)
  BY DEF ClientMoves, GetJobs, UseJob, Submit, Refuse, Begin, Reap, Create, Register
<1>3. ~TaskMoves(p) /\ ~CloseMoves(p)
  BY DEF TaskMoves, Run, PutResults, PutLogs, End, CloseMoves, StartClose, Shutdown, CancelNext
<1> QED
  BY <1>1, <1>2, <1>3 DEF Moves

(* A write removes no file.                                                *)
LEMMA WriteRemovesNothing ==
  ASSUME Types, HandleOK, NEW p \in Procs, Write(p), NEW j \in Jobs, file[j] # Nil
  PROVE  file'[j] # Nil
<1>0. file[j] \in File /\ Nil \notin File
  BY Kinds DEF Types, SharedTypeOK
<1>1. CASE Update(p) \/ Check(p) \/ Fail(p)
  BY <1>1 DEF Update, Check, Fail
<1>2. CASE ~(Update(p) \/ Check(p) \/ Fail(p))
  <2>1. pc[p] \in {"openw", "flush", "trunc", "flushw", "overwrite"}
    BY <1>2 DEF Write, Flush, Truncate, OpenW, FlushW, FlushPart, Overwrite, OverwritePart
  <2>2. /\ job[p] \in Jobs /\ out[p] \in Record
        /\ Empty(out[p]) \in File /\ Written(file[j], out[p]) \in File
        /\ Truncated(file[j], Size(out[p])) \in File
        /\ WrittenPart(file[j], out[p], Buffer) \in File
        /\ WrittenPart(file[j], out[p], Size(out[p])) \in File
    BY <1>0, <2>1, WriterKinds, FileTypes, BaseSizeAssumption
  <2> QED
    BY <1>0, <1>2, <2>2 DEF Write, Flush, Truncate, OpenW, FlushW, FlushPart, Overwrite,
       OverwritePart, Dump, Types, SharedTypeOK
<1> QED
  BY <1>1, <1>2

(* A submitter that has opened its file goes on until it is written.       *)
LEMMA SubmitterFlushes ==
  ASSUME Types, Locals, NEW c \in Clients, Moves(c), NEW t \in Tasks,
         SubmittedBy(c, t), pc[c] = "flushw", Fresh(t), Fresh(t)'
  PROVE  FlushPart(c) /\ SubmittedBy(c, t)' /\ pc'[c] = "flushw"
<1>0. c \in Procs /\ c \notin Tasks /\ c \in Callers
  BY Kinds DEF Callers
<1>1. out[c].status = "Running"
  BY DEF SubmittedBy, Fresh, Submitted, Locals, Submissions
<1>2. ~FlushW(c)
  <2> SUFFICES ASSUME FlushW(c) PROVE FALSE
    OBVIOUS
  <2>1. pc'[c] = "dispatch" /\ op'[c] = op[c] /\ out'[c] = out[c]
    BY <1>0, <1>1 DEF FlushW, UpdateReturns, Goto, SubmittedBy, Types, LocalTypeOK
  <2> QED
    BY <2>1 DEF SubmittedBy, Fresh, Submitted
<1>3. FlushPart(c)
  BY <1>0, <1>2, WriteMoves
<1> QED
  BY <1>3 DEF FlushPart, locals, SubmittedBy

LEMMA UnknownToCancellers ==
  ASSUME Types, Locals, NEW p \in Procs, Moves(p), NEW t \in Tasks, Fresh(t), UnknownYet(t),
         NEW q \in Callers, pc'[q] \in WithRecord, out'[q].task = t
  PROVE  op'[q] = "submit"
<1>0. q \in Procs /\ (pc[q] \in WithRecord /\ out[q].task = t => op[q] = "submit")
  BY Kinds DEF UnknownYet
<1>1. CASE q # p
  BY <1>0, <1>1, MovesAlone DEF Alone
<1>2. CASE q = p
  <2> SUFFICES ASSUME op'[p] # "submit" PROVE FALSE
    BY <1>2
  <2>1. /\ op[p] # "submit"
        /\ \/ pc[p] \in WithRecord /\ out'[p].task = out[p].task
           \/ job[p] \in Jobs /\ Loads(job[p]) /\ out'[p] = file[job[p]].rec
    BY <1>2, CancellerMoves DEF WithRecord
  <2>2. ASSUME job[p] \in Jobs, Loads(job[p]), out'[p] = file[job[p]].rec PROVE FALSE
    BY <1>2, <2>2 DEF Loads, Parses, UnknownYet
  <2> QED
    BY <1>0, <1>2, <2>1, <2>2
<1> QED
  BY <1>1, <1>2

LEMMA UnknownInFile ==
  ASSUME Types, HandleOK, Locals, NEW p \in Procs, Moves(p),
         NEW t \in Tasks, Fresh(t), UnknownYet(t), Fresh(t)', NEW j \in Jobs, file'[j] # Nil, file'[j].rec.task = t
  PROVE  ~file'[j].whole /\ \E c \in Clients : SubmittedBy(c, t)' /\ pc'[c] = "flushw"
<1>1. ASSUME NEW c \in Clients, SubmittedBy(c, t), pc[c] = "flushw"
      PROVE  SubmittedBy(c, t)' /\ pc'[c] = "flushw"
  <2>1. CASE c = p
    BY <1>1, <2>1, SubmitterFlushes
  <2>2. CASE c # p
    BY <1>1, <2>2, MovesAlone, Kinds DEF Alone, SubmittedBy, Callers
  <2> QED
    BY <2>1, <2>2
<1>2. CASE file'[j] = file[j]
  BY <1>1, <1>2 DEF UnknownYet
<1>3. CASE file'[j] # file[j]
  <2>0. /\ pc[p] \in {"openw", "flush", "trunc", "flushw", "overwrite"} /\ j = job[p]
        /\ pc[p] = "openw" \/ file[j] # Nil
        /\ file'[j].rec = out[p] \/ (pc[p] = "trunc" /\ fd[p] /\ file'[j].rec = file[j].rec)
    BY <1>3, FileMoves DEF Types, SharedTypeOK
  <2>w. Write(p)
    BY <1>3, <2>0, ChangeMoves DEF Remove
  <2>1. CASE file'[j].rec = out[p]
    <3>1. pc[t] = "unborn" /\ out[p].task = t
      BY <2>1 DEF Fresh, Submitted
    <3>2. p \notin Tasks
      BY <2>0, <3>1, WriterKinds
    <3>3. p \in Callers /\ pc[p] \in WithRecord
      BY <2>0, <3>2, Kinds DEF WithRecord
    <3>4. op[p] = "submit" /\ p \in Clients
      BY <3>1, <3>3, ProcsAssumption DEF UnknownYet, Types, CallerTypeOK, Callers
    <3>5. out[p].status = "Running" /\ pc[p] \in {"openw", "flushw"}
      BY <2>0, <3>1, <3>4 DEF Locals, Submissions, Submitting
    <3>6. CASE pc[p] = "openw"
      <4>1. OpenW(p)
        BY <2>w, <3>6 DEF Write, Update, Check, Flush, Truncate, FlushW, FlushPart, Fail,
                          Overwrite, OverwritePart
      <4>2. ~file'[j].whole
        BY <2>0, <4>1 DEF OpenW, Empty, Types, SharedTypeOK
      <4>3. pc'[p] = "flushw" /\ SubmittedBy(p, t)'
        BY <3>1, <3>4, <4>1 DEF OpenW, Goto, SubmittedBy, Types, LocalTypeOK
      <4> QED
        BY <3>4, <4>2, <4>3
    <3>7. CASE pc[p] = "flushw"
      <4>1. SubmittedBy(p, t)
        BY <3>1, <3>4 DEF SubmittedBy
      <4>2. FlushPart(p)
        BY <3>4, <3>7, <4>1, SubmitterFlushes
      <4>3. ~file'[j].whole
        BY <1>3, <2>0, <4>2 DEF FlushPart, WrittenPart, Types, SharedTypeOK
      <4> QED
        BY <1>1, <3>4, <3>7, <4>1, <4>3
    <3> QED
      BY <3>5, <3>6, <3>7
  <2>2. CASE pc[p] = "trunc" /\ fd[p] /\ file'[j].rec = file[j].rec
    <3>1. file[j] \in File /\ ~file[j].whole
          /\ \E c \in Clients : SubmittedBy(c, t) /\ pc[c] = "flushw"
      BY <2>0, <2>2 DEF UnknownYet, Types, SharedTypeOK
    <3>2. Truncate(p)
      BY <2>w, <2>2 DEF Write, Update, Check, Flush, OpenW, FlushW, FlushPart, Fail, Overwrite,
                        OverwritePart
    <3>3. file'[j] = Truncated(file[j], Size(out[p]))
      BY <2>0, <2>2, <3>2 DEF Truncate, Types, SharedTypeOK
    <3>4. ~file'[j].whole
      BY <3>1, <3>3 DEF Truncated, File
    <3> QED
      BY <1>1, <3>1, <3>4
  <2> QED
    BY <2>0, <2>1, <2>2
<1> QED
  BY <1>2, <1>3

LEMMA UnknownStep ==
  ASSUME Types, HandleOK, Locals, Next, NEW t \in Tasks, Fresh(t) => UnknownYet(t), Fresh(t)'
  PROVE  UnknownYet(t)'
<1>0. Fresh(t) /\ UnknownYet(t) /\ t \in Procs
  BY SubmittedStays, Kinds DEF Fresh
<1>1. ASSUME NEW p \in Procs, Moves(p) PROVE UnknownYet(t)'
  BY <1>0, <1>1, UnknownToCancellers, UnknownInFile DEF UnknownYet
<1>2. ASSUME NEW d \in Clients, NEW u \in Tasks, file' = file, pc[d] # "flushw",
             \A q \in Procs : q # d => op'[q] = op[q] /\ job'[q] = job[q] /\ out'[q] = out[q],
             \A q \in Procs : q # d /\ q # u => pc'[q] = pc[q],
             pc'[d] \in WithRecord => op'[d] = "submit"
      PROVE  UnknownYet(t)'
  <2>1. \A q \in Callers : q # d => pc'[q] = pc[q] /\ op'[q] = op[q] /\ out'[q] = out[q]
    BY <1>2, Kinds
  <2>2. \A c \in Clients : SubmittedBy(c, t) /\ pc[c] = "flushw" =>
                             SubmittedBy(c, t)' /\ pc'[c] = "flushw"
    BY <1>2, <2>1 DEF SubmittedBy, Callers
  <2> QED
    BY <1>0, <1>2, <2>1, <2>2 DEF UnknownYet
<1>3. ASSUME NEW d \in Clients, Dispatch(d) PROVE UnknownYet(t)'
  <2>1. op[d] = "submit"
    BY <1>3, DispatchFrame, Kinds DEF Locals, Cancellations, WithRecord, Callers
  <2> QED
    BY <1>2, <1>3, <2>1, DispatchFrame DEF WithRecord
<1>4. ASSUME NEW d \in Clients, NEW u \in Tasks, SubmitEmpty(d, u) PROVE UnknownYet(t)'
  BY <1>2, <1>4, EmptyFrame
<1> QED
  BY <1>1, <1>3, <1>4, NextSplit

-----------------------------------------------------------------------------
(* Deletions.                                                              *)

LEMMA DeletionsStep ==
  ASSUME Types, HandleOK, Ids, Locals, Next, NEW t \in Tasks,
         Fresh(t) => UnknownYet(t), Deletable(t)
  PROVE  Deletable(t)'
<1> SUFFICES ASSUME NEW c \in Clients, pc'[c] \in {"reap", "remove"}, out'[c].task = t
             PROVE  ~Fresh(t)' /\ ~HasRunning(t)'
  BY DEF Deletable
<1>0. c \in Procs
  BY DEF Procs
<1>1. CASE ~Fresh(t) /\ ~HasRunning(t)
  BY <1>1, SubmittedStays, RunningIsNotBack DEF Fresh
<1>2. CASE pc'[c] = pc[c] /\ job'[c] = job[c] /\ out'[c] = out[c]
  BY <1>1, <1>2 DEF Deletable
<1>3. ASSUME Moves(c) PROVE ~Fresh(t) /\ ~HasRunning(t)
  <2>1. CASE pc[c] = "reap" /\ job'[c] = job[c] /\ out'[c] = out[c]
    BY <2>1 DEF Deletable
  <2>2. CASE /\ job'[c] = job[c] /\ job[c] \in Jobs /\ Loads(job[c])
             /\ MayDelete(file[job[c]].rec) /\ out'[c] = file[job[c]].rec
    <3>1. file[job[c]] \in File /\ file[job[c]].rec.task \in Tasks /\ file[job[c]].whole
      BY <2>2 DEF Loads, Parses, Types, SharedTypeOK, File, Record
    <3>2. file[job[c]].rec.task = t
      BY <2>2, <3>1 DEF Ids, Loads
    <3>3. ~HasRunning(t)
      BY <2>2, <3>1, <3>2 DEF MayDelete, Loads, Ids, HasRunning
    <3> QED
      BY <2>2, <3>1, <3>2, <3>3 DEF UnknownYet, Loads
  <2> QED
    BY <1>3, <2>1, <2>2, DeletionMoves
<1>4. ASSUME NEW p \in Procs, Moves(p) PROVE ~Fresh(t)' /\ ~HasRunning(t)'
  <2>1. CASE p = c
    BY <1>1, <1>3, <1>4, <2>1
  <2>2. CASE p # c
    BY <1>0, <1>2, <1>4, <2>2, MovesAlone DEF Alone
  <2> QED
    BY <2>1, <2>2
<1>5. ASSUME NEW d \in Clients, Dispatch(d)
      PROVE  ~Fresh(t)' /\ ~HasRunning(t)'
  <2>1. c # d
    BY <1>5, DispatchFrame
  <2> QED
    BY <1>0, <1>2, <1>5, <2>1, DispatchFrame, Kinds DEF Callers
<1>6. ASSUME NEW d \in Clients, NEW u \in Tasks, SubmitEmpty(d, u)
      PROVE  ~Fresh(t)' /\ ~HasRunning(t)'
  <2>1. c # d
    BY <1>6, EmptyFrame
  <2> QED
    BY <1>0, <1>2, <1>6, <2>1, EmptyFrame, Kinds DEF Callers
<1> QED
  BY <1>4, <1>5, <1>6, NextSplit

(* If no id is submitted twice, it is the job of the id that was found      *)
(* ended.                                                                  *)
LEMMA NoneRunningRemoved ==
  ASSUME OneIdEach, Types, Ids, NEW t \in Tasks, Deletable(t),
         NEW c \in Clients, pc[c] \in {"reap", "remove"}, job[c] = JobId[t]
  PROVE  ~Fresh(t) /\ ~HasRunning(t)
<1>1. out[c].task \in Tasks /\ JobId[out[c].task] = job[c]
  BY Kinds DEF Types, CallerTypeOK, Callers, Record, Ids
<1>2. out[c].task = t
  BY <1>1 DEF OneIdEach
<1> QED
  BY <1>2 DEF Deletable

-----------------------------------------------------------------------------
(* The invariant.                                                          *)

LEMMA InitOnceInv == Init => OnceInv
<1> SUFFICES ASSUME Init PROVE OnceInv
  OBVIOUS
<1>1. /\ \A p \in Callers : pc[p] = "idle"
      /\ \A j \in Jobs : file[j] = Nil
  BY ProcsAssumption DEF Init, Callers, Procs
<1> QED
  BY <1>1 DEF OnceInv, Unknown, UnknownYet, Deletions, Deletable, WithRecord, Callers

LEMMA StepOnceInv ==
  ASSUME TypeOK, WriterInv, OnceInv, [Next]_vars
  PROVE  OnceInv'
<1>1. CASE Next
  <2> SUFFICES ASSUME NEW t \in Tasks
               PROVE  (Fresh(t)' => UnknownYet(t)') /\ Deletable(t)'
    BY DEF OnceInv, Unknown, Deletions
  <2>1. (Fresh(t) => UnknownYet(t)) /\ Deletable(t)
    BY DEF OnceInv, Unknown, Deletions
  <2> QED
    BY <1>1, <2>1, UnknownStep, DeletionsStep DEF TypeOK, WriterInv
<1>2. CASE UNCHANGED vars
  <2>1. UNCHANGED <<file, pc, op, job, out>>
    BY <1>2 DEF vars
  <2> QED
    BY <2>1 DEF OnceInv, Unknown, UnknownYet, Deletions, Deletable, Fresh, Submitted,
       SubmittedBy, HasRunning
<1> QED
  BY <1>1, <1>2

LEMMA OnceInvariant == Spec => []OnceInv
<1>1. TypeOK /\ WriterInv /\ OnceInv /\ [Next]_vars => OnceInv'
  BY StepOnceInv
<1> QED
  BY <1>1, InitOnceInv, WriterInvariant, TypeCorrect, PTL DEF Spec

-----------------------------------------------------------------------------
(* What it implies.                                                        *)

LEMMA InvDeletes ==
  ASSUME TypeOK, WriterInv, OnceInv, NEW c \in Clients, pc[c] = "remove", file[job[c]] # Nil
  PROVE  file[job[c]].rec.status # "Running" \/ file[job[c]].rec.task # out[c].task
<1>0. job[c] \in Jobs /\ out[c].task \in Tasks
  BY Kinds DEF TypeOK, Types, CallerTypeOK, WithJob, Callers, Record
<1>1. PICK t \in Tasks : t = out[c].task
  BY <1>0
<1>2. ~HasRunning(t)
  BY <1>1 DEF OnceInv, Deletions, Deletable
<1> QED
  BY <1>0, <1>1, <1>2 DEF HasRunning

(* The check and the removal of delete_job (577-595) hold no lock between  *)
(* them.  Whatever other calls and executions do there, with threads and   *)
(* with worker processes and also if an id is deleted and given to another *)
(* submission: the submission that delete_job found ended never runs       *)
(* again, and a Running record that it removes is another one's.           *)
THEOREM DeletedJobsHaveEnded == Spec => DeletesNoneFoundRunning
<1> DEFINE Removal(c) ==
             pc[c] = "remove" /\ pc'[c] # "remove" /\ file[job[c]] # Nil =>
               file[job[c]].rec.status # "Running" \/ file[job[c]].rec.task # out[c].task
<1>1. TypeOK /\ WriterInv /\ OnceInv => [\A c \in Clients : Removal(c)]_vars
  BY InvDeletes
<1> QED
  BY <1>1, OnceInvariant, WriterInvariant, TypeCorrect, PTL DEF Spec, DeletesNoneFoundRunning

-----------------------------------------------------------------------------
(* The limit of lanes, in the deployed API: only there is an admission     *)
(* control.                                                                *)

(* Submissions of a lane; those that hold the lock of their process from   *)
(* the check of the id to the flush of their record; the Running records   *)
(* that nobody has in hand.                                                *)
For(c, b) == op[c] = "submit" /\ BackendOf[out[c].task] = b
Creating(b) == {c \in Clients : For(c, b) /\ pc[c] = "flushw" /\ out[c].status = "Running"}
Settled(b) == {j \in Busy(b) : \A c \in Creating(b) : job[c] # j}

(* The submissions that are admitted, or still will be if no more than the *)
(* jobs S stay Running.                                                    *)
Entering(b, S) ==
    {c \in Clients :
        /\ For(c, b) /\ out[c].status = "Running"
        /\ \/ pc[c] \in {"create", "openw", "flushw"}
           \/ pc[c] \in {"scan", "open"} /\ Cardinality(S \cap (seen[c] \cup todo[c])) < MaxLanes}

(* Whichever jobs end, those that stay and those that come have room.      *)
HaveRoom(S, E) ==
    \/ S = {} /\ E = {}
    \/ Cardinality(S) + Cardinality(E) < MaxLanes + Cardinality(Clients)
Room(b) == \A S \in SUBSET Jobs : S \subseteq Settled(b) => HaveRoom(S, Entering(b, S))
LaneInv == \A b \in Backends : Room(b)

LEMMA LaneTypes ==
  ASSUME IsFiniteSet(Clients), NEW S \in SUBSET Jobs, NEW E \in SUBSET Clients
  PROVE  /\ IsFiniteSet(S) /\ Cardinality(S) \in Nat
         /\ IsFiniteSet(E) /\ Cardinality(E) \in Nat /\ Cardinality(E) <= Cardinality(Clients)
         /\ Cardinality(Clients) \in Nat /\ MaxLanes \in Nat
  BY SubmissionsAssumption, FS_Subset, FS_CardinalityType

(* The three ways in which a step may change who is in which lane: few     *)
(* jobs leave room for everybody; nobody comes; a record takes the place   *)
(* of its submission.                                                      *)
LEMMA FewLeaveRoom ==
  ASSUME IsFiniteSet(Clients), NEW S \in SUBSET Jobs, NEW E \in SUBSET Clients,
         Cardinality(S) < MaxLanes
  PROVE  HaveRoom(S, E)
  BY LaneTypes DEF HaveRoom

LEMMA NobodyComes ==
  ASSUME IsFiniteSet(Clients), NEW S \in SUBSET Jobs, NEW E \in SUBSET Clients,
         HaveRoom(S, E), NEW E2 \in SUBSET Clients, E2 \subseteq E
  PROVE  HaveRoom(S, E2)
<1>1. Cardinality(E2) <= Cardinality(E) /\ Cardinality(E2) \in Nat
  BY LaneTypes, FS_Subset
<1> QED
  BY <1>1, LaneTypes DEF HaveRoom

LEMMA RecordForSubmission ==
  ASSUME IsFiniteSet(Clients), NEW S \in SUBSET Jobs, NEW E \in SUBSET Clients, HaveRoom(S, E),
         NEW c \in E, NEW j \in Jobs, NEW E2 \in SUBSET Clients, E2 \subseteq E \ {c},
         NEW S2 \in SUBSET Jobs, S2 \subseteq S \cup {j}
  PROVE  HaveRoom(S2, E2)
<1>1. /\ IsFiniteSet(S \cup {j}) /\ Cardinality(S \cup {j}) <= Cardinality(S) + 1
      /\ Cardinality(S2) <= Cardinality(S \cup {j})
  <2>1. /\ IsFiniteSet(S \cup {j})
        /\ Cardinality(S \cup {j}) = Cardinality(S) \/ Cardinality(S \cup {j}) = Cardinality(S) + 1
    BY LaneTypes, FS_AddElement
  <2> QED
    BY <2>1, LaneTypes, FS_Subset
<1>2. Cardinality(E \ {c}) = Cardinality(E) - 1 /\ Cardinality(E2) <= Cardinality(E \ {c})
  <2>1. IsFiniteSet(E \ {c}) /\ Cardinality(E \ {c}) = Cardinality(E) - 1
    BY LaneTypes, FS_RemoveElement
  <2> QED
    BY <2>1, FS_Subset
<1>3. Cardinality(S \cup {j}) \in Nat
  BY <1>1, FS_CardinalityType
<1>4. Cardinality(S) + Cardinality(E) < MaxLanes + Cardinality(Clients)
  BY DEF HaveRoom
<1> QED
  BY <1>1, <1>2, <1>3, <1>4, LaneTypes DEF HaveRoom

(* The listing of a call is its own.                                       *)
LEMMA ListsAlone ==
  ASSUME Types, NEW p \in Procs, Moves(p), NEW q \in Procs, q # p
  PROVE  seen'[q] = seen[q] /\ todo'[q] = todo[q]
<1>1. CASE Serve(p)
  BY <1>1 DEF Serve, List, Scan, Open, Listed, Read, Load, Kill, Return, locals, Types, LocalTypeOK
<1>2. CASE Write(p)
  BY <1>2 DEF Write, Update, Check, Flush, Truncate, OpenW, FlushW, FlushPart, Fail, Overwrite,
     OverwritePart, UpdateReturns, UpdateRaises, Return, locals, Types, LocalTypeOK
<1>3. CASE p \in Clients /\ ClientMoves(p)
  BY <1>3 DEF ClientMoves, GetJobs, UseJob, Submit, Refuse, Begin, Reap, Remove, Create, Register,
     Return, locals, Types, LocalTypeOK
<1>4. CASE p \in Tasks /\ TaskMoves(p)
  BY <1>4 DEF TaskMoves, Run, PutResults, PutLogs, End, locals
<1>5. CASE p \in Services /\ CloseMoves(p)
  BY <1>5 DEF CloseMoves, StartClose, Shutdown, CancelNext, locals, Types, LocalTypeOK
<1>6. CASE p \in Callers /\ Inactive(p)
  BY <1>6 DEF Inactive
<1> QED
  BY <1>1, <1>2, <1>3, <1>4, <1>5, <1>6 DEF Moves

LEMMA ListingMoves ==
  ASSUME Types, NEW p \in Clients, Moves(p)
  PROVE  /\ pc[p] = "list" => List(p)
         /\ pc[p] = "scan" => Scan(p) \/ Listed(p)
         /\ pc[p] = "open" => Open(p)
<1> SUFFICES ASSUME pc[p] \in {"list", "scan", "open"}
             PROVE  List(p) \/ Scan(p) \/ Listed(p) \/ Open(p)
  BY DEF List, Scan, Listed, Open
<1>1. p \notin Tasks /\ p \notin Services
  BY ProcsAssumption
<1>2. ~Write(p) /\ ~Inactive(p)
  BY DEF Write, Update, Check, Flush, Truncate, OpenW, FlushW, FlushPart, Fail, Overwrite,
         OverwritePart, Inactive
<1>3. ~ClientMoves(p)
  BY DEF ClientMoves, GetJobs, UseJob, Submit, Refuse, Ready, Reap, Remove, Create, Register
<1> QED
  BY <1>1, <1>2, <1>3 DEF Moves, Serve, Read, Load, Kill

(* A step of another process lets nobody in.                               *)
LEMMA OthersStayOut ==
  ASSUME Types, NEW p \in Procs, Moves(p), NEW b \in Backends, NEW S \in SUBSET Jobs,
         NEW c \in Entering(b, S)', c # p
  PROVE  c \in Entering(b, S)
<1>1. /\ c \in Clients /\ c \in Procs /\ pc'[c] = pc[c] /\ op'[c] = op[c] /\ out'[c] = out[c]
      /\ seen'[c] = seen[c] /\ todo'[c] = todo[c]
  BY MovesAlone, ListsAlone DEF Alone, Entering, Procs
<1> QED
  BY <1>1 DEF Entering, For

(* Who begins to list the directory counts every job that is Running, and  *)
(* who goes on with its listing remembers what it has counted.             *)
LEMMA SubmittersEnter ==
  ASSUME IsFiniteSet(Clients), MultiProcess, Types, Types', Locals, NEW p \in Clients, Moves(p),
         NEW b \in Backends, NEW S \in SUBSET Jobs, S \subseteq Busy(b), p \in Entering(b, S)'
  PROVE  \/ p \in Entering(b, S) /\ (pc[p] = "flushw" => pc'[p] = "flushw")
         \/ Cardinality(S) < MaxLanes
<1>0. /\ p \in Procs /\ p \notin Tasks /\ p \notin Services /\ op'[p] = "submit"
      /\ BackendOf[out'[p].task] = b /\ out'[p].status = "Running"
      /\ \/ pc'[p] \in {"create", "openw", "flushw"}
         \/ /\ pc'[p] \in {"scan", "open"}
            /\ Cardinality(S \cap (seen'[p] \cup todo'[p])) < MaxLanes
  BY ProcsAssumption DEF Procs, Entering, For
<1>r. \A outcome : ~Return(p, outcome)
  BY <1>0 DEF Return, Types, LocalTypeOK
<1>1. /\ \/ pc[p] = "list" /\ pc'[p] = "scan"
         \/ pc[p] = "scan" /\ pc'[p] \in {"scan", "open"}
         \/ pc[p] = "open" /\ pc'[p] = "scan"
         \/ pc[p] = "scan" /\ pc'[p] = "create" /\ Listed(p)
         \/ pc[p] = "create" /\ pc'[p] = "openw"
         \/ pc[p] \in {"openw", "flushw", "overwrite"} /\ pc'[p] = "flushw"
      /\ op[p] = "submit" /\ out'[p] = out[p]
  BY <1>0, SubmitterMoves
<1>2. For(p, b) /\ out[p].status = "Running" /\ pc[p] # "overwrite"
  BY <1>0, <1>1 DEF For, Locals, Submissions
<1>f. IsFiniteSet(S) /\ Cardinality(S) \in Nat /\ MaxLanes \in Nat
  BY LaneTypes
<1>3. CASE pc[p] = "list"
  <2>1. List(p)
    BY <1>3, ListingMoves
  <2>2. todo'[p] = {j \in Jobs : file[j] # Nil}
    BY <1>0, <2>1 DEF List, Types, LocalTypeOK
  <2>3. S \cap (seen'[p] \cup todo'[p]) = S
    BY <2>2 DEF Busy, Lanes
  <2> QED
    BY <1>0, <1>1, <1>3, <2>3
<1>4. CASE pc[p] \in {"scan", "open"} /\ pc'[p] \in {"scan", "open"}
  <2>1. Scan(p) \/ Open(p)
    <3>1. pc[p] = "scan" => ~Listed(p)
      BY <1>0, <1>r, <1>2, <1>4 DEF For, Listed, Goto, Types, LocalTypeOK
    <3> QED
      BY <1>4, <3>1, ListingMoves
  <2>2. ASSUME NEW j \in S, j \in seen[p] \cup todo[p] PROVE j \in seen'[p] \cup todo'[p]
    <3>0. j \in Jobs /\ file[j] # Nil /\ BackendOf[file[j].rec.task] = b
      BY DEF Busy, Lanes
    <3>1. CASE Scan(p)
      <4>1. seen'[p] = seen[p]
            /\ (todo'[p] = todo[p] \/ \E i \in todo[p] : file[i] = Nil /\ todo'[p] = todo[p] \ {i})
        BY <1>0, <3>1 DEF Scan, Types, LocalTypeOK
      <4> QED
        BY <2>2, <3>0, <4>1
    <3>2. CASE Open(p)
      <4>1. /\ todo'[p] = todo[p] \ {job[p]}
            /\ seen'[p] = IF Wanted(p, file[job[p]].rec) THEN seen[p] \cup {job[p]} ELSE seen[p]
        BY <1>0, <1>r, <3>2 DEF Open, Types, LocalTypeOK
      <4>2. Wanted(p, file[job[p]].rec) <=> BackendOf[file[job[p]].rec.task] = b
        BY <1>2 DEF Wanted, For
      <4> QED
        BY <2>2, <3>0, <4>1, <4>2
    <3> QED
      BY <2>1, <3>1, <3>2
  <2>3. S \cap (seen[p] \cup todo[p]) \subseteq S \cap (seen'[p] \cup todo'[p])
    BY <2>2
  <2>4. /\ IsFiniteSet(S \cap (seen'[p] \cup todo'[p]))
        /\ Cardinality(S \cap (seen'[p] \cup todo'[p])) \in Nat
        /\ Cardinality(S \cap (seen[p] \cup todo[p])) \in Nat
        /\ Cardinality(S \cap (seen[p] \cup todo[p]))
              <= Cardinality(S \cap (seen'[p] \cup todo'[p]))
    <3>1. IsFiniteSet(S \cap (seen'[p] \cup todo'[p]))
      BY <1>f, FS_Subset
    <3>2. IsFiniteSet(S \cap (seen[p] \cup todo[p]))
      BY <1>f, FS_Subset
    <3> QED
      BY <2>3, <3>1, <3>2, FS_Subset, FS_CardinalityType
  <2>5. Cardinality(S \cap (seen[p] \cup todo[p])) < MaxLanes
    BY <1>0, <1>4, <1>f, <2>4
  <2> QED
    BY <1>2, <1>4, <2>5 DEF Entering
<1>5. CASE Listed(p) /\ pc[p] = "scan" /\ pc'[p] = "create"
  <2>1. todo[p] = {} /\ ~Full(p)
    BY <1>0, <1>r, <1>2, <1>5 DEF For, Listed
  <2>2. IsFiniteSet(seen[p]) /\ Cardinality(seen[p]) \in Nat
    <3>1. seen[p] \subseteq Jobs
      BY <1>0 DEF Types, LocalTypeOK
    <3> QED
      BY <3>1, SubmissionsAssumption, FS_Subset, FS_CardinalityType
  <2>3. Cardinality(seen[p]) < MaxLanes
    BY <1>f, <2>1, <2>2 DEF Full
  <2>4. S \cap (seen[p] \cup todo[p]) \subseteq seen[p]
    BY <2>1
  <2>5. Cardinality(S \cap (seen[p] \cup todo[p])) <= Cardinality(seen[p])
        /\ Cardinality(S \cap (seen[p] \cup todo[p])) \in Nat
    BY <2>2, <2>4, FS_Subset, FS_CardinalityType
  <2>6. Cardinality(S \cap (seen[p] \cup todo[p])) < MaxLanes
    BY <1>f, <2>2, <2>3, <2>5
  <2> QED
    BY <1>2, <1>5, <2>6 DEF Entering
<1>6. CASE pc[p] \in {"create", "openw", "flushw"}
  BY <1>1, <1>2, <1>6 DEF Entering
<1> QED
  BY <1>1, <1>2, <1>3, <1>4, <1>5, <1>6

(* A record becomes one that runs and that nobody has in hand when its     *)
(* submitter has written it.                                               *)
LEMMA SettledMoves ==
  ASSUME Types, HandleOK, Locals, NEW p \in Procs, Moves(p), NEW b \in Backends,
         NEW j \in Settled(b)', j \notin Settled(b)
  PROVE  p \in Creating(b) /\ pc'[p] # "flushw" /\ j = job[p]
<1>0. /\ j \in Jobs /\ file'[j] # Nil /\ BackendOf[file'[j].rec.task] = b
      /\ file'[j].rec.status = "Running" /\ \A c \in Creating(b)' : job'[c] # j
  BY DEF Settled, Busy, Lanes
<1>1. ASSUME p \in Clients, For(p, b), pc[p] = "flushw", out[p].status = "Running", job[p] = j
      PROVE  p \in Creating(b) /\ pc'[p] # "flushw"
  <2>1. FlushW(p) \/ FlushPart(p)
    BY <1>1, WriteMoves, ProcsAssumption
  <2>2. ~FlushPart(p)
    BY <1>0, <1>1 DEF FlushPart, locals, Creating, For
  <2>3. FlushW(p) => pc'[p] # "flushw"
    <3>1. FlushW(p) => UpdateReturns(p)
      BY DEF FlushW
    <3>2. p \in Callers
      BY <1>1 DEF Callers
    <3> QED
      BY <1>1, <3>1, <3>2, UpdateEnds
  <2> QED
    BY <1>1, <2>1, <2>2, <2>3 DEF Creating
<1>2. CASE j \in Busy(b)
  <2>1. PICK c \in Creating(b) : job[c] = j
    BY <1>2 DEF Settled
  <2>2. c = p
    <3> SUFFICES ASSUME c # p PROVE FALSE
      OBVIOUS
    <3>1. c \in Clients /\ pc'[c] = pc[c] /\ op'[c] = op[c] /\ out'[c] = out[c] /\ job'[c] = job[c]
      BY <2>1, MovesAlone DEF Alone, Creating, Procs
    <3> QED
      BY <1>0, <2>1, <3>1 DEF Creating, For
  <2> QED
    BY <1>1, <2>1, <2>2 DEF Creating
<1>3. CASE j \notin Busy(b)
  <2>1. /\ pc[p] \in {"openw", "flush", "trunc", "flushw", "overwrite"} /\ j = job[p]
        /\ file'[j].rec = out[p]
    BY <1>0, <1>3, FileMoves DEF Busy, Lanes, Types, SharedTypeOK
  <2>2. p \in Clients /\ op[p] = "submit" /\ pc[p] \in {"openw", "flushw"}
    BY <1>0, <2>1, RunningWriter
  <2>3. For(p, b) /\ out[p].status = "Running"
    BY <1>0, <2>1, <2>2 DEF For
  <2>4. pc[p] # "openw"
    <3> SUFFICES ASSUME pc[p] = "openw" PROVE FALSE
      OBVIOUS
    <3>1. OpenW(p)
      BY <2>2, WriteMoves, ProcsAssumption
    <3>2. pc'[p] = "flushw" /\ op'[p] = op[p] /\ out'[p] = out[p] /\ job'[p] = job[p]
      BY <3>1 DEF OpenW, Goto, Types, LocalTypeOK
    <3> QED
      BY <1>0, <2>1, <2>2, <2>3, <3>2 DEF Creating, For
  <2> QED
    BY <1>1, <2>1, <2>2, <2>3, <2>4
<1> QED
  BY <1>2, <1>3

LEMMA RoomMoves ==
  ASSUME IsFiniteSet(Clients), MultiProcess, Types, Types', HandleOK, Locals,
         NEW p \in Procs, Moves(p), NEW b \in Backends, Room(b)
  PROVE  Room(b)'
<1> SUFFICES ASSUME NEW S \in SUBSET Jobs, S \subseteq Settled(b)'
             PROVE  HaveRoom(S, Entering(b, S)')
  BY DEF Room, HaveRoom
<1>0. \A T \in SUBSET Jobs : Entering(b, T) \in SUBSET Clients /\ Entering(b, T)' \in SUBSET Clients
  BY DEF Entering
<1>1. CASE S \subseteq Settled(b)
  <2>1. HaveRoom(S, Entering(b, S)) /\ S \subseteq Busy(b)
    BY <1>1 DEF Room, Settled
  <2>2. CASE Cardinality(S) < MaxLanes
    BY <1>0, <2>2, FewLeaveRoom
  <2>3. CASE ~(Cardinality(S) < MaxLanes)
    <3>1. Entering(b, S)' \subseteq Entering(b, S)
      <4> SUFFICES ASSUME NEW c \in Entering(b, S)' PROVE c \in Entering(b, S)
        OBVIOUS
      <4>1. c \in Clients
        BY <1>0
      <4> QED
        BY <2>1, <2>3, <4>1, OthersStayOut, SubmittersEnter
    <3> QED
      BY <1>0, <2>1, <3>1, NobodyComes
  <2> QED
    BY <2>2, <2>3
<1>2. CASE ~(S \subseteq Settled(b))
  <2>1. PICK j \in S : j \notin Settled(b)
    BY <1>2
  <2>2. p \in Creating(b) /\ pc'[p] # "flushw" /\ j = job[p] /\ p \in Clients /\ j \in Jobs
    BY <2>1, SettledMoves DEF Creating
  <2>3. /\ S \ {j} \in SUBSET Jobs /\ S \ {j} \subseteq Settled(b) /\ S \subseteq (S \ {j}) \cup {j}
        /\ S \ {j} \subseteq Busy(b)
    BY <2>2, SettledMoves DEF Settled
  <2>4. HaveRoom(S \ {j}, Entering(b, S \ {j}))
    BY <2>3 DEF Room
  <2>5. p \in Entering(b, S \ {j})
    BY <2>2 DEF Creating, Entering
  <2>6. p \notin Entering(b, S)'
    <3> SUFFICES ASSUME p \in Entering(b, S)' PROVE FALSE
      OBVIOUS
    <3>1. op'[p] = "submit" /\ pc'[p] \in {"create", "openw", "flushw", "scan", "open"}
      BY DEF Entering, For
    <3>2. pc[p] = "flushw"
      BY <2>2 DEF Creating
    <3> QED
      BY <2>2, <3>1, <3>2, SubmitterMoves DEF Submit, Ready
  <2>7. ASSUME NEW c \in Entering(b, S)' PROVE c \in Entering(b, S \ {j}) /\ c # p
    <3>1. c # p
      BY <2>6
    <3>2. c \in Entering(b, S) /\ c \in Procs
      BY <1>0, <3>1, OthersStayOut DEF Procs
    <3>3. Cardinality((S \ {j}) \cap (seen[c] \cup todo[c])) \in Nat
          /\ Cardinality(S \cap (seen[c] \cup todo[c])) \in Nat
          /\ Cardinality((S \ {j}) \cap (seen[c] \cup todo[c]))
               <= Cardinality(S \cap (seen[c] \cup todo[c]))
      <4>1. IsFiniteSet(S)
        BY LaneTypes, <1>0
      <4>2. IsFiniteSet(S \cap (seen[c] \cup todo[c]))
        BY <4>1, FS_Subset
      <4>3. (S \ {j}) \cap (seen[c] \cup todo[c]) \subseteq S \cap (seen[c] \cup todo[c])
        OBVIOUS
      <4> QED
        BY <4>2, <4>3, FS_Subset, FS_CardinalityType
    <3>4. MaxLanes \in Nat
      BY SubmissionsAssumption
    <3> QED
      BY <3>1, <3>2, <3>3, <3>4 DEF Entering
  <2>8. Entering(b, S)' \subseteq Entering(b, S \ {j}) \ {p}
    BY <2>7
  <2> QED
    BY <1>0, <2>2, <2>3, <2>4, <2>5, <2>8, RecordForSubmission
<1> QED
  BY <1>1, <1>2

LEMMA LaneStep ==
  ASSUME IsFiniteSet(Clients), MultiProcess, TypeOK, TypeOK', WriterInv, LaneInv, [Next]_vars
  PROVE  LaneInv'
<1>0. Types /\ Types' /\ HandleOK /\ Locals
  BY DEF TypeOK, WriterInv
<1> SUFFICES ASSUME NEW b \in Backends PROVE Room(b)'
  BY DEF LaneInv
<1>1. Room(b)
  BY DEF LaneInv
<1>2. ASSUME NEW p \in Procs, Moves(p) PROVE Room(b)'
  BY <1>0, <1>1, <1>2, RoomMoves
<1>3. ASSUME file' = file, seen' = seen, todo' = todo,
             \A c \in Clients : \/ pc'[c] = pc[c] /\ op'[c] = op[c] /\ job'[c] = job[c]
                                   /\ out'[c] = out[c]
                                \/ pc[c] = "dispatch" /\ pc'[c] \in {"fail", "register", "idle"}
      PROVE  Room(b)'
  <2>1. Settled(b)' \subseteq Settled(b)
    BY <1>3 DEF Settled, Busy, Lanes, Creating, For
  <2>2. \A S \in SUBSET Jobs : Entering(b, S)' \subseteq Entering(b, S)
    BY <1>3 DEF Entering, For
  <2>3. \A S \in SUBSET Jobs : Entering(b, S)' \in SUBSET Clients /\ Entering(b, S) \in SUBSET Clients
    BY DEF Entering
  <2>4. ASSUME NEW S \in SUBSET Jobs, S \subseteq Settled(b)' PROVE HaveRoom(S, Entering(b, S)')
    BY <1>1, <2>1, <2>2, <2>3, <2>4, NobodyComes DEF Room
  <2> QED
    BY <2>4 DEF Room, HaveRoom
<1>4. ASSUME NEW d \in Clients, Dispatch(d) PROVE Room(b)'
  <2>1. file' = file /\ seen' = seen /\ todo' = todo
    BY <1>4 DEF Dispatch, locals
  <2>2. \A c \in Clients : c # d => /\ pc'[c] = pc[c] /\ op'[c] = op[c] /\ job'[c] = job[c]
                                    /\ out'[c] = out[c]
    BY <1>0, <1>4, DispatchFrame, Kinds DEF Callers
  <2>3. pc[d] = "dispatch" /\ pc'[d] \in {"fail", "register", "idle"}
    BY <1>0, <1>4, DispatchFrame
  <2> QED
    BY <1>3, <2>1, <2>2, <2>3
<1>5. \A c \in Clients, t \in Tasks : ~SubmitEmpty(c, t)
  BY DEF SubmitEmpty
<1>6. CASE UNCHANGED vars
  <2>1. UNCHANGED <<file, pc, op, job, out, todo, seen>>
    BY <1>6 DEF vars
  <2> QED
    BY <1>3, <2>1
<1> QED
  BY <1>2, <1>4, <1>5, <1>6, NextSplit

LEMMA InitLaneInv == Init => LaneInv
<1> SUFFICES ASSUME Init, NEW b \in Backends, NEW S \in SUBSET Jobs, S \subseteq Settled(b)
             PROVE  HaveRoom(S, Entering(b, S))
  BY DEF LaneInv, Room
<1>1. /\ \A c \in Clients : op[c] = "none"
      /\ \A j \in Jobs : file[j] = Nil
  BY ProcsAssumption DEF Init, Procs
<1>2. S = {} /\ Entering(b, S) = {}
  BY <1>1 DEF Settled, Busy, Lanes, Entering, For
<1> QED
  BY <1>2 DEF HaveRoom

LEMMA InvLanes ==
  ASSUME IsFiniteSet(Clients), TypeOK, LaneInv
  PROVE  LaneOvershootIsBounded
<1> SUFFICES ASSUME NEW b \in Backends, Busy(b) # {}
             PROVE  Cardinality(Busy(b)) + Cardinality(Admitted(b))
                      < MaxLanes + Cardinality(Clients)
  BY DEF LaneOvershootIsBounded
<1> DEFINE S == Settled(b)
           E == Entering(b, S)
           C == Creating(b)
           A == Admitted(b)
           H == {job[c] : c \in C}
<1>1. /\ S \in SUBSET Jobs /\ E \in SUBSET Clients /\ C \in SUBSET Clients /\ A \in SUBSET Clients
  BY DEF Settled, Busy, Lanes, Entering, Creating, Admitted
<1>2. /\ Busy(b) \subseteq S \cup H /\ A \cup C \subseteq E /\ A \cap C = {}
  BY DEF Settled, Entering, Creating, Admitted, For
<1>3. HaveRoom(S, E)
  BY <1>1 DEF LaneInv, Room
<1>4. /\ IsFiniteSet(S) /\ Cardinality(S) \in Nat /\ IsFiniteSet(E) /\ Cardinality(E) \in Nat
      /\ IsFiniteSet(C) /\ IsFiniteSet(A) /\ Cardinality(Clients) \in Nat /\ MaxLanes \in Nat
      /\ Cardinality(A) \in Nat /\ Cardinality(C) \in Nat
  BY <1>1, LaneTypes
<1>5. IsFiniteSet(H) /\ Cardinality(H) <= Cardinality(C) /\ Cardinality(H) \in Nat
  <2> DEFINE f == [c \in C |-> job[c]]
  <2>1. f \in Surjection(C, H)
    BY DEF Surjection
  <2> HIDE DEF C, H, f
  <2> QED
    BY <1>4, <2>1, FS_Surjection, FS_CardinalityType
<1>6. Cardinality(A) + Cardinality(C) <= Cardinality(E)
  <2>1. IsFiniteSet(A \cup C) /\ Cardinality(A \cup C) = Cardinality(A) + Cardinality(C)
    <3> HIDE DEF A, C
    <3>1. Cardinality(A \cap C) = 0
      BY <1>2, FS_EmptySet
    <3> QED
      BY <1>4, <3>1, FS_Union
  <2>2. Cardinality(A \cup C) <= Cardinality(E)
    BY <1>2, <1>4, FS_Subset
  <2> QED
    BY <2>1, <2>2
<1>7. Cardinality(Busy(b)) <= Cardinality(S) + Cardinality(H) /\ Cardinality(Busy(b)) \in Nat
  <2> HIDE DEF S, H
  <2>1. /\ IsFiniteSet(S \cup H) /\ Cardinality(S \cap H) \in Nat
        /\ Cardinality(S \cup H) = Cardinality(S) + Cardinality(H) - Cardinality(S \cap H)
    BY <1>4, <1>5, FS_Union, FS_Intersection, FS_CardinalityType
  <2>2. Cardinality(Busy(b)) <= Cardinality(S \cup H) /\ Cardinality(Busy(b)) \in Nat
    BY <1>2, <2>1, FS_Subset, FS_CardinalityType
  <2> QED
    BY <1>4, <1>5, <2>1, <2>2
<1>8. ~(S = {} /\ E = {})
  BY <1>2
<1> HIDE DEF S, E, C, A, H
<1> QED
  BY <1>3, <1>4, <1>5, <1>6, <1>7, <1>8 DEF HaveRoom, A

(* Submissions that pass the admission control of run_job together exceed  *)
(* the limit of lanes by less than one for each client, for every number   *)
(* of clients, backends and lanes, and whatever ends, is cancelled or      *)
(* deleted, or submitted again under an id that became free, while a       *)
(* listing is counted: the jobs that stay Running during a listing are all *)
(* counted in it, and each of the others takes the place of a submission.  *)
THEOREM LanesAreBounded ==
  ASSUME IsFiniteSet(Clients), MultiProcess
  PROVE  Spec => []LaneOvershootIsBounded
<1>1. /\ TypeOK /\ TypeOK' /\ WriterInv /\ LaneInv /\ [Next]_vars => LaneInv'
      /\ TypeOK /\ LaneInv => LaneOvershootIsBounded
  BY LaneStep, InvLanes
<1> QED
  BY <1>1, InitLaneInv, WriterInvariant, TypeCorrect, PTL DEF Spec

-----------------------------------------------------------------------------
(* Who ends a job, when the executions are worker processes: each of them  *)
(* may die at any point, but only of a SIGTERM.                            *)

(* A call that will make the record say Cancelled.                         *)
Cancelling(p, t) ==
    /\ op[p] \in {"cancel", "close"} /\ job[p] = JobId[t]
    /\ pc[p] \in {"update", "check"} \/ (pc[p] = "flush" /\ fd[p])

(* Nobody but a client makes a record Running, once, and whoever takes the *)
(* execution away has the record in hand until it says how the job ended:  *)
(* the client that could not start it, the execution itself, or the caller *)
(* that killed it, whose check of the text and of the status succeeds.     *)
Unstarted(t) ==
    pc[t] = "void" /\ HasRunning(t) =>
        \E c \in Clients : SubmittedBy(c, t) /\ pc[c] \in {"fail", "overwrite"}
Finished(t) == pc[t] = "done" => ~HasRunning(t)
Killed(t) ==
    /\ t \in sigterm => pc[t] # "unborn"
    /\ (t \in sigterm \/ pc[t] = "dead") /\ HasRunning(t) =>
          \E p \in Callers : Cancelling(p, t)
Reread(t) ==
    \A p \in Callers : job[p] = JobId[t] /\ (pc[p] = "trunc" \/ (pc[p] = "flush" /\ ~fd[p]))
        => ~HasRunning(t)
Readable(t) ==
    ~Fresh(t) => \A j \in Jobs :
        file[j] # Nil /\ file[j].rec.task = t /\ file[j].rec.status = "Running"
            => Parses(file[j])
Opening(c) == fd[c] /\ file[job[c]].rec = out[c] /\ file[job[c]].len <= Size(out[c])
Writable(t) ==
    Fresh(t) => \A c \in Clients : SubmittedBy(c, t) /\ pc[c] = "flushw" => Opening(c)

Tended(t) ==
    /\ (Fresh(t) => UnknownYet(t)) /\ Deletable(t)
    /\ Unstarted(t) /\ Finished(t) /\ Killed(t) /\ Reread(t) /\ Readable(t) /\ Writable(t)

(* The registry has the workers under the ids of their jobs.               *)
Registered ==
    \A s \in Services, j \in Jobs : registry[s][j] # Nil => JobId[registry[s][j]] = j

(* A worker dies of a SIGTERM only.                                        *)
LEMMA DeathsAreKills ==
  ASSUME Types, Locals, Next, NEW t \in Tasks, pc'[t] = "dead"
  PROVE  pc[t] = "dead" \/ t \in sigterm
<1>0. t \in Procs /\ t \notin Clients /\ t \notin Services
  BY Kinds, ProcsAssumption
<1>1. ASSUME NEW p \in Procs, p # t, Moves(p) PROVE pc[t] = "dead"
  BY <1>0, <1>1, MovesAlone DEF Alone
<1>2. ASSUME TaskStep(t) PROVE FALSE
  <2>1. ~(UpdateReturns(t) /\ pc'[t] = "dead") /\ ~(UpdateRaises(t) /\ pc'[t] = "dead")
    BY <1>0, UpdateEnds
  <2>2. ~Write(t)
    BY <1>0, <2>1 DEF Write, Update, Check, Flush, Truncate, OpenW, FlushW, FlushPart, Fail,
       Overwrite, OverwritePart, Goto, Types, LocalTypeOK
  <2> QED
    BY <1>0, <1>2, <2>2 DEF TaskStep, Run, PutResults, PutLogs, Goto, Types, LocalTypeOK
<1>3. ASSUME NEW c \in Clients, Dispatch(c) PROVE pc[t] = "dead"
  BY <1>0, <1>3, DispatchFrame, Kinds DEF Callers
<1>4. ASSUME NEW c \in Clients, NEW u \in Tasks, SubmitEmpty(c, u) PROVE pc[t] = "dead"
  BY <1>0, <1>4, EmptyFrame
<1>5. CASE \E u \in Tasks : TaskStep(u) \/ Die(u)
  <2>1. ASSUME NEW u \in Tasks, u # t, TaskStep(u) \/ Die(u) PROVE pc[t] = "dead"
    <3>1. Moves(u) /\ u \in Procs
      BY <2>1, Kinds DEF Moves, TaskMoves, TaskStep, Die
    <3> QED
      BY <1>1, <2>1, <3>1
  <2>2. Die(t) => t \in sigterm
    BY DEF Die
  <2> QED
    BY <1>2, <1>5, <2>1, <2>2
<1>6. CASE ~\E u \in Tasks : TaskStep(u) \/ Die(u)
  <2>1. \/ \E p \in Callers : Moves(p)
        \/ \E c \in Clients : Dispatch(c)
        \/ \E c \in Clients, u \in Tasks : SubmitEmpty(c, u)
    BY <1>6, Kinds DEF Next, Request, ClientStep, CloseStep, Moves, ClientMoves, CloseMoves,
       Callers
  <2>2. \A p \in Callers : p \in Procs /\ p # t
    BY Kinds
  <2> QED
    BY <1>1, <1>3, <1>4, <2>1, <2>2
<1> QED
  BY <1>5, <1>6

(* SIGTERM is sent to the worker that the registry has for the job.        *)
LEMMA Terminations ==
  ASSUME Types, Next, NEW t \in Tasks, t \in sigterm', t \notin sigterm
  PROVE  \E p \in Callers : /\ Kill(p) /\ Alive(t) /\ registry[Server(p)][job[p]] = t
<1>1. ASSUME NEW p \in Procs, Moves(p), sigterm' # sigterm PROVE p \in Callers /\ Kill(p)
  <2>1. ~Write(p)
    BY <1>1 DEF Write, Update, Check, Flush, Truncate, OpenW, FlushW, FlushPart, Fail,
       Overwrite, OverwritePart, shared
  <2>2. ~ClientMoves(p) /\ ~TaskMoves(p) /\ ~CloseMoves(p) /\ ~Inactive(p)
    BY <1>1 DEF ClientMoves, GetJobs, UseJob, Submit, Refuse, Begin, Reap, Remove, Create,
       Register, TaskMoves, Run, PutResults, PutLogs, End, CloseMoves, StartClose, Shutdown,
       CancelNext, Inactive, shared
  <2>3. ~(List(p) \/ Scan(p) \/ Open(p) \/ Listed(p) \/ Read(p) \/ Load(p))
    BY <1>1 DEF List, Scan, Open, Listed, Read, Load, shared
  <2> QED
    BY <1>1, <2>1, <2>2, <2>3 DEF Moves, Serve
<1>2. \A c \in Clients : Dispatch(c) => sigterm' = sigterm
  BY DEF Dispatch, shared
<1>3. \A c \in Clients, u \in Tasks : SubmitEmpty(c, u) => sigterm' = sigterm
  BY DEF SubmitEmpty, shared
<1>4. PICK p \in Callers : Kill(p)
  BY <1>1, <1>2, <1>3, NextSplit
<1>5. Alive(t) /\ registry[Server(p)][job[p]] = t
  BY <1>4 DEF Kill
<1> QED
  BY <1>4, <1>5

LEMMA RegisteredStep ==
  ASSUME Types, Ids, Registered, Next
  PROVE  Registered'
<1>1. ASSUME NEW p \in Procs, Moves(p), registry' # registry
      PROVE  p \in Clients /\ (Reap(p) \/ Register(p))
  <2>1. ~Write(p)
    BY <1>1 DEF Write, Update, Check, Flush, Truncate, OpenW, FlushW, FlushPart, Fail,
       Overwrite, OverwritePart, shared
  <2>2. ~TaskMoves(p) /\ ~CloseMoves(p) /\ ~Inactive(p) /\ ~Serve(p)
    BY <1>1 DEF TaskMoves, Run, PutResults, PutLogs, End, CloseMoves, StartClose, Shutdown,
       CancelNext, Inactive, Serve, List, Scan, Open, Listed, Read, Load, Kill, shared
  <2>3. ClientMoves(p) => Reap(p) \/ Register(p)
    BY <1>1 DEF ClientMoves, GetJobs, UseJob, Submit, Refuse, Begin, Remove, Create, shared
  <2> QED
    BY <1>1, <2>1, <2>2, <2>3 DEF Moves
<1>2. \A c \in Clients : Dispatch(c) => registry' = registry
  BY DEF Dispatch, shared
<1>3. \A c \in Clients, u \in Tasks : SubmitEmpty(c, u) => registry' = registry
  BY DEF SubmitEmpty, shared
<1>4. ASSUME NEW c \in Clients, Reap(c) \/ Register(c) PROVE Registered'
  <2>1. /\ Home[c] \in Services /\ c \in Callers
        /\ registry \in [Services -> [Jobs -> Tasks \cup {Nil}]]
    BY ProcsAssumption DEF Types, SharedTypeOK, Callers
  <2>2. CASE Reap(c)
    <3>1. \A s \in Services, j \in Jobs : registry'[s][j] \in {Nil, registry[s][j]}
      BY <2>1, <2>2 DEF Reap
    <3> QED
      BY <3>1 DEF Registered
  <2>3. CASE Register(c)
    <3>1. JobId[out[c].task] = job[c]
      BY <2>1, <2>3 DEF Register, Ids, WithRecord
    <3>2. \A s \in Services, j \in Jobs :
            \/ registry'[s][j] = registry[s][j]
            \/ j = job[c] /\ registry'[s][j] = out[c].task
      BY <2>1, <2>3 DEF Register
    <3> QED
      BY <3>1, <3>2 DEF Registered
  <2> QED
    BY <1>4, <2>2, <2>3
<1>5. registry' = registry => Registered'
  BY DEF Registered
<1> QED
  BY <1>1, <1>2, <1>3, <1>4, <1>5, NextSplit

(* A caller that is not the one that moves stays where it is, and keeps    *)
(* its file unless the record is deleted.                                  *)
LEMMA OthersStay ==
  ASSUME Types, HandleOK, NEW p \in Procs, Moves(p), NEW q \in Procs, q # p
  PROVE  /\ pc'[q] = pc[q] /\ op'[q] = op[q] /\ job'[q] = job[q] /\ out'[q] = out[q]
         /\ \/ fd'[q] = fd[q]
            \/ p \in Clients /\ pc[p] = "remove" /\ job[q] = job[p]
<1>1. pc'[q] = pc[q] /\ op'[q] = op[q] /\ job'[q] = job[q] /\ out'[q] = out[q]
  BY MovesAlone DEF Alone
<1>2. fd[q] \in BOOLEAN
  BY DEF Types, LocalTypeOK
<1> QED
  BY <1>1, <1>2, FileMoves

(* Dispatching, besides, starts or gives up one execution.                 *)
LEMMA DispatchersStay ==
  ASSUME Types, Locals, NEW c \in Clients, Dispatch(c)
  PROVE  /\ UNCHANGED <<file, fd>> /\ op[c] = "submit" /\ pc[c] = "dispatch"
         /\ pc[out[c].task] = "unborn" /\ out[c].task \in Tasks
         /\ \A q \in Callers : q # c => /\ pc'[q] = pc[q] /\ op'[q] = op[q] /\ job'[q] = job[q]
                                        /\ out'[q] = out[q]
         /\ \A u \in Tasks : u # out[c].task => pc'[u] = pc[u]
         /\ pc'[out[c].task] \in {"void", "ready"}
         /\ pc'[out[c].task] = "void" =>
               pc'[c] = "fail" /\ op'[c] = op[c] /\ job'[c] = job[c] /\ out'[c] = out[c]
<1>1. c \in Callers /\ \A q \in Callers : q \in Procs /\ q \notin Tasks
  BY Kinds DEF Callers
<1>2. pc[c] = "dispatch" /\ out[c].task \in Tasks
  BY DispatchFrame
<1>3. op[c] = "submit"
  BY <1>1, <1>2 DEF Locals, Cancellations, WithRecord
<1>4. pc[out[c].task] = "unborn"
  BY <1>2, <1>3 DEF Locals, Submissions
<1> QED
  BY <1>1, <1>2, <1>3, <1>4, DispatchFrame, Kinds

(* Whoever could not start the execution replaces the record.              *)
LEMMA UnstartedStep ==
  ASSUME MultiProcess, TypeOK, Ids, Ids', Locals, Next, NEW t \in Tasks, Unstarted(t)
  PROVE  Unstarted(t)'
<1> SUFFICES ASSUME pc'[t] = "void", HasRunning(t)'
             PROVE  \E c \in Clients : SubmittedBy(c, t)' /\ pc'[c] \in {"fail", "overwrite"}
  BY DEF Unstarted
<1>0. /\ Types /\ HandleOK /\ t \in Procs
      /\ file'[JobId[t]] # Nil /\ file'[JobId[t]].rec.task = t
      /\ file'[JobId[t]].rec.status = "Running"
  BY Kinds DEF TypeOK, Ids, HasRunning
<1>1. ASSUME NEW p \in Procs, Moves(p)
      PROVE  \E c \in Clients : SubmittedBy(c, t)' /\ pc'[c] \in {"fail", "overwrite"}
  <2>1. pc[t] = "void"
    BY <1>0, <1>1, BirthMoves
  <2>2. HasRunning(t)
    BY <1>0, <2>1, RunningIsNotBack DEF Submitted
  <2>3. PICK c \in Clients : SubmittedBy(c, t) /\ pc[c] \in {"fail", "overwrite"}
    BY <2>1, <2>2 DEF Unstarted
  <2>4. CASE c # p
    BY <1>0, <1>1, <2>3, <2>4, OthersStay, Kinds DEF SubmittedBy, Callers
  <2>5. CASE c = p
    <3>1. /\ c \in Procs /\ c \in Callers /\ c \notin Tasks /\ job[c] = JobId[t]
          /\ JobId[t] \in Jobs /\ file[JobId[t]] # Nil
      BY <2>2, <2>3, Kinds, OwnRecord, SubmissionsAssumption
         DEF Ids, SubmittedBy, WithRecord, Callers
    <3>2. CASE pc[c] = "fail"
      <4>1. Fail(c)
        BY <1>0, <1>1, <2>5, <3>1, <3>2, WriteMoves
      <4>2. pc'[c] = "overwrite" /\ op'[c] = op[c] /\ out'[c].task = out[c].task
        BY <1>0, <3>1, <4>1 DEF Fail, Goto, Types, LocalTypeOK, CallerTypeOK, WithRecord, Record,
           Callers
      <4> QED
        BY <2>3, <4>2 DEF SubmittedBy
    <3>3. CASE pc[c] = "overwrite"
      <4>1. Overwrite(c) \/ OverwritePart(c)
        BY <1>0, <1>1, <2>5, <3>1, <3>3, WriteMoves
      <4>2. out[c].status = "Failed"
        BY <2>3, <3>3 DEF Locals, Submissions, SubmittedBy
      <4>3. file'[JobId[t]].rec = out[c]
        BY <1>0, <3>1, <4>1 DEF Overwrite, OverwritePart, Written, WrittenPart, Types,
           SharedTypeOK
      <4> QED
        BY <1>0, <4>2, <4>3
    <3> QED
      BY <2>3, <3>2, <3>3
  <2> QED
    BY <2>4, <2>5
<1>2. ASSUME NEW d \in Clients, Dispatch(d)
      PROVE  \E c \in Clients : SubmittedBy(c, t)' /\ pc'[c] \in {"fail", "overwrite"}
  <2>1. CASE t = out[d].task
    BY <1>0, <1>2, <2>1, DispatchersStay DEF SubmittedBy
  <2>2. CASE t # out[d].task
    <3>1. pc[t] = "void" /\ HasRunning(t)
      BY <1>0, <1>2, <2>2, DispatchersStay DEF HasRunning
    <3>2. PICK c \in Clients : SubmittedBy(c, t) /\ pc[c] \in {"fail", "overwrite"}
      BY <3>1 DEF Unstarted
    <3>3. c # d
      BY <2>2, <3>2 DEF SubmittedBy
    <3> QED
      BY <1>0, <1>2, <3>2, <3>3, DispatchersStay DEF SubmittedBy, Callers
  <2> QED
    BY <2>1, <2>2
<1>3. \A c \in Clients, u \in Tasks : ~SubmitEmpty(c, u)
  BY DEF SubmitEmpty
<1> QED
  BY <1>1, <1>2, <1>3, NextSplit

(* The logs come after the record, so that who is done left none Running.  *)
LEMMA FinishedStep ==
  ASSUME MultiProcess, TypeOK, Locals, Next, NEW t \in Tasks, LastLogs(t), Finished(t)
  PROVE  Finished(t)'
<1> SUFFICES ASSUME pc'[t] = "done", HasRunning(t)' PROVE FALSE
  BY DEF Finished
<1>0. Types /\ HandleOK /\ t \in Procs
  BY Kinds DEF TypeOK
<1>1. pc[t] \in {"done", "logs"}
  <2>1. ASSUME NEW p \in Procs, Moves(p) PROVE pc[t] \in {"done", "logs"}
    <3>1. CASE p = t
      BY <1>0, <2>1, <3>1, ExecutionMoves
    <3>2. CASE p # t
      BY <1>0, <2>1, <3>2, MovesAlone DEF Alone
    <3> QED
      BY <3>1, <3>2
  <2>2. ASSUME NEW d \in Clients, Dispatch(d) PROVE pc[t] = "done"
    BY <1>0, <2>2, DispatchersStay
  <2>3. \A c \in Clients, u \in Tasks : ~SubmitEmpty(c, u)
    BY DEF SubmitEmpty
  <2> QED
    BY <2>1, <2>2, <2>3, NextSplit
<1>2. HasRunning(t)
  BY <1>0, <1>1, RunningIsNotBack DEF Submitted
<1> QED
  BY <1>1, <1>2 DEF Finished, LastLogs

(* The caller that killed a worker goes on to cancel its job.              *)
LEMMA CancellingGoesOn ==
  ASSUME OneIdEach, Types, HandleOK, Ids, Ids', Locals,
         NEW t \in Tasks, HasRunning(t), HasRunning(t)', pc[t] # "unborn", Readable(t), Deletable(t),
         NEW p \in Procs, Moves(p), NEW q \in Callers, Cancelling(q, t)
  PROVE  Cancelling(q, t)'
<1>0. /\ q \in Procs /\ q \notin Tasks /\ JobId[t] \in Jobs /\ job[q] = JobId[t]
      /\ file[JobId[t]] # Nil /\ file[JobId[t]].rec.task = t /\ file[JobId[t]].rec.status = "Running"
      /\ file'[JobId[t]] # Nil /\ file'[JobId[t]].rec.task = t
      /\ file'[JobId[t]].rec.status = "Running"
  BY Kinds, OwnRecord, SubmissionsAssumption DEF Cancelling, Ids, HasRunning
<1>1. CASE q # p
  <2>1. ~(p \in Clients /\ pc[p] = "remove" /\ job[q] = job[p])
    BY <1>0, NoneRunningRemoved
  <2>2. /\ pc'[q] = pc[q] /\ op'[q] = op[q] /\ job'[q] = job[q] /\ fd'[q] = fd[q]
    BY <1>0, <1>1, <2>1, OthersStay
  <2> QED
    BY <2>2 DEF Cancelling
<1>2. CASE q = p /\ pc[q] = "update"
  <2>1. Update(q)
    BY <1>0, <1>2, WriteMoves
  <2>2. pc'[q] = "check" /\ op'[q] = op[q] /\ job'[q] = job[q]
    BY <1>0, <2>1 DEF Update, Goto, Types, LocalTypeOK
  <2> QED
    BY <2>2 DEF Cancelling
<1>3. CASE q = p /\ pc[q] = "check"
  <2>1. Check(q)
    BY <1>0, <1>3, WriteMoves
  <2>2. Loads(job[q])
    BY <1>0 DEF Readable, Fresh, Submitted, Loads
  <2>3. pc'[q] = "flush" /\ op'[q] = op[q] /\ job'[q] = job[q] /\ fd'[q]
    BY <1>0, <2>1, <2>2 DEF Check, Goto, Types, LocalTypeOK
  <2> QED
    BY <2>3 DEF Cancelling
<1>4. CASE q = p /\ pc[q] = "flush" /\ fd[q]
  <2>1. Flush(q) \/ FlushPart(q)
    BY <1>0, <1>4, WriteMoves
  <2>2. out[q].status = "Cancelled"
    BY <1>0, <1>4 DEF Locals, Cancellations, WithRecord, Cancelling
  <2>3. file'[JobId[t]].rec = out[q]
    BY <1>0, <1>4, <2>1 DEF Flush, Dump, FlushPart, Written, WrittenPart, Types, SharedTypeOK
  <2> QED
    BY <1>0, <2>2, <2>3
<1> QED
  BY <1>1, <1>2, <1>3, <1>4 DEF Cancelling

LEMMA KilledStep ==
  ASSUME OneIdEach, MultiProcess, TypeOK, Ids, Ids', Locals, Registered, Next,
         NEW t \in Tasks, Readable(t), Deletable(t), Killed(t)
  PROVE  Killed(t)'
<1>0. Types /\ HandleOK /\ t \in Procs /\ t \notin Clients /\ t \notin Services
  BY Kinds, ProcsAssumption DEF TypeOK
<1>1. CASE t \in sigterm \/ pc[t] = "dead"
  <2>1. pc[t] # "unborn"
    BY <1>1 DEF Killed
  <2>2. Submitted(t)
    BY <2>1 DEF Submitted
  <2>3. pc'[t] # "unborn"
    <3>1. ASSUME NEW p \in Procs, Moves(p) PROVE pc'[t] # "unborn"
      BY <1>0, <2>1, <3>1, BirthMoves
    <3>2. ASSUME NEW d \in Clients, Dispatch(d) PROVE pc'[t] # "unborn"
      BY <1>0, <2>1, <3>2, DispatchersStay
    <3>3. \A c \in Clients, u \in Tasks : ~SubmitEmpty(c, u)
      BY DEF SubmitEmpty
    <3> QED
      BY <3>1, <3>2, <3>3, NextSplit
  <2>4. ASSUME HasRunning(t)' PROVE \E p \in Callers : Cancelling(p, t)'
    <3>1. HasRunning(t)
      BY <1>0, <2>2, <2>4, RunningIsNotBack
    <3>2. PICK q \in Callers : Cancelling(q, t)
      BY <1>1, <3>1 DEF Killed
    <3>3. ASSUME NEW p \in Procs, Moves(p) PROVE Cancelling(q, t)'
      BY <1>0, <2>1, <2>4, <3>1, <3>2, <3>3, CancellingGoesOn
    <3>4. ASSUME NEW d \in Clients, Dispatch(d) PROVE Cancelling(q, t)'
      <4>1. q # d
        BY <1>0, <3>2, <3>4, DispatchersStay DEF Cancelling
      <4> QED
        BY <1>0, <3>2, <3>4, <4>1, DispatchersStay DEF Cancelling
    <3>5. \A c \in Clients, u \in Tasks : ~SubmitEmpty(c, u)
      BY DEF SubmitEmpty
    <3> QED
      BY <3>3, <3>4, <3>5, NextSplit
  <2> QED
    BY <2>3, <2>4 DEF Killed
<1>2. CASE t \notin sigterm /\ pc[t] # "dead" /\ t \in sigterm'
  <2>1. PICK p \in Callers : Kill(p) /\ Alive(t) /\ registry[Server(p)][job[p]] = t
    BY <1>0, <1>2, Terminations
  <2>2. /\ p \in Procs /\ p \notin Tasks /\ p # t /\ pc[p] = "kill" /\ job[p] \in Jobs
        /\ Server(p) \in Services
    BY <1>0, <2>1, Kinds, ProcsAssumption
       DEF Kill, Types, CallerTypeOK, WithJob, WithRecord, Server, Callers
  <2>3. JobId[t] = job[p]
    BY <1>0, <2>1, <2>2, Kinds DEF Registered
  <2>4. op[p] \in {"cancel", "close"}
    <3>1. op[p] # "submit"
      BY <1>0, <2>2 DEF Locals, Submissions, Submitting, Callers, Types, CallerTypeOK
    <3> QED
      BY <2>2, <3>1 DEF Locals, Cancellations, WithRecord
  <2>5. pc'[p] = "update" /\ op'[p] = op[p] /\ job'[p] = job[p] /\ pc'[t] = pc[t]
    BY <1>0, <1>2, <2>1, <2>2 DEF Kill, Goto, locals, Types, LocalTypeOK
  <2> QED
    BY <2>1, <2>3, <2>4, <2>5 DEF Killed, Cancelling, Alive
<1>3. CASE t \notin sigterm /\ pc[t] # "dead" /\ t \notin sigterm'
  BY <1>0, <1>3, DeathsAreKills DEF Killed
<1> QED
  BY <1>1, <1>2, <1>3

(* A submission that is written by this step has just been flushed.        *)
LEMMA FreshEnds ==
  ASSUME MultiProcess, Types, Locals, Next, NEW t \in Tasks, Fresh(t), ~Fresh(t)'
  PROVE  \E c \in Clients : FlushW(c) /\ Moves(c) /\ SubmittedBy(c, t) /\ pc'[c] = "dispatch"
<1>0. t \in Procs
  BY Kinds
<1>1. ASSUME NEW p \in Procs, Moves(p)
      PROVE  \E c \in Clients : FlushW(c) /\ Moves(c) /\ SubmittedBy(c, t) /\ pc'[c] = "dispatch"
  <2>1. pc'[t] = "unborn"
    BY <1>1, BirthMoves DEF Fresh, Submitted
  <2>2. PICK c \in Clients : op'[c] = "submit" /\ out'[c].task = t /\ pc'[c] = "dispatch"
    BY <2>1 DEF Fresh, Submitted
  <2>3. c \in Procs /\ c \notin Tasks /\ c \in Callers
    BY Kinds DEF Callers
  <2>4. c = p
    BY <1>0, <1>1, <2>2, <2>3, MovesAlone DEF Alone, Fresh, Submitted
  <2>5. pc[c] = "flushw" /\ op[c] = "submit" /\ out'[c] = out[c]
    BY <1>1, <2>2, <2>4, SubmitterMoves
  <2>6. FlushW(c) \/ FlushPart(c)
    BY <1>1, <2>3, <2>4, <2>5, WriteMoves
  <2>7. ~FlushPart(c)
    BY <2>2, <2>5 DEF FlushPart
  <2> QED
    BY <1>1, <2>2, <2>4, <2>5, <2>6, <2>7 DEF SubmittedBy
<1>2. ASSUME NEW d \in Clients, Dispatch(d) PROVE FALSE
  <2>1. out[d].task # t
    BY <1>2, DispatchersStay DEF Fresh, Submitted
  <2>2. pc'[t] = pc[t]
    BY <1>2, <2>1, DispatchersStay
  <2>3. pc'[d] # "dispatch"
    BY <1>2, DispatchFrame
  <2>4. \A c \in Clients : c # d => pc'[c] = pc[c] /\ op'[c] = op[c] /\ out'[c] = out[c]
    BY <1>2, DispatchersStay DEF Callers
  <2> QED
    BY <2>2, <2>3, <2>4 DEF Fresh, Submitted
<1>3. \A c \in Clients, u \in Tasks : ~SubmitEmpty(c, u)
  BY DEF SubmitEmpty
<1> QED
  BY <1>1, <1>2, <1>3, NextSplit

(* A caller that lost its file, or has written its record, left the job of *)
(* t no longer Running.                                                    *)
LEMMA RereadStep ==
  ASSUME OneIdEach, MultiProcess, TypeOK, Ids, Ids', Locals, Locals', Next, NEW t \in Tasks,
         Fresh(t) => UnknownYet(t), Deletable(t), Reread(t), Types'
  PROVE  Reread(t)'
<1> SUFFICES ASSUME NEW q \in Callers, job'[q] = JobId[t],
                    pc'[q] = "trunc" \/ (pc'[q] = "flush" /\ ~fd'[q]), HasRunning(t)'
             PROVE  FALSE
  BY DEF Reread
<1>0. /\ Types /\ HandleOK /\ t \in Procs /\ q \in Procs /\ q \notin Tasks /\ JobId[t] \in Jobs
      /\ file'[JobId[t]] # Nil /\ file'[JobId[t]].rec.task = t
      /\ file'[JobId[t]].rec.status = "Running"
  BY Kinds, SubmissionsAssumption DEF TypeOK, Ids, HasRunning
<1>1. op'[q] # "submit"
  BY <1>0 DEF Locals, Submissions, Submitting, Callers, Types, CallerTypeOK
<1>2. out'[q].task = t
  <2>1. pc'[q] \in WithRecord
    BY DEF WithRecord
  <2>2. out'[q].task \in Tasks
    BY <2>1 DEF Types, CallerTypeOK, Callers, Record
  <2> QED
    BY <2>1, <2>2 DEF OneIdEach, Ids
<1>3. ASSUME HasRunning(t), NEW p \in Procs, Moves(p) PROVE FALSE
  <2>1. CASE q # p
    <3>1. ~(p \in Clients /\ pc[p] = "remove" /\ job[q] = job[p])
      BY <1>0, <1>3, <2>1, OthersStay, NoneRunningRemoved
    <3>2. pc'[q] = pc[q] /\ job'[q] = job[q] /\ fd'[q] = fd[q]
      BY <1>0, <1>3, <2>1, <3>1, OthersStay
    <3> QED
      BY <1>3, <3>2 DEF Reread
  <2>2. CASE q = p
    <3>1. /\ job'[q] = job[q] /\ pc[q] \in {"check", "flush"} /\ out'[q] = out[q]
      BY <1>0, <1>1, <1>3, <2>2, CancellerMoves DEF WithRecord
    <3>2. Check(q) \/ Flush(q) \/ FlushPart(q)
      BY <1>0, <1>3, <2>2, <3>1, WriteMoves
    <3>3. CASE Check(q)
      <4>1. ~UpdateRaises(q)
        BY <1>0, UpdateEnds
      <4> QED
        BY <1>0, <3>3, <4>1 DEF Check, Goto, Types, LocalTypeOK
    <3>4. CASE pc[q] = "flush" /\ (Flush(q) \/ FlushPart(q))
      <4>1. fd[q]
        BY <1>3, <3>1, <3>4 DEF Reread
      <4>2. file'[JobId[t]].rec = out[q]
        BY <1>0, <3>1, <3>4, <4>1 DEF Flush, Dump, FlushPart, Written, WrittenPart, Types,
           SharedTypeOK
      <4>3. op[q] # "submit"
        BY <1>0, <3>4 DEF Locals, Submissions, Submitting, Callers, Types, CallerTypeOK
      <4>4. out[q].status = "Cancelled"
        BY <3>4, <4>3 DEF Locals, Cancellations, WithRecord
      <4> QED
        BY <1>0, <4>2, <4>4
    <3> QED
      BY <3>1, <3>2, <3>3, <3>4 DEF Check, Flush, FlushPart
  <2> QED
    BY <2>1, <2>2
<1>4. ASSUME HasRunning(t), NEW d \in Clients, Dispatch(d) PROVE FALSE
  <2>1. q # d
    BY <1>0, <1>4, DispatchFrame
  <2> QED
    BY <1>0, <1>4, <2>1, DispatchersStay DEF Reread
<1>5. \A c \in Clients, u \in Tasks : ~SubmitEmpty(c, u)
  BY DEF SubmitEmpty
<1>6. ~HasRunning(t)
  BY <1>3, <1>4, <1>5, NextSplit
<1>7. Fresh(t)
  BY <1>0, <1>6, RunningIsNotBack DEF Fresh
<1>8. ASSUME NEW p \in Procs, Moves(p) PROVE FALSE
  BY <1>0, <1>1, <1>2, <1>7, <1>8, UnknownToCancellers DEF WithRecord
<1>9. ASSUME NEW d \in Clients, Dispatch(d) PROVE FALSE
  BY <1>0, <1>6, <1>9, DispatchersStay DEF HasRunning
<1> QED
  BY <1>5, <1>8, <1>9, NextSplit

(* The file of a submission holds what its submitter has written, and no   *)
(* older text beneath: it was opened empty and nobody else could write.    *)
LEMMA WritableStep ==
  ASSUME OneIdEach, MultiProcess, TypeOK, Ids, Locals, Locals', Next, NEW t \in Tasks,
         Fresh(t) => UnknownYet(t), Deletable(t), Writable(t)
  PROVE  Writable(t)'
<1> SUFFICES ASSUME Fresh(t)', NEW c \in Clients, SubmittedBy(c, t)', pc'[c] = "flushw"
             PROVE  Opening(c)'
  BY DEF Writable
<1>0. /\ Types /\ HandleOK /\ t \in Procs /\ c \in Procs /\ c \notin Tasks /\ c \in Callers
      /\ Fresh(t) /\ UnknownYet(t)
  BY Kinds, SubmittedStays DEF TypeOK, Fresh, Callers
<1>1. pc[t] = "unborn"
  BY <1>0 DEF Fresh, Submitted
<1>2. ASSUME NEW p \in Procs, Moves(p), p # c
      PROVE  Opening(c)'
  <2>1. pc'[c] = pc[c] /\ op'[c] = op[c] /\ job'[c] = job[c] /\ out'[c] = out[c]
    BY <1>0, <1>2, OthersStay
  <2>2. /\ SubmittedBy(c, t) /\ pc[c] = "flushw" /\ job[c] = JobId[t] /\ job[c] \in Jobs
        /\ Opening(c)
    BY <1>0, <2>1, WriterKinds DEF SubmittedBy, Writable, Ids, WithRecord
  <2>3. fd'[c] = fd[c]
    BY <1>0, <1>2, <2>2, OthersStay, NoneRunningRemoved
  <2>4. ASSUME file'[job[c]] # file[job[c]] PROVE FALSE
    <3>1. ~(p \in Clients /\ pc[p] = "remove" /\ file' = [file EXCEPT ![job[p]] = Nil])
      BY <1>0, <2>2, <2>4, NoneRunningRemoved DEF Types, SharedTypeOK
    <3>2. pc[p] \in {"openw", "flush", "trunc", "flushw", "overwrite"} /\ job[p] = job[c]
      BY <1>0, <1>2, <2>2, <2>4, <3>1, FileMoves
    <3>3. JobId[out[p].task] = JobId[t] /\ out[p].task \in Tasks
      BY <1>0, <2>2, <3>2, OwnIds, WriterKinds DEF Record
    <3>4. out[p].task = t
      BY <3>3 DEF OneIdEach
    <3>5. CASE p \in Tasks
      BY <1>0, <1>1, <3>2, <3>4, <3>5, WriterKinds
    <3>6. CASE p \in Callers
      <4>1. op[p] = "submit" /\ p \in Clients
        BY <1>0, <3>2, <3>4, <3>6, WriterKinds
           DEF UnknownYet, Types, CallerTypeOK, Callers
      <4> QED
        BY <1>2, <2>2, <3>4, <4>1 DEF SubmittedBy, Locals, Submissions
    <3> QED
      BY <3>5, <3>6, Kinds
  <2> QED
    BY <2>1, <2>2, <2>3, <2>4 DEF Opening
<1>3. ASSUME Moves(c)
      PROVE  Opening(c)'
  <2>1. /\ pc[c] \in {"openw", "flushw", "overwrite"} /\ op[c] = "submit" /\ job'[c] = job[c]
        /\ out'[c] = out[c] /\ SubmittedBy(c, t)
    BY <1>0, <1>3, SubmitterMoves DEF SubmittedBy
  <2>2. pc[c] # "overwrite"
    BY <1>1, <2>1 DEF Locals, Submissions, SubmittedBy
  <2>3. out[c] \in Record /\ job[c] \in Jobs /\ Size(out[c]) \in Nat
    <3>1. out[c] \in Record /\ job[c] \in Jobs
      BY <1>0, <2>1, WriterKinds
    <3> QED
      BY <3>1, BaseSizeAssumption DEF Size, Record
  <2>4. CASE pc[c] = "openw"
    <3>1. OpenW(c)
      BY <1>0, <1>3, <2>4, WriteMoves
    <3>2. fd'[c] /\ file'[job[c]].len = 0 /\ file'[job[c]].rec = out[c]
      BY <1>0, <2>3, <3>1 DEF OpenW, Empty, Types, SharedTypeOK, LocalTypeOK
    <3> QED
      BY <2>1, <2>3, <3>2 DEF Opening
  <2>5. CASE pc[c] = "flushw"
    <3>1. FlushPart(c)
      BY <1>0, <1>3, <2>1, <2>5, SubmitterFlushes
    <3>2. fd[c] /\ file[job[c]].len <= Size(out[c]) /\ Size(out[c]) > Buffer
      BY <1>0, <2>1, <2>5, <3>1 DEF Writable, Opening, FlushPart
    <3>3. fd' = fd /\ file'[job[c]] = WrittenPart(file[job[c]], out[c], Buffer)
      BY <1>0, <2>3, <3>1, <3>2 DEF FlushPart, locals, Types, SharedTypeOK
    <3>4. Buffer \in Nat
      BY BaseSizeAssumption
    <3>5. file'[job[c]].len <= Size(out[c]) /\ file'[job[c]].rec = out[c]
      BY <2>3, <3>2, <3>3, <3>4 DEF WrittenPart
    <3> QED
      BY <2>1, <3>2, <3>3, <3>5 DEF Opening
  <2> QED
    BY <2>1, <2>2, <2>4, <2>5
<1>4. ASSUME NEW d \in Clients, Dispatch(d)
      PROVE  Opening(c)'
  <2>1. c # d
    BY <1>0, <1>4, DispatchFrame
  <2> QED
    BY <1>0, <1>4, <2>1, DispatchersStay DEF Writable, Opening, SubmittedBy
<1>5. \A d \in Clients, u \in Tasks : ~SubmitEmpty(d, u)
  BY DEF SubmitEmpty
<1> QED
  BY <1>2, <1>3, <1>4, <1>5, NextSplit

(* Once the record of a job is there, it parses as long as it says         *)
(* Running: only a cancellation or the execution write over it, and both   *)
(* say at once how the job ended.                                          *)
LEMMA ReadableStep ==
  ASSUME OneIdEach, MultiProcess, TypeOK, Ids, Ids', Locals, Next, NEW t \in Tasks, LastLogs(t),
         Reread(t), Writable(t), Readable(t), Deletable(t)
  PROVE  Readable(t)'
<1> SUFFICES ASSUME ~Fresh(t)', NEW j \in Jobs, file'[j] # Nil, file'[j].rec.task = t,
                    file'[j].rec.status = "Running"
             PROVE  Parses(file'[j])
  BY DEF Readable
<1>0. Types /\ HandleOK /\ t \in Procs /\ JobId[t] = j
  BY Kinds DEF TypeOK, Ids
<1>1. CASE Fresh(t)
  <2>1. PICK c \in Clients : FlushW(c) /\ Moves(c) /\ SubmittedBy(c, t) /\ pc'[c] = "dispatch"
    BY <1>0, <1>1, FreshEnds
  <2>2. pc[c] = "flushw" /\ c \in Callers /\ c \in Procs
    BY <2>1, Kinds DEF FlushW, Callers
  <2>3. /\ job[c] = j /\ out[c] \in Record /\ fd[c] /\ file[j].rec = out[c]
        /\ file[j].len <= Size(out[c])
    BY <1>0, <1>1, <2>1, <2>2, WriterKinds DEF SubmittedBy, Writable, Opening, Ids, WithRecord
  <2>4. file[j] \in File /\ Size(out[c]) \in Nat
    <3>1. file[j] \in File
      BY <1>0, <2>2, <2>3 DEF HandleOK, Types, SharedTypeOK
    <3> QED
      BY <2>3, <3>1, FileTypes
  <2>5. file'[j] = Written(file[j], out[c])
    BY <1>0, <2>1, <2>2, <2>3 DEF FlushW, Dump, Crossed, Types, SharedTypeOK
  <2>6. file[j].len \in Nat
    BY <2>4 DEF File
  <2> QED
    BY <2>3, <2>4, <2>5, <2>6 DEF Written, Parses
<1>2. CASE ~Fresh(t)
  <2>1. ASSUME file'[j] = file[j] PROVE Parses(file'[j])
    BY <1>2, <2>1 DEF Readable
  <2>2. HasRunning(t)
    BY <1>0, <1>2, RunningIsNotBack DEF HasRunning, Fresh
  <2>3. ASSUME NEW p \in Procs, Moves(p), file'[j] # file[j] PROVE FALSE
    <3>1. /\ pc[p] \in {"openw", "flush", "trunc", "flushw", "overwrite"} /\ j = job[p]
          /\ \/ file'[j].rec = out[p]
             \/ pc[p] = "trunc" /\ fd[p]
      BY <1>0, <2>3, FileMoves DEF Types, SharedTypeOK
    <3>2. CASE file'[j].rec = out[p]
      <4>1. p \in Clients /\ op[p] = "submit" /\ pc[p] \in {"openw", "flushw"}
        BY <1>0, <3>1, <3>2, RunningWriter
      <4>2. pc[t] = "unborn" /\ \A c \in Clients : op[c] = "submit" /\ out[c].task = t => c = p
        BY <3>2, <4>1 DEF Locals, Submissions
      <4> QED
        BY <1>2, <4>1, <4>2 DEF Fresh, Submitted
    <3>3. CASE pc[p] = "trunc"
      <4>1. CASE p \in Callers
        BY <1>0, <2>2, <3>1, <3>3, <4>1 DEF Reread
      <4>2. CASE p \in Tasks
        <5>1. p = t
          BY <1>0, <3>1, <4>2, WriterKinds DEF OneIdEach
        <5> QED
          BY <2>2, <3>3, <5>1 DEF LastLogs
      <4> QED
        BY <4>1, <4>2, Kinds
    <3> QED
      BY <3>1, <3>2, <3>3
  <2>4. \A c \in Clients : Dispatch(c) => file' = file
    BY <1>0, DispatchersStay
  <2>5. \A c \in Clients, u \in Tasks : ~SubmitEmpty(c, u)
    BY DEF SubmitEmpty
  <2> QED
    BY <2>1, <2>3, <2>4, <2>5, NextSplit
<1> QED
  BY <1>1, <1>2

LEMMA InitTended ==
  Init => Registered /\ \A t \in Tasks : Tended(t)
<1> SUFFICES ASSUME Init PROVE Registered /\ \A t \in Tasks : Tended(t)
  OBVIOUS
<1>1. /\ \A p \in Callers : pc[p] = "idle"
      /\ \A j \in Jobs : file[j] = Nil
      /\ \A s \in Services, j \in Jobs : registry[s][j] = Nil
      /\ \A t \in Tasks : pc[t] = "unborn" /\ t \notin sigterm
  BY ProcsAssumption, Kinds DEF Init
<1>2. \A t \in Tasks : UnknownYet(t) /\ Deletable(t)
  BY InitOnceInv, <1>1 DEF UnknownYet, Deletable, WithRecord, Callers
<1> QED
  BY <1>1, <1>2 DEF Tended, Unstarted, Finished, Killed, Reread, Readable, Writable, Registered,
     Callers

LEMMA TendedStep ==
  ASSUME OneIdEach, MultiProcess, TypeOK, TypeOK', Ids, Ids', Locals, Locals', Registered, Next,
         NEW t \in Tasks, LastLogs(t), Tended(t)
  PROVE  Tended(t)'
<1>0. /\ Types /\ Types' /\ HandleOK
      /\ (Fresh(t) => UnknownYet(t)) /\ Deletable(t) /\ Unstarted(t) /\ Finished(t) /\ Killed(t)
      /\ Reread(t) /\ Readable(t) /\ Writable(t)
  BY DEF TypeOK, Tended
<1>1. (Fresh(t)' => UnknownYet(t)') /\ Deletable(t)'
  BY <1>0, UnknownStep, DeletionsStep
<1>2. Unstarted(t)' /\ Finished(t)'
  BY <1>0, UnstartedStep, FinishedStep
<1>3. Killed(t)' /\ Reread(t)'
  BY <1>0, KilledStep, RereadStep
<1>4. Readable(t)' /\ Writable(t)'
  BY <1>0, ReadableStep, WritableStep
<1> QED
  BY <1>1, <1>2, <1>3, <1>4 DEF Tended

(* Somebody ends the job of a submission that is tended.                   *)
LEMMA TendedOwned ==
  ASSUME Types, Ids, NEW j \in Jobs, file[j] # Nil, Tended(file[j].rec.task)
  PROVE  Owned(j)
<1> DEFINE t == file[j].rec.task
<1>0. /\ t \in Tasks /\ JobId[t] = j /\ pc[t] \in TaskLabels
  BY DEF Types, SharedTypeOK, TaskTypeOK, File, Record, Ids
<1> SUFFICES ASSUME file[j].rec.status = "Running", ~Alive(t)
             PROVE  \/ InFlight(t)
                    \/ \E p \in Clients \cup Services :
                         /\ job[p] = j /\ op[p] \in {"cancel", "close"}
                         /\ pc[p] \in {"update", "check", "flush"}
  BY DEF Owned
<1>1. HasRunning(t)
  BY DEF HasRunning
<1> HIDE DEF t
<1>2. CASE pc[t] = "unborn"
  <2>1. CASE Fresh(t)
    BY <2>1 DEF Tended, UnknownYet, SubmittedBy, InFlight, t
  <2>2. CASE ~Fresh(t)
    BY <1>2, <2>2 DEF Fresh, Submitted, InFlight
  <2> QED
    BY <2>1, <2>2
<1>3. CASE pc[t] = "void"
  BY <1>1, <1>3 DEF Tended, Unstarted, SubmittedBy, InFlight, t
<1>4. CASE pc[t] = "done"
  BY <1>1, <1>4 DEF Tended, Finished, t
<1>5. CASE pc[t] = "dead"
  <2>1. PICK p \in Callers : Cancelling(p, t)
    BY <1>1, <1>5 DEF Tended, Killed, t
  <2> QED
    BY <1>0, <2>1 DEF Cancelling, Callers
<1> QED
  BY <1>2, <1>3, <1>4, <1>5 DEF Alive, Ended

LEMMA TendedInvariant ==
  ASSUME MultiProcess, OneIdEach
  PROVE  Spec => [](Registered /\ \A t \in Tasks : Tended(t))
<1> DEFINE Inv == Registered /\ \A t \in Tasks : Tended(t)
<1>1. TypeOK /\ TypeOK' /\ WriterInv /\ WriterInv' /\ Inv /\ [Next]_vars => Inv'
  <2> SUFFICES ASSUME TypeOK, TypeOK', WriterInv, WriterInv', Inv, [Next]_vars PROVE Inv'
    OBVIOUS
  <2>1. CASE Next
    BY <2>1, TendedStep, RegisteredStep DEF TypeOK, WriterInv, Logs
  <2>2. CASE UNCHANGED vars
    <3>1. UNCHANGED <<file, registry, sigterm, pc, op, job, out, fd>>
      BY <2>2 DEF vars
    <3>2. Registered'
      BY <3>1 DEF Registered
    <3> SUFFICES ASSUME NEW t \in Tasks PROVE Tended(t)'
      BY <3>2
    <3>3. (Fresh(t)' <=> Fresh(t)) /\ (HasRunning(t)' <=> HasRunning(t))
      BY <3>1 DEF Fresh, Submitted, HasRunning
    <3>4. Tended(t)
      OBVIOUS
    <3>5. (Fresh(t)' => UnknownYet(t)') /\ Deletable(t)'
      BY <3>1, <3>3, <3>4 DEF Tended, UnknownYet, Deletable, SubmittedBy
    <3>6. Unstarted(t)' /\ Finished(t)' /\ Killed(t)' /\ Reread(t)'
      BY <3>1, <3>3, <3>4 DEF Tended, Unstarted, Finished, Killed, Reread, SubmittedBy, Cancelling
    <3>7. Readable(t)' /\ Writable(t)'
      BY <3>1, <3>3, <3>4 DEF Tended, Readable, Writable, Opening, SubmittedBy
    <3> QED
      BY <3>5, <3>6, <3>7 DEF Tended
  <2> QED
    BY <2>1, <2>2
<1>2. Init => Inv
  BY InitTended
<1> QED
  BY <1>1, <1>2, WriterInvariant, TypeCorrect, PTL DEF Spec

(* No job of the deployed API is left Running without anybody to end it:   *)
(* whoever takes the execution away has the record in hand and will find   *)
(* it as it expects.  Here every id is submitted once; deletions, closes   *)
(* and workers that die at any point after a SIGTERM are covered.          *)
THEOREM WorkersOwnRunning ==
  ASSUME MultiProcess, OneIdEach
  PROVE  Spec => []RunningIsOwned
<1>1. TypeOK /\ WriterInv /\ (\A t \in Tasks : Tended(t)) => RunningIsOwned
  <2> SUFFICES ASSUME TypeOK, WriterInv, \A t \in Tasks : Tended(t), NEW j \in Jobs, file[j] # Nil
               PROVE  Owned(j)
    BY DEF RunningIsOwned
  <2>1. file[j].rec.task \in Tasks
    BY DEF TypeOK, Types, SharedTypeOK, File, Record
  <2> QED
    BY <2>1, TendedOwned DEF TypeOK, WriterInv
<1> QED
  BY <1>1, TendedInvariant, WriterInvariant, TypeCorrect, PTL

-----------------------------------------------------------------------------
(* A complete close() of the only API process.                             *)

OneServer == Services = {Main}

(* The API process serves no client while it closes.                       *)
Unserved == \A c \in Clients : pc[Home[c]] # "idle" => pc[c] = "idle"

(* A cancellation that created the file anew had found none.               *)
Recreated(t) ==
    \A s \in Services : job[s] = JobId[t] /\ pc[s] \in {"openw", "flushw"} => ~HasRunning(t)

(* The jobs that close() still has ahead of it, once it has listed them,   *)
(* include all that are Running.                                           *)
CloseLabels == {"read", "load", "kill", "update", "check", "flush", "trunc", "openw", "flushw"}
Ahead(s) == {j \in Jobs : /\ pc[s] \in {"scan", "open"} => j \in seen[s] \cup todo[s]
                          /\ pc[s] = "next" => j \in seen[s]
                          /\ pc[s] \in CloseLabels => j \in seen[s] \cup {job[s]}
                          /\ pc[s] # "closed"}
Running(j) == file[j] # Nil /\ file[j].rec.status = "Running"
Swept(s) == \A j \in Jobs : Running(j) => j \in Ahead(s)

LEMMA UnservedStep ==
  ASSUME MultiProcess, Types, Unserved, Next
  PROVE  Unserved'
<1> SUFFICES ASSUME NEW c \in Clients, pc'[Home[c]] # "idle" PROVE pc'[c] = "idle"
  BY DEF Unserved
<1>0. /\ c \in Procs /\ c \notin Tasks /\ c \notin Services /\ c # Home[c]
      /\ Home[c] \in Services /\ Home[c] \in Procs /\ Home[c] \notin Tasks /\ Home[c] \notin Clients
  BY Kinds, ProcsAssumption DEF Callers
<1>i. ASSUME NEW p \in Procs, pc[p] = "idle" PROVE ~Serve(p) /\ ~Write(p)
  BY <1>i DEF Serve, List, Scan, Open, Listed, Read, Load, Kill, Write, Update, Check, Flush,
     Truncate, OpenW, FlushW, FlushPart, Fail, Overwrite, OverwritePart
<1>1. CASE Moves(c)
  <2>1. pc'[Home[c]] = pc[Home[c]]
    BY <1>0, <1>1, MovesAlone DEF Alone
  <2>2. pc[c] = "idle" /\ ~Ready(c)
    BY <2>1 DEF Unserved, Ready
  <2>3. ~ClientMoves(c)
    BY <2>2 DEF ClientMoves, GetJobs, UseJob, Submit, Refuse, Reap, Remove, Create, Register
  <2>4. Inactive(c)
    BY <1>0, <1>1, <1>i, <2>2, <2>3 DEF Moves
  <2> QED
    BY <2>2, <2>4 DEF Inactive
<1>2. CASE Moves(Home[c])
  <2>1. pc'[c] = pc[c]
    BY <1>0, <1>2, MovesAlone DEF Alone
  <2>2. CASE pc[Home[c]] # "idle"
    BY <2>1, <2>2 DEF Unserved
  <2>3. CASE pc[Home[c]] = "idle"
    <3>1. Inactive(Home[c]) \/ CloseMoves(Home[c])
      BY <1>0, <1>2, <1>i, <2>3 DEF Moves
    <3>2. StartClose(Home[c])
      BY <2>3, <3>1 DEF Inactive, CloseMoves, Shutdown, CancelNext
    <3> QED
      BY <2>1, <3>2 DEF StartClose
  <2> QED
    BY <2>2, <2>3
<1>3. ASSUME NEW p \in Procs, Moves(p), p # c, p # Home[c] PROVE pc'[c] = "idle"
  BY <1>0, <1>3, MovesAlone DEF Alone, Unserved
<1>4. ASSUME NEW d \in Clients, Dispatch(d) PROVE pc'[c] = "idle"
  <2>1. d # Home[c] /\ out[d].task # Home[c] /\ pc[d] = "dispatch" /\ out[d].task # c
    BY <1>0, <1>4, DispatchFrame
  <2>2. pc'[Home[c]] = pc[Home[c]]
    BY <1>0, <1>4, <2>1, DispatchFrame
  <2>3. pc[c] = "idle" /\ c # d
    BY <2>1, <2>2 DEF Unserved
  <2> QED
    BY <1>0, <1>4, <2>1, <2>3, DispatchFrame
<1>5. \A d \in Clients, u \in Tasks : ~SubmitEmpty(d, u)
  BY DEF SubmitEmpty
<1> QED
  BY <1>1, <1>2, <1>3, <1>4, <1>5, NextSplit

(* Where no client is, no record becomes Running.                          *)
LEMMA NoneNew ==
  ASSUME MultiProcess, TypeOK, Ids, Locals, Next, \A c \in Clients : pc[c] = "idle",
         NEW t \in Tasks, Fresh(t)' => UnknownYet(t)', HasRunning(t)'
  PROVE  HasRunning(t)
<1>0. Types /\ HandleOK
  BY DEF TypeOK
<1>1. CASE ~Fresh(t)
  BY <1>0, <1>1, RunningIsNotBack DEF Fresh
<1>2. CASE Fresh(t) /\ ~Fresh(t)'
  BY <1>0, <1>2, FreshEnds DEF FlushW
<1>3. CASE Fresh(t)'
  <2>1. PICK c \in Clients : SubmittedBy(c, t)' /\ pc'[c] = "flushw"
    BY <1>3 DEF HasRunning, UnknownYet
  <2>2. c \in Procs /\ c \notin Tasks /\ op'[c] = "submit"
    BY <2>1, Kinds DEF SubmittedBy, Callers
  <2>3. ASSUME Moves(c) PROVE FALSE
    BY <1>0, <2>1, <2>2, <2>3, SubmitterMoves
  <2>4. ASSUME NEW p \in Procs, Moves(p), p # c PROVE FALSE
    BY <2>1, <2>2, <2>4, <1>0, MovesAlone DEF Alone
  <2>5. \A d \in Clients : ~Dispatch(d)
    BY DEF Dispatch
  <2>6. \A d \in Clients, u \in Tasks : ~SubmitEmpty(d, u)
    BY DEF SubmitEmpty
  <2> QED
    BY <2>3, <2>4, <2>5, <2>6, NextSplit
<1> QED
  BY <1>1, <1>2, <1>3

LEMMA RecreatedStep ==
  ASSUME OneIdEach, MultiProcess, TypeOK, TypeOK', Ids, Ids', Locals, Next,
         NEW t \in Tasks, Fresh(t) => UnknownYet(t), Recreated(t)
  PROVE  Recreated(t)'
<1> SUFFICES ASSUME NEW s \in Services, job'[s] = JobId[t], pc'[s] \in {"openw", "flushw"},
                    HasRunning(t)'
             PROVE  FALSE
  BY DEF Recreated
<1>0. /\ Types /\ HandleOK /\ s \in Callers /\ s \in Procs /\ s \notin Tasks /\ s \notin Clients
      /\ JobId[t] \in Jobs /\ op'[s] = "close" /\ op[s] = "close"
      /\ file'[JobId[t]] # Nil /\ file'[JobId[t]].rec.task = t
  BY Kinds, ProcsAssumption, SubmissionsAssumption
     DEF TypeOK, Types, CallerTypeOK, Callers, Ids, HasRunning
<1>1. ASSUME pc'[s] = pc[s], job'[s] = job[s], out'[s] = out[s] PROVE FALSE
  <2>1. out[s].task \in Tasks /\ JobId[out[s].task] = JobId[t] /\ pc[s] \in WithRecord
    BY <1>0, <1>1 DEF Ids, WithRecord, Types, CallerTypeOK, Callers, Record
  <2>2. ~Fresh(t)
    BY <1>0, <2>1 DEF OneIdEach, UnknownYet
  <2> QED
    BY <1>0, <1>1, <2>2, RunningIsNotBack DEF Recreated, Fresh
<1>2. ASSUME NEW p \in Procs, Moves(p), p # s PROVE FALSE
  BY <1>0, <1>1, <1>2, MovesAlone DEF Alone
<1>3. ASSUME Moves(s) PROVE FALSE
  <2>1. /\ job'[s] = job[s] /\ pc[s] \in {"update", "openw", "flushw"}
        /\ pc[s] \in {"openw", "flushw"} => out'[s] = out[s]
        /\ pc[s] = "update" => pc'[s] = "openw"
    BY <1>0, <1>3, CancellerMoves DEF WithRecord
  <2>2. CASE pc[s] = "update"
    <3>1. Update(s)
      BY <1>0, <1>3, <2>2, WriteMoves
    <3>2. file' = file /\ file[job[s]] = Nil
      BY <1>0, <2>1, <2>2, <3>1 DEF Update, Goto, Types, LocalTypeOK
    <3> QED
      BY <1>0, <2>1, <3>2
  <2>3. CASE pc[s] \in {"openw", "flushw"}
    <3>1. out[s].task \in Tasks /\ JobId[out[s].task] = JobId[t] /\ pc[s] \in WithRecord
      BY <1>0, <2>1, <2>3 DEF Ids, WithRecord, Types, CallerTypeOK, Callers, Record
    <3>2. ~Fresh(t)
      BY <1>0, <3>1 DEF OneIdEach, UnknownYet
    <3> QED
      BY <1>0, <2>1, <2>3, <3>2, RunningIsNotBack DEF Recreated, Fresh
  <2> QED
    BY <2>1, <2>2, <2>3
<1>4. ASSUME NEW d \in Clients, Dispatch(d) PROVE FALSE
  BY <1>0, <1>1, <1>4, DispatchersStay
<1>5. \A d \in Clients, u \in Tasks : ~SubmitEmpty(d, u)
  BY DEF SubmitEmpty
<1> QED
  BY <1>2, <1>3, <1>4, <1>5, NextSplit

(* How close() goes on.                                                    *)
LEMMA CloserMoves ==
  ASSUME MultiProcess, Types, Locals, NEW s \in Services, Moves(s)
  PROVE  \/ pc'[s] \in {"shutdown", "list", "broken"}
         \/ pc'[s] = "scan" /\ file' = file /\ todo'[s] = {j \in Jobs : file[j] # Nil}
         \/ /\ pc[s] = "scan" /\ file' = file /\ seen'[s] = seen[s]
            /\ \/ /\ pc'[s] \in {"scan", "open"}
                  /\ \E j \in todo[s] : todo'[s] = todo[s] \/ (file[j] = Nil /\ todo'[s] = todo[s] \ {j})
               \/ pc'[s] = "next" /\ todo[s] = {}
         \/ /\ pc[s] = "open" /\ pc'[s] = "scan" /\ file' = file /\ todo'[s] = todo[s] \ {job[s]}
            /\ seen[s] \subseteq seen'[s] /\ (Running(job[s]) => job[s] \in seen'[s])
         \/ /\ pc[s] = "next" /\ file' = file
            /\ \/ pc'[s] = "read" /\ seen'[s] = seen[s] \ {job'[s]}
               \/ pc'[s] = "closed" /\ seen[s] = {}
         \/ /\ pc[s] \in CloseLabels /\ pc'[s] \in CloseLabels
            /\ job'[s] = job[s] /\ seen'[s] = seen[s]
         \/ pc[s] \in {"trunc", "flushw"} /\ pc'[s] = "next" /\ seen'[s] = seen[s]
<1>0. /\ s \in Procs /\ s \notin Tasks /\ s \notin Clients /\ s \in Callers /\ op[s] = "close"
  BY Kinds, ProcsAssumption DEF Types, CallerTypeOK, Callers
<1>r. /\ \A outcome : Return(s, outcome) =>
           /\ pc'[s] = IF outcome = "OK" THEN "next" ELSE "broken"
           /\ seen'[s] = seen[s]
      /\ UpdateReturns(s) => Return(s, "OK")
      /\ UpdateRaises(s) => Return(s, "Exception")
  BY <1>0 DEF Return, UpdateReturns, UpdateRaises, Types, LocalTypeOK
<1>1. CASE List(s)
  BY <1>0, <1>1 DEF List, Goto, Types, LocalTypeOK
<1>2. CASE Scan(s)
  BY <1>0, <1>2 DEF Scan, Goto, Types, LocalTypeOK
<1>3. CASE Listed(s)
  BY <1>0, <1>3 DEF Listed, Goto, Types, LocalTypeOK
<1>4. CASE Open(s)
  <2>1. CASE Loads(job[s]) /\ file[job[s]].rec.created
    <3>1. Running(job[s]) => Wanted(s, file[job[s]].rec)
      BY <1>0 DEF Running, Wanted
    <3>2. /\ pc[s] = "open" /\ pc'[s] = "scan" /\ file' = file /\ todo'[s] = todo[s] \ {job[s]}
          /\ seen'[s] = IF Wanted(s, file[job[s]].rec) THEN seen[s] \cup {job[s]} ELSE seen[s]
      BY <1>0, <1>4, <2>1 DEF Open, Goto, Types, LocalTypeOK
    <3> QED
      BY <3>1, <3>2
  <2>2. CASE ~(Loads(job[s]) /\ file[job[s]].rec.created)
    BY <1>4, <1>r, <2>2 DEF Open
  <2> QED
    BY <2>1, <2>2
<1>5. CASE Read(s)
  BY <1>0, <1>5, <1>r DEF Read, Goto, locals, CloseLabels, Types, LocalTypeOK
<1>6. CASE Load(s)
  BY <1>0, <1>6, <1>r DEF Load, Goto, locals, CloseLabels, Types, LocalTypeOK
<1>7. CASE Kill(s)
  BY <1>0, <1>7, <1>r DEF Kill, Goto, locals, CloseLabels, Types, LocalTypeOK
<1>8. CASE Write(s)
  <2>1. ~Fail(s) /\ ~Overwrite(s) /\ ~OverwritePart(s)
    BY <1>0 DEF Fail, Overwrite, OverwritePart, Locals, Cancellations, WithRecord
  <2>2. CASE Update(s) \/ Flush(s) \/ OpenW(s) \/ FlushPart(s)
    BY <1>0, <2>2 DEF Update, Flush, OpenW, FlushPart, Goto, locals, CloseLabels, Types,
       LocalTypeOK
  <2>3. CASE Check(s)
    BY <1>0, <1>r, <2>3 DEF Check, Goto, CloseLabels, Types, LocalTypeOK
  <2>4. CASE Truncate(s) \/ FlushW(s)
    BY <1>r, <2>4 DEF Truncate, FlushW
  <2> QED
    BY <1>8, <2>1, <2>2, <2>3, <2>4 DEF Write
<1>9. CASE CloseMoves(s)
  BY <1>0, <1>9 DEF CloseMoves, StartClose, Shutdown, CancelNext, Goto, Types, LocalTypeOK
<1>10. ~Inactive(s)
  BY DEF Inactive
<1> QED
  BY <1>0, <1>1, <1>2, <1>3, <1>4, <1>5, <1>6, <1>7, <1>8, <1>9, <1>10 DEF Moves, Serve

(* close() leaves no job out: those that run are ahead of it or behind it  *)
(* cancelled.                                                              *)
LEMMA SweptStep ==
  ASSUME OneServer, OneIdEach, MultiProcess, TypeOK, TypeOK', Ids, Ids', Locals, Unserved, Next,
         NEW s \in Services, Swept(s),
         \A t \in Tasks : /\ Fresh(t)' => UnknownYet(t)'
                          /\ Recreated(t) /\ Reread(t)
  PROVE  Swept(s)'
<1> SUFFICES ASSUME NEW j \in Jobs, Running(j)' PROVE j \in Ahead(s)'
  BY DEF Swept
<1>0. /\ Types /\ HandleOK /\ s \in Procs /\ s \notin Tasks /\ s \in Callers /\ s \notin Clients
      /\ op[s] = "close"
  BY Kinds, ProcsAssumption DEF TypeOK, Types, CallerTypeOK, Callers
<1>1. pc'[s] \in {"idle", "shutdown", "list", "broken"} => Ahead(s)' = Jobs
  BY DEF Ahead, CloseLabels
<1>2. CASE pc[s] = "idle"
  <2>1. ASSUME Moves(s) PROVE pc'[s] \in {"idle", "shutdown", "list", "broken"}
    <3>1. ~Serve(s) /\ ~Write(s)
      BY <1>2 DEF Serve, List, Scan, Open, Listed, Read, Load, Kill, Write, Update, Check, Flush,
         Truncate, OpenW, FlushW, FlushPart, Fail, Overwrite, OverwritePart
    <3> QED
      BY <1>0, <1>2, <2>1, <3>1 DEF Moves, Inactive, CloseMoves, StartClose, Shutdown, CancelNext,
         Goto, Types, LocalTypeOK
  <2>2. ASSUME NEW p \in Procs, Moves(p), p # s PROVE pc'[s] = "idle"
    BY <1>0, <1>2, <2>2, MovesAlone DEF Alone
  <2>3. ASSUME NEW d \in Clients, Dispatch(d) PROVE pc'[s] = "idle"
    BY <1>0, <1>2, <2>3, DispatchersStay
  <2>4. \A d \in Clients, u \in Tasks : ~SubmitEmpty(d, u)
    BY DEF SubmitEmpty
  <2> QED
    BY <1>1, <2>1, <2>2, <2>3, <2>4, NextSplit
<1>3. CASE pc[s] # "idle"
  <2>1. \A c \in Clients : pc[c] = "idle"
    BY <1>3, ProcsAssumption DEF OneServer, Unserved
  <2>2. PICK t \in Tasks : HasRunning(t)' /\ JobId[t] = j
    <3>1. file'[j].rec.task \in Tasks /\ JobId[file'[j].rec.task] = j
      BY DEF Running, Ids, TypeOK, Types, SharedTypeOK, File, Record
    <3> QED
      BY <3>1 DEF Running, HasRunning
  <2>3. HasRunning(t) /\ Running(j)
    <3>1. HasRunning(t)
      BY <1>0, <2>1, <2>2, NoneNew
    <3> QED
      BY <2>2, <3>1, OwnRecord DEF Running
  <2>4. j \in Ahead(s)
    BY <2>3 DEF Swept
  <2>5. ASSUME Moves(s) PROVE j \in Ahead(s)'
    <3>1. CASE pc'[s] \in {"shutdown", "list", "broken"}
      BY <1>1, <3>1
    <3>2. CASE pc'[s] = "scan" /\ todo'[s] = {i \in Jobs : file[i] # Nil}
      BY <2>3, <3>2 DEF Ahead, Running, CloseLabels
    <3>3. CASE pc[s] = "scan" /\ seen'[s] = seen[s] /\ pc'[s] \in {"scan", "open"}
               /\ \E i \in todo[s] : todo'[s] = todo[s] \/ (file[i] = Nil /\ todo'[s] = todo[s] \ {i})
      BY <2>3, <2>4, <3>3 DEF Ahead, Running, CloseLabels
    <3>4. CASE pc[s] = "scan" /\ seen'[s] = seen[s] /\ pc'[s] = "next" /\ todo[s] = {}
      BY <2>4, <3>4 DEF Ahead, CloseLabels
    <3>5. CASE /\ pc[s] = "open" /\ pc'[s] = "scan" /\ todo'[s] = todo[s] \ {job[s]}
               /\ seen[s] \subseteq seen'[s] /\ (Running(job[s]) => job[s] \in seen'[s])
      BY <2>3, <2>4, <3>5 DEF Ahead, CloseLabels
    <3>6. CASE pc[s] = "next" /\ pc'[s] = "read" /\ seen'[s] = seen[s] \ {job'[s]}
      BY <2>4, <3>6 DEF Ahead, CloseLabels
    <3>7. CASE pc[s] = "next" /\ pc'[s] = "closed" /\ seen[s] = {}
      BY <2>4, <3>7 DEF Ahead
    <3>8. CASE /\ pc[s] \in CloseLabels /\ pc'[s] \in CloseLabels
               /\ job'[s] = job[s] /\ seen'[s] = seen[s]
      BY <2>4, <3>8 DEF Ahead, CloseLabels
    <3>9. CASE pc[s] \in {"trunc", "flushw"} /\ pc'[s] = "next" /\ seen'[s] = seen[s]
      <4>1. j # job[s]
        BY <1>0, <2>2, <2>3, <3>9 DEF Recreated, Reread
      <4> QED
        BY <2>4, <3>9, <4>1 DEF Ahead, CloseLabels
    <3> QED
      BY <1>0, <2>5, <3>1, <3>2, <3>3, <3>4, <3>5, <3>6, <3>7, <3>8, <3>9, CloserMoves
  <2>6. ASSUME pc'[s] = pc[s], job'[s] = job[s], seen'[s] = seen[s], todo'[s] = todo[s]
        PROVE  j \in Ahead(s)'
    BY <2>4, <2>6 DEF Ahead
  <2>7. ASSUME NEW p \in Procs, Moves(p), p # s PROVE j \in Ahead(s)'
    BY <1>0, <2>6, <2>7, MovesAlone, ListsAlone DEF Alone
  <2>8. \A d \in Clients : ~Dispatch(d)
    BY <2>1 DEF Dispatch
  <2>9. \A d \in Clients, u \in Tasks : ~SubmitEmpty(d, u)
    BY DEF SubmitEmpty
  <2> QED
    BY <2>5, <2>7, <2>8, <2>9, NextSplit
<1> QED
  BY <1>2, <1>3

(* After a complete close() of the only API process no record says         *)
(* Running: its cancellations reach every job that its listing found, also *)
(* those whose workers end meanwhile, and no other can come after it.      *)
THEOREM CloseCancelsEveryJob ==
  ASSUME OneServer, MultiProcess, OneIdEach
  PROVE  Spec => []ClosedLeavesNoneRunning
<1> DEFINE Tends == Registered /\ \A t \in Tasks : Tended(t)
           Inv == /\ Unserved /\ \A t \in Tasks : Recreated(t)
                  /\ \A s \in Services : Swept(s)
<1>1. Init => Inv
  <2> SUFFICES ASSUME Init PROVE Inv
    OBVIOUS
  <2>1. /\ \A p \in Callers : pc[p] = "idle"
        /\ \A s \in Services : s \in Callers
        /\ \A c \in Clients : c \in Callers
    BY ProcsAssumption, Kinds DEF Init, Callers
  <2>2. \A s \in Services : Ahead(s) = Jobs
    BY <2>1 DEF Ahead, CloseLabels
  <2> QED
    BY <2>1, <2>2 DEF Unserved, Recreated, Swept
<1>2. TypeOK /\ TypeOK' /\ WriterInv /\ WriterInv' /\ Tends /\ Tends' /\ Inv /\ [Next]_vars => Inv'
  <2> SUFFICES ASSUME TypeOK, TypeOK', WriterInv, WriterInv', Tends, Tends', Inv, [Next]_vars
               PROVE  Inv'
    OBVIOUS
  <2>0. /\ Types /\ Ids /\ Ids' /\ Locals
        /\ \A t \in Tasks : /\ (Fresh(t) => UnknownYet(t)) /\ Reread(t)
                            /\ (Fresh(t)' => UnknownYet(t)')
    BY DEF TypeOK, WriterInv, Tended
  <2>1. CASE Next
    <3>1. Unserved'
      BY <2>0, <2>1, UnservedStep
    <3>2. \A t \in Tasks : Recreated(t)'
      BY <2>0, <2>1, RecreatedStep
    <3>3. \A s \in Services : Swept(s)'
      BY <2>0, <2>1, SweptStep
    <3> QED
      BY <3>1, <3>2, <3>3
  <2>2. CASE UNCHANGED vars
    <3>1. UNCHANGED <<file, pc, job, seen, todo>>
      BY <2>2 DEF vars
    <3>2. \A s \in Services : Ahead(s)' = Ahead(s)
      BY <3>1 DEF Ahead
    <3> QED
      BY <3>1, <3>2 DEF Unserved, Recreated, Swept, Running, HasRunning
  <2> QED
    BY <2>1, <2>2
<1>3. Inv => ClosedLeavesNoneRunning
  BY DEF ClosedLeavesNoneRunning, NoneRunning, Swept, Ahead, Running, CloseLabels
<1> QED
  BY <1>1, <1>2, <1>3, TendedInvariant, WriterInvariant, TypeCorrect, PTL DEF Spec
=============================================================================
