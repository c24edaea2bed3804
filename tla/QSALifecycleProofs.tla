------------------------- MODULE QSALifecycleProofs -------------------------
(***************************************************************************)
(* What a library user sees of the status files when every submission has  *)
(* an id of its own: threads that share the lock never read a text that is *)
(* incomplete, and a job goes through the statuses of JobLifecycle.        *)
(***************************************************************************)
EXTENDS QSAOnceProofs, QSAThreadsProofs

-----------------------------------------------------------------------------
(* What the invariant says.                                                *)

(* A text that does not parse is still being written.                      *)
Writing == {"flush", "trunc", "flushw"}
Texts ==
    \A j \in Jobs : file[j] # Nil /\ ~Parses(file[j]) =>
        \E p \in Procs : fd[p] /\ job[p] = j /\ pc[p] \in Writing

(* Nothing of an older text is left when the new one is written, unless it *)
(* is cut off afterwards, and nobody else has written in between.          *)
Lengths ==
    \A p \in Procs :
        /\ pc[p] = "flushw" /\ fd[p] => file[job[p]].len <= Size(out[p])
        /\ pc[p] \in {"flush", "flushw"} /\ fd[p] =>
             \/ file[job[p]].rec = out[p]
             \/ pc[p] = "flush" /\ file[job[p]].whole /\ file[job[p]].rec.status = "Running"
        /\ pc[p] = "overwrite" /\ file[job[p]] # Nil => file[job[p]].len <= Size(out[p])
        /\ pc[p] = "trunc" /\ fd[p] => file[job[p]].whole

TextInv == Texts /\ Lengths

-----------------------------------------------------------------------------
(* Writers.                                                                *)

LEMMA SizeType ==
  ASSUME NEW r \in Record
  PROVE  Size(r) \in Nat
  BY BaseSizeAssumption DEF Size, Record

(* How a process gets into the middle of a write.                          *)
LEMMA WritingMoves ==
  ASSUME Types, NEW p \in Procs, Moves(p), pc'[p] \in Writing \cup {"overwrite"}
  PROVE  \/ pc'[p] = "flush" /\ (Check(p) \/ FlushPart(p))
         \/ pc'[p] = "trunc" /\ Flush(p)
         \/ pc'[p] = "flushw" /\ (OpenW(p) \/ FlushPart(p) \/ OverwritePart(p))
         \/ pc'[p] = "overwrite" /\ Fail(p)
<1>1. Write(p)
  <2>1. ~(p \in Callers /\ (Serve(p) \/ Inactive(p)))
    <3>1. ~(p \in Callers /\ Serve(p))
      BY Kinds DEF Serve, List, Scan, Open, Listed, Read, Load, Kill, Return, Goto, Writing,
         Types, LocalTypeOK
    <3>2. ~Inactive(p)
      BY DEF Inactive, Writing
    <3> QED
      BY <3>1, <3>2
  <2>2. ~(p \in Clients /\ ClientMoves(p))
    BY DEF ClientMoves, GetJobs, UseJob, Submit, Refuse, Ready, Begin, Reap, Remove, Create,
       Register, Return, Goto, Writing, Types, LocalTypeOK
  <2>3. ~(p \in Tasks /\ TaskMoves(p))
    BY DEF TaskMoves, Run, PutResults, PutLogs, End, Goto, Writing, Types, LocalTypeOK
  <2>4. ~(p \in Services /\ CloseMoves(p))
    BY DEF CloseMoves, StartClose, Shutdown, CancelNext, Goto, Writing, Types, LocalTypeOK
  <2> QED
    BY <2>1, <2>2, <2>3, <2>4 DEF Moves
<1>2. ~(UpdateReturns(p) \/ UpdateRaises(p))
  BY UpdateEnds, Kinds DEF Writing
<1> QED
  BY <1>1, <1>2 DEF Write, Update, Check, Flush, Truncate, OpenW, FlushW, FlushPart, Fail,
     Overwrite, OverwritePart, Goto, Writing, Types, LocalTypeOK

(* Between two writes, every file parses.                                  *)
LEMMA ParsesBetweenWrites ==
  ASSUME OneLock, Types, Mutex, Texts, NEW p \in Procs,
         (pc[p] \in Critical /\ pc[p] \notin Writing) \/ lock[Main] = Nil,
         NEW j \in Jobs, file[j] # Nil
  PROVE  Parses(file[j])
<1>1. Nil \notin Procs
  BY Kinds
<1> QED
  BY <1>1 DEF Texts, Mutex, Writing, Critical

(* A failure replaces a record of its own submission that reports no       *)
(* outcome of the execution.                                               *)
LEMMA FailureReplaces ==
  ASSUME OneLock, OneIdEach, TypeOK, WriterInv, Mutex, Texts, NEW p \in Procs,
         pc[p] = "overwrite" \/ (pc[p] = "fail" /\ lock[Main] = Nil), file[job[p]] # Nil
  PROVE  /\ Parses(file[job[p]]) /\ file[job[p]].rec.task = out[p].task
         /\ file[job[p]].rec.status \in {"Running", "Cancelled"}
<1>0. /\ pc[p] \in {"fail", "overwrite"} /\ pc[p] \in WithRecord
      /\ (pc[p] \in Critical /\ pc[p] \notin Writing) \/ lock[Main] = Nil
      /\ Types /\ Ids /\ Locals /\ Reported
  BY DEF Critical, Writing, WithRecord, TypeOK, WriterInv
<1>1. job[p] \in Jobs /\ out[p] \in Record
  BY <1>0, WriterTypes
<1>2. PICK f \in File : f = file[job[p]]
  BY <1>0, <1>1 DEF Types, SharedTypeOK
<1>3. Parses(f) /\ f.rec \in Record /\ f.rec.task \in Tasks /\ f.rec.status \in Statuses
  BY <1>0, <1>1, <1>2, ParsesBetweenWrites DEF File, Record
<1>4. JobId[out[p].task] = job[p] /\ out[p].task \in Tasks
  <2>1. CASE p \in Tasks
    BY <1>0, <2>1 DEF Types, TaskTypeOK
  <2>2. CASE p \in Callers
    BY <1>0, <1>1, <2>2 DEF Ids, Record
  <2> QED
    BY <2>1, <2>2, Kinds
<1>5. f.rec.task = out[p].task
  BY <1>0, <1>1, <1>2, <1>3, <1>4 DEF Ids, OneIdEach
<1>6. f.rec.status \notin {"Completed", "Failed"}
  <2> SUFFICES ASSUME f.rec.status \in {"Completed", "Failed"} PROVE FALSE
    OBVIOUS
  <2>1. HasReported(out[p].task)
    BY <1>0, <1>1, <1>2, <1>4, <1>5 DEF Reported
  <2>2. CASE p \in Tasks
    BY <1>0, <2>1, <2>2 DEF Types, TaskTypeOK, HasReported, BeforeReport
  <2>3. CASE p \in Callers
    <3>1. op[p] = "submit" /\ p \in Clients
      BY <1>0, <2>3, ProcsAssumption DEF Locals, Cancellations, Types, CallerTypeOK, Callers
    <3> QED
      BY <1>0, <2>1, <3>1 DEF HasReported
  <2> QED
    BY <2>2, <2>3, Kinds
<1> QED
  BY <1>2, <1>3, <1>5, <1>6 DEF Statuses, Terminal

(* Of the records of a submission, the one that says Failed is the longest *)
(* but for Completed, which no failure follows.                            *)
LEMMA FailureIsLonger ==
  ASSUME OneLock, OneIdEach, TypeOK, WriterInv, Mutex, Texts, NEW p \in Procs, Fail(p),
         file[job[p]] # Nil
  PROVE  file[job[p]].len <= Size(out'[p])
<1>0. pc[p] = "fail" /\ pc[p] \in WithRecord /\ lock[Main] = Nil /\ Types /\ AllPlain
  BY OneGate DEF Fail, Acquire, WithRecord, TypeOK, WriterInv
<1>1. job[p] \in Jobs /\ out[p] \in Record /\ out[p].task \in Tasks
  BY <1>0, WriterTypes DEF Record
<1>2. PICK f \in File : f = file[job[p]]
  BY <1>0, <1>1 DEF Types, SharedTypeOK
<1>3. /\ Parses(f) /\ f.rec.task = out[p].task
      /\ f.rec.status \in {"Running", "Cancelled"} /\ Plain(f.rec)
  BY <1>0, <1>1, <1>2, FailureReplaces DEF AllPlain
<1>4. PICK n \in ReasonSizes : out' = [out EXCEPT ![p].status = "Failed", ![p].reason = n]
  BY DEF Fail
<1>5. /\ out'[p].status = "Failed" /\ out'[p].reason = n /\ out'[p].task = out[p].task
      /\ n \in Nat /\ n >= 1 /\ BaseSize[out[p].task] \in Nat
  BY <1>0, <1>1, <1>4, SubmissionsAssumption, BaseSizeAssumption
     DEF Record, Types, LocalTypeOK
<1>6. f.len <= BaseSize[out[p].task] + 1
  BY <1>3, <1>5 DEF Parses, Size, Plain, Terminal
<1>7. BaseSize[out[p].task] + 1 <= Size(out'[p]) /\ f.len \in Nat /\ Size(out'[p]) \in Nat
  BY <1>2, <1>5 DEF Size, Terminal, File
<1>8. f.len <= Size(out'[p])
  BY <1>5, <1>6, <1>7
<1> QED
  BY <1>2, <1>8

-----------------------------------------------------------------------------
(* Texts.                                                                  *)

(* The last flush is of the whole text.                                    *)
LEMMA NotCrossed ==
  ASSUME Lengths, NEW p \in Procs, pc[p] \in {"flush", "flushw"}, fd[p], Dump(p)
  PROVE  file' = [file EXCEPT ![job[p]] = Written(@, out[p])]
BY DEF Lengths, Dump, Crossed

(* A write leaves a text that parses, or goes on.                          *)
LEMMA WriteTexts ==
  ASSUME OneLock, Types, HandleOK, Handles, Lengths, NEW p \in Procs, Moves(p),
         pc[p] \in {"openw", "flush", "trunc", "flushw", "overwrite"}
  PROVE  \/ file'[job[p]] = file[job[p]] /\ ~fd[p]
         \/ file'[job[p]] = file[job[p]] /\ pc[p] = "overwrite"
         \/ Parses(file'[job[p]])
         \/ fd'[p] /\ job'[p] = job[p] /\ pc'[p] \in Writing
<1>0. /\ job[p] \in Jobs /\ out[p] \in Record /\ Size(out[p]) \in Nat
      /\ file[job[p]] # Nil => file[job[p]] \in File
      /\ fd[p] => file[job[p]] # Nil
  BY WriterKinds, SizeType DEF HandleOK, Types, SharedTypeOK
<1>1. \/ Flush(p) \/ Truncate(p) \/ OpenW(p) \/ FlushW(p) \/ FlushPart(p)
      \/ Overwrite(p) \/ OverwritePart(p)
  <2>1. p \in Tasks => pc'[p] # "dead" \/ Write(p)
    <3>1. p \in Tasks /\ TaskMoves(p) => ~End(p)
      BY DEF OneLock, End
    <3>2. p \in Tasks /\ TaskMoves(p) => pc'[p] # "dead"
      BY <3>1 DEF TaskMoves, Run, PutResults, PutLogs, Goto, Types, LocalTypeOK
    <3> QED
      BY <3>2, Kinds DEF Moves, Callers
  <2> QED
    BY <2>1, WriteMoves DEF Write, Update, Check, Fail
<1>2. CASE Flush(p)
  BY <1>0, <1>2 DEF Flush, Dump, Goto, locals, Writing, Types, LocalTypeOK, SharedTypeOK
<1>3. CASE FlushPart(p)
  BY <1>0, <1>3 DEF FlushPart, locals, Writing, Types, SharedTypeOK
<1>4. CASE OpenW(p)
  BY <1>0, <1>4 DEF OpenW, Goto, Writing, Types, LocalTypeOK
<1>5. CASE OverwritePart(p)
  BY <1>0, <1>5 DEF OverwritePart, Goto, Writing, Types, LocalTypeOK
<1>6. ASSUME NEW f \in File, f.len <= Size(out[p]) PROVE Parses(Written(f, out[p]))
  BY <1>0, <1>6 DEF Parses, Written, File
<1>7. CASE FlushW(p)
  <2>1. CASE ~fd[p]
    BY <1>0, <1>7, <2>1 DEF FlushW, Dump, Types, SharedTypeOK
  <2>2. CASE fd[p]
    <3>1. file'[job[p]] = Written(file[job[p]], out[p])
      BY <1>0, <1>7, <2>2, NotCrossed DEF FlushW, Types, SharedTypeOK
    <3>2. file[job[p]].len <= Size(out[p])
      BY <1>7, <2>2 DEF FlushW, Lengths
    <3> QED
      BY <1>0, <1>6, <2>2, <3>1, <3>2
  <2> QED
    BY <2>1, <2>2
<1>8. CASE Truncate(p)
  <2>1. CASE ~fd[p]
    BY <1>0, <1>8, <2>1 DEF Truncate, Types, SharedTypeOK
  <2>2. CASE fd[p]
    <3>1. file'[job[p]] = Truncated(file[job[p]], Size(out[p]))
      BY <1>0, <1>8, <2>2 DEF Truncate, Types, SharedTypeOK
    <3>2. file[job[p]].rec = out[p] /\ file[job[p]].whole
      BY <1>8, <2>2 DEF Truncate, Lengths, Handles
    <3>3. Parses(Truncated(file[job[p]], Size(out[p])))
      BY <1>0, <2>2, <3>2 DEF Truncated, Parses, File
    <3> QED
      BY <3>1, <3>3
  <2> QED
    BY <2>1, <2>2
<1>9. CASE Overwrite(p)
  <2>1. CASE file[job[p]] = Nil
    BY <1>9, <2>1 DEF Overwrite
  <2>2. CASE file[job[p]] # Nil
    <3>1. file'[job[p]] = Written(file[job[p]], out[p])
      BY <1>0, <1>9, <2>2 DEF Overwrite, Types, SharedTypeOK
    <3>2. file[job[p]].len <= Size(out[p])
      BY <1>9, <2>2 DEF Overwrite, Lengths
    <3> QED
      BY <1>0, <1>6, <2>2, <3>1, <3>2
  <2> QED
    BY <2>1, <2>2
<1> QED
  BY <1>1, <1>2, <1>3, <1>4, <1>5, <1>7, <1>8, <1>9

LEMMA TextsStep ==
  ASSUME OneLock, Types, HandleOK, Locals, Handles, TextInv, Next
  PROVE  Texts'
<1> SUFFICES ASSUME NEW j \in Jobs, file'[j] # Nil, ~Parses(file'[j])
             PROVE  \E q \in Procs : fd'[q] /\ job'[q] = j /\ pc'[q] \in Writing
  BY DEF Texts
<1>1. file'[j] = file[j] => \E q \in Procs : fd[q] /\ job[q] = j /\ pc[q] \in Writing
  BY DEF TextInv, Texts
<1>2. ASSUME NEW p \in Procs, Moves(p)
      PROVE  \E q \in Procs : fd'[q] /\ job'[q] = j /\ pc'[q] \in Writing
  <2>1. CASE file'[j] = file[j]
    <3>1. PICK q \in Procs : fd[q] /\ job[q] = j /\ pc[q] \in Writing
      BY <1>1, <2>1
    <3>2. CASE q = p
      BY <1>2, <3>1, <3>2, WriteTexts DEF TextInv, Writing
    <3>3. CASE q # p
      <4>1. pc'[q] = pc[q] /\ job'[q] = job[q]
        BY <1>2, <3>3, MovesAlone DEF Alone
      <4>2. fd'[q]
        BY <1>2, <3>1, <3>3, FileMoves DEF Types, SharedTypeOK
      <4> QED
        BY <3>1, <4>1, <4>2
    <3> QED
      BY <3>2, <3>3
  <2>2. CASE file'[j] # file[j]
    <3>1. pc[p] \in {"openw", "flush", "trunc", "flushw", "overwrite"} /\ j = job[p]
      BY <1>2, <2>2, FileMoves DEF Types, SharedTypeOK
    <3> QED
      BY <1>2, <2>2, <3>1, WriteTexts DEF TextInv
  <2> QED
    BY <2>1, <2>2
<1>3. ASSUME NEW c \in Clients, NEW t \in Tasks, UNCHANGED <<file, fd>>,
             pc[c] \notin Writing, pc[t] \notin Writing,
             \A q \in Procs : q # c => job'[q] = job[q],
             \A q \in Procs : q # c /\ q # t => pc'[q] = pc[q]
      PROVE  \E q \in Procs : fd'[q] /\ job'[q] = j /\ pc'[q] \in Writing
  BY <1>1, <1>3
<1>4. ASSUME NEW c \in Clients, Dispatch(c)
      PROVE  \E q \in Procs : fd'[q] /\ job'[q] = j /\ pc'[q] \in Writing
  <2>1. op[c] = "submit" /\ pc[c] = "dispatch" /\ out[c].task \in Tasks
    BY <1>4, DispatchFrame, Kinds DEF Locals, Cancellations, WithRecord, Callers
  <2>2. pc[out[c].task] = "unborn"
    BY <2>1 DEF Locals, Submissions
  <2> QED
    BY <1>3, <1>4, <2>1, <2>2, DispatchFrame DEF Writing
<1>5. ASSUME NEW c \in Clients, NEW t \in Tasks, SubmitEmpty(c, t)
      PROVE  \E q \in Procs : fd'[q] /\ job'[q] = j /\ pc'[q] \in Writing
  BY <1>3, <1>5, EmptyFrame DEF Writing
<1> QED
  BY <1>2, <1>4, <1>5, NextSplit

LEMMA OwnLengths ==
  ASSUME OneLock, OneIdEach, TypeOK, WriterInv, Mutex, TextInv, NEW p \in Procs, Moves(p)
  PROVE  /\ pc'[p] = "flushw" /\ fd'[p] => file'[job'[p]].len <= Size(out'[p])
         /\ pc'[p] \in {"flush", "flushw"} /\ fd'[p] =>
              \/ file'[job'[p]].rec = out'[p]
              \/ /\ pc'[p] = "flush"
                 /\ file'[job'[p]].whole /\ file'[job'[p]].rec.status = "Running"
         /\ pc'[p] = "overwrite" /\ file'[job'[p]] # Nil => file'[job'[p]].len <= Size(out'[p])
         /\ pc'[p] = "trunc" /\ fd'[p] => file'[job'[p]].whole
<1>0. Types /\ HandleOK /\ Texts /\ Lengths
      /\ (pc[p] = "flushw" /\ fd[p] => file[job[p]].len <= Size(out[p]))
      /\ (pc[p] = "overwrite" /\ file[job[p]] # Nil => file[job[p]].len <= Size(out[p]))
  BY DEF TypeOK, TextInv, Lengths
<1>1. CASE pc'[p] \in Writing \cup {"overwrite"}
  <2>1. CASE Fail(p)
    <3>1. file' = file /\ job' = job /\ pc'[p] \in {"openw", "overwrite"}
      BY <1>0, <2>1 DEF Fail, Goto, Types, LocalTypeOK
    <3> QED
      BY <1>0, <2>1, <3>1, FailureIsLonger
  <2>2. CASE pc[p] \in {"openw", "flush", "trunc", "flushw", "overwrite"}
    <3>1. /\ job[p] \in Jobs /\ out[p] \in Record /\ Size(out[p]) \in Nat /\ Buffer \in Nat
          /\ file[job[p]] # Nil => file[job[p]] \in File /\ file[job[p]].len \in Nat
          /\ fd[p] => file[job[p]] # Nil
      BY <1>0, <2>2, WriterKinds, SizeType, BaseSizeAssumption
         DEF HandleOK, Types, SharedTypeOK, File
    <3>2. CASE pc'[p] = "trunc" /\ Flush(p)
      <4>1. job' = job /\ fd' = fd /\ (fd[p] => file'[job[p]] = Written(file[job[p]], out[p]))
        BY <1>0, <3>1, <3>2, NotCrossed DEF Flush, locals, Types, SharedTypeOK
      <4> QED
        BY <3>2, <4>1 DEF Written
    <3>3. CASE OpenW(p)
      <4>1. job' = job /\ out' = out /\ file'[job[p]] = Empty(out[p]) /\ pc'[p] = "flushw"
        BY <1>0, <3>1, <3>3 DEF OpenW, Goto, Types, SharedTypeOK, LocalTypeOK
      <4> QED
        BY <3>1, <4>1 DEF Empty
    <3>4. CASE pc'[p] = "flushw" /\ FlushPart(p)
      <4>1. /\ job' = job /\ out' = out /\ fd' = fd /\ pc[p] = "flushw" /\ Size(out[p]) > Buffer
            /\ fd[p] => file'[job[p]] = WrittenPart(file[job[p]], out[p], Buffer)
        BY <1>0, <3>1, <3>4 DEF FlushPart, locals, Types, SharedTypeOK
      <4> QED
        BY <1>0, <3>1, <3>4, <4>1 DEF WrittenPart
    <3>5. CASE OverwritePart(p)
      <4>1. /\ job' = job /\ out' = out /\ pc[p] = "overwrite" /\ Size(out[p]) > Buffer
            /\ pc'[p] = "flushw" /\ file[job[p]] # Nil
            /\ file'[job[p]] = WrittenPart(file[job[p]], out[p], Buffer)
        BY <1>0, <3>1, <3>5 DEF OverwritePart, Goto, Types, SharedTypeOK, LocalTypeOK
      <4> QED
        BY <1>0, <3>1, <4>1 DEF WrittenPart
    <3>6. CASE pc'[p] = "flush"
      <4>1. FlushPart(p) /\ pc[p] = "flush"
        BY <2>2, <3>6, WritingMoves, <1>0 DEF Writing, Check, OpenW, Flush, OverwritePart, FlushPart
      <4>2. /\ job' = job /\ out' = out /\ fd' = fd
            /\ fd[p] => file'[job[p]] = WrittenPart(file[job[p]], out[p], Buffer)
        BY <1>0, <3>1, <4>1 DEF FlushPart, locals, Types, SharedTypeOK
      <4> QED
        BY <3>1, <3>6, <4>2 DEF WrittenPart
    <3> QED
      BY <1>0, <1>1, <2>1, <3>2, <3>3, <3>4, <3>5, <3>6, WritingMoves
  <2>3. CASE Check(p) /\ pc'[p] = "flush"
    <3>1. ~UpdateRaises(p)
      BY <1>0, <2>3, UpdateEnds, Kinds
    <3>2. file' = file /\ job' = job /\ Loads(job[p]) /\ file[job[p]].rec.status = "Running"
      BY <2>3, <3>1 DEF Check
    <3> QED
      BY <2>3, <3>2 DEF Loads, Parses
  <2>4. \/ Fail(p) \/ pc[p] \in {"openw", "flush", "trunc", "flushw", "overwrite"}
        \/ Check(p) /\ pc'[p] = "flush"
    BY <1>0, <1>1, WritingMoves DEF Flush, OpenW, FlushPart, OverwritePart
  <2> QED
    BY <2>1, <2>2, <2>3, <2>4
<1> QED
  BY <1>1 DEF Writing

LEMMA LengthsStep ==
  ASSUME OneLock, OneIdEach, TypeOK, WriterInv, Mutex, TextInv, Next
  PROVE  Lengths'
<1> SUFFICES ASSUME NEW q \in Procs PROVE Lengths!(q)'
  BY DEF Lengths
<1>0. Types /\ HandleOK /\ Lengths!(q)
  BY DEF TypeOK, TextInv, Lengths
<1>1. ASSUME NEW p \in Procs, Moves(p) PROVE Lengths!(q)'
  <2>1. CASE q = p
    BY <1>1, <2>1, OwnLengths
  <2>2. CASE q # p
    <3>1. pc'[q] = pc[q] /\ job'[q] = job[q] /\ out'[q] = out[q]
      BY <1>0, <1>1, <2>2, MovesAlone DEF Alone
    <3>2. CASE pc[q] \notin {"flush", "trunc", "flushw", "overwrite"}
      BY <3>1, <3>2
    <3>3. CASE pc[q] \in {"flush", "trunc", "flushw", "overwrite"}
      <4>1. job[q] \in Jobs /\ pc[q] \in Critical
        BY <1>0, <3>3, WriterKinds
      <4>2. pc[p] \notin Critical
        BY <2>2, <4>1 DEF Mutex
      <4>3. \/ file' = file /\ fd'[q] = fd[q]
            \/ /\ file' = [file EXCEPT ![job[p]] = Nil]
               /\ fd'[q] = (fd[q] /\ job[q] # job[p])
        BY <1>0, <1>1, <2>2, <4>2, FileMoves, WriterKinds
      <4>4. CASE file' = file /\ fd'[q] = fd[q]
        BY <1>0, <3>1, <4>4
      <4>5. CASE /\ file' = [file EXCEPT ![job[p]] = Nil]
                 /\ fd'[q] = (fd[q] /\ job[q] # job[p])
        BY <1>0, <3>1, <4>1, <4>5 DEF Types, SharedTypeOK
      <4> QED
        BY <4>3, <4>4, <4>5
    <3> QED
      BY <3>2, <3>3
  <2> QED
    BY <2>1, <2>2
<1>2. ASSUME NEW c \in Clients, Dispatch(c) PROVE Lengths!(q)'
  <2>1. CASE q = c \/ q = out[c].task
    BY <1>0, <1>2, <2>1, DispatchFrame
  <2>2. CASE q # c /\ q # out[c].task
    BY <1>0, <1>2, <2>2, DispatchFrame
  <2> QED
    BY <2>1, <2>2
<1>3. ASSUME NEW c \in Clients, NEW t \in Tasks, SubmitEmpty(c, t) PROVE Lengths!(q)'
  <2>1. CASE q = c \/ q = t
    BY <1>0, <1>3, <2>1, EmptyFrame
  <2>2. CASE q # c /\ q # t
    BY <1>0, <1>3, <2>2, EmptyFrame
  <2> QED
    BY <2>1, <2>2
<1> QED
  BY <1>1, <1>2, <1>3, NextSplit

-----------------------------------------------------------------------------
(* The invariant of the texts, and what it implies.                        *)

LEMMA InitTextInv == Init => TextInv
<1> SUFFICES ASSUME Init PROVE TextInv
  OBVIOUS
<1>1. /\ \A p \in Procs : pc[p] \in {"unborn", "idle"}
      /\ \A j \in Jobs : file[j] = Nil
  BY DEF Init
<1> QED
  BY <1>1 DEF TextInv, Texts, Lengths

LEMMA StepTextInv ==
  ASSUME OneLock, OneIdEach, TypeOK, WriterInv, ThreadInv, TextInv, [Next]_vars
  PROVE  TextInv'
<1>1. CASE Next
  BY <1>1, TextsStep, LengthsStep DEF TypeOK, WriterInv, ThreadInv, TextInv
<1>2. CASE UNCHANGED vars
  <2>1. UNCHANGED <<file, pc, job, out, fd>>
    BY <1>2 DEF vars
  <2> QED
    BY <2>1 DEF TextInv, Texts, Lengths
<1> QED
  BY <1>1, <1>2

LEMMA TextInvariant ==
  ASSUME OneLock, OneIdEach
  PROVE  Spec => []TextInv
<1>1. TypeOK /\ WriterInv /\ ThreadInv /\ TextInv /\ [Next]_vars => TextInv'
  BY StepTextInv
<1> QED
  BY <1>1, InitTextInv, ThreadInvariant, WriterInvariant, TypeCorrect, PTL DEF Spec

LEMMA InvReads ==
  ASSUME OneLock, TypeOK, ThreadInv, TextInv
  PROVE  StatusReadsParse
<1> SUFFICES ASSUME NEW p \in Procs, pc[p] \in {"open", "load", "check"}, file[job[p]] # Nil
             PROVE  Parses(file[job[p]])
  BY DEF StatusReadsParse
<1>1. job[p] \in Jobs
  BY Kinds, SubmissionsAssumption
     DEF TypeOK, Types, TaskTypeOK, CallerTypeOK, WithJob, WithRecord, Callers
<1>2. pc[p] \in Critical /\ pc[p] \notin Writing
  BY DEF Critical, Writing
<1> QED
  BY <1>1, <1>2, ParsesBetweenWrites DEF TypeOK, ThreadInv, TextInv

(* What the lock is there for (237-240): if no id is submitted twice, a    *)
(* thread that opens a status file to read it finds a complete text with   *)
(* nothing behind it, whatever is executed, cancelled and deleted at the   *)
(* same time and however short the buffer of a file is.  The Failed record *)
(* is written without cutting the file, which is enough because it is      *)
(* longer than what it replaces.                                           *)
THEOREM ThreadsReadWholeTexts ==
  ASSUME OneLock, OneIdEach
  PROVE  Spec => []StatusReadsParse
<1>1. TypeOK /\ ThreadInv /\ TextInv => StatusReadsParse
  BY InvReads
<1> QED
  BY <1>1, TextInvariant, ThreadInvariant, TypeCorrect, PTL

-----------------------------------------------------------------------------
(* Towards the lifecycle.  A library user's programs have a name, and a    *)
(* record fits the buffer of a file, which is larger than any record the   *)
(* executions write.                                                       *)

NeverEmpty == "empty" \notin Programs
FitsBuffer == \A t \in Tasks, n \in ReasonSizes \cup {0} : BaseSize[t] + 2 + n <= Buffer

(* The reasons of a failure are those the executions add.                  *)
Reasons ==
    /\ \A j \in Jobs : file[j] # Nil => file[j].rec.reason \in ReasonSizes \cup {0}
    /\ \A p \in Procs : out[p] # Nil => out[p].reason \in ReasonSizes \cup {0}

(* A new file is not read before it is written, and a record that is       *)
(* overwritten says Running until then.                                    *)
Stages ==
    \A p \in Procs :
        /\ pc[p] = "flushw" /\ fd[p] => ~file[job[p]].whole
        /\ pc[p] = "flush" /\ fd[p] => file[job[p]].whole /\ file[job[p]].rec.status = "Running"

(* Nobody deletes the file of a submission that is not yet written.        *)
Opened ==
    \A c \in Clients, t \in Tasks :
        Fresh(t) /\ SubmittedBy(c, t) /\ pc[c] = "flushw" => fd[c]

LifeInv == Reasons /\ Stages /\ Opened

LEMMA ReasonMoves ==
  ASSUME Types, NEW p \in Procs, Moves(p), out'[p] # Nil
  PROVE  \/ out'[p] = out[p]
         \/ out[p] # Nil /\ out'[p].reason = out[p].reason
         \/ out'[p].reason \in ReasonSizes \cup {0}
         \/ job[p] \in Jobs /\ file[job[p]] # Nil /\ out'[p] = file[job[p]].rec
<1>0. Nil \notin Record /\ (pc[p] \in WithRecord => out[p] \in Record)
  BY Kinds, WriterTypes
<1>r. \A outcome : ~Return(p, outcome)
  BY DEF Return, Types, LocalTypeOK
<1>1. CASE p \in Callers /\ Serve(p)
  <2>1. CASE Load(p)
    <3>1. job[p] \in Jobs
      BY <1>1, <2>1 DEF Load, Types, CallerTypeOK, WithJob, Callers
    <3>2. Loads(job[p])
      BY <1>r, <2>1 DEF Load
    <3> QED
      BY <1>r, <2>1, <3>1, <3>2 DEF Load, Loads, locals, Types, LocalTypeOK
  <2> QED
    BY <1>1, <1>r, <2>1 DEF Serve, List, Scan, Open, Listed, Read, Kill, locals
<1>2. CASE p \in Callers /\ Inactive(p)
  BY <1>2 DEF Inactive
<1>3. CASE Write(p)
  <2>1. CASE UpdateReturns(p) \/ UpdateRaises(p)
    BY <1>r, <2>1 DEF UpdateReturns, UpdateRaises, locals
  <2>2. CASE Update(p)
    <3>1. out[p] \in Record
      BY <1>0, <2>2 DEF Update, WithRecord
    <3> QED
      BY <1>0, <2>2, <3>1 DEF Update, Record, Types, LocalTypeOK
  <2>3. CASE Fail(p)
    <3>1. out[p] \in Record
      BY <1>0, <2>3 DEF Fail, WithRecord
    <3> QED
      BY <2>3, <3>1 DEF Fail, Record, Types, LocalTypeOK
  <2> QED
    BY <1>3, <2>1, <2>2, <2>3 DEF Write, Check, Flush, Truncate, OpenW, FlushW, FlushPart,
       Overwrite, OverwritePart, locals
<1>4. CASE p \in Clients /\ ClientMoves(p)
  <2>1. CASE \E t \in Tasks : Submit(p, t)
    BY <2>1 DEF Submit, Begin, NewRecord, Types, LocalTypeOK
  <2> QED
    BY <1>4, <1>r, <2>1 DEF ClientMoves, GetJobs, UseJob, Refuse, Begin, Reap, Remove, Create,
       Register, locals, Types, LocalTypeOK
<1>5. CASE p \in Tasks /\ TaskMoves(p)
  <2>1. out[p] \in Record
    BY <1>5 DEF Types, TaskTypeOK
  <2> QED
    BY <1>0, <1>5, <2>1 DEF TaskMoves, Run, PutResults, PutLogs, End, locals, Record, Types,
       LocalTypeOK
<1>6. CASE p \in Services /\ CloseMoves(p)
  BY <1>6 DEF CloseMoves, StartClose, Shutdown, CancelNext, locals
<1> QED
  BY <1>1, <1>2, <1>3, <1>4, <1>5, <1>6 DEF Moves

LEMMA ReasonsStep ==
  ASSUME NeverEmpty, Types, HandleOK, Locals, Reasons, Next
  PROVE  Reasons'
<1>1. ASSUME NEW p \in Procs, Moves(p) PROVE Reasons'
  <2>1. ASSUME NEW j \in Jobs, file'[j] # Nil PROVE file'[j].rec.reason \in ReasonSizes \cup {0}
    <3>1. \/ file[j] # Nil /\ file'[j].rec = file[j].rec
          \/ /\ file'[j].rec = out[p]
             /\ pc[p] \in {"openw", "flush", "trunc", "flushw", "overwrite"}
      BY <1>1, <2>1, FileMoves DEF Types, SharedTypeOK
    <3>2. pc[p] \in {"openw", "flush", "trunc", "flushw", "overwrite"} => out[p] # Nil
      BY WriterKinds, Kinds
    <3> QED
      BY <3>1, <3>2 DEF Reasons
  <2>2. ASSUME NEW q \in Procs, out'[q] # Nil PROVE out'[q].reason \in ReasonSizes \cup {0}
    <3>1. CASE q # p
      BY <1>1, <2>2, <3>1, MovesAlone DEF Reasons, Alone
    <3>2. CASE q = p
      BY <1>1, <2>2, <3>2, ReasonMoves DEF Reasons
    <3> QED
      BY <3>1, <3>2
  <2> QED
    BY <2>1, <2>2 DEF Reasons
<1>2. ASSUME NEW c \in Clients, Dispatch(c) PROVE Reasons'
  <2>1. file' = file /\ c \in Procs /\ \A q \in Procs : q # c => out'[q] = out[q]
    BY <1>2, DispatchFrame DEF Procs
  <2>2. out'[c] = out[c] \/ out'[c] = Nil
    BY <1>2 DEF Dispatch, locals, Types, LocalTypeOK, Procs
  <2> QED
    BY <2>1, <2>2 DEF Reasons
<1>3. \A c \in Clients, t \in Tasks : ~SubmitEmpty(c, t)
  BY DEF NeverEmpty, SubmitEmpty
<1> QED
  BY <1>1, <1>2, <1>3, NextSplit

(* No record is written in parts.                                          *)
LEMMA NoParts ==
  ASSUME FitsBuffer, Types, Reasons, NEW p \in Procs
  PROVE  ~FlushPart(p) /\ ~OverwritePart(p)
<1> SUFFICES ASSUME pc[p] \in {"flush", "flushw", "overwrite"} PROVE ~(Size(out[p]) > Buffer)
  BY DEF FlushPart, OverwritePart
<1>1. out[p] \in Record /\ out[p] # Nil
  BY WriterKinds, Kinds
<1>2. out[p].reason \in ReasonSizes \cup {0} /\ out[p].reason \in Nat /\ out[p].task \in Tasks
  BY <1>1 DEF Reasons, Record
<1>3. BaseSize[out[p].task] + 2 + out[p].reason <= Buffer /\ BaseSize[out[p].task] \in Nat
  BY <1>2, BaseSizeAssumption DEF FitsBuffer
<1>4. Size(out[p]) <= BaseSize[out[p].task] + 2 + out[p].reason
  BY <1>2, <1>3 DEF Size
<1> QED
  BY <1>1, <1>2, <1>3, <1>4, SizeType, BaseSizeAssumption

LEMMA OwnStage ==
  ASSUME FitsBuffer, Types, HandleOK, Reasons, Handles, NEW p \in Procs, Moves(p)
  PROVE  /\ pc'[p] = "flushw" /\ fd'[p] => ~file'[job'[p]].whole
         /\ pc'[p] = "flush" /\ fd'[p] =>
              file'[job'[p]].whole /\ file'[job'[p]].rec.status = "Running"
<1> SUFFICES ASSUME pc'[p] \in {"flush", "flushw"}
             PROVE  \/ pc'[p] = "flushw" /\ ~file'[job'[p]].whole
                    \/ /\ pc'[p] = "flush" /\ file'[job'[p]].whole
                       /\ file'[job'[p]].rec.status = "Running"
  OBVIOUS
<1>1. (pc'[p] = "flush" /\ Check(p)) \/ (pc'[p] = "flushw" /\ OpenW(p))
  BY NoParts, WritingMoves DEF Writing
<1>2. CASE pc'[p] = "flush" /\ Check(p)
  <2>1. ~UpdateRaises(p)
    BY <1>2, UpdateEnds, Kinds
  <2> QED
    BY <1>2, <2>1 DEF Check, Loads, Parses
<1>3. CASE pc'[p] = "flushw" /\ OpenW(p)
  <2>1. job[p] \in Jobs
    BY <1>3, WriterKinds DEF OpenW
  <2> QED
    BY <1>3, <2>1 DEF OpenW, Empty, Types, SharedTypeOK
<1> QED
  BY <1>1, <1>2, <1>3

LEMMA StagesStep ==
  ASSUME OneLock, NeverEmpty, FitsBuffer, Types, HandleOK, Locals, Mutex, Handles, Reasons,
         Stages, Next
  PROVE  Stages'
<1> SUFFICES ASSUME NEW q \in Procs PROVE Stages!(q)'
  BY DEF Stages
<1>0. Stages!(q)
  BY DEF Stages
<1>1. ASSUME NEW p \in Procs, Moves(p) PROVE Stages!(q)'
  <2>1. CASE q = p
    BY <1>1, <2>1, OwnStage
  <2>2. CASE q # p
    <3>1. pc'[q] = pc[q] /\ job'[q] = job[q] /\ out'[q] = out[q]
      BY <1>1, <2>2, MovesAlone DEF Alone
    <3>2. CASE pc[q] \notin {"flush", "flushw"}
      BY <3>1, <3>2
    <3>3. CASE pc[q] \in {"flush", "flushw"}
      <4>1. job[q] \in Jobs /\ pc[q] \in Critical
        BY <3>3, WriterKinds
      <4>2. pc[p] \notin Critical
        BY <2>2, <4>1 DEF Mutex
      <4>3. \/ file' = file /\ fd'[q] = fd[q]
            \/ /\ file' = [file EXCEPT ![job[p]] = Nil]
               /\ fd'[q] = (fd[q] /\ job[q] # job[p])
        BY <1>1, <2>2, <4>2, FileMoves, WriterKinds
      <4>4. CASE file' = file /\ fd'[q] = fd[q]
        BY <1>0, <3>1, <4>4
      <4>5. CASE /\ file' = [file EXCEPT ![job[p]] = Nil]
                 /\ fd'[q] = (fd[q] /\ job[q] # job[p])
        BY <1>0, <3>1, <4>1, <4>5 DEF Types, SharedTypeOK
      <4> QED
        BY <4>3, <4>4, <4>5
    <3> QED
      BY <3>2, <3>3
  <2> QED
    BY <2>1, <2>2
<1>2. ASSUME NEW c \in Clients, Dispatch(c) PROVE Stages!(q)'
  <2>1. CASE q = c \/ q = out[c].task
    BY <1>2, <2>1, DispatchFrame
  <2>2. CASE q # c /\ q # out[c].task
    BY <1>0, <1>2, <2>2, DispatchFrame
  <2> QED
    BY <2>1, <2>2
<1>3. \A c \in Clients, t \in Tasks : ~SubmitEmpty(c, t)
  BY DEF NeverEmpty, SubmitEmpty
<1> QED
  BY <1>1, <1>2, <1>3, NextSplit

LEMMA OpenedStep ==
  ASSUME OneIdEach, NeverEmpty, FitsBuffer, Types, HandleOK, Ids, Locals, Deletions, Reasons,
         Opened, Next
  PROVE  Opened'
<1> SUFFICES ASSUME NEW c \in Clients, NEW t \in Tasks, Fresh(t)', SubmittedBy(c, t)',
                    pc'[c] = "flushw"
             PROVE  fd'[c]
  BY DEF Opened
<1>0. Fresh(t) /\ c \in Procs /\ c \in Callers
  BY SubmittedStays, Kinds DEF Fresh, Callers, Procs
<1>1. ASSUME NEW p \in Procs, Moves(p) PROVE fd'[c]
  <2>1. CASE p = c
    <3>1. OpenW(c)
      BY <1>0, <1>1, <2>1, NoParts, WritingMoves DEF Writing
    <3> QED
      BY <1>0, <3>1 DEF OpenW, Types, LocalTypeOK
  <2>2. CASE p # c
    <3>1. pc[c] = "flushw" /\ SubmittedBy(c, t)
      BY <1>0, <1>1, <2>2, MovesAlone DEF Alone, SubmittedBy
    <3>2. fd[c] /\ job[c] = JobId[t]
      BY <1>0, <3>1 DEF Opened, SubmittedBy, Ids, WithRecord
    <3>3. ~(p \in Clients /\ pc[p] = "remove" /\ job[p] = job[c])
      BY <1>0, <3>2, NoneRunningRemoved DEF Deletions
    <3> QED
      BY <1>0, <1>1, <2>2, <3>2, <3>3, FileMoves
  <2> QED
    BY <2>1, <2>2
<1>2. ASSUME NEW d \in Clients, Dispatch(d) PROVE fd'[c]
  <2>1. c # d
    BY <1>2, DispatchFrame
  <2>2. pc[c] = "flushw" /\ SubmittedBy(c, t) /\ fd' = fd
    BY <1>0, <1>2, <2>1, DispatchFrame, Kinds DEF SubmittedBy
  <2> QED
    BY <1>0, <2>2 DEF Opened
<1>3. \A d \in Clients, u \in Tasks : ~SubmitEmpty(d, u)
  BY DEF NeverEmpty, SubmitEmpty
<1> QED
  BY <1>1, <1>2, <1>3, NextSplit

LEMMA StepLifeInv ==
  ASSUME OneLock, OneIdEach, NeverEmpty, FitsBuffer,
         TypeOK, WriterInv, ThreadInv, OnceInv, LifeInv, [Next]_vars
  PROVE  LifeInv'
<1>1. CASE Next
  BY <1>1, ReasonsStep, StagesStep, OpenedStep
     DEF TypeOK, WriterInv, ThreadInv, OnceInv, LifeInv
<1>2. CASE UNCHANGED vars
  <2>1. UNCHANGED <<file, pc, op, job, out, fd>>
    BY <1>2 DEF vars
  <2>2. Reasons' /\ Stages'
    BY <2>1 DEF LifeInv, Reasons, Stages
  <2>3. Opened'
    BY <2>1 DEF LifeInv, Opened, Fresh, Submitted, SubmittedBy
  <2> QED
    BY <2>2, <2>3 DEF LifeInv
<1> QED
  BY <1>1, <1>2

LEMMA InitLifeInv == Init => LifeInv
<1> SUFFICES ASSUME Init PROVE LifeInv
  OBVIOUS
<1>1. /\ \A p \in Procs : pc[p] \in {"unborn", "idle"}
      /\ \A p \in Procs : out[p] = IF p \in Tasks THEN NewRecord(p) ELSE Nil
      /\ \A j \in Jobs : file[j] = Nil
  BY DEF Init
<1>2. \A t \in Tasks : NewRecord(t).reason = 0
  BY DEF NewRecord
<1>3. \A c \in Clients : pc[c] \in {"unborn", "idle"}
  BY <1>1 DEF Procs
<1> QED
  BY <1>1, <1>2, <1>3 DEF LifeInv, Reasons, Stages, Opened

LEMMA LifeInvariant ==
  ASSUME OneLock, OneIdEach, NeverEmpty, FitsBuffer
  PROVE  Spec => []LifeInv
<1>1. TypeOK /\ WriterInv /\ ThreadInv /\ OnceInv /\ LifeInv /\ [Next]_vars => LifeInv'
  BY StepLifeInv
<1> QED
  BY <1>1, InitLifeInv, OnceInvariant, ThreadInvariant, WriterInvariant, TypeCorrect, PTL
     DEF Spec

-----------------------------------------------------------------------------
(* What is submitted when.                                                 *)

(* A submission counts from the step on that writes its record.            *)
LEMMA SubmittedByWriting ==
  ASSUME Types, Locals, NEW p \in Procs, Moves(p), NEW t \in Tasks, Fresh(t), Submitted(t)'
  PROVE  p \in Clients /\ SubmittedBy(p, t) /\ FlushW(p) /\ out[p].status = "Running"
<1>0. t \in Procs /\ \A c \in Clients : c \in Procs /\ c \in Callers
  BY Kinds DEF Callers
<1>1. pc[t] = "unborn"
  BY DEF Fresh, Submitted
<1>2. pc'[t] = "unborn"
  BY <1>1, BirthMoves
<1>3. PICK c \in Clients : op'[c] = "submit" /\ out'[c].task = t /\ pc'[c] = "dispatch"
  BY <1>2 DEF Submitted
<1>4. c = p
  BY <1>0, <1>3, MovesAlone DEF Alone, Fresh, Submitted
<1>5. pc[p] = "flushw" /\ out'[p] = out[p] /\ op[p] = "submit" /\ out[p].status = "Running"
  BY <1>3, <1>4, SubmitterMoves
<1>6. FlushW(p)
  <2>1. FlushW(p) \/ FlushPart(p)
    BY <1>0, <1>4, <1>5, WriteMoves, Kinds
  <2> QED
    BY <1>3, <1>4, <1>5, <2>1 DEF FlushPart
<1> QED
  BY <1>3, <1>4, <1>5, <1>6 DEF SubmittedBy

LEMMA DispatchSubmitsNothing ==
  ASSUME Types, Locals, NEW c \in Clients, Dispatch(c), NEW t \in Tasks, Submitted(t)'
  PROVE  Submitted(t)
<1>0. t \in Procs /\ \A d \in Clients : d \in Procs /\ d \in Callers /\ d # t
  BY Kinds DEF Callers
<1>1. op[c] = "submit" /\ pc[c] = "dispatch" /\ out[c].task \in Tasks
  BY <1>0, DispatchFrame DEF Locals, Cancellations, WithRecord
<1>2. CASE t = out[c].task
  BY <1>1, <1>2 DEF Submitted
<1>3. CASE t # out[c].task
  <2>1. pc'[t] = pc[t]
    BY <1>0, <1>3, DispatchFrame
  <2>2. \A d \in Clients : d # c => pc'[d] = pc[d] /\ op'[d] = op[d] /\ out'[d] = out[d]
    BY <1>0, <1>1, DispatchFrame, Kinds
  <2>3. pc'[c] # "dispatch"
    BY DispatchFrame
  <2> QED
    BY <2>1, <2>2, <2>3 DEF Submitted
<1> QED
  BY <1>2, <1>3

-----------------------------------------------------------------------------
(* The steps of the lifecycle.                                             *)

Status == [j \in Jobs |-> StatusOf(j)]
Used == {j \in Jobs : \E t \in Tasks : JobId[t] = j /\ Submitted(t)}

(* One status changes in a way the lifecycle allows.                       *)
LEMMA OneStatusChanges ==
  ASSUME NEW j \in Jobs, \A i \in Jobs : i # j => file'[i] = file[i], Used' = Used,
         \/ StatusOf(j)' = StatusOf(j)
         \/ StatusOf(j) = "Running" /\ StatusOf(j)' \in Terminal
         \/ StatusOf(j) = "Cancelled" /\ StatusOf(j)' = "Failed"
         \/ StatusOf(j) \in Terminal /\ StatusOf(j)' = "NA"
         \/ j \in Used /\ StatusOf(j) = "NA" /\ StatusOf(j)' \in Terminal
  PROVE  [Lifecycle!Next]_(Lifecycle!vars)
<1>1. Status' = [Status EXCEPT ![j] = StatusOf(j)'] /\ Status[j] = StatusOf(j)
  BY DEF Status, StatusOf
<1>2. CASE StatusOf(j)' = StatusOf(j)
  <2>1. Status' = Status
    BY <1>1, <1>2 DEF Status
  <2> QED
    BY <2>1 DEF Lifecycle!vars, Status, Used
<1>3. CASE StatusOf(j) = "Running" /\ StatusOf(j)' \in Terminal
  <2>1. Lifecycle!End(j)
    BY <1>1, <1>3 DEF Lifecycle!End, Lifecycle!Becomes, Lifecycle!Ends, Terminal, Status, Used
  <2> QED
    BY <2>1 DEF Lifecycle!Next
<1>4. CASE StatusOf(j) = "Cancelled" /\ StatusOf(j)' = "Failed"
  <2>1. Lifecycle!LateFailure(j)
    BY <1>1, <1>4 DEF Lifecycle!LateFailure, Lifecycle!Becomes, Status, Used
  <2> QED
    BY <2>1 DEF Lifecycle!Next
<1>5. CASE StatusOf(j) \in Terminal /\ StatusOf(j)' = "NA"
  <2>1. Lifecycle!Delete(j)
    BY <1>1, <1>5 DEF Lifecycle!Delete, Lifecycle!Becomes, Lifecycle!Ends, Terminal, Status, Used
  <2> QED
    BY <2>1 DEF Lifecycle!Next
<1>6. CASE j \in Used /\ StatusOf(j) = "NA" /\ StatusOf(j)' \in Terminal
  <2>1. Lifecycle!Reappear(j)
    BY <1>1, <1>6 DEF Lifecycle!Reappear, Lifecycle!Becomes, Lifecycle!Ends, Terminal, Status, Used
  <2> QED
    BY <2>1 DEF Lifecycle!Next
<1> QED
  BY <1>2, <1>3, <1>4, <1>5, <1>6

LEMMA UsedStays ==
  ASSUME \A t \in Tasks : Submitted(t)' <=> Submitted(t)
  PROVE  Used' = Used
  BY DEF Used

(* Who writes how a job ended writes it of a job that was submitted.       *)
LEMMA EndsAreOfUsed ==
  ASSUME Types, Ids, Locals, Unknown, NEW p \in Procs, pc[p] = "flushw",
         out[p].status # "Running"
  PROVE  job[p] \in Used
<1>0. /\ job[p] \in Jobs /\ out[p].task \in Tasks /\ JobId[out[p].task] = job[p]
      /\ pc[p] \in WithRecord
  BY WriterKinds, OwnIds DEF Record, WithRecord
<1>1. CASE p \in Tasks
  <2>1. out[p].task = p /\ Submitted(p)
    BY <1>1 DEF Types, TaskTypeOK, Submitted
  <2> QED
    BY <1>0, <2>1 DEF Used
<1>2. CASE p \in Callers /\ op[p] # "submit"
  BY <1>0, <1>2 DEF Unknown, UnknownYet, Fresh, Used
<1>3. CASE p \in Callers /\ op[p] = "submit"
  <2>1. p \in Clients
    BY <1>3 DEF Types, CallerTypeOK, Callers
  <2>2. pc[out[p].task] = "void"
    BY <1>3, <2>1 DEF Locals, Submissions
  <2>3. Submitted(out[p].task)
    BY <2>2 DEF Submitted
  <2> QED
    BY <1>0, <2>3 DEF Used
<1> QED
  BY <1>1, <1>2, <1>3, Kinds

(* What the writes of a job that was submitted do to its status.           *)
LEMMA WriteStatus ==
  ASSUME OneLock, OneIdEach, FitsBuffer, TypeOK, WriterInv, ThreadInv, OnceInv, TextInv, LifeInv,
         NEW p \in Procs, Write(p), file' # file,
         ~(FlushW(p) /\ out[p].status = "Running"), NEW j \in Jobs, j = job[p]
  PROVE  /\ \A i \in Jobs : i # j => file'[i] = file[i]
         /\ \/ StatusOf(j)' = StatusOf(j)
            \/ StatusOf(j) = "Running" /\ StatusOf(j)' \in Terminal
            \/ StatusOf(j) = "Cancelled" /\ StatusOf(j)' = "Failed"
            \/ j \in Used /\ StatusOf(j) = "NA" /\ StatusOf(j)' \in Terminal
<1> DEFINE f == file[j]
           g == file'[j]
<1>0. /\ Types /\ HandleOK /\ Ids /\ Locals /\ Handles /\ Lengths /\ Stages /\ Unknown
      /\ Flush(p) \/ Truncate(p) \/ OpenW(p) \/ FlushW(p) \/ Overwrite(p)
  BY NoParts DEF TypeOK, WriterInv, ThreadInv, OnceInv, TextInv, LifeInv, Write, Update, Check,
     Fail
<1>1. pc[p] \in {"openw", "flush", "trunc", "flushw", "overwrite"}
  BY <1>0 DEF Flush, Truncate, OpenW, FlushW, Overwrite
<1>2. /\ out[p] \in Record /\ out[p].status \in Statuses /\ Nil \notin File
      /\ f # Nil => f \in File
  BY <1>0, <1>1, WriterKinds, Kinds DEF Types, SharedTypeOK, Record
<1>w. /\ Empty(out[p]) # Nil
      /\ f # Nil => Written(f, out[p]) # Nil /\ Truncated(f, Size(out[p])) # Nil
  <2>1. Empty(out[p]) \in File
    BY <1>2, SizeType DEF Empty, File
  <2>2. ASSUME f # Nil PROVE Written(f, out[p]) \in File /\ Truncated(f, Size(out[p])) \in File
    BY <1>2, <2>2, SizeType DEF Written, Truncated, File
  <2> QED
    BY <1>2, <2>1, <2>2
<1>3. \A i \in Jobs : i # j => file'[i] = file[i]
  BY <1>0, <1>2 DEF Flush, Truncate, OpenW, FlushW, Overwrite, Dump, Types, SharedTypeOK
<1>4. g # f
  <2>1. f = g => file' = file
    <3>1. file' \in [Jobs -> {file'[i] : i \in Jobs}]
      BY <1>0 DEF Flush, Truncate, OpenW, FlushW, Overwrite, Dump, Types, SharedTypeOK
    <3> QED
      BY <1>0, <1>3, <3>1 DEF Types, SharedTypeOK
  <2> QED
    BY <2>1
<1>5. CASE OpenW(p)
  <2>1. f = Nil /\ g = Empty(out[p])
    BY <1>0, <1>2, <1>5 DEF OpenW, Handles, Types, SharedTypeOK
  <2> QED
    BY <1>w, <1>3, <2>1 DEF StatusOf, Empty
<1>6. CASE Flush(p)
  <2>1. fd[p] /\ f # Nil /\ g = Written(f, out[p])
    <3>1. pc[p] = "flush" /\ Dump(p) /\ fd[p]
      BY <1>6 DEF Flush, Dump
    <3> QED
      BY <1>0, <3>1, NotCrossed DEF HandleOK, Types, SharedTypeOK
  <2>2. f.whole /\ f.rec.status = "Running"
    BY <1>0, <1>6, <2>1 DEF Flush, Stages
  <2>3. out[p].status \in Terminal
    <3>1. out[p].status # "Running"
      BY <1>0, <1>1, <1>6, RunningWriter DEF Flush
    <3> QED
      BY <1>2, <3>1 DEF Statuses
  <2>4. StatusOf(j) = "Running"
    BY <2>1, <2>2 DEF StatusOf
  <2>5. StatusOf(j)' = out[p].status
    BY <1>w, <2>1 DEF StatusOf, Written
  <2> QED
    BY <1>2, <1>3, <2>3, <2>4, <2>5
<1>7. CASE Truncate(p)
  <2>1. fd[p] /\ f # Nil /\ g = Truncated(f, Size(out[p]))
    BY <1>0, <1>2, <1>4, <1>7 DEF Truncate, HandleOK, Types, SharedTypeOK
  <2>2. f.whole /\ f.rec = out[p] /\ f \in File
    BY <1>0, <1>2, <1>7, <2>1 DEF Truncate, Lengths, Handles
  <2>3. g.whole /\ g.rec = f.rec /\ g # Nil
    BY <1>w, <1>2, <2>1, <2>2, SizeType DEF Truncated, File
  <2> QED
    BY <1>2, <1>3, <2>1, <2>2, <2>3 DEF StatusOf
<1>8. CASE FlushW(p)
  <2>1. fd[p] /\ f # Nil /\ g = Written(f, out[p])
    <3>1. pc[p] = "flushw" /\ Dump(p) /\ fd[p]
      BY <1>8 DEF FlushW, Dump
    <3> QED
      BY <1>0, <3>1, NotCrossed DEF HandleOK, Types, SharedTypeOK
  <2>2. ~f.whole
    BY <1>0, <1>8, <2>1 DEF FlushW, Stages
  <2>3. out[p].status \in Terminal /\ j \in Used
    BY <1>0, <1>2, <1>8, EndsAreOfUsed DEF FlushW, Statuses
  <2>4. StatusOf(j) = "NA"
    BY <2>2 DEF StatusOf
  <2>5. StatusOf(j)' = out[p].status
    BY <1>w, <2>1 DEF StatusOf, Written
  <2> QED
    BY <1>2, <1>3, <2>3, <2>4, <2>5
<1>9. CASE Overwrite(p)
  <2>1. f # Nil /\ g = Written(f, out[p])
    BY <1>0, <1>2, <1>4, <1>9 DEF Overwrite, Types, SharedTypeOK
  <2>2. f.whole /\ f.rec.status \in {"Running", "Cancelled"}
    BY <1>9, <2>1, FailureReplaces DEF Overwrite, Parses, ThreadInv, TextInv
  <2>3. out[p].status = "Failed"
    <3>1. p \in Tasks => out[p].status = "Failed"
      BY <1>0, <1>9 DEF Overwrite, Locals, Executions
    <3>2. p \in Callers => op[p] = "submit" /\ p \in Clients
      BY <1>0, <1>1, <1>9, WriterKinds, ProcsAssumption
         DEF Overwrite, Locals, Cancellations, Types, CallerTypeOK, Callers
    <3>3. p \in Callers => out[p].status = "Failed"
      BY <1>0, <1>9, <3>2 DEF Overwrite, Locals, Submissions
    <3> QED
      BY <3>1, <3>3, Kinds
  <2>4. StatusOf(j) = f.rec.status
    BY <2>1, <2>2 DEF StatusOf
  <2>5. StatusOf(j)' = "Failed"
    BY <1>w, <2>1, <2>3 DEF StatusOf, Written
  <2> QED
    BY <1>2, <1>3, <2>2, <2>4, <2>5 DEF Terminal
<1> QED
  BY <1>0, <1>5, <1>6, <1>7, <1>8, <1>9

(* The flush of a new record is the submission of its id.                  *)
LEMMA SubmissionMaps ==
  ASSUME OneIdEach, Types, HandleOK, Ids, Locals, Lengths, Stages, Opened, Next,
         NEW p \in Procs, Moves(p), FlushW(p), out[p].status = "Running"
  PROVE  Lifecycle!Next
<1>1. pc[p] = "flushw" /\ p \in Clients /\ op[p] = "submit"
  BY RunningWriter DEF FlushW
<1>2. PICK t \in Tasks : out[p].task = t /\ JobId[t] = job[p]
  BY <1>1, WriterKinds, OwnIds DEF Record
<1>3. SubmittedBy(p, t) /\ Fresh(t)
  <2>1. pc[t] = "unborn" /\ \A c \in Clients : op[c] = "submit" /\ out[c].task = t => c = p
    BY <1>1, <1>2 DEF Locals, Submissions
  <2> QED
    BY <1>1, <1>2, <2>1 DEF SubmittedBy, Fresh, Submitted
<1>4. PICK j \in Jobs : j = job[p]
  BY <1>1, WriterKinds
<1>5. fd[p] /\ file[j] # Nil /\ ~file[j].whole /\ out[p] \in Record
  BY <1>1, <1>3, <1>4, WriterKinds DEF Opened, Stages, HandleOK
<1>6. file' = [file EXCEPT ![j] = Written(file[j], out[p])]
  BY <1>1, <1>4, <1>5, NotCrossed DEF FlushW, Types, SharedTypeOK
<1>7. Written(file[j], out[p]) # Nil
  <2>1. file[j] \in File /\ Size(out[p]) \in Nat
    BY <1>5, SizeType DEF Types, SharedTypeOK
  <2>2. Written(file[j], out[p]) \in File
    BY <1>5, <2>1 DEF Written, File
  <2> QED
    BY <2>2, Kinds
<1>8. StatusOf(j) = "NA" /\ StatusOf(j)' = "Running"
      /\ \A i \in Jobs : i # j => StatusOf(i)' = StatusOf(i)
  <2>1. file'[j] = Written(file[j], out[p]) /\ \A i \in Jobs : i # j => file'[i] = file[i]
    BY <1>6 DEF Types, SharedTypeOK
  <2>2. file'[j].whole /\ file'[j].rec.status = "Running" /\ file'[j] # Nil
    BY <1>7, <2>1 DEF Written
  <2> QED
    BY <1>5, <2>1, <2>2 DEF StatusOf
<1>9. Submitted(t)' /\ \A u \in Tasks : u # t => (Submitted(u)' <=> Submitted(u))
  <2>1. p \in Procs /\ p \notin Tasks
    BY <1>1, Kinds DEF Callers
  <2>2. pc'[p] = "dispatch" /\ op'[p] = op[p] /\ out'[p] = out[p]
    BY <1>1, <2>1 DEF FlushW, UpdateReturns, Goto, Types, LocalTypeOK
  <2>3. ASSUME NEW u \in Tasks, u # t, Submitted(u)' PROVE Submitted(u)
    BY <1>2, <2>3, SubmittedByWriting DEF Fresh, SubmittedBy
  <2> QED
    BY <1>1, <1>2, <2>2, <2>3, SubmittedStays DEF Submitted
<1>10. j \notin Used /\ Used' = Used \cup {j}
  BY <1>2, <1>3, <1>4, <1>9 DEF Used, Fresh, OneIdEach
<1>11. Status' = [Status EXCEPT ![j] = "Running"] /\ Status[j] = "NA"
  BY <1>8 DEF Status
<1>12. Lifecycle!Submit(j)
  BY <1>10, <1>11 DEF Lifecycle!Submit, Lifecycle!Becomes, Status, Used
<1> QED
  BY <1>12 DEF Lifecycle!Next

(* Every other step of one process leaves the ids submitted as they are,   *)
(* and changes one status at most.                                         *)
LEMMA MovesMap ==
  ASSUME OneLock, OneIdEach, FitsBuffer, TypeOK, WriterInv, ThreadInv, OnceInv, TextInv, LifeInv,
         Next, NEW p \in Procs, Moves(p), ~(FlushW(p) /\ out[p].status = "Running")
  PROVE  [Lifecycle!Next]_(Lifecycle!vars)
<1>0. Types /\ HandleOK /\ Locals /\ Ids
  BY DEF TypeOK, WriterInv
<1>1. Used' = Used
  <2>1. ASSUME NEW t \in Tasks, Submitted(t)' PROVE Submitted(t)
    BY <1>0, <2>1, SubmittedByWriting DEF Fresh
  <2> QED
    BY <1>0, <2>1, SubmittedStays, UsedStays
<1>2. CASE file' = file
  BY <1>1, <1>2 DEF Lifecycle!vars, StatusOf, Used
<1>3. CASE file' # file /\ Write(p)
  <2>1. PICK j \in Jobs : j = job[p]
    <3>1. pc[p] \in {"openw", "flush", "trunc", "flushw", "overwrite"}
      BY <1>3 DEF Write, Update, Check, Flush, Truncate, OpenW, FlushW, FlushPart, Fail,
         Overwrite, OverwritePart
    <3> QED
      BY <1>0, <3>1, WriterKinds
  <2> QED
    BY <1>1, <1>3, <2>1, WriteStatus, OneStatusChanges
<1>4. CASE file' # file /\ p \in Clients /\ Remove(p)
  <2>1. job[p] \in Jobs /\ pc[p] = "remove"
    BY <1>0, <1>4 DEF Remove, Types, CallerTypeOK, WithJob
  <2>2. PICK j \in Jobs : j = job[p]
    BY <2>1
  <2>3. file[j] # Nil /\ file[j] \in File /\ file' = [file EXCEPT ![j] = Nil]
    BY <1>0, <1>4, <2>2 DEF Remove, Types, SharedTypeOK
  <2>4. /\ file[j].rec.task \in Tasks /\ JobId[file[j].rec.task] = j
        /\ file[j].rec.status \in Statuses
    BY <1>0, <2>3 DEF Ids, File, Record
  <2>5. file[j].rec.status # "Running"
    <3>1. PICK t \in Tasks : t = file[j].rec.task /\ JobId[t] = j
      BY <2>4
    <3>2. Deletable(t)
      BY DEF OnceInv, Deletions
    <3>3. ~HasRunning(t)
      BY <1>0, <1>4, <2>1, <2>2, <3>1, <3>2, NoneRunningRemoved
    <3> QED
      BY <2>3, <3>1, <3>3 DEF HasRunning
  <2>6. StatusOf(j) \in Terminal \cup {"NA"}
    BY <2>4, <2>5 DEF StatusOf, Statuses
  <2>7. file'[j] = Nil /\ \A i \in Jobs : i # j => file'[i] = file[i]
    BY <1>0, <2>3 DEF Types, SharedTypeOK
  <2>8. StatusOf(j)' = "NA"
    BY <2>7 DEF StatusOf
  <2> QED
    BY <1>1, <2>6, <2>7, <2>8, OneStatusChanges
<1> QED
  BY <1>2, <1>3, <1>4, ChangeMoves

LEMMA StepMaps ==
  ASSUME OneLock, OneIdEach, NeverEmpty, FitsBuffer,
         TypeOK, WriterInv, ThreadInv, OnceInv, TextInv, LifeInv, [Next]_vars
  PROVE  [Lifecycle!Next]_(Lifecycle!vars)
<1>0. Types /\ HandleOK /\ Locals /\ Ids /\ Lengths /\ Stages /\ Opened
  BY DEF TypeOK, WriterInv, TextInv, LifeInv
<1>1. CASE Next
  <2>1. ASSUME NEW p \in Procs, Moves(p) PROVE [Lifecycle!Next]_(Lifecycle!vars)
    BY <1>0, <1>1, <2>1, SubmissionMaps, MovesMap
  <2>2. ASSUME NEW c \in Clients, Dispatch(c) PROVE [Lifecycle!Next]_(Lifecycle!vars)
    <3>1. Used' = Used
      BY <1>0, <1>1, <2>2, DispatchSubmitsNothing, SubmittedStays, UsedStays
    <3>2. file' = file
      BY <1>0, <2>2, DispatchFrame
    <3> QED
      BY <3>1, <3>2 DEF Lifecycle!vars, StatusOf, Used
  <2>3. \A c \in Clients, t \in Tasks : ~SubmitEmpty(c, t)
    BY DEF NeverEmpty, SubmitEmpty
  <2> QED
    BY <1>1, <2>1, <2>2, <2>3, NextSplit
<1>2. CASE UNCHANGED vars
  <2>1. UNCHANGED <<file, pc, op, out>>
    BY <1>2 DEF vars
  <2>2. Used' = Used
    BY <2>1 DEF Used, Submitted
  <2> QED
    BY <2>1, <2>2 DEF Lifecycle!vars, StatusOf, Used
<1> QED
  BY <1>1, <1>2

LEMMA InitMaps == Init => Lifecycle!Init
<1> SUFFICES ASSUME Init PROVE Lifecycle!Init
  OBVIOUS
<1>1. /\ \A j \in Jobs : file[j] = Nil
      /\ \A t \in Tasks : pc[t] = "unborn"
      /\ \A c \in Clients : op[c] = "none"
  BY ProcsAssumption DEF Init, Procs
<1>2. \A t \in Tasks : ~Submitted(t)
  BY <1>1 DEF Submitted
<1>3. \A j \in Jobs : StatusOf(j) = "NA"
  BY <1>1 DEF StatusOf
<1> QED
  BY <1>2, <1>3 DEF Lifecycle!Init

(* A library user who submits every id once sees a job go through the      *)
(* statuses of JobLifecycle and no other way: Running when its record has  *)
(* been written, then one end, which only a failure that reports later     *)
(* than a cancellation replaces; and after a deletion nothing, or again    *)
(* the end of the execution that was still under way.                      *)
THEOREM ThreadsFollowLifecycle ==
  ASSUME OneLock, OneIdEach, NeverEmpty, FitsBuffer
  PROVE  Spec => FollowsLifecycle
<1>1. /\ TypeOK /\ WriterInv /\ ThreadInv /\ OnceInv /\ TextInv /\ LifeInv /\ [Next]_vars
      => [Lifecycle!Next]_(Lifecycle!vars)
  BY StepMaps
<1> QED
  BY <1>1, InitMaps, LifeInvariant, TextInvariant, OnceInvariant, ThreadInvariant,
     WriterInvariant, TypeCorrect, PTL DEF Spec, FollowsLifecycle, Lifecycle!Spec
=============================================================================
