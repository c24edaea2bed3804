-------------------------- MODULE QSAResultsProofs --------------------------
(***************************************************************************)
(* A record that says Completed belongs to an execution that stored its    *)
(* results, for every value of the constants.                              *)
(*                                                                         *)
(* A file only ever holds a record that some process had in its hands, so  *)
(* that the argument is about these: a task's record says Completed from   *)
(* Update on, which it reaches after PutResults only, and no caller has a  *)
(* Completed record to write, because cancel_job refuses a job in a        *)
(* terminal status, and delete_job writes none.                            *)
(***************************************************************************)
EXTENDS QSAServiceProofs

(* The records in the hands of the processes.                              *)
ResultsInHand ==
    /\ \A t \in Tasks : pc[t] = "update" \/ out[t].status = "Completed" => <<t, "results">> \in stored
    /\ \A p \in Callers :
         pc[p] \in {"reap", "remove"} \/ out[p] = Nil \/ out[p].status # "Completed"

Results == ResultsInHand /\ CompletedHasResults

LEMMA InitResults == Init => Results
<1> SUFFICES ASSUME Init PROVE Results
  OBVIOUS
<1>1. ResultsInHand
  BY Kinds DEF Init, ResultsInHand, NewRecord, Callers
<1>2. CompletedHasResults
  BY DEF Init, CompletedHasResults
<1> QED
  BY <1>1, <1>2 DEF Results

(* One process moves, and a file is removed, kept, or given its record.    *)
LEMMA ResultsFrame ==
  ASSUME Types, Results, NEW p \in Procs, stored \subseteq stored',
         \A q \in Procs : q # p => out'[q] = out[q],
         \A t \in Tasks : t # p => pc'[t] = pc[t] \/ pc'[t] # "update",
         p \in Tasks => (pc'[p] = "update" \/ out'[p].status = "Completed" => <<p, "results">> \in stored'),
         \A q \in Callers : q # p => pc'[q] = pc[q],
         p \in Callers => \/ pc'[p] \in {"reap", "remove"}
                          \/ out'[p] = Nil \/ out'[p].status # "Completed",
         \A j \in Jobs : \/ file'[j] = Nil
                         \/ file[j] # Nil /\ file'[j].rec = file[j].rec
                         \/ /\ file'[j].rec = out[p] /\ out[p] \in Record
                            /\ pc[p] \notin {"reap", "remove"}
  PROVE  Results'
<1>1. ResultsInHand'
  BY Kinds DEF Results, ResultsInHand
<1>2. out[p] \in Record /\ out[p].status = "Completed" /\ pc[p] \notin {"reap", "remove"}
      => <<out[p].task, "results">> \in stored
  <2>1. CASE p \in Tasks
    BY <2>1 DEF Results, ResultsInHand, Types, TaskTypeOK
  <2>2. CASE p \in Callers
    BY <2>2, Kinds DEF Results, ResultsInHand
  <2> QED
    BY <2>1, <2>2, Kinds
<1>3. CompletedHasResults'
  BY <1>2 DEF Results, CompletedHasResults
<1> QED
  BY <1>1, <1>3 DEF Results

(* A caller that leaves the files alone and does not take up a record.     *)
LEMMA ResultsIdle ==
  ASSUME Types, Results, NEW p \in Callers, UNCHANGED <<file, stored>>,
         \A q \in Procs : q # p => out'[q] = out[q],
         \A t \in Tasks : pc'[t] = pc[t] \/ pc'[t] # "update",
         \A q \in Callers : q # p => pc'[q] = pc[q],
         \/ pc'[p] \in {"reap", "remove"}
         \/ pc[p] \notin {"reap", "remove"} /\ out'[p] = out[p]
         \/ out'[p] = Nil \/ out'[p].status # "Completed"
  PROVE  Results'
<1>1. p \in Procs /\ p \notin Tasks
  BY Kinds
<1>2. pc'[p] \in {"reap", "remove"} \/ out'[p] = Nil \/ out'[p].status # "Completed"
  BY DEF Results, ResultsInHand
<1>3. \A j \in Jobs : file'[j] = Nil \/ (file[j] # Nil /\ file'[j].rec = file[j].rec)
  OBVIOUS
<1> QED
  BY <1>1, <1>2, <1>3, ResultsFrame

LEMMA RequestResults ==
  ASSUME Types, Results, NEW c \in Clients, Request(c)
  PROVE  Results'
<1>1. c \in Callers /\ c \in Procs /\ c \notin Tasks /\ \A t \in Tasks : t \in Procs /\ t # c
  BY Kinds DEF Callers
<1>2. /\ UNCHANGED <<file, stored>> /\ \A t \in Tasks : pc'[t] \in {pc[t], "void"}
      /\ \A q \in Callers : q # c => pc'[q] = pc[q]
  BY <1>1, Kinds DEF Request, Submit, SubmitEmpty, Refuse, GetJobs, UseJob, Begin, Goto, shared,
                     Types, LocalTypeOK
<1> DEFINE Fresh == {NewRecord(t) : t \in Tasks}
                   \cup {[NewRecord(t) EXCEPT !.created = FALSE] : t \in Tasks}
<1>3. \E r \in {Nil, out[c]} \cup Fresh : out' = [out EXCEPT ![c] = r]
  <2>1. ASSUME NEW t \in Tasks, Submit(c, t) \/ SubmitEmpty(c, t) \/ Refuse(c, t)
        PROVE  \/ out' = [out EXCEPT ![c] = NewRecord(t)]
               \/ out' = [out EXCEPT ![c] = [NewRecord(t) EXCEPT !.created = FALSE]]
               \/ out' = [out EXCEPT ![c] = out[c]]
    BY <1>1, <2>1 DEF Submit, SubmitEmpty, Refuse, Begin, Types, LocalTypeOK
  <2>2. ASSUME GetJobs(c) \/ \E o \in Operations, j \in Jobs : UseJob(c, o, j)
        PROVE  out' = [out EXCEPT ![c] = Nil]
    BY <2>2 DEF GetJobs, UseJob, Begin
  <2> QED
    BY <2>1, <2>2 DEF Request
<1>4. /\ \A q \in Procs : q # c => out'[q] = out[q]
      /\ \/ pc[c] \notin {"reap", "remove"} /\ out'[c] = out[c]
         \/ out'[c] = Nil \/ out'[c].status # "Completed"
  <2>5. \A t \in Tasks : /\ NewRecord(t).status # "Completed"
                         /\ [NewRecord(t) EXCEPT !.created = FALSE].status # "Completed"
    BY DEF NewRecord
  <2>1. \A r \in Fresh : r.status # "Completed"
    BY <2>5
  <2>2. PICK r \in {Nil, out[c]} \cup Fresh : out' = [out EXCEPT ![c] = r]
    BY <1>3
  <2>3. out'[c] = r /\ \A q \in Procs : q # c => out'[q] = out[q]
    BY <1>1, <2>2 DEF Types, LocalTypeOK
  <2>4. pc[c] \notin {"reap", "remove"}
    BY DEF Request, Submit, SubmitEmpty, Refuse, GetJobs, UseJob, Ready
  <2> QED
    BY <2>1, <2>3, <2>4
<1> QED
  BY <1>1, <1>2, <1>4, ResultsIdle

LEMMA ServeResults ==
  ASSUME Types, Results, NEW p \in Callers, Serve(p)
  PROVE  Results'
<1>1. p \in Procs /\ p \notin Tasks /\ \A t \in Tasks : t \in Procs /\ t # p
  BY Kinds
<1>2. UNCHANGED <<file, stored>>
  BY DEF Serve, List, Scan, Open, Listed, Read, Load, Kill, shared
<1>3. \A q \in Procs : q # p => pc'[q] = pc[q]
  BY <1>1 DEF Serve, List, Scan, Open, Listed, Read, Load, Kill, Return, Goto, Types, LocalTypeOK
<1>4. /\ \A q \in Procs : q # p => out'[q] = out[q]
      /\ \/ pc'[p] \in {"reap", "remove"}
         \/ pc[p] \notin {"reap", "remove"} /\ out'[p] = out[p]
         \/ out'[p] = Nil \/ out'[p].status # "Completed"
  <2>1. CASE List(p) \/ Scan(p) \/ Open(p) \/ Listed(p) \/ Read(p) \/ Kill(p)
    BY <1>1, <2>1 DEF List, Scan, Open, Listed, Read, Kill, Return, locals, Types, LocalTypeOK
  <2>2. CASE Load(p)
    BY <1>1, <2>2 DEF Load, MayCancel, Return, Goto, Types, LocalTypeOK
  <2> QED
    BY <2>1, <2>2 DEF Serve
<1> QED
  BY <1>1, <1>2, <1>3, <1>4, ResultsIdle, Kinds

(* job_status returns or raises with what it had, or with nothing.         *)
LEMMA EndOfUpdate ==
  ASSUME Types, NEW p \in Procs, UpdateReturns(p) \/ UpdateRaises(p)
  PROVE  /\ \A q \in Procs : q # p => out'[q] = out[q] /\ pc'[q] = pc[q]
         /\ out'[p] \in {Nil, out[p]} /\ pc'[p] # "update"
         /\ p \in Tasks => out'[p] = out[p]
  BY DEF UpdateReturns, UpdateRaises, Return, Goto, locals, Types, LocalTypeOK

LEMMA WriteResults ==
  ASSUME Types, HandleOK, Results, NEW p \in Procs, Write(p)
  PROVE  Results'
<1> USE Kinds
<1>1. pc[p] \in WithRecord /\ stored' = stored
  BY DEF Write, Update, Check, Flush, Truncate, OpenW, FlushW, FlushPart, Fail, Overwrite,
         OverwritePart, WithRecord, shared
<1>2. out[p] \in Record /\ job[p] \in Jobs /\ out[p] # Nil
  BY <1>1, WriterTypes
<1>3. /\ p \in Tasks => (pc[p] = "update" \/ out[p].status = "Completed" => <<p, "results">> \in stored)
      /\ p \in Callers => out[p].status # "Completed"
      /\ pc[p] \notin {"reap", "remove"}
  BY <1>1, <1>2 DEF Results, ResultsInHand, WithRecord
<1>4. \A f \in File : \A n :
         /\ Written(f, out[p]).rec = out[p] /\ WrittenPart(f, out[p], n).rec = out[p]
         /\ Truncated(f, n).rec = f.rec
  BY DEF Written, WrittenPart, Truncated, File
<1>5. file \in [Jobs -> File \cup {Nil}]
  BY DEF Types, SharedTypeOK
<1>6. \A j \in Jobs : \/ file'[j] = Nil
                      \/ file[j] # Nil /\ file'[j].rec = file[j].rec
                      \/ /\ file'[j].rec = out[p] /\ out[p] \in Record
                         /\ pc[p] \notin {"reap", "remove"}
  <2>1. CASE Update(p) \/ Fail(p) \/ Check(p)
    BY <2>1 DEF Update, Fail, Check
  <2>2. CASE Flush(p) \/ FlushW(p) \/ FlushPart(p)
    BY <1>2, <1>3, <1>4, <1>5, <2>2 DEF Flush, FlushW, FlushPart, Dump, HandleOK
  <2>3. CASE Truncate(p)
    BY <1>2, <1>4, <1>5, <2>3 DEF Truncate, HandleOK
  <2>4. CASE OpenW(p)
    BY <1>2, <1>3, <1>5, <2>4 DEF OpenW, Empty
  <2>5. CASE Overwrite(p) \/ OverwritePart(p)
    BY <1>2, <1>3, <1>4, <1>5, <2>5 DEF Overwrite, OverwritePart
  <2> QED
    BY <2>1, <2>2, <2>3, <2>4, <2>5 DEF Write
<1>7. CASE Update(p) \/ Fail(p)
  <2>1. \A q \in Procs : q # p => out'[q] = out[q] /\ pc'[q] = pc[q]
    BY <1>7 DEF Update, Fail, Goto, Types, LocalTypeOK
  <2>2. pc'[p] # "update"
    BY <1>7 DEF Update, Fail, Goto, Types, LocalTypeOK
  <2>3. /\ p \in Tasks => (out'[p].status = "Completed" => <<p, "results">> \in stored')
        /\ p \in Callers => out'[p].status # "Completed"
    BY <1>1, <1>2, <1>3, <1>7 DEF Update, Fail, Types, LocalTypeOK, Record
  <2> QED
    BY <1>1, <1>6, <2>1, <2>2, <2>3, ResultsFrame
<1>8. ASSUME \A q \in Procs : q # p => out'[q] = out[q] /\ pc'[q] = pc[q],
             out'[p] \in {Nil, out[p]}, pc'[p] # "update", p \in Tasks => out'[p] = out[p]
      PROVE  Results'
  BY <1>1, <1>3, <1>6, <1>8, ResultsFrame
<1>9. CASE ~(Update(p) \/ Fail(p))
  <2>1. \/ UpdateReturns(p) \/ UpdateRaises(p)
        \/ out' = out /\ \E l \in {"flush", "trunc", "flushw"} : Goto(p, l)
        \/ out' = out /\ pc' = pc /\ pc[p] # "update"
    BY <1>9 DEF Write, Check, Flush, Truncate, OpenW, FlushW, FlushPart, Overwrite,
                OverwritePart, locals
  <2> QED
    BY <1>8, <2>1, EndOfUpdate DEF Goto, Types, LocalTypeOK
<1> QED
  BY <1>7, <1>9

LEMMA ClientResults ==
  ASSUME Types, HandleOK, Results, NEW c \in Clients, ClientStep(c)
  PROVE  Results'
<1>1. c \in Callers /\ c \in Procs /\ c \notin Tasks /\ \A t \in Tasks : t \in Procs /\ t # c
  BY Kinds DEF Callers
<1>2. CASE Serve(c)
  BY <1>1, <1>2, ServeResults
<1>3. CASE Write(c)
  BY <1>1, <1>3, WriteResults
<1>4. CASE Remove(c)
  <2>1. /\ \A q \in Procs : q # c => out'[q] = out[q] /\ pc'[q] = pc[q]
        /\ out'[c] = Nil /\ stored' = stored
    BY <1>1, <1>4 DEF Remove, Return, shared, Types, LocalTypeOK
  <2>2. \A j \in Jobs : file'[j] = Nil \/ file'[j] = file[j]
    BY <1>4 DEF Remove, Types, SharedTypeOK
  <2>3. \A q \in Callers : q # c => pc'[q] = pc[q]
    BY <2>1, Kinds
  <2> QED
    BY <1>1, <2>1, <2>2, <2>3, ResultsFrame
<1>5. CASE Reap(c) \/ Create(c) \/ Dispatch(c) \/ Register(c)
  <2>1. UNCHANGED <<file, stored>>
    BY <1>5 DEF Reap, Create, Dispatch, Register, shared
  <2>2. /\ \A q \in Procs : q # c => out'[q] = out[q]
        /\ \/ pc'[c] \in {"reap", "remove"}
           \/ pc[c] \notin {"reap", "remove"} /\ out'[c] = out[c]
           \/ out'[c] = Nil
    BY <1>1, <1>5 DEF Reap, Create, Dispatch, Register, Return, Goto, locals,
                      Types, LocalTypeOK
  <2>4. ASSUME NEW q \in Callers, q # c PROVE pc'[q] = pc[q]
    <3>1. CASE Reap(c) \/ Create(c) \/ Register(c)
      BY <1>1, <2>4, <3>1, Kinds DEF Reap, Create, Register, Return, Goto, Types, LocalTypeOK
    <3>2. CASE Dispatch(c)
      <4>1. out[c].task \in Tasks
        BY <1>1, <3>2 DEF Dispatch, Types, CallerTypeOK, WithRecord, Callers, Record
      <4> QED
        BY <1>1, <2>4, <3>2, <4>1, Kinds DEF Dispatch, Types, LocalTypeOK
    <3> QED
      BY <1>5, <3>1, <3>2
  <2>3. \A t \in Tasks : pc'[t] = pc[t] \/ pc'[t] # "update"
    BY <1>1, <1>5 DEF Reap, Create, Dispatch, Register, Return, Goto,
                      Types, LocalTypeOK
  <2> QED
    BY <1>1, <2>1, <2>2, <2>3, <2>4, ResultsIdle
<1> QED
  BY <1>2, <1>3, <1>4, <1>5 DEF ClientStep

LEMMA TaskResults ==
  ASSUME Types, HandleOK, Results, NEW t \in Tasks, TaskStep(t) \/ End(t)
  PROVE  Results'
<1>1. t \in Procs /\ t \notin Callers
  BY Kinds
<1>2. CASE Write(t)
  BY <1>1, <1>2, WriteResults
<1>3. ASSUME Run(t) \/ PutResults(t) \/ PutLogs(t) \/ End(t)
      PROVE  Results'
  <2>1. file' = file /\ stored \subseteq stored'
    BY <1>3 DEF Run, PutResults, PutLogs, End, shared
  <2>2. \A q \in Procs : q # t => out'[q] = out[q] /\ pc'[q] = pc[q]
    BY <1>3 DEF Run, PutResults, PutLogs, End, Goto, locals, Types, LocalTypeOK
  <2>3. pc'[t] = "update" => <<t, "results">> \in stored'
    BY <1>1, <1>3 DEF Run, PutResults, PutLogs, End, Goto, Types, LocalTypeOK
  <2>4. out'[t].status = out[t].status
    BY <1>1, <1>3 DEF Run, PutResults, PutLogs, End, locals, Types, LocalTypeOK, TaskTypeOK, Record
  <2>5. out'[t].status = "Completed" => <<t, "results">> \in stored'
    BY <2>1, <2>4 DEF Results, ResultsInHand
  <2>6. \A j \in Jobs : file'[j] = Nil \/ (file[j] # Nil /\ file'[j].rec = file[j].rec)
    BY <2>1
  <2>7. /\ \A u \in Tasks : u # t => pc'[u] = pc[u]
        /\ \A q \in Callers : q # t => pc'[q] = pc[q]
    BY <2>2, Kinds
  <2> QED
    BY <1>1, <2>1, <2>2, <2>3, <2>5, <2>6, <2>7, ResultsFrame
<1> QED
  BY <1>2, <1>3 DEF TaskStep

LEMMA CloseResults ==
  ASSUME Types, HandleOK, Results, NEW s \in Services, StartClose(s) \/ CloseStep(s)
  PROVE  Results'
<1>1. s \in Callers /\ s \in Procs /\ \A t \in Tasks : t \in Procs /\ t # s
  BY Kinds DEF Callers
<1>2. CASE Serve(s)
  BY <1>1, <1>2, ServeResults
<1>3. CASE Write(s)
  BY <1>1, <1>3, WriteResults
<1>4. CASE StartClose(s) \/ Shutdown(s) \/ CancelNext(s)
  <2>1. UNCHANGED <<file, stored, out>> /\ \A q \in Procs : q # s => pc'[q] = pc[q]
    BY <1>1, <1>4 DEF StartClose, Shutdown, CancelNext, Goto, shared, locals, Types, LocalTypeOK
  <2>2. out'[s] = out[s] /\ pc[s] \notin {"reap", "remove"}
    BY <1>4, <2>1 DEF StartClose, Shutdown, CancelNext
  <2> QED
    BY <1>1, <2>1, <2>2, ResultsIdle, Kinds
<1> QED
  BY <1>2, <1>3, <1>4 DEF CloseStep

LEMMA InactiveResults ==
  ASSUME Types, Results, NEW p \in Callers, Inactive(p)
  PROVE  Results'
<1>1. /\ UNCHANGED <<file, stored, out, pc>> /\ pc[p] \notin {"reap", "remove"}
  BY DEF Inactive, shared
<1> QED
  BY <1>1, ResultsIdle

LEMMA StepResults ==
  ASSUME TypeOK, Results, [Next]_vars
  PROVE  Results'
<1>1. Types /\ HandleOK
  BY DEF TypeOK
<1>2. CASE Next
  BY <1>1, <1>2, RequestResults, ClientResults, TaskResults, CloseResults, InactiveResults
     DEF Next, Callers, Die
<1>3. CASE UNCHANGED vars
  BY <1>3 DEF Results, ResultsInHand, CompletedHasResults, vars, shared, locals
<1> QED
  BY <1>2, <1>3

(* What GET /v1/jobs/{id} reports as Completed has its results stored,     *)
(* whatever runs concurrently, fails, is killed, deleted or sent again.    *)
THEOREM CompletedJobsHaveResults == Spec => []CompletedHasResults
<1>1. TypeOK /\ Results /\ [Next]_vars => Results'
  BY StepResults
<1>2. Results => CompletedHasResults
  BY DEF Results
<1> QED
  BY <1>1, <1>2, InitResults, TypeCorrect, PTL DEF Spec
=============================================================================
