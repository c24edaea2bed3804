----------------------------- MODULE StatusFile -----------------------------
(***************************************************************************)
(* The job status file of the simulator (jobs_dir/<job id>), the text that *)
(* _job_status of qsa_service.py writes with json.dump and reads back with *)
(* json.load.                                                              *)
(*                                                                         *)
(* A record is written as one JSON text.  What the code's properties tell  *)
(* apart is not the text but which record it encodes and how long it is:   *)
(* the file is overwritten from its start without being emptied first, so  *)
(* a shorter text written over a longer one leaves trailing characters     *)
(* ("JSONDecodeError: Extra data"), and a file emptied by open(mode="w")   *)
(* cannot be parsed before the new text is flushed.                        *)
(***************************************************************************)
EXTENDS Naturals

CONSTANTS
    Tasks,          \* accepted payloads of POST /v1/jobs, with their executions
    BaseSize,       \* length of the JSON text of a task's record when created
    Buffer          \* length of the buffer of an open file

ASSUME BaseSizeAssumption == BaseSize \in [Tasks -> Nat \ {0}] /\ Buffer \in Nat

(* The statuses the code writes; "NA" is the answer for an absent file.    *)
Terminal == {"Completed", "Failed", "Cancelled"}
Statuses == Terminal \cup {"Running"}

(* A job record: the submission whose fields it holds, its status, whether *)
(* it has a created_time (505), whether the executor has added "usage"     *)
(* (789), and the length of the reason fields a failure adds (513-516), 0  *)
(* when there are none.  end_time is present exactly in the terminal       *)
(* statuses.                                                               *)
Record == [task : Tasks, status : Statuses, created : BOOLEAN, usage : BOOLEAN,
           reason : Nat]

NewRecord(t) ==
    [task |-> t, status |-> "Running", created |-> TRUE, usage |-> FALSE, reason |-> 0]

(* The length of the record's JSON text.  Fields are only ever added, so   *)
(* each of end_time, usage and the reason makes the text longer; the       *)
(* difference between the names of the statuses is less than any of them.  *)
Size(r) ==
    BaseSize[r.task] + (IF r.status \in Terminal THEN 1 ELSE 0)
                     + (IF r.usage THEN 1 ELSE 0) + r.reason

(* A file's content: the record that was written to it last, be it in part, *)
(* the length, and whether the text of that record is there in full.       *)
File == [rec : Record, len : Nat, whole : BOOLEAN]

(* json.load succeeds: the text is complete and nothing follows it.        *)
Parses(f) == f.whole /\ f.len = Size(f.rec)

(* open(mode="w"): the file exists and is empty until r is flushed.        *)
Empty(r) == [rec |-> r, len |-> 0, whole |-> FALSE]

(* The text of r is flushed at offset 0 over what the file holds.          *)
Written(f, r) ==
    [rec |-> r, len |-> IF f.len > Size(r) THEN f.len ELSE Size(r), whole |-> TRUE]

(* A text of r of n characters of which not every part is there: json.dump *)
(* has flushed its first n characters only, or another writer has replaced *)
(* the first part meanwhile and the file is a mixture of both.             *)
WrittenPart(f, r, n) ==
    [rec |-> r, len |-> IF f.len > n THEN f.len ELSE n, whole |-> FALSE]

(* f.truncate() at the end of a text of length n: it cuts a longer text    *)
(* and pads a shorter one with NUL characters.                             *)
Truncated(f, n) == [f EXCEPT !.len = n, !.whole = @ /\ Size(f.rec) <= n]
=============================================================================
