---------------------------- MODULE JobLifecycle ----------------------------
(***************************************************************************)
(* What the job service promises about a job whose id is submitted once:   *)
(* the statuses GET /v1/jobs/{id} can report, one after the other.         *)
(*                                                                         *)
(* It is the promise the implementation keeps when its threads share one   *)
(* lock, and weaker than one may expect: an execution that is still under  *)
(* way when its job is cancelled reports Failed in the end, and it brings  *)
(* the record of a deleted job back, always in a terminal status.          *)
(***************************************************************************)
CONSTANTS Jobs

VARIABLES
    status,     \* what a reader of the job's record finds
    used        \* ids that were submitted

vars == <<status, used>>

Ends == {"Completed", "Failed", "Cancelled"}

TypeOK == status \in [Jobs -> Ends \cup {"NA", "Running"}] /\ used \subseteq Jobs

Init == status = [j \in Jobs |-> "NA"] /\ used = {}

Becomes(j, s) == status' = [status EXCEPT ![j] = s]

Submit(j) ==
    j \notin used /\ status[j] = "NA" /\ Becomes(j, "Running") /\ used' = used \cup {j}

End(j) == status[j] = "Running" /\ (\E s \in Ends : Becomes(j, s)) /\ UNCHANGED used

(* The execution of a cancelled job has failed to report Completed.        *)
LateFailure(j) == status[j] = "Cancelled" /\ Becomes(j, "Failed") /\ UNCHANGED used

Delete(j) == status[j] \in Ends /\ Becomes(j, "NA") /\ UNCHANGED used

(* An execution, or a cancellation, ends after its record was deleted.     *)
Reappear(j) ==
    j \in used /\ status[j] = "NA" /\ (\E s \in Ends : Becomes(j, s)) /\ UNCHANGED used

Next == \E j \in Jobs : \/ Submit(j) \/ End(j) \/ LateFailure(j)
                        \/ Delete(j) \/ Reappear(j)

Spec == Init /\ [][Next]_vars
=============================================================================
