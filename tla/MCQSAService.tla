---------------------------- MODULE MCQSAService ----------------------------
(***************************************************************************)
(* Small instances of QSAService for TLC: two or three clients, one or two *)
(* API processes, up to four submissions.                                  *)
(***************************************************************************)
EXTENDS QSAService, TLC

CONSTANTS c1, c2, c3, s1, s2, t1, t2, t3, t4, j1, j2, j3, j4, b1, b2

(* One API process serves everybody, or each client has its own.           *)
OneHome == [c \in Clients |-> s1]
TwoHomes == c1 :> s1 @@ c2 :> s2

(* Every submission has an id of its own, or all ask for the same one.     *)
UniqueIds == t1 :> j1 @@ t2 :> j2
FourIds == t1 :> j1 @@ t2 :> j2 @@ t3 :> j3 @@ t4 :> j4
SameId == [t \in Tasks |-> j1]

OneBackend == [t \in Tasks |-> b1]
FourthBackendUnknown == [t \in Tasks |-> IF t = t4 THEN b2 ELSE b1]

(* The storages of the API's jobs; nobody wants logs, or only t2.          *)
S3 == [t \in Tasks |->
         [input |-> "s3_compatible", results |-> "s3_compatible", logs |-> "none"]]

WithLogs == [t \in Tasks |-> [S3[t] EXCEPT !.logs = IF t = t2 THEN "s3_compatible" ELSE @]]

(* Everybody wants logs.                                                   *)
AllWithLogs == [t \in Tasks |-> [S3[t] EXCEPT !.logs = "s3_compatible"]]

(* t2 names storages that the API accepts and the service does not have.   *)
MixedStorages == [t \in Tasks |->
    IF t = t1 THEN [S3[t] EXCEPT !.results = "file_system"]
              ELSE [S3[t] EXCEPT !.results = "ibmcloud_cos", !.logs = "ibmcloud_cos"]]

(* The record of t2 is longer than any record of t1, or both are alike.    *)
Sizes == [t \in Tasks |-> IF t = t1 THEN 1 ELSE 9]
Equal == [t \in Tasks |-> 1]

(* The answers of past calls, which no action and no property of the runs  *)
(* with this view looks at, are left out of the states TLC tells apart.    *)
WithoutReplies == <<file, lock, shared, pc, op, job, out, fd, todo, seen>>

(* Clients of one API process are interchangeable, and so are submissions  *)
(* to one backend with their ids.                                          *)
ClientsAlike == Permutations(Clients)
AllAlike ==
    {f \in {c @@ t @@ j : c \in ClientsAlike,
                          t \in Permutations(Tasks), j \in Permutations(Jobs)} :
        \A t \in Tasks : f[JobId[t]] = JobId[f[t]] /\ BackendOf[f[t]] = BackendOf[t]}
=============================================================================
