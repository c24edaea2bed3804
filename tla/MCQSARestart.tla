---------------------------- MODULE MCQSARestart ----------------------------
(***************************************************************************)
(* The small instances of QSAService, with API processes that restart.     *)
(***************************************************************************)
EXTENDS MCQSAService, QSARestart

(* As WithoutReplies; of what is stored, the properties of the runs look   *)
(* only at logs, and at cancelled only together with lost.                 *)
WithoutRepliesR ==
    <<file, lock, registry, sigterm, {x \in stored : x[2] = "logs"},
      pc, op, job, out, fd, todo, seen, lost, cancelled \ lost>>
=============================================================================
