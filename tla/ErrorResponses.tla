--------------------------- MODULE ErrorResponses ---------------------------
(***************************************************************************)
(* How a call ends: the exceptions of errors.py, those the framework       *)
(* raises, and the HTTP status that the handlers of api.py make of them.   *)
(***************************************************************************)
EXTENDS Naturals

(* Exceptions of the job service and of the checks in front of it.         *)
JobErrors ==
    {"BackendNotFoundError", "JobNotFoundError", "DuplicateJobError",
     "JobNotCancellableError", "UnableToDeleteJobInNonTerminalStateError",
     "InvalidInputError", "ServiceNotAvailableError"}
AccessErrors ==
    {"NotAuthorizedError", "InvalidCredentialsError",
     "ExecutionLanesLimitReachedError", "BackendCurrentlyReservedError"}
IAMErrors == {"IAMAPIKeyNotFoundError", "IAMPropertyMissingOrEmptyError"}

(* Exceptions of the framework and of the language; "Exception" is any one *)
(* without a handler, which the framework answers with 500.                *)
OtherErrors ==
    {"NotImplementedError", "RequestValidationError", "HTTPException", "Exception"}

(* "none" while the call executes.                                         *)
Outcomes == {"OK", "none"} \cup JobErrors \cup AccessErrors \cup IAMErrors \cup OtherErrors

ServiceStatus(o) ==
    CASE o \in {"BackendNotFoundError", "JobNotFoundError"} -> 404
      [] o \in {"DuplicateJobError", "JobNotCancellableError",
                "UnableToDeleteJobInNonTerminalStateError"} -> 409
      [] o = "ServiceNotAvailableError" -> 503
      [] o = "InvalidInputError" -> 400

AccessStatus(o) ==
    CASE o \in {"NotAuthorizedError", "InvalidCredentialsError"} -> 401
      [] o = "ExecutionLanesLimitReachedError" -> 429
      [] o = "BackendCurrentlyReservedError" -> 423

(* HTTPException: run_job raises it with 400 for an unknown backend.       *)
OtherStatus(o) ==
    CASE o \in IAMErrors \cup {"RequestValidationError", "HTTPException"} -> 400
      [] o = "NotImplementedError" -> 501
      [] o = "Exception" -> 500

(* What the caller sees; "OK" is 204 for the routes without a response body. *)
HttpStatus(o) ==
    IF o = "OK" THEN 200
    ELSE IF o \in JobErrors THEN ServiceStatus(o)
    ELSE IF o \in AccessErrors THEN AccessStatus(o) ELSE OtherStatus(o)
=============================================================================
