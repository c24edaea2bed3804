# Formal models of the Quantum System API simulator

TLA+ modules for `qsa_sim`, the simulator of IBM's Quantum System API: a FastAPI
application that accepts jobs (POST /v1/jobs), runs them on simulated backends
in worker processes, and keeps the state of each job in a JSON file. The modules
are translated from the Python sources under `src/qsa_sim`; TLC checks them on
small instances, and TLAPS proves the theorems listed below for all instances.

## Inventory of the system

| Part | Source | State | Operations |
| ---- | ------ | ----- | ---------- |
| Job service | `qsa_service.py` (`QSAService`) | one status file for each job in `.jobs/`, `_status_lock`, `_mp_workers`, `_active`, the thread pool | `execute_job`, `get_jobs`, `get_job_by_id`, `delete_job`, `cancel_job`, `job_status`, `close` |
| Job routes | `v1/job.py` | none of its own | admission control and the calls of the service |
| Executors | `qsa_service.py` (`execute_samplerV2`, `execute_estimatorV2`, `_run_*_job_func`) | the dict `job` in memory, results and logs in the storage | fetch and decode the input, run, store results, record the outcome, store logs |
| Shared storage | `S3Compatible`, `FileStorage` in `qsa_service.py` | objects or files | get, put |
| Life cycle | `app.py`, `api.py` | `.secret_keys`, configuration in the environment, the API processes | make the key, start uvicorn's workers, load the key, `close()` at shutdown |
| Authentication | `auth.py`, `v1/authentication.py` | the key and configured credentials of each API process | issue access tokens, `verify_token` |
| Error handlers | `errors.py`, `api.py` | none | exception to HTTP status |
| Backend routes | `v1/backend.py` | a fixed catalogue | lookups |
| Encoders, models, logging | `externals/`, `v1/models.py`, `consts.py`, `logger.py` | none | pure conversions and declarations |

How they interact. A request is served by a thread of one API process; several
API processes (`api_workers`) may serve the same directory. `run_job` counts the
records of its backend, creates the record with status Running and starts a
worker process, or queues a thread when `QSAService` is used as a library. The
execution reports its end by writing the same file. `cancel_job` and
`delete_job` act on the file and on the registry of worker processes from other
threads. `close()` waits for the threads, then cancels what is still Running.
Every API process loads the key that `app.py` made and signs and verifies tokens
with it.

What is hard here, and where the properties aim:

- the file is read, compared, overwritten and cut in several steps. The lock
  that makes them atomic for threads is not shared with worker processes, which
  build a `QSAService` of their own, nor between API processes;
- `delete_job` and `cancel_job` act on a status they read earlier, without the
  lock; an execution may end, be killed, or the id be submitted again meanwhile;
- SIGTERM, Ctrl+C, lost workers and crashes of API processes stop a writer between
  any two writes, also between two parts of one record;
- the id of a job is the client's choice (`v1/models.py:673`), and one whose job was
  deleted may be used again, as `errors.py:106` advises;
- nothing is recovered at a start: a new API process looks neither at the files
  nor at the workers the old one left;
- counting the lanes and creating the record are separate steps;
- the key file is created and filled in separate steps, by a server that may
  stop in between, and read by processes that start at any later time.

`PROJECT.json` lists each such place with its line under "hazards", with the
properties aimed at it or the reason why there is none.

Correctness, part by part. Job service: reads always parse; a job follows its
lifecycle; Completed implies stored results; no job stays Running without an
owner; a deletion does not remove a job that it found running; every request is answered and
every job ends; a crash or a lost worker harms the job it hit and no other.
Routes: the limit of lanes, the declared responses. Executors: every outcome is
recorded before the logs are stored and the execution ends. Life cycle: one key
for everybody; after a complete close no record says Running, and nothing
changes any more. Authentication: a token's acceptance depends on its age alone.

## Modules

| Module | Contents |
| ------ | -------- |
| `StatusFile` | A status file: which record it encodes, how long it is, whether the text is complete, and what an overwrite, a first part of one, a truncation and `open(mode="w")` make of it |
| `ErrorResponses` | Exceptions as names, and the HTTP status each is answered with |
| `QSAService` | The state machine of the job service: clients, executions, `close()` |
| `QSARestart` | The same with faults: API processes that crash and are started again, workers that fail to start, are lost or interrupted |
| `JobLifecycle` | Abstract specification: the statuses a reader of one job sees |
| `ApiAccess` | Key file, start and stop of the server, tokens and their check |
| `MCQSAService`, `MCQSARestart`, `MCApiAccess` | Instances for TLC |
| `QSAServiceProofs` | Types and locals of `QSAService` |
| `QSAResultsProofs` | Completed implies stored results |
| `QSAWritersProofs` | What the writers of the files have in hand; logs come last |
| `QSAThreadsProofs` | What one lock gives to the threads of a library user |
| `QSAOnceProofs` | Deletions and lanes, for any use of ids; who ends a job and what `close()` leaves, for ids submitted once |
| `QSALifecycleProofs` | Threads and ids submitted once: texts, and the refinement of `JobLifecycle` |
| `QSARestartProofs` | Faults: types, results, logs, and that a fault harms only whom it hits |
| `ApiAccessProofs` | Types, the shared key, the time to live |

`QSAService` extends `StatusFile` and `ErrorResponses` and refines
`JobLifecycle` (instance `Lifecycle`). `QSARestart` extends `QSAService`: its steps
are those of `QSAService` (`Spared`) and four faults. `ApiAccess` extends
`ErrorResponses`.

### QSAService and the code

Processes are the clients (one request at a time each), the executions (`Tasks`,
one for each submission that may be accepted) and the instances of `QSAService`
(`Services`, here as the thread that runs `close()`). A process has a program
counter `pc` and the locals of its call: `op`, `job` (the id), `out` (the dict to
write), `fd` (its open file is still the one in the directory), `todo` and
`seen` (the directory listing), `reply` (how the last call ended).

| Variable | Code |
| -------- | ---- |
| `file[j]` | `.jobs/<j>`, or `Nil` |
| `lock[l]` | holder of the `_status_lock` of an API process or of a worker |
| `registry[s][j]` | `_mp_workers` |
| `sigterm` | executions whose worker was ever sent SIGTERM |
| `stored` | what the storages hold: pairs of an execution and "results" or "logs" |
| `lost` (`QSARestart`) | not in the code: the submissions that a fault hit |
| `cancelled` (`QSARestart`) | not in the code: the submissions that `cancel_job` or `close()` has decided to cancel |

`MultiProcess = TRUE` is the deployed API: `run_job` with admission control, and
executions in spawned processes, each with its own lock. `FALSE` is the library:
`execute_job` is called directly and executions are threads under one lock. Only
there the empty `program_id` passes (`SubmitEmpty`: Failed is written at once,
whatever record the id has), storages of type `"none"` are possible, and calls may
follow `close()` (`Inactive` is `_assert_if_inactive`); in the API the lifespan
closes the service when the server has served its last request.

One step is one access to shared state. What is merged into one step, and why it changes
nothing a property sees: taking the lock together with the first look at the directory,
because nothing is shared in between; `open(mode="r+")` together with the `json.load`
that follows, because a write between the two has the effect of a write before the open,
and a removal that of one after the load; the plain overwrite of a failure together with
the open before it, because the name is not used in between; and `Process.close()` with
the `pop` after it, for which `Kill` has the outcome of a cancellation that meets the
closed `Process` (`Reaped`): `is_alive()` raises `ValueError`, which the API answers
with 500. The listing reads files in any order, and `close()` cancels in any order,
where the code sorts by creation time: one more choice, no behaviour lost. The sort
raises `KeyError` when a record has no `created_time`, which only `SubmitEmpty` writes;
`Open` ends the listing at that record already, since what would be read after it
changes nothing.

Removing an open file leaves its writer with a file without a name: `fd` becomes
FALSE and the writes go nowhere. `Written` keeps the rest of a longer text,
`Truncated` cuts it: that is how "Extra data" comes about. A record longer than
`Buffer` may be flushed in parts (`FlushPart`, `OverwritePart`), as one whose
`reason` quotes the whole input is: the parts that have gone are a text that does
not parse, and a process that ends then leaves it. If another writer, without the
same lock, writes between the parts of one text (`Crossed`), the file may be a mixture
of both, which `Dump` keeps as a text that is not whole; a text goes in two parts,
however long it is, and the first part has the length of the buffer.

An execution names an input, a results and a logs storage (`StorageOf`). The
models of the API accept `ibmcloud_cos`, for which `_get_storage` has no storage:
`Run` or `PutResults` then raises. `PutLogs` is the `finally` part, after the
outcome was recorded; a failed upload is swallowed. In an execution that found its
service closed, `finally` raises (line 813 reads a variable that is not bound):
`Run` takes it from `ready` to `done`, without a record. As `close()` waits for the
threads, no execution gets there.

### QSARestart and the code

`Crash(s)` ends the API process of `s` at any point and puts a new one in its place, as
uvicorn's supervisor does: the calls in progress, the registry and the lock are gone,
`__init__` starts with empty ones, files and workers stay (threads of a library user do
not). It may follow a `close()` too. `SpawnFails(c)` is `process.start()` raising
(643-652): the submitter gets an exception, the record stays as created. `Vanish(t)` is
the loss of a worker that nobody sent SIGTERM; `Die(t)`, its end after SIGTERM, is part
of `QSAService`. `Interrupt(t)` is Ctrl+C, which reaches the workers of a server in the
foreground too: `KeyboardInterrupt` is no `Exception`, so that no Failed is written
(806); the `with` statement closes the file, which flushes what is in its buffer and
cuts nothing; and `finally` uploads the logs (812) of a job that still says Running. The
history variable `lost` collects the submissions whose execution, or a call that creates
or cancels them, was ended by a fault, and `cancelled` those that may have two writers
without a common lock. The code recovers nothing, so that a job that was hit may stay
Running; the properties say that no other is harmed.

### ApiAccess and the code

`main` follows `main()` of `app.py` (`Start` is the test for the key file,
`OpenKeyFile` and `DumpKey` make it); `Stop` ends the server anywhere, with its
API processes. `Spawn` and `Lose` stand for uvicorn, which starts its workers and
replaces those that ended (external). `LoadKey` is the end of `_create_fastapi`.
`GetAccessToken`, `GetIamAccessToken`, `VerifyBearer` and `VerifyOther` are the
routes and `verify_token`. `jwt` is external: it keeps `exp` in whole seconds,
rounded down, and refuses a token once `exp` is reached.

## Runs

| Run | What it asks | Instance | Result |
| --- | ------------ | -------- | ------ |
| `thread_unique` | `TypeOK`, `StatusReadsParse`, `CompletedHasResults`, `FollowsLifecycle` | threads, 2 clients, 2 submissions with ids of their own, records of different length, storages that exist and that do not, all five operations, a known and an unknown program | holds (618,000 states) |
| `thread_reuse` | `RunningIsOwned`, `OpenWClobbersNothing`, `LogsFollowOutcome`, `DeletesNoneFoundRunning` | threads, 3 clients, one id for both submissions, all operations, known, unknown and empty programs, records flushed in parts | holds (3,600,000) |
| `thread_close` | `StatusReadsParse`, `ClosedServiceIsSilent`, `RunningJobsEnd`, `RequestsAreAnswered` | threads, 2 clients, 1 submission whose outcome is flushed in parts, `close()` at any time and calls after it, fair | holds (21,000) |
| `process_close` | `RunningIsOwned`, `LaneOvershootIsBounded`, `ClosedLeavesNoneRunning` | worker processes, limit of 1 lane, 4 submissions, one of them for an unknown backend, deletions, reservations, `close()`, which cancels | holds (1,350,000) |
| `api_workers` | `RTypeOK`, `OnlyFaultsStrand`, `OnlyFaultsSpoil`, `LogsFollowOutcomeOrFault`, `SparedJobsEnd`, `RequestsAreAnswered` | 2 API processes with a client each, 1 submission with logs, cancellations; one API process is closed or crashes, any number of times; failing starts, lost and interrupted workers; fair | holds (138,000) |
| `api_access` | `TypeOK`, `WorkersShareKey`, `AnswersFollowTtl` | 2 API processes, tokens of 2 seconds, half-second clock up to 3.5 seconds | holds (57,000) |
| `lock_not_shared` | `StatusReadsParse` | worker processes, 1 submission | violated |
| `lane_limit_race` | `LaneLimit` | limit of 1 lane, 2 submissions | violated |
| `deletes_running_job` | `DeletesOnlyTerminated` | worker processes, 2 clients, one id for 2 submissions | violated |
| `deleted_job_reappears` | `OnlySubmissionsCreate` | threads, 1 submission | violated |
| `listing_fails` | `ListingsSucceed` | 1 API process, 1 submission | violated |
| `key_file_crash` | `WorkersFindKey` | as `api_access` | violated |

Why the bounds are enough to be of interest. Every hazard listed involves two
or three processes: two clients and two executions give all pairs (two writers,
writer and reader, canceller and deleter, canceller and execution) and with the
client that submitted, triples; `thread_reuse` has a third client, for a submitter,
a canceller and a deleter of one id. One id used twice gives an old and a new
execution of it. Sizes 1 and 9 make any record of `t2` longer than any of `t1`,
the case where a shorter text leaves a rest. A limit of one lane with
four submissions, three of them for one backend, has it reached, overshot by two
clients at once, and freed again by a deletion. `process_close` has no client that
cancels, since with one the run is too large: `close()` cancels there, and clients do
in `api_workers`, both at the API process that started the worker and at another one,
which does not have it in its registry. `api_workers` has one submission, which is all
that its properties relate: they say of each job that a fault elsewhere leaves it alone,
and the theorems say so for any number of submissions. What it checks with one is
each fault at each step of the submission, the execution, a cancellation and a
`close()`.

`Buffer = 99` is a buffer that every record fits. In `thread_reuse` the records of `t2`
and any Failed record are longer than the buffer, in `thread_close` the record of an
outcome. `thread_unique` keeps 99, because its refinement mapping takes a text that is
not complete for no record; so does `api_workers`, where two writers without a common
lock could alternate their first parts for ever, which no file buffer does. A worker
that is killed between two parts of a record is therefore not in a run (an interrupted
one is, `Interrupt` may flush any part of the text); such a record counts as not Running
in `SparedJobsEnd`, and as unreadable in `OnlyFaultsSpoil`, whose theorem has every size
of the buffer. `MaxTime` of `api_access` lets a token be issued in the middle of a
second, expire, and be shown after that; two keys are enough for a server that would
make a second one.

Symmetry is used for clients of one API process, and in `process_close` for
submissions to one backend together with their ids; runs with liveness use none.
`VIEW` leaves out of the states `reply`, where no action reads it and no property of
the run names it, and in `api_workers` also what is stored but for the logs, and of
`cancelled` what is in `lost` too, which its property does not tell apart.
`CHECK_DEADLOCK FALSE` is in `process_close` alone:
the closed API serves nothing and stops.

### Fairness

`FairSpec` has strong fairness of the steps of each client, execution and closing
service. Weak fairness would do for a process that stays able to move (the
operating system schedules every thread). Strong fairness is there for the
lock: a thread that waits for an `RLock` which is released again and again gets
it at some time. No fairness is assumed of new requests, of `Die` or of
`StartClose`. `RFairSpec` of `QSARestart` assumes the same and no fairness of any
fault. `RunningJobsEnd` and `SparedJobsEnd` hold without fairness of `Die`, because
a worker that is not killed ends by itself. What is assumed of the world outside is
that the storages answer: fairness of `Run`, `PutResults` and `PutLogs` says that each
get and put returns or raises at some time. The calls of `urllib3` in `S3Compatible`
(126-137) have no timeout of their own, so that a storage which accepts a connection
and stays silent would keep a job Running, and a `close()` of the library waiting, for
as long as it does.

### Violations

Each says something the repository says and the code does not do.

1. `lock_not_shared`: a canceller and a worker are between open and truncate of
   one file, and a reader meets trailing characters. The comment at
   `qsa_service.py:237-240` describes that error and the lock that is to prevent it.
2. `lane_limit_race`: two submissions count before either creates its record.
3. `deletes_running_job`: two deletions both find the old job terminated, one removes
   it, the id is submitted again, and the other one removes the new record, which says
   Running. The route says "Deletes a job if it has terminated." (`v1/job.py:238`).
   What does hold for every use of ids is `DeletesNoneFoundRunning`: the submission
   that `delete_job` found ended does not run again.
4. `deleted_job_reappears`: the expected status is not compared when the file is
   missing, so an execution that ends after cancel and delete creates the record.
5. `listing_fails`: the file goes between `isfile()` and `open()`; the request
   ends with 500.
6. `key_file_crash`: a server stopped between creating and filling the key file
   leaves a file that every later start takes for a key.

What the models also show, without a run of its own:

- A cancelled job may become Failed: its execution fails to report Completed and
  then reports Failed, which compares nothing. `JobLifecycle` has this as
  `LateFailure`; `v1/models.py:729` speaks of `end_time` as the time at which a
  terminal status was reached.
- With ids used again after a deletion, the older execution may write its
  result over the record of the newer submission, and a shorter Failed over a
  longer record leaves trailing characters even among threads.
- The id check of `execute_job` (`errors.py`, `DuplicateJobError`) is under the
  lock of one API process: two API processes may both accept an id.
- The logs need not be there when a job has ended: they are uploaded after the
  outcome, by an execution that may be killed in between.
- `close()` ends at the first `cancel_job` that raises, for instance because a
  job ended by itself meanwhile. The label `broken` is that end;
  `ClosedLeavesNoneRunning` speaks of the label `closed`.
- `expiration` of `POST /identity/token` (`authentication.py:161`) is computed by
  `timestamp()` of a naive UTC time, which takes it for local time: it equals
  `exp` only where local time is UTC. The configuration table of
  `docs/simulator/README.md:122` names `shared_token`, the code reads
  `shared_tokens`. Unknown API keys are answered with 400, where the route
  declares 401.

## Proofs

All leaves are checked by TLAPS; nothing is assumed except the named `ASSUME`s on
constants (`ProcsAssumption`, `SubmissionsAssumption`, `BaseSizeAssumption`,
`KeysAssumption`, `TimeAssumption`), which TLC evaluates in the runs.

- `TypeCorrect`: `Spec => []TypeOK` of `QSAService`, for every number of clients,
  instances, submissions and ids, threads or processes. It is inductive as
  stated, because `TypeOK` is more than types: `CallerTypeOK` says which locals a
  process has at which label (a canceller at `update` has a record to write), and
  `HandleOK` that an open file which was not removed is in the directory and that
  its opener is at a label where it writes. `HandleOK` is what keeps `Written`
  from being applied to a missing file.
- `CompletedJobsHaveResults`: `Spec => []CompletedHasResults`. Not inductive by
  itself: a file gets its record from the hands of a process. `ResultsInHand`
  adds that an execution at `update`, or with a Completed record, has its results
  stored, and that no caller holds a Completed record, because `cancel_job`
  refuses terminated jobs. `ResultsFrame` does the common part of all actions.
- `LogsComeLast` (module `QSAWritersProofs`): `Spec => []LogsFollowOutcome`, for threads
  and processes and any use of ids. It needs to know what every writer has in hand,
  `WriterInv`: records are in the files of their ids (`Ids`); what each kind of process
  writes has the status of its kind, and a submission stands where its execution
  stands and nobody else submits it (`Locals`); and a record that reports an outcome
  is not reported on again (`Reported`). `ThreadInv` and everything below rest on it.
- `ThreadsOwnRunning`, `ThreadsClobberNothing`, `CloseEndsEveryJob`, `ClosedIsFinal`
  (module `QSAThreadsProofs`): `RunningIsOwned`, `OpenWClobbersNothing`,
  `ClosedLeavesNoneRunning` and `ClosedServiceIsSilent` for a service used as a
  library (`OneLock`: one instance, threads), any number of callers and submissions
  and any use of ids. All four follow from one inductive invariant, `ThreadInv`,
  beside `WriterInv` (above):
  - `Mutex`: whoever is in a "with self._status_lock" block holds the lock;
  - `Handles`: what the holder of the lock saw in the directory stays so, but for
    a removal: a file it found missing is missing, and a file it is about to cut
    holds its record;
  - `Quiet`: no call is under way while `close()` runs, and no thread once it has
    waited for them;
  - `RunningBy`: a record that says Running has an execution that has not written
    its end, or is still being submitted (`Underway`).

  The last is not provable without the others: an execution ends `Underway` by its
  last write, and only `Handles` and `Mutex` tell that the record this write leaves
  is its own (`WritingEnds`). The lemmas `SubmitterMoves`, `CancellerMoves` and
  `ExecutionMoves` list the steps of each kind of process once, `FileMoves` what a
  step does to a file; the step lemmas rest on these rather than on the actions.
- Module `QSAOnceProofs`, for threads and processes. The first two hold for any use of
  ids:
  - `DeletedJobsHaveEnded`: `Spec => DeletesNoneFoundRunning`. `OnceInv` says that
    nobody but its submitter knows of a submission until the record is written in full
    (`Unknown`), and that a deleter which has passed its check of the status holds
    a submission whose record will not say Running again (`Deletable`);
  - `LanesAreBounded`: `Spec => []LaneOvershootIsBounded`, for processes, any finite
    number of clients, any number of API processes, backends and any limit, with
    deletions, cancellations and closes. A listing takes many steps, in which jobs end,
    are deleted and make room for others; so the invariant `Room` is not about the jobs
    a listing counted but about every set of running jobs: with the clients that are
    about to enter beside that set (`Entering`), it has fewer than the limit and the
    clients together. Only running jobs are counted, because the record of a deleted
    job may come back uncounted, when it has ended (`deleted_job_reappears`).

  The others are for submissions with ids of their own (`OneIdEach`). Clients choose
  the ids, so this is an assumption about clients and not a guarantee of the code:
  - `WorkersOwnRunning`: `Spec => []RunningIsOwned` for worker processes, any number of
    API processes, deletions and closes. `Tended(t)` says that whatever took the
    execution of `t` away while its record says Running is on its way to replace the
    record and will not be stopped by what it finds: the text parses (`Readable`),
    the status is the expected one (`Killed`, `Reread`), and the file of a new
    record is its submitter's (`Writable`). It holds job by job, which is what the
    theorem with faults needs;
  - `CloseCancelsEveryJob`: `Spec => []ClosedLeavesNoneRunning` for worker processes and one
    API process (`OneServer`; with several, another one may start a job after the
    close). `Swept` says that the jobs which still run are those `close()` has ahead
    of it; it needs `Tended`, because a cancellation that loses a race with the end of
    its job goes on only if the record is no longer Running.
- Module `QSALifecycleProofs`, for threads with one lock and ids submitted once:
  - `ThreadsReadWholeTexts`: `Spec => []StatusReadsParse`, for texts of any length and
    buffers of any size. `Texts` says that a text which does not parse is being
    written, by the holder of the lock if `Mutex` holds; `Lengths`, that nothing of an
    older text is left behind a new one unless it is cut next. The failure, which is
    written without a cut, is why: it is longer than what it replaces;
  - `ThreadsFollowLifecycle`: `Spec => FollowsLifecycle`, the refinement of
    `JobLifecycle`, whose mapping is `StatusOf`. Initial states map to the abstract one
    (`InitMaps`), a step of each kind of process maps to a step of the lifecycle of one
    job or to none (`StepMaps`, from one lemma for each kind of step). The mapping takes
    a text that is not complete for no record, where no reader sees the difference
    because of the lock; so the theorem assumes that a record fits the buffer
    (`FitsBuffer`), and that programs have a name (`NeverEmpty`), as `thread_unique` has
    it.
- Module `QSARestartProofs`, for `RSpec`: any number of API processes that crash at any
  point and are started again, workers that fail to start, are lost or interrupted:
  - `RestartTypeCorrect` and `CompletedSurvivesRestarts`: the types and the results once
    more, for any use of ids. The steps of `QSAService` are covered by the step lemmas
    above, a lemma for each fault does the rest;
  - `LogsComeLastWithFaults`: `RSpec => []LogsFollowOutcomeOrFault`, for any use of ids.
    `LogsFollowOutcome` itself is false with Ctrl+C, whose logs are stored beside a
    Running record; `FaultInv` is `WriterInv` with those executions left out;
  - `FaultsStrandTheirOwn`: `RSpec => []OnlyFaultsStrand`, for worker processes and ids
    submitted once. `Tended(t)` is kept for every `t` that is not in `lost`: a fault that
    leaves `t` out moves nothing that `Tended(t)` speaks of (`FaultsSpare`);
  - `FaultsSpoilTheirOwn`: `RSpec => []OnlyFaultsSpoil`, for the same, with cancellations,
    deletions and closes, and buffers of any size. `Sound(t)` says that
    the file is complete or is being written, and that what is written is no shorter
    than what was there. It is kept for every `t` that is neither in `lost` nor in
    `cancelled`: the API and the worker share no lock, so that a cancelled job has two
    writers, one of which may cut or overwrite what the other has just written. That
    nobody else ever has the record of `t` in hand to write it is `Uncancelled(t)`.
- `AccessTypeCorrect`: `Spec => []TypeOK` of `ApiAccess`.
- `KeyIsShared`: `Spec => []WorkersShareKey` of `ApiAccess`. The invariant
  `KeyFileKept` says that a serving process has the key in the file, that every
  token was signed with it, and that no token exists while the file is made.
- `TokensLiveTheirTtl`: `Spec => []AnswersFollowTtl`, for every time to live and
  resolution of the clock, from `KeyFileKept` and from `ExpirationOK`, the two
  inequalities that the rounding of `exp` leaves between issuing and expiration.

The assumptions of the theorems about the instance are met by the runs that check
the same properties: for each property of a passing run a theorem covers that
instance (`thread_reuse`, which uses an id twice, by those that allow any use of ids).

Every invariant and action property of a passing run is stated by a theorem.
Only model-checked: liveness and everything under fairness (`RunningJobsEnd`,
`SparedJobsEnd`, `RequestsAreAnswered`), which is beyond TLAPS, and the six violations.
Neither proved nor checked is what worker processes keep when an id is submitted
again, but for types, results, logs, deletions and lanes: two executions may then
write one file without a common lock. That a job has an owner and ends, that a close
leaves none Running and that files stay readable is shown for processes under
`OneIdEach` alone.

## Not modelled

- What is computed: decoding of inputs, backends, simulation, encoding of
  results. An execution succeeds or fails at `Run` and at `PutResults`.
- The contents and the protocol of the storages; a put is one step, which succeeds,
  or raises with the data stored or not.
- Calls of a library user that are still under way when another thread calls
  `close()`, and calls after a `close()` that raised, whose service stays active:
  the API makes neither.
- Two servers in one directory (`run.sh` refuses the second); two of them could
  each make a key.
- The field `expiration` of an IAM token, which no part of the program reads.
- The backend routes: lookups in a catalogue that never changes, without state,
  concurrency or failure. The part `run_job` uses is the constant `Backends`.
- Request and response models, JSON encoders and decoders, logging: declarations
  and pure conversions, mostly of types of the Qiskit libraries.
- `timeout_secs` of a job, which the API documents as not supported and the code
  ignores.
- The order of `get_jobs`, the wording of errors, log lines.

## Plan

The order in which the project grows:

1. Done: `StatusFile`, `QSAService`, `JobLifecycle`, `ErrorResponses`,
   `ApiAccess`, with their runs.
2. Done: records flushed in parts, storages and logs, the empty program, calls
   after `close()`; `QSARestart` with crashes, failing starts and lost workers.
3. Done: the theorems on types, results, threads and the access to the API.
4. Done: `StatusReadsParse`, `DeletesNoneFoundRunning` and the refinement of
   `JobLifecycle` for ids submitted once.
5. Done: worker processes and faults: who ends a job, what `close()` leaves, how far
   the limit of lanes is overshot, whom a fault harms.
6. Done: deletions and lanes for any use of ids, lanes with deletions; Ctrl+C, and
   files that stay readable although jobs are cancelled.
7. Left: `DeletesNoneFoundRunning` and the bound on lanes with crashing API processes.
   For the first, `Unknown` has to allow for the partial record of a submitter
   that crashed, which nobody can read; for the second, crashes only take
   clients away. And ids used again by worker processes, where a weaker `Tended`
   would have to say which execution's record survives.
