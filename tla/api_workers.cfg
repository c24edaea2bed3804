\* Two API processes (api_workers = 2), each with its lock and its registry, under
\* fair scheduling.  One of them is closed or crashes, and is started again, any
\* number of times; the worker process may be lost, interrupted or not start.
SPECIFICATION RFairSpec
CONSTANTS
    c1 = c1  c2 = c2  c3 = c3  s1 = s1  s2 = s2  t1 = t1  t2 = t2  t3 = t3  t4 = t4
    j1 = j1  j2 = j2  j3 = j3  j4 = j4  b1 = b1  b2 = b2  Nil = Nil
    Clients = {c1, c2}
    Services = {s1, s2}
    Main = s1
    Home <- TwoHomes
    Tasks = {t1}
    Jobs = {j1}
    JobId <- SameId
    BackendOf <- OneBackend
    StorageOf <- AllWithLogs
    Backends = {b1}
    Buffer = 99
    BaseSize <- Sizes
    MaxLanes = 5
    MultiProcess = TRUE
    Requests = {"submit", "cancel"}
    Programs = {"sampler"}
    ReasonSizes = {1}
    Reservations = FALSE
    Stoppable = {s1}
    Crashable = {s1}
INVARIANTS
    RTypeOK
    OnlyFaultsStrand
    OnlyFaultsSpoil
    LogsFollowOutcomeOrFault
PROPERTIES
    SparedJobsEnd
    RequestsAreAnswered
VIEW WithoutRepliesR
