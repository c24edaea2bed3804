\* The library's service is closed while jobs are queued and running, under fair
\* scheduling; it then refuses every call.  The outcome of an execution does not fit
\* the buffer of a file.
SPECIFICATION FairSpec
CONSTANTS
    c1 = c1  c2 = c2  c3 = c3  s1 = s1  s2 = s2  t1 = t1  t2 = t2  t3 = t3  t4 = t4
    j1 = j1  j2 = j2  j3 = j3  j4 = j4  b1 = b1  b2 = b2  Nil = Nil
    Clients = {c1, c2}
    Services = {s1}
    Main = s1
    Home <- OneHome
    Tasks = {t1}
    Jobs = {j1}
    JobId <- SameId
    BackendOf <- OneBackend
    StorageOf <- S3
    Backends = {b1}
    Buffer = 2
    BaseSize <- Sizes
    MaxLanes = 5
    MultiProcess = FALSE
    Requests = {"submit", "get", "list", "delete", "cancel"}
    Programs = {"sampler"}
    ReasonSizes = {1}
    Reservations = FALSE
    Stoppable = {s1}
INVARIANTS
    StatusReadsParse
PROPERTIES
    ClosedServiceIsSilent
    RunningJobsEnd
    RequestsAreAnswered
