\* Threads that share one lock, three callers, and two submissions that ask for the
\* same id; records longer than the buffer of a file.
SPECIFICATION Spec
CONSTANTS
    c1 = c1  c2 = c2  c3 = c3  s1 = s1  s2 = s2  t1 = t1  t2 = t2  t3 = t3  t4 = t4
    j1 = j1  j2 = j2  j3 = j3  j4 = j4  b1 = b1  b2 = b2  Nil = Nil
    Clients = {c1, c2, c3}
    Services = {s1}
    Main = s1
    Home <- OneHome
    Tasks = {t1, t2}
    Jobs = {j1}
    JobId <- SameId
    BackendOf <- OneBackend
    StorageOf <- WithLogs
    Backends = {b1}
    Buffer = 4
    BaseSize <- Sizes
    MaxLanes = 5
    MultiProcess = FALSE
    Requests = {"submit", "get", "list", "delete", "cancel"}
    Programs = {"sampler", "unknown", "empty"}
    ReasonSizes = {4}
    Reservations = FALSE
    Stoppable = {}
INVARIANTS
    RunningIsOwned
    OpenWClobbersNothing
    LogsFollowOutcome
PROPERTIES
    DeletesNoneFoundRunning
VIEW WithoutReplies
SYMMETRY ClientsAlike
