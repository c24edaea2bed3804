\* The deployed API: one API process, whose tasks are worker processes with locks
\* of their own, is stopped while workers run; it then serves no further request,
\* so that the system may stop.  Reservations are simulated, and one submission asks
\* for a backend that does not exist.
SPECIFICATION Spec
CONSTANTS
    c1 = c1  c2 = c2  c3 = c3  s1 = s1  s2 = s2  t1 = t1  t2 = t2  t3 = t3  t4 = t4
    j1 = j1  j2 = j2  j3 = j3  j4 = j4  b1 = b1  b2 = b2  Nil = Nil
    Clients = {c1, c2}
    Services = {s1}
    Main = s1
    Home <- OneHome
    Tasks = {t1, t2, t3, t4}
    Jobs = {j1, j2, j3, j4}
    JobId <- FourIds
    BackendOf <- FourthBackendUnknown
    StorageOf <- S3
    Backends = {b1}
    Buffer = 99
    BaseSize <- Equal
    MaxLanes = 1
    MultiProcess = TRUE
    Requests = {"submit", "delete"}
    Programs = {"sampler"}
    ReasonSizes = {1}
    Reservations = TRUE
    Stoppable = {s1}
INVARIANTS
    RunningIsOwned
    LaneOvershootIsBounded
    ClosedLeavesNoneRunning
SYMMETRY AllAlike
VIEW WithoutReplies
CHECK_DEADLOCK FALSE
