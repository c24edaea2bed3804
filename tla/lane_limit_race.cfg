\* Concurrent submissions against a limit of one lane.
SPECIFICATION Spec
CONSTANTS
    c1 = c1  c2 = c2  c3 = c3  s1 = s1  s2 = s2  t1 = t1  t2 = t2  t3 = t3  t4 = t4
    j1 = j1  j2 = j2  j3 = j3  j4 = j4  b1 = b1  b2 = b2  Nil = Nil
    Clients = {c1, c2}
    Services = {s1}
    Main = s1
    Home <- OneHome
    Tasks = {t1, t2}
    Jobs = {j1, j2}
    JobId <- UniqueIds
    BackendOf <- OneBackend
    StorageOf <- S3
    Backends = {b1}
    Buffer = 99
    BaseSize <- Sizes
    MaxLanes = 1
    MultiProcess = TRUE
    Requests = {"submit"}
    Programs = {"sampler", "unknown"}
    ReasonSizes = {1}
    Reservations = FALSE
    Stoppable = {}
INVARIANTS
    LaneLimit
