\* The server stops between the creation of the key file and its content.
SPECIFICATION Spec
CONSTANTS
    w1 = w1  w2 = w2  k1 = k1  k2 = k2
    Workers = {w1, w2}
    Keys = {k1, k2}
    Ttl = 2
    TicksPerSecond = 2
    AuthEnabled = TRUE
    MaxTime = 7
    Nil = Nil
    Unfinished = Unfinished
INVARIANTS
    WorkersFindKey
