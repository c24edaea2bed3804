\* One server with two API processes, stopped and started again at any point;
\* tokens of two seconds, on a clock of half seconds.
SPECIFICATION Spec
CONSTANTS
    w1 = w1  w2 = w2  k1 = k1  k2 = k2
    Workers = {w1, w2}
    Keys = {k1, k2}
    Ttl = 2
    TicksPerSecond = 2
    AuthEnabled = TRUE
    MaxTime = 7
    Nil = Nil
    Unfinished = Unfinished
INVARIANTS
    TypeOK
    WorkersShareKey
    AnswersFollowTtl
SYMMETRY KeysAndWorkersAlike
