\* One host, two workers, two tasks, a restart after a crash or a shutdown,
\* handlers that come and go.
SPECIFICATION Spec
CONSTANTS
    t1 = t1  t2 = t2  w1 = w1  w2 = w2  h1 = h1  h2 = h2
    None = None
    Tasks = {t1, t2}
    MaxBudget = 2
    Kinds <- OneKind
    KindOf <- AllMedia
    Hosts = {h1}
    Workers = {w1, w2}
    HostOf <- SameHost
    NewTasks <- SafeTwice
    MaxStarts = 2
    FallbackWake = TRUE
    StoreMayFail = FALSE
    MayUnregister = TRUE
SYMMETRY TaskAndWorkerSymmetry
INVARIANTS OneHandlerPerTask RunningHasOwner NoLostWakeup
PROPERTIES CancelMissesOnlyUnregistered
CHECK_DEADLOCK FALSE
