\* Two processes over one database, one worker each, one task; the engine
\* may fail.  Safety and liveness.
SPECIFICATION FairSpec
CONSTANTS
    t1 = t1  t2 = t2  w1 = w1  w2 = w2  h1 = h1  h2 = h2
    None = None
    Tasks = {t1}
    MaxBudget = 1
    Kinds <- OneKind
    KindOf <- AllMedia
    Hosts = {h1, h2}
    Workers = {w1, w2}
    HostOf <- HostEach
    NewTasks <- SafeAndManual
    MaxStarts = 2
    FallbackWake = TRUE
    StoreMayFail = TRUE
    MayUnregister = FALSE
INVARIANTS OutcomeFromOwnHandler StoppedLeavesNothingRunning
PROPERTIES RunnableIsClaimed ShutdownEnds
CHECK_DEADLOCK FALSE
