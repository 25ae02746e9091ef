SPECIFICATION FairSpec
CONSTANTS
    Workers = {w1, w2}
    None = None
    MaxRevision = 7
INVARIANTS
    ReportShowsDecisions
    CancelReachesWorker
PROPERTIES
    DecisionsSurvive
    
CHECK_DEADLOCK FALSE
