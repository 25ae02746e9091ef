\* One asset, a clock of three instants, a delay that doubles once.
SPECIFICATION Spec
CONSTANTS
    Assets = {a1}
    Base = 1
    MaxDelay = 2
    MaxTime = 3
    MaxRevision = 6
    MaxCommands = 3
INVARIANTS EventsReplayToRow BackoffRespected CancelSticks
    ReceiptsMatchEvents
PROPERTY ImplementsLedger
CHECK_DEADLOCK FALSE
