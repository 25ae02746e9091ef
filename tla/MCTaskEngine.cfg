\* Two tasks, every replay policy, two priorities, up to six saves each.
SPECIFICATION Spec
CONSTANTS
    Tasks = {t1, t2}
    MaxBudget = 2
    MaxProgress = 2
    MaxRevision = 6
    MaxCommands = 4
    Payloads <- PolicyPayloads
SYMMETRY Symmetry
INVARIANTS EventsReplayToRow ReceiptsMatchEffects AttemptRowsMatchTask
    OverBudgetOnlyByInterruption
PROPERTY ImplementsLedger
CHECK_DEADLOCK FALSE
