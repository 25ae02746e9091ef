\* Two events, pages of one, a second start; reads and events may be lost.
SPECIFICATION FairSpec
CONSTANTS
    Workspaces = {w1}
    PageSize = 1
    Attempts = 2
    MaxEvents = 2
    MaxStarts = 2
    MayLose = TRUE
INVARIANTS
    NothingMissed
PROPERTIES
    SilencedOnlyByUser
    ImplementsFeed
    AllArrive
