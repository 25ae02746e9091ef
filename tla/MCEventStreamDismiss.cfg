\* Does a gap whose error was dismissed come back by itself?
SPECIFICATION FairSpec
CONSTANTS
    Workspaces = {w1}
    PageSize = 1
    Attempts = 2
    MaxEvents = 2
    MaxStarts = 1
    MayLose = TRUE
PROPERTIES
    DismissedGapComesBack
