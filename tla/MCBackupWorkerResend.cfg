\* Is every upload that gives up cancelled durably?
SPECIFICATION Spec
CONSTANTS
    Assets = {a1}
    Hosts = {h1}
    None = None
    MaxRevision = 6
    MaxStarts = 1
    PollWake = TRUE
    OutboxFailsAt = {}
    MayResend = TRUE
    MayReopen = FALSE
    SilentAssets = {}
SYMMETRY Symmetry
INVARIANTS CancelledUploadIsDurable
CHECK_DEADLOCK FALSE
