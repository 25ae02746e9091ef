\* One host, two assets: commands, reviews, shutdown, crash and
\* restart; uploads may fail for ever.
SPECIFICATION EndlessSpec
CONSTANTS
    Assets = {a1, a2}
    Hosts = {h1}
    None = None
    MaxRevision = 4
    MaxStarts = 2
    PollWake = TRUE
    OutboxFailsAt = {"claiming"}
    MayResend = FALSE
    MayReopen = TRUE
    SilentAssets = {a2}
INVARIANTS UploadingHasUploader NoLostWakeup
PROPERTIES DueIsClaimed ShutdownEnds
CHECK_DEADLOCK FALSE
