----------------------------- MODULE BackupWorker -----------------------------
(***************************************************************************)
(* The upload thread of src-tauri/src/r2_backup.rs over the backup ledger, *)
(* with the main thread that commits backup commands and then signals the  *)
(* thread (execute_backup_command in lib.rs), start, shutdown and crash.   *)
(*                                                                         *)
(* A host is one process with one upload thread.  An uploader's step ends  *)
(* where it takes or releases a lock, commits to SQLite or talks to the    *)
(* bucket.  Its token is in the map active_uploads while it is at          *)
(* "uploading", so the map is the uploaders' token fields.                 *)
(***************************************************************************)
EXTENDS Naturals, Sequences, SequencesExt

CONSTANTS
    Assets,
    Hosts,          \* processes over the one database
    None,           \* no asset
    MaxRevision,    \* bound: no disturbance of a row beyond this revision
    MaxStarts,      \* bound: process starts
    PollWake,       \* does the wait of the thread time out?
    OutboxFailsAt,  \* the steps at which the uploader's call of the outbox may fail
    MayResend,      \* does a client send a committed command again?
    MayReopen,      \* does a contract review open the outbox while it runs?
    SilentAssets    \* the assets that threads queue which do not signal

ASSUME WorkerAssumption ==
    /\ None \notin Assets /\ MaxRevision \in Nat /\ MaxStarts \in Nat
    /\ OutboxFailsAt \subseteq {"claiming", "returned", "marking"}
    /\ {PollWake, MayResend, MayReopen} \subseteq BOOLEAN
    /\ SilentAssets \subseteq Assets

VARIABLES
    backup,     \* the asset_backups table, as BackupLedger sees it
    line,       \* the assets due for upload, in the order of next_attempt_at
    uploader,   \* [pc, asset, revision, token, result] of each host
    wake,       \* of each host: wake_requested
    phase,      \* of each host, see Phases
    notice,     \* of each host: a committed command not yet signalled
    sent,       \* the commands committed so far
    starts      \* process starts so far

vars == <<backup, line, uploader, wake, phase, notice, sent, starts>>

L == INSTANCE BackupLedger

(* down: never started; flagged: shutdown has set its flag; joining: it    *)
(* has canceled the token it found; stopped: the thread is joined.         *)
Phases == {"down", "up", "flagged", "joining", "stopped", "crashed"}

Command == [type : {"queue", "retry", "cancel"}, asset : Assets]

NoNotice == [type |-> "none", asset |-> None]

At(pc) == [pc |-> pc, asset |-> None, revision |-> 0, token |-> "none", result |-> "none"]

Init ==
    /\ L!Init
    /\ line = <<>>
    /\ uploader = [h \in Hosts |-> At("off")]
    /\ wake = [h \in Hosts |-> FALSE]
    /\ phase = [h \in Hosts |-> "down"]
    /\ notice = [h \in Hosts |-> NoNotice]
    /\ sent = {}
    /\ starts = 0

ShuttingDown(h) == phase[h] \in {"flagged", "joining", "stopped"}

(* An asset is in the line at most once.                                   *)
Without(a) ==
    IF Contains(line, a) THEN RemoveAt(line, CHOOSE i \in 1..Len(line) : line[i] = a)
    ELSE line

Joins(a) == line' = Append(Without(a), a)

Leaves(a) == line' = Without(a)

(* Room for one more disturbance and the claim and report that follow.     *)
Room(a) == backup[a].revision < MaxRevision

-------------------------------------------------------------------------------
(***************************************************************************)
(* The upload thread: run_worker_loop, process_once, process_claimed.      *)
(***************************************************************************)
Set(h, state) ==
    /\ uploader' = [uploader EXCEPT ![h] = state]
    /\ UNCHANGED <<phase, notice, sent, starts>>

Goto(h, pc) == Set(h, [uploader[h] EXCEPT !.pc = pc])

(* Mutant: the loop does not look at the shutdown flag.                    *)
NeverLookAtShutdown(h) ==
    /\ uploader[h].pc = "top"
    /\ Goto(h, "claiming")
    /\ UNCHANGED <<backup, line, wake>>

CheckShutdown(h) ==
    /\ uploader[h].pc = "top"
    /\ Goto(h, IF ShuttingDown(h) THEN "off" ELSE "claiming")
    /\ UNCHANGED <<backup, line, wake>>

(* Mutant: the claim takes any asset that is due.                          *)
ClaimInAnyOrder(h) ==
    /\ uploader[h].pc = "claiming"
    /\ \E a \in ToSet(line) :
          /\ L!Claim(a)
          /\ Set(h, [At("claimed") EXCEPT !.asset = a, !.revision = backup[a].revision + 1])
          /\ Leaves(a)
    /\ UNCHANGED wake

(* The asset that has been due longest is claimed.                         *)
Claim(h) ==
    /\ uploader[h].pc = "claiming"
    /\ line # <<>>
    /\ \E a \in Assets :
          /\ a = Head(line)
          /\ L!Claim(a)
          /\ Set(h, [At("claimed") EXCEPT !.asset = a, !.revision = backup[a].revision + 1])
    /\ line' = Tail(line)
    /\ UNCHANGED wake

NothingToClaim(h) ==
    /\ uploader[h].pc = "claiming"
    /\ line = <<>>
    /\ Goto(h, "waiting")
    /\ UNCHANGED <<backup, line, wake>>

(* register_upload looks at the shutdown flag, and then enters the map.    *)
RegisterUpload(h) ==
    /\ uploader[h].pc = "claimed"
    /\ Set(h, [uploader[h] EXCEPT !.pc = "registering",
                  !.token = IF ShuttingDown(h) THEN "canceled" ELSE "live"])
    /\ UNCHANGED <<backup, line, wake>>

EnterMap(h) ==
    /\ uploader[h].pc = "registering"
    /\ IF uploader[h].token = "canceled"
       THEN Set(h, [uploader[h] EXCEPT !.pc = "returned", !.result = "cancelled"])
       ELSE Goto(h, "uploading")
    /\ UNCHANGED <<backup, line, wake>>

(* The upload is stored, or fails, or sees that its token is canceled.     *)
UploadEnds(h) ==
    /\ uploader[h].pc = "uploading"
    /\ \E result \in {"stored", "error", "cancelled"} :
          /\ result = "error" => Room(uploader[h].asset)
          /\ result = "cancelled" => uploader[h].token = "canceled"
          /\ Set(h, [uploader[h] EXCEPT !.pc = "returned", !.result = result])
    /\ UNCHANGED <<backup, line, wake>>

StillOwnsClaim(h) == L!Owns(uploader[h].asset, uploader[h].revision)

(* A cancelled upload leaves the row as it is: the cancellation has been   *)
(* committed, or the next start recovers the row.                          *)
CheckClaim(h) ==
    /\ uploader[h].pc = "returned"
    /\ IF uploader[h].result = "cancelled" \/ ~StillOwnsClaim(h)
       THEN Set(h, At("top"))
       ELSE Goto(h, "marking")
    /\ UNCHANGED <<backup, line, wake>>

(* mark_backed_up, mark_failed; a report that is refused is an error.      *)
Mark(h) ==
    LET a == uploader[h].asset
        r == uploader[h].revision
    IN  /\ uploader[h].pc = "marking"
        /\ IF uploader[h].result = "stored" THEN L!MarkBackedUp(a, r) ELSE L!MarkFailed(a, r)
        /\ Set(h, At("top"))
        /\ UNCHANGED <<line, wake>>

(* The loop is deferred by any error of the outbox.                        *)
OutboxError(h) ==
    /\ \/ uploader[h].pc = "marking" /\ ~StillOwnsClaim(h)
       \/ uploader[h].pc \in OutboxFailsAt
    /\ Set(h, At("deferred"))
    /\ UNCHANGED <<backup, line, wake>>

(* wait returns at shutdown, at a wake-up, or after the poll interval.     *)
Wait(h) ==
    /\ uploader[h].pc \in {"waiting", "deferred"}
    /\ ShuttingDown(h) \/ wake[h] \/ PollWake
    /\ wake' = [wake EXCEPT ![h] = FALSE]
    /\ Set(h, At("top"))
    /\ UNCHANGED <<backup, line>>

-------------------------------------------------------------------------------
(***************************************************************************)
(* The host's main thread.                                                 *)
(***************************************************************************)
MainIdle(h) == phase[h] = "up" /\ notice[h] = NoNotice

SetPhase(h, p) == phase' = [phase EXCEPT ![h] = p]

Uploading == {a \in Assets : backup[a].state = "uploading"}

(* Recovered rows get the same next_attempt_at: they join in any order.    *)
Recover ==
    /\ L!Recover
    /\ \E order \in SetToSeqs(Uploading) : line' = line \o order

(* Mutant: the thread is started over the rows as they are.                *)
StartUnrecovered(h) ==
    /\ phase[h] \in {"down", "stopped", "crashed"}
    /\ starts < MaxStarts
    /\ starts' = starts + 1
    /\ SetPhase(h, "up")
    /\ uploader' = [uploader EXCEPT ![h] = At("top")]
    /\ wake' = [wake EXCEPT ![h] = FALSE]
    /\ UNCHANGED <<backup, line, notice, sent>>

(* BackupOutbox::open recovers; then the upload thread is spawned.         *)
Start(h) ==
    /\ phase[h] \in {"down", "stopped", "crashed"}
    /\ starts < MaxStarts
    /\ starts' = starts + 1
    /\ Recover
    /\ SetPhase(h, "up")
    /\ uploader' = [uploader EXCEPT ![h] = At("top")]
    /\ wake' = [wake EXCEPT ![h] = FALSE]
    /\ UNCHANGED <<notice, sent>>

(* A contract review that completes opens the outbox for itself, on its    *)
(* own thread, in the same process.                                        *)
Reopen(h) ==
    /\ MayReopen /\ phase[h] = "up"
    /\ Uploading # {} /\ \A a \in Uploading : Room(a)
    /\ Recover
    /\ UNCHANGED <<uploader, wake, phase, notice, sent, starts>>

(* A business tool or a contract review queues an asset and signals nobody.*)
QueueSilently(h, a) ==
    /\ a \in SilentAssets /\ phase[h] = "up"
    /\ L!Queue(a)
    /\ Joins(a)
    /\ UNCHANGED <<uploader, wake, phase, notice, sent, starts>>

(* What a command changes; when it is answered without a change.           *)
Changes(type, a) ==
    \/ type = "queue" /\ L!Queue(a) /\ Joins(a)
    \/ type = "retry" /\ Room(a) /\ L!Retry(a) /\ Joins(a)
    \/ type = "cancel" /\ Room(a) /\ L!Cancel(a) /\ Leaves(a)

Ignored(type, a) ==
    \/ type = "queue" /\ L!Exists(a)
    \/ type = "retry" /\ backup[a].state = "queued"
    \/ type = "cancel" /\ backup[a].state = "cancelled"
    \/ MayResend /\ [type |-> type, asset |-> a] \in sent

(* execute_backup_command commits, or replays a receipt, and in both cases *)
(* signals the thread next.                                                *)
Execute(h, type, a) ==
    /\ MainIdle(h)
    /\ \/ Changes(type, a)
       \/ Ignored(type, a) /\ UNCHANGED <<backup, line>>
    /\ notice' = [notice EXCEPT ![h] = [type |-> type, asset |-> a]]
    /\ sent' = IF MayResend THEN sent \cup {[type |-> type, asset |-> a]} ELSE sent
    /\ UNCHANGED <<uploader, wake, phase, starts>>

CancelToken(h) == [uploader EXCEPT ![h].token = "canceled"]

(* Mutant: only a cancellation wakes the thread.                           *)
SignalCancelOnly(h) ==
    /\ notice[h] # NoNotice
    /\ IF notice[h].type = "cancel" /\ uploader[h].pc = "uploading"
          /\ uploader[h].asset = notice[h].asset
       THEN uploader' = CancelToken(h) ELSE UNCHANGED uploader
    /\ wake' = [wake EXCEPT ![h] = notice[h].type = "cancel"]
    /\ notice' = [notice EXCEPT ![h] = NoNotice]
    /\ UNCHANGED <<backup, line, phase, sent, starts>>

(* wake, or cancel: the token the map holds for the asset is canceled,     *)
(* whichever upload of the asset it belongs to.                            *)
Signal(h) ==
    /\ notice[h] # NoNotice
    /\ IF notice[h].type = "cancel" /\ uploader[h].pc = "uploading"
          /\ uploader[h].asset = notice[h].asset
       THEN uploader' = CancelToken(h) ELSE UNCHANGED uploader
    /\ wake' = [wake EXCEPT ![h] = TRUE]
    /\ notice' = [notice EXCEPT ![h] = NoNotice]
    /\ UNCHANGED <<backup, line, phase, sent, starts>>

(* The back-off of a failed upload is over.                                *)
BackoffEnds(a) ==
    /\ backup[a].state = "failed" /\ ~Contains(line, a)
    /\ Joins(a)
    /\ UNCHANGED <<backup, uploader, wake, phase, notice, sent, starts>>

RequestShutdown(h) ==
    /\ MainIdle(h)
    /\ SetPhase(h, "flagged")
    /\ wake' = [wake EXCEPT ![h] = TRUE]
    /\ UNCHANGED <<backup, line, uploader, notice, sent, starts>>

CancelActive(h) ==
    /\ phase[h] = "flagged"
    /\ SetPhase(h, "joining")
    /\ IF uploader[h].pc = "uploading" THEN uploader' = CancelToken(h) ELSE UNCHANGED uploader
    /\ UNCHANGED <<backup, line, wake, notice, sent, starts>>

(* The thread is joined; a row it leaves uploading waits for the next start.*)
Join(h) ==
    /\ phase[h] = "joining" /\ uploader[h].pc = "off"
    /\ SetPhase(h, "stopped")
    /\ UNCHANGED <<backup, line, uploader, wake, notice, sent, starts>>

Crash(h) ==
    /\ phase[h] \in {"up", "flagged", "joining"}
    /\ SetPhase(h, "crashed")
    /\ uploader' = [uploader EXCEPT ![h] = At("off")]
    /\ notice' = [notice EXCEPT ![h] = NoNotice]
    /\ UNCHANGED <<backup, line, wake, sent, starts>>

-------------------------------------------------------------------------------
UploaderStep(h) ==
    \/ CheckShutdown(h) \/ Claim(h) \/ NothingToClaim(h) \/ RegisterUpload(h)
    \/ EnterMap(h) \/ UploadEnds(h) \/ CheckClaim(h) \/ Mark(h) \/ OutboxError(h)
    \/ Wait(h)

MainStep(h) == Signal(h) \/ CancelActive(h) \/ Join(h)

Environment(h) ==
    \/ Start(h) \/ Reopen(h) \/ RequestShutdown(h) \/ Crash(h)
    \/ \E a \in Assets :
          \/ QueueSilently(h, a)
          \/ \E type \in {"queue", "retry", "cancel"} : Execute(h, type, a)

Next ==
    \/ \E h \in Hosts : UploaderStep(h) \/ MainStep(h) \/ Environment(h)
    \/ \E a \in Assets : BackoffEnds(a)

Spec == Init /\ [][Next]_vars

(* The threads are scheduled, uploads end (requests to the bucket time     *)
(* out), back-offs end, the main thread finishes what it began; a claim    *)
(* that is tried again and again does not fail every time.                 *)
Fairness ==
    /\ \A h \in Hosts : WF_vars(UploaderStep(h)) /\ SF_vars(Claim(h)) /\ WF_vars(MainStep(h))
    /\ \A a \in Assets : WF_vars(BackoffEnds(a))

FairSpec == Spec /\ Fairness

-------------------------------------------------------------------------------
(***************************************************************************)
(* Properties.                                                             *)
(***************************************************************************)
PCs == {"off", "top", "claiming", "claimed", "registering", "uploading",
        "returned", "marking", "waiting", "deferred"}

(* Every variable but the line holds a value of its type.                  *)
TypeOK ==
    /\ backup \in [Assets -> L!Entry]
    /\ uploader \in [Hosts ->
          [pc : PCs, asset : Assets \cup {None}, revision : Nat,
           token : {"none", "live", "canceled"},
           result : {"none", "stored", "error", "cancelled"}]]
    /\ wake \in [Hosts -> BOOLEAN]
    /\ phase \in [Hosts -> Phases]
    /\ notice \in [Hosts -> Command \cup {NoNotice}]
    /\ sent \subseteq Command
    /\ starts \in 0..MaxStarts

Busy == {"claimed", "registering", "uploading", "returned", "marking"}

(* While the host is up, a row that is uploading has an upload that will   *)
(* still be reported, under the very revision of the row: neither cancel   *)
(* and retry nor a second opening of the outbox strands it.                *)
UploadingHasUploader ==
    \A a \in Assets :
        (\E h \in Hosts : phase[h] = "up") /\ backup[a].state = "uploading" =>
            \E h \in Hosts :
                /\ uploader[h].pc \in Busy /\ uploader[h].result # "cancelled"
                /\ uploader[h].asset = a /\ uploader[h].revision = backup[a].revision

(* An outcome is written only by the upload it belongs to: an upload that  *)
(* was cancelled, recovered by another process or by a contract review,    *)
(* never settles the row under the upload that replaced it.                *)
OutcomeFromOwnUpload ==
    \A h \in Hosts : uploader[h].pc \in Busy =>
        LET row == backup[uploader[h].asset] IN
        row.revision = uploader[h].revision + 1 => row.state \notin {"backedUp", "failed"}

(* An upload that gave up because its token was canceled was cancelled     *)
(* durably, or by the shutdown.                                            *)
CancelledUploadIsDurable ==
    \A h \in Hosts :
        uploader[h].pc = "returned" /\ uploader[h].result = "cancelled" /\ phase[h] = "up"
            => ~StillOwnsClaim(h)

(* No wake-up is lost: once the main thread has signalled, the thread does *)
(* not sleep while a queued row is due, even if a review re-queued it;     *)
(* only what is queued silently for the first time, and what an error of   *)
(* the outbox has put off, waits for the next poll.                        *)
NoLostWakeup ==
    \A h \in Hosts, a \in Assets :
        /\ MainIdle(h) /\ uploader[h].pc = "waiting" /\ ~wake[h]
        /\ backup[a].state = "queued"
        => a \in SilentAssets /\ backup[a].revision = 1

(* An asset that is due is claimed, however often others fail and come     *)
(* back: the order of next_attempt_at starves none.  MCBackupWorker lets   *)
(* uploads fail for ever.                                                  *)
Due(a, h) == phase[h] = "up" /\ Contains(line, a)

DueIsClaimed == \A h \in Hosts, a \in Assets : Due(a, h) ~> ~Due(a, h)

(* A shutdown comes to its end, or the process dies.                       *)
ShutdownEnds == \A h \in Hosts :
    phase[h] = "flagged" ~> phase[h] \in {"stopped", "crashed"}

(* The thread changes rows only as the outbox allows: a cancelled row is   *)
(* left only by a retry, a backed up one never.                            *)
KeepsLedger == L!Spec
===============================================================================
