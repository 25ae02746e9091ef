----------------------------- MODULE BackupLedger -----------------------------
(***************************************************************************)
(* What src-tauri/src/backup_outbox.rs promises about the backup of an     *)
(* asset: the states of its row, who may change them, and the revision     *)
(* that fences an upload.  Attempts, back-off, remote identity, events and *)
(* receipts belong to BackupOutbox, which implements this module;          *)
(* BackupWorker runs its upload thread over it.  The state notScheduled is *)
(* declared in the code but written by none of its operations.             *)
(***************************************************************************)
EXTENDS Naturals

CONSTANT Assets   \* the ids of assets, whose content never changes

VARIABLE backup

States == {"queued", "uploading", "backedUp", "failed", "cancelled"}

Entry == [state : States \cup {"absent"}, revision : Nat]

Init == backup = [a \in Assets |-> [state |-> "absent", revision |-> 0]]

Exists(a) == backup[a].state # "absent"

(* Every change of a row gives it the next revision.                       *)
Become(a, state) ==
    backup' = [backup EXCEPT ![a] = [state |-> state, revision |-> @.revision + 1]]

Queue(a) == ~Exists(a) /\ Become(a, "queued")

Retry(a) == backup[a].state \in {"failed", "cancelled"} /\ Become(a, "queued")

Cancel(a) == backup[a].state \in {"queued", "uploading", "failed"} /\ Become(a, "cancelled")

Claim(a) == backup[a].state \in {"queued", "failed"} /\ Become(a, "uploading")

(* The revision a claim returned is a fencing token.                       *)
Owns(a, revision) == backup[a].state = "uploading" /\ backup[a].revision = revision

MarkBackedUp(a, revision) == Owns(a, revision) /\ Become(a, "backedUp")

MarkFailed(a, revision) == Owns(a, revision) /\ Become(a, "failed")

(* Opening the outbox re-queues whatever is uploading.                     *)
RecoveredEntry(a) ==
    IF backup[a].state = "uploading"
    THEN [state |-> "queued", revision |-> backup[a].revision + 1]
    ELSE backup[a]

Recover == backup' = [a \in Assets |-> RecoveredEntry(a)]

Next ==
    \/ \E a \in Assets :
          \/ Queue(a) \/ Retry(a) \/ Cancel(a) \/ Claim(a)
          \/ MarkBackedUp(a, backup[a].revision) \/ MarkFailed(a, backup[a].revision)
    \/ Recover

Spec == Init /\ [][Next]_backup
===============================================================================
