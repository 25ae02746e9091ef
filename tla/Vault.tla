-------------------------------- MODULE Vault --------------------------------
(***************************************************************************)
(* The Local Vault: asset rows in SQLite and the files they name on disk   *)
(* (src-tauri/src/asset_service.rs, the generated assets of                *)
(* business_workspace_service.rs, the restore of r2_backup.rs).            *)
(*                                                                         *)
(* Rows and files cannot change in one transaction, so each side is        *)
(* covered by a record on the other: an import announces its file by a     *)
(* recovery marker before the file exists, and a deletion leaves a garbage *)
(* record in the transaction that deletes the row.  A host is one process  *)
(* with one asset connection, used by one command at a time; several hosts *)
(* share the database and the directory.                                   *)
(*                                                                         *)
(* An asset id is drawn afresh by every import and its own file name       *)
(* contains it, so Assets stands for ids and for file paths alike.  All    *)
(* files of one content have the same size and project.                    *)
(***************************************************************************)
EXTENDS Naturals, FiniteSets

CONSTANTS
    Hosts,
    Uploads,      \* ids of assets a user imports
    Documents,    \* ids of assets made by generateDocument, under a lease
    Archives,     \* ids of archive artifacts, made without a lease
    Commands,     \* identities of import commands
    Content,      \* what each id's bytes hash to
    Losable,      \* files something outside the program may delete
    None

Assets == Uploads \cup Documents \cup Archives
Generated == Documents \cup Archives

ASSUME VaultAssumption ==
    /\ None \notin Assets \cup Commands
    /\ Uploads \cap Generated = {} /\ Documents \cap Archives = {}

VARIABLES
    row,         \* assets: the path in the row of an id, None without a row
    linked,      \* ids a business row (document, snapshot) refers to
    receipt,     \* asset_command_receipts: the id a command imported
    garbage,     \* business_generated_asset_gc: the path an id left behind
    files,       \* paths with a file in the Vault
    markers,     \* recovery markers on disk, by id
    used,        \* ids drawn so far
    op,          \* what each host is doing
    restoring,   \* paths whose restore has found the file missing
    lost,        \* paths whose file was deleted from outside
    strays       \* paths a restore filled after their last row was deleted

vars == <<row, linked, receipt, garbage, files, markers, used, op, restoring,
          lost, strays>>

Steps == {"off", "recovering", "settling", "dropping", "clearing", "idle",
          "staged", "begun", "marked", "placed", "committed", "unleased",
          "failed", "removed", "unlinked", "cleaning", "collecting", "erasing",
          "forgetting"}

OpRecord == [step : Steps, asset : Assets \cup {None}, path : Assets \cup {None},
             command : Commands \cup {None}]

Off  == [step |-> "off", asset |-> None, path |-> None, command |-> None]
Idle == [Off EXCEPT !.step = "idle"]

TypeOK ==
    /\ row \in [Assets -> Assets \cup {None}]
    /\ linked \subseteq Generated
    /\ receipt \in [Commands -> Uploads \cup {None}]
    /\ garbage \in [Generated -> Assets \cup {None}]
    /\ files \subseteq Assets /\ markers \subseteq Assets /\ used \subseteq Assets
    /\ op \in [Hosts -> OpRecord]
    /\ restoring \subseteq Assets /\ lost \subseteq Assets /\ strays \subseteq Assets

Init ==
    /\ row = [a \in Assets |-> None] /\ linked = {}
    /\ receipt = [c \in Commands |-> None]
    /\ garbage = [a \in Generated |-> None]
    /\ files = {} /\ markers = {} /\ used = {}
    /\ op = [h \in Hosts |-> Off]
    /\ restoring = {} /\ lost = {} /\ strays = {}

-----------------------------------------------------------------------------
Referrers(p) == {a \in Assets : row[a] = p}

(* SQLite has one writer: a host inside an import's IMMEDIATE transaction. *)
Transacting(h) == op[h].step \in {"begun", "marked", "placed"}
WriterFree == \A h \in Hosts : ~Transacting(h)

(* The file lock on a's marker: from its creation until the import drops   *)
(* it, or while a recovery settles it.                                     *)
Leased(a) == \E h \in Hosts :
                /\ op[h].asset = a
                /\ op[h].step \in {"marked", "placed", "committed", "failed",
                                   "settling", "dropping"}

(* The directory-wide lock of a recovery.                                  *)
Recovering(h) == op[h].step \in {"recovering", "settling", "dropping", "clearing"}
RecoveryFree == \A h \in Hosts : ~Recovering(h)

(* generation_is_active: the staging lease of a document in the making.    *)
Making(a) == /\ a \in Documents
             /\ \E h \in Hosts :
                   /\ op[h].asset = a
                   /\ op[h].step \in {"staged", "begun", "marked", "placed",
                          "committed", "unleased", "failed", "removed", "unlinked"}

Go(h, step) == op' = [op EXCEPT ![h].step = step]
Done(h) == op' = [op EXCEPT ![h] = Idle]

-----------------------------------------------------------------------------
(* Importing                                                               *)

(* The first receipt lookup, then the copy into the staging directory.     *)
StageImport(h, a, c) ==
    /\ op[h].step = "idle" /\ a \notin used
    /\ IF a \in Uploads THEN c \in Commands /\ receipt[c] = None ELSE c = None
    /\ used' = used \cup {a}
    /\ op' = [op EXCEPT ![h] = [step |-> "staged", asset |-> a, path |-> None,
                                command |-> c]]
    /\ UNCHANGED <<row, linked, receipt, garbage, files, markers, restoring, lost, strays>>

(* find_reusable_storage: rows of the same bytes whose file is in place.   *)
Reusable(a) == {row[b] : b \in {x \in Assets : /\ Content[x] = Content[a]
                                               /\ row[x] \in files}}

(* Mutant: the receipt is not looked up again under the write lock.        *)
AnsweredBefore(c) == FALSE

(* The command was committed by another host meanwhile.                    *)
Answered(c) == c # None /\ receipt[c] # None

(* BEGIN IMMEDIATE, the second receipt lookup, and the choice of a path.   *)
BeginImport(h) ==
    LET a == op[h].asset
    IN  /\ op[h].step = "staged" /\ WriterFree
        /\ IF Answered(op[h].command)
           THEN Done(h)
           ELSE \E p \in IF Reusable(a) = {} THEN {a} ELSE Reusable(a) :
                   op' = [op EXCEPT ![h].step = "begun", ![h].path = p]
        /\ UNCHANGED <<row, linked, receipt, garbage, files, markers, used, restoring,
                       lost, strays>>

(* create_pending_asset_file: marker and lease, before the file.           *)
MarkImport(h) ==
    /\ op[h].step = "begun" /\ op[h].path = op[h].asset
    /\ RecoveryFree
    /\ markers' = markers \cup {op[h].asset}
    /\ Go(h, "marked")
    /\ UNCHANGED <<row, linked, receipt, garbage, files, used, restoring, lost, strays>>

PlaceFile(h) ==
    /\ op[h].step = "marked"
    /\ files' = files \cup {op[h].asset}
    /\ Go(h, "placed")
    /\ UNCHANGED <<row, linked, receipt, garbage, markers, used, restoring, lost, strays>>

(* The row and, for a command, its receipt.                                *)
Insert(h) ==
    LET o == op[h]
    IN  /\ row' = [row EXCEPT ![o.asset] = o.path]
        /\ receipt' = IF o.command = None THEN receipt
                      ELSE [receipt EXCEPT ![o.command] = o.asset]
        /\ UNCHANGED <<linked, garbage, files, markers, used, restoring, lost, strays>>

(* An import that reuses a path has no file of its own to settle.          *)
CommitReuse(h) ==
    /\ op[h].step = "begun" /\ op[h].path # op[h].asset
    /\ Insert(h)
    /\ IF op[h].asset \in Uploads THEN Done(h) ELSE Go(h, "unlinked")

CommitImport(h) ==
    /\ op[h].step = "placed"
    /\ Insert(h)
    /\ Go(h, "committed")

(* The transaction does not take place: an error before or in COMMIT.      *)
RollBack(h) ==
    /\ Transacting(h)
    /\ IF op[h].step = "begun" THEN Done(h) ELSE Go(h, "failed")
    /\ UNCHANGED <<row, linked, receipt, garbage, files, markers, used, restoring,
                   lost, strays>>

(* COMMIT reports an error, and whether it took place cannot be read back: *)
(* preserve_for_recovery drops the lease and leaves the marker.            *)
CommitUnknown(h) ==
    /\ op[h].step = "placed"
    /\ \/ Insert(h)
       \/ UNCHANGED <<row, linked, receipt, garbage, files, markers, used, restoring,
                      lost, strays>>
    /\ Done(h)

(* mark_committed drops the lease, then the marker.                        *)
ReleaseLease(h) ==
    /\ op[h].step = "committed"
    /\ Go(h, "unleased")
    /\ UNCHANGED <<row, linked, receipt, garbage, files, markers, used, restoring,
                   lost, strays>>

(* The deletion of a marker may fail, here and below: it then stays.       *)
Unmark(a) == markers' \in {markers \ {a}, markers}

ClearMarker(h) ==
    /\ op[h].step = "unleased"
    /\ Unmark(op[h].asset)
    /\ IF op[h].asset \in Uploads THEN Done(h) ELSE Go(h, "unlinked")
    /\ UNCHANGED <<row, linked, receipt, garbage, files, used, restoring, lost, strays>>

(* cleanup_uncommitted removes the file, drops the lease, and then removes *)
(* the marker - unless the file could not be removed.                      *)
RemoveUncommitted(h) ==
    /\ op[h].step = "failed"
    /\ files' = files \ {op[h].asset}
    /\ Go(h, "removed")
    /\ UNCHANGED <<row, linked, receipt, garbage, markers, used, restoring, lost, strays>>

LeaveUncommitted(h) ==
    /\ op[h].step = "failed"
    /\ Done(h)
    /\ UNCHANGED <<row, linked, receipt, garbage, files, markers, used, restoring,
                   lost, strays>>

ClearUncommitted(h) ==
    /\ op[h].step = "removed"
    /\ Unmark(op[h].asset)
    /\ Done(h)
    /\ UNCHANGED <<row, linked, receipt, garbage, files, used, restoring, lost, strays>>

-----------------------------------------------------------------------------
(* Linking generated assets, and collecting those nothing links            *)

(* An archive command that is repeated, or run by two hosts, finds the     *)
(* artifact it made by the origin and goes on with that one.               *)
ReuseArtifact(h, a) ==
    /\ op[h].step = "idle"
    /\ a \in Archives /\ row[a] # None
    /\ op' = [op EXCEPT ![h] = [Idle EXCEPT !.step = "unlinked", !.asset = a]]
    /\ UNCHANGED <<row, linked, receipt, garbage, files, markers, used, restoring,
                   lost, strays>>

(* The command's last transaction: the asset must still have its row.      *)
LinkAsset(h) ==
    /\ op[h].step = "unlinked" /\ WriterFree
    /\ row[op[h].asset] # None
    /\ linked' = linked \cup {op[h].asset}
    /\ Done(h)
    /\ UNCHANGED <<row, receipt, garbage, files, markers, used, restoring, lost, strays>>

(* That transaction is refused; the command cleans up behind itself.       *)
LinkRefused(h) ==
    /\ op[h].step = "unlinked"
    /\ Go(h, "cleaning")
    /\ UNCHANGED <<row, linked, receipt, garbage, files, markers, used, restoring,
                   lost, strays>>

(* reconcile_generated_assets, when a host starts and before each business *)
(* command: an unlinked asset that nobody is making.                       *)
ReconcileAsset(h, a) ==
    /\ op[h].step = "idle"
    /\ a \in Generated /\ row[a] # None /\ a \notin linked
    /\ ~Making(a)
    /\ op' = [op EXCEPT ![h] = [Idle EXCEPT !.step = "cleaning", !.asset = a]]
    /\ UNCHANGED <<row, linked, receipt, garbage, files, markers, used, restoring,
                   lost, strays>>

(* Mutant: what was unlinked when it was picked is taken to be so still.   *)
CollectablePicked(a) == row[a] # None

Collectable(a) == row[a] # None /\ a \notin linked

(* Mutant: only a path that carries the id's own name is put on record.    *)
LastReferrerOwner(a) == row[a] = a /\ Referrers(a) = {a}

LastReferrer(a) == Referrers(row[a]) = {a}

(* The transaction of cleanup_generated_asset: the row goes, and the path  *)
(* of the last row is put on record.                                       *)
DeleteRow(h) ==
    LET a == op[h].asset
    IN  /\ op[h].step = "cleaning" /\ WriterFree
        /\ Collectable(a)
        /\ row' = [row EXCEPT ![a] = None]
        /\ IF LastReferrer(a)
           THEN /\ garbage' = [garbage EXCEPT ![a] = row[a]]
                /\ Go(h, "collecting")
           ELSE UNCHANGED garbage /\ Done(h)
        /\ UNCHANGED <<linked, receipt, files, markers, used, restoring, lost, strays>>

(* Linked meanwhile, deleted by another host, or the deletion fails.       *)
KeepRow(h) ==
    /\ op[h].step = "cleaning"
    /\ IF row[op[h].asset] = None THEN Go(h, "collecting") ELSE Done(h)
    /\ UNCHANGED <<row, linked, receipt, garbage, files, markers, used, restoring,
                   lost, strays>>

(* retry_pending_generated_asset_deletes takes up any record.              *)
RetryGarbage(h, a) ==
    /\ op[h].step = "idle"
    /\ garbage[a] # None
    /\ op' = [op EXCEPT ![h] = [Idle EXCEPT !.step = "collecting", !.asset = a]]
    /\ UNCHANGED <<row, linked, receipt, garbage, files, markers, used, restoring,
                   lost, strays>>

(* No row may name the path; one that does keeps the file.                 *)
CheckGarbage(h) ==
    LET p == garbage[op[h].asset]
    IN  /\ op[h].step = "collecting"
        /\ IF p = None THEN Done(h)
           ELSE IF Referrers(p) # {} THEN Go(h, "forgetting")
           ELSE op' = [op EXCEPT ![h].step = "erasing", ![h].path = p]
        /\ UNCHANGED <<row, linked, receipt, garbage, files, markers, used, restoring,
                       lost, strays>>

EraseFile(h) ==
    /\ op[h].step = "erasing"
    /\ files' = files \ {op[h].path}
    /\ strays' = strays \ {op[h].path}
    /\ Go(h, "forgetting")
    /\ UNCHANGED <<row, linked, receipt, garbage, markers, used, restoring, lost>>

(* A file that cannot be removed keeps its record.                         *)
EraseFails(h) ==
    /\ op[h].step = "erasing"
    /\ Done(h)
    /\ UNCHANGED <<row, linked, receipt, garbage, files, markers, used, restoring,
                   lost, strays>>

ForgetGarbage(h) ==
    /\ op[h].step = "forgetting" /\ WriterFree
    /\ garbage' = [garbage EXCEPT ![op[h].asset] = None]
    /\ Done(h)
    /\ UNCHANGED <<row, linked, receipt, files, markers, used, restoring, lost, strays>>

-----------------------------------------------------------------------------
(* Starting, crashing and recovering                                       *)

(* reconcile_pending_imports runs once, before the host takes commands.    *)
Start(h) ==
    /\ op[h].step = "off" /\ RecoveryFree
    /\ Go(h, "recovering")
    /\ UNCHANGED <<row, linked, receipt, garbage, files, markers, used, restoring,
                   lost, strays>>

(* Mutant: a marker whose import is still under way is settled too.        *)
SettleableAny(a) == a \in markers

Settleable(a) == a \in markers /\ ~Leased(a)

SettleMarker(h, a) ==
    /\ op[h].step = "recovering"
    /\ Settleable(a)
    /\ op' = [op EXCEPT ![h].step = "settling", ![h].asset = a]
    /\ UNCHANGED <<row, linked, receipt, garbage, files, markers, used, restoring,
                   lost, strays>>

(* settle_recovery_intent: the file stays if the id has a row or another   *)
(* row shares its path, and then has to be in place.                       *)
ReadRows(h) ==
    LET a == op[h].asset
    IN  /\ op[h].step = "settling"
        /\ IF row[a] = None /\ Referrers(a) = {}
           THEN Go(h, "dropping")
           ELSE a \in files /\ Go(h, "clearing")
        /\ UNCHANGED <<row, linked, receipt, garbage, files, markers, used, restoring,
                       lost, strays>>

(* An error: the next recovery tries the marker again.                     *)
DeferMarker(h) ==
    /\ op[h].step \in {"settling", "dropping", "clearing"}
    /\ op' = [op EXCEPT ![h] = [Off EXCEPT !.step = "recovering"]]
    /\ UNCHANGED <<row, linked, receipt, garbage, files, markers, used, restoring,
                   lost, strays>>

DropCandidate(h) ==
    /\ op[h].step = "dropping"
    /\ files' = files \ {op[h].asset}
    /\ strays' = strays \ {op[h].asset}
    /\ Go(h, "clearing")
    /\ UNCHANGED <<row, linked, receipt, garbage, markers, used, restoring, lost>>

ClearSettled(h) ==
    /\ op[h].step = "clearing"
    /\ markers' = markers \ {op[h].asset}
    /\ op' = [op EXCEPT ![h] = [Off EXCEPT !.step = "recovering"]]
    /\ UNCHANGED <<row, linked, receipt, garbage, files, used, restoring, lost, strays>>

(* All entries were tried, or the rest is deferred after an error.         *)
Started(h) ==
    /\ op[h].step = "recovering"
    /\ Done(h)
    /\ UNCHANGED <<row, linked, receipt, garbage, files, markers, used, restoring,
                   lost, strays>>

(* The open transaction rolls back and the leases go; files stay.          *)
Crash(h) ==
    /\ op[h].step # "off"
    /\ op' = [op EXCEPT ![h] = Off]
    /\ UNCHANGED <<row, linked, receipt, garbage, files, markers, used, restoring,
                   lost, strays>>

-----------------------------------------------------------------------------
(* Losing and restoring files                                              *)

(* External: the user, a disk, a sync tool.                                *)
LoseFile(p) ==
    /\ p \in files /\ Referrers(p) # {}
    /\ files' = files \ {p}
    /\ lost' = lost \cup {p}
    /\ UNCHANGED <<row, linked, receipt, garbage, markers, used, op, restoring, strays>>

(* resolve_restore_vault_asset: the row is read once, then comes the       *)
(* download.                                                               *)
StartRestore(a) ==
    /\ row[a] # None /\ row[a] \notin files
    /\ restoring' = restoring \cup {row[a]}
    /\ UNCHANGED <<row, linked, receipt, garbage, files, markers, used, op, lost, strays>>

(* commit_restore_without_overwrite: a hard link, if nothing is there; the *)
(* row is not read again.                                                  *)
LinkRestored(p) ==
    /\ p \in restoring
    /\ restoring' = restoring \ {p}
    /\ files' = files \cup {p}
    /\ lost' = lost \ {p}
    /\ strays' = IF Referrers(p) = {} /\ p \notin files THEN strays \cup {p} ELSE strays
    /\ UNCHANGED <<row, linked, receipt, garbage, markers, used, op>>

(* The download fails or its process ends.                                 *)
RestoreFails(p) ==
    /\ p \in restoring
    /\ restoring' = restoring \ {p}
    /\ UNCHANGED <<row, linked, receipt, garbage, files, markers, used, op, lost, strays>>

-----------------------------------------------------------------------------
ImportStep(h) ==
    \/ \E a \in Assets, c \in Commands \cup {None} : StageImport(h, a, c)
    \/ BeginImport(h) \/ MarkImport(h) \/ PlaceFile(h)
    \/ CommitReuse(h) \/ CommitImport(h) \/ RollBack(h) \/ CommitUnknown(h)
    \/ ReleaseLease(h) \/ ClearMarker(h)
    \/ RemoveUncommitted(h) \/ LeaveUncommitted(h) \/ ClearUncommitted(h)

CollectStep(h) ==
    \/ LinkAsset(h) \/ LinkRefused(h)
    \/ \E a \in Generated : ReuseArtifact(h, a) \/ ReconcileAsset(h, a) \/ RetryGarbage(h, a)
    \/ DeleteRow(h) \/ KeepRow(h)
    \/ CheckGarbage(h) \/ EraseFile(h) \/ EraseFails(h) \/ ForgetGarbage(h)

StartStep(h) ==
    \/ Start(h) \/ Started(h) \/ Crash(h)
    \/ \E a \in Assets : SettleMarker(h, a)
    \/ ReadRows(h) \/ DropCandidate(h) \/ ClearSettled(h) \/ DeferMarker(h)

RestoreStep ==
    \/ \E p \in Losable : LoseFile(p)
    \/ \E a \in Assets : StartRestore(a) \/ LinkRestored(a) \/ RestoreFails(a)

Next == \/ \E h \in Hosts : ImportStep(h) \/ CollectStep(h) \/ StartStep(h)
        \/ RestoreStep

Spec == Init /\ [][Next]_vars

-----------------------------------------------------------------------------
(* Properties                                                              *)

(* A row's file is in the Vault unless something outside deleted it.       *)
(* About the recovery, the rollback and the collector, which all delete    *)
(* files, against rows of other ids that share a path and imports of other *)
(* hosts that are about to commit.                                         *)
RowHasFile == \A a \in Assets : row[a] # None => row[a] \in files \cup lost

(* No file is left that nothing will ever delete: it is named by a row, or *)
(* announced by a marker, or on record as garbage; only a restore that     *)
(* links its download after the row was deleted leaves a stray.  About the *)
(* order of marker, file, row and garbage record, and a crash between any  *)
(* two of them.                                                            *)
FilesAccounted ==
    \A p \in files : \/ Referrers(p) # {}
                     \/ p \in markers
                     \/ \E a \in Generated : garbage[a] = p
                     \/ p \in strays

(* A document or snapshot never loses the asset it refers to.  About the   *)
(* collector, which picks unlinked assets outside its transaction, and the *)
(* command of another host that links one of them meanwhile.               *)
LinkedHasRow == \A a \in linked : row[a] # None

(* An import command leaves one asset however many hosts run it: every     *)
(* uploaded row is the one its command's receipt names.  About the receipt *)
(* lookup before the copy of the source, which may take minutes.           *)
OneAssetPerCommand ==
    \A a \in Uploads : row[a] # None => \E c \in Commands : receipt[c] = a
==============================================================================
