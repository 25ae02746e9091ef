----------------------------- MODULE VaultProofs ------------------------------
(***************************************************************************)
(* The safety of the Local Vault, for any number of hosts, assets and      *)
(* commands.  The invariant says what each step of a command, a collector  *)
(* or a recovery may rely on about the rows and files that others change:  *)
(* an id that has no row yet belongs to one host, and a path that is about *)
(* to be deleted is retired, with no row and no import that could give it  *)
(* one again.  One lemma per action, one step per part it can disturb.     *)
(***************************************************************************)
EXTENDS Vault, TLAPS

(* The steps of an import before its row is committed, and those that may  *)
(* still lead to a commit.                                                 *)
Before(h) == op[h].step \in {"staged", "begun", "marked", "placed", "failed"}
Claiming(h) == op[h].step \in {"staged", "begun", "marked", "placed"}

(* SQLite's write lock.                                                    *)
OneWriter == \A g, h \in Hosts : Transacting(g) /\ Transacting(h) => g = h

(* Until its commit, an import is the only one that knows its id.          *)
OwnId ==
    \A h \in Hosts : Before(h) =>
        /\ op[h].asset \in used
        /\ row[op[h].asset] = None
        /\ \A a \in Assets : row[a] # op[h].asset
        /\ op[h].asset \notin restoring
        /\ \A a \in Generated : garbage[a] # op[h].asset
        /\ op[h].asset \in Generated => garbage[op[h].asset] = None
        /\ \A g \in Hosts : g # h => op[g].asset # op[h].asset

(* Whatever is named anywhere was drawn before.                            *)
DrawnIds ==
    /\ markers \subseteq used /\ restoring \subseteq used
    /\ \A h \in Hosts : op[h].asset \in used \cup {None}
    /\ \A a \in Assets : row[a] # None => a \in used /\ row[a] \in used

(* A marker covers its import's file; what it announces is the id's own    *)
(* path, and a reused path has a row.                                      *)
MarkerDiscipline ==
    /\ \A h \in Hosts :
          /\ op[h].step \in {"staged", "begun"} => op[h].asset \notin markers
          /\ op[h].step \in {"marked", "placed", "failed"} => op[h].asset \in markers
          /\ op[h].step \in {"marked", "placed"} => op[h].path = op[h].asset
          /\ op[h].step = "begun" =>
                op[h].path = op[h].asset \/ \E a \in Assets : row[a] = op[h].path
          /\ op[h].step \in {"settling", "dropping", "clearing", "committed"} =>
                row[op[h].asset] \in {None, op[h].asset}
    /\ \A a \in markers : row[a] \in {None, a}

(* A path that will never again be named by a row.                         *)
Retired(p) ==
    /\ p \in used
    /\ \A a \in Assets : row[a] # p
    /\ \A h \in Hosts : /\ Claiming(h) => op[h].asset # p
                        /\ Transacting(h) => op[h].path # p

(* What the collector and the recovery delete is retired.                  *)
RetiredPaths ==
    /\ \A a \in Generated : garbage[a] # None => /\ Retired(garbage[a])
                                                   /\ row[a] = None /\ a \in used
    /\ \A h \in Hosts :
          /\ op[h].step = "erasing" => Retired(op[h].path)
          /\ op[h].step = "dropping" => Retired(op[h].asset)
          /\ op[h].step \in {"unlinked", "cleaning", "collecting", "erasing", "forgetting"} =>
                op[h].asset \in Generated
          /\ op[h].step \in {"collecting", "erasing", "forgetting"} =>
                row[op[h].asset] = None
          /\ op[h].step = "erasing" => garbage[op[h].asset] \in {None, op[h].path}
          /\ op[h].step = "forgetting" =>
                \/ garbage[op[h].asset] \notin files
                \/ garbage[op[h].asset] \in strays

(* A file that needs no marker.                                            *)
Accounted(p) == p \in files => \/ \E a \in Assets : row[a] = p
                               \/ \E a \in Generated : garbage[a] = p
                               \/ p \in strays

(* The file when its marker goes.                                          *)
SettledFiles ==
    \A h \in Hosts :
        /\ op[h].step \in {"committed", "unleased", "removed", "clearing"} =>
              Accounted(op[h].asset)
        /\ op[h].step = "placed" => op[h].asset \in files

(* An import of a command holds its identity, unanswered while it writes.  *)
Commanded ==
    \A h \in Hosts :
        /\ op[h].step \in {"staged", "begun", "marked", "placed"} =>
              IF op[h].asset \in Uploads THEN op[h].command \in Commands
                                         ELSE op[h].command = None
        /\ Transacting(h) /\ op[h].command # None => receipt[op[h].command] = None

(* A host at work has an asset, and one that writes or erases a path.      *)
AtWork ==
   \A h \in Hosts :
      /\ op[h].step \notin {"off", "idle", "recovering"} => op[h].asset \in Assets
      /\ op[h].step \in {"begun", "marked", "placed", "erasing"} => op[h].path \in Assets

IInv == TypeOK /\ AtWork /\ OneWriter /\ OwnId /\ DrawnIds /\ MarkerDiscipline /\ RetiredPaths
        /\ SettledFiles /\ Commanded /\ RowHasFile /\ FilesAccounted /\ LinkedHasRow
        /\ OneAssetPerCommand

-------------------------------------------------------------------------------
(* Imports.                                                                *)

LEMMA StageImportInv ==
  ASSUME IInv, NEW h \in Hosts, NEW a \in Assets, NEW c \in Commands \cup {None}, StageImport(h, a, c)
  PROVE  IInv'
<1> USE VaultAssumption DEF IInv, TypeOK, OpRecord, Steps, AtWork, Assets,
      Generated, StageImport
<1>1. TypeOK'
  OBVIOUS
<1>2. AtWork'
  OBVIOUS
<1>3. OneWriter'
  BY DEF OneWriter, Transacting
<1>4. OwnId'
  BY DEF OwnId, Before, DrawnIds, RetiredPaths, Retired
<1>5. DrawnIds'
  BY DEF DrawnIds, OwnId, Before
<1>6. MarkerDiscipline'
  BY DEF MarkerDiscipline, OwnId, Before, DrawnIds
<1>7. RetiredPaths'
  BY DEF RetiredPaths, Retired, Claiming, Transacting, OwnId, Before,
      DrawnIds, MarkerDiscipline
<1>8. SettledFiles'
  BY DEF SettledFiles, Accounted, OwnId, Before, RetiredPaths, Retired,
      DrawnIds
<1>9. Commanded'
  BY DEF Commanded, Transacting, OneWriter
<1>10. RowHasFile' /\ FilesAccounted' /\ LinkedHasRow' /\ OneAssetPerCommand'
  BY DEF RowHasFile, FilesAccounted, Referrers, LinkedHasRow,
      OneAssetPerCommand
<1>11. QED
  BY <1>1, <1>2, <1>3, <1>4, <1>5, <1>6, <1>7, <1>8, <1>9, <1>10

LEMMA BeginImportInv ==
  ASSUME IInv, NEW h \in Hosts, BeginImport(h)
  PROVE  IInv'
<1> USE VaultAssumption DEF IInv, TypeOK, OpRecord, Steps, AtWork, Assets, Generated
<1>1. CASE op' = [op EXCEPT ![h] = Idle]
  <2>1. /\ op'[h] = [step |-> "idle", asset |-> None, path |-> None, command |-> None]
        /\ \A g \in Hosts : g # h => op'[g] = op[g]
        /\ op' \in [Hosts -> OpRecord]
    BY <1>1 DEF Idle, Off
  <2>2. UNCHANGED <<row, linked, receipt, garbage, files, markers, used, restoring,
                    lost, strays>>
    BY DEF BeginImport
  <2>3. TypeOK' /\ AtWork'
    BY <2>1, <2>2
  <2>4. OneWriter' /\ DrawnIds' /\ Commanded'
    BY <2>1, <2>2 DEF OneWriter, Transacting, DrawnIds, Commanded
  <2>5. OwnId'
    BY <2>1, <2>2 DEF OwnId, Before
  <2>6. MarkerDiscipline' /\ SettledFiles'
    BY <2>1, <2>2 DEF MarkerDiscipline, SettledFiles, Accounted
  <2>7. RetiredPaths'
    <3>1. ASSUME NEW q, Retired(q)
          PROVE  Retired(q)'
      BY <2>1, <2>2, <3>1 DEF Retired, Claiming, Transacting
    <3>2. QED
      BY <2>1, <2>2, <3>1 DEF RetiredPaths
  <2>8. RowHasFile' /\ FilesAccounted' /\ LinkedHasRow' /\ OneAssetPerCommand'
    BY <2>2 DEF RowHasFile, FilesAccounted, Referrers, LinkedHasRow, OneAssetPerCommand
  <2>9. QED
    BY <2>3, <2>4, <2>5, <2>6, <2>7, <2>8
<1>2. CASE ~Answered(op[h].command)
  <2>1. PICK p \in Assets :
           /\ op' = [op EXCEPT ![h].step = "begun", ![h].path = p]
           /\ p = op[h].asset \/ \E a \in Assets : row[a] = p
    <3>1. PICK p \in IF Reusable(op[h].asset) = {} THEN {op[h].asset}
                      ELSE Reusable(op[h].asset) :
             op' = [op EXCEPT ![h].step = "begun", ![h].path = p]
      BY <1>2 DEF BeginImport
    <3>2. p = op[h].asset \/ \E a \in Assets : p = row[a] /\ row[a] \in files
      BY <3>1 DEF Reusable
    <3>3. op[h].asset \in Assets
      BY DEF BeginImport
    <3>4. QED
      BY <3>1, <3>2, <3>3
  <2>2. op[h].step = "staged" /\ WriterFree
    BY DEF BeginImport
  <2>3. UNCHANGED <<row, linked, receipt, garbage, files, markers, used, restoring,
                    lost, strays>>
    BY DEF BeginImport
  <2>4. TypeOK' /\ AtWork'
    <3>1. op'[h] = [step |-> "begun", asset |-> op[h].asset, path |-> p,
                    command |-> op[h].command]
      <4>1. op[h] \in OpRecord
        OBVIOUS
      <4>2. op'[h] = [op[h] EXCEPT !.step = "begun", !.path = p]
        BY <2>1
      <4>3. QED
        BY <4>1, <4>2
    <3>2. op'[h] \in OpRecord
      BY <3>1
    <3>6. op' \in [Hosts -> OpRecord]
      BY <2>1, <3>1, <3>2
    <3>3. TypeOK'
      BY <2>3, <3>6
    <3>4. AtWork'
      BY <2>1, <2>2
    <3>5. QED
      BY <3>3, <3>4
  <2>5. OneWriter' /\ OwnId' /\ DrawnIds'
    BY <2>1, <2>2, <2>3 DEF OneWriter, WriterFree, Transacting, OwnId, Before, DrawnIds
  <2>6. MarkerDiscipline' /\ SettledFiles'
    BY <2>1, <2>2, <2>3 DEF MarkerDiscipline, SettledFiles, Accounted
  <2>7. RetiredPaths'
    <3>1. ASSUME NEW q, Retired(q)
          PROVE  Retired(q)'
      BY <2>1, <2>2, <2>3, <3>1 DEF Retired, Claiming, Transacting
    <3>2. QED
      BY <2>1, <2>2, <2>3, <3>1 DEF RetiredPaths
  <2>8. Commanded'
    BY <1>2, <2>1, <2>2, <2>3 DEF Commanded, Transacting, Answered
  <2>9. RowHasFile' /\ FilesAccounted' /\ LinkedHasRow' /\ OneAssetPerCommand'
    BY <2>3 DEF RowHasFile, FilesAccounted, Referrers, LinkedHasRow, OneAssetPerCommand
  <2>10. QED
    BY <2>4, <2>5, <2>6, <2>7, <2>8, <2>9
<1>3. QED
  BY <1>1, <1>2 DEF BeginImport, Done

LEMMA MarkImportInv ==
  ASSUME IInv, NEW h \in Hosts, MarkImport(h)
  PROVE  IInv'
<1> USE VaultAssumption DEF IInv, TypeOK, OpRecord, Steps, AtWork, Assets,
      Generated, MarkImport, RecoveryFree, Recovering, Go
<1>1. TypeOK'
  OBVIOUS
<1>2. AtWork'
  OBVIOUS
<1>3. OneWriter'
  BY DEF OneWriter, Transacting
<1>4. OwnId'
  BY DEF OwnId, Before, DrawnIds
<1>5. DrawnIds'
  BY DEF DrawnIds, OwnId, Before
<1>6. MarkerDiscipline'
  BY DEF MarkerDiscipline, OwnId, Before, DrawnIds
<1>7. RetiredPaths'
  BY DEF RetiredPaths, Retired, Claiming, Transacting, OwnId, Before,
      DrawnIds, MarkerDiscipline
<1>8. SettledFiles'
  BY DEF SettledFiles, Accounted, OwnId, Before, RetiredPaths, Retired,
      DrawnIds
<1>9. Commanded'
  BY DEF Commanded, Transacting, OneWriter
<1>10. FilesAccounted'
  BY DEF FilesAccounted, Referrers, OwnId, Before, RetiredPaths, Retired,
      SettledFiles, Accounted, MarkerDiscipline
<1>11. RowHasFile' /\ LinkedHasRow' /\ OneAssetPerCommand'
  BY DEF RowHasFile, LinkedHasRow, OneAssetPerCommand
<1>12. QED
  BY <1>1, <1>2, <1>3, <1>4, <1>5, <1>6, <1>7, <1>8, <1>9, <1>10, <1>11

LEMMA PlaceFileInv ==
  ASSUME IInv, NEW h \in Hosts, PlaceFile(h)
  PROVE  IInv'
<1> USE VaultAssumption DEF IInv, TypeOK, OpRecord, Steps, AtWork, Assets,
      Generated, PlaceFile, Go
<1>1. TypeOK'
  OBVIOUS
<1>2. AtWork'
  OBVIOUS
<1>3. OneWriter'
  BY DEF OneWriter, Transacting
<1>4. OwnId'
  BY DEF OwnId, Before, DrawnIds
<1>5. DrawnIds'
  BY DEF DrawnIds, OwnId, Before
<1>6. MarkerDiscipline'
  BY DEF MarkerDiscipline, OwnId, Before, DrawnIds
<1>7. RetiredPaths'
  BY DEF RetiredPaths, Retired, Claiming, Transacting, OwnId, Before,
      DrawnIds, MarkerDiscipline
<1>8. SettledFiles'
  BY DEF SettledFiles, Accounted, OwnId, Before, RetiredPaths, Retired,
      DrawnIds
<1>9. Commanded'
  BY DEF Commanded, Transacting, OneWriter
<1>10. RowHasFile'
  BY DEF RowHasFile, OwnId, Before, RetiredPaths, Retired, MarkerDiscipline,
      SettledFiles, DrawnIds
<1>11. FilesAccounted'
  BY DEF FilesAccounted, Referrers, OwnId, Before, RetiredPaths, Retired,
      SettledFiles, Accounted, MarkerDiscipline
<1>12. LinkedHasRow' /\ OneAssetPerCommand'
  BY DEF LinkedHasRow, OneAssetPerCommand
<1>13. QED
  BY <1>1, <1>2, <1>3, <1>4, <1>5, <1>6, <1>7, <1>8, <1>9, <1>10, <1>11, <1>12

LEMMA CommitReuseInv ==
  ASSUME IInv, NEW h \in Hosts, CommitReuse(h)
  PROVE  IInv'
<1> USE VaultAssumption DEF IInv, TypeOK, OpRecord, Steps, AtWork, Assets,
      Generated, CommitReuse, Insert, Done, Go, Idle, Off
<1>1. TypeOK'
  BY DEF Commanded
<1>2. AtWork'
  BY DEF MarkerDiscipline
<1>3. OneWriter'
  BY DEF OneWriter, Transacting
<1>4. OwnId'
  BY DEF OwnId, Before, DrawnIds, MarkerDiscipline
<1>5. DrawnIds'
  BY DEF DrawnIds, OwnId, Before, MarkerDiscipline
<1>6. MarkerDiscipline'
  BY DEF MarkerDiscipline, OwnId, Before, DrawnIds
<1>7. RetiredPaths'
  <2>1. ASSUME NEW p, Retired(p)
        PROVE  Retired(p)'
    BY <2>1 DEF Retired, Claiming, Transacting
  <2>2. \A a \in Generated : garbage[a] # None => row'[a] = None
    BY DEF RetiredPaths, OwnId, Before
  <2>3. QED
    BY <2>1, <2>2 DEF RetiredPaths, OwnId, Before, DrawnIds
<1>8. SettledFiles'
  BY DEF SettledFiles, Accounted, OwnId, Before, RetiredPaths, Retired,
      DrawnIds
<1>9. Commanded'
  BY DEF Commanded, Transacting, OneWriter
<1>10. RowHasFile'
  BY DEF RowHasFile, OwnId, Before, RetiredPaths, Retired, MarkerDiscipline,
      SettledFiles, DrawnIds
<1>11. FilesAccounted'
  BY DEF FilesAccounted, Referrers, OwnId, Before, RetiredPaths, Retired,
      SettledFiles, Accounted, MarkerDiscipline
<1>12. LinkedHasRow'
  BY DEF LinkedHasRow
<1>13. OneAssetPerCommand'
  BY DEF OneAssetPerCommand, Commanded, Transacting, OwnId, Before
<1>14. QED
  BY <1>1, <1>2, <1>3, <1>4, <1>5, <1>6, <1>7, <1>8, <1>9, <1>10, <1>11, <1>12, <1>13

LEMMA CommitImportInv ==
  ASSUME IInv, NEW h \in Hosts, CommitImport(h)
  PROVE  IInv'
<1> USE VaultAssumption DEF IInv, TypeOK, OpRecord, Steps, AtWork, Assets,
      Generated, CommitImport, Insert, Go
<1>1. TypeOK'
  BY DEF Commanded
<1>2. AtWork'
  BY DEF MarkerDiscipline
<1>3. OneWriter'
  BY DEF OneWriter, Transacting
<1>4. OwnId'
  BY DEF OwnId, Before, DrawnIds, MarkerDiscipline
<1>5. DrawnIds'
  BY DEF DrawnIds, OwnId, Before, MarkerDiscipline
<1>6. MarkerDiscipline'
  BY DEF MarkerDiscipline, OwnId, Before, DrawnIds
<1>7. RetiredPaths'
  BY DEF RetiredPaths, Retired, Claiming, Transacting, OwnId, Before,
      DrawnIds, MarkerDiscipline
<1>8. SettledFiles'
  BY DEF SettledFiles, Accounted, OwnId, Before, RetiredPaths, Retired,
      DrawnIds, MarkerDiscipline
<1>9. Commanded'
  BY DEF Commanded, Transacting, OneWriter
<1>10. RowHasFile'
  BY DEF RowHasFile, OwnId, Before, RetiredPaths, Retired, MarkerDiscipline,
      SettledFiles, DrawnIds
<1>11. FilesAccounted'
  BY DEF FilesAccounted, Referrers, OwnId, Before, RetiredPaths, Retired,
      SettledFiles, Accounted, MarkerDiscipline
<1>12. LinkedHasRow'
  BY DEF LinkedHasRow
<1>13. OneAssetPerCommand'
  BY DEF OneAssetPerCommand, Commanded, Transacting, OwnId, Before
<1>14. QED
  BY <1>1, <1>2, <1>3, <1>4, <1>5, <1>6, <1>7, <1>8, <1>9, <1>10, <1>11, <1>12, <1>13

LEMMA RollBackInv ==
  ASSUME IInv, NEW h \in Hosts, RollBack(h)
  PROVE  IInv'
<1> USE VaultAssumption DEF IInv, TypeOK, OpRecord, Steps, AtWork, Assets,
      Generated, RollBack, Transacting, Done, Go, Idle, Off
<1>1. TypeOK'
  OBVIOUS
<1>2. AtWork'
  OBVIOUS
<1>3. OneWriter'
  BY DEF OneWriter
<1>4. OwnId'
  BY DEF OwnId, Before, DrawnIds
<1>5. DrawnIds'
  BY DEF DrawnIds, OwnId, Before
<1>6. MarkerDiscipline'
  BY DEF MarkerDiscipline, OwnId, Before, DrawnIds
<1>7. RetiredPaths'
  BY DEF RetiredPaths, Retired, Claiming, OwnId, Before, DrawnIds,
      MarkerDiscipline
<1>8. SettledFiles'
  BY DEF SettledFiles, Accounted, OwnId, Before, RetiredPaths, Retired,
      DrawnIds
<1>9. Commanded'
  BY DEF Commanded, OneWriter
<1>10. RowHasFile' /\ FilesAccounted' /\ LinkedHasRow' /\ OneAssetPerCommand'
  BY DEF RowHasFile, FilesAccounted, Referrers, LinkedHasRow,
      OneAssetPerCommand
<1>11. QED
  BY <1>1, <1>2, <1>3, <1>4, <1>5, <1>6, <1>7, <1>8, <1>9, <1>10

LEMMA CommitUnknownInv ==
  ASSUME IInv, NEW h \in Hosts, CommitUnknown(h)
  PROVE  IInv'
<1> USE VaultAssumption DEF IInv, TypeOK, OpRecord, Steps, AtWork, Assets,
      Generated, CommitUnknown, Insert, Done, Idle, Off
<1>1. TypeOK'
  BY DEF Commanded
<1>2. AtWork'
  BY DEF MarkerDiscipline
<1>3. OneWriter'
  BY DEF OneWriter, Transacting
<1>4. OwnId'
  BY DEF OwnId, Before, DrawnIds, MarkerDiscipline
<1>5. DrawnIds'
  BY DEF DrawnIds, OwnId, Before, MarkerDiscipline
<1>6. MarkerDiscipline'
  BY DEF MarkerDiscipline, OwnId, Before, DrawnIds
<1>7. RetiredPaths'
  BY DEF RetiredPaths, Retired, Claiming, Transacting, OwnId, Before,
      DrawnIds, MarkerDiscipline
<1>8. SettledFiles'
  BY DEF SettledFiles, Accounted, OwnId, Before, RetiredPaths, Retired,
      DrawnIds
<1>9. Commanded'
  BY DEF Commanded, Transacting, OneWriter
<1>10. RowHasFile'
  BY DEF RowHasFile, OwnId, Before, RetiredPaths, Retired, MarkerDiscipline,
      SettledFiles, DrawnIds
<1>11. FilesAccounted'
  BY DEF FilesAccounted, Referrers, OwnId, Before, RetiredPaths, Retired,
      SettledFiles, Accounted, MarkerDiscipline
<1>12. LinkedHasRow'
  BY DEF LinkedHasRow
<1>13. OneAssetPerCommand'
  BY DEF OneAssetPerCommand, Commanded, Transacting, OwnId, Before
<1>14. QED
  BY <1>1, <1>2, <1>3, <1>4, <1>5, <1>6, <1>7, <1>8, <1>9, <1>10, <1>11, <1>12, <1>13

LEMMA ReleaseLeaseInv ==
  ASSUME IInv, NEW h \in Hosts, ReleaseLease(h)
  PROVE  IInv'
<1> USE VaultAssumption DEF IInv, TypeOK, OpRecord, Steps, AtWork, Assets,
      Generated, ReleaseLease, Go
<1>1. TypeOK'
  OBVIOUS
<1>2. AtWork'
  OBVIOUS
<1>3. OneWriter'
  BY DEF OneWriter, Transacting
<1>4. OwnId'
  BY DEF OwnId, Before, DrawnIds
<1>5. DrawnIds'
  BY DEF DrawnIds, OwnId, Before
<1>6. MarkerDiscipline'
  BY DEF MarkerDiscipline, OwnId, Before, DrawnIds
<1>7. RetiredPaths'
  BY DEF RetiredPaths, Retired, Claiming, Transacting, OwnId, Before,
      DrawnIds, MarkerDiscipline
<1>8. SettledFiles'
  BY DEF SettledFiles, Accounted, OwnId, Before, RetiredPaths, Retired,
      DrawnIds
<1>9. Commanded'
  BY DEF Commanded, Transacting, OneWriter
<1>10. RowHasFile' /\ FilesAccounted' /\ LinkedHasRow' /\ OneAssetPerCommand'
  BY DEF RowHasFile, FilesAccounted, Referrers, LinkedHasRow,
      OneAssetPerCommand
<1>11. QED
  BY <1>1, <1>2, <1>3, <1>4, <1>5, <1>6, <1>7, <1>8, <1>9, <1>10

LEMMA ClearMarkerInv ==
  ASSUME IInv, NEW h \in Hosts, ClearMarker(h)
  PROVE  IInv'
<1> USE VaultAssumption DEF IInv, TypeOK, OpRecord, Steps, AtWork, Assets,
      Generated, ClearMarker, Unmark, Done, Go, Idle, Off
<1>1. TypeOK'
  OBVIOUS
<1>2. AtWork'
  OBVIOUS
<1>3. OneWriter'
  BY DEF OneWriter, Transacting
<1>4. OwnId'
  BY DEF OwnId, Before, DrawnIds
<1>5. DrawnIds'
  BY DEF DrawnIds, OwnId, Before
<1>6. MarkerDiscipline'
  BY DEF MarkerDiscipline, OwnId, Before, DrawnIds
<1>7. RetiredPaths'
  BY DEF RetiredPaths, Retired, Claiming, Transacting, OwnId, Before,
      DrawnIds, MarkerDiscipline
<1>8. SettledFiles'
  BY DEF SettledFiles, Accounted, OwnId, Before, RetiredPaths, Retired,
      DrawnIds
<1>9. Commanded'
  BY DEF Commanded, Transacting, OneWriter
<1>10. FilesAccounted'
  BY DEF FilesAccounted, Referrers, OwnId, Before, RetiredPaths, Retired,
      SettledFiles, Accounted, MarkerDiscipline
<1>11. RowHasFile' /\ LinkedHasRow' /\ OneAssetPerCommand'
  BY DEF RowHasFile, LinkedHasRow, OneAssetPerCommand
<1>12. QED
  BY <1>1, <1>2, <1>3, <1>4, <1>5, <1>6, <1>7, <1>8, <1>9, <1>10, <1>11

LEMMA RemoveUncommittedInv ==
  ASSUME IInv, NEW h \in Hosts, RemoveUncommitted(h)
  PROVE  IInv'
<1> USE VaultAssumption DEF IInv, TypeOK, OpRecord, Steps, AtWork, Assets,
      Generated, RemoveUncommitted, Go
<1>1. TypeOK'
  OBVIOUS
<1>2. AtWork'
  OBVIOUS
<1>3. OneWriter'
  BY DEF OneWriter, Transacting
<1>4. OwnId'
  BY DEF OwnId, Before, DrawnIds
<1>5. DrawnIds'
  BY DEF DrawnIds, OwnId, Before
<1>6. MarkerDiscipline'
  BY DEF MarkerDiscipline, OwnId, Before, DrawnIds
<1>7. RetiredPaths'
  BY DEF RetiredPaths, Retired, Claiming, Transacting, OwnId, Before,
      DrawnIds, MarkerDiscipline
<1>8. SettledFiles'
  BY DEF SettledFiles, Accounted, OwnId, Before, RetiredPaths, Retired,
      DrawnIds
<1>9. Commanded'
  BY DEF Commanded, Transacting, OneWriter
<1>10. RowHasFile'
  BY DEF RowHasFile, OwnId, Before, RetiredPaths, Retired, MarkerDiscipline,
      SettledFiles, DrawnIds
<1>11. FilesAccounted'
  BY DEF FilesAccounted, Referrers, OwnId, Before, RetiredPaths, Retired,
      SettledFiles, Accounted, MarkerDiscipline
<1>12. LinkedHasRow' /\ OneAssetPerCommand'
  BY DEF LinkedHasRow, OneAssetPerCommand
<1>13. QED
  BY <1>1, <1>2, <1>3, <1>4, <1>5, <1>6, <1>7, <1>8, <1>9, <1>10, <1>11, <1>12

LEMMA LeaveUncommittedInv ==
  ASSUME IInv, NEW h \in Hosts, LeaveUncommitted(h)
  PROVE  IInv'
<1> USE VaultAssumption DEF IInv, TypeOK, OpRecord, Steps, AtWork, Assets,
      Generated, LeaveUncommitted, Done, Idle, Off
<1>1. TypeOK'
  OBVIOUS
<1>2. AtWork'
  OBVIOUS
<1>3. OneWriter'
  BY DEF OneWriter, Transacting
<1>4. OwnId'
  BY DEF OwnId, Before, DrawnIds
<1>5. DrawnIds'
  BY DEF DrawnIds, OwnId, Before
<1>6. MarkerDiscipline'
  BY DEF MarkerDiscipline, OwnId, Before, DrawnIds
<1>7. RetiredPaths'
  BY DEF RetiredPaths, Retired, Claiming, Transacting, OwnId, Before,
      DrawnIds, MarkerDiscipline
<1>8. SettledFiles'
  BY DEF SettledFiles, Accounted, OwnId, Before, RetiredPaths, Retired,
      DrawnIds
<1>9. Commanded'
  BY DEF Commanded, Transacting, OneWriter
<1>10. RowHasFile' /\ FilesAccounted' /\ LinkedHasRow' /\ OneAssetPerCommand'
  BY DEF RowHasFile, FilesAccounted, Referrers, LinkedHasRow,
      OneAssetPerCommand
<1>11. QED
  BY <1>1, <1>2, <1>3, <1>4, <1>5, <1>6, <1>7, <1>8, <1>9, <1>10

LEMMA ClearUncommittedInv ==
  ASSUME IInv, NEW h \in Hosts, ClearUncommitted(h)
  PROVE  IInv'
<1> USE VaultAssumption DEF IInv, TypeOK, OpRecord, Steps, AtWork, Assets,
      Generated, ClearUncommitted, Unmark, Done, Idle, Off
<1>1. TypeOK'
  OBVIOUS
<1>2. AtWork'
  OBVIOUS
<1>3. OneWriter'
  BY DEF OneWriter, Transacting
<1>4. OwnId'
  BY DEF OwnId, Before, DrawnIds
<1>5. DrawnIds'
  BY DEF DrawnIds, OwnId, Before
<1>6. MarkerDiscipline'
  BY DEF MarkerDiscipline, OwnId, Before, DrawnIds
<1>7. RetiredPaths'
  BY DEF RetiredPaths, Retired, Claiming, Transacting, OwnId, Before,
      DrawnIds, MarkerDiscipline
<1>8. SettledFiles'
  BY DEF SettledFiles, Accounted, OwnId, Before, RetiredPaths, Retired,
      DrawnIds
<1>9. Commanded'
  BY DEF Commanded, Transacting, OneWriter
<1>10. FilesAccounted'
  BY DEF FilesAccounted, Referrers, OwnId, Before, RetiredPaths, Retired,
      SettledFiles, Accounted, MarkerDiscipline
<1>11. RowHasFile' /\ LinkedHasRow' /\ OneAssetPerCommand'
  BY DEF RowHasFile, LinkedHasRow, OneAssetPerCommand
<1>12. QED
  BY <1>1, <1>2, <1>3, <1>4, <1>5, <1>6, <1>7, <1>8, <1>9, <1>10, <1>11

-------------------------------------------------------------------------------
(* Linking and collecting.                                                 *)

LEMMA LinkAssetInv ==
  ASSUME IInv, NEW h \in Hosts, LinkAsset(h)
  PROVE  IInv'
<1> USE VaultAssumption DEF IInv, TypeOK, OpRecord, Steps, AtWork, Assets,
      Generated, LinkAsset, Done, Idle, Off, WriterFree, Transacting
<1>1. TypeOK'
  BY DEF RetiredPaths
<1>2. AtWork'
  OBVIOUS
<1>3. OneWriter'
  BY DEF OneWriter
<1>4. OwnId'
  BY DEF OwnId, Before, DrawnIds
<1>5. DrawnIds'
  BY DEF DrawnIds, OwnId, Before
<1>6. MarkerDiscipline'
  BY DEF MarkerDiscipline, OwnId, Before, DrawnIds
<1>7. RetiredPaths'
  BY DEF RetiredPaths, Retired, Claiming, OwnId, Before, DrawnIds,
      MarkerDiscipline
<1>8. SettledFiles'
  BY DEF SettledFiles, Accounted, OwnId, Before, RetiredPaths, Retired,
      DrawnIds
<1>9. Commanded'
  BY DEF Commanded, OneWriter
<1>10. LinkedHasRow'
  BY DEF LinkedHasRow
<1>11. RowHasFile' /\ FilesAccounted' /\ OneAssetPerCommand'
  BY DEF RowHasFile, FilesAccounted, Referrers, OneAssetPerCommand
<1>12. QED
  BY <1>1, <1>2, <1>3, <1>4, <1>5, <1>6, <1>7, <1>8, <1>9, <1>10, <1>11

LEMMA LinkRefusedInv ==
  ASSUME IInv, NEW h \in Hosts, LinkRefused(h)
  PROVE  IInv'
<1> USE VaultAssumption DEF IInv, TypeOK, OpRecord, Steps, AtWork, Assets,
      Generated, LinkRefused, Go
<1>1. TypeOK'
  OBVIOUS
<1>2. AtWork'
  OBVIOUS
<1>3. OneWriter'
  BY DEF OneWriter, Transacting
<1>4. OwnId'
  BY DEF OwnId, Before, DrawnIds
<1>5. DrawnIds'
  BY DEF DrawnIds, OwnId, Before
<1>6. MarkerDiscipline'
  BY DEF MarkerDiscipline, OwnId, Before, DrawnIds
<1>7. RetiredPaths'
  BY DEF RetiredPaths, Retired, Claiming, Transacting, OwnId, Before,
      DrawnIds, MarkerDiscipline
<1>8. SettledFiles'
  BY DEF SettledFiles, Accounted, OwnId, Before, RetiredPaths, Retired,
      DrawnIds
<1>9. Commanded'
  BY DEF Commanded, Transacting, OneWriter
<1>10. RowHasFile' /\ FilesAccounted' /\ LinkedHasRow' /\ OneAssetPerCommand'
  BY DEF RowHasFile, FilesAccounted, Referrers, LinkedHasRow,
      OneAssetPerCommand
<1>11. QED
  BY <1>1, <1>2, <1>3, <1>4, <1>5, <1>6, <1>7, <1>8, <1>9, <1>10

LEMMA ReuseArtifactInv ==
  ASSUME IInv, NEW h \in Hosts, NEW x \in Generated, ReuseArtifact(h, x)
  PROVE  IInv'
<1> USE VaultAssumption DEF IInv, TypeOK, OpRecord, Steps, AtWork, Assets,
      Generated, ReuseArtifact, Idle, Off
<1>1. TypeOK'
  OBVIOUS
<1>2. AtWork'
  OBVIOUS
<1>3. OneWriter'
  BY DEF OneWriter, Transacting
<1>4. OwnId'
  BY DEF OwnId, Before, DrawnIds
<1>5. DrawnIds'
  BY DEF DrawnIds, OwnId, Before
<1>6. MarkerDiscipline'
  BY DEF MarkerDiscipline, OwnId, Before, DrawnIds
<1>7. RetiredPaths'
  BY DEF RetiredPaths, Retired, Claiming, Transacting, OwnId, Before,
      DrawnIds, MarkerDiscipline
<1>8. SettledFiles'
  BY DEF SettledFiles, Accounted, OwnId, Before, RetiredPaths, Retired,
      DrawnIds
<1>9. Commanded'
  BY DEF Commanded, Transacting, OneWriter
<1>10. RowHasFile' /\ FilesAccounted' /\ LinkedHasRow' /\ OneAssetPerCommand'
  BY DEF RowHasFile, FilesAccounted, Referrers, LinkedHasRow,
      OneAssetPerCommand
<1>11. QED
  BY <1>1, <1>2, <1>3, <1>4, <1>5, <1>6, <1>7, <1>8, <1>9, <1>10

LEMMA ReconcileAssetInv ==
  ASSUME IInv, NEW h \in Hosts, NEW x \in Generated, ReconcileAsset(h, x)
  PROVE  IInv'
<1> USE VaultAssumption DEF IInv, TypeOK, OpRecord, Steps, AtWork, Assets,
      Generated, ReconcileAsset, Idle, Off
<1>1. TypeOK'
  OBVIOUS
<1>2. AtWork'
  OBVIOUS
<1>3. OneWriter'
  BY DEF OneWriter, Transacting
<1>4. OwnId'
  BY DEF OwnId, Before, DrawnIds
<1>5. DrawnIds'
  BY DEF DrawnIds, OwnId, Before
<1>6. MarkerDiscipline'
  BY DEF MarkerDiscipline, OwnId, Before, DrawnIds
<1>7. RetiredPaths'
  BY DEF RetiredPaths, Retired, Claiming, Transacting, OwnId, Before,
      DrawnIds, MarkerDiscipline
<1>8. SettledFiles'
  BY DEF SettledFiles, Accounted, OwnId, Before, RetiredPaths, Retired,
      DrawnIds
<1>9. Commanded'
  BY DEF Commanded, Transacting, OneWriter
<1>10. RowHasFile' /\ FilesAccounted' /\ LinkedHasRow' /\ OneAssetPerCommand'
  BY DEF RowHasFile, FilesAccounted, Referrers, LinkedHasRow,
      OneAssetPerCommand
<1>11. QED
  BY <1>1, <1>2, <1>3, <1>4, <1>5, <1>6, <1>7, <1>8, <1>9, <1>10

LEMMA DeleteRowInv ==
  ASSUME IInv, NEW h \in Hosts, DeleteRow(h)
  PROVE  IInv'
<1> USE VaultAssumption DEF IInv, TypeOK, OpRecord, Steps, AtWork, Assets,
      Generated, DeleteRow, Collectable, LastReferrer, Referrers, Done, Go,
      Idle, Off, WriterFree, Transacting
<1>1. TypeOK'
  OBVIOUS
<1>2. AtWork'
  OBVIOUS
<1>3. OneWriter'
  BY DEF OneWriter
<1>4. OwnId'
  BY DEF OwnId, Before, DrawnIds
<1>5. DrawnIds'
  BY DEF DrawnIds, OwnId, Before
<1>6. MarkerDiscipline'
  BY DEF MarkerDiscipline, OwnId, Before, DrawnIds
<1>7. RetiredPaths'
  BY DEF RetiredPaths, Retired, Claiming, OwnId, Before, DrawnIds,
      MarkerDiscipline
<1>8. SettledFiles'
  BY DEF SettledFiles, Accounted, OwnId, Before, RetiredPaths, Retired,
      DrawnIds
<1>9. Commanded'
  BY DEF Commanded, OneWriter
<1>10. RowHasFile'
  BY DEF RowHasFile, OwnId, Before, RetiredPaths, Retired, MarkerDiscipline,
      SettledFiles, DrawnIds
<1>11. FilesAccounted'
  BY DEF FilesAccounted, OwnId, Before, RetiredPaths, Retired, SettledFiles,
      Accounted, MarkerDiscipline
<1>12. LinkedHasRow'
  BY DEF LinkedHasRow
<1>13. OneAssetPerCommand'
  BY DEF OneAssetPerCommand, Commanded, OwnId, Before
<1>14. QED
  BY <1>1, <1>2, <1>3, <1>4, <1>5, <1>6, <1>7, <1>8, <1>9, <1>10, <1>11, <1>12, <1>13

LEMMA KeepRowInv ==
  ASSUME IInv, NEW h \in Hosts, KeepRow(h)
  PROVE  IInv'
<1> USE VaultAssumption DEF IInv, TypeOK, OpRecord, Steps, AtWork, Assets,
      Generated, KeepRow, Done, Go, Idle, Off
<1>1. TypeOK'
  OBVIOUS
<1>2. AtWork'
  OBVIOUS
<1>3. OneWriter'
  BY DEF OneWriter, Transacting
<1>4. OwnId'
  BY DEF OwnId, Before, DrawnIds
<1>5. DrawnIds'
  BY DEF DrawnIds, OwnId, Before
<1>6. MarkerDiscipline'
  BY DEF MarkerDiscipline, OwnId, Before, DrawnIds
<1>7. RetiredPaths'
  BY DEF RetiredPaths, Retired, Claiming, Transacting, OwnId, Before,
      DrawnIds, MarkerDiscipline
<1>8. SettledFiles'
  BY DEF SettledFiles, Accounted, OwnId, Before, RetiredPaths, Retired,
      DrawnIds
<1>9. Commanded'
  BY DEF Commanded, Transacting, OneWriter
<1>10. RowHasFile' /\ FilesAccounted' /\ LinkedHasRow' /\ OneAssetPerCommand'
  BY DEF RowHasFile, FilesAccounted, Referrers, LinkedHasRow,
      OneAssetPerCommand
<1>11. QED
  BY <1>1, <1>2, <1>3, <1>4, <1>5, <1>6, <1>7, <1>8, <1>9, <1>10

LEMMA RetryGarbageInv ==
  ASSUME IInv, NEW h \in Hosts, NEW x \in Generated, RetryGarbage(h, x)
  PROVE  IInv'
<1> USE VaultAssumption DEF IInv, TypeOK, OpRecord, Steps, AtWork, Assets,
      Generated, RetryGarbage, Idle, Off
<1>1. TypeOK'
  OBVIOUS
<1>2. AtWork'
  OBVIOUS
<1>3. OneWriter'
  BY DEF OneWriter, Transacting
<1>4. OwnId'
  BY DEF OwnId, Before, DrawnIds
<1>5. DrawnIds'
  BY DEF DrawnIds, RetiredPaths
<1>6. MarkerDiscipline'
  BY DEF MarkerDiscipline, OwnId, Before, DrawnIds
<1>7. RetiredPaths'
  BY DEF RetiredPaths, Retired, Claiming, Transacting, OwnId, Before,
      DrawnIds, MarkerDiscipline
<1>8. SettledFiles'
  BY DEF SettledFiles, Accounted, OwnId, Before, RetiredPaths, Retired,
      DrawnIds
<1>9. Commanded'
  BY DEF Commanded, Transacting, OneWriter
<1>10. RowHasFile' /\ FilesAccounted' /\ LinkedHasRow' /\ OneAssetPerCommand'
  BY DEF RowHasFile, FilesAccounted, Referrers, LinkedHasRow,
      OneAssetPerCommand
<1>11. QED
  BY <1>1, <1>2, <1>3, <1>4, <1>5, <1>6, <1>7, <1>8, <1>9, <1>10

LEMMA CheckGarbageInv ==
  ASSUME IInv, NEW h \in Hosts, CheckGarbage(h)
  PROVE  IInv'
<1> USE VaultAssumption DEF IInv, TypeOK, OpRecord, Steps, AtWork, Assets,
      Generated, CheckGarbage, Referrers, Done, Go, Idle, Off
<1>1. TypeOK'
  OBVIOUS
<1>2. AtWork'
  BY DEF RetiredPaths, Retired
<1>3. OneWriter'
  BY DEF OneWriter, Transacting
<1>4. OwnId'
  BY DEF OwnId, Before, DrawnIds
<1>5. DrawnIds'
  BY DEF DrawnIds, OwnId, Before
<1>6. MarkerDiscipline'
  BY DEF MarkerDiscipline, OwnId, Before, DrawnIds
<1>7. RetiredPaths'
  <2>1. ASSUME NEW p, Retired(p)
        PROVE  Retired(p)'
    BY <2>1 DEF Retired, Claiming, Transacting
  <2>2. \A p \in Assets : Retired(p) => Referrers(p) = {}
    BY DEF Retired
  <2>3. op'[h].step = "erasing" =>
            op'[h].path = garbage[op[h].asset] /\ garbage[op[h].asset] # None
    OBVIOUS
  <2>4. op[h].asset \in Generated /\ op[h].step = "collecting"
    BY DEF RetiredPaths
  <2>5. op'[h].step # "forgetting"
    <3>1. garbage[op[h].asset] # None => Referrers(garbage[op[h].asset]) = {}
      BY <2>2, <2>4 DEF RetiredPaths
    <3>2. CASE garbage[op[h].asset] = None
      <4>1. op' = [op EXCEPT ![h] = Idle]
        BY <2>4, <3>2
      <4>2. Idle.step = "idle"
        BY DEF Idle, Off
      <4>3. QED
        BY <4>1, <4>2
    <3>3. CASE garbage[op[h].asset] # None
      <4>1. Referrers(garbage[op[h].asset]) = {}
        BY <3>1, <3>3
      <4>2. op' = [op EXCEPT ![h].step = "erasing", ![h].path = garbage[op[h].asset]]
        BY <3>3, <4>1
      <4>3. QED
        BY <2>4, <4>2
    <3>4. QED
      BY <3>2, <3>3
  <2>6. QED
    BY <2>1, <2>3, <2>4, <2>5 DEF RetiredPaths
<1>8. SettledFiles'
  BY DEF SettledFiles, Accounted, OwnId, Before, RetiredPaths, Retired,
      DrawnIds
<1>9. Commanded'
  BY DEF Commanded, Transacting, OneWriter
<1>10. RowHasFile' /\ FilesAccounted' /\ LinkedHasRow' /\ OneAssetPerCommand'
  BY DEF RowHasFile, FilesAccounted, LinkedHasRow, OneAssetPerCommand
<1>11. QED
  BY <1>1, <1>2, <1>3, <1>4, <1>5, <1>6, <1>7, <1>8, <1>9, <1>10

LEMMA EraseFileInv ==
  ASSUME IInv, NEW h \in Hosts, EraseFile(h)
  PROVE  IInv'
<1> USE VaultAssumption DEF IInv, TypeOK, OpRecord, Steps, AtWork, Assets,
      Generated, EraseFile, Go
<1>1. TypeOK'
  OBVIOUS
<1>2. AtWork'
  OBVIOUS
<1>3. OneWriter'
  BY DEF OneWriter, Transacting
<1>4. OwnId'
  BY DEF OwnId, Before, DrawnIds
<1>5. DrawnIds'
  BY DEF DrawnIds, OwnId, Before
<1>6. MarkerDiscipline'
  BY DEF MarkerDiscipline, OwnId, Before, DrawnIds
<1>7. RetiredPaths'
  BY DEF RetiredPaths, Retired, Claiming, Transacting, OwnId, Before,
      DrawnIds, MarkerDiscipline
<1>8. SettledFiles'
  BY DEF SettledFiles, Accounted, OwnId, Before, RetiredPaths, Retired,
      DrawnIds, Claiming
<1>9. Commanded'
  BY DEF Commanded, Transacting, OneWriter
<1>10. RowHasFile'
  BY DEF RowHasFile, OwnId, Before, RetiredPaths, Retired, MarkerDiscipline,
      SettledFiles, DrawnIds
<1>11. FilesAccounted'
  BY DEF FilesAccounted, Referrers, OwnId, Before, RetiredPaths, Retired,
      SettledFiles, Accounted, MarkerDiscipline
<1>12. LinkedHasRow' /\ OneAssetPerCommand'
  BY DEF LinkedHasRow, OneAssetPerCommand
<1>13. QED
  BY <1>1, <1>2, <1>3, <1>4, <1>5, <1>6, <1>7, <1>8, <1>9, <1>10, <1>11, <1>12

LEMMA EraseFailsInv ==
  ASSUME IInv, NEW h \in Hosts, EraseFails(h)
  PROVE  IInv'
<1> USE VaultAssumption DEF IInv, TypeOK, OpRecord, Steps, AtWork, Assets,
      Generated, EraseFails, Done, Idle, Off
<1>1. TypeOK'
  OBVIOUS
<1>2. AtWork'
  OBVIOUS
<1>3. OneWriter'
  BY DEF OneWriter, Transacting
<1>4. OwnId'
  BY DEF OwnId, Before, DrawnIds
<1>5. DrawnIds'
  BY DEF DrawnIds, OwnId, Before
<1>6. MarkerDiscipline'
  BY DEF MarkerDiscipline, OwnId, Before, DrawnIds
<1>7. RetiredPaths'
  BY DEF RetiredPaths, Retired, Claiming, Transacting, OwnId, Before,
      DrawnIds, MarkerDiscipline
<1>8. SettledFiles'
  BY DEF SettledFiles, Accounted, OwnId, Before, RetiredPaths, Retired,
      DrawnIds
<1>9. Commanded'
  BY DEF Commanded, Transacting, OneWriter
<1>10. RowHasFile' /\ FilesAccounted' /\ LinkedHasRow' /\ OneAssetPerCommand'
  BY DEF RowHasFile, FilesAccounted, Referrers, LinkedHasRow,
      OneAssetPerCommand
<1>11. QED
  BY <1>1, <1>2, <1>3, <1>4, <1>5, <1>6, <1>7, <1>8, <1>9, <1>10

LEMMA ForgetGarbageInv ==
  ASSUME IInv, NEW h \in Hosts, ForgetGarbage(h)
  PROVE  IInv'
<1> USE VaultAssumption DEF IInv, TypeOK, OpRecord, Steps, AtWork, Assets,
      Generated, ForgetGarbage, Done, Idle, Off, WriterFree, Transacting
<1>1. TypeOK'
  OBVIOUS
<1>2. AtWork'
  OBVIOUS
<1>3. OneWriter'
  BY DEF OneWriter
<1>4. OwnId'
  BY DEF OwnId, Before, DrawnIds
<1>5. DrawnIds'
  BY DEF DrawnIds, OwnId, Before
<1>6. MarkerDiscipline'
  BY DEF MarkerDiscipline, OwnId, Before, DrawnIds
<1>7. RetiredPaths'
  BY DEF RetiredPaths, Retired, Claiming, OwnId, Before, DrawnIds,
      MarkerDiscipline
<1>8. SettledFiles'
  BY DEF SettledFiles, Accounted, OwnId, Before, RetiredPaths, Retired,
      DrawnIds
<1>9. Commanded'
  BY DEF Commanded, OneWriter
<1>10. FilesAccounted'
  BY DEF FilesAccounted, Referrers, OwnId, Before, RetiredPaths, Retired,
      SettledFiles, Accounted, MarkerDiscipline
<1>11. RowHasFile' /\ LinkedHasRow' /\ OneAssetPerCommand'
  BY DEF RowHasFile, LinkedHasRow, OneAssetPerCommand
<1>12. QED
  BY <1>1, <1>2, <1>3, <1>4, <1>5, <1>6, <1>7, <1>8, <1>9, <1>10, <1>11

-------------------------------------------------------------------------------
(* Starting and recovering.                                                *)

LEMMA StartInv ==
  ASSUME IInv, NEW h \in Hosts, Start(h)
  PROVE  IInv'
<1> USE VaultAssumption DEF IInv, TypeOK, OpRecord, Steps, AtWork, Assets,
      Generated, Start, Go, RecoveryFree, Recovering
<1>1. TypeOK'
  OBVIOUS
<1>2. AtWork'
  OBVIOUS
<1>3. OneWriter'
  BY DEF OneWriter, Transacting
<1>4. OwnId'
  BY DEF OwnId, Before, DrawnIds
<1>5. DrawnIds'
  BY DEF DrawnIds, OwnId, Before
<1>6. MarkerDiscipline'
  BY DEF MarkerDiscipline, OwnId, Before, DrawnIds
<1>7. RetiredPaths'
  BY DEF RetiredPaths, Retired, Claiming, Transacting, OwnId, Before,
      DrawnIds, MarkerDiscipline
<1>8. SettledFiles'
  BY DEF SettledFiles, Accounted, OwnId, Before, RetiredPaths, Retired,
      DrawnIds
<1>9. Commanded'
  BY DEF Commanded, Transacting, OneWriter
<1>10. RowHasFile' /\ FilesAccounted' /\ LinkedHasRow' /\ OneAssetPerCommand'
  BY DEF RowHasFile, FilesAccounted, Referrers, LinkedHasRow,
      OneAssetPerCommand
<1>11. QED
  BY <1>1, <1>2, <1>3, <1>4, <1>5, <1>6, <1>7, <1>8, <1>9, <1>10

LEMMA SettleMarkerInv ==
  ASSUME IInv, NEW h \in Hosts, NEW a \in Assets, SettleMarker(h, a)
  PROVE  IInv'
<1> USE VaultAssumption DEF IInv, TypeOK, OpRecord, Steps, AtWork, Assets,
      Generated, SettleMarker, Settleable, Leased
<1>1. TypeOK'
  <2>1. op'[h] = [op[h] EXCEPT !.step = "settling", !.asset = a]
    OBVIOUS
  <2>2. op'[h] \in OpRecord
    BY <2>1
  <2>3. QED
    BY <2>2
<1>2. AtWork'
  OBVIOUS
<1>3. OneWriter'
  BY DEF OneWriter, Transacting
<1>4. OwnId'
  BY DEF OwnId, Before, DrawnIds
<1>5. DrawnIds'
  BY DEF DrawnIds, OwnId, Before
<1>6. MarkerDiscipline'
  BY DEF MarkerDiscipline, OwnId, Before, DrawnIds
<1>7. RetiredPaths'
  BY DEF RetiredPaths, Retired, Claiming, Transacting, OwnId, Before,
      DrawnIds, MarkerDiscipline
<1>8. SettledFiles'
  BY DEF SettledFiles, Accounted, OwnId, Before, RetiredPaths, Retired,
      DrawnIds
<1>9. Commanded'
  BY DEF Commanded, Transacting, OneWriter
<1>10. RowHasFile' /\ FilesAccounted' /\ LinkedHasRow' /\ OneAssetPerCommand'
  BY DEF RowHasFile, FilesAccounted, Referrers, LinkedHasRow,
      OneAssetPerCommand
<1>11. QED
  BY <1>1, <1>2, <1>3, <1>4, <1>5, <1>6, <1>7, <1>8, <1>9, <1>10

LEMMA ReadRowsInv ==
  ASSUME IInv, NEW h \in Hosts, ReadRows(h)
  PROVE  IInv'
<1> USE VaultAssumption DEF IInv, TypeOK, OpRecord, Steps, AtWork, Assets,
      Generated, ReadRows, Go, Referrers
<1>1. TypeOK'
  OBVIOUS
<1>2. AtWork'
  OBVIOUS
<1>3. OneWriter'
  BY DEF OneWriter, Transacting
<1>4. OwnId'
  BY DEF OwnId, Before, DrawnIds
<1>5. DrawnIds'
  BY DEF DrawnIds, OwnId, Before
<1>6. MarkerDiscipline'
  BY DEF MarkerDiscipline, OwnId, Before, DrawnIds
<1>7. RetiredPaths'
  BY DEF RetiredPaths, Retired, Claiming, Transacting, OwnId, Before,
      DrawnIds, MarkerDiscipline
<1>8. SettledFiles'
  BY DEF SettledFiles, Accounted, OwnId, MarkerDiscipline
<1>9. Commanded'
  BY DEF Commanded, Transacting, OneWriter
<1>10. RowHasFile' /\ FilesAccounted' /\ LinkedHasRow' /\ OneAssetPerCommand'
  BY DEF RowHasFile, FilesAccounted, LinkedHasRow, OneAssetPerCommand
<1>11. QED
  BY <1>1, <1>2, <1>3, <1>4, <1>5, <1>6, <1>7, <1>8, <1>9, <1>10

LEMMA DropCandidateInv ==
  ASSUME IInv, NEW h \in Hosts, DropCandidate(h)
  PROVE  IInv'
<1> USE VaultAssumption DEF IInv, TypeOK, OpRecord, Steps, AtWork, Assets,
      Generated, DropCandidate, Go
<1>1. TypeOK'
  OBVIOUS
<1>2. AtWork'
  OBVIOUS
<1>3. OneWriter'
  BY DEF OneWriter, Transacting
<1>4. OwnId'
  BY DEF OwnId, Before, DrawnIds
<1>5. DrawnIds'
  BY DEF DrawnIds, OwnId, Before
<1>6. MarkerDiscipline'
  BY DEF MarkerDiscipline, OwnId, Before, DrawnIds
<1>7. RetiredPaths'
  BY DEF RetiredPaths, Retired, Claiming, Transacting, OwnId, Before,
      DrawnIds, MarkerDiscipline
<1>8. SettledFiles'
  BY DEF SettledFiles, Accounted, OwnId, Before, RetiredPaths, Retired,
      DrawnIds, Claiming
<1>9. Commanded'
  BY DEF Commanded, Transacting, OneWriter
<1>10. RowHasFile'
  BY DEF RowHasFile, OwnId, Before, RetiredPaths, Retired, MarkerDiscipline,
      SettledFiles, DrawnIds
<1>11. FilesAccounted'
  BY DEF FilesAccounted, Referrers, OwnId, Before, RetiredPaths, Retired,
      SettledFiles, Accounted, MarkerDiscipline
<1>12. LinkedHasRow' /\ OneAssetPerCommand'
  BY DEF LinkedHasRow, OneAssetPerCommand
<1>13. QED
  BY <1>1, <1>2, <1>3, <1>4, <1>5, <1>6, <1>7, <1>8, <1>9, <1>10, <1>11, <1>12

LEMMA ClearSettledInv ==
  ASSUME IInv, NEW h \in Hosts, ClearSettled(h)
  PROVE  IInv'
<1> USE VaultAssumption DEF IInv, TypeOK, OpRecord, Steps, AtWork, Assets,
      Generated, ClearSettled, Off
<1>1. TypeOK'
  OBVIOUS
<1>2. AtWork'
  OBVIOUS
<1>3. OneWriter'
  BY DEF OneWriter, Transacting
<1>4. OwnId'
  BY DEF OwnId, Before, DrawnIds
<1>5. DrawnIds'
  BY DEF DrawnIds, OwnId, Before
<1>6. MarkerDiscipline'
  BY DEF MarkerDiscipline, OwnId, Before, DrawnIds
<1>7. RetiredPaths'
  BY DEF RetiredPaths, Retired, Claiming, Transacting, OwnId, Before,
      DrawnIds, MarkerDiscipline
<1>8. SettledFiles'
  BY DEF SettledFiles, Accounted, OwnId, Before, RetiredPaths, Retired,
      DrawnIds
<1>9. Commanded'
  BY DEF Commanded, Transacting, OneWriter
<1>10. FilesAccounted'
  BY DEF FilesAccounted, Referrers, OwnId, Before, RetiredPaths, Retired,
      SettledFiles, Accounted, MarkerDiscipline
<1>11. RowHasFile' /\ LinkedHasRow' /\ OneAssetPerCommand'
  BY DEF RowHasFile, LinkedHasRow, OneAssetPerCommand
<1>12. QED
  BY <1>1, <1>2, <1>3, <1>4, <1>5, <1>6, <1>7, <1>8, <1>9, <1>10, <1>11

LEMMA DeferMarkerInv ==
  ASSUME IInv, NEW h \in Hosts, DeferMarker(h)
  PROVE  IInv'
<1> USE VaultAssumption DEF IInv, TypeOK, OpRecord, Steps, AtWork, Assets,
      Generated, DeferMarker, Off
<1>1. TypeOK'
  OBVIOUS
<1>2. AtWork'
  OBVIOUS
<1>3. OneWriter'
  BY DEF OneWriter, Transacting
<1>4. OwnId'
  BY DEF OwnId, Before, DrawnIds
<1>5. DrawnIds'
  BY DEF DrawnIds, OwnId, Before
<1>6. MarkerDiscipline'
  BY DEF MarkerDiscipline, OwnId, Before, DrawnIds
<1>7. RetiredPaths'
  BY DEF RetiredPaths, Retired, Claiming, Transacting, OwnId, Before,
      DrawnIds, MarkerDiscipline
<1>8. SettledFiles'
  BY DEF SettledFiles, Accounted, OwnId, Before, RetiredPaths, Retired,
      DrawnIds
<1>9. Commanded'
  BY DEF Commanded, Transacting, OneWriter
<1>10. RowHasFile' /\ FilesAccounted' /\ LinkedHasRow' /\ OneAssetPerCommand'
  BY DEF RowHasFile, FilesAccounted, Referrers, LinkedHasRow,
      OneAssetPerCommand
<1>11. QED
  BY <1>1, <1>2, <1>3, <1>4, <1>5, <1>6, <1>7, <1>8, <1>9, <1>10

LEMMA StartedInv ==
  ASSUME IInv, NEW h \in Hosts, Started(h)
  PROVE  IInv'
<1> USE VaultAssumption DEF IInv, TypeOK, OpRecord, Steps, AtWork, Assets,
      Generated, Started, Done, Idle, Off
<1>1. TypeOK'
  OBVIOUS
<1>2. AtWork'
  OBVIOUS
<1>3. OneWriter'
  BY DEF OneWriter, Transacting
<1>4. OwnId'
  BY DEF OwnId, Before, DrawnIds
<1>5. DrawnIds'
  BY DEF DrawnIds, OwnId, Before
<1>6. MarkerDiscipline'
  BY DEF MarkerDiscipline, OwnId, Before, DrawnIds
<1>7. RetiredPaths'
  BY DEF RetiredPaths, Retired, Claiming, Transacting, OwnId, Before,
      DrawnIds, MarkerDiscipline
<1>8. SettledFiles'
  BY DEF SettledFiles, Accounted, OwnId, Before, RetiredPaths, Retired,
      DrawnIds
<1>9. Commanded'
  BY DEF Commanded, Transacting, OneWriter
<1>10. RowHasFile' /\ FilesAccounted' /\ LinkedHasRow' /\ OneAssetPerCommand'
  BY DEF RowHasFile, FilesAccounted, Referrers, LinkedHasRow,
      OneAssetPerCommand
<1>11. QED
  BY <1>1, <1>2, <1>3, <1>4, <1>5, <1>6, <1>7, <1>8, <1>9, <1>10

LEMMA CrashInv ==
  ASSUME IInv, NEW h \in Hosts, Crash(h)
  PROVE  IInv'
<1> USE VaultAssumption DEF IInv, TypeOK, OpRecord, Steps, AtWork, Assets,
      Generated, Crash, Off
<1>1. TypeOK'
  OBVIOUS
<1>2. AtWork'
  OBVIOUS
<1>3. OneWriter'
  BY DEF OneWriter, Transacting
<1>4. OwnId'
  BY DEF OwnId, Before, DrawnIds
<1>5. DrawnIds'
  BY DEF DrawnIds, OwnId, Before
<1>6. MarkerDiscipline'
  BY DEF MarkerDiscipline, OwnId, Before, DrawnIds
<1>7. RetiredPaths'
  BY DEF RetiredPaths, Retired, Claiming, Transacting, OwnId, Before,
      DrawnIds, MarkerDiscipline
<1>8. SettledFiles'
  BY DEF SettledFiles, Accounted, OwnId, Before, RetiredPaths, Retired,
      DrawnIds
<1>9. Commanded'
  BY DEF Commanded, Transacting, OneWriter
<1>10. RowHasFile' /\ FilesAccounted' /\ LinkedHasRow' /\ OneAssetPerCommand'
  BY DEF RowHasFile, FilesAccounted, Referrers, LinkedHasRow,
      OneAssetPerCommand
<1>11. QED
  BY <1>1, <1>2, <1>3, <1>4, <1>5, <1>6, <1>7, <1>8, <1>9, <1>10

-------------------------------------------------------------------------------
(* Losing and restoring.                                                   *)

LEMMA LoseFileInv ==
  ASSUME IInv, NEW a \in Assets, LoseFile(a)
  PROVE  IInv'
<1> USE VaultAssumption DEF IInv, TypeOK, OpRecord, Steps, AtWork, Assets,
      Generated, LoseFile, Referrers
<1>1. TypeOK'
  OBVIOUS
<1>2. RetiredPaths'
  BY DEF RetiredPaths, Retired, Claiming, Transacting, OwnId, Before,
      DrawnIds, MarkerDiscipline
<1>3. SettledFiles'
  BY DEF SettledFiles, Accounted, OwnId, Before, RetiredPaths, Retired,
      DrawnIds
<1>4. RowHasFile'
  BY DEF RowHasFile, OwnId, Before, RetiredPaths, Retired, MarkerDiscipline,
      SettledFiles, DrawnIds
<1>5. FilesAccounted'
  BY DEF FilesAccounted, OwnId, Before, RetiredPaths, Retired, SettledFiles,
      Accounted, MarkerDiscipline
<1>6. AtWork' /\ OneWriter' /\ OwnId' /\ DrawnIds' /\ MarkerDiscipline' /\
      Commanded' /\ LinkedHasRow' /\ OneAssetPerCommand'
  BY DEF OneWriter, Transacting, OwnId, Before, DrawnIds, MarkerDiscipline,
      Commanded, LinkedHasRow, OneAssetPerCommand
<1>7. QED
  BY <1>1, <1>2, <1>3, <1>4, <1>5, <1>6

LEMMA StartRestoreInv ==
  ASSUME IInv, NEW a \in Assets, StartRestore(a)
  PROVE  IInv'
<1> USE VaultAssumption DEF IInv, TypeOK, OpRecord, Steps, AtWork, Assets,
      Generated, StartRestore
<1>1. TypeOK'
  OBVIOUS
<1>2. OwnId'
  BY DEF OwnId, Before, DrawnIds
<1>3. DrawnIds'
  BY DEF DrawnIds, OwnId, Before
<1>4. AtWork' /\ OneWriter' /\ MarkerDiscipline' /\ RetiredPaths' /\
      SettledFiles' /\ Commanded' /\ RowHasFile' /\ FilesAccounted' /\
      LinkedHasRow' /\ OneAssetPerCommand'
  BY DEF OneWriter, Transacting, MarkerDiscipline, RetiredPaths, Retired,
      Claiming, SettledFiles, Accounted, Commanded, RowHasFile,
      FilesAccounted, Referrers, LinkedHasRow, OneAssetPerCommand
<1>5. QED
  BY <1>1, <1>2, <1>3, <1>4

LEMMA LinkRestoredInv ==
  ASSUME IInv, NEW a \in Assets, LinkRestored(a)
  PROVE  IInv'
<1> USE VaultAssumption DEF IInv, TypeOK, OpRecord, Steps, AtWork, Assets,
      Generated, LinkRestored, Referrers
<1>1. TypeOK'
  OBVIOUS
<1>2. OwnId'
  BY DEF OwnId, Before, DrawnIds
<1>3. DrawnIds'
  BY DEF DrawnIds, OwnId, Before
<1>4. RetiredPaths'
  BY DEF RetiredPaths, Retired, Claiming, Transacting, OwnId, Before,
      DrawnIds, MarkerDiscipline
<1>5. SettledFiles'
  BY DEF SettledFiles, Accounted, OwnId, Before, RetiredPaths, Retired,
      DrawnIds
<1>6. RowHasFile'
  BY DEF RowHasFile, OwnId, Before, RetiredPaths, Retired, MarkerDiscipline,
      SettledFiles, DrawnIds
<1>7. FilesAccounted'
  BY DEF FilesAccounted, OwnId, Before, RetiredPaths, Retired, SettledFiles,
      Accounted, MarkerDiscipline
<1>8. AtWork' /\ OneWriter' /\ MarkerDiscipline' /\ Commanded' /\
      LinkedHasRow' /\ OneAssetPerCommand'
  BY DEF OneWriter, Transacting, MarkerDiscipline, Commanded, LinkedHasRow,
      OneAssetPerCommand
<1>9. QED
  BY <1>1, <1>2, <1>3, <1>4, <1>5, <1>6, <1>7, <1>8

LEMMA RestoreFailsInv ==
  ASSUME IInv, NEW a \in Assets, RestoreFails(a)
  PROVE  IInv'
<1> USE VaultAssumption DEF IInv, TypeOK, OpRecord, Steps, AtWork, Assets,
      Generated, RestoreFails
<1>1. TypeOK'
  OBVIOUS
<1>2. OwnId'
  BY DEF OwnId, Before, DrawnIds
<1>3. DrawnIds'
  BY DEF DrawnIds, OwnId, Before
<1>4. AtWork' /\ OneWriter' /\ MarkerDiscipline' /\ RetiredPaths' /\
      SettledFiles' /\ Commanded' /\ RowHasFile' /\ FilesAccounted' /\
      LinkedHasRow' /\ OneAssetPerCommand'
  BY DEF OneWriter, Transacting, MarkerDiscipline, RetiredPaths, Retired,
      Claiming, SettledFiles, Accounted, Commanded, RowHasFile,
      FilesAccounted, Referrers, LinkedHasRow, OneAssetPerCommand
<1>5. QED
  BY <1>1, <1>2, <1>3, <1>4

-------------------------------------------------------------------------------
LEMMA ImportStepInv ==
  ASSUME IInv, NEW h \in Hosts, ImportStep(h)
  PROVE  IInv'
BY StageImportInv, BeginImportInv, MarkImportInv, PlaceFileInv, CommitReuseInv,
   CommitImportInv, RollBackInv, CommitUnknownInv, ReleaseLeaseInv, ClearMarkerInv,
   RemoveUncommittedInv, LeaveUncommittedInv, ClearUncommittedInv DEF ImportStep

LEMMA CollectStepInv ==
  ASSUME IInv, NEW h \in Hosts, CollectStep(h)
  PROVE  IInv'
BY LinkAssetInv, LinkRefusedInv, ReuseArtifactInv, ReconcileAssetInv, DeleteRowInv, KeepRowInv,
   RetryGarbageInv, CheckGarbageInv, EraseFileInv, EraseFailsInv, ForgetGarbageInv DEF CollectStep

LEMMA StartStepInv ==
  ASSUME IInv, NEW h \in Hosts, StartStep(h)
  PROVE  IInv'
BY StartInv, StartedInv, CrashInv, SettleMarkerInv, ReadRowsInv, DropCandidateInv,
   ClearSettledInv, DeferMarkerInv DEF StartStep

(* Losing a file is the environment's, of any file and not only the        *)
(* losable ones of an instance.                                            *)
LEMMA RestoreStepInv ==
  ASSUME IInv, RestoreStep
  PROVE  IInv'
<1>1. \A p : LoseFile(p) => p \in Assets
  BY DEF LoseFile, IInv, TypeOK
<1>2. QED
  BY <1>1, LoseFileInv, StartRestoreInv, LinkRestoredInv, RestoreFailsInv DEF RestoreStep

LEMMA StutterInv ==
  ASSUME IInv, UNCHANGED vars
  PROVE  IInv'
<1>1. (TypeOK /\ AtWork /\ OneWriter /\ OwnId /\ DrawnIds)'
  BY DEF IInv, vars, TypeOK, AtWork, OneWriter, Transacting, OwnId, Before, DrawnIds
<1>2. (MarkerDiscipline /\ SettledFiles /\ Commanded)'
  BY DEF IInv, vars, MarkerDiscipline, SettledFiles, Accounted, Commanded, Transacting
<1>3. RetiredPaths'
  BY DEF IInv, vars, RetiredPaths, Retired, Claiming, Transacting
<1>4. (RowHasFile /\ FilesAccounted /\ LinkedHasRow /\ OneAssetPerCommand)'
  BY DEF IInv, vars, RowHasFile, FilesAccounted, Referrers, LinkedHasRow,
       OneAssetPerCommand
<1>5. QED
  BY <1>1, <1>2, <1>3, <1>4 DEF IInv

LEMMA InitInv == Init => IInv
<1>1. Init => TypeOK
  BY DEF Init, TypeOK, Off, OpRecord, Steps
<1>2. Init => \A h \in Hosts : op[h] = Off
  BY DEF Init
<1>3. Init => AtWork /\ OneWriter /\ OwnId /\ DrawnIds
  BY VaultAssumption, <1>2 DEF Init, Off, AtWork, OneWriter, Transacting, OwnId, Before,
       DrawnIds
<1>4. Init => MarkerDiscipline /\ RetiredPaths /\ SettledFiles /\ Commanded
  BY <1>2 DEF Init, Off, MarkerDiscipline, RetiredPaths, SettledFiles, Commanded, Transacting
<1>5. Init => RowHasFile /\ FilesAccounted /\ LinkedHasRow /\ OneAssetPerCommand
  BY DEF Init, RowHasFile, FilesAccounted, LinkedHasRow, OneAssetPerCommand,
       Assets, Generated
<1>6. QED
  BY <1>1, <1>3, <1>4, <1>5 DEF IInv

(* The strengthened invariant, for every step of every host.               *)
THEOREM Invariance == Spec => []IInv
<1>1. IInv /\ [Next]_vars => IInv'
  BY ImportStepInv, CollectStepInv, StartStepInv, RestoreStepInv, StutterInv DEF Next
<1>2. QED
  BY InitInv, <1>1, PTL DEF Spec

(* Type correctness of the Vault's rows, files and hosts.                  *)
THEOREM TypeCorrect == Spec => []TypeOK
BY Invariance, PTL DEF IInv

(* No recovery, rollback or collector deletes a file a row names.          *)
THEOREM RowsHaveFiles == Spec => []RowHasFile
BY Invariance, PTL DEF IInv

(* Wherever a host stops, every file is still named or announced.          *)
THEOREM NoFileForgotten == Spec => []FilesAccounted
BY Invariance, PTL DEF IInv

(* The collector never takes an asset another host has linked.             *)
THEOREM LinksHold == Spec => []LinkedHasRow
BY Invariance, PTL DEF IInv

(* However many hosts run a command, one asset comes of it.                *)
THEOREM CommandsImportOnce == Spec => []OneAssetPerCommand
BY Invariance, PTL DEF IInv
==============================================================================
