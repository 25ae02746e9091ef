---------------------------- MODULE MCBackupWorker ----------------------------
(* Small instances of BackupWorker.                                         *)
EXTENDS BackupWorker, TLC

(* Revisions are only compared for equality, so that of a failed row which  *)
(* no upload still holds may be any other.  Giving it the first again lets  *)
(* assets fail and come back without end below the bound MaxRevision.       *)
Renumber(a) ==
    /\ backup[a].state = "failed" /\ backup[a].revision > 1
    /\ \A h \in Hosts : uploader[h].asset # a
    /\ backup' = [backup EXCEPT ![a].revision = 1]
    /\ UNCHANGED <<line, uploader, wake, phase, notice, sent, starts>>

EndlessNext == Next \/ \E a \in Assets : Renumber(a)

EndlessSpec == Init /\ [][EndlessNext]_vars /\ Fairness

Symmetry == Permutations(Assets) \cup Permutations(Hosts)
===============================================================================
