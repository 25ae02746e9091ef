---------------------------- MODULE MCBackupOutbox ----------------------------
(* A small instance of BackupOutbox.                                        *)
EXTENDS BackupOutbox
===============================================================================
