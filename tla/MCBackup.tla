------------------------------ MODULE MCBackup ------------------------------
(* Model of BackupEngine for TLC: two source trees, one of which has a     *)
(* chunk more than the other, so that a backup may reuse a chunk, add one  *)
(* or orphan one; transaction ids are few, but each may be used any number *)
(* of times by backups that abort or crash.                                *)
EXTENDS BackupEngine
=============================================================================
