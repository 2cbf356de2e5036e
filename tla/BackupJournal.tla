--------------------------- MODULE BackupJournal ----------------------------
(***************************************************************************)
(* What the metadata of a repository promises through crashes, aborted     *)
(* backups and failed commits: backups are completed one by one, in the    *)
(* order of their ids.  The one after the last completed may be published, *)
(* archived and audited any number of times, by backups that are cut off;  *)
(* it is completed only when manifest, snapshot and audit chain agree on   *)
(* it.                                                                     *)
(***************************************************************************)
EXTENDS Naturals

CONSTANTS Trees,       \* what may be backed up
          Archiving    \* whether there are snapshots

VARIABLES completed,   \* id of the last completed backup, 0 for none
          head,        \* the manifest
          archive,     \* the snapshots
          journal      \* the last audit entry

vars == <<completed, head, archive, journal>>

Nothing == [txn |-> 0, chunks |-> {}]

Init == /\ completed = 0 /\ archive = {}
        /\ head = Nothing /\ journal = Nothing

InFlight == head.txn = completed + 1

Publish(tree) ==
    /\ head' = [txn |-> completed + 1, chunks |-> tree]
    /\ UNCHANGED <<completed, archive, journal>>

Archive ==
    /\ Archiving /\ InFlight
    /\ archive' = {s \in archive : s.txn # head.txn} \cup {head}
    /\ UNCHANGED <<completed, head, journal>>

Audit ==
    /\ InFlight
    /\ Archiving => head \in archive
    /\ journal' = head
    /\ UNCHANGED <<completed, head, archive>>

Complete ==
    /\ InFlight /\ journal = head
    /\ Archiving => head \in archive
    /\ completed' = completed + 1
    /\ UNCHANGED <<head, archive, journal>>

(* Retention takes any snapshot but that of the manifest.                  *)
Prune(s) ==
    /\ s # head
    /\ archive' = archive \ {s}
    /\ UNCHANGED <<completed, head, journal>>

Next == \/ \E tree \in Trees : Publish(tree)
        \/ Archive \/ Audit \/ Complete
        \/ \E s \in archive : Prune(s)

Spec == Init /\ [][Next]_vars
=============================================================================
