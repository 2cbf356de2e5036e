----------------------------- MODULE SyncProofs -----------------------------
(***************************************************************************)
(* Proofs about SyncAgent for any number of backups, chunks and faults:    *)
(* type correctness, that what is recorded as synced is on the remote, and *)
(* that the remote's metadata names only backups that are on it.           *)
(***************************************************************************)
EXTENDS SyncAgent, TLAPS

Working == pc \in {"metadata", "upload", "index", "finish", "saved"}

(* Backup t is on the remote, unless one up to it went up incomplete or    *)
(* was taken for synced after a cut save.                                  *)
Marked == unfinished \union misread

Covered(t) == t > 0 /\ Marked \cap (1..t) = {} => Snap[t] \subseteq rChunks

(* A delta builds on a base that is there already.                         *)
BasesCovered == \A i \in 1..Len(outbox) : Covered(outbox[i].base)

(* A pack that was complete when it was put has all its chunks there.      *)
PacksWhole == \A t \in rPacks : t \notin unfinished => Pack[t] \subseteq rChunks

(* The packs a bundle consists of, and the one of a backup that runs.      *)
BundleShape ==
    \A o \in todo :
        \/ o.pack = 0
        \/ o.pack \in 1..packed /\ o.holds = Pack[o.pack]
        \/ o.pack = packed + 1

(* What an upload has not put yet is still to be put.                      *)
FullOnItsWay ==
    \A t \in 1..packed : t \notin unfinished => Pack[t] \subseteq rChunks \/ PackOf(t) \in todo

DeltaOnItsWay ==
    /\ Current.base < Current.target /\ Current.target <= packed
    /\ \A c \in Delta(Current) : c \in rChunks \/ ChunkObject(c) \in todo

UploadOK ==
    Working =>
        /\ BundleShape
        /\ IF Current.base = 0 THEN FullOnItsWay ELSE DeltaOnItsWay
        /\ pc \in {"index", "finish", "saved"} => todo = {}

IInv ==
    /\ TypeOK
    /\ partial => completed < MaxTxn
    /\ Covered(synced)
    /\ BasesCovered
    /\ PacksWhole
    /\ UploadOK

-----------------------------------------------------------------------------
USE MaxTxnAssumption, MaxFaultsAssumption, SnapAssumption, PackAssumption

(* The types hold before the first push. *)
LEMMA TypeInit == Init => TypeOK
  <1> SUFFICES ASSUME Init PROVE TypeOK
    OBVIOUS
  <1>1. outbox \in Seq(Entry) /\ entry \in 0..Len(outbox)
    BY DEF Init
  <1>2. completed \in Txn /\ latest \in completed..(completed + 1) /\ latest \in Txn
    BY DEF Init, Txn
  <1>3. synced \in Txn /\ rMeta \in Txn /\ rIndex \in Txn /\ packed \in Txn /\ meta \in Txn
    BY DEF Init, Txn
  <1>4. /\ partial \in BOOLEAN /\ backoff \in BOOLEAN /\ once \in BOOLEAN
        /\ snaps \subseteq 1..completed /\ misread \subseteq 1..MaxTxn
    BY DEF Init
  <1> QED BY <1>1, <1>2, <1>3, <1>4 DEF Init, TypeOK

(* An outbox holds entries. *)
LEMMA EntryOfOutbox ==
    ASSUME TypeOK, NEW i \in 1..Len(outbox)
    PROVE  outbox[i] \in Entry
  BY DEF TypeOK

(* Saving the state of an entry keeps the outbox an outbox. *)
LEMMA SetStateType ==
    ASSUME TypeOK, NEW i \in 1..Len(outbox),
           NEW s \in {"pending", "uploading", "done", "failed"},
           outbox' = [outbox EXCEPT ![i].state = s]
    PROVE  /\ outbox' \in Seq(Entry)
           /\ Len(outbox') = Len(outbox)
           /\ \A j \in 1..Len(outbox) : /\ outbox'[j].base = outbox[j].base
                                        /\ outbox'[j].target = outbox[j].target
  <1>1. outbox[i] \in Entry
    BY EntryOfOutbox
  <1>2. [outbox[i] EXCEPT !.state = s] \in Entry
    BY <1>1 DEF Entry
  <1>3. outbox \in Seq(Entry)
    BY DEF TypeOK
  <1>4. outbox' = [outbox EXCEPT ![i] = [outbox[i] EXCEPT !.state = s]]
    BY <1>3
  <1>5. outbox' \in Seq(Entry) /\ Len(outbox') = Len(outbox)
    BY <1>2, <1>3, <1>4
  <1>6. ASSUME NEW j \in 1..Len(outbox)
        PROVE  outbox'[j].base = outbox[j].base /\ outbox'[j].target = outbox[j].target
    <2>1. CASE j = i
      BY <1>1, <1>3, <1>4, <2>1 DEF Entry
    <2>2. CASE j # i
      BY <1>3, <1>4, <2>2
    <2> QED BY <2>1, <2>2
  <1> QED BY <1>5, <1>6

(* EnqueueSyncOutbox keeps the outbox an outbox. *)
LEMMA EnqueuedType ==
    ASSUME TypeOK
    PROVE  Enqueued \in Seq(Entry) /\ Len(Enqueued) >= Len(outbox)
  <1>1. [base |-> synced, target |-> latest, state |-> "pending"] \in Entry
    BY DEF TypeOK, Entry
  <1>2. outbox \in Seq(Entry)
    BY DEF TypeOK
  <1> QED BY <1>1, <1>2 DEF Enqueued

(* A bundle holds packs and chunks of the repository. *)
LEMMA BundleType ==
    ASSUME TypeOK, partial => completed < MaxTxn, pc = "export", CanExport(Current)
    PROVE  BundleChunks(Current) \subseteq Object
  <1>1. entry \in 1..Len(outbox)
    BY DEF TypeOK
  <1>2. Current \in Entry
    BY <1>1, EntryOfOutbox DEF Current
  <1>3. completed \in Nat /\ completed <= MaxTxn
    BY DEF TypeOK, Txn
  <1>4. \A t \in 1..completed : PackOf(t) \in Object
    BY <1>3 DEF PackOf, Object, Txn
  <1>5. partial => PartialPack(completed + 1) \in Object
    BY <1>3 DEF PartialPack, Object, Txn
  <1>6. \A x \in Chunks : ChunkObject(x) \in Object
    BY DEF ChunkObject, Object, Txn
  <1>7. Current.base # 0 => Delta(Current) \subseteq Chunks
    <2> SUFFICES ASSUME Current.base # 0 PROVE Snap[Current.target] \in SUBSET Chunks
      BY DEF Delta
    <2> QED BY <1>2, <1>3 DEF Entry, Txn, CanExport, TypeOK
  <1> QED BY <1>4, <1>5, <1>6, <1>7 DEF BundleChunks

(* A put keeps the types of the remote. *)
LEMMA StoreType ==
    ASSUME TypeOK, NEW o \in todo, Store(o)
    PROVE  /\ rChunks' \subseteq Chunks /\ rPacks' \subseteq 1..MaxTxn
           /\ unfinished' \subseteq 1..MaxTxn
  <1>1. o.pack \in Txn /\ o.holds \subseteq Chunks
    BY DEF TypeOK, Object
  <1>2. packed \in Nat
    BY DEF TypeOK, Txn
  <1>3. rChunks \subseteq Chunks /\ rPacks \subseteq 1..MaxTxn /\ unfinished \subseteq 1..MaxTxn
    BY DEF TypeOK
  <1>4. CASE o.pack \in rPacks
    BY <1>3, <1>4 DEF Store
  <1>5. CASE o.pack \notin rPacks
    <2>1. rChunks' \subseteq Chunks
      BY <1>1, <1>3, <1>5 DEF Store
    <2>2. rPacks' \subseteq 1..MaxTxn
      <3>1. o.pack # 0 => o.pack \in 1..MaxTxn
        BY <1>1 DEF Txn
      <3> QED BY <1>3, <1>5, <3>1 DEF Store
    <2>3. unfinished' \subseteq 1..MaxTxn
      <3>1. o.pack > packed => o.pack \in 1..MaxTxn
        BY <1>1, <1>2 DEF Txn
      <3> QED BY <1>3, <1>5, <3>1 DEF Store
    <2> QED BY <2>1, <2>2, <2>3
  <1> QED BY <1>4, <1>5

(* A put of the metadata keeps the types of the remote. *)
LEMMA StoreMetaType ==
    ASSUME TypeOK, StoreMeta
    PROVE  rMeta' \in Txn /\ late' \subseteq 1..MaxTxn
  BY DEF StoreMeta, PutUnlessExists, TypeOK, Txn

(* A push that returns has no entry in hand. *)
LEMMA ReturnType ==
    ASSUME NEW r \in {"none", "ok", "error"}, Return(r), outbox' \in Seq(Entry)
    PROVE  /\ pc' = "idle" /\ once' \in BOOLEAN /\ entry' = 0 /\ entry' \in 0..Len(outbox')
           /\ todo' \subseteq Object /\ packed' \in Txn /\ meta' \in Txn
           /\ report' \in {"none", "ok", "error"}
  <1>1. once' \in BOOLEAN
    BY DEF Return
  <1>2. entry' = 0 /\ entry' \in 0..Len(outbox')
    BY DEF Return
  <1>3. packed' \in Txn /\ meta' \in Txn
    BY DEF Return, Txn
  <1> QED BY <1>1, <1>2, <1>3 DEF Return

(* A cut save leaves a prefix of the outbox; the target of the last entry  *)
(* may have become smaller, its base is whole.                             *)
LEMMA CutOutbox ==
    ASSUME TypeOK, NEW q \in CutOutboxes
    PROVE  /\ q \in Seq(Entry) /\ Len(q) \in Nat /\ Len(q) <= Len(outbox)
           /\ \A i \in 1..Len(q) : /\ q[i].base = outbox[i].base
                                   /\ q[i].target <= outbox[i].target
  <1>1. outbox \in Seq(Entry) /\ Len(outbox) \in Nat
    BY DEF TypeOK
  <1>2. \A i \in 1..Len(outbox) : outbox[i].target \in Nat /\ outbox[i].target <= MaxTxn
    BY EntryOfOutbox DEF Entry, Txn
  <1>3. CASE \E n \in 0..Len(outbox) : q = SubSeq(outbox, 1, n)
    <2>1. PICK n \in 0..Len(outbox) : q = SubSeq(outbox, 1, n)
      BY <1>3
    <2>2. q \in Seq(Entry) /\ Len(q) = n /\ \A i \in 1..n : q[i] = outbox[i]
      BY <1>1, <2>1
    <2> QED BY <1>1, <1>2, <2>2
  <1>4. CASE \E k \in 1..Len(outbox) : \E e \in CutEntries(outbox[k]) :
                 q = Append(SubSeq(outbox, 1, k - 1), e)
    <2>0. PICK k \in 1..Len(outbox) : \E e \in CutEntries(outbox[k]) :
              q = Append(SubSeq(outbox, 1, k - 1), e)
      BY <1>4
    <2>1. PICK e \in CutEntries(outbox[k]) : q = Append(SubSeq(outbox, 1, k - 1), e)
      BY <2>0
    <2>2. PICK u \in 1..(outbox[k].target) :
              e = [outbox[k] EXCEPT !.target = u, !.state = "pending"]
      BY <2>1 DEF CutEntries, Shortened
    <2>3. outbox[k] \in Entry /\ outbox[k].target \in Nat
      BY <1>2, EntryOfOutbox
    <2>4. e \in Entry /\ e.base = outbox[k].base /\ e.target = u /\ u <= outbox[k].target
      <3>1. u \in Txn /\ u <= outbox[k].target
        BY <1>2, <2>3 DEF Txn
      <3>2. e = [base |-> outbox[k].base, target |-> u, state |-> "pending"]
        BY <2>2, <2>3 DEF Entry
      <3> QED BY <2>3, <3>1, <3>2 DEF Entry
    <2> DEFINE p == SubSeq(outbox, 1, k - 1)
    <2>5. p \in Seq(Entry) /\ Len(p) = k - 1 /\ \A i \in 1..(k - 1) : p[i] = outbox[i]
      BY <1>1
    <2> HIDE DEF p
    <2>6. /\ q \in Seq(Entry) /\ Len(q) = k /\ q[k] = e
          /\ \A i \in 1..(k - 1) : q[i] = outbox[i]
      BY <2>1, <2>4, <2>5 DEF p
    <2>7. ASSUME NEW i \in 1..k
          PROVE  q[i].base = outbox[i].base /\ q[i].target <= outbox[i].target
      <3>1. CASE i = k
        BY <2>4, <2>6, <3>1
      <3>2. CASE i # k
        <4>1. i \in 1..(k - 1) /\ i \in 1..Len(outbox)
          BY <1>1, <3>2
        <4> QED BY <1>2, <2>6, <4>1
      <3> QED BY <3>1, <3>2
    <2>8. k \in Nat /\ k <= Len(outbox)
      BY <1>1
    <2> HIDE DEF p
    <2> QED BY <2>6, <2>7, <2>8
  <1> QED BY <1>3, <1>4 DEF CutOutboxes

(* Every step keeps the types. *)
LEMMA TypeStep ==
    ASSUME TypeOK, partial => completed < MaxTxn, [Next]_vars
    PROVE  TypeOK' /\ (partial => completed < MaxTxn)'
  <1> USE DEF repoVars, fileVars, remoteVars, procVars, historyVars
  <1>1. CASE WritePack
    BY <1>1 DEF WritePack, TypeOK
  <1>2. CASE CompleteBackup
    <2>1. /\ completed' \in Txn /\ latest' \in Txn
          /\ latest' \in completed'..(completed' + 1)
      BY <1>2 DEF CompleteBackup, TypeOK, Txn
    <2>2. partial' \in BOOLEAN /\ ~partial'
      BY <1>2 DEF CompleteBackup
    <2>3. snaps' \subseteq 1..completed'
      <3>1. completed \in Nat /\ snaps \subseteq 1..completed
        BY DEF TypeOK, Txn
      <3> QED BY <1>2, <3>1 DEF CompleteBackup
    <2> QED BY <1>2, <2>1, <2>2, <2>3 DEF CompleteBackup, TypeOK
  <1>3. CASE AbortBackup
    BY <1>3 DEF AbortBackup, TypeOK, Txn
  <1>4. ASSUME NEW o \in BOOLEAN, BeginPush(o)
        PROVE  TypeOK' /\ (partial => completed < MaxTxn)'
    <2>1. outbox' \in Seq(Entry) /\ entry' \in 0..Len(outbox')
      BY <1>4, EnqueuedType DEF BeginPush, TypeOK
    <2>2. once' \in BOOLEAN
      BY <1>4 DEF BeginPush
    <2> QED BY <1>4, <2>1, <2>2 DEF BeginPush, TypeOK
  <1>5. CASE StartEntry
    <2>1. PICK i \in 1..Len(outbox) : /\ entry' = i
                                      /\ outbox' = [outbox EXCEPT ![i].state = "uploading"]
      BY <1>5 DEF StartEntry
    <2>2. outbox' \in Seq(Entry) /\ Len(outbox') = Len(outbox)
      BY <2>1, SetStateType
    <2> QED BY <1>5, <2>1, <2>2 DEF StartEntry, TypeOK
  <1>6. CASE EndPush
    <2>1. outbox' \in Seq(Entry)
      BY <1>6 DEF EndPush, TypeOK
    <2> QED BY <1>6, <2>1, ReturnType DEF EndPush, TypeOK
  <1>7. CASE Export
    <2>1. todo' \subseteq Object
      BY <1>7, BundleType DEF Export
    <2>2. packed' \in Txn
      BY <1>7 DEF Export, TypeOK
    <2> QED BY <1>7, <2>1, <2>2 DEF Export, TypeOK
  <1>8. CASE ExportFails
    <2>1. entry \in 1..Len(outbox)
      BY <1>8 DEF ExportFails, TypeOK
    <2>2. outbox' \in Seq(Entry)
      BY <1>8, <2>1, SetStateType DEF ExportFails, SetState
    <2> QED BY <1>8, <2>2, ReturnType DEF ExportFails, TypeOK
  <1>9. CASE PutChunk
    BY <1>9, StoreType DEF PutChunk, TypeOK
  <1>10. CASE PutMeta
    BY <1>10, StoreMetaType DEF PutMeta, TypeOK
  <1>11. CASE WriteRemoteIndex
    <2>1. Current \in Entry
      BY <1>11, EntryOfOutbox DEF WriteRemoteIndex, Current, TypeOK
    <2> QED BY <1>11, <2>1 DEF WriteRemoteIndex, PutUnlessExists, TypeOK, Entry
  <1>12. CASE FinishEntry
    <2>1. entry \in 1..Len(outbox)
      BY <1>12 DEF FinishEntry, TypeOK
    <2>2. outbox' \in Seq(Entry) /\ Len(outbox') = Len(outbox)
      BY <1>12, <2>1, SetStateType DEF FinishEntry, SetState
    <2> QED BY <1>12, <2>1, <2>2 DEF FinishEntry, TypeOK
  <1>13. CASE SaveSynced
    <2>1. Current \in Entry
      BY <1>13, EntryOfOutbox DEF SaveSynced, Current, TypeOK
    <2>2. synced' \in Txn
      BY <1>13, <2>1 DEF SaveSynced, Entry
    <2>3. unfinished' \subseteq 1..MaxTxn
      <3>1. Current.target > packed => Current.target \in 1..MaxTxn
        BY <2>1 DEF Entry, TypeOK, Txn
      <3> QED BY <1>13, <3>1 DEF SaveSynced, TypeOK
    <2>4. outbox' \in Seq(Entry) /\ backoff' \in BOOLEAN
      BY <1>13 DEF SaveSynced, TypeOK
    <2>5. CASE once
      BY <1>13, <2>2, <2>3, <2>4, <2>5, ReturnType DEF SaveSynced, TypeOK
    <2>6. CASE ~once
      <3>1. packed' \in Txn /\ meta' \in Txn
        BY <1>13, <2>6 DEF SaveSynced, Txn
      <3> QED BY <1>13, <2>2, <2>3, <2>4, <2>6, <3>1 DEF SaveSynced, TypeOK
    <2> QED BY <2>5, <2>6
  <1>14. CASE PutFails
    <2>1. entry \in 1..Len(outbox)
      BY <1>14 DEF PutFails, TypeOK
    <2>2. outbox' \in Seq(Entry)
      BY <1>14, <2>1, SetStateType DEF PutFails, SetState
    <2>3. /\ rChunks' \subseteq Chunks /\ rPacks' \subseteq 1..MaxTxn
          /\ unfinished' \subseteq 1..MaxTxn /\ rMeta' \in Txn /\ late' \subseteq 1..MaxTxn
      BY <1>14, StoreType, StoreMetaType DEF PutFails, TypeOK
    <2>4. backoff' \in BOOLEAN
      BY <1>14 DEF PutFails, TypeOK
    <2>5. faults' \in 0..MaxFaults
      BY <1>14 DEF PutFails, TypeOK
    <2> QED BY <1>14, <2>2, <2>3, <2>4, <2>5, ReturnType DEF PutFails, TypeOK
  <1>15. CASE IndexFails
    <2>1. entry \in 1..Len(outbox)
      BY <1>15 DEF IndexFails, TypeOK
    <2>2. outbox' \in Seq(Entry)
      BY <1>15, <2>1, SetStateType DEF IndexFails, SetState
    <2>3. Current \in Entry
      BY <2>1, EntryOfOutbox DEF Current
    <2>4. rIndex' \in Txn
      BY <1>15, <2>3 DEF IndexFails, PutUnlessExists, TypeOK, Entry
    <2> QED BY <1>15, <2>2, <2>4, ReturnType DEF IndexFails, TypeOK
  <1>16. CASE Crash
    <2>1. outbox' \in Seq(Entry)
      BY <1>16, CutOutbox DEF Crash, TypeOK
    <2>2. synced' \in Txn
      BY <1>16 DEF Crash, TypeOK, Txn, Shortened
    <2>3. backoff' \in BOOLEAN
      BY <1>16 DEF Crash, TypeOK
    <2>4. misread' \subseteq 1..MaxTxn
      <3>1. \A t \in {synced'} \ {0} : t \in 1..MaxTxn
        BY <2>2 DEF Txn
      <3>2. misread' \subseteq misread \union ({synced'} \ {0})
        BY <1>16 DEF Crash
      <3> QED BY <3>1, <3>2 DEF TypeOK
    <2> QED BY <1>16, <2>1, <2>2, <2>3, <2>4, ReturnType DEF Crash, TypeOK
  <1>17. CASE BackoffEnds
    BY <1>17 DEF BackoffEnds, TypeOK
  <1>18. CASE UNCHANGED vars
    BY <1>18 DEF vars, TypeOK
  <1>19. CASE ExportMeta
    <2>1. meta' \in Txn
      BY <1>19 DEF ExportMeta, TypeOK
    <2> QED BY <1>19, <2>1 DEF ExportMeta, TypeOK
  <1>20. ASSUME NEW t \in 1..MaxTxn, PruneSnapshot(t)
         PROVE  TypeOK' /\ (partial => completed < MaxTxn)'
    BY <1>20 DEF PruneSnapshot, TypeOK
  <1> QED
    BY <1>1, <1>2, <1>3, <1>4, <1>5, <1>6, <1>7, <1>8, <1>9, <1>10, <1>11, <1>12, <1>13,
       <1>14, <1>15, <1>16, <1>17, <1>18, <1>19, <1>20 DEF Next, Upload

-----------------------------------------------------------------------------
(* What is covered stays so while the remote gains chunks and more backups *)
(* count as unfinished.                                                    *)
LEMMA CoveredStays ==
    ASSUME NEW t, Covered(t), rChunks \subseteq rChunks', Marked \subseteq Marked'
    PROVE  Covered(t)'
  BY DEF Covered

(* The outbox of a step that adds no entry and keeps the bases.            *)
LEMMA BasesStay ==
    ASSUME BasesCovered, rChunks \subseteq rChunks', Marked \subseteq Marked',
           Len(outbox') <= Len(outbox), Len(outbox) \in Nat, Len(outbox') \in Nat,
           \A i \in 1..Len(outbox') : outbox'[i].base = outbox[i].base
    PROVE  BasesCovered'
  <1> SUFFICES ASSUME NEW i \in 1..Len(outbox')
               PROVE  Covered(outbox[i].base)'
    BY DEF BasesCovered
  <1>1. i \in 1..Len(outbox)
    OBVIOUS
  <1>2. Covered(outbox[i].base)
    BY <1>1 DEF BasesCovered
  <1> QED BY <1>2 DEF Covered

(* The base of an entry that is enqueued is covered, since it is the one   *)
(* recorded as synced.                                                     *)
LEMMA BasesEnqueued ==
    ASSUME TypeOK, BasesCovered, Covered(synced), outbox' = Enqueued,
           rChunks' = rChunks, Marked' = Marked
    PROVE  BasesCovered'
  <1> DEFINE e == [base |-> synced, target |-> latest, state |-> "pending"]
  <1>1. outbox \in Seq(Entry)
    BY DEF TypeOK
  <1>2. CASE outbox' = outbox
    BY <1>2 DEF BasesCovered, Covered
  <1>3. CASE outbox' = Append(outbox, e)
    <2> SUFFICES ASSUME NEW i \in 1..Len(outbox')
                 PROVE  Covered(outbox[i].base)'
      BY DEF BasesCovered
    <2>1. CASE i \in 1..Len(outbox)
      <3>1. outbox'[i] = outbox[i]
        BY <1>1, <1>3, <2>1
      <3> QED BY <2>1, <3>1 DEF BasesCovered, Covered
    <2>2. CASE i = Len(outbox) + 1
      <3>1. outbox'[i] = e
        BY <1>1, <1>3, <2>2
      <3>2. outbox'[i].base = synced
        BY <3>1
      <3> QED BY <3>2 DEF Covered
    <2> QED BY <1>1, <1>3, <2>1, <2>2
  <1> QED BY <1>2, <1>3 DEF Enqueued

(* A put keeps the packs whole, and what it takes off the bundle is there. *)
LEMMA StoreKeeps ==
    ASSUME TypeOK, PacksWhole, BundleShape, NEW o \in todo, Store(o)
    PROVE  /\ rChunks \subseteq rChunks' /\ unfinished \subseteq unfinished'
           /\ PacksWhole'
           /\ o.pack = 0 => o.holds \subseteq rChunks'
           /\ o.pack > 0 /\ o.pack \notin unfinished' /\ o.holds = Pack[o.pack]
                 => o.holds \subseteq rChunks'
  <1>1. o.pack \in Nat /\ packed \in Nat /\ 0 \notin rPacks
    BY DEF TypeOK, Object, Txn
  <1>2. CASE o.pack \in rPacks
    BY <1>1, <1>2 DEF Store, PacksWhole
  <1>3. CASE o.pack \notin rPacks
    <2>1. rChunks' = rChunks \union o.holds /\ unfinished \subseteq unfinished'
      BY <1>3 DEF Store
    <2>2. ASSUME NEW t \in rPacks', t \notin unfinished'
          PROVE  Pack[t] \subseteq rChunks'
      <3>1. CASE t \in rPacks
        BY <2>1, <2>2, <3>1 DEF PacksWhole
      <3>2. CASE t \notin rPacks
        <4>1. t = o.pack /\ t # 0
          BY <1>3, <3>2 DEF Store
        <4>2. ~(o.pack > packed)
          BY <1>3, <2>2, <4>1 DEF Store
        <4>3. o.holds = Pack[o.pack]
          BY <1>1, <4>1, <4>2 DEF BundleShape
        <4> QED BY <2>1, <4>1, <4>3
      <3> QED BY <3>1, <3>2
    <2> QED BY <2>1, <2>2 DEF PacksWhole
  <1> QED BY <1>2, <1>3

(* What the bundle holds when the export is done.                          *)
LEMMA ExportOK ==
    ASSUME IInv, Export
    PROVE  UploadOK'
  <1>1. entry \in 1..Len(outbox)
    BY DEF IInv, TypeOK, Export
  <1>2. Current \in Entry
    BY <1>1, EntryOfOutbox DEF IInv, Current
  <1>3. completed \in Nat /\ packed' = completed /\ todo' = BundleChunks(Current)
    BY DEF IInv, TypeOK, Txn, Export
  <1>4. Current' = Current /\ unfinished' = unfinished /\ rChunks' = rChunks
    BY DEF Export, Current, fileVars, remoteVars, historyVars
  <1>5. CASE Current.base = 0
    <2>1. todo' = {PackOf(t) : t \in 1..completed}
                    \union IF partial THEN {PartialPack(completed + 1)} ELSE {}
      BY <1>3, <1>5 DEF BundleChunks
    <2>2. BundleShape'
      <3> SUFFICES ASSUME NEW o \in todo'
                   PROVE  \/ o.pack = 0
                          \/ o.pack \in 1..packed' /\ o.holds = Pack[o.pack]
                          \/ o.pack = packed' + 1
        BY DEF BundleShape
      <3>1. CASE \E t \in 1..completed : o = PackOf(t)
        BY <1>3, <3>1 DEF PackOf
      <3>2. CASE o = PartialPack(completed + 1)
        BY <1>3, <3>2 DEF PartialPack
      <3> QED BY <2>1, <3>1, <3>2
    <2>3. FullOnItsWay'
      <3>1. \A t \in 1..packed' : PackOf(t) \in todo'
        BY <1>3, <2>1
      <3>2. \A t : PackOf(t)' = PackOf(t)
        BY DEF PackOf
      <3> QED BY <3>1, <3>2 DEF FullOnItsWay
    <2> QED BY <1>4, <1>5, <2>2, <2>3 DEF UploadOK, Export
  <1>6. CASE Current.base # 0
    <2>1. todo' = {ChunkObject(c) : c \in Delta(Current)}
      BY <1>3, <1>6 DEF BundleChunks
    <2>2. BundleShape'
      BY <2>1 DEF BundleShape, ChunkObject
    <2>3. DeltaOnItsWay'
      <3>1. Current.base < Current.target /\ Current.target <= completed
        <4>1. Current.base < Current.target /\ Current.target \in snaps
          BY <1>6 DEF Export, CanExport
        <4>2. snaps \subseteq 1..completed
          BY DEF IInv, TypeOK
        <4>3. Current.target \in 1..completed
          BY <4>1, <4>2
        <4> QED BY <1>3, <4>1, <4>3
      <3>2. \A c \in Delta(Current) : ChunkObject(c) \in todo'
        BY <2>1
      <3>3. Delta(Current)' = Delta(Current)
        BY <1>4 DEF Delta
      <3>4. \A c : ChunkObject(c)' = ChunkObject(c)
        BY DEF ChunkObject
      <3> QED BY <1>3, <1>4, <3>1, <3>2, <3>3, <3>4 DEF DeltaOnItsWay
    <2> QED BY <1>4, <1>6, <2>2, <2>3 DEF UploadOK, Export
  <1> QED BY <1>5, <1>6

(* A put takes an object off the bundle only when it is on the remote.     *)
LEMMA PutChunkOK ==
    ASSUME IInv, PutChunk
    PROVE  UploadOK'
  <1> USE DEF fileVars
  <1>1. PICK o \in todo : Store(o) /\ todo' = todo \ {o}
    BY DEF PutChunk
  <1>2. TypeOK /\ PacksWhole /\ BundleShape /\ pc = "upload"
    BY DEF IInv, UploadOK, Working, PutChunk
  <1>3. /\ rChunks \subseteq rChunks' /\ unfinished \subseteq unfinished'
        /\ o.pack = 0 => o.holds \subseteq rChunks'
        /\ o.pack > 0 /\ o.pack \notin unfinished' /\ o.holds = Pack[o.pack]
              => o.holds \subseteq rChunks'
    BY <1>1, <1>2, StoreKeeps
  <1>4. Current' = Current /\ packed' = packed /\ pc' = "upload"
    BY <1>2 DEF PutChunk, Current
  <1>5. BundleShape'
    BY <1>1, <1>2, <1>4 DEF BundleShape
  <1>6. CASE Current.base = 0
    <2>1. FullOnItsWay
      BY <1>2, <1>6 DEF IInv, UploadOK, Working
    <2>2. FullOnItsWay'
      <3> SUFFICES ASSUME NEW t \in 1..packed, t \notin unfinished'
                   PROVE  Pack[t] \subseteq rChunks' \/ PackOf(t) \in todo'
        BY <1>4 DEF FullOnItsWay, PackOf
      <3>1. CASE Pack[t] \subseteq rChunks
        BY <1>3, <3>1
      <3>2. CASE PackOf(t) = o
        <4>1. o.pack = t /\ o.holds = Pack[t] /\ t > 0
          BY <3>2 DEF PackOf
        <4> QED BY <1>3, <4>1
      <3>3. CASE PackOf(t) \in todo /\ PackOf(t) # o
        BY <1>1, <3>3
      <3> QED BY <1>3, <2>1, <3>1, <3>2, <3>3 DEF FullOnItsWay
    <2> QED BY <1>4, <1>5, <1>6, <2>2 DEF UploadOK
  <1>7. CASE Current.base # 0
    <2>1. DeltaOnItsWay
      BY <1>2, <1>7 DEF IInv, UploadOK, Working
    <2>2. DeltaOnItsWay'
      <3> SUFFICES ASSUME NEW c \in Delta(Current)
                   PROVE  c \in rChunks' \/ ChunkObject(c) \in todo'
        BY <1>4, <2>1 DEF DeltaOnItsWay, Delta, ChunkObject
      <3>1. CASE c \in rChunks
        BY <1>3, <3>1
      <3>2. CASE ChunkObject(c) = o
        <4>1. o.pack = 0 /\ c \in o.holds
          BY <3>2 DEF ChunkObject
        <4> QED BY <1>3, <4>1
      <3>3. CASE ChunkObject(c) \in todo /\ ChunkObject(c) # o
        BY <1>1, <3>3
      <3> QED BY <2>1, <3>1, <3>2, <3>3 DEF DeltaOnItsWay
    <2> QED BY <1>4, <1>5, <1>7, <2>2 DEF UploadOK
  <1> QED BY <1>6, <1>7

(* The target of an entry whose upload is over is covered.                 *)
LEMMA TargetCovered ==
    ASSUME IInv, SaveSynced
    PROVE  Covered(synced)'
  <1>1. entry \in 1..Len(outbox) /\ pc = "saved"
    BY DEF IInv, TypeOK, SaveSynced
  <1>2. Current \in Entry
    BY <1>1, EntryOfOutbox DEF IInv, Current
  <1>3. /\ synced' = Current.target /\ rChunks' = rChunks
        /\ unfinished \subseteq Marked' /\ Marked \subseteq Marked'
        /\ Current.target > packed => Current.target \in Marked'
    BY DEF SaveSynced, remoteVars, Marked
  <1>4. todo = {} /\ packed \in Nat
    BY <1>1 DEF IInv, UploadOK, Working, TypeOK, Txn
  <1> SUFFICES ASSUME Current.target > 0, Marked' \cap (1..Current.target) = {}
               PROVE  Snap[Current.target] \subseteq rChunks
    BY <1>3 DEF Covered
  <1>5. Current.target \in 1..MaxTxn /\ Current.base \in Nat
    BY <1>2 DEF Entry, Txn
  <1>6. Current.target <= packed
    BY <1>3, <1>4, <1>5
  <1>7. CASE Current.base = 0
    <2>1. FullOnItsWay
      BY <1>1, <1>7 DEF IInv, UploadOK, Working
    <2>2. ASSUME NEW x \in Snap[Current.target]
          PROVE  x \in rChunks
      <3>1. PICK u \in 1..Current.target : x \in Pack[u]
        BY <1>5, <2>2
      <3>2. u \in 1..packed /\ u \notin unfinished
        BY <1>3, <1>4, <1>5, <1>6, <3>1
      <3> QED BY <1>4, <2>1, <3>1, <3>2 DEF FullOnItsWay
    <2> QED BY <2>2
  <1>8. CASE Current.base # 0
    <2>1. DeltaOnItsWay
      BY <1>1, <1>8 DEF IInv, UploadOK, Working
    <2>2. Current.base < Current.target /\ Covered(Current.base)
      BY <1>1, <2>1 DEF IInv, BasesCovered, Current, DeltaOnItsWay
    <2>3. Marked \cap (1..Current.base) = {}
      BY <1>3, <1>5, <2>2
    <2>4. Snap[Current.base] \subseteq rChunks
      BY <1>5, <1>8, <2>2, <2>3 DEF Covered
    <2> QED BY <1>4, <2>1, <2>4 DEF DeltaOnItsWay, Delta
  <1> QED BY <1>7, <1>8

Rest == Covered(synced) /\ BasesCovered /\ PacksWhole /\ UploadOK

(* Steps that touch neither outbox nor remote nor the bundle.              *)
LEMMA Untouched ==
    ASSUME IInv,
           UNCHANGED <<synced, outbox, rChunks, rPacks, unfinished, misread, pc, entry, todo,
                       packed>>
    PROVE  Rest'
  BY DEF IInv, Rest, Covered, Marked, BasesCovered, PacksWhole, UploadOK, Working, BundleShape,
         FullOnItsWay, DeltaOnItsWay, Current, Delta, PackOf, ChunkObject

(* Steps that set the state of the entry in hand and work on no bundle.    *)
LEMMA EntryMarked ==
    ASSUME IInv, NEW i \in 1..Len(outbox),
           NEW s \in {"pending", "uploading", "done", "failed"},
           outbox' = [outbox EXCEPT ![i].state = s],
           rChunks \subseteq rChunks', Marked \subseteq Marked', synced' = synced
    PROVE  Covered(synced)' /\ BasesCovered'
  <1>1. TypeOK /\ BasesCovered /\ Covered(synced)
    BY DEF IInv
  <1>2. /\ outbox' \in Seq(Entry) /\ Len(outbox') = Len(outbox)
        /\ \A j \in 1..Len(outbox) : /\ outbox'[j].base = outbox[j].base
                                     /\ outbox'[j].target = outbox[j].target
    BY <1>1, SetStateType
  <1>3. Len(outbox) \in Nat
    BY <1>1 DEF TypeOK
  <1> QED BY <1>1, <1>2, <1>3, BasesStay DEF Covered

(* Every step keeps the parts of IInv other than coverage and types. *)
LEMMA RestStep ==
    ASSUME IInv, [Next]_vars
    PROVE  Rest'
  <1> USE DEF repoVars, fileVars, remoteVars, procVars, historyVars, Marked
  <1>1. CASE \/ WritePack \/ CompleteBackup \/ AbortBackup \/ BackoffEnds \/ UNCHANGED vars
             \/ \E t \in 1..MaxTxn : PruneSnapshot(t)
    BY <1>1, Untouched
       DEF WritePack, CompleteBackup, AbortBackup, PruneSnapshot, BackoffEnds, vars
  <1>2. ASSUME NEW o \in BOOLEAN, BeginPush(o)
        PROVE  Rest'
    <2>1. TypeOK /\ BasesCovered /\ Covered(synced) /\ PacksWhole
      BY DEF IInv
    <2>2. UNCHANGED <<synced, rChunks, rPacks, unfinished, misread>> /\ pc' = "next"
      BY <1>2 DEF BeginPush
    <2>3. BasesCovered'
      <3>1. CASE latest > synced
        BY <1>2, <2>1, <2>2, <3>1, BasesEnqueued DEF BeginPush
      <3>2. CASE ~(latest > synced)
        BY <1>2, <2>1, <2>2, <3>2 DEF BeginPush, BasesCovered, Covered
      <3> QED BY <3>1, <3>2
    <2> QED BY <2>1, <2>2, <2>3 DEF Rest, Covered, PacksWhole, UploadOK, Working
  <1>3. CASE StartEntry
    <2>1. PICK i \in 1..Len(outbox) : outbox' = [outbox EXCEPT ![i].state = "uploading"]
      BY <1>3 DEF StartEntry
    <2>2. Covered(synced)' /\ BasesCovered'
      BY <1>3, <2>1, EntryMarked DEF StartEntry
    <2> QED BY <1>3, <2>2 DEF StartEntry, IInv, Rest, PacksWhole, UploadOK, Working
  <1>4. CASE EndPush
    BY <1>4 DEF EndPush, Return, IInv, Rest, Covered, BasesCovered, PacksWhole, UploadOK,
                Working
  <1>5. CASE Export
    <2>1. UNCHANGED <<synced, outbox, rChunks, rPacks, unfinished, misread>>
      BY <1>5 DEF Export
    <2> QED BY <1>5, <2>1, ExportOK DEF IInv, Rest, Covered, BasesCovered, PacksWhole
  <1>15. CASE ExportMeta
    BY <1>15 DEF ExportMeta, IInv, Rest, Covered, BasesCovered, PacksWhole, UploadOK,
                Working, BundleShape, FullOnItsWay, DeltaOnItsWay, Current, Delta, PackOf,
                ChunkObject
  <1>6. CASE ExportFails
    <2>1. entry \in 1..Len(outbox)
      BY <1>6 DEF ExportFails, IInv, TypeOK
    <2>2. Covered(synced)' /\ BasesCovered'
      BY <1>6, <2>1, EntryMarked DEF ExportFails, SetState
    <2> QED BY <1>6, <2>2 DEF ExportFails, Return, IInv, Rest, PacksWhole, UploadOK, Working
  <1>7. CASE PutChunk
    <2>1. PICK o \in todo : Store(o)
      BY <1>7 DEF PutChunk
    <2>2. TypeOK /\ PacksWhole /\ BundleShape /\ Covered(synced) /\ BasesCovered
      BY <1>7 DEF IInv, UploadOK, Working, PutChunk
    <2>3. rChunks \subseteq rChunks' /\ unfinished \subseteq unfinished' /\ PacksWhole'
      BY <2>1, <2>2, StoreKeeps
    <2>4. outbox' = outbox /\ synced' = synced /\ misread' = misread /\ Len(outbox) \in Nat
      BY <1>7, <2>2 DEF PutChunk, TypeOK
    <2>5. BasesCovered'
      BY <2>2, <2>3, <2>4, BasesStay
    <2> QED BY <1>7, <2>2, <2>3, <2>4, <2>5, PutChunkOK DEF Rest, Covered
  <1>8. CASE PutMeta
    <2>1. todo = {} /\ pc = "upload" /\ pc' = "index"
      BY <1>8 DEF PutMeta
    <2> QED BY <1>8, <2>1 DEF PutMeta, IInv, Rest, Covered, BasesCovered, PacksWhole, UploadOK,
                Working, BundleShape, FullOnItsWay, DeltaOnItsWay, Current, Delta, PackOf,
                ChunkObject
  <1>9. CASE WriteRemoteIndex
    BY <1>9 DEF WriteRemoteIndex, IInv, Rest, Covered, BasesCovered, PacksWhole, UploadOK,
                Working, BundleShape, FullOnItsWay, DeltaOnItsWay, Current, Delta, PackOf,
                ChunkObject
  <1>10. CASE FinishEntry
    <2>1. entry \in 1..Len(outbox) /\ TypeOK
      BY <1>10 DEF FinishEntry, IInv, TypeOK
    <2>2. Covered(synced)' /\ BasesCovered'
      BY <1>10, <2>1, EntryMarked DEF FinishEntry, SetState
    <2>3. outbox'[entry].base = outbox[entry].base /\ outbox'[entry].target = outbox[entry].target
      BY <1>10, <2>1, SetStateType DEF FinishEntry, SetState
    <2>4. UploadOK'
      BY <1>10, <2>3 DEF FinishEntry, IInv, UploadOK, Working, BundleShape, FullOnItsWay,
                DeltaOnItsWay, Current, Delta, PackOf, ChunkObject
    <2> QED BY <1>10, <2>2, <2>4 DEF FinishEntry, IInv, Rest, PacksWhole
  <1>11. CASE SaveSynced
    <2>1. /\ outbox' = outbox /\ rChunks' = rChunks /\ rPacks' = rPacks
          /\ unfinished \subseteq unfinished' /\ misread' = misread
      BY <1>11 DEF SaveSynced
    <2>2. pc' \notin {"metadata", "upload", "index", "finish", "saved"}
      BY <1>11 DEF SaveSynced, Return
    <2>3. BasesCovered' /\ PacksWhole'
      BY <2>1 DEF IInv, BasesCovered, Covered, PacksWhole
    <2> QED BY <1>11, <2>2, <2>3, TargetCovered DEF Rest, UploadOK, Working
  <1>12. CASE PutFails
    <2>1. entry \in 1..Len(outbox) /\ pc = "upload" /\ pc' = "idle" /\ synced' = synced
          /\ misread' = misread
      BY <1>12 DEF PutFails, Return, IInv, TypeOK
    <2>2. TypeOK /\ PacksWhole /\ BundleShape
      BY <2>1 DEF IInv, UploadOK, Working
    <2>3. rChunks \subseteq rChunks' /\ unfinished \subseteq unfinished' /\ PacksWhole'
      <3>1. CASE \E o \in todo : Store(o)
        BY <2>2, <3>1, StoreKeeps
      <3>2. CASE UNCHANGED <<rChunks, rPacks, unfinished>>
        BY <2>2, <3>2 DEF PacksWhole
      <3> QED BY <1>12, <3>1, <3>2 DEF PutFails
    <2>4. Covered(synced)' /\ BasesCovered'
      BY <1>12, <2>1, <2>3, EntryMarked DEF PutFails, SetState
    <2> QED BY <2>1, <2>3, <2>4 DEF Rest, UploadOK, Working
  <1>13. CASE IndexFails
    <2>1. entry \in 1..Len(outbox)
      BY <1>13 DEF IndexFails, IInv, TypeOK
    <2>2. Covered(synced)' /\ BasesCovered'
      BY <1>13, <2>1, EntryMarked DEF IndexFails, SetState
    <2> QED BY <1>13, <2>2 DEF IndexFails, Return, IInv, Rest, PacksWhole, UploadOK, Working
  <1>14. CASE Crash
    <2>1. UNCHANGED <<rChunks, rPacks, unfinished>> /\ pc' = "idle" /\ misread \subseteq misread'
      BY <1>14 DEF Crash, Return
    <2>2. TypeOK /\ BasesCovered /\ Covered(synced) /\ PacksWhole /\ Len(outbox) \in Nat
      BY DEF IInv, TypeOK
    <2>3. BasesCovered'
      <3>1. CASE outbox' = outbox
        BY <2>1, <2>2, <3>1, BasesStay
      <3>2. CASE outbox' \in CutOutboxes
        BY <2>1, <2>2, <3>2, CutOutbox, BasesStay
      <3> QED BY <1>14, <3>1, <3>2 DEF Crash
    <2>4. Covered(synced)'
      <3>1. CASE synced' = synced /\ misread' = misread
        BY <2>1, <2>2, <3>1 DEF Covered
      <3>2. CASE misread' = misread \union {t \in {synced'} \ {0} : ~(Snap[t] \subseteq rChunks)}
                 /\ synced' \in {0} \union Shortened(synced)
        <4> SUFFICES ASSUME synced' > 0, ~(Snap[synced'] \subseteq rChunks)
                     PROVE  Marked' \cap (1..synced') # {}
          BY <2>1 DEF Covered
        <4>1. synced' \in misread' /\ synced' \in 1..synced'
          BY <2>2, <3>2 DEF Shortened, TypeOK, Txn
        <4> QED BY <4>1
      <3> QED BY <1>14, <3>1, <3>2 DEF Crash
    <2> QED BY <2>1, <2>2, <2>3, <2>4 DEF Rest, PacksWhole, UploadOK, Working
  <1> QED
    BY <1>1, <1>2, <1>3, <1>4, <1>5, <1>6, <1>7, <1>8, <1>9, <1>10, <1>11, <1>12, <1>13,
       <1>14, <1>15 DEF Next, Upload

-----------------------------------------------------------------------------
(* IInv holds before the first push. *)
LEMMA IInvInit == Init => IInv
  <1> SUFFICES ASSUME Init PROVE IInv
    OBVIOUS
  <1>1. ~partial
    BY DEF Init
  <1>2. Covered(synced) /\ BasesCovered /\ PacksWhole
    BY DEF Init, Covered, BasesCovered, PacksWhole
  <1>3. UploadOK
    BY DEF Init, UploadOK, Working
  <1> QED BY <1>1, <1>2, <1>3, TypeInit DEF IInv

(* IInv is inductive. *)
LEMMA IInvStep == IInv /\ [Next]_vars => IInv'
  BY TypeStep, RestStep DEF IInv, Rest

(* The variables of the sync agent, its two files and the remote keep      *)
(* their types, and an entry is in hand while one is worked on.            *)
THEOREM TypeCorrect == Spec => []TypeOK
  <1>1. IInv => TypeOK
    BY DEF IInv
  <1> QED BY <1>1, IInvInit, IInvStep, PTL DEF Spec

(* PushSync records a backup as synced only when all its chunks are on the *)
(* remote, for any number of backups, failures and crashes, provided no    *)
(* backup up to it was uploaded before it was complete, or taken for       *)
(* synced after a save was cut inside the number.                          *)
THEOREM RecordedIsCovered == Spec => []SyncedCovered
  <1>1. IInv => SyncedCovered
    BY DEF IInv, Covered, Marked, SyncedCovered
  <1> QED BY <1>1, IInvInit, IInvStep, PTL DEF Spec

-----------------------------------------------------------------------------
(* The remote's metadata.                                                  *)

(* Until the metadata is put, no backup that was complete is the base of   *)
(* an entry or recorded as synced: the push that puts it is a full one, or *)
(* the first backup was recorded while it was not complete.                *)
MetaFirst ==
    rMeta = 0 =>
        /\ synced > 0 => 1 \in unfinished
        /\ \A i \in 1..Len(outbox) : outbox[i].base > 0 => 1 \in unfinished
        /\ pc \in {"index", "finish", "saved"} => packed = 0

(* A target is complete or next when its entry is enqueued, and so it is   *)
(* when the bundle is read; the metadata is read after the packs.          *)
TargetsKnown ==
    /\ \A i \in 1..Len(outbox) : outbox[i].target <= completed + 1
    /\ Working => Current.target <= packed + 1
    /\ pc = "metadata" => packed <= completed
    /\ pc = "upload" => packed <= meta

(* The packs of the backups the metadata is of.                            *)
MetaWhole ==
    \A t \in (1..rMeta) \ late :
        t \in unfinished \/ 1 \in unfinished \/ Pack[t] \subseteq rChunks

MInv == IInv /\ MetaFirst /\ TargetsKnown /\ MetaWhole

(* The remote and the repository only gain, and marks stay. *)
LEMMA OnlyGains ==
    ASSUME TypeOK, [Next]_vars
    PROVE  /\ rChunks \subseteq rChunks' /\ unfinished \subseteq unfinished'
           /\ completed' >= completed
  <1> USE DEF repoVars, fileVars, remoteVars, procVars, historyVars
  <1>1. rChunks \subseteq rChunks' /\ unfinished \subseteq unfinished'
    <2>1. \A o \in todo : Store(o) => /\ rChunks \subseteq rChunks'
                                     /\ unfinished \subseteq unfinished'
      BY DEF Store
    <2> QED
      BY <2>1
      DEF Next, Upload, WritePack, CompleteBackup, AbortBackup, PruneSnapshot, BeginPush,
          StartEntry, EndPush,
          Export, ExportMeta, ExportFails, PutChunk, PutMeta, WriteRemoteIndex, FinishEntry,
          SaveSynced, PutFails, IndexFails, Crash, BackoffEnds, vars
  <1>2. completed' = completed \/ completed' = completed + 1
    BY DEF Next, Upload, WritePack, CompleteBackup, AbortBackup, PruneSnapshot, BeginPush,
          StartEntry, EndPush,
          Export, ExportMeta, ExportFails, PutChunk, PutMeta, WriteRemoteIndex, FinishEntry,
          SaveSynced, PutFails, IndexFails, Crash, BackoffEnds, vars
  <1>3. completed \in Nat
    BY DEF TypeOK, Txn
  <1> QED BY <1>1, <1>2, <1>3

(* The metadata changes only at the end of an upload. *)
LEMMA MetaStep ==
    ASSUME [Next]_vars
    PROVE  \/ UNCHANGED <<rMeta, late>>
           \/ pc = "upload" /\ todo = {} /\ StoreMeta
  BY DEF Next, Upload, WritePack, CompleteBackup, AbortBackup, PruneSnapshot, BeginPush,
          StartEntry, EndPush,
         Export, ExportMeta, ExportFails, PutChunk, PutMeta, WriteRemoteIndex, FinishEntry,
         SaveSynced, PutFails, IndexFails, Crash, BackoffEnds, vars, remoteVars, historyVars

(* An entry of the outbox was there before, or leads from the backup       *)
(* recorded as synced to the latest.                                       *)
LEMMA OutboxStep ==
    ASSUME TypeOK, [Next]_vars, NEW i \in 1..Len(outbox')
    PROVE  \/ \E j \in 1..Len(outbox) : /\ outbox'[i].base = outbox[j].base
                                        /\ outbox'[i].target <= outbox[j].target
           \/ outbox'[i].base = synced /\ outbox'[i].target = latest
  <1> DEFINE Old == \E j \in 1..Len(outbox) : /\ outbox'[i].base = outbox[j].base
                                             /\ outbox'[i].target <= outbox[j].target
             New == outbox'[i].base = synced /\ outbox'[i].target = latest
  <1> SUFFICES Old \/ New
    OBVIOUS
  <1> USE DEF repoVars, fileVars, remoteVars, procVars, historyVars
  <1>1. outbox \in Seq(Entry)
    BY DEF TypeOK
  <1>0. \A j \in 1..Len(outbox) : outbox[j].target <= outbox[j].target
    BY EntryOfOutbox DEF Entry, Txn
  <1>2. CASE outbox' = outbox
    BY <1>0, <1>2
  <1>3. CASE outbox' = Enqueued
    <2>1. CASE Enqueued = outbox
      BY <1>0, <1>3, <2>1
    <2>2. CASE Enqueued = Append(outbox, [base |-> synced, target |-> latest,
                                          state |-> "pending"])
      <3>1. CASE i \in 1..Len(outbox)
        <4>1. outbox'[i] = outbox[i]
          BY <1>1, <1>3, <2>2, <3>1
        <4> QED BY <1>0, <3>1, <4>1
      <3>2. CASE i = Len(outbox) + 1
        <4>1. outbox'[i] = [base |-> synced, target |-> latest, state |-> "pending"]
          BY <1>1, <1>3, <2>2, <3>2
        <4> QED BY <4>1
      <3> QED BY <1>1, <1>3, <2>2, <3>1, <3>2
    <2> QED BY <2>1, <2>2 DEF Enqueued
  <1>4. ASSUME NEW j \in 1..Len(outbox), NEW s \in {"pending", "uploading", "done", "failed"},
               outbox' = [outbox EXCEPT ![j].state = s]
        PROVE  Old
    <2>1. Len(outbox') = Len(outbox) /\ \A k \in 1..Len(outbox) :
              outbox'[k].base = outbox[k].base /\ outbox'[k].target = outbox[k].target
      BY <1>4, SetStateType
    <2> QED BY <1>0, <2>1
  <1>5. CASE outbox' \in CutOutboxes
    <2>1. /\ i \in 1..Len(outbox) /\ outbox'[i].base = outbox[i].base
          /\ outbox'[i].target <= outbox[i].target
      BY <1>1, <1>5, CutOutbox
    <2> QED BY <2>1
  <1>6. pc \in {"export", "upload", "index", "finish"} => entry \in 1..Len(outbox)
    BY DEF TypeOK
  <1> HIDE DEF Old, New
  <1>7. CASE StartEntry
    BY <1>4, <1>7 DEF StartEntry
  <1>8. CASE ExportFails \/ PutFails \/ IndexFails \/ FinishEntry
    BY <1>4, <1>6, <1>8 DEF ExportFails, PutFails, IndexFails, FinishEntry, SetState
  <1>9. \/ outbox' = outbox \/ outbox' = Enqueued
        \/ outbox' \in CutOutboxes
        \/ StartEntry \/ ExportFails \/ PutFails \/ IndexFails \/ FinishEntry
    BY DEF Next, Upload, WritePack, CompleteBackup, AbortBackup, PruneSnapshot, BeginPush, EndPush,
           Export, ExportMeta, PutChunk, PutMeta, WriteRemoteIndex, SaveSynced, Crash,
           BackoffEnds, vars
  <1> QED BY <1>2, <1>3, <1>5, <1>7, <1>8, <1>9

(* A bundle is in hand after an export, with the entry it is for. *)
LEMMA WorkStep ==
    ASSUME TypeOK, [Next]_vars, Working'
    PROVE  \/ Export
           \/ Working /\ packed' = packed /\ Current'.target = Current.target
  <1> USE DEF repoVars, fileVars, remoteVars, procVars, historyVars
  <1>1. CASE FinishEntry
    <2>1. entry \in 1..Len(outbox)
      BY <1>1 DEF FinishEntry, TypeOK
    <2>2. outbox'[entry].target = outbox[entry].target
      BY <1>1, <2>1, SetStateType DEF FinishEntry, SetState
    <2> QED BY <1>1, <2>2 DEF FinishEntry, Working, Current
  <1>2. CASE ~FinishEntry
    BY <1>2
    DEF Next, Upload, WritePack, CompleteBackup, AbortBackup, PruneSnapshot, BeginPush,
          StartEntry, EndPush,
        ExportMeta, ExportFails, PutChunk, PutMeta, WriteRemoteIndex, SaveSynced, PutFails,
        IndexFails, Crash, BackoffEnds, Return, vars, Working, Current
  <1> QED BY <1>1, <1>2

(* How a push comes to each of its stages. *)
LEMMA StageStep ==
    ASSUME TypeOK, [Next]_vars
    PROVE  /\ pc' = "metadata" => Export \/ (pc = "metadata" /\ packed' = packed)
           /\ pc' = "upload" => ExportMeta
                                \/ (pc = "upload" /\ packed' = packed /\ meta' = meta)
           /\ pc' \in {"index", "finish", "saved"} =>
                 /\ packed' = packed
                 /\ PutMeta \/ pc \in {"index", "finish", "saved"}
           /\ (synced' > 0 => synced > 0) \/ SaveSynced
  <1> USE DEF repoVars, fileVars, remoteVars, procVars, historyVars
  <1>1. (synced' > 0 => synced > 0) \/ SaveSynced
    <2>1. CASE Crash
      <3>1. synced' = synced \/ synced' = 0 \/ synced' \in Shortened(synced)
        BY <2>1 DEF Crash
      <3>2. synced \in Nat /\ (synced' \in Shortened(synced) => synced > 0)
        BY DEF Shortened, TypeOK, Txn
      <3> QED BY <3>1, <3>2
    <2>2. CASE ~Crash
      <3>1. synced' = synced \/ SaveSynced
        BY <2>2
        DEF Next, Upload, WritePack, CompleteBackup, AbortBackup, PruneSnapshot, BeginPush,
            StartEntry, EndPush, Export, ExportMeta, ExportFails, PutChunk, PutMeta,
            WriteRemoteIndex, FinishEntry, PutFails, IndexFails, BackoffEnds, vars
      <3> QED BY <3>1
    <2> QED BY <2>1, <2>2
  <1> QED
    BY <1>1
    DEF Next, Upload, WritePack, CompleteBackup, AbortBackup, PruneSnapshot, BeginPush,
          StartEntry, EndPush,
        Export, ExportMeta, ExportFails, PutChunk, PutMeta, WriteRemoteIndex, FinishEntry,
        SaveSynced, PutFails, IndexFails, Crash, BackoffEnds, Return, vars

(* Every step keeps the targets known. *)
LEMMA TargetsStep ==
    ASSUME MInv, [Next]_vars
    PROVE  TargetsKnown'
  <1>1. TypeOK /\ TargetsKnown /\ TypeOK'
    BY TypeStep DEF MInv, IInv
  <1>2. completed \in Nat /\ completed' \in Nat /\ packed \in Nat /\ meta \in Nat
    BY <1>1 DEF TypeOK, Txn
  <1>3. completed' >= completed
    BY <1>1, OnlyGains
  <1>8. latest <= completed' + 1
    <2>1. latest <= completed + 1 /\ latest \in Nat
      BY <1>1 DEF TypeOK, Txn
    <2>2. \A a, b, c \in Nat : a <= b + 1 /\ c >= b => a <= c + 1
      OBVIOUS
    <2> QED BY <1>2, <1>3, <2>1, <2>2
  <1>4. ASSUME NEW i \in 1..Len(outbox')
        PROVE  outbox'[i].target <= completed' + 1
    <2>2. \A j \in 1..Len(outbox) : outbox[j].target \in Nat
                                    /\ outbox[j].target <= completed + 1
      BY <1>1, EntryOfOutbox DEF TargetsKnown, Entry, Txn
    <2>3. CASE \E j \in 1..Len(outbox) : outbox'[i].target <= outbox[j].target
      <3>1. outbox'[i].target \in Nat
        <4>1. outbox' \in Seq(Entry)
          BY <1>1 DEF TypeOK
        <4>2. outbox'[i] \in Entry
          BY <4>1
        <4> QED BY <4>2 DEF Entry, Txn
      <3> QED BY <1>2, <1>3, <2>2, <2>3, <3>1
    <2>4. CASE outbox'[i].target = latest
      BY <1>8, <2>4
    <2> QED BY <1>1, <2>3, <2>4, OutboxStep
  <1>5. Working' => Current'.target <= packed' + 1
    <2>1. CASE Export
      <3>1. entry \in 1..Len(outbox)
        BY <1>1, <2>1 DEF Export, TypeOK
      <3>2. Current' = Current /\ packed' = completed
        BY <2>1 DEF Export, Current, fileVars
      <3> QED BY <1>1, <3>1, <3>2 DEF TargetsKnown, Current
    <2>2. CASE Working /\ packed' = packed /\ Current'.target = Current.target
      BY <1>1, <2>2 DEF TargetsKnown
    <2> QED BY <1>1, <2>1, <2>2, WorkStep
  <1>6. pc' = "metadata" => packed' <= completed'
    <2>1. CASE Export
      BY <1>2, <1>3, <2>1 DEF Export
    <2>2. CASE pc = "metadata" /\ packed' = packed
      BY <1>1, <1>2, <1>3, <2>2 DEF TargetsKnown
    <2> QED BY <1>1, <2>1, <2>2, StageStep
  <1>7. pc' = "upload" => packed' <= meta'
    <2>1. CASE ExportMeta
      BY <1>1, <1>2, <2>1 DEF ExportMeta, TargetsKnown
    <2>2. CASE pc = "upload" /\ packed' = packed /\ meta' = meta
      BY <1>1, <2>2 DEF TargetsKnown
    <2> QED BY <1>1, <2>1, <2>2, StageStep
  <1> QED BY <1>4, <1>5, <1>6, <1>7 DEF TargetsKnown

(* Every step keeps the rule on bases before the metadata is put. *)
LEMMA MetaFirstStep ==
    ASSUME MInv, [Next]_vars
    PROVE  MetaFirst'
  <1>1. TypeOK /\ MetaFirst /\ TargetsKnown /\ unfinished \subseteq unfinished'
    BY OnlyGains DEF MInv, IInv
  <1>2. packed \in Nat /\ meta \in Nat /\ rMeta \in Nat /\ synced \in Nat
    BY <1>1 DEF TypeOK, Txn
  <1> SUFFICES ASSUME rMeta' = 0
               PROVE  /\ synced' > 0 => 1 \in unfinished'
                      /\ \A i \in 1..Len(outbox') : outbox'[i].base > 0 => 1 \in unfinished'
                      /\ pc' \in {"index", "finish", "saved"} => packed' = 0
    BY DEF MetaFirst
  <1>3. rMeta = 0
    BY <1>2, MetaStep DEF StoreMeta, PutUnlessExists
  <1>4. synced' > 0 => 1 \in unfinished'
    <2>1. CASE synced' > 0 => synced > 0
      BY <1>1, <1>3, <2>1 DEF MetaFirst
    <2>2. CASE SaveSynced
      <3>1. entry \in 1..Len(outbox) /\ pc = "saved" /\ packed = 0
        BY <1>1, <1>3, <2>2 DEF SaveSynced, TypeOK, MetaFirst
      <3>2. Current.target \in Nat /\ Current.target <= 1
        BY <1>1, <3>1, EntryOfOutbox DEF TargetsKnown, Working, Current, Entry, Txn
      <3>3. synced' = Current.target
            /\ (Current.target > packed => Current.target \in unfinished')
        BY <2>2 DEF SaveSynced
      <3>4. synced' > 0 => Current.target = 1
        BY <3>2, <3>3
      <3> QED BY <3>1, <3>3, <3>4
    <2> QED BY <1>1, <2>1, <2>2, StageStep
  <1>5. ASSUME NEW i \in 1..Len(outbox'), outbox'[i].base > 0
        PROVE  1 \in unfinished'
    BY <1>1, <1>3, <1>5, OutboxStep DEF MetaFirst
  <1>6. pc' \in {"index", "finish", "saved"} => packed' = 0
    <2>1. CASE PutMeta
      <3>1. meta = 0 /\ packed <= meta
        BY <1>1, <1>3, <2>1 DEF PutMeta, StoreMeta, PutUnlessExists, TargetsKnown
      <3> QED BY <1>2, <2>1, <3>1 DEF PutMeta
    <2>2. CASE pc \in {"index", "finish", "saved"} /\ packed' = packed
      BY <1>1, <1>3, <2>2 DEF MetaFirst
    <2> QED BY <1>1, <2>1, <2>2, StageStep
  <1> QED BY <1>4, <1>5, <1>6

(* The metadata is put when the packs of its bundle are there.             *)
LEMMA MetaWholeStep ==
    ASSUME MInv, [Next]_vars
    PROVE  MetaWhole'
  <1>1. TypeOK /\ MetaFirst /\ MetaWhole /\ UploadOK
    BY DEF MInv, IInv
  <1>2. rChunks \subseteq rChunks' /\ unfinished \subseteq unfinished'
    BY <1>1, OnlyGains
  <1>3. CASE UNCHANGED <<rMeta, late>>
    BY <1>1, <1>2, <1>3 DEF MetaWhole
  <1>4. CASE pc = "upload" /\ todo = {} /\ StoreMeta
    <2>1. CASE rMeta # 0
      BY <1>1, <1>2, <1>4, <2>1 DEF MetaWhole, StoreMeta, PutUnlessExists
    <2>2. CASE rMeta = 0
      <3>1. rMeta' = meta /\ late' = (packed + 1)..meta /\ packed \in Nat /\ meta \in Nat
        BY <1>1, <1>4, <2>2 DEF StoreMeta, PutUnlessExists, TypeOK, Txn
      <3> SUFFICES ASSUME NEW t \in 1..meta, t \notin late', t \notin unfinished',
                          1 \notin unfinished'
                   PROVE  Pack[t] \subseteq rChunks'
        BY <3>1 DEF MetaWhole
      <3>2. t \in 1..packed /\ t \notin unfinished /\ 1 \notin unfinished
        BY <1>2, <3>1
      <3>3. entry \in 1..Len(outbox)
        BY <1>1, <1>4 DEF TypeOK
      <3>4. Current.base = 0
        BY <1>1, <2>2, <3>2, <3>3, EntryOfOutbox DEF MetaFirst, Current, Entry, Txn
      <3>5. FullOnItsWay
        BY <1>1, <1>4, <3>4 DEF UploadOK, Working
      <3> QED BY <1>2, <1>4, <3>2, <3>5 DEF FullOnItsWay
    <2> QED BY <2>1, <2>2
  <1> QED BY <1>3, <1>4, MetaStep

(* MInv holds before the first push and is inductive. *)
LEMMA MInvInit == Init => MInv
  BY IInvInit DEF Init, MInv, MetaFirst, TargetsKnown, MetaWhole, Working

(* Every step keeps MInv. *)
LEMMA MInvStep == MInv /\ [Next]_vars => MInv'
  BY IInvStep, TargetsStep, MetaFirstStep, MetaWholeStep DEF MInv

(* PushSync puts the metadata after what it names: whatever a push leaves  *)
(* on the remote, each backup up to the one of the manifest is whole there *)
(* unless it was still running when the bundle was read.                   *)
THEOREM RemoteIsRestorable == Spec => []RemoteRestorable
  <1>1. MInv => RemoteRestorable
    <2> SUFFICES ASSUME MInv, NEW t \in 1..rMeta,
                        (unfinished \union late) \cap (1..t) = {}, NEW x \in Snap[t]
                 PROVE  x \in rChunks
      BY DEF RemoteRestorable
    <2>1. rMeta \in Nat /\ rMeta <= MaxTxn /\ MetaWhole
      BY DEF MInv, IInv, TypeOK, Txn
    <2>2. t \in 1..MaxTxn
      BY <2>1
    <2>3. PICK u \in 1..t : x \in Pack[u]
      BY <2>2
    <2>4. u \notin unfinished /\ 1 \notin unfinished
      BY <2>2, <2>3
    <2>5. u \in (1..rMeta) \ late
      BY <2>1, <2>3
    <2> QED BY <2>1, <2>3, <2>4, <2>5 DEF MetaWhole
  <1> QED BY <1>1, MInvInit, MInvStep, PTL DEF Spec
=============================================================================
