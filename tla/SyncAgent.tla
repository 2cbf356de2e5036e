----------------------------- MODULE SyncAgent -----------------------------
(***************************************************************************)
(* PushSync of the outer sync agent (eb-sync push), beside the engine that *)
(* completes and aborts backups.                                           *)
(*                                                                         *)
(* A push reads the latest transaction id from the superblock and, if it   *)
(* is beyond the one recorded as synced, enqueues the step from the synced *)
(* one to it in the outbox.  It then works on the outbox in order: the     *)
(* whole repository is exported (base 0) or the chunks of the target's     *)
(* snapshot that the base's has not, and then the metadata, while the      *)
(* engine goes on; chunks, metadata and remote index are put in this       *)
(* order; at last the entry is saved as done and the target as synced.  An *)
(* object that exists is never written again (PutOptions has               *)
(* skip_if_exists, and no caller clears it), the metadata and the remote   *)
(* index included.  Both local files are rewritten in place, and a save    *)
(* that dies leaves any prefix of the text, cut in a number perhaps.       *)
(* Meanwhile the retention policy deletes snapshots; what compaction and   *)
(* garbage collection then do to the packs is not in this module.          *)
(*                                                                         *)
(* The repository has EbPack files, one for every backup.  An object of a  *)
(* bundle is a pack or a single chunk; superblock, manifest and the other  *)
(* metadata are one object, which stands for the backup the manifest is of *)
(* (manifest and superblock sort behind the chunks and the packs, and are  *)
(* read and put after them).  A Put is atomic (S3, PDS).  The in-memory    *)
(* outbox equals the file: every change is saved at once.                  *)
(***************************************************************************)
EXTENDS Integers, Sequences

CONSTANTS Chunks,
          Snap,        \* chunks of the snapshot of every transaction
          Pack,        \* chunks in the pack of every transaction
          Radix,       \* of the numbers in the two local files: 10 in the code
          MaxTxn,      \* bound: number of backups
          MaxFaults    \* bound: failing puts, crashes of the agent

ASSUME MaxTxnAssumption == MaxTxn \in Nat
ASSUME RadixAssumption == Radix \in Nat /\ Radix > 1
ASSUME MaxFaultsAssumption == MaxFaults \in Nat
ASSUME SnapAssumption == Snap \in [1..MaxTxn -> SUBSET Chunks]
ASSUME PackAssumption ==
    /\ Pack \in [1..MaxTxn -> SUBSET Chunks]
    /\ \A t \in 1..MaxTxn : \A x \in Snap[t] : \E u \in 1..t : x \in Pack[u]

VARIABLES
    (* the repository, written by the engine *)
    completed,   \* the backups are 1..completed
    snaps,       \* those whose snapshot manifest is still there
    latest,      \* txn_id in the superblock: completed, or one more (Aborted)
    partial,     \* there is a pack of the backup after them, not complete
    (* catalog/sync_state.json and catalog/sync_outbox.jsonl *)
    synced,      \* synced_txn
    backoff,     \* backoff_until_unix is in the future
    outbox,
    (* the remote *)
    rChunks,     \* chunks it holds, in packs or as objects
    rPacks,      \* packs it holds, by transaction
    rMeta,       \* the backup its metadata is of, 0: none
    rIndex,      \* synced_txn of remote_index.json, 0: none
    (* the process *)
    pc, once,
    entry,       \* position in the outbox
    todo,        \* packs and chunks of the bundle still to be put
    packed,      \* the backups complete when the bundle's chunks were read
    meta,        \* the backup the bundle's metadata is of
    report,      \* what PushSync tells its caller
    (* history *)
    faults,
    unfinished,  \* backups uploaded or recorded as synced before they were complete
    misread,     \* backups a cut number gave as synced that are not on the remote
    late         \* backups of the remote's metadata completed after the chunks were read

repoVars == <<completed, snaps, latest, partial>>
fileVars == <<synced, backoff, outbox>>
remoteVars == <<rChunks, rPacks, rMeta, rIndex>>
procVars == <<pc, once, entry, todo, packed, meta>>
historyVars == <<faults, unfinished, misread, late>>
vars == <<repoVars, fileVars, remoteVars, procVars, report, historyVars>>

Txn == 0..MaxTxn

Entry == [base : Txn, target : Txn, state : {"pending", "uploading", "done", "failed"}]

Current == outbox[entry]

SetState(s) == outbox' = [outbox EXCEPT ![entry].state = s]

Init ==
    /\ completed = 0 /\ snaps = {} /\ latest = 0 /\ partial = FALSE
    /\ synced = 0 /\ backoff = FALSE /\ outbox = <<>>
    /\ rChunks = {} /\ rPacks = {} /\ rMeta = 0 /\ rIndex = 0
    /\ pc = "idle" /\ once = FALSE /\ entry = 0 /\ todo = {}
    /\ packed = 0 /\ meta = 0
    /\ report = "none"
    /\ faults = 0 /\ unfinished = {} /\ misread = {} /\ late = {}

-----------------------------------------------------------------------------
(* The engine.                                                             *)

(* A backup creates its pack, or cuts the one an aborted backup with the   *)
(* same id has left.                                                       *)
WritePack ==
    /\ completed < MaxTxn
    /\ partial' = TRUE
    /\ UNCHANGED <<completed, snaps, latest, fileVars, remoteVars, procVars, report,
                   historyVars>>

(* A backup publishes its manifest and is complete, in one step here.      *)
CompleteBackup ==
    /\ completed < MaxTxn
    /\ completed' = completed + 1
    /\ snaps' = snaps \union {completed + 1}
    /\ latest' = completed + 1
    /\ partial' = FALSE
    /\ UNCHANGED <<fileVars, remoteVars, procVars, report, historyVars>>

(* A backup that fails before its phases end leaves its id in the          *)
(* superblock, with phase Aborted; the next one uses the id again.         *)
AbortBackup ==
    /\ completed < MaxTxn
    /\ latest' = completed + 1
    /\ UNCHANGED <<completed, snaps, partial, fileVars, remoteVars, procVars, report,
                   historyVars>>

(* The retention policy always keeps the newest snapshot; which others it  *)
(* keeps depends on their age, never on what the sync agent has done.      *)
PruneSnapshot(t) ==
    /\ t \in snaps /\ t # completed
    /\ snaps' = snaps \ {t}
    /\ UNCHANGED <<completed, latest, partial, fileVars, remoteVars, procVars, report,
                   historyVars>>

-----------------------------------------------------------------------------
(* PushSync.                                                               *)

(* Mutation: the next transaction id instead of the latest. *)
EnqueuedPast ==
    Append(outbox, [base |-> synced, target |-> latest + 1, state |-> "pending"])

(* EnqueueSyncOutbox: nothing if an unfinished entry has the target.       *)
Enqueued ==
    IF \E i \in 1..Len(outbox) : outbox[i].target = latest /\ outbox[i].state # "done"
    THEN outbox
    ELSE Append(outbox, [base |-> synced, target |-> latest, state |-> "pending"])

BeginPush(o) ==
    /\ pc = "idle"
    /\ ~backoff
    /\ outbox' = IF latest > synced THEN Enqueued ELSE outbox
    /\ pc' = "next" /\ once' = o /\ entry' = 0 /\ report' = "none"
    /\ UNCHANGED <<repoVars, synced, backoff, remoteVars, todo, packed, meta, historyVars>>

(* Mutation: a failed entry is always passed over. *)
EligibleOnce(i) ==
    /\ i > entry
    /\ outbox[i].state \notin {"done", "failed"}

(* The entries PushSync works on: with --once a failed one is passed over. *)
Eligible(i) ==
    /\ i > entry
    /\ outbox[i].state # "done"
    /\ ~(once /\ outbox[i].state = "failed")

StartEntry ==
    /\ pc = "next"
    /\ \E i \in 1..Len(outbox) :
          /\ Eligible(i)
          /\ \A j \in 1..(i - 1) : ~Eligible(j)
          /\ entry' = i
          /\ outbox' = [outbox EXCEPT ![i].state = "uploading"]
    /\ pc' = "export"
    /\ UNCHANGED <<repoVars, synced, backoff, remoteVars, once, todo, packed, meta, report,
                   historyVars>>

(* The process ends, with what it tells the caller.                        *)
Return(r) ==
    /\ pc' = "idle" /\ once' = FALSE /\ entry' = 0 /\ todo' = {}
    /\ packed' = 0 /\ meta' = 0
    /\ report' = r

EndPush ==
    /\ pc = "next"
    /\ \A i \in 1..Len(outbox) : ~Eligible(i)
    /\ Return("ok")
    /\ UNCHANGED <<repoVars, fileVars, remoteVars, historyVars>>

(* Of a pack that is not complete nothing is sure.                         *)
PackOf(t) == [pack |-> t, holds |-> Pack[t]]
PartialPack(t) == [pack |-> t, holds |-> {}]
ChunkObject(c) == [pack |-> 0, holds |-> {c}]

(* Mutation: the chunks that are new in the target only. *)
DeltaOfLast(e) == Snap[e.target] \ Snap[e.target - 1]

(* ExportRepoDeltaToBundle: the chunks of the target that the base has not.*)
Delta(e) == Snap[e.target] \ Snap[e.base]

(* ExportRepoToBundle takes all packs.                                     *)
BundleChunks(e) ==
    IF e.base = 0
    THEN {PackOf(t) : t \in 1..completed}
            \union IF partial THEN {PartialPack(completed + 1)} ELSE {}
    ELSE {ChunkObject(c) : c \in Delta(e)}

(* A delta goes forward and needs the manifests of both snapshots.         *)
CanExport(e) ==
    e.base = 0 \/ (e.base < e.target /\ {e.base, e.target} \subseteq snaps)

(* The files are read one after the other, without a lock.                *)
Export ==
    /\ pc = "export"
    /\ CanExport(Current)
    /\ todo' = BundleChunks(Current)
    /\ packed' = completed
    /\ pc' = "metadata"
    /\ UNCHANGED <<repoVars, fileVars, remoteVars, once, entry, meta, report, historyVars>>

(* The manifest is read last: a backup may have completed since.           *)
ExportMeta ==
    /\ pc = "metadata"
    /\ meta' = completed
    /\ pc' = "upload"
    /\ UNCHANGED <<repoVars, fileVars, remoteVars, once, entry, todo, packed, report,
                   historyVars>>

ExportFails ==
    /\ pc = "export"
    /\ ~CanExport(Current)
    /\ SetState("failed")
    /\ Return("error")
    /\ UNCHANGED <<repoVars, synced, backoff, remoteVars, historyVars>>

(* Put of a pack or chunk: a pack that exists is not written again, even   *)
(* if the one of the repository has changed since.                         *)
Store(o) ==
    IF o.pack \in rPacks
    THEN UNCHANGED <<rChunks, rPacks, unfinished>>
    ELSE /\ rChunks' = rChunks \union o.holds
         /\ rPacks' = IF o.pack = 0 THEN rPacks ELSE rPacks \union {o.pack}
         /\ unfinished' = IF o.pack > packed THEN unfinished \union {o.pack} ELSE unfinished

PutChunk ==
    /\ pc = "upload"
    /\ \E o \in todo : Store(o) /\ todo' = todo \ {o}
    /\ UNCHANGED <<repoVars, fileVars, rMeta, rIndex, pc, once, entry, packed, meta,
                   report, faults, misread, late>>

(* Put of an object that exists succeeds and changes nothing.              *)
PutUnlessExists(old, new) == IF old = 0 THEN new ELSE old

StoreMeta ==
    /\ rMeta' = PutUnlessExists(rMeta, meta)
    /\ late' = IF rMeta = 0 THEN (packed + 1)..meta ELSE late

(* Mutation: the metadata does not wait for the chunks. *)
PutMetaEarly ==
    /\ pc = "upload"
    /\ StoreMeta
    /\ pc' = IF todo = {} THEN "index" ELSE pc
    /\ UNCHANGED <<repoVars, fileVars, rChunks, rPacks, rIndex, once, entry, todo, packed, meta,
                   report, faults, unfinished, misread>>

PutMeta ==
    /\ pc = "upload" /\ todo = {}
    /\ StoreMeta
    /\ pc' = "index"
    /\ UNCHANGED <<repoVars, fileVars, rChunks, rPacks, rIndex, once, entry, todo, packed, meta,
                   report, faults, unfinished, misread>>

(* A put fails: for good, or with a backoff; the object may have arrived   *)
(* although the answer was lost.  A bundle that cannot be written or read  *)
(* back ends in the same state as a first put that fails for good.         *)
PutFails ==
    /\ pc = "upload"
    /\ faults < MaxFaults
    /\ \/ UNCHANGED <<rChunks, rPacks, rMeta, unfinished, late>>
       \/ (\E o \in todo : Store(o)) /\ UNCHANGED <<rMeta, late>>
       \/ todo = {} /\ StoreMeta /\ UNCHANGED <<rChunks, rPacks, unfinished>>
    /\ \/ SetState("failed") /\ UNCHANGED backoff
       \/ SetState("pending") /\ backoff' = TRUE
    /\ Return("error")
    /\ faults' = faults + 1
    /\ UNCHANGED <<repoVars, synced, rIndex, misread>>

WriteRemoteIndex ==
    /\ pc = "index"
    /\ rIndex' = PutUnlessExists(rIndex, Current.target)
    /\ pc' = "finish"
    /\ UNCHANGED <<repoVars, fileVars, rChunks, rPacks, rMeta, once, entry, todo, packed, meta,
                   report, historyVars>>

IndexFails ==
    /\ pc = "index"
    /\ faults < MaxFaults
    /\ \/ rIndex' = PutUnlessExists(rIndex, Current.target)
       \/ UNCHANGED rIndex
    /\ SetState("failed")
    /\ Return("error")
    /\ faults' = faults + 1
    /\ UNCHANGED <<repoVars, synced, backoff, rChunks, rPacks, rMeta, unfinished, misread,
                   late>>

(* The entry is saved as done, then the target as synced.                  *)
FinishEntry ==
    /\ pc = "finish"
    /\ SetState("done")
    /\ pc' = "saved"
    /\ UNCHANGED <<repoVars, synced, backoff, remoteVars, once, entry, todo, packed, meta, report,
                   historyVars>>

SaveSynced ==
    /\ pc = "saved"
    /\ synced' = Current.target
    /\ backoff' = FALSE
    /\ unfinished' = IF Current.target > packed THEN unfinished \union {Current.target}
                                                ELSE unfinished
    /\ IF once
       THEN Return("ok")
       ELSE /\ pc' = "next" /\ packed' = 0 /\ meta' = 0
            /\ UNCHANGED <<once, entry, todo, report>>
    /\ UNCHANGED <<repoVars, outbox, remoteVars, faults, misread, late>>

(* A number that is cut keeps its leading digits, and is read as such.     *)
Shortened(t) == {u \in 1..t : \E k \in 0..t : u = t \div (Radix ^ k)}

(* An outbox whose save was cut.  The last line counts if it ends behind a *)
(* digit of its target: then its state is pending, and the target may be   *)
(* shortened; if it ends before, it is passed over.                        *)
CutEntries(e) == {[e EXCEPT !.target = u, !.state = "pending"] : u \in Shortened(e.target)}

CutOutboxes ==
    {SubSeq(outbox, 1, n) : n \in 0..Len(outbox)}
       \union UNION {{Append(SubSeq(outbox, 1, i - 1), e) : e \in CutEntries(outbox[i])} :
                        i \in 1..Len(outbox)}

(* The agent dies, in one of its saves perhaps.  synced_txn stands before  *)
(* the backoff in its file: it is gone, shortened or whole.                *)
Crash ==
    /\ pc # "idle"
    /\ faults < MaxFaults
    /\ \/ UNCHANGED <<fileVars, misread>>
       \/ outbox' \in CutOutboxes /\ UNCHANGED <<synced, backoff, misread>>
       \/ /\ synced' \in {0} \union Shortened(synced)
          /\ backoff' = FALSE
          /\ misread' = misread \union {t \in {synced'} \ {0} : ~(Snap[t] \subseteq rChunks)}
          /\ UNCHANGED outbox
    /\ Return("none")
    /\ faults' = faults + 1
    /\ UNCHANGED <<repoVars, remoteVars, unfinished, late>>

BackoffEnds ==
    /\ backoff /\ pc = "idle"
    /\ backoff' = FALSE
    /\ UNCHANGED <<repoVars, synced, outbox, remoteVars, procVars, report, historyVars>>

-----------------------------------------------------------------------------
Upload ==
    \/ StartEntry \/ EndPush \/ Export \/ ExportMeta \/ ExportFails \/ PutChunk \/ PutMeta
    \/ WriteRemoteIndex \/ FinishEntry \/ SaveSynced

Next ==
    \/ WritePack \/ CompleteBackup \/ AbortBackup
    \/ \E t \in 1..MaxTxn : PruneSnapshot(t)
    \/ \E o \in BOOLEAN : BeginPush(o)
    \/ Upload
    \/ PutFails \/ IndexFails \/ Crash \/ BackoffEnds

Spec == Init /\ [][Next]_vars

(* A push that runs goes on, the backoff ends, and pushes that drain the   *)
(* outbox are started again and again (mode sync_drain of the daemon).     *)
Fairness ==
    /\ WF_vars(Upload)
    /\ WF_vars(BackoffEnds)
    /\ SF_vars(BeginPush(FALSE))

FairSpec == Spec /\ Fairness

-----------------------------------------------------------------------------
Object == [pack : Txn, holds : SUBSET Chunks]

(* Types; an entry is in hand while it is worked on.                       *)
TypeOK ==
    /\ completed \in Txn /\ latest \in completed..(completed + 1) /\ latest \in Txn
    /\ snaps \subseteq 1..completed /\ partial \in BOOLEAN
    /\ synced \in Txn /\ backoff \in BOOLEAN
    /\ outbox \in Seq(Entry)
    /\ rChunks \subseteq Chunks /\ rPacks \subseteq 1..MaxTxn
    /\ rMeta \in Txn /\ rIndex \in Txn
    /\ pc \in {"idle", "next", "export", "metadata", "upload", "index", "finish", "saved"}
    /\ once \in BOOLEAN
    /\ entry \in 0..Len(outbox) /\ (pc \notin {"idle", "next"} => entry > 0)
    /\ todo \subseteq Object /\ packed \in Txn /\ meta \in Txn
    /\ report \in {"none", "ok", "error"}
    /\ faults \in 0..MaxFaults
    /\ unfinished \subseteq 1..MaxTxn /\ misread \subseteq 1..MaxTxn
    /\ late \subseteq 1..MaxTxn

(* What is recorded as synced is on the remote: every chunk of the backup  *)
(* synced_txn is in a pack or an object there, whatever failed or crashed  *)
(* on the way and in whichever order the outbox was worked off, provided   *)
(* that no backup up to it was uploaded before it was complete (its pack   *)
(* would not be put again), and that no save was cut inside synced_txn so  *)
(* that a backup up to it was taken for synced that was not there.         *)
SyncedCovered ==
    synced > 0 /\ (unfinished \union misread) \cap (1..synced) = {} =>
        Snap[synced] \subseteq rChunks

(* The remote alone is enough: every backup up to the one the manifest     *)
(* there is of has all its chunks there, at any moment of any push, also   *)
(* of one that dies half way or is never finished, with the same proviso   *)
(* and for the backups complete when the export of the bundle with the     *)
(* manifest began.                                                         *)
RemoteRestorable ==
    \A t \in 1..rMeta :
        (unfinished \union late) \cap (1..t) = {} => Snap[t] \subseteq rChunks

(* With pushes tried again and again, the last backup is synced in the end *)
(* and stays so: no entry that failed, was interrupted, lost its answer or *)
(* was cut short is forgotten or blocks the outbox for good, unless it can *)
(* never be exported: its base or its target has been pruned, its target   *)
(* was cut to one not after its base, or is an aborted backup.  Such an    *)
(* entry is tried first by every push that drains the outbox, and ends it. *)
EventuallySynced ==
    <>[](/\ latest = completed
         /\ \A i \in 1..Len(outbox) : outbox[i].state = "done" \/ CanExport(outbox[i])
         => synced = completed)

(* The sync-point: after a push that returned without an error the remote  *)
(* index names the backup recorded as synced.                              *)
SyncPoint == pc = "idle" /\ report = "ok" /\ synced > 0 => rIndex = synced
=============================================================================
