# eBackUp: TLA+ models, model checking and proofs

eBackUp is a deduplicating backup program: a C++ kernel (`engine_cpp/`), an
outer synchronisation agent (`sync_cpp/`) and a desktop front end (`gui/`).
This directory models how one backup transaction reaches the disk and what is
left of it when a step fails, the process dies or the power goes; the threads that
feed it; the compaction that rewrites what it wrote; and the agent that copies it
to a remote.

## 1. The system

Paths are relative to `src/engine_cpp/src/` unless they say otherwise.

| Component | State | Operations | Talks to |
|---|---|---|---|
| superblock store (`state/superblock.cc`) | `superblock.bin`: two slots with an epoch | `Load`, `Commit` | engine; read without a lock by retention, compaction, maintenance, sync agent |
| backup engine (`engine/backup_engine.cc`, `include/ebbackup/state/backup_phase.h`, `state/sync_executor.cc`) | `sb_`, `phase_`, pending lists; `manifest` | `InitRepoEx`, `Open`, `RunBackup`, `Recover`, `Verify`, `GcOrphans`, `PruneSnapshots`, job queue entry points | all of the others |
| chunk store (`store/chunk_store.cc`) | in-memory index, write buffer, append session, tombstones; `data/chunks` | `Open`, `Put*`, `Flush`, `Get`, `TombstoneHash` | EbPack writer, chunk index |
| EbPack writer (`store/eb_pack.cc`) | one open pack per shard; `data/packs/*.ebpack`, named after transaction, sequence number and shard | append, spill, finalize, fsync | chunk store |
| chunk index (`store/chunk_index.cc`) | `chunk.idx` | `Load`, `Save`, `RebuildFromScan` | chunk store, compaction |
| snapshots and retention (`store/snapshot_store.cc`, `store/retention_policy.cc`) | snapshot manifests and their index | archive, delete, prune | engine, GC |
| orphan GC (`store/orphan_gc.cc`) | `chunks.tombstones` | scan, tombstone | chunk store, snapshots |
| compaction (`store/eb_pack_compactor.cc`, `store/chunk_compactor.cc`) | temporary packs, new index | copy, remove old packs, rename new ones, rename the index | superblock, chunk index, snapshots |
| audit chain (`audit/rar_chain.cc`) | `audit/rar.chain` | append backup entry, append ops entry, verify | engine |
| pipeline (`pipeline/backup_pipeline.cc`, `pipeline/file_scheduler.cc`) | bounded queues, per-file counters, worker threads | read, cut, compress, store, finalize | chunk store |
| jobs, queue, daemon (`job/`, `queue/job_queue.cc`, `daemon/`) | job list, persisted queue | enqueue, run next, watch | engine |
| restore (`engine/restore_engine.cc`, `restore/in_place_restore.cc`) | journal of an in-place restore | plan, write, roll back | chunk store |
| sync agent (`src/sync_cpp/src/`) | `sync_outbox.jsonl`, `sync_state.json`; objects of the remote | enqueue, export a bundle, put, record, back off | superblock, bundle archive, remote |
| chunking, digests, encryption, codecs, catalog, reports, scanning, VSS, plugins, C API, CLI, GUI | none that a backup's consistency depends on, or derived data | | |

What is hard in it:

* A backup makes six things durable one after the other (chunks, manifest,
  snapshot, audit entry, chunk index, superblock), with no log over them. The
  transaction id is used up only by the last one, so whatever is interrupted
  before is run again *under the same id*, over what the first try left.
* Default repositories use *coalesced metadata*: no phase in progress reaches the
  disk, and after a crash the superblock says Idle. Legacy repositories persist
  every phase and find the transaction in flight after a crash.
* Errors of the final commits are partly ignored (`(void)PersistSuperBlock`),
  while memory has advanced.
* The superblock is overwritten in place and read by other processes without a
  lock.
* The pipeline has four kinds of threads over bounded queues; who closes a queue,
  and who puts a file into the manifest, is decided by counters and flags that
  several of them read without a common lock.
* Compaction removes the packs before the new ones are in place, takes no lock and
  looks at the phase on disk, which is Idle during a backup of a default repository.
* The sync agent is run again and again over what earlier runs left half done, on
  the remote and in its own two files.

Per component, what makes it correct: the *superblock* is one versioned value; a
*manifest* that is published names only chunks that are on disk; an *index entry*
points to a record; the *audit chain* follows the manifests one by one; an *Idle*
superblock means a complete backup; a *snapshot* is never replaced; transaction
ids never go back; a *completed backup* verifies after any restart; the *pipeline*
ends, and a success means that every file is whole and in the manifest;
*compaction* loses nothing that is retained and leaves nothing else; what is
recorded as *synced* is on the remote, and every backup gets there as long as its
snapshots are kept.

`PROJECT.json` lists the hazards, each at its line, with the properties aimed at
it.

## 2. Modules

| Module | Role |
|---|---|
| `SuperBlockRegister` | abstract specification of the superblock: a versioned register with a visible and a stable version; a commit is taken or dropped as a whole |
| `SuperBlock` | the two-slot file, the engine that commits, a reader in another process, kills, failing fsyncs, power failures |
| `SuperBlockProofs` | proofs about `SuperBlock`, including the refinement |
| `BackupJournal` | abstract specification of a repository's metadata: a journal of transactions |
| `BackupEngine` | `RunBackup` over chunk store, packs, index, manifest, snapshots, audit chain and superblock |
| `BackupProofs` | proofs: transaction ids and metadata, and that they implement the journal |
| `BackupStoreProofs` | proofs: records, index and manifest |
| `FileIntake` | abstract specification of the pipeline: files are taken in one after the other, whole |
| `Pipeline` | `RunBackupPipeline`: threads, queues, counters, errors |
| `PipelineStoreBuffer` | `Pipeline` on a processor that lets a load overtake a store |
| `PipelineProofs` | proofs: closing order, whole entries, no file left out |
| `PipelineDeadlockProofs` | proof: the threads never all wait for one another, but for one case |
| `PipelineIntakeProofs` | proof: the threads implement `FileIntake` |
| `SyncAgent` | `PushSync` beside an engine that completes and aborts backups |
| `SyncProofs` | proofs: what is recorded as synced, and what the remote's manifest names, is on the remote |
| `Compaction` | `CompactEbPackStore` beside backups, engine objects and prunings |
| `CompactionProofs` | proofs: nothing retained is lost, also half way, deduplication is sound, compaction is exact |
| `MCSuperBlock`, `MCBackup`, `MCPipeline`, `MCSync`, `MCCompaction` | the modules TLC runs |

The modules meet at the disk. `BackupEngine` takes the superblock as the one value that
`SuperBlock` shows it to be when commits are fsynced; the chunks it puts in any order are what
`Pipeline` delivers; `Compaction` and `SyncAgent` take a backup as the steps of
`BackupEngine` that another process can see: packs appear, then manifest,
snapshot, index and superblock do, or an Aborted superblock.

### SuperBlock

`cache` is what processes read of each slot, `durable` what survives a power
failure. A slot that fails magic or checksum is `Torn`; every field other than
the epoch is one value. `Commit` is cut where another actor can come between:
the election, the choice of slot and the first byte (`BeginCommit`, after which
the slot is torn for readers), the end of the write (`WriteSlot`), the fsync
(`Fsync`), the write and the fsync that fail (`WriteError`, `FsyncFails`). The engine
may be killed at each of these points (`Kill`), and what it has written stays in the
page cache. A power failure keeps, for every slot that is not synced, the old block,
the new one or neither; the kernel may also write a slot back by itself (`WriteBack`).
The reader's `Load` is two reads with the engine in between. `mem` is the epoch in `sb_`,
which `Commit` never updates: the code takes the maximum with what it loads, and the
model does so too.

Four history variables say what the store owes its clients. `visible` is the last block
written, the one `Load` elects; `committed` the last one known to be on disk (its fsync
has returned, or a power failure has kept it). A commit that was written and not
fsynced, because the engine was killed between `io.flush` and the return of `FsyncPath` or
because the fsync failed, is visible and not committed. The next commit elects it all
the same and goes to the other slot, which alone is on disk: this commit is `atRisk`, and
until its fsync a power failure may take both blocks (`lost`). The properties are stated
up to there, and the abstract register has the same gap: `WritesInactive` and
`NeverLosesCommitted` do not hold without the condition `~atRisk`.

### BackupEngine

A backup is a sequence of steps, `pc` says where it is: *scanning, chunking,
storing, flushed, committing, published, archived, auditing, audited,
finishing*. Between any two of them the step may return an error (`Fail`), the process
may be killed (`Kill`, which may have written any part of the buffer) or the power
may go (`PowerLoss`, which may lose any record that no fsync covered).

| Step | Code in `backup_engine.cc` |
|---|---|
| `StartBackup`, `RefuseBackup`, `RejectBackup` | `RunBackup` up to phase Scanning (1620-2092): the id is taken in memory; refusals return with it changed; failing hooks, VSS or phase persist Aborted |
| `BeginChunking` | scan, phase Chunking, `BeginAppendSession` (2094-2141) |
| `PutChunk` | deduplication against index and tombstones, then append to buffer or pack (`chunk_store.cc` 531-741, `eb_pack.cc` 53-192) |
| `BeginStoring`, `Flush` | 2153-2217, with `ChunkStore::Flush` and `EndAppendSession` |
| `BeginCommittingMeta`, `PublishManifest`, `ArchiveSnapshot` | 2219-2238, `CommitManifestFile` |
| `BeginAuditing`, `AppendAuditEntry` | 2240-2301 |
| `SaveIndex`, `Complete` | 2303-2329: index, next id in memory, final superblock commit |
| `Open`, `SelfCheck`, `LoadIndex` | `Open`, `StartupSelfCheck`, `ChunkStore::LoadIndex` |
| `Recover`, `GcOrphans`, `PruneSnapshot` | as named |

The superblock is one atomic value here; `SuperBlock` justifies it for commits that
are not at risk. A commit that fails leaves it as it was (the write failed) or changed (the fsync
failed), and in both cases memory keeps the new value. Afterwards the engine
object is dropped (`Outlives = FALSE`: `eb` and the daemon build one per
run) or used on (`Outlives = TRUE`: a handle of the C API).

Abstractions:

* a chunk is its content hash, a source tree a set of chunks, a record a
  pair of pack and chunk; offsets, and with them torn records, are left out;
* one pack shard and one pack file per transaction (no spill to a second file);
  the truncation of a pack is durable at once;
* archiving a snapshot (file and index) is one step, and so is deleting one;
* the choice of snapshots to prune is free, except that the newest stays;
* every backup cuts its tree anew: incremental reuse of the previous manifest
  and what the pipeline trusts about earlier chunks are left out;
* catalog, reports and the CARL anchor are written best effort and left out;
* GC tombstones any subset of the orphans (a sweep that is interrupted); its
  flag `latest_manifest_only` is left out;
* `Recover` and `Open` with a failing commit are steps that change nothing;
* `PutChunk` always deduplicates against the index. The pipeline stores a chunk without
  asking the index in full mode (`PutPrecompressed` with `skip_exists_check` or
  `pipeline_dedup_trust_`, `chunk_store.cc` 646), so it may append a chunk again that is
  already stored, in this backup or an earlier one; the index then points to the newer
  record. No property here depends on which of two records of a chunk is found;
* an fsync of the superblock that fails, or is never done because the process is killed
  after the write, followed by a power failure, is left out (`SuperBlock` has it).

`BackupJournal` is what the metadata of a default repository promises, without phases,
indexes and processes: the open transaction is the one after the last completed; it is
published, archived and audited in this order, any of these may happen again (a
retry under the same id), and only when manifest, snapshot and audit entry are the same
may it complete. `Journal` in `BackupEngine` maps `completed` to the superblock's next id
minus one, and the manifest, the snapshots and the last audit entry to themselves.

### Pipeline

    main -> fileQ[w] -> reader w -> readQ[w] -> chunker w -> chunkQ
         -> compressors -> encodedQ -> store workers -> hashes of the file

A step is what a thread does between two waits, cut further wherever another thread
can see the difference: counting a batch, pushing one chunk, the store to
`chunking_complete`, the check in `TryFinalizeFile`. `SetError` is two steps, since
the error is visible before the queues are closed; the queues it closes are the ones
registered by then. A thread leaves when it pops after the error, or when its
queue is closed and empty.

| Actions | Code in `backup_pipeline.cc` |
|---|---|
| `StartWorker`, `PushFile`, `CloseFileQueue`, `Join` | `RunBackupPipeline` 2151-2222 |
| `ReaderPop`, `ReadFile`, `ReadUnreadable`, `ReaderLeave` | `ReaderStage` 1848-1899 |
| `ChunkerPop`, `CutBatch`, `PushChunk`, `ChunkedAll`, `ChunkError`, `CompleteChunking`, `TryFinalizeFile`, `ChunkerLeave` | `ChunkerStage` 1901-1945 and the `ChunkFile*` functions 650-1440, which differ in where they cut and not in what they do with the queues |
| `CompressorPop`, `EncodeChunk`, `EncodeError`, `CompressorLeave` | `CompressorWorker` 1947-1986 |
| `StorerPop`, `StoreChunk`, `StoreError`, `StorerLeave` | `StoreWorker` 1988-2046, `RecordStoredChunkHash`, `MaybeFinalizeFileLocked` |
| `...CloseAll` | `SetError`, `CloseAllStageQueues` 290-320 |

A chunk is its index in its file. Which worker gets which file (`ScheduleFilesByColor`) is
the constant `Assigned`, assumed to give every file to one worker. The paths that
handle a single small file in the calling thread (1441-1837) have no queues and are left
out. `Pipeline` takes the atomics as sequentially consistent, which is what the
proofs are about; `PipelineStoreBuffer` adds the one reordering that x86 does.

`Deadlocked` says that the pipeline has not returned and that every thread waits: at
a full or an empty queue that is open, or, main, for the others. `ReaderGone` is the one
case in which that happens, the finding of `pipeline_stuck`: main stands at the full
file queue of a worker whose reader left before the queues were registered.

`FileIntake` is the same backup as a loop: chunks of pending files are recorded, a
pending file is taken into the manifest when all its chunks are, or is reported as
unreadable; it returns an error at any time, and success when nothing is pending.

### SyncAgent

The engine's side is four facts: a pack is written, a backup completes, a backup
aborts and leaves its id in the superblock, and the retention policy deletes the manifest
of a snapshot (`PruneSnapshot`, of any but the newest, whatever the sync agent still
needs). `PushSync` is cut at each save and each put.
A full bundle (base 0) has all packs as they are at that moment, of a running backup
too; a delta has the chunks of the target's snapshot that the base's has not, and needs
the manifests of both (`CanExport`). The manifest is read after them (`ExportMeta`), with no lock, so a backup may complete in between
and its manifest go into a bundle without its chunks (history variable `late`). The
remote keeps what it has (`skip_if_exists`). A put may fail for good or for a retry, and
may have arrived all the same. A crash may hit any step; the two saves truncate and
rewrite in place, and one that is cut leaves any prefix of the text. Of the outbox that is
some whole lines (`CutOutboxes`), followed perhaps by one that ends behind a digit of its
target, which `ParseOutboxLine` accepts: it is pending, and its target the leading
digits (`CutEntries`, `Shortened`). Of the state it is a `synced_txn` that is gone,
shortened or whole, without the backoff, which stands behind it. The history variable
`unfinished` holds the backups that were uploaded, or recorded, before they were complete;
`misread` those that a shortened `synced_txn` names and that are not on the remote.

An entry that can never be exported blocks the outbox for good: every push that drains it
tries this entry first and returns its error (`sync_agent.cc` 425-432), and new entries
start from the same `synced_txn`. This is so if the base or the target has been pruned, if
a cut target is not after its base, or if the target was aborted. `EventuallySynced`
is therefore stated for outboxes without such an entry; it fails otherwise.

| Actions | Code in `sync_agent.cc` |
|---|---|
| `BeginPush`, `StartEntry`, `EndPush` | `PushSync` 372-400, 511-513, `EnqueueSyncOutbox` |
| `Export`, `ExportMeta`, `ExportFails` | 402-446, `eb_bundle.cc` 374-534 |
| `PutChunk`, `PutMeta`, `PutFails` | 448-485 |
| `WriteRemoteIndex`, `IndexFails` | 43-58, 487-493 |
| `FinishEntry`, `SaveSynced` | 495-508 |
| `Crash`, `BackoffEnds` | the saves in `sync_outbox.cc` 96-179 and `sync_state.cc` 198-324; 381-384 |
| `PruneSnapshot` | `retention_policy.cc` 67-160, `snapshot_store.cc` 198-216 |

Left out: pull and remote restore, ferry bundles, a repository that is moved to
another remote (which keeps its `synced_txn`), and the local directory, whose `Put` a
crash can tear; and compaction and garbage collection between two pushes, which replace or
remove packs of the repository. The backoff ends some time; how long it is, is not modelled (`attempt` is
a local variable, so it is always the first value of the scale that
`CLOUD_ECOSYSTEM.md` line 134 describes).

### Compaction

`CompactEbPackStore` is cut at every record it copies, every pack it removes or
renames and at the rename of the index; it may stop anywhere, with an error or
by a kill. Beside it run an engine object that stays open (its index, `places`, is
the one it loaded), backups that complete or abort, and `DeleteSnapshot`, cut between
the removal of the manifest and the save of the index.

| Actions | Code |
|---|---|
| `CompactBegin`, `MayCompact` | `chunk_compactor.cc` 53-73, `eb_pack_compactor.cc` 55-112, `orphan_gc.cc` 41-67 |
| `CopyRecord`, `FinishCopy` | `eb_pack_compactor.cc` 114-166 |
| `RemoveOld`, `BeginMove`, `MoveNew`, `EndMove`, `PublishIndex` | 168-203 |
| `CompactStops` | the error returns of all of these, or a kill |
| `PruneFile`, `PruneIndex`, `PruneFails` | `snapshot_store.cc` 198-216 |
| `Open`, `StoreChunks`, `CommitBackup`, `AbortBackup`, `Close` | `backup_engine.cc` 576-692, 2094-2329 |

Two history variables delimit what is claimed. `torn`: a compaction stopped after it
removed the first old pack and before the new index was in place; the packs are then
lost (there is no recovery, and when a rename fails the rest of the new packs is
deleted too). `crossed`: a backup was under way when the packs were replaced, or was run
later by an object that had been opened before; compaction does not see it, since a
default repository is Idle on disk during a backup. Outside of these two the code is
right, and that is what the properties say: in particular, a compaction names its packs
like the backup of the id in the superblock, which is safe only because an aborted
backup, whose id is used again, keeps compactions away until a backup has completed.

Left out: the swap of the legacy chunk file, tombstones (`ForEachRecord` passes
over a tombstoned record, so compaction makes the loss that `tombstone` shows final),
dry runs, power failures during the swap, and removals that fail silently (their
error code is ignored, and the pack stays).

## 3. Runs

| Run | Expect | What it shows |
|---|---|---|
| `superblock` | pass | two slots implement the register; the inactive slot is written; no committed block is lost unless a commit was begun over one that was not fsynced; a reader is at most one block behind and fails only if overtaken |
| `modern` | pass | default repository, with power failures: audit chain, Idle superblock, index and snapshots agree after any sequence of crashes and retries; the metadata is a journal |
| `legacy` | pass | legacy repository, with kills and an engine object that outlives failed commits: published chunks readable; the self-check never has to skip a transaction |
| `power_loss` | violation | `Flush` with an empty buffer skips the fsync (legacy) |
| `reused_pack` | violation | a reused id truncates the pack that the saved index points into |
| `tombstone` | violation | a collected chunk that is put again stays unreadable |
| `pipeline` | pass | entries of the manifest are whole; success leaves out no file; a queue closes after its producers; the threads do not deadlock; they implement `FileIntake`; the pipeline ends, whatever fails |
| `pipeline_stuck` | violation | an error before a worker's queues are registered leaves the calling thread waiting on a queue that nobody reads |
| `pipeline_lost` | violation | on x86 neither the chunker nor the store worker may finalize a file, and the backup succeeds without it |
| `sync` | pass | what is recorded as synced is on the remote, after failures, lost answers and crashes that cut the local files; the manifest on the remote names only backups that are whole there; the last backup is synced in the end as long as the entries can be exported |
| `sync_index` | violation | the remote index is never replaced, so it names the first push for ever |
| `compaction` | pass | retained chunks stay readable, and have a copy while the packs are replaced; deduplication is sound, and a compaction that succeeds leaves exactly what it keeps |

Each violation is a statement of the manual, the changelog, a comment or a test that
the code does not keep; `findings` in `PROJECT.json` quotes it. `reused_pack` and
`tombstone` also occur with process kills as the only fault.

`findings` also has what was met while modelling and is not the subject of a run:

* after one superblock slot has decayed under an open engine, an epoch ends up in the
  slot of the other parity, and `Commit` from then on overwrites the elected block;
* after a commit whose fsync failed, or whose process was killed before it, the next
  one overwrites the only slot that is surely on disk;
* an outbox entry whose base was pruned, or whose target was cut short, blocks the
  outbox for good;
* after a crash of a legacy backup, `Verify` compares the old manifest with the new
  transaction id;
* an id that is used again after its audit entry was appended has two entries, and
  historical `Verify` takes the first;
* with `Modern` and `Outlives` both true, `TxnMonotone` does not hold: an engine
  object used on after a failed final commit publishes ids that are not on disk;
* an engine object that has compacted its repository goes on with the old index.

Bounds.

* `superblock`: two values and five epochs, so both slots are overwritten twice, a
  reader can be overtaken, and a commit can be at risk, be lost to a power failure and
  be followed by others. 1,270,478 states.
* Backups: two chunks; trees `{c1}` and `{c1, c2}`, so that a backup may reuse, add
  or orphan a chunk; two transaction ids (three in `legacy`), each used any number of
  times, since aborted and crashed backups do not use theirs up. Two ids are a completed
  backup and one that runs over it, which is what every property relates.
* `pipeline`: two file workers, one compressor and two store workers over queues of
  depth one, so that every push can block; a file of two chunks, cut in one batch
  or two, an empty file and a file of one chunk. A worker has at most two files here,
  what a queue of depth one and a reader's hand take; with three the pipeline need
  not end, which is `pipeline_stuck`. Two store workers race for the last chunk, with
  the chunker and with each other; the theorems cover more threads for all but
  `Termination`. 514,536 states. `DeadlockOnlyAtReaderGone` was also checked with three
  files for one worker (about 3.5 million states), where its exception occurs.
* `sync`: three backups, of which the second adds a chunk that the third keeps, so
  that a delta over both differs from the last step; one fault (a put that fails, a
  crash), with which an entry fails, is lost or is cut, and is met again by later pushes;
  any snapshots but the newest may be pruned. The radix of the numbers is 2 instead of 10,
  so that a number of one digit more than the shortest can be cut (3 to 1, 2 to 1). That
  a number is cut to a backup that was never pushed takes more backups than three
  (`misread` stays empty); the theorems cover it, and any number of faults. 989,940
  states.
* `compaction`: three ids, two compactions, three chunks in two trees that share one;
  the trees are each other's mirror image, which is the symmetry used. A chunk can so be
  stored, dropped, left out by a compaction and stored again. 3,167,230 states.

`MaxEpoch`, `MaxTxn`, `MaxFaults` and `MaxCompacts` are the only bounds in guards; the
theorems hold for every value of them.

Fairness. `pipeline` assumes weak fairness of every thread (`Main`, `Reader(w)`,
`Chunker(w)`, `Compressor(k)`, `Storer(s)`): a thread that can go on is scheduled; a
thread that waits on a condition variable is woken, as each `Push`, `Pop` and `Close`
notifies. Nothing is assumed about whether files are readable or chunks can be
stored. `sync` assumes that a push that runs goes on, that the backoff ends, and, as strong fairness,
that pushes which drain the outbox are started again and again, which the daemon's
mode `sync_drain` does; with `--once` alone a failed entry is never tried again.
Failures and crashes are bounded by `MaxFaults`: with infinitely many nothing would
get through. The other runs check safety only.

Deadlock is checked except in the runs of the pipeline, which ends; that it ends is
`Termination`.

Every property of a passing run has a mutation of the model (a plausible slip in
the code: an fsync left out, an id used up too early, a queue closed by any producer, a
delta against the wrong base) that TLC finds violating it. The mutants stand in
front of the definitions they replace.

## 4. Theorems

All are proved by TLAPS for every value of the constants.

**SuperBlockProofs** (no assumption beyond those on the constants):
`TypeCorrect`, `WritesInactiveAlways`, `CommittedSurvives`, `ReaderAtMostOneBehind`,
`Refinement`. The inductive invariant says that the visible block is in the slot of its
epoch's parity and the other slot holds an older one or nothing valid (`SlotsInv`); that,
as long as no commit is at risk, the committed block is in its slot, the same in cache
and on disk, and the visible one is it or the next (`SyncedInv`); which slot a commit in
flight is aimed at (`EngineInv`); and, for the reader, what it can have read given the
epoch at which it started (`ReaderInv`). Without the parity nothing says that the slot
`Commit` computes is the inactive one, and after the decay of a slot it is not. For the
refinement, `visible` and `committed` are the visible and the stable version of the
register; a kill or an error in the write drops the proposal, a kill before the fsync
changes nothing that the register knows of.

**BackupProofs**: `BackupTypeCorrect` for every mode; for engines dropped
after a failed commit (`~Outlives`) `AuditAtMostOneBehind`, `IdleComplete`,
`SelfCheckNeverAligns`, `TxnNeverBack`, `SnapshotsKept`. The inductive invariant
`TxnInv` says that manifest and audit chain are at the id before the next one or
at the next one (`DiskInv`), that a transaction has one snapshot (`SnapsInv`),
and how the engine's ids relate to the superblock at every `pc` (`ProcInv`). The
assumption is needed: without it `TxnMonotone` does not hold of default repositories.
`EngineImplementsJournal` (same assumption) is the refinement of `BackupJournal`: the
superblock's next id moves only in `Complete`, or in a failing `Complete` whose commit
reached the disk (`IdStep`), and only there are manifest and audit entry known to be of
that id; the manifest moves only in `PublishManifest` (`OnlyPublish`); and from
`ArchiveSnapshot` on the manifest's snapshot is the archived one (`ArchiveInv`), which the
invariant `TxnInv` does not say and the step to the audit needs. Every crash, restart,
self-check and collection is a stuttering step of the journal.

**BackupStoreProofs**: `IndexPointsToRecords` (default repositories, every
engine lifetime): an entry of `chunk.idx` whose id only one backup has used
points to a fsynced record, from an invariant on memory index, buffer, session and
packs; the restriction to ids used once is needed, as `reused_pack` shows.
`LegacyPublished` (without power failures, as `power_loss` shows).
`CompletedInIndex` (default repositories, engines dropped).

**PipelineProofs** (any number of files, workers, compressors and store workers, any
queue depth, any assignment that gives each file to one worker): `TypeCorrect`,
`NoProducerRefused`, `ManifestEntriesWhole`, `NoFileLeftOut`. The inductive invariant
has, in this order: what each thread has in hand; that workers main has not reached are
idle; that without an error a queue is closed only after its producers left
(`CloseOrder`); that a chunker pushes what it counted (`CountsOK`); that every task is in
one place only and `chunks_done` is the number of filled slots (`TasksOnce`, `DoneCounts`),
from which an entry that is finalized is whole; that a file which is cut and stored
is finalized or about to be by its chunker (`FinalizeDue`); and that without an error
every file and every pushed chunk is somewhere: to be pushed, in a queue, in a hand, or
recorded. When all threads have left there is nowhere left, and the file is in the
manifest. `FinalizeDue` is the step that sequential consistency carries, and the one that
`pipeline_lost` breaks.

**PipelineDeadlockProofs**: `PipelineDeadlockFree`, for the same constants. If all
threads wait, the argument goes against the flow: a store worker waits only at an empty
open queue, so some compressor has not left; it waits at its own empty open queue (the
queue behind it being empty, so not full), so some chunker has not left; and so on up to
a reader whose file queue is empty and open, so main has not closed it and cannot be
waiting to push to it; main then waits at another worker's full file queue, whose reader
must have left. The inductive invariant `DInv` supplies the links: who leaves has closed
or counted down (`LeaversClose`), an error in progress is going to close what is
registered (`ErrorCloses`), a worker main has moved on from is started and its file queue
closed (`StartedRun`, `MovedOn`), and a reader that leaves an open file queue has taken a
file from it (`TookOne`), so that only more files than the queue and one hand take can
fill it. It needs only the
parts of the earlier invariant on hands and closing order.

**PipelineIntakeProofs**: `PipelineImplementsIntake`. A step of the pipeline is a step of
`FileIntake` or stutters. That a file is taken in once, and only when it is neither
taken in nor reported, needs `FilesOnce` (a file is in one place: to be pushed, in a
queue, in a hand, or handed to the tasks) and `UpstreamOK` (upstream of its chunker it has
no chunk recorded and is not settled); that success leaves nothing pending needs
`AllLeft` with the accounting invariant of `PipelineProofs`. An error may be returned with
files pending, as in the abstract specification.

**SyncProofs**: `TypeCorrect`, `RecordedIsCovered`, `RemoteIsRestorable`. The recorded id is covered because
the base of every entry in the outbox was recorded when it was enqueued, and was
therefore covered; a delta adds what the base lacks; a full bundle has the packs of
all completed backups, and a pack that exists is the complete one unless its backup
is `unfinished`. The remote only grows, so neither the order of the entries nor a
crash takes anything away; a cut entry keeps its base (`CutOutbox`), and a cut
`synced_txn` is covered or `misread`. For the remote's manifest the invariant `MInv` adds that it is
put when all packs of its bundle are there (`MetaWhole`), and that the first push to put it
is a full one (`MetaFirst`): a delta has a base that was recorded, and a manifest was put
before that, unless the very first backup was recorded while it was not complete, which
`TargetsKnown` finds `unfinished`.

**CompactionProofs**: `TypeCorrect`, `CompactionKeepsRetained`, `DeduplicationIsSound`,
`SwapIsCovered`, `CompactionIsExact`. The inductive invariant says that an index entry points to a record
of a completed id (`IndexIn`), an object's also to the one it is storing (`PlacesIn`);
that an Idle superblock names the newest completed backup (`BeforeFirst`), so that the
packs of a compaction have a name no later backup uses; what the temporary packs hold at
each step of the copy (`CopyIn`) and how they and the packs in place add up to it
during the swap (`SwapIn`); and that an open object is known to be overtaken
(`HandleIn`).

Only model-checked: `Termination` and `EventuallySynced`, since liveness is out of the
prover's reach; of `Termination` the safety part, that no deadlock keeps the pipeline from
ending, is proved (`PipelineDeadlockFree`), and what stays with TLC is that it does
not run for ever. What the violation runs refute is refuted by TLC's behaviours.

## 5. Plan

1. *Done*: superblock, backup transaction, pipeline, sync agent, EbPack compaction with
   pruning, and their proofs.
2. *Chunk file*: records with offsets, torn tails, rescan, retried writes, and the swap
   of legacy compaction; shown to implement the set of records `BackupEngine` uses.
3. *Job queue and daemon*: jobs across crashes, backup windows.
4. *Ops audit entries, in-process Verify, InitRepoEx over a repository, in-place
   restore journal, remote restore.*

## 6. Not modelled

Chunking algorithms, digests, cryptography, codecs, manifest serialisation, catalog,
reports, scanning, VSS, plugins, C API, CLI and GUI compute on payloads, derive data that
can be rebuilt, or only call the engine. The directories `zstd-dev`, `7zip-main`,
`spdlog-1.x` and the other vendored libraries of the repository are third-party code and
make up most of its lines.

Faults that no module has: a superblock slot that decays on disk, and a kernel that
discards unwritten pages of the superblock after a failed fsync.
