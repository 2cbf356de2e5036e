----------------------------- MODULE Compaction -----------------------------
(***************************************************************************)
(* CompactEbPackStore over a default repository, and what runs beside it:  *)
(* an engine object that backs up (another process, or a handle of the C   *)
(* API that stays open) and the pruning of snapshots.                      *)
(*                                                                         *)
(* The records that manifest and snapshots refer to are copied into packs  *)
(* of a temporary directory; then every pack is removed, the new ones are  *)
(* renamed into place, and at last chunk.idx is.  Nothing holds a lock.    *)
(*                                                                         *)
(* A pack is named by the transaction id and the sequence number of its    *)
(* writer; a record <<p, c>> is chunk c in pack p.  The steps of a backup  *)
(* are BackupEngine's subject: here it stores its chunks, in one pack, and *)
(* later commits manifest, snapshot, index and superblock at once.         *)
(***************************************************************************)
EXTENDS Integers

CONSTANTS Chunks,      \* content hashes
          Trees,       \* source trees, each the set of the chunks it is cut into
          MaxTxn,      \* bound: transaction ids
          MaxCompacts  \* bound: compactions that are started

ASSUME TreesAssumption == Trees \subseteq SUBSET Chunks
ASSUME BoundsAssumption == MaxTxn \in Nat /\ MaxCompacts \in Nat

VARIABLES
    (* on disk *)
    packs,       \* records in data/packs
    temp,        \* records in the temporary directory of the compaction
    index,       \* chunk.idx: chunk -> pack
    manifest,    \* the published manifest (txn 0: none), that of the last backup
    sb,          \* superblock: txn_id, and whether the phase is Idle or Aborted
    snapFiles,   \* the snapshot manifests
    snapIndex,   \* transactions in the snapshot index
    (* the engine object *)
    open,
    places,      \* shard_index_: chunk -> pack
    want,        \* tree of a backup whose chunks are stored, {} outside backups
    overtaken,   \* a compaction has begun to replace the packs behind it
    (* the compaction *)
    pc,
    base,        \* transaction id it found in the superblock
    source,      \* the index it loaded
    referenced,  \* the chunks it keeps
    todo,        \* those of them it has not copied yet
    fresh,       \* the new index
    seq,         \* sequence number of the pack it writes
    old,         \* the packs it found when it began to remove them
    compacts,    \* compactions started so far
    (* DeleteSnapshot *)
    pruned,      \* the transaction whose manifest is removed, 0: none
    entries,     \* the snapshot index it loaded
    (* history *)
    torn,        \* a compaction ended between the old packs and the new index
    crossed      \* a backup and the replacement of the packs got into each other

diskVars == <<packs, temp, index, manifest, sb, snapFiles, snapIndex>>
engineVars == <<open, places, want, overtaken>>
jobVars == <<base, source, referenced, todo, fresh, seq, old>>
compactVars == <<pc, jobVars, compacts>>
pruneVars == <<pruned, entries>>
historyVars == <<torn, crossed>>
vars == <<diskVars, engineVars, compactVars, pruneVars, historyVars>>

NoPack == <<0, 0>>
NoIndex == [c \in Chunks |-> NoPack]

(* data/packs is being replaced. *)
Swapping == pc \in {"remove", "move", "publish"}

PackNames(records) == {r[1] : r \in records}
RecordsOf(records, p) == {r \in records : r[1] = p}

Init ==
    /\ packs = {} /\ temp = {} /\ index = NoIndex
    /\ manifest = [txn |-> 0, tree |-> {}] /\ sb = [idle |-> TRUE, txn |-> 0]
    /\ snapFiles = {} /\ snapIndex = {}
    /\ open = FALSE /\ places = NoIndex /\ want = {} /\ overtaken = FALSE
    /\ pc = "off" /\ base = 0 /\ source = NoIndex /\ referenced = {} /\ todo = {}
    /\ fresh = NoIndex /\ seq = 0 /\ old = {} /\ compacts = 0
    /\ pruned = 0 /\ entries = {}
    /\ torn = FALSE /\ crossed = FALSE

-----------------------------------------------------------------------------
(* The engine object.                                                      *)

(* StartupSelfCheck aborts what looks like a first backup that died. *)
Open ==
    /\ ~open
    /\ open' = TRUE
    /\ places' = index
    /\ want' = {}
    /\ overtaken' = Swapping
    /\ sb' = IF manifest.txn = 0 /\ packs # {} THEN [sb EXCEPT !.idle = FALSE] ELSE sb
    /\ UNCHANGED <<packs, temp, index, manifest, snapFiles, snapIndex, compactVars,
                   pruneVars, historyVars>>

(* The object is dropped or its process dies, in a backup perhaps: with    *)
(* coalesced metadata the superblock keeps the phase it had.               *)
Close ==
    /\ open
    /\ open' = FALSE /\ places' = NoIndex /\ want' = {} /\ overtaken' = FALSE
    /\ UNCHANGED <<diskVars, compactVars, pruneVars, historyVars>>

(* RunBackup up to Flush: a chunk in the object's index is not stored      *)
(* again, the others go to the pack of this transaction id, which is       *)
(* created with O_TRUNC.                                                   *)
StoreChunks(tree) ==
    LET new == {c \in tree : places[c] = NoPack}
        mine == <<manifest.txn + 1, 0>>
    IN  /\ open /\ want = {} /\ tree # {}
        /\ manifest.txn < MaxTxn
        /\ want' = tree
        /\ packs' = IF new = {} THEN packs
                    ELSE (packs \ RecordsOf(packs, mine)) \cup {<<mine, c>> : c \in new}
        /\ places' = [c \in Chunks |-> IF c \in new THEN mine ELSE places[c]]
        /\ crossed' = (crossed \/ overtaken)
        /\ UNCHANGED <<temp, index, manifest, sb, snapFiles, snapIndex, open,
                       overtaken, compactVars, pruneVars, torn>>

(* The rest of RunBackup: manifest, snapshot, the whole index, Idle. *)
CommitBackup ==
    LET txn == manifest.txn + 1
    IN  /\ open /\ want # {}
        /\ manifest' = [txn |-> txn, tree |-> want]
        /\ snapFiles' = snapFiles \cup {[txn |-> txn, tree |-> want]}
        /\ snapIndex' = snapIndex \cup {txn}
        /\ index' = places
        /\ sb' = [idle |-> TRUE, txn |-> txn]
        /\ want' = {}
        /\ UNCHANGED <<packs, temp, open, places, overtaken, compactVars, pruneVars,
                       historyVars>>

(* Mutation: the tree of the aborted backup is kept. *)
AbortKeepsPending ==
    /\ open /\ want # {}
    /\ sb' = [idle |-> FALSE, txn |-> manifest.txn + 1]
    /\ open' = FALSE /\ places' = NoIndex /\ want' = want /\ overtaken' = FALSE
    /\ UNCHANGED <<packs, temp, index, manifest, snapFiles, snapIndex, compactVars,
                   pruneVars, historyVars>>

(* A backup fails before its manifest is published: Aborted is persisted,  *)
(* and the transaction id is not used up.  The process ends.               *)
AbortBackup ==
    /\ open /\ want # {}
    /\ sb' = [idle |-> FALSE, txn |-> manifest.txn + 1]
    /\ open' = FALSE /\ places' = NoIndex /\ want' = {} /\ overtaken' = FALSE
    /\ UNCHANGED <<packs, temp, index, manifest, snapFiles, snapIndex, compactVars,
                   pruneVars, historyVars>>

-----------------------------------------------------------------------------
(* DeleteSnapshot, from a process of its own.  The newest one is kept.     *)

PruneFile(t) ==
    /\ pruned = 0
    /\ t \in snapIndex /\ \E u \in snapIndex : u > t
    /\ pruned' = t /\ entries' = snapIndex
    /\ snapFiles' = {s \in snapFiles : s.txn # t}
    /\ UNCHANGED <<packs, temp, index, manifest, sb, snapIndex, engineVars,
                   compactVars, historyVars>>

(* SaveSnapshotIndex writes back what was loaded, without the entry. *)
PruneIndex ==
    /\ pruned # 0
    /\ snapIndex' = entries \ {pruned}
    /\ pruned' = 0 /\ entries' = {}
    /\ UNCHANGED <<packs, temp, index, manifest, sb, snapFiles, engineVars,
                   compactVars, historyVars>>

(* The index cannot be saved, or the process dies. *)
PruneFails ==
    /\ pruned # 0
    /\ pruned' = 0 /\ entries' = {}
    /\ UNCHANGED <<diskVars, engineVars, compactVars, historyVars>>

-----------------------------------------------------------------------------
(* CompactEbPackStore.                                                     *)

Listed == {s \in snapFiles : s.txn \in snapIndex}

(* CollectReferencedHashesRetained. *)
Retained == manifest.tree \cup UNION {s.tree : s \in Listed}

(* Mutation: the phase is not checked. *)
CompactAnyPhase == compacts < MaxCompacts /\ snapIndex \subseteq {s.txn : s \in snapFiles}

(* CompactChunkStore refuses a repository that is not idle, and the        *)
(* collection of hashes fails on a listed snapshot that has no manifest.   *)
MayCompact ==
    /\ compacts < MaxCompacts
    /\ sb.idle
    /\ snapIndex \subseteq {s.txn : s \in snapFiles}

CompactBegin ==
    /\ pc = "off"
    /\ MayCompact
    /\ pc' = "copy"
    /\ base' = sb.txn
    /\ source' = index
    /\ referenced' = Retained
    /\ todo' = {c \in Retained : index[c] # NoPack}
    /\ temp' = {} /\ fresh' = NoIndex /\ seq' = 0
    /\ compacts' = compacts + 1
    /\ UNCHANGED <<packs, index, manifest, sb, snapFiles, snapIndex, engineVars, old,
                   pruneVars, historyVars>>

(* One record is appended to the open pack, or to a new one when the open  *)
(* pack is full.  The copy fails if the index it loaded points nowhere.    *)
CopyRecord(c) ==
    /\ pc = "copy"
    /\ c \in todo
    /\ <<source[c], c>> \in packs
    /\ seq' \in IF RecordsOf(temp, <<base, seq>>) = {} THEN {seq} ELSE {seq, seq + 1}
    /\ temp' = temp \cup {<<<<base, seq'>>, c>>}
    /\ fresh' = [fresh EXCEPT ![c] = <<base, seq'>>]
    /\ todo' = todo \ {c}
    /\ UNCHANGED <<packs, index, manifest, sb, snapFiles, snapIndex, engineVars, pc,
                   base, source, referenced, old, compacts, pruneVars, historyVars>>

(* Mutation: the packs are removed while the copy goes on. *)
FinishCopyEarly ==
    /\ pc = "copy"
    /\ pc' = "remove"
    /\ old' = PackNames(packs)
    /\ overtaken' = open
    /\ crossed' = (crossed \/ want # {} \/ manifest.txn # base)
    /\ UNCHANGED <<diskVars, open, places, want, base, source, referenced, todo, fresh, seq,
                   compacts, pruneVars, torn>>

(* FlushOpenPack, FsyncAll, chunk.idx.new: from here on packs are removed. *)
FinishCopy ==
    /\ pc = "copy"
    /\ todo = {}
    /\ pc' = "remove"
    /\ old' = PackNames(packs)
    /\ overtaken' = open
    /\ crossed' = (crossed \/ want # {} \/ manifest.txn # base)
    /\ UNCHANGED <<diskVars, open, places, want, base, source, referenced, todo, fresh, seq,
                   compacts, pruneVars, torn>>

(* Its locals are gone, and nobody looks at a temporary directory again. *)
Ended ==
    /\ pc' = "off"
    /\ temp' = {}
    /\ base' = 0 /\ source' = NoIndex /\ referenced' = {} /\ todo' = {}
    /\ fresh' = NoIndex /\ seq' = 0 /\ old' = {}
    /\ UNCHANGED <<packs, manifest, sb, snapFiles, snapIndex, engineVars, compacts,
                   pruneVars, crossed>>

(* The loop over data/packs; a pack that appears meanwhile may be met too. *)
RemoveOld(p) ==
    /\ pc = "remove"
    /\ p \in PackNames(packs)
    /\ packs' = packs \ RecordsOf(packs, p)
    /\ UNCHANGED <<temp, index, manifest, sb, snapFiles, snapIndex, engineVars,
                   compactVars, pruneVars, historyVars>>

(* Mutation: the new packs are moved in beside the old ones. *)
NoneRemoved == TRUE

AllRemoved == old \cap PackNames(packs) = {}

BeginMove ==
    /\ pc = "remove"
    /\ AllRemoved
    /\ pc' = "move"
    /\ UNCHANGED <<diskVars, engineVars, jobVars, compacts, pruneVars, historyVars>>

(* rename replaces a pack of the same name. *)
MoveNew(p) ==
    /\ pc = "move"
    /\ p \in PackNames(temp)
    /\ packs' = (packs \ RecordsOf(packs, p)) \cup RecordsOf(temp, p)
    /\ temp' = temp \ RecordsOf(temp, p)
    /\ UNCHANGED <<index, manifest, sb, snapFiles, snapIndex, engineVars, compactVars,
                   pruneVars, historyVars>>

EndMove ==
    /\ pc = "move"
    /\ temp = {}
    /\ pc' = "publish"
    /\ UNCHANGED <<diskVars, engineVars, jobVars, compacts, pruneVars, historyVars>>

(* Mutation: the entries of the chunks left out are kept. *)
PublishMerged ==
    /\ pc = "publish"
    /\ index' = [c \in Chunks |-> IF fresh[c] = NoPack THEN index[c] ELSE fresh[c]]
    /\ Ended
    /\ UNCHANGED torn

PublishIndex ==
    /\ pc = "publish"
    /\ index' = fresh
    /\ Ended
    /\ UNCHANGED torn

(* Nothing of the old packs has been removed yet. *)
OldIntact == pc = "copy" \/ (pc = "remove" /\ old \subseteq PackNames(packs))

(* An error is returned or the process is killed, anywhere.  An error of   *)
(* the copy costs nothing; when a rename fails, remove_all(temp_packs)     *)
(* takes the packs that were not moved yet.                                *)
CompactStops ==
    /\ pc # "off"
    /\ torn' = (torn \/ ~OldIntact)
    /\ Ended
    /\ UNCHANGED index

-----------------------------------------------------------------------------
Next ==
    \/ Open \/ Close
    \/ \E tree \in Trees : StoreChunks(tree)
    \/ CommitBackup \/ AbortBackup
    \/ \E t \in snapIndex : PruneFile(t)
    \/ PruneIndex \/ PruneFails
    \/ CompactBegin
    \/ \E c \in Chunks : CopyRecord(c)
    \/ FinishCopy
    \/ \E p \in PackNames(packs) : RemoveOld(p)
    \/ BeginMove
    \/ \E p \in PackNames(temp) : MoveNew(p)
    \/ EndMove \/ PublishIndex \/ CompactStops

Spec == Init /\ [][Next]_vars

-----------------------------------------------------------------------------
Packs == Nat \X Nat
Index == [Chunks -> Packs]
Manifests == [txn : Nat, tree : SUBSET Chunks]

(* Every variable has its type; outside backups nothing is wanted of an    *)
(* object that is closed, and a compaction copies what it keeps.           *)
TypeOK ==
    /\ packs \subseteq Packs \X Chunks /\ temp \subseteq Packs \X Chunks
    /\ index \in Index /\ places \in Index /\ source \in Index /\ fresh \in Index
    /\ manifest \in Manifests /\ snapFiles \subseteq Manifests
    /\ snapIndex \subseteq Nat /\ entries \subseteq Nat /\ pruned \in Nat
    /\ sb \in [idle : BOOLEAN, txn : Nat]
    /\ open \in BOOLEAN /\ overtaken \in BOOLEAN /\ torn \in BOOLEAN /\ crossed \in BOOLEAN
    /\ want \subseteq Chunks /\ referenced \subseteq Chunks /\ todo \subseteq referenced
    /\ ~open => want = {}
    /\ pc \in {"off", "copy", "remove", "move", "publish"}
    /\ base \in Nat /\ seq \in Nat /\ compacts \in 0..MaxCompacts
    /\ old \subseteq Packs

Sound == ~torn /\ ~crossed

(* A chunk can be read through an index. *)
Reads(at, c) == <<at[c], c>> \in packs

(* Every chunk of the manifest and of the snapshots that are listed can be *)
(* read by a process that opens the repository now, after any number of    *)
(* backups, aborted backups, crashes, prunings and compactions, as long as *)
(* no compaction stopped half way and no backup met one: the packs of a    *)
(* compaction are not those of any later backup, and what a compaction     *)
(* leaves out is not in the index that the next backup deduplicates with.  *)
RetainedReadable ==
    Sound /\ ~Swapping => \A c \in Retained : Reads(index, c)

(* While the packs are replaced, every retained chunk is in one of the new *)
(* packs, moved or still in the temporary directory: at no moment between  *)
(* the first pack removed and the index published is its only copy gone,   *)
(* also if snapshots are pruned or objects opened meanwhile.               *)
SwapKeepsCopies ==
    Sound /\ Swapping => \A c \in Retained : <<fresh[c], c>> \in packs \cup temp

(* What an engine object takes for stored is stored, so a backup may skip  *)
(* it, as long as no compaction has replaced the packs since it was opened.*)
DedupSound ==
    Sound /\ open /\ ~overtaken =>
        \A c \in Chunks : places[c] # NoPack => Reads(places, c)

(* A compaction that succeeds leaves one record of every chunk it keeps,   *)
(* and nothing else: neither the packs of backups that died, nor a chunk   *)
(* twice, nor an entry of the index without a record.                      *)
Reclaimed ==
    [][pc = "publish" /\ pc' = "off" /\ Sound' =>
           /\ packs = {<<index'[c], c>> : c \in referenced}
           /\ {c \in Chunks : index'[c] # NoPack} = referenced]_vars
=============================================================================
