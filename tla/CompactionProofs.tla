-------------------------- MODULE CompactionProofs --------------------------
(***************************************************************************)
(* Proofs about Compaction, for every set of chunks and trees and every    *)
(* bound.                                                                  *)
(***************************************************************************)
EXTENDS Compaction, TLAPS

(* Without a backup in it, the repository is empty; an Idle superblock     *)
(* names the backup of the manifest.                                       *)
BeforeFirst ==
    /\ manifest.txn = 0 => manifest.tree = {}
    /\ \A s \in snapFiles : s.txn \in 1..manifest.txn
    /\ sb.idle => sb.txn = manifest.txn

(* Nothing but DeleteSnapshot takes entries out of the snapshot index. *)
PruneIn == entries \subseteq snapIndex

(* While the packs are replaced, an open object is overtaken, and one that *)
(* is overtaken has no backup under way that has not crossed.              *)
HandleIn ==
    /\ Swapping /\ open => overtaken
    /\ ~crossed /\ overtaken => want = {}

(* The index on disk points to records of backups that are complete, and   *)
(* has every chunk that is retained.                                       *)
IndexGood ==
    /\ \A c \in Chunks : index[c] # NoPack => Reads(index, c) /\ index[c][1] <= manifest.txn
    /\ \A c \in Retained : index[c] # NoPack

(* So does the object's; a backup adds records of the next transaction.    *)
PlacesGood ==
    /\ \A c \in Chunks : places[c] # NoPack =>
           Reads(places, c) /\ places[c][1] <= manifest.txn + 1
    /\ want = {} => \A c \in Chunks : places[c] # NoPack => places[c][1] <= manifest.txn
    /\ \A c \in Retained \cup want : places[c] # NoPack

(* What the compaction has copied is in the new packs, under its own name, *)
(* and is in the new index.                                                *)
Copied == {<<fresh[c], c>> : c \in referenced \ todo}

CopyGood ==
    /\ base <= manifest.txn
    /\ base = 0 => referenced = {}
    /\ base = manifest.txn => Retained \subseteq referenced
    /\ \A c \in referenced \ todo : fresh[c][1] = base
    /\ \A c \in Chunks : c \notin referenced \ todo => fresh[c] = NoPack

SwapGood ==
    /\ base = manifest.txn
    /\ todo = {}

(* Until the first old pack is removed, chunk.idx is good. *)
IndexIn == Sound /\ (~Swapping \/ OldIntact) => IndexGood

PlacesIn == Sound /\ open /\ ~overtaken => PlacesGood

CopyIn == Sound /\ pc # "off" => CopyGood

(* The new packs are in the temporary directory, then partly there and     *)
(* partly in their place, then in their place; nothing else is left.       *)
SwapIn ==
    /\ Sound /\ Swapping => SwapGood
    /\ Sound /\ pc \in {"copy", "remove"} => temp = Copied
    /\ Sound /\ pc = "remove" => PackNames(packs) \subseteq old
    /\ Sound /\ pc = "move" =>
           packs \cup temp = Copied /\ PackNames(packs) \cap PackNames(temp) = {}
    /\ Sound /\ pc = "publish" => packs = Copied

IInv == /\ TypeOK /\ BeforeFirst /\ PruneIn /\ HandleIn
        /\ IndexIn /\ PlacesIn /\ CopyIn /\ SwapIn

-----------------------------------------------------------------------------
(* Every step keeps the types. *)
LEMMA TypeStep ==
    ASSUME TypeOK, [Next]_vars
    PROVE  TypeOK'
<1> USE TreesAssumption, BoundsAssumption DEF TypeOK, Index, Packs, Manifests, NoIndex,
        NoPack, diskVars, engineVars, compactVars, jobVars, pruneVars, historyVars
<1>1. CASE Open
    <2>1. sb' \in [idle : BOOLEAN, txn : Nat]
        BY <1>1 DEF Open
    <2>2. overtaken' \in BOOLEAN
        BY <1>1 DEF Open, Swapping
    <2> QED
        BY <1>1, <2>1, <2>2 DEF Open
<1>2. CASE Close
    BY <1>2 DEF Close
<1>3. ASSUME NEW tree \in Trees, StoreChunks(tree) PROVE TypeOK'
    <2>1. <<manifest.txn + 1, 0>> \in Packs
        OBVIOUS
    <2>2. packs' \subseteq Packs \X Chunks
        BY <1>3, <2>1 DEF StoreChunks, RecordsOf
    <2>3. places' \in Index
        BY <1>3, <2>1 DEF StoreChunks
    <2> QED
        BY <1>3, <2>2, <2>3 DEF StoreChunks
<1>4. CASE CommitBackup
    <2>1. [txn |-> manifest.txn + 1, tree |-> want] \in Manifests
        OBVIOUS
    <2>2. sb' \in [idle : BOOLEAN, txn : Nat]
        BY <1>4 DEF CommitBackup
    <2> QED
        BY <1>4, <2>1, <2>2 DEF CommitBackup
<1>5. CASE AbortBackup
    <2>1. sb' \in [idle : BOOLEAN, txn : Nat]
        BY <1>5 DEF AbortBackup
    <2> QED
        BY <1>5, <2>1 DEF AbortBackup
<1>6. ASSUME NEW t \in snapIndex, PruneFile(t) PROVE TypeOK'
    BY <1>6 DEF PruneFile
<1>7. CASE PruneIndex
    BY <1>7 DEF PruneIndex
<1>8. CASE PruneFails
    BY <1>8 DEF PruneFails
<1>9. CASE CompactBegin
    <2>1. Retained \subseteq Chunks
        BY DEF Retained, Listed
    <2> QED
        BY <1>9, <2>1 DEF CompactBegin, MayCompact
<1>10. ASSUME NEW c \in Chunks, CopyRecord(c) PROVE TypeOK'
    <2>1. seq' \in Nat
        BY <1>10 DEF CopyRecord
    <2>2. <<base, seq'>> \in Packs
        BY <2>1
    <2> QED
        BY <1>10, <2>1, <2>2 DEF CopyRecord
<1>11. CASE FinishCopy
    <2>1. PackNames(packs) \subseteq Packs
        BY DEF PackNames
    <2> QED
        BY <1>11, <2>1 DEF FinishCopy
<1>12. ASSUME NEW p \in PackNames(packs), RemoveOld(p) PROVE TypeOK'
    BY <1>12 DEF RemoveOld
<1>13. CASE BeginMove
    BY <1>13 DEF BeginMove
<1>14. ASSUME NEW p \in PackNames(temp), MoveNew(p) PROVE TypeOK'
    BY <1>14 DEF MoveNew, RecordsOf
<1>15. CASE EndMove
    BY <1>15 DEF EndMove
<1>16. CASE PublishIndex
    BY <1>16 DEF PublishIndex, Ended
<1>17. CASE CompactStops
    BY <1>17 DEF CompactStops, Ended, OldIntact, PackNames
<1>18. CASE UNCHANGED vars
    BY <1>18 DEF vars
<1> QED
    BY <1>1, <1>2, <1>3, <1>4, <1>5, <1>6, <1>7, <1>8, <1>9, <1>10, <1>11, <1>12, <1>13,
       <1>14, <1>15, <1>16, <1>17, <1>18 DEF Next

(* An object that opens loads the index of the disk, and aborts at most a  *)
(* repository without a manifest.                                          *)
LEMMA OpenStep ==
    ASSUME IInv, TypeOK', Open
    PROVE  IInv'
<1> USE DEF IInv, Open, diskVars, engineVars, compactVars, jobVars, pruneVars,
        historyVars
<1>1. BeforeFirst'
    BY DEF BeforeFirst
<1>2. PruneIn'
    BY DEF PruneIn
<1>3. HandleIn'
    BY DEF HandleIn, Swapping, Sound
<1>4. IndexIn'
    BY DEF IndexIn, IndexGood, Sound, Swapping, OldIntact, Retained, Listed, Reads
<1>5. PlacesIn'
    <2> SUFFICES ASSUME Sound, ~Swapping PROVE PlacesGood'
        BY DEF PlacesIn, Sound
    <2>1. IndexGood
        BY DEF IndexIn
    <2> QED
        <3>1. Retained' = Retained
            BY DEF Retained, Listed
        <3>2. \A c \in Chunks : index[c][1] \in Nat
            BY DEF TypeOK, Index, Packs
        <3>3. manifest.txn \in Nat
            BY DEF TypeOK, Manifests
        <3>4. \A c \in Chunks : places'[c] # NoPack =>
                  Reads(places, c)' /\ places'[c][1] <= manifest'.txn
            BY <2>1 DEF IndexGood, Reads
        <3> QED
            BY <2>1, <3>1, <3>2, <3>3, <3>4 DEF IndexGood, PlacesGood
<1>6. CopyIn'
    BY DEF CopyIn, CopyGood, Sound, Retained, Listed
<1>7. SwapIn'
    BY DEF SwapIn, SwapGood, Copied, Swapping, Sound, PackNames
<1> QED
    BY <1>1, <1>2, <1>3, <1>4, <1>5, <1>6, <1>7

(* Dropping the object changes nothing on disk. *)
LEMMA CloseStep ==
    ASSUME IInv, TypeOK', Close
    PROVE  IInv'
<1> USE DEF IInv, Close, diskVars, engineVars, compactVars, jobVars, pruneVars,
        historyVars
<1>1. BeforeFirst'
    BY DEF BeforeFirst
<1>2. PruneIn'
    BY DEF PruneIn
<1>3. HandleIn'
    BY DEF HandleIn, Swapping, Sound
<1>4. IndexIn'
    BY DEF IndexIn, IndexGood, Sound, Swapping, OldIntact, Retained, Listed, Reads
<1>5. PlacesIn'
    BY DEF PlacesIn, PlacesGood, Sound, Retained, Listed, Reads
<1>6. CopyIn'
    BY DEF CopyIn, CopyGood, Sound, Retained, Listed
<1>7. SwapIn'
    BY DEF SwapIn, SwapGood, Copied, Swapping, Sound, PackNames
<1> QED
    BY <1>1, <1>2, <1>3, <1>4, <1>5, <1>6, <1>7

(* A backup truncates the pack of its own id only, to which no index       *)
(* points.                                                                 *)
LEMMA StoreChunksStep ==
    ASSUME IInv, TypeOK', NEW tree \in Trees, StoreChunks(tree)
    PROVE  IInv'
<1> USE DEF IInv, StoreChunks, RecordsOf, diskVars, engineVars, compactVars, jobVars, pruneVars,
        historyVars
<1> DEFINE mine == <<manifest.txn + 1, 0>>
<1>a. Sound' => Sound /\ ~overtaken /\ ~Swapping /\ PlacesGood
    BY DEF Sound, HandleIn, PlacesIn
<1>b. \A q \in Packs, c \in Chunks : q[1] <= manifest.txn /\ <<q, c>> \in packs => <<q, c>> \in packs'
    BY DEF TypeOK, Manifests, Packs
<1>1. BeforeFirst'
    BY DEF BeforeFirst
<1>2. PruneIn'
    BY DEF PruneIn
<1>3. HandleIn'
    BY DEF HandleIn, Swapping, Sound
<1>4. IndexIn'
    <2> SUFFICES ASSUME Sound' PROVE IndexGood'
        BY DEF IndexIn
    <2>1. IndexGood
        BY <1>a DEF IndexIn
    <2>2. Retained' = Retained
        BY DEF Retained, Listed
    <2>3. \A c \in Chunks : index[c] # NoPack => Reads(index, c)'
        BY <2>1, <1>b DEF IndexGood, Reads, TypeOK, Index
    <2> QED
        BY <2>1, <2>2, <2>3 DEF IndexGood
<1>5. PlacesIn'
    <2> SUFFICES ASSUME Sound' PROVE PlacesGood'
        BY DEF PlacesIn
    <2>1. PlacesGood /\ mine # NoPack /\ mine[1] = manifest.txn + 1
        BY <1>a DEF NoPack, TypeOK, Manifests
    <2>2. Retained' = Retained /\ manifest' = manifest
        BY DEF Retained, Listed
    <2>3. Retained \subseteq Chunks /\ tree \subseteq Chunks
        BY TreesAssumption DEF Retained, Listed, TypeOK, Manifests
    <2>4. ASSUME NEW c \in Chunks, places'[c] # NoPack
          PROVE  Reads(places, c)' /\ places'[c][1] <= manifest.txn + 1
        <3>1. CASE places[c] # NoPack
            <4>1. places'[c] = places[c] /\ places[c] \in Packs
                BY <3>1 DEF TypeOK, Index
            <4>2. Reads(places, c) /\ places[c][1] <= manifest.txn
                BY <3>1, <2>1 DEF PlacesGood
            <4> QED
                BY <4>1, <4>2, <1>b DEF Reads, TypeOK, Manifests, Packs
        <3>2. CASE places[c] = NoPack
            <4>1. c \in tree /\ places'[c] = mine
                BY <2>4, <3>2 DEF TypeOK, Index
            <4>2. <<mine, c>> \in packs'
                BY <3>2, <4>1
            <4> QED
                BY <4>1, <4>2, <2>1 DEF Reads, TypeOK, Manifests
        <3> QED
            BY <3>1, <3>2
    <2>5. \A c \in Retained \cup tree : places'[c] # NoPack
        BY <2>1, <2>3 DEF PlacesGood, TypeOK, Index
    <2> QED
        BY <2>2, <2>4, <2>5 DEF PlacesGood
<1>6. CopyIn'
    BY DEF CopyIn, CopyGood, Sound, Retained, Listed
<1>7. SwapIn'
    BY <1>a DEF SwapIn, Copied, Swapping, TypeOK
<1> QED
    BY <1>1, <1>2, <1>3, <1>4, <1>5, <1>6, <1>7

(* A commit publishes a tree whose chunks the object has places for, and   *)
(* the index with these places.                                            *)
LEMMA CommitBackupStep ==
    ASSUME IInv, TypeOK', CommitBackup
    PROVE  IInv'
<1> USE DEF IInv, CommitBackup, diskVars, engineVars, compactVars, jobVars, pruneVars,
        historyVars
<1>a. Sound => ~overtaken /\ ~Swapping /\ PlacesGood
    BY DEF Sound, HandleIn, PlacesIn
<1>b. Retained' \subseteq Retained \cup want
    <2>1. \A s \in Listed' : s \in Listed \/ s.tree = want
        BY DEF Listed, BeforeFirst, TypeOK, Manifests
    <2> QED
        BY <2>1 DEF Retained
<1>1. BeforeFirst'
    <2>1. manifest'.txn = manifest.txn + 1 /\ manifest.txn \in Nat
        BY DEF TypeOK, Manifests
    <2>2. \A s \in snapFiles' : s.txn \in 1..manifest'.txn
        BY <2>1 DEF BeforeFirst
    <2> QED
        BY <2>1, <2>2 DEF BeforeFirst
<1>2. PruneIn'
    BY DEF PruneIn
<1>3. HandleIn'
    BY DEF HandleIn, Swapping, Sound
<1>4. IndexIn'
    <2> SUFFICES ASSUME Sound PROVE IndexGood'
        BY DEF IndexIn, Sound
    <2> QED
        BY <1>a, <1>b DEF IndexGood, PlacesGood, Reads, TypeOK, Manifests
<1>5. PlacesIn'
    <2> SUFFICES ASSUME Sound PROVE PlacesGood'
        BY DEF PlacesIn, Sound
    <2>1. manifest'.txn = manifest.txn + 1 /\ manifest.txn \in Nat
        BY DEF TypeOK, Manifests
    <2>2. \A c \in Chunks : places[c][1] \in Nat
        BY DEF TypeOK, Index, Packs
    <2>3. \A c \in Chunks : places'[c] # NoPack =>
              Reads(places, c)' /\ places'[c][1] <= manifest'.txn
        BY <1>a, <2>1 DEF PlacesGood, Reads
    <2>4. \A c \in Retained' : places'[c] # NoPack
        BY <1>a, <1>b DEF PlacesGood
    <2> QED
        BY <2>1, <2>2, <2>3, <2>4 DEF PlacesGood
<1>6. CopyIn'
    <2> SUFFICES ASSUME Sound, pc # "off" PROVE CopyGood'
        BY DEF CopyIn, Sound
    <2>1. manifest'.txn = manifest.txn + 1 /\ manifest.txn \in Nat /\ base \in Nat
        BY DEF TypeOK, Manifests
    <2>2. CopyGood
        BY DEF CopyIn
    <2>3. base <= manifest'.txn /\ base # manifest'.txn
        BY <2>1, <2>2 DEF CopyGood
    <2> QED
        BY <2>2, <2>3 DEF CopyGood
<1>7. SwapIn'
    BY <1>a DEF SwapIn, Copied, Swapping, Sound, TypeOK
<1> QED
    BY <1>1, <1>2, <1>3, <1>4, <1>5, <1>6, <1>7

(* After an abort the superblock keeps compactions away until a backup     *)
(* has used up the id.                                                     *)
LEMMA AbortBackupStep ==
    ASSUME IInv, TypeOK', AbortBackup
    PROVE  IInv'
<1> USE DEF IInv, AbortBackup, diskVars, engineVars, compactVars, jobVars, pruneVars,
        historyVars
<1>1. BeforeFirst'
    BY DEF BeforeFirst
<1>2. PruneIn'
    BY DEF PruneIn
<1>3. HandleIn'
    BY DEF HandleIn, Swapping, Sound
<1>4. IndexIn'
    BY DEF IndexIn, IndexGood, Sound, Swapping, OldIntact, Retained, Listed, Reads
<1>5. PlacesIn'
    BY DEF PlacesIn, PlacesGood, Sound, Retained, Listed, Reads
<1>6. CopyIn'
    BY DEF CopyIn, CopyGood, Sound, Retained, Listed
<1>7. SwapIn'
    BY DEF SwapIn, SwapGood, Copied, Swapping, Sound, PackNames
<1> QED
    BY <1>1, <1>2, <1>3, <1>4, <1>5, <1>6, <1>7

(* Removing the manifest of a snapshot leaves fewer chunks to retain. *)
LEMMA PruneFileStep ==
    ASSUME IInv, TypeOK', NEW t \in snapIndex, PruneFile(t)
    PROVE  IInv'
<1> USE DEF IInv, PruneFile, diskVars, engineVars, compactVars, jobVars, pruneVars,
        historyVars
<1>1. BeforeFirst'
    BY DEF BeforeFirst
<1>2. PruneIn'
    BY DEF PruneIn
<1>3. HandleIn'
    BY DEF HandleIn, Swapping, Sound
<1>4. IndexIn'
    BY DEF IndexIn, IndexGood, Sound, Swapping, OldIntact, Retained, Listed, Reads
<1>5. PlacesIn'
    BY DEF PlacesIn, PlacesGood, Sound, Retained, Listed, Reads
<1>6. CopyIn'
    BY DEF CopyIn, CopyGood, Sound, Retained, Listed
<1>7. SwapIn'
    BY DEF SwapIn, SwapGood, Copied, Swapping, Sound, PackNames
<1> QED
    BY <1>1, <1>2, <1>3, <1>4, <1>5, <1>6, <1>7

(* Saving the snapshot index lists no transaction that is not completed. *)
LEMMA PruneIndexStep ==
    ASSUME IInv, TypeOK', PruneIndex
    PROVE  IInv'
<1> USE DEF IInv, PruneIndex, diskVars, engineVars, compactVars, jobVars, pruneVars,
        historyVars
<1>a. Retained' \subseteq Retained
    BY DEF Retained, Listed, PruneIn
<1>1. BeforeFirst'
    BY DEF BeforeFirst
<1>2. PruneIn'
    BY DEF PruneIn
<1>3. HandleIn'
    BY DEF HandleIn, Swapping, Sound
<1>4. IndexIn'
    BY <1>a DEF IndexIn, IndexGood, Sound, Swapping, OldIntact, Reads
<1>5. PlacesIn'
    BY <1>a DEF PlacesIn, PlacesGood, Sound, Reads
<1>6. CopyIn'
    BY <1>a DEF CopyIn, CopyGood, Sound
<1>7. SwapIn'
    BY DEF SwapIn, SwapGood, Copied, Swapping, Sound, PackNames
<1> QED
    BY <1>1, <1>2, <1>3, <1>4, <1>5, <1>6, <1>7

(* A pruning that stops leaves the disk as it is. *)
LEMMA PruneFailsStep ==
    ASSUME IInv, TypeOK', PruneFails
    PROVE  IInv'
<1> USE DEF IInv, PruneFails, diskVars, engineVars, compactVars, jobVars, pruneVars,
        historyVars
<1>1. BeforeFirst'
    BY DEF BeforeFirst
<1>2. PruneIn'
    BY DEF PruneIn
<1>3. HandleIn'
    BY DEF HandleIn, Swapping, Sound
<1>4. IndexIn'
    BY DEF IndexIn, IndexGood, Sound, Swapping, OldIntact, Retained, Listed, Reads
<1>5. PlacesIn'
    BY DEF PlacesIn, PlacesGood, Sound, Retained, Listed, Reads
<1>6. CopyIn'
    BY DEF CopyIn, CopyGood, Sound, Retained, Listed
<1>7. SwapIn'
    BY DEF SwapIn, SwapGood, Copied, Swapping, Sound, PackNames
<1> QED
    BY <1>1, <1>2, <1>3, <1>4, <1>5, <1>6, <1>7

(* A compaction starts from an idle superblock, whose id is the newest     *)
(* completed one.                                                          *)
LEMMA CompactBeginStep ==
    ASSUME IInv, TypeOK', CompactBegin
    PROVE  IInv'
<1> USE DEF IInv, CompactBegin, MayCompact, diskVars, engineVars, compactVars, jobVars, pruneVars,
        historyVars
<1>a. Retained' = Retained /\ Retained \subseteq Chunks
    BY DEF Retained, Listed, TypeOK, Manifests
<1>b. Sound => referenced' \ todo' = {}
    BY <1>a DEF IndexIn, IndexGood, Swapping
<1>1. BeforeFirst'
    BY DEF BeforeFirst
<1>2. PruneIn'
    BY DEF PruneIn
<1>3. HandleIn'
    BY DEF HandleIn, Swapping, Sound
<1>4. IndexIn'
    BY DEF IndexIn, IndexGood, Sound, Swapping, OldIntact, Retained, Listed, Reads
<1>5. PlacesIn'
    BY DEF PlacesIn, PlacesGood, Sound, Retained, Listed, Reads
<1>6. CopyIn'
    <2> SUFFICES ASSUME Sound PROVE CopyGood'
        BY DEF CopyIn, Sound
    <2>1. base' = manifest.txn /\ manifest.txn \in Nat
        BY DEF BeforeFirst, TypeOK, Manifests
    <2>2. base' = 0 => Retained = {}
        BY <2>1 DEF BeforeFirst, Retained, Listed
    <2> QED
        BY <1>a, <1>b, <2>1, <2>2 DEF CopyGood, NoIndex
<1>7. SwapIn'
    BY <1>b DEF SwapIn, Copied, Swapping, Sound
<1> QED
    BY <1>1, <1>2, <1>3, <1>4, <1>5, <1>6, <1>7

(* A record that is copied is in a temporary pack, and the new index       *)
(* points to it.                                                           *)
LEMMA CopyRecordStep ==
    ASSUME IInv, TypeOK', NEW c \in Chunks, CopyRecord(c)
    PROVE  IInv'
<1> USE DEF IInv, CopyRecord, diskVars, engineVars, compactVars, jobVars, pruneVars,
        historyVars
<1>a. todo' = todo \ {c} /\ c \in referenced /\ fresh'[c] = <<base, seq'>>
    BY DEF TypeOK, Index
<1>b. \A d \in Chunks : d # c => fresh'[d] = fresh[d]
    BY DEF TypeOK, Index
<1>1. BeforeFirst'
    BY DEF BeforeFirst
<1>2. PruneIn'
    BY DEF PruneIn
<1>3. HandleIn'
    BY DEF HandleIn, Swapping, Sound
<1>4. IndexIn'
    BY DEF IndexIn, IndexGood, Sound, Swapping, OldIntact, Retained, Listed, Reads
<1>5. PlacesIn'
    BY DEF PlacesIn, PlacesGood, Sound, Retained, Listed, Reads
<1>6. CopyIn'
    <2> SUFFICES ASSUME Sound PROVE CopyGood'
        BY DEF CopyIn, Sound
    <2>1. CopyGood
        BY DEF CopyIn
    <2>2. Retained' = Retained
        BY DEF Retained, Listed
    <2>3. \A d \in referenced \ todo' : d = c \/ d \in referenced \ todo
        BY <1>a
    <2>4. referenced \subseteq Chunks
        BY DEF TypeOK
    <2>5. \A d \in referenced \ todo' : fresh'[d][1] = base
        BY <1>a, <1>b, <2>1, <2>3, <2>4 DEF CopyGood
    <2>6. \A d \in Chunks : d \notin referenced \ todo' => fresh'[d] = NoPack
        BY <1>a, <1>b, <2>1 DEF CopyGood
    <2> QED
        BY <2>1, <2>2, <2>5, <2>6 DEF CopyGood
<1>7. SwapIn'
    <2>1. referenced' \ todo' = (referenced \ todo) \cup {c} /\ c \in todo
        BY <1>a
    <2>2. \A d \in referenced \ todo : fresh'[d] = fresh[d]
        BY <1>b DEF TypeOK
    <2>3. Copied' = Copied \cup {<<<<base, seq'>>, c>>}
        BY <2>1, <2>2, <1>a DEF Copied
    <2> QED
        BY <2>3 DEF SwapIn, Swapping, Sound
<1> QED
    BY <1>1, <1>2, <1>3, <1>4, <1>5, <1>6, <1>7

(* When the copy ends, the new index covers what is kept. *)
LEMMA FinishCopyStep ==
    ASSUME IInv, TypeOK', FinishCopy
    PROVE  IInv'
<1> USE DEF IInv, FinishCopy, diskVars, engineVars, compactVars, jobVars, pruneVars,
        historyVars
<1>1. BeforeFirst'
    BY DEF BeforeFirst
<1>2. PruneIn'
    BY DEF PruneIn
<1>3. HandleIn'
    BY DEF HandleIn, Swapping, Sound
<1>4. IndexIn'
    BY DEF IndexIn, IndexGood, Sound, Swapping, OldIntact, Retained, Listed, Reads
<1>5. PlacesIn'
    BY DEF PlacesIn, PlacesGood, Sound, Retained, Listed, Reads
<1>6. CopyIn'
    BY DEF CopyIn, CopyGood, Sound, Retained, Listed
<1>7. SwapIn'
    BY DEF SwapIn, SwapGood, Copied, Swapping, Sound, PackNames
<1> QED
    BY <1>1, <1>2, <1>3, <1>4, <1>5, <1>6, <1>7

(* While packs are removed, the temporary ones are whole. *)
LEMMA RemoveOldStep ==
    ASSUME IInv, TypeOK', NEW p \in PackNames(packs), RemoveOld(p)
    PROVE  IInv'
<1> USE DEF IInv, RemoveOld, RecordsOf, diskVars, engineVars, compactVars, jobVars, pruneVars,
        historyVars
<1>1. BeforeFirst'
    BY DEF BeforeFirst
<1>2. PruneIn'
    BY DEF PruneIn
<1>3. HandleIn'
    BY DEF HandleIn, Swapping, Sound
<1>4. IndexIn'
    <2>1. p \notin PackNames(packs')
        BY DEF PackNames
    <2>2. Sound => p \in old
        BY DEF SwapIn
    <2> QED
        BY <2>1, <2>2 DEF IndexIn, Swapping, OldIntact, Sound
<1>5. PlacesIn'
    BY DEF PlacesIn, HandleIn, Swapping
<1>6. CopyIn'
    BY DEF CopyIn, CopyGood, Sound, Retained, Listed
<1>7. SwapIn'
    BY DEF SwapIn, SwapGood, Copied, Swapping, Sound, PackNames
<1> QED
    BY <1>1, <1>2, <1>3, <1>4, <1>5, <1>6, <1>7

(* The old packs are gone before the first new one is moved. *)
LEMMA BeginMoveStep ==
    ASSUME IInv, TypeOK', BeginMove
    PROVE  IInv'
<1> USE DEF IInv, BeginMove, AllRemoved, diskVars, engineVars, compactVars, jobVars, pruneVars,
        historyVars
<1>1. BeforeFirst'
    BY DEF BeforeFirst
<1>2. PruneIn'
    BY DEF PruneIn
<1>3. HandleIn'
    BY DEF HandleIn, Swapping, Sound
<1>4. IndexIn'
    BY DEF IndexIn, IndexGood, Sound, Swapping, OldIntact, Retained, Listed, Reads
<1>5. PlacesIn'
    BY DEF PlacesIn, PlacesGood, Sound, Retained, Listed, Reads
<1>6. CopyIn'
    BY DEF CopyIn, CopyGood, Sound, Retained, Listed
<1>7. SwapIn'
    BY DEF SwapIn, SwapGood, Copied, Swapping, Sound, PackNames
<1> QED
    BY <1>1, <1>2, <1>3, <1>4, <1>5, <1>6, <1>7

(* A record of the compaction is in its temporary directory or in place. *)
LEMMA MoveNewStep ==
    ASSUME IInv, TypeOK', NEW p \in PackNames(temp), MoveNew(p)
    PROVE  IInv'
<1> USE DEF IInv, MoveNew, RecordsOf, diskVars, engineVars, compactVars, jobVars, pruneVars,
        historyVars
<1>1. BeforeFirst'
    BY DEF BeforeFirst
<1>2. PruneIn'
    BY DEF PruneIn
<1>3. HandleIn'
    BY DEF HandleIn, Swapping, Sound
<1>4. IndexIn'
    BY DEF IndexIn, IndexGood, Sound, Swapping, OldIntact, Retained, Listed, Reads
<1>5. PlacesIn'
    BY DEF PlacesIn, HandleIn, Swapping
<1>6. CopyIn'
    BY DEF CopyIn, CopyGood, Sound, Retained, Listed
<1>7. SwapIn'
    BY DEF SwapIn, SwapGood, Copied, Swapping, Sound, PackNames
<1> QED
    BY <1>1, <1>2, <1>3, <1>4, <1>5, <1>6, <1>7

(* When the temporary directory is empty, the new packs are in place, and  *)
(* nothing else.                                                           *)
LEMMA EndMoveStep ==
    ASSUME IInv, TypeOK', EndMove
    PROVE  IInv'
<1> USE DEF IInv, EndMove, diskVars, engineVars, compactVars, jobVars, pruneVars,
        historyVars
<1>1. BeforeFirst'
    BY DEF BeforeFirst
<1>2. PruneIn'
    BY DEF PruneIn
<1>3. HandleIn'
    BY DEF HandleIn, Swapping, Sound
<1>4. IndexIn'
    BY DEF IndexIn, IndexGood, Sound, Swapping, OldIntact, Retained, Listed, Reads
<1>5. PlacesIn'
    BY DEF PlacesIn, PlacesGood, Sound, Retained, Listed, Reads
<1>6. CopyIn'
    BY DEF CopyIn, CopyGood, Sound, Retained, Listed
<1>7. SwapIn'
    BY DEF SwapIn, SwapGood, Copied, Swapping, Sound, PackNames
<1> QED
    BY <1>1, <1>2, <1>3, <1>4, <1>5, <1>6, <1>7

(* The new index points to the packs in place and covers all that is       *)
(* retained.                                                               *)
LEMMA PublishIndexStep ==
    ASSUME IInv, TypeOK', PublishIndex
    PROVE  IInv'
<1> USE DEF IInv, PublishIndex, Ended, diskVars, engineVars, compactVars, jobVars, pruneVars,
        historyVars
<1>1. BeforeFirst'
    BY DEF BeforeFirst
<1>2. PruneIn'
    BY DEF PruneIn
<1>3. HandleIn'
    BY DEF HandleIn, Swapping, Sound
<1>4. IndexIn'
    <2> SUFFICES ASSUME Sound PROVE IndexGood'
        BY DEF IndexIn, Sound
    <2>1. CopyGood /\ SwapGood /\ packs = Copied
        BY DEF CopyIn, SwapIn, Swapping
    <2>2. Retained' = Retained /\ Retained \subseteq referenced /\ referenced \subseteq Chunks
        BY <2>1 DEF Retained, Listed, CopyGood, SwapGood, TypeOK
    <2>3. \A c \in Chunks : fresh[c] # NoPack => c \in referenced
        BY <2>1 DEF CopyGood
    <2>4. \A c \in referenced : <<fresh[c], c>> \in packs /\ fresh[c][1] = base
        BY <2>1 DEF CopyGood, SwapGood, Copied
    <2>5. \A c \in referenced : fresh[c] # NoPack
        <3>1. NoPack[1] = 0
            BY DEF NoPack
        <3> QED
            BY <2>1, <2>4, <3>1 DEF CopyGood
    <2>6. base = manifest.txn /\ base \in Nat
        BY <2>1 DEF SwapGood, TypeOK
    <2> QED
        BY <2>2, <2>3, <2>4, <2>5, <2>6 DEF IndexGood, Reads
<1>5. PlacesIn'
    BY DEF PlacesIn, PlacesGood, Sound, Retained, Listed, Reads
<1>6. CopyIn'
    BY DEF CopyIn, CopyGood, Sound, Retained, Listed
<1>7. SwapIn'
    BY DEF SwapIn, SwapGood, Copied, Swapping, Sound, PackNames
<1> QED
    BY <1>1, <1>2, <1>3, <1>4, <1>5, <1>6, <1>7

(* A compaction that stops before it removes a pack leaves everything      *)
(* readable.                                                               *)
LEMMA CompactStopsStep ==
    ASSUME IInv, TypeOK', CompactStops
    PROVE  IInv'
<1> USE DEF IInv, CompactStops, Ended, diskVars, engineVars, compactVars, jobVars, pruneVars,
        historyVars
<1>1. BeforeFirst'
    BY DEF BeforeFirst
<1>2. PruneIn'
    BY DEF PruneIn
<1>3. HandleIn'
    BY DEF HandleIn, Swapping, Sound
<1>4. IndexIn'
    BY DEF IndexIn, IndexGood, Sound, Swapping, OldIntact, Retained, Listed, Reads
<1>5. PlacesIn'
    BY DEF PlacesIn, PlacesGood, Sound, Retained, Listed, Reads
<1>6. CopyIn'
    BY DEF CopyIn, CopyGood, Sound, Retained, Listed
<1>7. SwapIn'
    BY DEF SwapIn, SwapGood, Copied, Swapping, Sound, PackNames
<1> QED
    BY <1>1, <1>2, <1>3, <1>4, <1>5, <1>6, <1>7

(* IInv holds of a fresh repository. *)
LEMMA Initially == Init => IInv
<1> SUFFICES ASSUME Init PROVE IInv
    OBVIOUS
<1> USE DEF Init, NoIndex, NoPack
<1>1. TypeOK
    <2>1. NoIndex \in Index
        BY DEF Index, Packs
    <2>2. manifest \in Manifests
        BY DEF Manifests
    <2>3. sb \in [idle : BOOLEAN, txn : Nat]
        OBVIOUS
    <2>4. compacts \in 0..MaxCompacts
        BY BoundsAssumption
    <2> HIDE DEF NoIndex
    <2> QED
        BY <2>1, <2>2, <2>3, <2>4 DEF TypeOK
<1>2. BeforeFirst /\ PruneIn /\ HandleIn
    BY DEF BeforeFirst, PruneIn, HandleIn, Swapping
<1>3. IndexIn
    BY DEF IndexIn, IndexGood, Retained, Listed
<1>4. PlacesIn /\ CopyIn /\ SwapIn
    BY DEF PlacesIn, CopyIn, SwapIn, Swapping
<1> QED
    BY <1>1, <1>2, <1>3, <1>4 DEF IInv

(* IInv is about the variables only. *)
LEMMA Stuttering ==
    ASSUME IInv, UNCHANGED vars
    PROVE  IInv'
<1> USE DEF IInv, vars, diskVars, engineVars, compactVars, jobVars, pruneVars, historyVars
<1>1. TypeOK' /\ BeforeFirst' /\ PruneIn' /\ HandleIn'
    BY DEF TypeOK, BeforeFirst, PruneIn, HandleIn, Swapping
<1>2. IndexIn' /\ PlacesIn'
    BY DEF IndexIn, IndexGood, PlacesIn, PlacesGood, Sound, Swapping, OldIntact, Retained,
           Listed, Reads
<1>3. CopyIn' /\ SwapIn'
    BY DEF CopyIn, CopyGood, SwapIn, SwapGood, Sound, Swapping, Retained, Listed, Copied
<1> QED
    BY <1>1, <1>2, <1>3

(* IInv is inductive. *)
LEMMA Inductive ==
    ASSUME IInv, [Next]_vars
    PROVE  IInv'
<1>1. TypeOK'
    BY TypeStep DEF IInv
<1> QED
    BY <1>1, OpenStep, CloseStep, StoreChunksStep, CommitBackupStep, AbortBackupStep,
       PruneFileStep, PruneIndexStep, PruneFailsStep, CompactBeginStep, CopyRecordStep,
       FinishCopyStep, RemoveOldStep, BeginMoveStep, MoveNewStep, EndMoveStep,
       PublishIndexStep, CompactStopsStep, Stuttering DEF Next

(* IInv always holds. *)
LEMMA Always == Spec => []IInv
<1>1. IInv /\ [Next]_vars => IInv'
    BY Inductive
<1> QED
    BY Initially, <1>1, PTL DEF Spec

-----------------------------------------------------------------------------
(* The variables of Compaction keep their types, whatever backups, prunings *)
(* and compactions do to each other.                                        *)
THEOREM TypeCorrect == Spec => []TypeOK
<1>1. IInv => TypeOK
    BY DEF IInv
<1> QED
    BY Always, <1>1, PTL

(* CompactEbPackStore loses no chunk of the manifest or of a listed         *)
(* snapshot, unless it stops half way or a backup meets it.                 *)
THEOREM CompactionKeepsRetained == Spec => []RetainedReadable
<1>1. IInv => RetainedReadable
    <2> SUFFICES ASSUME IInv, Sound, ~Swapping PROVE \A c \in Retained : Reads(index, c)
        BY DEF RetainedReadable
    <2>1. Retained \subseteq Chunks
        BY DEF Retained, Listed, IInv, TypeOK, Manifests
    <2> QED
        BY <2>1 DEF IInv, IndexIn, IndexGood
<1> QED
    BY Always, <1>1, PTL

(* From the first pack removed to the index published, every retained      *)
(* chunk has a copy in the new packs, moved or not.                        *)
THEOREM SwapIsCovered == Spec => []SwapKeepsCopies
<1>1. IInv => SwapKeepsCopies
  <2> SUFFICES ASSUME IInv, Sound, Swapping, NEW c \in Retained
               PROVE  <<fresh[c], c>> \in packs \cup temp
    BY DEF SwapKeepsCopies
  <2>1. SwapGood /\ CopyGood
    BY DEF IInv, SwapIn, CopyIn, Swapping
  <2>2. c \in referenced \ todo
    BY <2>1 DEF SwapGood, CopyGood
  <2>3. <<fresh[c], c>> \in Copied
    BY <2>2 DEF Copied
  <2>4. Copied \subseteq packs \cup temp
    BY DEF IInv, SwapIn, Swapping
  <2> QED BY <2>3, <2>4
<1> QED BY <1>1, Always, PTL

(* An engine object that no compaction has overtaken deduplicates only      *)
(* against records that are there.                                          *)
THEOREM DeduplicationIsSound == Spec => []DedupSound
<1>1. IInv => DedupSound
    BY DEF IInv, DedupSound, PlacesIn, PlacesGood
<1> QED
    BY Always, <1>1, PTL

(* A compaction that succeeds leaves exactly one record of every chunk that *)
(* it keeps.                                                                *)
THEOREM CompactionIsExact == Spec => Reclaimed
<1>1. ASSUME IInv, pc = "publish", pc' = "off", Sound', [Next]_vars
      PROVE  /\ packs = {<<index'[c], c>> : c \in referenced}
             /\ {c \in Chunks : index'[c] # NoPack} = referenced
    <2>a. PublishIndex \/ CompactStops
        BY <1>1 DEF Next, Open, Close, StoreChunks, CommitBackup, AbortBackup, PruneFile,
           PruneIndex, PruneFails, CompactBegin, CopyRecord, FinishCopy, RemoveOld,
           BeginMove, MoveNew, EndMove, vars, compactVars
    <2>b. ~CompactStops
        BY <1>1 DEF CompactStops, OldIntact, Sound
    <2>1. index' = fresh /\ Sound
        BY <1>1, <2>a, <2>b DEF PublishIndex, Ended, Sound
    <2>2. CopyGood /\ SwapGood /\ packs = Copied
        BY <1>1, <2>1 DEF IInv, CopyIn, SwapIn, Swapping
    <2>3. packs = {<<fresh[c], c>> : c \in referenced}
        BY <2>2 DEF SwapGood, Copied
    <2>4. \A c \in referenced : fresh[c] # NoPack
        <3>1. NoPack[1] = 0
            BY DEF NoPack
        <3> QED
            BY <2>2, <3>1 DEF CopyGood, SwapGood
    <2>5. \A c \in Chunks : fresh[c] # NoPack => c \in referenced
        BY <2>2 DEF CopyGood
    <2>6. referenced \subseteq Chunks
        BY <1>1 DEF IInv, TypeOK
    <2> QED
        BY <2>1, <2>3, <2>4, <2>5, <2>6
<1>2. IInv /\ [Next]_vars =>
          [pc = "publish" /\ pc' = "off" /\ Sound' =>
               /\ packs = {<<index'[c], c>> : c \in referenced}
               /\ {c \in Chunks : index'[c] # NoPack} = referenced]_vars
    BY <1>1
<1> QED
    BY Always, <1>2, PTL DEF Spec, Reclaimed
=============================================================================
