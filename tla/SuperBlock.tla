----------------------------- MODULE SuperBlock -----------------------------
(***************************************************************************)
(* superblock.bin: BackupSuperBlockStore of engine_cpp/src/state.          *)
(*                                                                         *)
(* Two 4 KiB slots hold two generations of the repository's state, told    *)
(* apart by an epoch.  Commit overwrites the slot of the older generation  *)
(* in place, then fsyncs the file; Load reads slot 0, then slot 1, and     *)
(* elects the valid slot with the larger epoch.                            *)
(*                                                                         *)
(* One engine process commits (it keeps the epoch that Open loaded in      *)
(* sb_.critical.epoch, which Commit never updates).  A second process (the *)
(* sync agent, the maintenance wizard) calls Load with no lock while       *)
(* commits are going on.  The engine may be killed at any time, and so may *)
(* the power fail: what was not fsynced may then be old, torn or new.      *)
(* A commit that was written and never fsynced (the engine is killed in    *)
(* between, or the fsync fails) is visible all the same: the next process  *)
(* elects it, and its commit goes to the slot that alone is on disk.  The  *)
(* history variable atRisk says that such a commit was begun; until the    *)
(* next fsync a power failure may then take every block, and what the      *)
(* store promises holds up to there.                                       *)
(*                                                                         *)
(* Not in the model: a slot that decays at rest, which the format does not *)
(* withstand, and a kernel that drops the dirty pages of a failed fsync.   *)
(*                                                                         *)
(* Abstractions: the fields of the block other than the epoch are one      *)
(* value; a slot whose magic or checksums are wrong is Torn.               *)
(***************************************************************************)
EXTENDS Integers

CONSTANTS Values,    \* the contents (phase, txn ids, ...) the engine commits
          NoValue,   \* the content of a default-constructed BackupSuperBlock
          Torn,      \* a slot that ReadSlot rejects
          MaxEpoch   \* bound: no commit is started beyond this epoch

ASSUME ValuesAssumption == NoValue \notin Values
ASSUME MaxEpochAssumption == MaxEpoch \in Nat

Slots == {0, 1}

Default == [epoch |-> 0, val |-> NoValue]

Block == [epoch : Nat \ {0}, val : Values]

ASSUME TornAssumption == Torn \notin Block /\ Torn # Default

VARIABLES exists,     \* superblock.bin exists
          durable,    \* slot -> content that survives a power failure
          cache,      \* slot -> content that processes read (page cache)
          pc,         \* engine: "down", "open", "write" (in WriteSlot), "fsync"
          mem,        \* engine: sb_.critical.epoch in memory
          next,       \* engine: the block being committed
          target,     \* engine: the slot it is written to
          committed,  \* history: the last block that is known to be on disk
          visible,    \* history: the last block written, the one Load elects
          atRisk,     \* history: a commit was begun over a block not fsynced
          lost,       \* history: the power failed while atRisk
          rpc,        \* reader: "idle", "slot0", "slot1", "done"
          rslot0,     \* reader: what it read in slot 0
          rbase,      \* history: visible.epoch when the reader started
          rresult     \* reader: what Load returned (Torn stands for an error)

historyVars == <<committed, visible, atRisk, lost>>
engineVars == <<exists, durable, cache, pc, mem, next, target, historyVars>>
readerVars == <<rpc, rslot0, rbase, rresult>>
vars == <<engineVars, readerVars>>

-----------------------------------------------------------------------------
(* The election of Load, given what the two ReadSlot calls returned. *)
Elect(a, b) ==
    IF a # Torn /\ (b = Torn \/ a.epoch >= b.epoch) THEN a ELSE b

(* Load at one instant: an absent file is a default block, not an error. *)
Load(s) == IF exists THEN Elect(s[0], s[1]) ELSE Default

(* Commit ignores the status of its own Load: on an error `current' stays  *)
(* default-constructed.                                                    *)
Current == IF Load(cache) = Torn THEN Default ELSE Load(cache)

(* Plausible mistakes in Commit, for the mutation runs. *)
NextEpochSkips == (IF Current.epoch >= mem THEN Current.epoch ELSE mem) + 2
NextEpochFromMemory == mem + 1
TargetSlotUnmasked == (Current.epoch % 2) + 1
TargetSlotFromMemory == IF mem % 2 = 0 THEN 1 ELSE 0

NextEpoch == (IF Current.epoch >= mem THEN Current.epoch ELSE mem) + 1

TargetSlot == IF Current.epoch % 2 = 0 THEN 1 ELSE 0

-----------------------------------------------------------------------------
Init == /\ exists = FALSE
        /\ durable = [s \in Slots |-> Torn]
        /\ cache = [s \in Slots |-> Torn]
        /\ pc = "down"
        /\ mem = 0
        /\ next = Default
        /\ target = 0
        /\ committed = Default
        /\ visible = Default
        /\ atRisk = FALSE
        /\ lost = FALSE
        /\ rpc = "idle"
        /\ rslot0 = Torn
        /\ rbase = 0
        /\ rresult = Default

(* Commit up to the first byte of WriteSlot: the target slot is neither    *)
(* the old nor the new block until the write is complete.  A missing file  *)
(* is created first, with two slots that do not validate.                  *)
BeginCommit(v, m) ==
    /\ NextEpoch <= MaxEpoch
    /\ next' = [epoch |-> NextEpoch, val |-> v]
    /\ target' = TargetSlot
    /\ cache' = [cache EXCEPT ![TargetSlot] = Torn]
    /\ exists' = TRUE
    /\ pc' = "write"
    /\ mem' = m
    /\ atRisk' = (atRisk \/ visible # committed)
    /\ UNCHANGED <<durable, committed, visible, lost>>

(* BackupEngine::Open of a repository whose superblock loads. *)
Open == /\ pc = "down"
        /\ Load(cache) # Torn
        /\ mem' = Load(cache).epoch
        /\ pc' = "open"
        /\ UNCHANGED <<exists, durable, cache, next, target, historyVars, readerVars>>

(* InitRepoEx: a fresh block (epoch 0), whatever the file holds. *)
InitRepo(v) == /\ pc = "down"
               /\ BeginCommit(v, 0)
               /\ UNCHANGED readerVars

(* PersistSuperBlock, Recover, SetupEncryption, StartupSelfCheck. *)
Commit(v) == /\ pc = "open"
             /\ BeginCommit(v, mem)
             /\ UNCHANGED readerVars

(* io.write and io.flush are through: every process reads the new block. *)
WriteSlot == /\ pc = "write"
             /\ cache' = [cache EXCEPT ![target] = next]
             /\ visible' = next
             /\ pc' = "fsync"
             /\ UNCHANGED <<exists, durable, mem, next, target, committed, atRisk, lost,
                            readerVars>>

(* io.write fails half way: the slot stays torn, Commit returns IoError. *)
WriteError == /\ pc = "write"
              /\ pc' = "open"
              /\ next' = Default
              /\ UNCHANGED <<exists, durable, cache, mem, target, historyVars, readerVars>>

(* Mutation: the fsync is left out. *)
FsyncLeftOut == /\ pc = "fsync"
                /\ committed' = next
                /\ atRisk' = FALSE
                /\ next' = Default
                /\ pc' = "open"
                /\ UNCHANGED <<exists, durable, cache, mem, target, visible, lost, readerVars>>

(* FsyncPath: the whole file is durable, and Commit returns. *)
Fsync == /\ pc = "fsync"
         /\ durable' = cache
         /\ committed' = next
         /\ atRisk' = FALSE
         /\ next' = Default
         /\ pc' = "open"
         /\ UNCHANGED <<exists, cache, mem, target, visible, lost, readerVars>>

(* FsyncPath fails: Commit returns an error, the block stays visible. *)
FsyncFails == /\ pc = "fsync"
              /\ next' = Default
              /\ pc' = "open"
              /\ UNCHANGED <<exists, durable, cache, mem, target, historyVars, readerVars>>

(* The engine process ends or is killed, in the middle of a commit too:    *)
(* what it has written stays in the page cache, half a block or a whole    *)
(* one that nobody is going to fsync.                                      *)
Kill == /\ pc # "down"
        /\ pc' = "down"
        /\ mem' = 0
        /\ next' = Default
        /\ UNCHANGED <<exists, durable, cache, target, historyVars, readerVars>>

(* The kernel writes a slot back by itself. *)
WriteBack(s) == /\ durable[s] # cache[s]
                /\ durable' = [durable EXCEPT ![s] = cache[s]]
                /\ UNCHANGED <<exists, cache, pc, mem, next, target, historyVars, readerVars>>

-----------------------------------------------------------------------------
(* What the disk may hold in slot s after a power failure. *)
Survives(s) == IF durable[s] = cache[s] THEN {cache[s]}
                                        ELSE {durable[s], cache[s], Torn}

AfterPowerLoss == {f \in [Slots -> {durable[0], durable[1], cache[0], cache[1], Torn}] :
                      \A s \in Slots : f[s] \in Survives(s)}

(* What Load finds in two slots, with nothing written after them. *)
Found(f) == IF f[0] = Torn /\ f[1] = Torn THEN Default ELSE Elect(f[0], f[1])

(* Every process dies; what the disk holds is what there is from now on. *)
PowerLoss ==
    /\ \E f \in AfterPowerLoss :
          /\ durable' = f
          /\ cache' = f
          /\ committed' = Found(f)
          /\ visible' = Found(f)
    /\ atRisk' = FALSE
    /\ lost' = (lost \/ atRisk)
    /\ pc' = "down"
    /\ mem' = 0
    /\ next' = Default
    /\ rpc' = "idle"
    /\ rslot0' = Torn
    /\ rbase' = 0
    /\ rresult' = Default
    /\ UNCHANGED <<exists, target>>

-----------------------------------------------------------------------------
(* A Load of another process: two reads, with the engine in between. *)
ReaderStart == /\ rpc \in {"idle", "done"}
               /\ IF exists THEN rpc' = "slot0" /\ rresult' = Default
                            ELSE rpc' = "done" /\ rresult' = Default
               /\ rbase' = visible.epoch
               /\ rslot0' = Torn
               /\ UNCHANGED engineVars

ReadSlot0 == /\ rpc = "slot0"
             /\ rslot0' = cache[0]
             /\ rpc' = "slot1"
             /\ UNCHANGED <<engineVars, rbase, rresult>>

ReadSlot1 == /\ rpc = "slot1"
             /\ rresult' = Elect(rslot0, cache[1])
             /\ rpc' = "done"
             /\ rslot0' = Torn
             /\ UNCHANGED <<engineVars, rbase>>

Next == \/ Open \/ WriteSlot \/ WriteError \/ Fsync \/ FsyncFails
        \/ Kill \/ PowerLoss \/ \E s \in Slots : WriteBack(s)
        \/ \E v \in Values : InitRepo(v) \/ Commit(v)
        \/ ReaderStart \/ ReadSlot0 \/ ReadSlot1

Spec == Init /\ [][Next]_vars

-----------------------------------------------------------------------------
SlotContent == Block \cup {Torn}

(* Every variable has its type. *)
TypeOK == /\ exists \in BOOLEAN
          /\ durable \in [Slots -> SlotContent]
          /\ cache \in [Slots -> SlotContent]
          /\ pc \in {"down", "open", "write", "fsync"}
          /\ mem \in 0 .. MaxEpoch
          /\ next \in Block \cup {Default}
          /\ next.epoch <= MaxEpoch
          /\ target \in Slots
          /\ committed \in Block \cup {Default}
          /\ visible \in Block \cup {Default}
          /\ atRisk \in BOOLEAN
          /\ lost \in BOOLEAN
          /\ rpc \in {"idle", "slot0", "slot1", "done"}
          /\ rslot0 \in SlotContent
          /\ rbase \in Nat
          /\ rresult \in SlotContent \cup {Default}

(* Commit writes the inactive slot: while a block is being written, the    *)
(* other slot holds for readers the one that Load elects; and unless it    *)
(* was begun over a block that had not been fsynced, the other slot holds  *)
(* the last committed block, on disk too, until the fsync.                 *)
WritesInactive ==
    /\ pc = "write" /\ visible # Default => cache[1 - target] = visible
    /\ pc \in {"write", "fsync"} /\ committed # Default /\ ~atRisk =>
          /\ cache[1 - target] = committed
          /\ durable[1 - target] = committed

(* A committed block is never lost, unless a commit was begun over a block *)
(* that had not been fsynced (its engine was killed, or the fsync failed): *)
(* if the power failed now, whatever the disk kept of the unsynced writes, *)
(* the next Load elects the last committed block or the one written after. *)
NeverLosesCommitted ==
    committed # Default /\ ~atRisk =>
        \A f \in AfterPowerLoss : Elect(f[0], f[1]) \in {committed, visible}

(* A Load with no lock, racing commits, kills and write-backs: it fails or *)
(* returns less than what was visible when it started only if another      *)
(* block was written meanwhile (or none ever was), and then it is one      *)
(* block behind at most, as long as no power failure took an atRisk commit.*)
ReaderBound ==
    rpc = "done" =>
        /\ rresult = Torn \/ rresult.epoch < rbase => rbase = 0 \/ visible.epoch > rbase
        /\ rresult # Torn /\ ~lost => rresult.epoch + 1 >= rbase

(* The two slots implement one versioned register with a visible and a     *)
(* stable version: a commit takes effect as a whole and counts by one, an  *)
(* fsync makes it stable, a power failure goes back to the stable version  *)
(* at most, and only over a version that was not stable can one be lost.   *)
Register == INSTANCE SuperBlockRegister
              WITH stable <- committed,
                   proposal <- IF pc = "write" THEN next.val ELSE NoValue

ImplementsRegister == Register!RegisterSpec
=============================================================================
