-------------------------- MODULE SuperBlockProofs --------------------------
(***************************************************************************)
(* Proofs that the two slots of superblock.bin never lose a committed      *)
(* block unless a commit was begun over one that was not fsynced, that an  *)
(* unlocked reader misses what it started from only when overtaken, and    *)
(* that the store implements a versioned register, for every set of values *)
(* and every number of commits, kills and power failures.                  *)
(***************************************************************************)
EXTENDS SuperBlock, TLAPS

(* The slot of the block that Load elects, and the one a commit goes to. *)
Active == visible.epoch % 2
Inactive == 1 - Active

(* The slot of the last block that is known to be on disk. *)
Synced == committed.epoch % 2

(* What is in slot s, if it is a block, has the parity of s and is not     *)
(* beyond the last block written.                                          *)
InPlace(x, s) == x \in Block => x.epoch % 2 = s /\ x.epoch <= visible.epoch

(* The block before b, or none; after a power failure has taken a commit   *)
(* at risk there may be a gap between the two.                             *)
Before(x, b) ==
    x = Torn \/ (x \in Block /\ x.epoch < b.epoch /\ (~lost => x.epoch + 1 = b.epoch))

(* For readers, the last block written is in the slot of its parity, and   *)
(* the other slot holds an older one or nothing.                           *)
SlotsInv ==
    /\ \A s \in Slots : InPlace(cache[s], s) /\ InPlace(durable[s], s)
    /\ cache[Active] = IF visible = Default THEN Torn ELSE visible
    /\ Before(cache[Inactive], visible)

(* As long as no commit was begun over an unsynced block, the committed    *)
(* block is in its slot, visible and on disk, and the other slot holds     *)
(* something older, nothing, or the one block written since.               *)
SyncedInv ==
    ~atRisk =>
        /\ visible = committed \/ visible.epoch = committed.epoch + 1
        /\ durable[Synced] = IF committed = Default THEN Torn ELSE committed
        /\ cache[Synced] = durable[Synced]
        /\ \A x \in {durable[1 - Synced], cache[1 - Synced]} :
              Before(x, committed) \/ (x = visible /\ visible # committed)

(* A block being written is the next generation, aimed at the other slot;  *)
(* one that waits for its fsync is the visible one; the engine's own idea  *)
(* of the epoch is never ahead of the file.                                *)
EngineInv ==
    /\ visible.epoch <= MaxEpoch
    /\ mem <= visible.epoch
    /\ pc = "write" => /\ next \in Block
                       /\ next.epoch = visible.epoch + 1
                       /\ target = Inactive
                       /\ ~atRisk => visible = committed
    /\ pc = "fsync" => /\ next = visible /\ visible # Default /\ target = Active
                       /\ ~atRisk => visible.epoch = committed.epoch + 1
    /\ pc \notin {"write", "fsync"} => next = Default
    /\ ~exists => /\ visible = Default /\ committed = Default
                  /\ \A s \in Slots : cache[s] = Torn /\ durable[s] = Torn
                  /\ pc \notin {"write", "fsync"}

(* What a Load in progress has learnt: slot 0 can only lack the block the  *)
(* Load started from if that is in slot 1 or another was written since.    *)
ReaderInv ==
    /\ rpc # "idle" => rbase <= visible.epoch
    /\ rpc = "slot1" =>
          /\ rslot0 = Torn \/ rslot0.epoch < rbase =>
                rbase = 0 \/ rbase % 2 = 1 \/ rbase < visible.epoch
          /\ rslot0 # Torn /\ ~lost => rslot0.epoch + 1 >= rbase
    /\ ReaderBound

IInv == TypeOK /\ SlotsInv /\ SyncedInv /\ EngineInv /\ ReaderInv

-----------------------------------------------------------------------------
(* Consecutive epochs live in different slots. *)
LEMMA Parity ==
    \A n \in Nat : /\ n % 2 \in Slots
                   /\ (n + 1) % 2 = 1 - (n % 2)
BY DEF Slots

(* What a block is made of, and how it differs from the two markers. *)
LEMMA BlockFacts ==
    /\ Default.epoch = 0
    /\ Default \notin Block
    /\ Torn \notin Block
    /\ Torn # Default
    /\ \A b \in Block : b.epoch \in Nat /\ b.epoch > 0 /\ b.val \in Values
BY TornAssumption, ValuesAssumption DEF Block, Default

(* The two histories have epochs, and the slots they point to are slots. *)
LEMMA SlotFacts ==
    ASSUME TypeOK
    PROVE  /\ visible.epoch \in Nat /\ committed.epoch \in Nat
           /\ visible \in Block \/ visible = Default
           /\ committed \in Block \/ committed = Default
           /\ (Active = 0 /\ Inactive = 1) \/ (Active = 1 /\ Inactive = 0)
           /\ Active \in Slots /\ Inactive \in Slots /\ Active # Inactive
           /\ Synced \in Slots /\ 1 - Synced \in Slots
           /\ (Synced = 0 /\ 1 - Synced = 1) \/ (Synced = 1 /\ 1 - Synced = 0)
           /\ \A s \in Slots : /\ cache[s] = Torn \/ cache[s] \in Block
                               /\ durable[s] = Torn \/ durable[s] \in Block
<1>1. /\ visible \in Block \/ visible = Default
      /\ committed \in Block \/ committed = Default
  BY DEF TypeOK
<1>2. visible.epoch \in Nat /\ committed.epoch \in Nat
  BY <1>1, BlockFacts
<1>3. \A s \in Slots : /\ cache[s] = Torn \/ cache[s] \in Block
                       /\ durable[s] = Torn \/ durable[s] \in Block
  BY DEF TypeOK, SlotContent
<1> QED BY <1>1, <1>2, <1>3, Parity DEF Active, Inactive, Synced, Slots

(* The initial state satisfies the invariant. *)
LEMMA InitIInv == Init => IInv
<1> SUFFICES ASSUME Init PROVE IInv
  OBVIOUS
<1>1. TypeOK
  <2>1. exists \in BOOLEAN /\ atRisk \in BOOLEAN /\ lost \in BOOLEAN
    BY DEF Init
  <2>2. /\ durable \in [Slots -> SlotContent]
        /\ cache \in [Slots -> SlotContent]
        /\ target \in Slots
        /\ rslot0 \in SlotContent
    BY DEF Init, Slots, SlotContent
  <2>3. mem \in 0 .. MaxEpoch /\ next.epoch <= MaxEpoch
    BY BlockFacts, MaxEpochAssumption DEF Init
  <2> QED BY <2>1, <2>2, <2>3 DEF Init, TypeOK
<1>2. Active = 0 /\ Inactive = 1 /\ Synced = 0
  BY BlockFacts DEF Init, Active, Inactive, Synced
<1>3. SlotsInv
  BY <1>2, BlockFacts DEF Init, SlotsInv, InPlace, Before, Slots
<1>4. SyncedInv
  BY <1>2, BlockFacts DEF Init, SyncedInv, Before, Slots
<1>5. EngineInv
  BY BlockFacts, MaxEpochAssumption DEF Init, EngineInv, Slots
<1>6. ReaderInv
  BY DEF Init, ReaderInv, ReaderBound
<1> QED BY <1>1, <1>3, <1>4, <1>5, <1>6 DEF IInv

(* The election takes the larger epoch; with parities there is no tie. *)
LEMMA Elected ==
    ASSUME NEW f \in [Slots -> SlotContent],
           \A s \in Slots : f[s] \in Block => f[s].epoch % 2 = s
    PROVE  \/ f[0] = Torn /\ f[1] = Torn /\ Found(f) = Default
           \/ /\ Found(f) \in Block /\ Found(f) = Elect(f[0], f[1])
              /\ \E s \in Slots : /\ Found(f).epoch % 2 = s /\ f[s] = Found(f)
                                  /\ f[1 - s] = Torn \/ (/\ f[1 - s] \in Block
                                                         /\ f[1 - s].epoch < f[s].epoch)
<1>1. /\ f[0] = Torn \/ (f[0] \in Block /\ f[0].epoch \in Nat /\ f[0].epoch % 2 = 0)
      /\ f[1] = Torn \/ (f[1] \in Block /\ f[1].epoch \in Nat /\ f[1].epoch % 2 = 1)
  BY BlockFacts DEF Slots, SlotContent
<1>2. CASE f[0] = Torn
  BY <1>1, <1>2, BlockFacts DEF Found, Elect, Slots
<1>3. CASE f[0] # Torn /\ (f[1] = Torn \/ f[0].epoch >= f[1].epoch)
  <2>1. Found(f) = f[0] /\ Elect(f[0], f[1]) = f[0]
    BY <1>3 DEF Found, Elect
  <2>2. f[1] = Torn \/ f[1].epoch < f[0].epoch
    BY <1>1, <1>3
  <2> QED BY <1>1, <1>3, <2>1, <2>2 DEF Slots
<1>4. CASE f[0] # Torn /\ f[1] # Torn /\ ~(f[0].epoch >= f[1].epoch)
  <2>1. Found(f) = f[1] /\ Elect(f[0], f[1]) = f[1]
    BY <1>4 DEF Found, Elect
  <2>2. f[0].epoch < f[1].epoch
    BY <1>1, <1>4
  <2> QED BY <1>1, <1>4, <2>1, <2>2 DEF Slots
<1> QED BY <1>2, <1>3, <1>4

(* Load returns the last block written, with a write in flight too. *)
LEMMA LoadVisible ==
    ASSUME IInv
    PROVE  /\ Current = visible
           /\ Load(cache) # Torn => Load(cache) = visible
<1> USE BlockFacts
<1>1. TypeOK /\ SlotsInv
  BY DEF IInv
<1>2. CASE visible = Default
  <2>1. Active = 0 /\ Inactive = 1
    BY <1>2 DEF Active, Inactive
  <2>2. cache[0] = Torn /\ cache[1] = Torn
    BY <1>1, <1>2, <2>1 DEF SlotsInv, Before
  <2> QED BY <1>2, <2>2 DEF Current, Load, Elect
<1>3. CASE visible # Default
  <2>1. visible \in Block /\ exists /\ visible # Torn
    BY <1>1, <1>3 DEF IInv, TypeOK, EngineInv
  <2>2. cache[Active] = visible /\ Before(cache[Inactive], visible)
    BY <1>1, <1>3 DEF SlotsInv
  <2>3. cache[Inactive] = Torn \/ cache[Inactive].epoch < visible.epoch
    BY <2>2 DEF Before
  <2>4. Load(cache) = visible
    BY <1>1, <2>1, <2>2, <2>3, SlotFacts DEF Load, Elect
  <2> QED BY <2>1, <2>4 DEF Current
<1> QED BY <1>2, <1>3

-----------------------------------------------------------------------------
(* Starting a commit tears the inactive slot, for readers only; if the     *)
(* visible block is not the committed one, the commit is at risk.          *)
LEMMA BeginCommitStep ==
    ASSUME IInv, pc \in {"down", "open"},
           NEW v \in Values, NEW m \in 0 .. MaxEpoch, m <= visible.epoch,
           BeginCommit(v, m), UNCHANGED readerVars
    PROVE  IInv'
<1>1. Current = visible
  BY LoadVisible
<1>2. visible.epoch \in Nat /\ mem \in Nat /\ mem <= visible.epoch /\ TypeOK
  BY SlotFacts DEF IInv, TypeOK, EngineInv
<1>3. NextEpoch = visible.epoch + 1 /\ TargetSlot = Inactive
  BY <1>1, <1>2, Parity DEF NextEpoch, TargetSlot, Inactive, Active, Slots
<1>4. /\ next' = [epoch |-> visible.epoch + 1, val |-> v]
      /\ next' \in Block
      /\ next'.epoch = visible.epoch + 1
      /\ visible.epoch + 1 <= MaxEpoch
  BY <1>2, <1>3 DEF BeginCommit, Block
<1>5. /\ durable' = durable /\ committed' = committed /\ visible' = visible /\ lost' = lost
      /\ exists' /\ pc' = "write" /\ mem' = m /\ target' = Inactive
      /\ Active' = Active /\ Inactive' = Inactive /\ Synced' = Synced
      /\ atRisk' = (atRisk \/ visible # committed)
  BY <1>3 DEF BeginCommit, Active, Inactive, Synced
<1>6. /\ cache' = [cache EXCEPT ![Inactive] = Torn]
      /\ cache'[Inactive] = Torn /\ cache'[Active] = cache[Active]
      /\ cache' \in [Slots -> SlotContent]
      /\ \A s \in Slots : cache'[s] = Torn \/ cache'[s] = cache[s]
  BY <1>2, <1>3, SlotFacts DEF BeginCommit, TypeOK, SlotContent
<1>7. TypeOK'
  <2>1. atRisk' \in BOOLEAN
    BY <1>2, <1>5 DEF TypeOK
  <2>2. exists' \in BOOLEAN /\ target' \in Slots
    BY <1>2, <1>5, SlotFacts
  <2> QED BY <1>2, <1>4, <1>5, <1>6, <2>1, <2>2 DEF TypeOK, readerVars
<1>8. SlotsInv'
  BY <1>5, <1>6, BlockFacts DEF IInv, SlotsInv, InPlace, Before
<1>9. SyncedInv'
  <2> SUFFICES ASSUME ~atRisk' PROVE SyncedInv'
    BY DEF SyncedInv
  <2>1. ~atRisk /\ visible = committed /\ SyncedInv /\ Synced = Active /\ 1 - Synced = Inactive
    BY <1>5 DEF IInv, Synced, Active, Inactive
  <2>2. /\ durable[Synced] = IF committed = Default THEN Torn ELSE committed
        /\ cache[Synced] = durable[Synced]
        /\ Before(durable[1 - Synced], committed)
    BY <2>1 DEF SyncedInv
  <2> QED BY <1>5, <1>6, <2>1, <2>2 DEF SyncedInv, Before
<1>10. EngineInv'
  BY <1>4, <1>5 DEF IInv, EngineInv
<1>11. ReaderInv'
  BY <1>5 DEF IInv, ReaderInv, ReaderBound, readerVars
<1> QED BY <1>7, <1>8, <1>9, <1>10, <1>11 DEF IInv

(* What the slots may hold after a power failure, in any reachable state;  *)
(* with no commit at risk, the committed block is one of the two.          *)
LEMMA PowerLossOutcomes ==
    ASSUME IInv, NEW f \in AfterPowerLoss
    PROVE  /\ f \in [Slots -> SlotContent]
           /\ \A s \in Slots : InPlace(f[s], s)
           /\ ~atRisk =>
                 /\ f[Synced] = IF committed = Default THEN Torn ELSE committed
                 /\ Before(f[1 - Synced], committed)
                    \/ (f[1 - Synced] = visible /\ visible # committed)
<1>0. TypeOK /\ SlotsInv /\ SyncedInv
  BY DEF IInv
<1>1. f \in [Slots -> SlotContent]
  BY <1>0 DEF AfterPowerLoss, TypeOK, Slots, SlotContent
<1>2. \A s \in Slots : f[s] \in {durable[s], cache[s], Torn}
                       /\ (durable[s] = cache[s] => f[s] = cache[s])
  BY DEF AfterPowerLoss, Survives
<1>3. \A s \in Slots : InPlace(f[s], s)
  <2> TAKE s \in Slots
  <2>1. InPlace(cache[s], s) /\ InPlace(durable[s], s)
    BY <1>0 DEF SlotsInv
  <2>2. f[s] \in {durable[s], cache[s], Torn}
    BY <1>2
  <2> QED BY <2>1, <2>2, BlockFacts DEF InPlace
<1>4. ASSUME ~atRisk
      PROVE  /\ f[Synced] = IF committed = Default THEN Torn ELSE committed
             /\ Before(f[1 - Synced], committed)
                \/ (f[1 - Synced] = visible /\ visible # committed)
  <2>1. Synced \in Slots /\ 1 - Synced \in Slots
    BY <1>0, SlotFacts
  <2>2. f[Synced] = IF committed = Default THEN Torn ELSE committed
    BY <1>0, <1>2, <1>4, <2>1 DEF SyncedInv
  <2>3. f[1 - Synced] \in {durable[1 - Synced], cache[1 - Synced], Torn}
    BY <1>2, <2>1
  <2>4. Before(Torn, committed)
    BY DEF Before
  <2> QED BY <1>0, <1>4, <2>2, <2>3, <2>4 DEF SyncedInv
<1> QED BY <1>1, <1>3, <1>4

(* The block that Load finds after a power failure that takes no commit at *)
(* risk: the committed one, or the one written after it.                   *)
LEMMA PowerLossElects ==
    ASSUME IInv, ~atRisk, NEW f \in AfterPowerLoss
    PROVE  /\ Found(f) \in {committed, visible}
           /\ committed # Default => Elect(f[0], f[1]) = Found(f)
           /\ \A s \in Slots : f[s] = Torn \/ f[s] = Found(f) \/ Before(f[s], Found(f))
<1> USE BlockFacts
<1>0. TypeOK /\ (visible = committed \/ visible.epoch = committed.epoch + 1)
  BY DEF IInv, SyncedInv
<1>1. /\ visible.epoch \in Nat /\ committed.epoch \in Nat
      /\ visible \in Block \/ visible = Default
      /\ committed \in Block \/ committed = Default
      /\ (Synced = 0 /\ 1 - Synced = 1) \/ (Synced = 1 /\ 1 - Synced = 0)
  BY <1>0, SlotFacts
<1>2. /\ f[Synced] = IF committed = Default THEN Torn ELSE committed
      /\ Before(f[1 - Synced], committed)
         \/ (f[1 - Synced] = visible /\ visible # committed)
  BY PowerLossOutcomes
<1>3. CASE committed = Default /\ Before(f[1 - Synced], committed)
  <2>1. f[0] = Torn /\ f[1] = Torn
    BY <1>1, <1>2, <1>3 DEF Before
  <2> QED BY <1>3, <2>1 DEF Found, Slots
<1>4. CASE f[1 - Synced] = visible /\ visible # committed
  <2>1. visible \in Block /\ visible.epoch = committed.epoch + 1
    BY <1>0, <1>1, <1>4
  <2>2. Elect(f[0], f[1]) = visible /\ Found(f) = visible
    BY <1>1, <1>2, <1>4, <2>1 DEF Elect, Found
  <2>3. f[Synced] = Torn \/ Before(f[Synced], visible)
    BY <1>1, <1>2, <2>1 DEF Before
  <2> QED BY <1>1, <1>4, <2>2, <2>3 DEF Slots
<1>5. CASE committed # Default /\ Before(f[1 - Synced], committed)
  <2>1. committed \in Block /\ f[Synced] = committed
    BY <1>1, <1>2, <1>5
  <2>2. f[1 - Synced] = Torn \/ f[1 - Synced].epoch < committed.epoch
    BY <1>5 DEF Before
  <2>3. committed # Torn /\ ~(committed.epoch < committed.epoch)
    BY <1>1, <2>1
  <2>4. f[1 - Synced] = Torn \/ (f[1 - Synced].epoch \in Nat /\ f[1 - Synced] # Torn)
    BY <1>5 DEF Before
  <2>5. CASE Synced = 0 /\ 1 - Synced = 1
    <3>1. f[0] = committed /\ (f[1] = Torn \/ f[0].epoch >= f[1].epoch)
      BY <1>1, <2>1, <2>2, <2>4, <2>5
    <3>2. Elect(f[0], f[1]) = committed /\ Found(f) = committed
      BY <2>3, <3>1 DEF Elect, Found
    <3> QED BY <1>5, <2>5, <3>1, <3>2 DEF Slots
  <2>6. CASE Synced = 1 /\ 1 - Synced = 0
    <3>1. f[1] = committed /\ (f[0] = Torn \/ ~(f[0].epoch >= f[1].epoch))
      BY <1>1, <2>1, <2>2, <2>4, <2>6
    <3>2. Elect(f[0], f[1]) = committed /\ Found(f) = committed
      BY <2>3, <3>1 DEF Elect, Found
    <3> QED BY <1>5, <2>6, <3>1, <3>2 DEF Slots
  <2> QED BY <1>1, <2>5, <2>6
<1> QED BY <1>2, <1>3, <1>4, <1>5

-----------------------------------------------------------------------------
(* After a power failure what Load finds is visible and on disk, and the   *)
(* other slot holds something older.                                       *)
LEMMA PowerLossStep ==
    ASSUME IInv, PowerLoss
    PROVE  IInv'
<1>1. PICK f \in AfterPowerLoss : /\ durable' = f /\ cache' = f
                                  /\ committed' = Found(f) /\ visible' = Found(f)
  BY DEF PowerLoss
<1>2. /\ f \in [Slots -> SlotContent] /\ pc' = "down" /\ mem' = 0 /\ next' = Default
      /\ ~atRisk' /\ lost' = (lost \/ atRisk) /\ TypeOK
  BY PowerLossOutcomes DEF PowerLoss, IInv
<1>3. \A s \in Slots : f[s] \in Block => f[s].epoch % 2 = s /\ f[s].epoch <= visible.epoch
  BY PowerLossOutcomes DEF InPlace
<1>4. visible.epoch \in Nat /\ visible.epoch <= MaxEpoch
  BY <1>2, SlotFacts DEF IInv, EngineInv
<1>5. \/ f[0] = Torn /\ f[1] = Torn /\ Found(f) = Default
      \/ /\ Found(f) \in Block
         /\ \E s \in Slots : /\ Found(f).epoch % 2 = s /\ f[s] = Found(f)
                             /\ f[1 - s] = Torn \/ (/\ f[1 - s] \in Block
                                                    /\ f[1 - s].epoch < f[s].epoch)
  BY <1>2, <1>3, Elected
<1>6. Found(f) \in Block \cup {Default} /\ Found(f).epoch \in Nat /\ Found(f).epoch <= MaxEpoch
  BY <1>3, <1>4, <1>5, BlockFacts, MaxEpochAssumption
<1>7. TypeOK'
  <2>1. mem' \in 0 .. MaxEpoch /\ next'.epoch <= MaxEpoch
    BY <1>2, BlockFacts, MaxEpochAssumption
  <2>2. atRisk' \in BOOLEAN /\ lost' \in BOOLEAN
    BY <1>2 DEF TypeOK, PowerLoss
  <2> QED BY <1>1, <1>2, <1>6, <2>1, <2>2 DEF PowerLoss, TypeOK, SlotContent
<1>8. /\ f[Active'] = IF Found(f) = Default THEN Torn ELSE Found(f)
      /\ f[Inactive'] = Torn \/ (/\ f[Inactive'] \in Block
                                 /\ f[Inactive'].epoch < Found(f).epoch)
      /\ Active' = Found(f).epoch % 2 /\ Inactive' = 1 - Active'
      /\ Active' \in Slots /\ Inactive' \in Slots
  <2>1. Active' = Found(f).epoch % 2 /\ Inactive' = 1 - Active'
    BY <1>1 DEF Active, Inactive
  <2>2. Active' \in Slots /\ Inactive' \in Slots
    BY <1>6, <2>1, Parity DEF Slots
  <2> QED BY <1>5, <2>1, <2>2, BlockFacts DEF Slots
<1>9. Before(cache[Inactive], visible)'
  <2>1. CASE lost'
    BY <1>8, <2>1, <1>1 DEF Before
  <2>2. CASE ~lost'
    <3>1. ~lost /\ ~atRisk
      BY <1>2, <2>2
    <3>2. \/ f[Inactive'] = Torn \/ f[Inactive'] = Found(f)
          \/ Before(f[Inactive'], Found(f))
      BY <1>8, <3>1, PowerLossElects
    <3>3. f[Inactive'] # Found(f) \/ f[Inactive'] = Torn
      BY <1>6, <1>8, BlockFacts
    <3> QED BY <1>1, <3>1, <3>2, <3>3 DEF Before
  <2> QED BY <2>1, <2>2
<1>10. SlotsInv'
  <2>1. \A s \in Slots : InPlace(f[s], s)'
    <3> SUFFICES ASSUME NEW s \in Slots, f[s] \in Block
                 PROVE  f[s].epoch % 2 = s /\ f[s].epoch <= Found(f).epoch
      BY <1>1 DEF InPlace
    <3>1. f[s].epoch \in Nat
      BY BlockFacts
    <3> QED BY <1>3, <1>5, <1>6, <3>1, BlockFacts DEF Slots
  <2> QED BY <1>1, <1>8, <1>9, <2>1 DEF SlotsInv
<1>11. SyncedInv'
  <2>1. Synced' = Active' /\ 1 - Synced' = Inactive' /\ visible' = committed'
    BY <1>1 DEF Synced, Active, Inactive
  <2> QED BY <1>1, <1>8, <1>9, <2>1 DEF SyncedInv
<1>12. EngineInv'
  <2>1. ~exists => /\ Found(f) = Default
                   /\ \A s \in Slots : f[s] = Torn
    <3> SUFFICES ASSUME ~exists PROVE \A s \in Slots : f[s] = Torn
      BY <1>5, BlockFacts DEF Slots
    <3>1. \A s \in Slots : cache[s] = Torn /\ durable[s] = Torn
      BY DEF IInv, EngineInv
    <3> QED BY <3>1 DEF AfterPowerLoss, Survives
  <2> QED BY <1>1, <1>2, <1>6, <2>1 DEF PowerLoss, EngineInv
<1>13. ReaderInv'
  BY DEF PowerLoss, ReaderInv, ReaderBound
<1> QED BY <1>7, <1>10, <1>11, <1>12, <1>13 DEF IInv

(* Fsync makes the visible block the committed one, whatever was at risk. *)
LEMMA FsyncStep ==
    ASSUME IInv, Fsync
    PROVE  IInv'
<1>1. /\ next = visible /\ visible \in Block /\ visible.epoch \in Nat /\ visible # Default
      /\ TypeOK /\ SlotsInv /\ exists
  BY SlotFacts DEF IInv, TypeOK, EngineInv, Fsync
<1>2. /\ committed' = visible /\ next' = Default /\ cache' = cache /\ durable' = cache
      /\ pc' = "open" /\ mem' = mem /\ target' = target /\ exists' = exists
      /\ visible' = visible /\ lost' = lost /\ ~atRisk'
      /\ UNCHANGED readerVars
  BY <1>1 DEF Fsync
<1>3. Active' = Active /\ Inactive' = Inactive /\ Synced' = Active /\ 1 - Synced' = Inactive
  BY <1>2 DEF Active, Inactive, Synced
<1>4. TypeOK'
  <2>1. atRisk' \in BOOLEAN
    BY DEF Fsync
  <2> QED BY <1>1, <1>2, <2>1, BlockFacts, MaxEpochAssumption DEF TypeOK, readerVars
<1>5. SlotsInv'
  BY <1>1, <1>2, <1>3 DEF SlotsInv, InPlace, Before
<1>6. SyncedInv'
  BY <1>1, <1>2, <1>3 DEF SlotsInv, SyncedInv, Before
<1>7. EngineInv'
  BY <1>1, <1>2, BlockFacts DEF IInv, EngineInv
<1>8. ReaderInv'
  BY <1>2 DEF IInv, ReaderInv, ReaderBound, readerVars
<1> QED BY <1>4, <1>5, <1>6, <1>7, <1>8 DEF IInv

(* WriteSlot makes the next generation visible; the slots swap roles. *)
LEMMA WriteSlotStep ==
    ASSUME IInv, WriteSlot
    PROVE  IInv'
<1>1. /\ next \in Block /\ next.epoch = visible.epoch + 1 /\ target = Inactive
      /\ TypeOK /\ SlotsInv /\ SyncedInv /\ exists /\ next.epoch <= MaxEpoch /\ mem \in Nat
      /\ mem <= visible.epoch /\ visible.epoch \in Nat
  BY SlotFacts DEF WriteSlot, IInv, EngineInv, TypeOK
<1>2. /\ visible' = next /\ committed' = committed /\ durable' = durable /\ lost' = lost
      /\ atRisk' = atRisk /\ pc' = "fsync" /\ next' = next /\ target' = target
      /\ exists' = exists /\ mem' = mem /\ UNCHANGED readerVars
  BY DEF WriteSlot
<1>3. Active' = Inactive /\ Inactive' = Active /\ Synced' = Synced
  BY <1>1, <1>2, Parity DEF Active, Inactive, Synced, Slots
<1>4. /\ cache' \in [Slots -> SlotContent]
      /\ cache'[Inactive] = next /\ cache'[Active] = cache[Active]
      /\ \A s \in Slots : s # Inactive => cache'[s] = cache[s]
  BY <1>1, SlotFacts DEF WriteSlot, TypeOK, SlotContent
<1>5. TypeOK'
  BY <1>1, <1>2, <1>4 DEF TypeOK, readerVars
<1>6. SlotsInv'
  <2>1. \A s \in Slots : InPlace(cache[s], s)' /\ InPlace(durable[s], s)'
    <3> SUFFICES ASSUME NEW s \in Slots
                 PROVE  /\ cache'[s] \in Block =>
                              cache'[s].epoch % 2 = s /\ cache'[s].epoch <= next.epoch
                        /\ durable[s] \in Block =>
                              durable[s].epoch % 2 = s /\ durable[s].epoch <= next.epoch
      BY <1>2 DEF InPlace
    <3>1. InPlace(cache[s], s) /\ InPlace(durable[s], s)
      BY <1>1 DEF SlotsInv
    <3>2. durable[s] \in Block =>
              durable[s].epoch % 2 = s /\ durable[s].epoch <= next.epoch
      BY <1>1, <3>1, BlockFacts DEF InPlace
    <3>3. CASE s = Inactive
      <4>1. next.epoch % 2 = Inactive
        BY <1>2, <1>3 DEF Active
      <4> QED BY <1>1, <1>4, <3>2, <3>3, <4>1
    <3>4. CASE s # Inactive
      BY <1>1, <1>4, <3>1, <3>2, <3>4, BlockFacts DEF InPlace
    <3> QED BY <3>3, <3>4
  <2>2. Before(cache[Active], next)
    BY <1>1, SlotFacts DEF SlotsInv, Before
  <2>3. Before(cache[Inactive], visible)'
    BY <1>2, <1>3, <1>4, <2>2 DEF Before
  <2>4. next # Default
    BY <1>1, BlockFacts
  <2> QED BY <1>1, <1>2, <1>3, <1>4, <2>1, <2>3, <2>4 DEF SlotsInv
<1>7. SyncedInv'
  <2> SUFFICES ASSUME ~atRisk PROVE SyncedInv'
    BY <1>2 DEF SyncedInv
  <2>1. visible = committed
    BY DEF IInv, EngineInv, WriteSlot
  <2>2. Synced = Active /\ 1 - Synced = Inactive
    BY <2>1 DEF Synced, Active, Inactive
  <2>3. /\ durable[Synced] = IF committed = Default THEN Torn ELSE committed
        /\ cache[Synced] = durable[Synced]
        /\ Before(durable[1 - Synced], committed)
    BY <1>1, <2>1 DEF SyncedInv
  <2>4. next # committed /\ next.epoch = committed.epoch + 1
    BY <1>1, <2>1
  <2> QED BY <1>2, <1>3, <1>4, <2>2, <2>3, <2>4 DEF SyncedInv, Before
<1>8. EngineInv'
  <2>1. ~atRisk => visible = committed
    BY DEF IInv, EngineInv, WriteSlot
  <2> QED BY <1>1, <1>2, <1>3, <2>1, BlockFacts DEF EngineInv
<1>9. ReaderInv'
  BY <1>1, <1>2 DEF IInv, TypeOK, ReaderInv, ReaderBound, readerVars
<1> QED BY <1>5, <1>6, <1>7, <1>8, <1>9 DEF IInv

(* The kernel's write-back brings the disk closer to the page cache. *)
LEMMA WriteBackStep ==
    ASSUME IInv, NEW t \in Slots, WriteBack(t)
    PROVE  IInv'
<1>1. TypeOK /\ SlotsInv /\ SyncedInv
  BY DEF IInv
<1>2. /\ UNCHANGED <<exists, cache, pc, mem, next, target, historyVars, readerVars>>
      /\ durable' \in [Slots -> SlotContent]
      /\ \A s \in Slots : durable'[s] \in {durable[s], cache[s]}
  BY <1>1 DEF WriteBack, TypeOK
<1>3. UNCHANGED <<Active, Inactive, Synced>>
  BY <1>2 DEF Active, Inactive, Synced, historyVars
<1>4. TypeOK'
  BY <1>1, <1>2 DEF TypeOK, readerVars, historyVars
<1>5. SlotsInv'
  <2>1. \A s \in Slots : InPlace(cache[s], s)' /\ InPlace(durable[s], s)'
    BY <1>1, <1>2 DEF SlotsInv, InPlace, historyVars
  <2> QED BY <1>1, <1>2, <1>3, <2>1 DEF SlotsInv, Before, historyVars
<1>6. SyncedInv'
  <2> SUFFICES ASSUME ~atRisk PROVE SyncedInv'
    BY <1>2 DEF SyncedInv, historyVars
  <2>1. Synced \in Slots /\ 1 - Synced \in Slots
    BY <1>1, SlotFacts
  <2>2. /\ durable'[Synced] = durable[Synced]
        /\ durable'[1 - Synced] \in {durable[1 - Synced], cache[1 - Synced]}
    BY <1>1, <1>2, <2>1 DEF SyncedInv
  <2> QED BY <1>1, <1>2, <1>3, <2>2 DEF SyncedInv, Before, historyVars
<1>7. EngineInv'
  BY <1>2, <1>3 DEF IInv, EngineInv, historyVars
<1>8. ReaderInv'
  BY <1>2 DEF IInv, ReaderInv, ReaderBound, readerVars, historyVars
<1> QED BY <1>4, <1>5, <1>6, <1>7, <1>8 DEF IInv

(* Steps that leave the file and the histories alone need only be looked   *)
(* at for the engine's own variables.                                      *)
LEMMA EngineOnlyStep ==
    ASSUME IInv, UNCHANGED <<exists, durable, cache, target, historyVars, readerVars>>,
           pc' \in {"down", "open"}, next' = Default,
           mem' \in 0 .. MaxEpoch, mem' <= visible.epoch
    PROVE  IInv'
<1>1. UNCHANGED <<Active, Inactive, Synced>>
  BY DEF Active, Inactive, Synced, historyVars
<1>2. TypeOK'
  BY BlockFacts, MaxEpochAssumption DEF IInv, TypeOK, historyVars, readerVars
<1>3. SlotsInv'
  BY <1>1 DEF IInv, SlotsInv, InPlace, Before, historyVars
<1>4. SyncedInv'
  BY <1>1 DEF IInv, SyncedInv, Before, historyVars
<1>5. EngineInv'
  BY DEF IInv, EngineInv, historyVars
<1>6. ReaderInv'
  BY DEF IInv, ReaderInv, ReaderBound, historyVars, readerVars
<1> QED BY <1>2, <1>3, <1>4, <1>5, <1>6 DEF IInv

(* What a read of slot s can find: the visible block if that is its slot,  *)
(* else something at most one behind.                                      *)
LEMMA SlotRead ==
    ASSUME IInv, NEW s \in Slots
    PROVE  /\ visible # Default /\ visible.epoch % 2 = s => cache[s] = visible
           /\ cache[s] # Torn => /\ cache[s].epoch \in Nat
                                 /\ ~lost => cache[s].epoch + 1 >= visible.epoch
<1>1. TypeOK /\ SlotsInv
  BY DEF IInv
<1>2. CASE s = Active
  <2>1. cache[s] = IF visible = Default THEN Torn ELSE visible
    BY <1>1, <1>2 DEF SlotsInv
  <2> QED BY <1>1, <2>1, SlotFacts
<1>3. CASE s = Inactive
  <2>1. Before(cache[s], visible)
    BY <1>1, <1>3 DEF SlotsInv
  <2>2. visible.epoch % 2 # s /\ visible.epoch \in Nat
    BY <1>1, <1>3, SlotFacts DEF Active
  <2> QED BY <2>1, <2>2, BlockFacts DEF Before
<1> QED BY <1>1, <1>2, <1>3, SlotFacts DEF Slots

(* A reader's steps: ReaderInv is carried through both reads. *)
LEMMA ReaderStep ==
    ASSUME IInv, ReaderStart \/ ReadSlot0 \/ ReadSlot1
    PROVE  IInv'
<1>1. TypeOK /\ visible.epoch \in Nat /\ rbase \in Nat
      /\ (visible = Default => visible.epoch = 0)
  BY SlotFacts, BlockFacts DEF IInv, TypeOK
<1>2. UNCHANGED engineVars
  BY DEF ReaderStart, ReadSlot0, ReadSlot1
<1>3. UNCHANGED <<Active, Inactive, Synced>>
  BY <1>2 DEF Active, Inactive, Synced, engineVars, historyVars
<1>4. SlotsInv'
  BY <1>2, <1>3 DEF IInv, SlotsInv, InPlace, Before, engineVars, historyVars
<1>5. SyncedInv'
  BY <1>2, <1>3 DEF IInv, SyncedInv, Before, engineVars, historyVars
<1>6. EngineInv'
  BY <1>2, <1>3 DEF IInv, EngineInv, engineVars, historyVars
<1>7. TypeOK' /\ ReaderInv'
  <2>1. CASE ReaderStart
    <3>1. TypeOK'
      BY <1>1, <1>2, <2>1 DEF ReaderStart, TypeOK, SlotContent, engineVars, historyVars
    <3>2. ~exists => visible.epoch = 0
      BY BlockFacts DEF IInv, EngineInv
    <3>3. ReaderInv'
      BY <1>1, <1>2, <2>1, <3>2, BlockFacts
         DEF ReaderStart, ReaderInv, ReaderBound, engineVars, historyVars
    <3> QED BY <3>1, <3>3
  <2>2. CASE ReadSlot0
    <3>1. TypeOK'
      BY <1>1, <1>2, <2>2 DEF ReadSlot0, TypeOK, Slots, engineVars, historyVars
    <3>2. /\ visible # Default /\ visible.epoch % 2 = 0 => cache[0] = visible
          /\ cache[0] # Torn => /\ cache[0].epoch \in Nat
                                /\ ~lost => cache[0].epoch + 1 >= visible.epoch
      BY SlotRead DEF Slots
    <3>3. rbase <= visible.epoch
      BY <2>2 DEF ReadSlot0, IInv, ReaderInv
    <3>4. cache[0] = Torn \/ cache[0].epoch < rbase =>
              rbase = 0 \/ rbase % 2 = 1 \/ rbase < visible.epoch
      <4> SUFFICES ASSUME rbase # 0, rbase % 2 # 1, ~(rbase < visible.epoch)
                   PROVE  cache[0] # Torn /\ ~(cache[0].epoch < rbase)
        OBVIOUS
      <4>1. rbase = visible.epoch /\ visible # Default /\ visible.epoch % 2 = 0
        BY <1>1, <3>3
      <4>2. visible \in Block
        BY <1>1, <4>1 DEF TypeOK
      <4> QED BY <1>1, <3>2, <4>1, <4>2, BlockFacts
    <3>5. cache[0] # Torn /\ ~lost => cache[0].epoch + 1 >= rbase
      BY <1>1, <3>2, <3>3
    <3>6. ReaderInv'
      BY <1>2, <2>2, <3>3, <3>4, <3>5
         DEF ReadSlot0, ReaderInv, ReaderBound, engineVars, historyVars
    <3> QED BY <3>1, <3>6
  <2>3. CASE ReadSlot1
    <3>1. /\ visible # Default /\ visible.epoch % 2 = 1 => cache[1] = visible
          /\ cache[1] # Torn => /\ cache[1].epoch \in Nat
                                /\ ~lost => cache[1].epoch + 1 >= visible.epoch
      BY SlotRead DEF Slots
    <3>2. /\ rbase <= visible.epoch
          /\ rslot0 = Torn \/ rslot0.epoch < rbase =>
                rbase = 0 \/ rbase % 2 = 1 \/ rbase < visible.epoch
          /\ rslot0 # Torn /\ ~lost => rslot0.epoch + 1 >= rbase
      BY <2>3 DEF ReadSlot1, IInv, ReaderInv
    <3>3. /\ cache[1] = Torn \/ cache[1] \in Block
          /\ rslot0 = Torn \/ rslot0 \in Block
          /\ visible = Default \/ visible \in Block
      BY <1>1 DEF TypeOK, SlotContent, Slots
    <3>4. /\ rslot0 # Torn => rslot0.epoch \in Nat
          /\ visible # Default => visible # Torn
      BY <3>3, BlockFacts
    <3> DEFINE r == Elect(rslot0, cache[1])
    <3>5. r = rslot0 \/ r = cache[1]
      BY DEF Elect
    <3>6. r = Torn \/ r.epoch < rbase => rbase = 0 \/ visible.epoch > rbase
      <4> SUFFICES ASSUME rbase # 0, ~(visible.epoch > rbase)
                   PROVE  r # Torn /\ ~(r.epoch < rbase)
        OBVIOUS
      <4>1. rbase = visible.epoch /\ visible # Default
        BY <1>1, <3>2
      <4>2. CASE rbase % 2 = 1
        <5>1. cache[1] = visible /\ visible # Torn
          BY <3>1, <3>4, <4>1, <4>2
        <5> QED BY <1>1, <3>4, <4>1, <5>1 DEF Elect
      <4>3. CASE rbase % 2 # 1
        <5>1. rslot0 # Torn /\ ~(rslot0.epoch < rbase)
          BY <1>1, <3>2, <4>1, <4>3
        <5> QED BY <1>1, <3>1, <3>4, <5>1 DEF Elect
      <4> QED BY <4>2, <4>3
    <3>7. r # Torn /\ ~lost => r.epoch + 1 >= rbase
      <4>1. CASE r = rslot0
        BY <3>2, <4>1
      <4>2. CASE r = cache[1]
        BY <1>1, <3>1, <3>2, <4>2
      <4> QED BY <3>5, <4>1, <4>2
    <3>8. r \in SlotContent
      BY <3>3, <3>5 DEF SlotContent
    <3>9. TypeOK'
      BY <1>1, <1>2, <2>3, <3>8 DEF ReadSlot1, TypeOK, SlotContent, engineVars, historyVars
    <3>10. ReaderInv'
      BY <1>2, <2>3, <3>2, <3>6, <3>7
         DEF ReadSlot1, ReaderInv, ReaderBound, engineVars, historyVars
    <3> QED BY <3>9, <3>10
  <2> QED BY <2>1, <2>2, <2>3
<1> QED BY <1>4, <1>5, <1>6, <1>7 DEF IInv

-----------------------------------------------------------------------------
(* Every step preserves the invariant. *)
LEMMA NextIInv == IInv /\ [Next]_vars => IInv'
<1> SUFFICES ASSUME IInv, [Next]_vars PROVE IInv'
  OBVIOUS
<1>0. /\ TypeOK /\ visible.epoch \in Nat /\ 0 \in 0 .. MaxEpoch /\ 0 <= visible.epoch
      /\ mem \in 0 .. MaxEpoch /\ mem <= visible.epoch
      /\ visible.epoch \in 0 .. MaxEpoch
  BY SlotFacts, MaxEpochAssumption DEF IInv, TypeOK, EngineInv
<1>1. CASE Open
  <2>1. Load(cache) = visible
    BY <1>1, LoadVisible DEF Open
  <2>2. next = Default /\ next' = Default
    BY <1>1 DEF Open, IInv, EngineInv
  <2> QED BY <1>0, <1>1, <2>1, <2>2, EngineOnlyStep DEF Open
<1>2. CASE WriteSlot
  BY <1>2, WriteSlotStep
<1>3. CASE WriteError
  BY <1>0, <1>3, EngineOnlyStep DEF WriteError
<1>4. CASE Fsync
  BY <1>4, FsyncStep
<1>5. CASE FsyncFails
  BY <1>0, <1>5, EngineOnlyStep DEF FsyncFails
<1>6. CASE Kill
  BY <1>0, <1>6, EngineOnlyStep DEF Kill
<1>7. CASE PowerLoss
  BY <1>7, PowerLossStep
<1>8. CASE \E s \in Slots : WriteBack(s)
  BY <1>8, WriteBackStep
<1>9. ASSUME NEW v \in Values, InitRepo(v) PROVE IInv'
  BY <1>0, <1>9, BeginCommitStep DEF InitRepo
<1>10. ASSUME NEW v \in Values, Commit(v) PROVE IInv'
  BY <1>0, <1>10, BeginCommitStep DEF Commit
<1>11. CASE ReaderStart \/ ReadSlot0 \/ ReadSlot1
  BY <1>11, ReaderStep
<1>12. CASE UNCHANGED vars
  <2>1. UNCHANGED <<Active, Inactive, Synced>>
    BY <1>12 DEF Active, Inactive, Synced, vars, engineVars, historyVars
  <2>2. TypeOK' /\ SlotsInv' /\ SyncedInv'
    BY <1>12, <2>1 DEF IInv, TypeOK, SlotsInv, SyncedInv, InPlace, Before, vars,
                       engineVars, historyVars, readerVars
  <2>3. EngineInv' /\ ReaderInv'
    BY <1>12, <2>1 DEF IInv, EngineInv, ReaderInv, ReaderBound, vars, engineVars,
                       historyVars, readerVars
  <2> QED BY <2>2, <2>3 DEF IInv
<1> QED BY <1>1, <1>2, <1>3, <1>4, <1>5, <1>6, <1>7, <1>8, <1>9, <1>10, <1>11, <1>12
        DEF Next

(* IInv is an invariant of the specification. *)
THEOREM SpecIInv == Spec => []IInv
BY InitIInv, NextIInv, PTL DEF Spec

-----------------------------------------------------------------------------
(* Type correctness of the superblock store and of its users. *)
THEOREM TypeCorrect == Spec => []TypeOK
<1>1. IInv => TypeOK
  BY DEF IInv
<1> QED BY SpecIInv, <1>1, PTL

(* BackupSuperBlockStore::Commit never writes over the block that Load     *)
(* elects, and over the last committed one only if it finds another that   *)
(* was written and not fsynced.                                            *)
THEOREM WritesInactiveAlways == Spec => []WritesInactive
<1>1. IInv => WritesInactive
  <2> SUFFICES ASSUME IInv PROVE WritesInactive
    OBVIOUS
  <2>1. TypeOK /\ SlotsInv /\ SyncedInv /\ EngineInv
    BY DEF IInv
  <2>2. ASSUME pc = "write", visible # Default
        PROVE  cache[1 - target] = visible
    <3>1. 1 - target = Active
      BY <2>1, <2>2, SlotFacts DEF EngineInv
    <3> QED BY <2>1, <2>2, <3>1 DEF SlotsInv
  <2>3. ASSUME pc \in {"write", "fsync"}, committed # Default, ~atRisk
        PROVE  cache[1 - target] = committed /\ durable[1 - target] = committed
    <3>1. CASE visible = committed
      <4>1. cache[Synced] = committed /\ durable[Synced] = committed /\ Synced = Active
        BY <2>1, <2>3, <3>1 DEF SyncedInv, Synced, Active
      <4>2. CASE pc = "write"
        BY <2>1, <4>1, <4>2, SlotFacts DEF EngineInv
      <4>3. CASE pc = "fsync"
        BY <2>1, <2>3, <3>1, <4>3, SlotFacts DEF EngineInv
      <4> QED BY <2>3, <4>2, <4>3
    <3>2. CASE visible.epoch = committed.epoch + 1
      <4>1. cache[Synced] = committed /\ durable[Synced] = committed
        BY <2>1, <2>3 DEF SyncedInv
      <4>2. pc = "fsync" /\ target = Active
        BY <2>1, <2>3, <3>2, SlotFacts DEF EngineInv
      <4>3. 1 - target = Synced
        BY <2>1, <3>2, <4>2, Parity, SlotFacts DEF Active, Synced, Slots
      <4> QED BY <4>1, <4>3
    <3> QED BY <2>1, <2>3, <3>1, <3>2 DEF SyncedInv
  <2> QED BY <2>2, <2>3 DEF WritesInactive
<1> QED BY SpecIInv, <1>1, PTL

(* No power failure loses a block whose Commit has returned, unless a      *)
(* commit was begun over a block that was not fsynced: Load elects the     *)
(* committed block or the one written after it.                            *)
THEOREM CommittedSurvives == Spec => []NeverLosesCommitted
<1>1. IInv => NeverLosesCommitted
  BY PowerLossElects DEF NeverLosesCommitted
<1> QED BY SpecIInv, <1>1, PTL

(* Load without a lock misses the block it started from only when another  *)
(* was written meanwhile, and is one block behind at most.                 *)
THEOREM ReaderAtMostOneBehind == Spec => []ReaderBound
<1>1. IInv => ReaderBound
  BY DEF IInv, ReaderInv
<1> QED BY SpecIInv, <1>1, PTL

-----------------------------------------------------------------------------
(* The value a commit in flight proposes. *)
Proposal == IF pc = "write" THEN next.val ELSE NoValue

(* A commit in flight proposes a value, and nothing else does. *)
LEMMA ProposalFacts ==
    ASSUME IInv
    PROVE  /\ pc = "write" => Proposal \in Values /\ Proposal # NoValue
           /\ pc # "write" => Proposal = NoValue
BY BlockFacts, ValuesAssumption DEF Proposal, IInv, EngineInv

(* What remains after a power failure is what the register allows. *)
LEMMA PowerLossRemains ==
    ASSUME IInv, PowerLoss
    PROVE  Register!PowerFails
<1>1. PICK f \in AfterPowerLoss : committed' = Found(f) /\ visible' = Found(f)
  BY DEF PowerLoss
<1>2. /\ pc' = "down" /\ ~atRisk' /\ atRisk' = FALSE /\ Proposal' = NoValue
      /\ committed' = visible'
  BY <1>1 DEF PowerLoss, Proposal
<1>3. Found(f) \in Register!Remains
  <2>1. CASE ~atRisk
    BY <2>1, PowerLossElects DEF Register!Remains
  <2>2. CASE atRisk
    <3>1. /\ f \in [Slots -> SlotContent] /\ visible.epoch \in Nat
          /\ \A s \in Slots : f[s] \in Block => f[s].epoch % 2 = s /\ f[s].epoch <= visible.epoch
      BY PowerLossOutcomes, SlotFacts DEF InPlace, IInv
    <3>2. Found(f) = Default \/ (Found(f) \in Block /\ Found(f).epoch <= visible.epoch)
      BY <3>1, Elected
    <3>3. Found(f) \in [epoch : 0..visible.epoch, val : Values \union {NoValue}]
      BY <3>1, <3>2 DEF Default, Block
    <3> QED BY <2>2, <3>3 DEF Register!Remains
  <2> QED BY <2>1, <2>2
<1> QED BY <1>1, <1>2, <1>3 DEF Register!PowerFails, Proposal

(* Every step of the store is a step of the register or leaves it alone. *)
LEMMA StepSimulation ==
    ASSUME IInv, [Next]_vars
    PROVE  [Register!RegisterNext]_(Register!registerVars)
<1> USE DEF historyVars
<1>0. /\ pc = "write" => Proposal \in Values /\ Proposal # NoValue
      /\ pc # "write" => Proposal = NoValue
  BY ProposalFacts
<1>1. CASE UNCHANGED <<visible, committed, atRisk>> /\ Proposal' = Proposal
  BY <1>1 DEF Register!registerVars, Proposal
<1>2. ASSUME NEW v \in Values, InitRepo(v) \/ Commit(v)
      PROVE  Register!Propose(v)
  <2>1. Proposal = NoValue /\ pc' = "write" /\ next' = [epoch |-> NextEpoch, val |-> v]
    BY <1>0, <1>2 DEF InitRepo, Commit, BeginCommit
  <2>2. Proposal' = v
    BY <2>1 DEF Proposal
  <2>3. UNCHANGED <<visible, committed>> /\ atRisk' = (atRisk \/ visible # committed)
    BY <1>2 DEF InitRepo, Commit, BeginCommit
  <2> QED BY <2>1, <2>2, <2>3 DEF Register!Propose, Proposal
<1>3. CASE WriteSlot
  <2>1. /\ pc = "write" /\ visible' = next /\ Proposal' = NoValue
        /\ UNCHANGED <<committed, atRisk>>
    BY <1>3 DEF WriteSlot, Proposal
  <2>2. next \in Block /\ next.epoch = visible.epoch + 1
    BY <2>1 DEF IInv, EngineInv
  <2>3. next = [epoch |-> visible.epoch + 1, val |-> next.val]
    BY <2>2 DEF Block
  <2>4. Proposal = next.val
    BY <2>1 DEF Proposal
  <2>5. Register!Take
    BY <1>0, <2>1, <2>3, <2>4 DEF Register!Take, Proposal
  <2> QED BY <2>5 DEF Register!RegisterNext
<1>4. CASE WriteError \/ (Kill /\ pc = "write")
  <2>1. /\ pc = "write" /\ Proposal' = NoValue
        /\ UNCHANGED <<visible, committed, atRisk>>
    BY <1>4 DEF WriteError, Kill, Proposal
  <2>2. Register!Drop
    BY <1>0, <2>1 DEF Register!Drop, Proposal
  <2> QED BY <2>2 DEF Register!RegisterNext
<1>5. CASE Fsync
  <2>1. next = visible
    BY <1>5 DEF Fsync, IInv, EngineInv
  <2>2. /\ pc = "fsync" /\ pc' = "open" /\ committed' = visible /\ atRisk' = FALSE
        /\ visible' = visible /\ Proposal' = Proposal /\ Proposal = NoValue
    BY <1>5, <2>1 DEF Fsync, Proposal
  <2>3. Register!Sync
    BY <2>2 DEF Register!Sync, Proposal
  <2> QED BY <2>3 DEF Register!RegisterNext
<1>6. CASE PowerLoss
  BY <1>6, PowerLossRemains DEF Register!RegisterNext
<1>7. CASE FsyncFails \/ (Kill /\ pc # "write") \/ Open
  <2>1. UNCHANGED <<visible, committed, atRisk>> /\ Proposal' = Proposal
    BY <1>7 DEF FsyncFails, Kill, Open, Proposal
  <2> QED BY <1>1, <2>1
<1>8. CASE ReaderStart \/ ReadSlot0 \/ ReadSlot1 \/ (\E s \in Slots : WriteBack(s))
           \/ UNCHANGED vars
  <2>1. UNCHANGED <<visible, committed, atRisk, pc, next>>
    BY <1>8 DEF ReaderStart, ReadSlot0, ReadSlot1, WriteBack, vars, engineVars
  <2> QED BY <1>1, <2>1 DEF Proposal
<1>9. CASE \E v \in Values : InitRepo(v) \/ Commit(v)
  BY <1>2, <1>9 DEF Register!RegisterNext
<1> QED BY <1>3, <1>4, <1>5, <1>6, <1>7, <1>8, <1>9 DEF Next

(* The two slots implement the versioned register of SuperBlockRegister,   *)
(* with Commit, kills, failing fsyncs and power failures as they are.      *)
THEOREM Refinement == Spec => ImplementsRegister
<1>1. Init => Register!RegisterInit
  BY DEF Init, Register!RegisterInit, Default
<1>2. IInv /\ [Next]_vars => [Register!RegisterNext]_(Register!registerVars)
  BY StepSimulation
<1> QED BY SpecIInv, <1>1, <1>2, PTL DEF Spec, ImplementsRegister, Register!RegisterSpec
=============================================================================
