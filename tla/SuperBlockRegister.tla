------------------------- MODULE SuperBlockRegister -------------------------
(***************************************************************************)
(* What BackupSuperBlockStore promises its clients: one versioned value.   *)
(* A commit proposes a value for the next version, and the proposal is     *)
(* taken as a whole or dropped as a whole; the version counts the commits  *)
(* taken.  What is taken is visible at once and stable when it is synced;  *)
(* a power failure keeps the visible version or goes back to the stable    *)
(* one.  The promise has one gap: a value proposed while the visible       *)
(* version is not stable puts both at risk until the next sync.            *)
(***************************************************************************)
EXTENDS Naturals

CONSTANTS Values,    \* the superblock contents a client may commit
          NoValue    \* the content before the first commit

VARIABLES visible,   \* [epoch |-> commits taken so far, val |-> last value taken]
          stable,    \* the version that a power failure cannot take
          proposal,  \* the value being written, NoValue when there is none
          atRisk     \* a value was proposed over a version that is not stable

registerVars == <<visible, stable, proposal, atRisk>>

RegisterInit == /\ visible = [epoch |-> 0, val |-> NoValue]
                /\ stable = visible
                /\ proposal = NoValue
                /\ atRisk = FALSE

Propose(v) == /\ proposal = NoValue
              /\ proposal' = v
              /\ atRisk' = (atRisk \/ visible # stable)
              /\ UNCHANGED <<visible, stable>>

Take == /\ proposal # NoValue
        /\ visible' = [epoch |-> visible.epoch + 1, val |-> proposal]
        /\ proposal' = NoValue
        /\ UNCHANGED <<stable, atRisk>>

Drop == /\ proposal # NoValue
        /\ proposal' = NoValue
        /\ UNCHANGED <<visible, stable, atRisk>>

Sync == /\ proposal = NoValue
        /\ stable' = visible
        /\ atRisk' = FALSE
        /\ UNCHANGED <<visible, proposal>>

(* What is left when the power fails: without risk the visible version or  *)
(* the stable one, otherwise any version up to the visible one, or none.   *)
Remains == IF atRisk
           THEN [epoch : 0..visible.epoch, val : Values \union {NoValue}]
           ELSE {visible, stable}

PowerFails == /\ visible' \in Remains
              /\ stable' = visible'
              /\ proposal' = NoValue
              /\ atRisk' = FALSE

RegisterNext == Take \/ Drop \/ Sync \/ PowerFails \/ \E v \in Values : Propose(v)

RegisterSpec == RegisterInit /\ [][RegisterNext]_registerVars
=============================================================================
