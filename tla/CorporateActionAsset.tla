------------------------ MODULE CorporateActionAsset ------------------------
(***************************************************************************)
(* The corporate-action surface of the protected asset: the on-chain clock,*)
(* the multiplier epoch and its schedule.                                  *)
(* contracts/src/fixtures/FixtureAsset.sol                                 *)
(*                                                                         *)
(* A multiplier value is represented by the nonce of the schedule that     *)
(* introduced it, so two multipliers are equal exactly when the same       *)
(* scheduled change produced them.  The contract's sentinel 0 for "no      *)
(* schedule" is kept: an accepted activation is later than the block that  *)
(* schedules it, so it is never 0.                                         *)
(***************************************************************************)
EXTENDS Naturals

CONSTANTS
    Horizon,    \* bound of the model: the last block timestamp
    MaxNonce    \* bound of the model: how many changes may be scheduled

ASSUME AssetBounds == Horizon \in Nat /\ MaxNonce \in Nat

VARIABLES
    time,       \* block.timestamp
    nonce,      \* _newMultiplierNonce
    activation, \* _newMultiplierActivationTime, 0 when nothing is scheduled
    effective,  \* _currentMultiplier, as the nonce that introduced it
    past        \* history: every (multiplier, nonce, activation) a block showed

assetVars == <<time, nonce, activation, effective, past>>

NoSchedule == 0

\* What a reader pinned to one block sees of the asset.
AssetView == [multiplier : Nat, nonce : Nat, activation : Nat]

CurrentView ==
    [multiplier |-> effective, nonce |-> nonce, activation |-> activation]

AssetTypeOK ==
    /\ time \in Nat
    /\ nonce \in Nat
    /\ activation \in Nat
    /\ effective \in Nat
    /\ past \subseteq AssetView

AssetInit ==
    /\ time = 0
    /\ nonce = 0
    /\ activation = NoSchedule
    /\ effective = 0
    /\ past = {CurrentView}

-----------------------------------------------------------------------------

\* A block with a later timestamp.  Bounded by Horizon.
Tick ==
    /\ time < Horizon
    /\ time' = time + 1
    /\ UNCHANGED <<nonce, activation, effective, past>>

\* scheduleMultiplier: the nonce moves at once, also when it overrides a
\* pending change.  Bounded by MaxNonce and Horizon.
ScheduleMultiplier(at) ==
    /\ at > time
    /\ nonce < MaxNonce
    /\ nonce' = nonce + 1
    /\ activation' = at
    /\ UNCHANGED <<time, effective>>
    /\ past' = past \cup {CurrentView'}

\* Mutant of ActivationReached: the change may be applied early.
AnyTime == TRUE

\* A change cannot be applied before the activation it was committed to.
ActivationReached == time >= activation

\* applyScheduledMultiplier is permissionless, and it clears the schedule.
ApplyScheduledMultiplier ==
    /\ activation # NoSchedule
    /\ ActivationReached
    /\ effective' = nonce
    /\ activation' = NoSchedule
    /\ UNCHANGED <<time, nonce>>
    /\ past' = past \cup {CurrentView'}

AssetNext ==
    \/ Tick
    \/ \E at \in 1..Horizon : ScheduleMultiplier(at)
    \/ ApplyScheduledMultiplier

=============================================================================
