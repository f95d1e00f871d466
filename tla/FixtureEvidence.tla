-------------------------- MODULE FixtureEvidence ---------------------------
(***************************************************************************)
(* How the evidence row a decision reads is written: the fixture admin     *)
(* posts signed intents, the worker compares the newest one with a         *)
(* confirmed block, and each journaled event is folded into the asset's    *)
(* row of current_assets.                                                  *)
(*   apps/api/src/server.ts           POST /v1/testnet/fixture-evidence    *)
(*   apps/worker/src/fixture-observer.ts                                   *)
(*   packages/db/src/projections.ts   API_ and CHAIN_SNAPSHOT_OBSERVED     *)
(*                                                                         *)
(* Posting an intent and committing an observation are transactions on the *)
(* same row; an observation reads the intent and the chain long before it  *)
(* commits.  The confirmed block is any block so far: the depth, the       *)
(* provider and the time the cycle takes decide which.                     *)
(*                                                                         *)
(* Identity and signature checks reject the request before any state       *)
(* changes and are left out.  Nothing opens an incident on the fixture     *)
(* asset, so the row carries no manual review.                             *)
(***************************************************************************)
EXTENDS CorporateActionAsset, SourceComparison

CONSTANTS
    None,           \* no intent, no row, no observation
    ApiMaxAge,      \* policy.apiMaxAgeMs
    FailureSets,    \* bound of the model: reads that may fail in one observation
    FutureSlack,    \* how far ahead of the API's clock an intent may be dated
    FreeIntents     \* TRUE: an intent may announce a state before the chain
                    \* shows it.  FALSE: it restates one the chain has shown.

\* The reads of one observation that can fail one by one: getCurrentMultiplier
\* or decimals, newMultiplierNonce, newMultiplierActivationTime, and the
\* bytecode and wrapper.asset() reads that identify the pair.
Reads == {"multiplier", "nonce", "activation", "identity"}

ASSUME EvidenceAssumption ==
    /\ FailureSets \subseteq SUBSET Reads
    /\ ApiMaxAge \in Nat
    /\ FutureSlack \in Nat
    /\ FreeIntents \in BOOLEAN

VARIABLES
    intent,         \* the newest journaled fixture intent
    row,            \* the asset's row of current_assets
    comparing       \* what the intent said that a cycle in progress has read

evidenceVars == <<intent, row, comparing>>

Intent == [view : AssetView, at : Nat]

\* comparison_fields holds both sides of the verdict; matched keeps them when
\* they are the same, and is None when they are not.
Row == [nonce : Nat, activation : Nat, apiAt : Nat, chainAt : Nat \cup {None},
        agreement : Agreement, matched : AssetView \cup {None}, canonical : BOOLEAN]

ASSUME NoneAssumption ==
    None \notin Nat /\ None \notin AssetView /\ None \notin Intent /\ None \notin Row

EvidenceTypeOK ==
    /\ intent \in Intent \cup {None}
    /\ row \in Row \cup {None}
    /\ comparing \in AssetView \cup {None}
    /\ row = None => intent = None /\ comparing = None

EvidenceInit ==
    /\ intent = None
    /\ row = None
    /\ comparing = None

-----------------------------------------------------------------------------

\* What the fixture admin signs.
Intendable ==
    IF FreeIntents
    THEN [multiplier : 0..MaxNonce, nonce : 0..MaxNonce, activation : 0..Horizon]
    ELSE past

\* The endpoint's clock window and its refusal to roll the intent backwards.
\* A signature covers the content, so an equal time needs the same content.
Acceptable(i) ==
    /\ time <= i.at + ApiMaxAge
    /\ i.at <= time + FutureSlack
    /\ intent # None => i.at > intent.at \/ i = intent

\* API_SNAPSHOT_OBSERVED: the multiplier epoch and the schedule are
\* overwritten; the recorded comparison is left as it was.
RowAfterIntent(i) ==
    IF row = None
    THEN [nonce |-> i.view.nonce, activation |-> i.view.activation, apiAt |-> i.at,
          chainAt |-> None, agreement |-> "INCOMPLETE", matched |-> None,
          canonical |-> FALSE]
    ELSE [row EXCEPT !.nonce = i.view.nonce, !.activation = i.view.activation,
                     !.apiAt = i.at]

PostIntent(view, at) ==
    LET i == [view |-> view, at |-> at] IN
    /\ Acceptable(i)
    /\ intent' = i
    /\ row' = RowAfterIntent(i)
    /\ UNCHANGED comparing

-----------------------------------------------------------------------------

\* runFixtureObservationCycle reads the newest intent outside any transaction.
BeginObservation ==
    /\ comparing = None
    /\ intent # None
    /\ comparing' = intent.view
    /\ UNCHANGED <<intent, row>>

\* The provider fails, the chain is too short or the lease is lost.
AbandonObservation ==
    /\ comparing # None
    /\ comparing' = None
    /\ UNCHANGED <<intent, row>>

Scheduled(at) == IF at = NoSchedule THEN Absent ELSE at

Required == {"multiplier", "nonce", "activation"}

\* What a source reports of a view; a read that failed reports nothing.
Reported(view, failed) ==
    [f \in Required |->
        IF f \in failed THEN Absent
        ELSE IF f = "activation" THEN Scheduled(view.activation) ELSE view[f]]

\* Only a complete snapshot can match.
SourceAgreement(intended, view, failed) ==
    IF failed = {}
    THEN CompareSources(Reported(intended, {}), Reported(view, {}), Required)
    ELSE "INCOMPLETE"

\* An unread nonce keeps the row's.
NonceWritten(view, failed) ==
    IF "nonce" \in failed THEN row.nonce ELSE view.nonce

\* Mutant of ScheduleWritten: COALESCEd like the other columns, a schedule that
\* was applied never leaves the row.
ScheduleNeverCleared(view, failed) ==
    IF "activation" \in failed \/ view.activation = NoSchedule
    THEN row.activation ELSE view.activation

\* An unread or cleared activation clears the row's.
ScheduleWritten(view, failed) ==
    IF "activation" \in failed THEN NoSchedule ELSE view.activation

\* CHAIN_SNAPSHOT_OBSERVED
RowAfterSnapshot(intended, view, failed) ==
    LET agreement == SourceAgreement(intended, view, failed) IN
    [row EXCEPT
        !.nonce = NonceWritten(view, failed),
        !.activation = ScheduleWritten(view, failed),
        !.chainAt = time,
        !.agreement = agreement,
        !.matched = IF agreement = "MATCH" THEN view ELSE None,
        !.canonical = "identity" \notin failed]

CommitObservation(view, failed) ==
    /\ comparing # None
    /\ comparing' = None
    /\ row' = RowAfterSnapshot(comparing, view, failed)
    /\ UNCHANGED intent

EvidenceNext ==
    \/ \E view \in Intendable, at \in 0..Horizon : PostIntent(view, at)
    \/ BeginObservation
    \/ AbandonObservation
    \/ \E view \in past, failed \in FailureSets : CommitObservation(view, failed)

-----------------------------------------------------------------------------

\* A row that says MATCH describes a state the asset really was in: its nonce
\* and its schedule were on chain together, never one of them from a partial
\* read.
MatchIsARealState ==
    (row # None /\ ~FreeIntents) =>
        (row.agreement = "MATCH" =>
            \E v \in past : v.nonce = row.nonce /\ v.activation = row.activation)

=============================================================================
