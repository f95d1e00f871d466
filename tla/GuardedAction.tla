--------------------------- MODULE GuardedAction ----------------------------
(***************************************************************************)
(* The authorization path end to end: the API decides from the evidence    *)
(* row and signs a receipt, the integrator holds it for as long as it      *)
(* likes, and the adapter executes it against a chain that has moved on.   *)
(*   apps/api/src/preflight-service.ts, apps/api/src/index.ts              *)
(*   packages/domain/src/preflight.ts, packages/receipts/src/signer.ts     *)
(* composed with ActionGuardAdapter (chain) and FixtureEvidence (worker,   *)
(* control plane, projection).                                             *)
(*                                                                         *)
(* The API's clock is not the chain's: an evaluation reads any instant     *)
(* within Skew of the block timestamp, which also covers the time between  *)
(* taking the instant, reading the row and returning the receipt.          *)
(***************************************************************************)
EXTENDS ActionGuardAdapter, FixtureEvidence

CONSTANTS
    GuardBefore,    \* policy.guardBeforeMs
    GuardAfter,     \* policy.guardAfterMs
    ChainMaxAge,    \* policy.chainMaxAgeMs
    Lifetime,       \* policy.receiptLifetimeMs
    Skew,           \* distance between the API's clock and block.timestamp
    ApiSigner       \* the key the API signs with

ASSUME PolicyAssumption ==
    /\ GuardBefore \in Nat
    /\ GuardAfter \in Nat
    /\ ChainMaxAge \in Nat
    /\ Lifetime \in Nat
    /\ Skew \in Nat
    /\ ApiSigner \in Signers
    /\ Lifetime <= GuardBefore

VARIABLE
    issuedUnder     \* history: the multiplier in force when a receipt was issued

vars == <<assetVars, vaultVars, adapterVars, signed, evidenceVars, issuedUnder>>

TypeOK ==
    /\ AssetTypeOK
    /\ VaultTypeOK
    /\ AdapterTypeOK
    /\ EvidenceTypeOK
    /\ issuedUnder \in [ReceiptIds -> Nat \cup {None}]

Init ==
    /\ AssetInit
    /\ VaultInit
    /\ AdapterInit
    /\ signed = {}
    /\ EvidenceInit
    /\ issuedUnder = [id \in ReceiptIds |-> None]

-----------------------------------------------------------------------------
\* evaluatePreflight

\* isStale, inclusive at the limit; a future-dated observation has age 0.
Stale(observedAt, now, limit) ==
    IF now > observedAt THEN now - observedAt >= limit ELSE limit = 0

\* Mutant of OutsideScheduledWindow: the margin before the activation is lost.
OutsideLateWindow(now) ==
    row.activation # NoSchedule => now < row.activation

\* isInGuardWindow blocks inclusively; past its end an unapplied change blocks.
OutsideScheduledWindow(now) ==
    row.activation # NoSchedule =>
        /\ ~(row.activation <= now + GuardBefore /\ now <= row.activation + GuardAfter)
        /\ ~(now > row.activation + GuardAfter)

\* Mutant of SourcesAgree: a verdict other than MISMATCH is enough.
NotMismatched == row.agreement # "MISMATCH"

SourcesAgree == row.agreement = "MATCH"

\* Every reason of the predicate that the state can raise; no reason is ALLOW.
Allows(expectedNonce, now) ==
    /\ row # None
    /\ row.canonical
    /\ ~Stale(row.apiAt, now, ApiMaxAge)
    /\ row.chainAt # None
    /\ ~Stale(row.chainAt, now, ChainMaxAge)
    /\ SourcesAgree
    /\ row.nonce = expectedNonce
    /\ OutsideScheduledWindow(now)

NewReceipt(id, op, expectedNonce, now) ==
    [id |-> id, op |-> op, nonce |-> expectedNonce,
     validAfter |-> now, validUntil |-> now + Lifetime]

\* runPreflight on ALLOW: the receipt's identifier is fresh.
IssueReceipt(id, op, expectedNonce, now) ==
    /\ time <= now + Skew
    /\ now <= time + Skew
    /\ issuedUnder[id] = None
    /\ Allows(expectedNonce, now)
    /\ signed' = signed \cup {<<NewReceipt(id, op, expectedNonce, now), ApiSigner>>}
    /\ issuedUnder' = [issuedUnder EXCEPT ![id] = effective]

-----------------------------------------------------------------------------

ChainStep ==
    /\ UNCHANGED <<signed, evidenceVars, issuedUnder>>
    /\ \/ AssetNext /\ UNCHANGED <<vaultVars, adapterVars>>
       \/ HolderNext /\ UNCHANGED <<assetVars, adapterVars>>
       \/ AdminNext /\ UNCHANGED <<assetVars, vaultVars>>
       \/ ExecuteSome /\ UNCHANGED assetVars

EvidenceStep ==
    EvidenceNext /\ UNCHANGED <<assetVars, vaultVars, adapterVars, signed, issuedUnder>>

\* The integrator's expected nonce is whatever it formed the operation against.
Preflight ==
    /\ \E id \in ReceiptIds, op \in Operations, n \in 0..MaxNonce, now \in 0..Horizon + Skew :
           IssueReceipt(id, op, n, now)
    /\ UNCHANGED <<assetVars, vaultVars, adapterVars, evidenceVars>>

Next == ChainStep \/ EvidenceStep \/ Preflight

Spec == Init /\ [][Next]_vars

-----------------------------------------------------------------------------

\* EpochSafety.  No movement runs under another multiplier than the one in
\* force when its receipt was issued.  The adapter alone cannot promise it (the
\* nonce moves when a change is scheduled, not when it is applied, and applying
\* it clears the window); it takes the preflight's guard window, the receipt's
\* lifetime and the adapter's nonce check together.
EpochSafety ==
    \A e \in executions : e.under = issuedUnder[e.receipt.id]

\* AtMostOnce.  A receipt moves funds once, however often it is submitted.
AtMostOnce ==
    \A e, f \in executions : e.receipt.id = f.receipt.id => e = f

\* The guarded action implements the one-time authorization.
Authorization == INSTANCE OneTimeAuthorization
    WITH Ids <- ReceiptIds, NotGranted <- None, epoch <- effective,
         granted <- issuedUnder, spent <- {<<e.receipt.id, e.at>> : e \in executions}

ImplementsAuthorization == Authorization!Spec

\* README.md:51: "now is outside [activation - guardWindow, activation + guardWindow]".
\* Every change that took effect has a window, and no movement runs inside it.
\* The code does not keep this: applying clears the activation the guard looks at.
OutsideEveryActivationWindow ==
    \A e \in executions, v \in past :
        v.activation # NoSchedule /\ v.nonce = e.under =>
            ~(v.activation <= e.at + config.window[1]
              /\ e.at <= v.activation + config.window[2])

\* README: "Either side missing, partial, stale, or mismatched blocks."  A
\* receipt is issued only while the newest signed intent and the newest chain
\* snapshot, taken whole, say the same.  The code does not keep this: a posted
\* intent leaves the verdict of the previous comparison in the row.
AllowOnlyOnAgreement ==
    [][issuedUnder' # issuedUnder =>
           intent.view = row.matched]_vars

\* The inductive invariant behind EpochSafety, one part per kind of state.

\* A nonce and a schedule seen together at some block: while that nonce is still
\* the current one, the schedule is still pending or has been applied.
SeenTogether(n, a) ==
    /\ n <= nonce
    /\ n = nonce => activation \in {a, NoSchedule}

\* The multiplier in force is the last scheduled one exactly when nothing pends.
EpochOrder ==
    /\ effective <= nonce
    /\ activation = NoSchedule <=> effective = nonce

PastIsSeen == \A v \in past : SeenTogether(v.nonce, v.activation)

IntentsAreSeen ==
    intent # None => SeenTogether(intent.view.nonce, intent.view.activation)

MatchedRowIsSeen ==
    row # None /\ row.agreement = "MATCH" => SeenTogether(row.nonce, row.activation)

\* A live receipt of the current nonce was issued under the multiplier still in
\* force and dies no later than the pending activation.
LiveReceiptsAreSafe ==
    \A rs \in signed :
        /\ issuedUnder[rs[1].id] # None
        /\ rs[1].nonce <= nonce
        /\ rs[1].nonce = nonce /\ time < rs[1].validUntil =>
              /\ issuedUnder[rs[1].id] = effective
              /\ activation # NoSchedule => rs[1].validUntil <= activation

ExecutedIsConsumed ==
    consumed = {e.receipt.id : e \in executions}

IInv ==
    /\ EpochOrder
    /\ PastIsSeen
    /\ IntentsAreSeen
    /\ MatchedRowIsSeen
    /\ LiveReceiptsAreSafe
    /\ ExecutedIsConsumed
    /\ EpochSafety
    /\ AtMostOnce

=============================================================================
