----------------------------- MODULE B20Receipts -----------------------------
(***************************************************************************)
(* The B20 receipt: what it binds, when it is signed, and what the chain   *)
(* and an off-chain verifier check of it.                                  *)
(*   packages/receipts/src/b20-schema.ts, b20-digest.ts, b20-signer.ts     *)
(*   contracts/src/B20GuardAdapter.sol                                     *)
(*                                                                         *)
(* A digest is the record of the fields hashed into it; a signature is the *)
(* key and the record it was made over.                                    *)
(***************************************************************************)
EXTENDS Integers, FiniteSets

SchemaVersion == 1

DigestFields ==
    {"asset", "sender", "recipient", "class", "amount", "target", "expectedMultiplier", "policy"}

OperationDigest(fields) == [name \in DigestFields |-> fields[name]]

\* What issuance is asked to sign, before the fields the re-read fills in.
ReceiptParams(op, id, issuedAt, expiresAt) ==
    [id |-> id, asset |-> op.asset, sender |-> op.sender, recipient |-> op.recipient,
     class |-> op.class, amount |-> op.amount, digest |-> OperationDigest(op),
     policy |-> op.policy, feed |-> "feed", priceBasis |-> "TOTAL_RETURN_TOKEN_PRICE",
     issuedAt |-> issuedAt, expiresAt |-> expiresAt]

\* Bound from the re-read and never from the decision it confirms.
Bind(params, reverified) ==
    [field \in DOMAIN params \cup {"schemaVersion", "multiplier", "pendingEffectiveAt", "round"} |->
        CASE field = "schemaVersion"      -> SchemaVersion
          [] field = "multiplier"         -> reverified.multiplier
          [] field = "pendingEffectiveAt" -> reverified.pendingEffectiveAt
          [] field = "round"              -> reverified.round
          [] OTHER                        -> params[field]]

HasPrice(r) == r.priceBasis # "NONE"

\* validateB20Receipt, without the shapes of addresses and hashes.
IsValid(r) ==
    /\ r.schemaVersion = SchemaVersion
    /\ r.amount > 0
    /\ r.multiplier > 0
    /\ r.expiresAt > r.issuedAt
    /\ HasPrice(r) <=> (r.round > 0 /\ r.feed # "zero")

\* Mutant: signed on the decision the caller holds.
ReadInTime(reverified, maxSeconds) == reverified.elapsed <= maxSeconds

\* The re-read has to be recent, and to say ALLOW again.
StillAllowed(reverified, maxSeconds) ==
    reverified.elapsed <= maxSeconds /\ reverified.decision = "ALLOW"

\* issueB20Receipt: {} when it refuses or throws.
Issue(params, reverified, maxSeconds) ==
    {r \in {Bind(params, reverified)} :
        /\ params.expiresAt > params.issuedAt
        /\ StillAllowed(reverified, maxSeconds)
        /\ IsValid(r)}

\* Mutant: the last second of the window belongs to it.
WithinClosed(r, time) == r.issuedAt <= time /\ time <= r.expiresAt

Within(r, time) == r.issuedAt <= time /\ time < r.expiresAt

Signed(r, key) == [receipt |-> r, key |-> key]

\* verifyB20Receipt, for the domain the receipts here are signed in.
VerifyB20Receipt(signed, expectedSigner, time) ==
    /\ signed.receipt.schemaVersion = SchemaVersion
    /\ time < signed.receipt.expiresAt /\ time >= signed.receipt.issuedAt
    /\ signed.key = expectedSigner

-----------------------------------------------------------------------------
(* The adapter.                                                            *)

\* Recomputed from the fields presented, the committed multiplier included.
ExpectedDigest(r, target) ==
    [asset |-> r.asset, sender |-> r.sender, recipient |-> r.recipient, class |-> r.class,
     amount |-> r.amount, target |-> target, expectedMultiplier |-> r.multiplier,
     policy |-> r.policy]

\* Mutant: a schedule that appeared is not looked at.
MultiplierMatches(r, chain) == chain.multiplier = r.multiplier /\ ~chain.paused

\* What a signature cannot cover.  A surface that is not dialed contradicts nothing.
ChainStateStillMatches(r, chain) ==
    /\ chain.multiplier = r.multiplier
    /\ ~chain.paused
    /\ chain.dialed => chain.effectiveAt = r.pendingEffectiveAt

\* execute: chain is what the asset answers now, adapter what the deployment is configured with.
Accepts(signed, sender, target, adapter, chain, time) ==
    LET r == signed.receipt
    IN  /\ r.schemaVersion = SchemaVersion
        /\ r.id \notin adapter.consumed
        /\ target \in adapter.targets
        /\ r.asset = adapter.asset
        /\ r.amount # 0
        /\ sender = r.sender
        /\ Within(r, time)
        /\ r.digest = ExpectedDigest(r, target)
        /\ signed.key \in adapter.signers
        /\ ChainStateStillMatches(r, chain)

=============================================================================
