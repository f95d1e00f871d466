# Corporate Action Guard: TLA+ specifications

Corporate Action Guard keeps an integrator from moving a tokenized equity across a
corporate action. Off-chain services compare what issuers publish with what chains contain,
decide, and sign short-lived receipts; on-chain adapters verify a receipt against the chain
again and only then call a vault. There are two such systems in the repository, the first for
the xStocks-shaped fixture asset and the second for B20 tokens. This directory models both,
checks them on small instances with TLC, and proves their central properties with TLAPS for
every value of the constants. `PROJECT.json` holds the map from every definition to the source
lines it models, the runs, the hazards and the theorems.

## 1. The system

### Components, state and operations

The first system:

| Component | State | Operations | Module |
|---|---|---|---|
| `FixtureAsset.sol` | multiplier, pending multiplier, nonce, activation, faucet | schedule (also overrides), apply (permissionless), faucet, ERC-20 | `CorporateActionAsset`, `ProtectedVault` |
| `ProtectedVault.sol` | credits, total | deposit and withdraw (adapter only), owner's escape `withdraw` | `ProtectedVault` |
| `ActionGuardAdapter.sol` | consumed receipts, configuration | `execute`, owner's setters, pause | `ActionGuardAdapter` |
| intent endpoint, `fixture-observer.ts`, projections | newest intent, evidence row, a cycle in progress | post an intent, begin, abandon and commit an observation | `FixtureEvidence`, `SourceComparison` |
| preflight (`preflight.ts`, `preflight-service.ts`, signer) | signed receipts | evaluate and sign | `GuardedAction` |
| idempotent commands, transactions, pool (`commands.ts`, `journal.ts`, `index.ts`) | claims, stored responses, connections | claim, replay, evaluate, commit, roll back | `IdempotentPreflight` |
| work leases (`leases.ts`, worker loop) | lease row, lease objects, renewals under way | acquire, renew, assert, release, crash, restart | `WorkLease` |
| receipt indexer and rebuild (`receipt-indexer.ts`, `reader.ts`, `journal.ts`, `projections.ts`) | cursor, journaled logs, consumed receipts, a cycle in progress | detect, read logs, stamp, commit with compensation, rebuild | `ReceiptIndexer` |
| discovery, lifecycle, incidents, reviews (`discovery.ts`, `reconcile.ts`, `lifecycle.ts`, `canonicality.ts`, `registry-diff.ts`, review endpoint) | asset row, open reviews, lease holder, a cycle in progress | list, observe, compare, recall, journal, resolve, load evidence, decide | `AssetLifecycle`, `Canonicality`, `SourceComparison` |

The second system:

| Component | State | Operations | Module |
|---|---|---|---|
| `B20FixtureAsset.sol` | multiplier, one scheduled update | set, schedule, cancel; activation by the clock, without an event | `B20Asset` |
| indexing (`indexing.ts`) | cursor with its recent hashes, journal | plan and shrink ranges, deduplicate, detect, rewind, advance | `B20Indexing`, `B20Tracking` |
| reader (`reader.ts`, `errors.ts`) | a session pinned to a block | probe capabilities, read, refuse to mix blocks | `B20Reader` |
| lifecycle reducer (`b20/lifecycle.ts`) | none | fold facts to the multiplier at a time | `B20Lifecycle` |
| correlator (`b20-correlator.ts`) | none | cases with their announcement, pause and rounds | `B20Correlation` |
| state machine (`b20-state-machine.ts`) | operational state | derive, check legality, throw | `B20StateMachine` |
| registry and identity (`b20/registry.ts`, `b20-registry.ts`) | registry entries, incident | verdict, projection, refresh | `B20Identity` |
| price freshness (`chainlink-reader`) | none | round, sequencer, verdict per class of action | `B20Price` |
| preflight, intents, receipts, adapter (`b20/preflight.ts`, `b20-idempotency.ts`, `b20-signer.ts`, `B20GuardAdapter.sol`) | intents, receipts, executions, configuration | claim, decide, record, read again, sign, attach, deliver, execute | `B20Preflight`, `B20Receipts`, `B20Requests` |
| quantities and valuation (`quantities.ts`, `arithmetic.ts`, `derivation.ts`) | none | shares, raw amounts, two routes to a value | `B20Quantities` |
| equity ledger (`postings.ts`) | entries | post, restate, correct, deduplicate, project | `EquityLedger` |
| conformance suite (`scenarios.ts`, `runner.ts`, `reference.ts`) | the adapter under test | reset, ingest, advance, ask | `ReferenceAdapter`, `Conformance` |

Readers' clients, the SDK, the explainer, the console and the scripts keep no protocol state;
section 8 says what is left out of each.

### How they interact

    fixture admin --intent--> API --journal--> current_assets row <--snapshot-- worker <--reads-- chain
                                                |    |                            | (under a lease)
                    operator --resolve--> reviews    |                            `--reads-- registry
    integrator --preflight--> API ----decide---------+
        |                      `--sign--> receipt
        `----receipt--> adapter.execute --> vault --> token <--- schedule / apply

    B20 token --logs--> indexer --facts--> lifecycle --> correlator --> state machine
        |  feed, sequencer, registry                 `--> ledger, valuation
        `--reads--> decide --record--> intent --read again, sign--> receipt --> B20 adapter

The evidence row is shared: the API writes it when an intent is posted, the worker writes it
when an observation commits, and the preflight reads it, and the reviews beside it, separately.
Everything else passes as a message that may be used much later: the intent the worker read,
the receipt the integrator holds. The chain moves on meanwhile.

### What is hard

- The nonce moves when a change is *scheduled*, the multiplier when it is *applied*. The
  adapter's nonce check alone therefore does not separate the two multipliers. A B20 update
  takes effect by the clock: no event marks it, and what was indexed must be asked *when*.
- Transactions on one row, of which some work on values read long before; a preflight that
  reads the row and its reviews one after the other.
- Observations that fail in part, clocks that disagree, windows with inclusive ends.
- Workers that stall, die, restart under the same name, renew late, and are superseded between
  any two reads of a cycle.
- Clients that retry, race themselves, and lose responses; a transaction that needs a second
  connection from the pool its first one came from; a process that dies after it signed.
- A chain whose blocks are replaced above and below the cursor, while logs that were journaled
  once may come back, and ranges the provider refuses are asked for again in halves.
- Credits, stray transfers, an escape hatch and guarded withdrawals on one balance.
- Floors that are taken at each conversion, and entries that come late, twice or corrected.

## 2. The modules

### The first system

**`CorporateActionAsset`** is the asset as the guard sees it. A multiplier is represented
by the nonce of the schedule that introduced it: `effective` is the one in force, `nonce`
the last scheduled one. `past` collects every view a block has shown, which is what an
observer pinned to a confirmed block can read.

**`ProtectedVault`** is the token ledger, the faucet and the vault. A revert leaves no
trace, so a reverting branch is an action that is not enabled.

**`ActionGuardAdapter`** is `execute`, its refusals as named guards, and the owner's
calls. `signed` holds every receipt a key signed; the module says nothing about how.
`executions` is a history of what ran, when, and under which multiplier.

**`SourceComparison`** and **`FixtureEvidence`** are the evidence row and its two writers.
`comparing` is what a worker cycle has read and not yet committed. `FailureSets` lists
which reads may fail together. The row keeps, besides the columns, the view a `MATCH` was
computed from (`matched`), which stands for `comparison_fields`.

**`GuardedAction`** composes all of them with the preflight decision. `Allows` is the
conjunction of every reason of the predicate that state can raise; the reasons about the
shape of the request (chain, target, type, zero values, registry addresses) concern inputs
fixed to pass, and the manual review is in `AssetLifecycle`. `issuedUnder` remembers the
multiplier in force at issuance.

**`OneTimeAuthorization`** is the abstract specification: an authorization is granted
under one multiplier and spent at most once, under that same multiplier.

**`GuardedVault`** composes the adapter and the vault with a signer that signs anything of
`Signable`, one identifier for two operations included. Accounts are finitely many, as
everything on a chain is, so that what they hold can be added up.

**`WorkLease`** keeps expiry as the time left. A renewal has a start and an end, because
`now()` of a statement that waits for a row lock is the time it was sent; `lost` is
`renewalError`. A write transaction begins with `assertLeaseHeld(client, lease, true)`,
whose row lock blocks everybody else's statement on that row until the commit. A worker
that dies may be started again under the same identity.

**`IdempotentPreflight`** takes one HTTP attempt through `withTransaction`: connection and
`BEGIN`, the claim (which waits for an uncommitted insert of the key), the evidence query
on a *second* connection, the decision, and the commit of journal, projection and stored
response. Any step may fail and roll back.

**`OneOutcomePerKey`** is the abstract specification of an idempotency key, for both systems: for
each key a question, a decision and a receipt, each a cell that is written once and then stays,
a receipt that no other key has, given out only when it is recorded and used once.
`IdempotentPreflight` implements it with one transaction that settles a key at once, and
`B20Requests` with a row whose columns are written by statements of different processes.

**`ReceiptIndexer`** takes one cycle read by read: the head and the cursor row, the hash under
the cursor, the logs chunk by chunk, the stamp of the block the cursor will name, and the
transaction that compensates, journals, projects and moves the cursor. A block is known by its
height and the branch it was mined on, which stand for its hash. `recorded` is the block number
a log's journal row keeps, `status` the log a receipt is consumed by, `journal` what each
transaction appended. The rows a compensation names are read before the transaction in the
code; only the indexer writes them and cycles run one at a time (`WorkLease`), so the model
reads them at the commit. What a cycle has found is the set of logs with their heights, since
a block has one log of the adapter at most. A cycle that fails leaves nothing behind.

**`Canonicality`** and **`AssetLifecycle`** are discovery. A cycle lists the asset in the
registry, observes the chain with some reads failing, reads the registry's multiplier, recalls
the row and the open reviews, and journals everything in one transaction under its lease: the
agreement, the derived lifecycle state, the reasons, the reviews they open. Between any two of
these another worker may take the lease, an operator resolve a review, and a preflight read the
row, then the reviews, then decide. `row.whole` and `row.reviewsRead` are history: whether the
comparison rests on every read, and how many reviews had been resolved when the cycle read them.
The table of legal transitions is in the code and is not consulted by the worker; the model does
as the worker does.

### The second system

**`B20Asset`**, **`B20Lifecycle`**, **`B20Indexing`**, **`B20Reader`**, **`B20Correlation`**
and **`B20StateMachine`** are the pure functions of their sources: a contract call with the logs
it emits, the fold of facts to epochs and a pending update, ranges, identity, rewinds and the
cursor, a session with its capabilities, cases, and the transition function. **`B20Tracking`**
composes them with a chain that replaces blocks. The repository has these functions and no loop
that calls them; the loop of the model is the one their comments describe: plan a range, halve
it when refused, journal what is new, advance, and rewind or halt when the hashes disagree. A
block's timestamp is its height. Facts and journaled logs are sets: the code sorts them before
it reads them, and `Read` takes them in `FactBefore`'s order.

**`B20Identity`**, **`B20Price`**, **`B20Preflight`** and **`B20Receipts`** are the verdict on
an address, on a round and on an operation, and what a receipt binds; **`B20Requests`** composes
them: two processes serve requests under one idempotency key, step by step from the claim to
the delivery, a process may leave at any of them, and everything else changes between any two.
What changes is split in two: `world` is what the head of the chain has (token, feed, sequencer),
and `views` its history, block by block; `notices` is what no block shows (manifest, pairing,
calendar, issuer). A session is pinned to the block that has its `Confirmations` when it is
opened (`Confirmed`) and stays comparable while the chain moves on; what is off the chain is read
with the feed's session, and what a session asks of the feed may go unanswered until it is
decided on (`reachable`). Issuing has four steps, one for each await of the caller's `reverify`
and of `issueB20Receipt`: `BeginIssue` fixes the start of the receipt's validity and opens the
feed's session, `ReadToken` the token's, `Reverify` decides again and binds the receipt, and
`Sign` is the signer's answer. The elapsed time that is compared with the window
(`b20-signer.ts:122`) ends with the re-read and not with the signature. The adapter reads the
head. These are packages: no server route calls them, and their order is the one
`b20-idempotency.ts` gives; that `issuedAt` is fixed before the re-read, as its parameter of
`issueB20Receipt` suggests, is the model's. `permitted` (the time of the block an operation was
permitted at) and `executed` are histories. `Worlds` and `Notices` are what the reads can find, and
the assumptions `Seconds` and `Readings` say what kind of thing a bound and a reading is. The B20
vault's accounting is that of `ProtectedVault` and is not repeated.

**`B20Quantities`** is the arithmetic with every floor, `10^18` and the caps being constants.
**`EquityLedger`** folds entries delivered in any order, more than once, under new ids, with
mistakes and corrections, and compares the positions with the chain's history. `Spendable` is
what an account can move: a holder its balance, and issuance what the supply cap leaves. A
fact that would break the cap, or overflow a conversion, does not happen on the chain.

**`ReferenceAdapter`** is the smallest correct integration with its eight one-line bugs, and
**`Conformance`** plays the fifteen scenarios into it. `B20Tracking` also uses the reference as
a second implementation of the lifecycle.

The `MC*` modules hold the instances' sets; the `*_proof` modules hold theorems only.

### Abstractions worth knowing

- Signatures and digests are the fields they cover: a receipt nobody signed cannot be
  presented. Addresses, chain identifiers and schema versions that are constant in a
  deployment are not state.
- One unit of time serves seconds and milliseconds in the first system. Flooring to seconds in
  the receipt only shortens its life at both ends, within `Skew`. `B20Requests` is in seconds
  that pass by whole `Tick`s, each of them a block; other blocks may come between. A chain that
  makes no block for longer than that leaves what is confirmed further behind than `Lag`
  (`Confirmations * Tick`): the properties that name `Lag` assume a block at least every `Tick`.
- A refresh of the B20 registry that the node does not answer counts as one of the bounded events.
- An observation that repeats one of the same minute is deduplicated by the journal and
  stamps the row with the *earlier* instant. The model stamps the commit's instant. Older
  evidence only blocks more, so what the model can issue includes what the code can.
- A worker reads the confirmed block somewhere in the past: any view of `past`.
- `AssetLifecycle` leaves out the age of evidence and the multiplier nonce, which
  `GuardedAction` has: a preflight there allows at any age. The registry and the token may
  answer each read with any view of them.
- The receipt indexer's chain never returns to a branch it left, and forks no deeper below the
  cursor than a rewind reaches: the confirmation depth, or the adapter's deployment.
  `Relocation` and `TornReads` are `FALSE` where the indexer is shown to be right: a log mined
  again stays at its height, and while a cycle runs only blocks above the one it confirmed
  change. The code ensures neither, and without either both `FollowsChain` and
  `RebuildInventsNothing` fail: see disagreements 5 and 6. A receipt is issued and projected before
  the chain can consume it, and a block has at most one log.
- With `Unseen` `FALSE`, as in the run and in the theorems, the B20 chain replaces no indexed
  block whose hash the cursor no longer keeps: see disagreement 12.
- A fact of the ledger is in one block: a movement mined again in another is in no run, nor is a
  restatement that was first posted with the right multiplier and a wrong amount (disagreement
  11). Journaled B20 logs are a set and a range is answered from one branch, so a provider that
  returns a log twice or mixes branches is not exercised.
- Numbers are scaled (`Wad` is 4 in the ledger's run, 10000 in the conformance suite) and keep
  the ratios the code's have.
- `None`, `Absent` stand for SQL `NULL` and `undefined`.

## 3. The runs

All twelve pass.

| Run | Instance | Shows |
|---|---|---|
| `guarded_action` | two changes, so that a pending one can be overridden; one receipt, `Horizon` 3, partial failures, `Skew` 1, window before = lifetime = 2 | `EpochSafety`, the inductive invariant `IInv`, `MatchIsARealState`, the refinement of `OneTimeAuthorization` |
| `guarded_action_operated` | one change; the owner's calls and the holders' own transfers, faucet and escapes | `AtMostOnce` |
| `guarded_vault` | two accounts, two identifiers of which one is signed for two operations, two keys, one reconfiguration, stray transfers | `Solvent`, `OwedByReceipts`, `OnlyOwnerDebited` |
| `work_lease` | two workers, three acquisitions, TTL 1 | `FencingInv`, `OnlyNewestActs`, `LeaseRecovers` |
| `idempotent_preflight` | attempt, retry, other body, other key; pool 5 | `OneAnswerPerKey`, `EveryReceiptJournaled`, `EveryRequestEnds`, the refinement of `OneOutcomePerKey` |
| `receipt_indexer` | three logs of two receipts, deployment at 2, height 4, two reorganisations, depth 1, one block per call, one failed cycle | `FollowsChain`, `RebuildInventsNothing`, `CatchesUp` |
| `asset_lifecycle` | two workers, a token with a pending change and a registry that announces it or not, reads that fail, one resolution, a preflight | `ReviewIsRecorded`, `RecoveryIsObserved`, `AllowIsCurrent` |
| `asset_dispute` | one worker, a registry that may be a multiplier ahead or name a foreign wrapper | `DisagreementIsReviewed`, `DisputeSettles` |
| `b20_tracking` | height 3, four blocks ever mined, a lookback of 2, only blocks with a kept hash replaced, ranges of 2 that may be halved, one new multiplier to set, schedule, cancel and override; evaluations with whole evidence or one of two defects, and `VerifiedIsComplete` with each of the eleven besides | `DerivedFollowsChain`, `ReferenceAgrees`, `VerifiedIsComplete`, `WindowIsHeld`, `CatchesUp` |
| `b20_requests` | two callers, one key, two amounts; fourteen setups, one healthy and thirteen with one flaw; one change to the world; one confirmation; 600 s in ticks of 300, a window of 1200 s, updates 600 or 1500 s ahead | `AnsweredAsAsked`, `OneExecution`, `AllowMeansPermitted`, `ExecutedOnRecentAllow`, `ActivationIsFar`, `OffChainAgrees`, the refinement of `OneOutcomePerKey` |
| `equity_ledger` | two holders, three facts, four deliveries, one mistake, multipliers of a half and one and a half | `LedgerFollowsChain`, `ValueIsWhole`, `RoutesReconcile`, `PastIsFixed` |
| `conformance` | fifteen scenarios, the reference and each of the eight bugs, both orders | `SuiteDiscriminates` |

**Why these bounds are enough to see something.** `Horizon` 3 with a window and a lifetime of 2
leaves room to decide before a window, to schedule, apply and execute after it; a receipt lives
exactly as long as the window's first half, the tightest value the theorem allows, and two nonces
are needed for an override. Two workers and three acquisitions are enough for a stall, a takeover
and a return of the first; the token restarts after the first release. Three attempts of one key
cover a race, a retry and a conflict at once; a fourth of another key competes for connections
only. Two reorganisations are what it takes to consume, take back and consume again; height 4
with depth 1 leaves a block below the rewind point whose receipt must not be taken back, a chain
that shrinks below its cursor, and one that lacks the block a rewind goes to. Two workers on one
asset are enough for one to write between another's reads, and one resolution for a review to end
between them. Three B20 blocks with a fourth mined in place of one hold a schedule, its
cancellation or override, and an activation without an event, on either side of a reorganisation.
Height 4 with six hashes takes longer than a run should, and shows no more (`DerivedFollowsChain`
holds in its 1.4 million states). In `b20_requests` the flaw a setup starts with counts as its
change, so that the healthy one is the one that changes while requests are served. 600 s is a
receipt's whole life; one confirmation and a change in a block of its own leave the re-read
comparable and late, the signature after a change that the re-read did not see, and a receipt
executed longer than its life after the block it was permitted at, so that `Lag` is needed. A
window of 1200 s is twice that life, an update 600 s ahead falls inside it and one 1500 s ahead
is still pending at an execution. One key is enough for two processes to meet on one row; that
two keys never share a receipt, which that instance cannot show, is part of the theorem, and
`idempotent_preflight` has two keys. Three facts hold a movement on either side of an activation,
and four deliveries a repeat or a correction. Every guard named in the mutants is found to matter
within these bounds. What the bounds leave open for the safety properties, the theorems of
section 5 close in part.

`AssetLifecycle` and `asset_dispute` share one specification: the first instance has what only
two workers can do, and the second what only fairness can show. Callers and holders are
symmetric, and the runs that use that check no liveness.

Deadlock is checked in every run but two: `equity_ledger`, where the bounded deliveries run out,
and `conformance`, where the suite ends. `Done` in `IdempotentPreflight` says that a state
where all attempts are over is a proper end; the other models always have a step, a tick or a
stuttering cycle, or a post that repeats the newest intent.

Every property has a mutant: a plausible bug in one mapped definition under which TLC finds
that property violated (`PROJECT.json`, "mutants"; the mutated operators stand before
the definition they replace).

## 4. Liveness and fairness

- `WorkLease`: weak fairness on the passage of time and on each live worker's loop, which
  the worker's `for(;;)` provides. Nothing is assumed of renewals, crashes and restarts.
  `LeaseRecovers` is bounded by `MaxGrants`: at the bound nobody can acquire. Fairness of the
  loop assumes that the work of a cycle ends. Work that hangs while its timer still runs
  keeps the lease, and the code has no bound on it.
- `IdempotentPreflight`: weak fairness on the server's side of each attempt: Node and
  PostgreSQL continue what can continue. Sending and failing are not fair. With a pool of at
  least one connection more than there are concurrent transactions every request ends; with as
  many transactions as connections it does not (disagreement 3).
- `ReceiptIndexer`: weak fairness on the cycle's steps, which the worker's loop provides.
  `CatchesUp` is about a chain that stands still from some point on, as the bounds make it.
  Provider failures are bounded by `MaxFailures`: a provider that never answers is not excluded
  by the code, and then nothing is indexed.
- `AssetLifecycle`: weak fairness on a worker's cycle, and strong fairness on each of its
  steps with every read answered: providers fail, but again and again a whole cycle runs
  through. `DisagreementIsReviewed` and `DisputeSettles` assume besides that the lease stays
  where it is from some point on and that what the sources say does not change for good; neither
  assumes that an operator acts.
- `B20Tracking`: weak fairness on the indexer's step. `CatchesUp` leaves out the two cases the
  code gives up on: a reorganisation it reports, and a chain that is now shorter than its cursor.
- `B20Requests`: no liveness is checked. Its `FairSpec` (weak fairness on each process that
  lives) serves to reproduce disagreement 10.
- The guarded action promises nothing eventually: an integrator may never submit.

## 5. What is proved

All theorems hold for every set of accounts, keys, receipts, operations, workers, attempts,
views, amounts and prices, and every bound.

**`GuardedAction_proof`.** `TypeInvariant`; `InductiveInvariant`; `NoEpochCrossing`
(`EpochSafety`); `RefinesAuthorization` (`Spec => Authorization!Spec`); `ReceiptUsedOnce`
(`AtMostOnce`); `MatchesAreReal` (`MatchIsARealState`).

*Argument.* `EpochSafety` says of each movement that the multiplier it ran under is the one
its receipt was issued under. It is not inductive: nothing in it says why a live receipt
cannot outlast a change. The strengthening `IInv` says:

1. `EpochOrder`: nothing pends exactly when the last scheduled multiplier is in force.
2. `PastIsSeen`, `IntentsAreSeen`, `MatchedRowIsSeen`: a nonce and an activation that were
   seen together, in a block, an intent or a `MATCH` row, either belong to an older nonce, or
   that change is still pending at that activation or has been applied. The one case to worry
   about, a row that knows the current nonce and thinks nothing pends while something does,
   is excluded.
3. `LiveReceiptsAreSafe`: a receipt of the current nonce that has not expired was issued
   under the multiplier in force, and expires no later than the pending activation. At
   issuance this is the predicate's guard window together with `Lifetime <= GuardBefore`;
   scheduling moves the nonce past the receipt; applying needs `time >= activation`, when it
   has expired.

Then `execute`, which requires the current nonce and a live receipt, runs under the right
multiplier. The adapter's own guard window is not used at all for this property: it is a second
line of defence. `MatchIsARealState` needs its own invariant: the row's `matched` and that of a
cycle in progress are views of `past`, which only grows.

*Assumptions.* `PolicyAssumption` includes `Lifetime <= GuardBefore` (five and fifteen
minutes in `apps/api/src/index.ts`). `~FreeIntents`: an intent restates a view the chain has
shown. With `FreeIntents = TRUE` the property fails, and TLC shows it with one change: an
intent naming the new nonce without its pending schedule, posted beside the `MATCH` of the old
nonce, makes the row claim the new nonce with no window. It takes a fixture admin who signs
something the chain does not say, and disagreement 1.

**`Database_proof`.** The two protocols that `packages/db` keeps in rows, in one module:
`IdempotentPreflight` and `WorkLease`, whose `LeaseSpec` shares no name with the other.

`ClaimsHold`; `RetriesAgree` (`OneAnswerPerKey`); `NoStrayReceipt` (`EveryReceiptJournaled`).
`ClaimInv` says that an open claim is exclusive and its key has nothing stored, and that what is
stored, journaled and answered is the same decision.

`RefinesOneOutcome` (`ImplementsOneOutcome`): what is stored under a key maps to its question
and its decision, the journal's receipts of that key to its receipt, and the keys whose clients
were told `ALLOW` to those given out. Every step but the commit and the answer of a stored
response leaves all of it as it was. A commit settles its key: nothing was stored under it
(`ClaimsAreExclusive`), so nothing of it was in the journal either, and the receipt that is
journaled belongs to the attempt that committed, which has one key. A stored response gives out
what is recorded.

`LeaseTypes`; `FencingHolds`; `StaleWorkersDoNothing` (`OnlyNewestActs`). `FencingInv` says that
a session that matches the row is the newest acquisition, and that a writer matches it. Although
tokens repeat after a release, owner and token together identify the session, because a process
drops its lease object before it acquires again.

**`AssetLifecycle_proof`.** `LifecycleTypeOK`; `ReviewsAreRecorded`; `RecoveriesAreObserved`;
`AllowsAreCurrent`.

*Argument.* Only the worker that holds the lease writes, and a worker takes the lease only
between cycles. Since the holder read the reviews, none can therefore have been opened: they
are at most resolved. A cycle of a worker that has lost the lease may carry any view, and never
writes it. The invariant says this in parts: `OpenIsRecorded` (`ReviewIsRecorded`, with the row
it speaks of), `HolderKnows` (if a review is open, the holder's cycle has read one),
`ReadIsOpenOrResolved` (a review that a cycle has read is open, or one was resolved since),
`RowReviewed` (a disagreement the row records is under review, or a review was resolved since
the cycle that recorded it read them), `CycleViews` (a cycle that read the token without a
failure has its multiplier) and `EvaluatedRow` (a preflight under way has found a row).

*Assumptions.* A recorded view is a multiplier and a schedule, the first of them never absent
(`LifecycleAssumption`); `None` is no row (`NoneAssumption`). That the lease admits one holder at
a time is built in, and is `OnlyNewestActs` above.

**`GuardedVault_proof`.** `VaultInvariant`; `VaultStaysSolvent` (`Solvent`); `CreditIsBacked`
(`OwedByReceipts`); `DebitsAreTheOwners` (`OnlyOwnerDebited`).

*Argument.* The first two compare sums: the credits with the total and the total with the
balance, the total with what the consumed receipts brought in and took out. The library defines
a sum by a recursive function over subsets, and its induction theorems take an operator, which
the provers cannot instantiate. The proofs use well-foundedness of strict inclusion instead, as
a statement about sets (`LeastSubset`): of the subsets where something fails there is a least
one. From this follow that the recursion has a solution, that any member may be taken out first
(`SumTakes`), and what a sum does when one entry changes (`SumRaised`). Each step of the vault
moves one credit and the total by the same amount, and consumes at most one receipt.
`OnlyOwnerDebited` follows step by step from the guards: an adapter's withdrawal is bound to the
account the receipt names, and the escape to the caller.

**`ReceiptIndexer_proof`.** `IndexerInvariant`; `IndexerFollowsChain` (`FollowsChain`);
`RebuildsInventNothing` (`RebuildInventsNothing`). All three assume `Settled`: a log that is
mined again keeps its height, and the blocks a cycle reads do not change while it reads them. The
code ensures neither. Without either it does not follow the chain, and a rebuild may consume a
receipt that the tables have not (disagreements 5 and 6): the theorems say what the indexer does
on a chain that spares it both, and are no promise beyond.

*Argument.* `FollowsChain` speaks of a cursor whose block is still there and is not inductive: a
replaced block is noticed one cycle later, and meanwhile the tables are wrong. The invariant has
two levels. Up to the block a rewind goes back to (`Kept`) the tables agree with the chain
whatever happened; up to the cursor they do while its block is there (`CursorHolds`). A block
that was replaced never looks like the one that was: its branch is older than the one new blocks
are mined on. `CycleHolds` says that a cycle continues from one of the two levels (`Base`) and
has found what the chain has from there on, so that `Commit` continues tables that are right.
For the rebuild no more is needed: a log is journaled once, so a transaction that consumes a
receipt in the journal is one that consumes it in the table (`CommitInventsNothing`). That a
rebuild applies one transaction after the other (`RebuiltGrows`) is proved of the library's
fold, with `LeastSubset`.

**`B20Requests_proof`.** `RequestInvariant`; `AnswersAreOwn` (`AnsweredAsAsked`);
`IntentsExecuteOnce` (`OneExecution`); `AllowsAreWarranted` (`AllowMeansPermitted`);
`ExecutionsAreRecent` (`ExecutedOnRecentAllow`); `ActivationsAreFar` (`ActivationIsFar`);
`VerifierAgrees` (`OffChainAgrees`); `RefinesOneOutcome` (`ImplementsOneOutcome`).

*Argument.* In two halves. An `ALLOW` is about a block: the two sessions it rests on must be
pinned to the same one (`OneBlock`), and what either read is what that block shows;
`AllowIsPermitted` then follows the decision's reasons one by one, for any world of `Worlds`. A
receipt is about that block (`Bound`): its operation was permitted there, nothing was scheduled
inside the window, and the block is behind the start of the receipt's validity by no more than
the confirmations, because validity starts no later than the moment the two sessions are opened
(`Reading`) and the chain's history keeps its times (`HistoryHolds`). Nothing is said of what the
world has become when the signer answers, and the proof does not need it: the receipt's life
bounds how long it can be used, and the adapter compares multiplier, pause and schedule with the
head. So `ExecutionsAreRecent` does not say that an operation was permitted when it was signed,
which the code does not keep (disagreement 14). The row of an intent names one receipt for good,
and only a receipt its row names gets out (`Serving`, `Holding`, `DeliveredHold`); the adapter
consumes an identifier once (`ExecutedHold`).

For `RefinesOneOutcome` the columns of a row map to the three cells of its key, the keys one of
whose receipts was delivered to those given out, and those whose receipt the adapter consumed to
those spent. The proof adds one invariant (`Apart`): a row that is pending has no decision, and
no row names an identifier that has not been taken yet (`RowsInOrder`); no receipt is named by
two rows (`OneKeyEach`); a receipt that a process has bound or signed and not yet attached is
named by no row and held by no other process (`SignedAreApart`); what was consumed some row names
(`ConsumedAreNamed`). Binding takes the next identifier, so the first three go on, whatever
processes die in between. One lemma for each action shows its abstract step: claiming asks,
recording decides, attaching issues, delivering gives out, executing spends, and everything else
changes none of it. A receipt that was signed and comes second is dropped and is no step at all.

*Assumptions.* `Seconds`: time, the feed's grace, the guard window and a receipt's life are
seconds, and time passes. `Readings`: `None` is none of the values it stands beside, decisions
and operations included, and the worlds to start in are of `Worlds`.

**`B20Tracking_proof`.** `TrackingInvariant`; `MultipliersFollowChain` (`DerivedFollowsChain`);
`WindowStaysHeld` (`WindowIsHeld`); `ImplementationsAgree` (`ReferenceAgrees`);
`VerifiedOnWholeEvidence` (`VerifiedIsComplete`).

*Argument.* What the indexer holds need not be on the chain, and it cannot tell. The invariant
says that it is *some* branch (`Branch`): one block for each height up to the cursor, whose logs
are exactly the facts that still count. The branch may differ from the chain only at heights
whose hashes are kept, and a hash says everything below it, so a round that finds no fork among
the kept hashes has the chain's own blocks, and a tip still on the chain (`TipAgrees`) has the
chain's logs below it (`TipHeld`). `JournalHolds` says that a block once taken back never comes
back: new blocks have new hashes. The second half reads the logs. The library folds a set by a
recursive function on its subsets; `LeastSubset` gives that there is one (`FoldExists`), and
`ReadGrows` that the last fact may be read last. Block by block (`BlockReads`) the reading tells
what the contract stores (`Tells`), the legacy half of each emission being folded, and comparing
the schedule with the evaluated moment makes of it what the contract answers (`DerivedIs`).
Inside the window therefore every reading of the schedule, from the facts or from the contract,
is the contract's (`PendingIsContracts`), and of the five concerns of the state machine the first
to speak is one of the first three, none of which leads to `NORMAL` or `VERIFIED`.
`VerifiedIsComplete` needs no chain: only the last concern leads to `VERIFIED`
(`OnlyAgreedVerifies`), and a hole makes the first or the fourth speak (`HolesAreTold`). That the
reference and the reducer agree needs the branch again, not the chain: on the logs of any branch
the reference, which keeps one state and applies what it is fed in order, is shown block by block
(`BlockIsFed`) to hold the schedule the contract on that branch holds, and its multiplier once an
epoch was read (`FeedingFollows`); the reducer is shown to read the same, and the two settle by
the clock alike, the one by opening an epoch and the other by asking at an instant (`BothAgree`).
So they agree also while the facts are those of a branch the chain has left.

*Assumptions.* `~Unseen` for the first four: with `Unseen = TRUE` the facts do not follow the
chain (disagreement 12). `VerifiedOnWholeEvidence` assumes nothing: `VerifiedIsComplete` is about
evidence with one of the eleven `Holes`, whatever else is missing. A missing announcement, an
unseen pause and an untyped change alone do not keep an asset from being verified, nor does the
code say they should. `Bounds` says that the width of a range is positive and that `None` is none
of the values it stands beside.

**`EquityLedger_proof`.** What the floors cost: `RoundTripIsBounded`, a raw amount converted to
shares and back does not grow, and loses less than `Wad / multiplier + 1` units; `SharesAddUp`,
two amounts converted apart lose at most one share against their sum; `RoutesAgreeUpToFloors`,
the two routes to a value differ by less than `shares + price + 1`; `RoutesAgree`, within the
code's tolerance, for a derived price. And the ledger: `ChainStaysWithinCap`;
`RoutesReconcileOnEveryBalance` (`RoutesReconcile`); `LedgerInvariant`; `PastStaysFixed`
(`PastIsFixed`); `PositionsFollowChain` (`LedgerFollowsChain`); `ValuesAreWhole`
(`ValueIsWhole`).

*Argument.* The chain first: at every point of its history balances are within the supply cap,
so no conversion overflows (`ChainHolds`). Then the deliveries: `LedgerHolds` says that each is
`Known`, a movement or a restatement as some fact has it, a mistake, a phantom of which the
chain has no fact, or the correction of an earlier one. Each entry posts two sides that cancel,
so whatever is delivered conserves (`Conserved`). A position is a sum over the entries kept, and
what has to be shown is that it is the sum over the facts. Of every fact about a holder exactly
one entry is kept, however often it came and under whichever id (`FactsAreKept`); mistakes and
phantoms are kept in pairs with their corrections and cancel (`MistakesAreTakenBack`,
`MistakesCancel`). So raw amounts follow exactly. Shares follow up to the floors: each entry
posts what the holder's shares change by to within one unit (`PostedIsChange`), and the changes
telescope along the history (`SumTelescopes`). `PastIsFixed` holds because a repeat or a later
entry changes nothing that is dated before (`RepeatsChangeNothing`). The lemmas about sums are
those of the vault, of integers, with a sum split by a partition, reindexed and scaled.

*Assumptions.* `Scales` and `LedgerAssumption`: `Wad` is positive; holders are finitely many;
amounts and multipliers are positive and at most `MaxRaw`, whose square is at most `MaxProduct`,
as `uint128` and `uint256` have it.

**Only model-checked.** Liveness (`LeaseRecovers`, `EveryRequestEnds`, both `CatchesUp`,
`DisagreementIsReviewed`, `DisputeSettles`), which the provers cannot treat. `SuiteDiscriminates`,
an evaluation of fifteen given scenarios: nothing in it is a parameter, and a proof would only
repeat the evaluation, through recursions the provers would have to unfold step by step. What a
fold computes is proved where the facts are those of one branch (`B20Tracking_proof`) or of one
history (`EquityLedger_proof`); over *any* list of facts, legal or not, it is an induction over
data.

## 6. Disagreements between the code and its documents

Each is reproduced with TLC by checking the named definition on the named instance, with the
change that is given: `AllowOnlyOnAgreement`, `EveryRequestEnds`, `PendingIsRetried`,
`NormalAfterReviewIsWhole` and `PermittedWhenSigned` as a PROPERTY, the others as an
INVARIANT. None of them is a run of its own.

1. **A receipt can be issued on an agreement that is no longer current**
   (`AllowOnlyOnAgreement`, `GuardedAction.cfg`). A posted intent overwrites the nonce and the
   schedule and leaves the verdict of the previous comparison
   (`packages/db/src/projections.ts:39`). README lines 85-86 say either side mismatched blocks.
2. **The window's second half ends with the application** (`OutsideEveryActivationWindow`,
   `GuardedAction.cfg`). README line 51 has a window on both sides of every activation; applying
   clears the activation both the adapter and the predicate look at (`FixtureAsset.sol:135`).
3. **Ten concurrent preflights stop the API** (`EveryRequestEnds`, `IdempotentPreflight.cfg` with
   `PoolSize = 2`): each waits, inside its transaction, for a second connection of the pool that
   they hold (`apps/api/src/index.ts:25`).
4. **A rebuild does not reproduce the consumed receipts** (`RebuildReproduces`,
   `ReceiptIndexer.cfg`). A log read again after a rewind is deduplicated and projected live, but
   the journal has it only before the compensation (`packages/db/src/projections.ts:334`). It
   happens on every rewind that passes a consumed receipt, also when the chain merely seemed
   shorter for one cycle. `docs/evidence-journal.md` line 61 says the rebuild reproduces the same
   result. What is kept is `RebuildInventsNothing`.
5. **A fork between the logs and the stamp goes unnoticed** (`FollowsChain`,
   `ReceiptIndexer.cfg` with `TornReads = TRUE`): the cursor carries the new branch's hash over
   what was read of the old one (`receipt-indexer.ts:106`). `RebuildInventsNothing` fails with it.
6. **A log mined again at a greater height cannot be taken back between the two heights**
   (`FollowsChain`, `ReceiptIndexer.cfg` with `Relocation = TRUE`). Its journal row keeps the
   first block number, by which the compensation selects. `RebuildInventsNothing` fails with it:
   the rebuilt table may have a consumption the live one has not.
7. **The fencing token is not monotonic**: a release deletes the row, so the next acquisition
   starts at 1, while `leases.ts` line 18 calls it monotonic per key. Harmless as used:
   `StaleWorkersDoNothing` is proved with the token as it is.
8. **Missing evidence can be recorded as a match** (`NoImplicitMatch`, `AssetLifecycle.cfg`): a
   schedule that neither source reported, because the read of one failed, counts as agreement
   (`packages/domain/src/sources.ts:27-51`, `discovery.ts:239`). ADR 0002 says missing evidence
   can never become an implicit match. Such a match makes no asset `RECOVERED`
   (`RecoveryIsObserved` holds), but once an operator has resolved a review it takes the asset
   from `MANUAL_REVIEW` to `NORMAL` (`NormalAfterReviewIsWhole` fails).
9. **From `VERIFIED` nothing leads to `INSUFFICIENT_EVIDENCE`** (`MissingLeadsAway`,
   `B20Tracking.cfg` with `FlawSets <- MCUnreachable`): the transition is illegal and thrown, and
   the asset stays verified with its node unreachable. `b20-state-machine.ts` lines 6-11 say the
   hole leads away from `VERIFIED`.
10. **A pending intent stays pending** (`PendingIsRetried` under `FairSpec`, `B20Requests.cfg` with
    `Setups <- MCHealthy` and without its symmetry).
    `0009_b20_preflight_idempotency.sql` lines 37-38 call a pending row a crash to be retried;
    `b20-idempotency.ts` lines 153-155 answer whoever asks again that it is in progress.
11. **A correction of a movement is dropped as a repeat** (`CorrectionSurvives`,
    `EquityLedger.cfg`): its identity is its original's transaction. `postings.ts` lines 20-21
    and 424 say every distinct entry is kept. Nor can a restatement that was wrong in its amount
    alone be replaced (`ReplacementCounts`), or the entry of a movement that was mined again in
    another block be taken back, so that it is posted twice (`MinedAgainIsPostedOnce`).
    `LedgerFollowsChain` is about ledgers whose mistakes could be corrected.
12. **A reorganisation deeper than the lookback is never reported** (`DerivedFollowsChain`,
    `B20Tracking.cfg` with `Unseen = TRUE` and `MaxHashes = 6`, deadlock not checked): the cursor
    keeps no hash from below the lookback to compare, so the fork is taken for one inside it.
    Two reorganisations, each within the lookback, do the same: a rewind drops the hashes
    above the fork and reads none again, so that right after it the cursor may keep none at
    all, and the blocks below can be replaced unnoticed (`MaxBlock = 4`).
13. **A round trip may lose more than one raw unit**: `arithmetic.ts` lines 104-108 bound it by
    one. For a multiplier below `10^18` the bound is `RoundTripIsBounded`'s.
14. **A receipt can be signed after its operation stopped being permitted** (`PermittedWhenSigned`,
    `B20Requests.cfg`). `docs/base-b20/data-flows.md` line 128 says that state changing between
    decision and signature yields no signature. The re-read reads a confirmed block, which may be
    behind the head, and the signer is awaited after the last check (`b20-signer.ts:163`), so the
    world may change in between; `maxReverificationSeconds` bounds the re-read only, while the
    comment at lines 78-84 speaks of evidence gone stale when the signature landed. What bounds the
    damage is the receipt's expiry and what the adapter reads again: `ExecutedOnRecentAllow` and
    `ActivationIsFar`.

Smaller ones, met while modelling: duplicate emissions are folded before the facts after the
evaluated instant are dropped; the fixture's `updateMultiplier` assigns before it emits, so that
the event carries the new value as the old one and the reducer reports a broken continuity;
healthy evidence out of `CONFLICT` or `REORGED` is an illegal transition; a pending action beyond
the window, seen twice, reads as `NORMAL`; `RECONCILING` may reach `VERIFIED` with a case of
insufficient evidence; the correlator takes the first pause that ever was; a transfer to oneself
is refused as a duplicate posting; the reference keeps a past schedule's instant; the manifest's
projection takes the manifest's decimals, so that `DECIMALS_CHANGED` never arises; a crash
between attaching and delivering a receipt loses the signed receipt, and the client is answered
with its identifier only.

## 7. Plan for the next steps

1. An abstract specification of the receipt indexer, a set of consumed receipts that follows a
   chain it is told about late, and its refinement by `ReceiptIndexer`.
2. `xstocks-client`: the walk over a catalogue that changes between its pages, with retries.
3. The SDK's verification against the adapter's, as `OffChainAgrees` does for B20.
4. The command-line replay up to an event, and source health.

## 8. Not modelled, and why

- Readers and clients (`xlayer-reader` but for its log and reorganisation reads, `xstocks-client`,
  the transports of `b20-reader` and `chainlink-reader`): I/O and parsing. That any of their reads
  may fail or be old is an input of the models.
- SDK verification repeats the adapter's checks off chain; digests, DER and KMS parsing are
  data.
- Source health, which no decision reads, and the command-line replay.
- Explainer, console, configuration, logging, metrics, fault switches: no protocol state.
- Provenance, proof, infrastructure and deployment scripts: one-off programs that drive the
  components above and write down what they saw.
- Rate limiting, authentication and schema validation reject a request before any state
  changes.
