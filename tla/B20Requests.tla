----------------------------- MODULE B20Requests -----------------------------
(***************************************************************************)
(* B20 requests from the claim of an idempotency key to the execution of   *)
(* the receipt, over a chain, a feed and a sequencer that change between   *)
(* any two reads:                                                          *)
(*   claim, read, decide, record, read again, sign, attach, deliver.       *)
(*   packages/db/src/b20-idempotency.ts, which gives the order             *)
(*   packages/domain/src/b20, packages/receipts/src/b20-*.ts               *)
(*   packages/chainlink-reader/src/reader.ts, packages/b20-reader          *)
(*   contracts/src/B20GuardAdapter.sol                                     *)
(*                                                                         *)
(* The feed and the token are read by sessions of their own, each pinned   *)
(* to the block that had its confirmations when the session was opened;    *)
(* the chain moves on under both.  A process may die between any two       *)
(* steps; a client may ask again.  Time is in seconds and passes by whole  *)
(* Ticks, each of them a block.                                            *)
(***************************************************************************)
EXTENDS B20Preflight, B20Receipts

CONSTANTS Callers, Keys, Amounts,
          Start, Tick, MaxTime,
          MaxEvents,                \* bound on the changes to the world and the node's failures, a flaw
                                    \* the world starts with included
          MaxReceipts,              \* bound on issuance
          Delays,                   \* how far ahead an update is scheduled
          Confirmations, Grace, GuardWindow, Ttl, MaxReverification,
          Setups                    \* what the world may look like at first, see Healthy

ASSUME Seconds ==
    /\ Start \in Nat \ {0} /\ Tick \in Nat \ {0} /\ Ttl \in Nat \ {0} /\ Confirmations \in Nat
    /\ Grace \in Nat /\ GuardWindow \in Nat /\ Delays \subseteq Nat

Asset == INSTANCE B20Asset

VARIABLES
    time, block, events,
    world,       \* asset, feed and sequencer as the head of the chain has them
    notices,     \* what is known off the chain: manifest, pairing, calendar, issuer
    views,       \* the chain's history: block -> when it was made, and the world it shows
    registry,    \* the entries of the last refresh
    incident,    \* a refresh has opened a review
    intents,     \* b20_preflight_intents: key -> row
    callers,     \* the processes serving requests
    issued,      \* receipts bound so far
    permitted,   \* history: receipt id -> the time of the block its operation was permitted at
    delivered,   \* receipts in the hands of clients
    adapter,     \* the adapter's storage
    executed     \* history: what was executed, and when

vars == <<time, block, events, world, notices, views, registry, incident, intents, callers,
          issued, permitted, delivered, adapter, executed>>
chain == <<time, block, events, world, notices, views>>
reviews == <<registry, incident>>
requests == <<intents, callers, issued, permitted>>
executions == <<delivered, adapter, executed>>

\* The identity a manifest records, and the one the reads return while nothing changed.
Original == [name |-> "n", symbol |-> "s", decimals |-> 18, initialized |-> TRUE]

Healthy ==
    [world |->
        [asset |-> Asset!Deployed(1), paused |-> FALSE, dialed |-> TRUE, identity |-> Original,
         round |-> [roundId |-> 1, answer |-> 1, updatedAt |-> Start, answeredInRound |-> 1,
                    decimals |-> 8],
         sequencer |-> [answer |-> 0, startedAt |-> 0]],
     notices |->
        [listed |-> TRUE, fixture |-> FALSE, pairing |-> "REVIEWED_VERIFIED",
         issuerPaused |-> FALSE, publishing |-> TRUE]]

Operation(amount) ==
    [asset |-> "a", sender |-> "s", recipient |-> "r", class |-> "VAULT_DEPOSIT",
     amount |-> amount, target |-> "vault", expectedMultiplier |-> 1, policy |-> "p"]

\* Names are the reviewed ones or others; the pairings are those of packages/chainlink-reader.
Texts == {"n", "s", "renamed", "other"}
Pairings == {"REVIEWED_VERIFIED", "INFERRED_UNREVIEWED", "CONFLICT", "ABSENT"}

\* What the reads can find: an identity read may not answer, a round may hold anything.
Worlds ==
    [asset : [multiplier : Nat, newMultiplier : Nat, effectiveAt : Nat],
     paused : BOOLEAN, dialed : BOOLEAN,
     identity : [name : Texts \cup {None}, symbol : Texts \cup {None},
                 decimals : Nat \cup {None}, initialized : BOOLEAN \cup {None}],
     round : [roundId : Nat, answer : Int, updatedAt : Nat, answeredInRound : Nat,
              decimals : Nat],
     sequencer : [answer : Int, startedAt : Nat]]
Notices ==
    [listed : BOOLEAN, fixture : BOOLEAN, pairing : Pairings, issuerPaused : BOOLEAN,
     publishing : BOOLEAN]

Decisions == {"ALLOW", "REVIEW", "BLOCK"}

\* A row of b20_preflight_intents.
IntentRows ==
    [request : {Operation(amount) : amount \in Amounts}, status : {"PENDING", "DECIDED"},
     decision : Decisions \cup {None}, receipt : Nat \cup {None}]

ASSUME Readings ==
    /\ None \notin Nat \cup AssetStatuses \cup PriceVerdicts \cup IntentRows \cup Decisions
    /\ \A amount \in Amounts : None # Operation(amount)
    /\ Setups \subseteq [world : Worlds, notices : Notices]

Idle == [pc |-> "idle"]
NoAdapter ==
    [asset |-> "a", signers |-> {"k"}, targets |-> {"vault"}, consumed |-> {}]

Init ==
    /\ time = Start /\ block = 0
    /\ \E setup \in Setups :
        /\ world = setup.world /\ notices = setup.notices
        /\ events = IF setup = Healthy THEN 0 ELSE 1
    /\ views = [b \in {0} |-> [time |-> Start, world |-> world]]
    /\ registry = ProjectB20Registry([a |-> Original], << >>, << >>)
    /\ incident = FALSE
    /\ intents = [k \in Keys |-> None]
    /\ callers = [c \in Callers |-> Idle]
    /\ issued = 0
    /\ permitted = << >>
    /\ delivered = {}
    /\ adapter = NoAdapter
    /\ executed = {}

-----------------------------------------------------------------------------
(* Reads.  A sight is what a session sees: the block it is pinned to, and  *)
(* what was known off the chain when it was opened.                        *)

\* The block a session opened now is pinned to.
Confirmed == IF block < Confirmations THEN 0 ELSE block - Confirmations

Sight(b, known) == [time |-> views[b].time, world |-> views[b].world, notices |-> known]

Multiplier(sight) == Asset!MultiplierOf(sight.world.asset, sight.time)

Identity(sight) ==
    [onOfficialList |-> sight.notices.listed, initialized |-> sight.world.identity.initialized,
     prefixMatches |-> TRUE, fixture |-> sight.notices.fixture, mixedCase |-> FALSE,
     name |-> sight.world.identity.name, symbol |-> sight.world.identity.symbol,
     decimals |-> sight.world.identity.decimals, multiplier |-> Multiplier(sight)]

\* ChainlinkReadSession.open.
FeedSession == [block |-> Confirmed, notices |-> notices]

FeedInput(class, feed, token) ==
    [class |-> class, time |-> feed.time, round |-> feed.world.round, manifestDecimals |-> 8,
     sequencer |-> feed.world.sequencer, grace |-> Grace,
     issuerPaused |-> feed.notices.issuerPaused, tokenPaused |-> token.world.paused,
     expectedPublishing |-> feed.notices.publishing]

\* None where one of the reads was refused or failed.
PriceVerdict(input, pairing, reachable) ==
    LET feed == [reachable |-> reachable, round |-> input.round,
                 manifestDecimals |-> input.manifestDecimals, sequencer |-> input.sequencer]
    IN  IF ReadEquityFeed(feed, pairing, FALSE) = {} \/ ReadSequencer(feed) = {} THEN None
        ELSE EvaluateFreshness(input)

UntilActivation(sight) ==
    LET at == sight.world.asset.effectiveAt
    IN  IF sight.world.dialed /\ at > sight.time THEN at - sight.time ELSE None

\* None when the registry has no entry for the address.
IdentityStatus(sight) ==
    LET known == ResolveB20Asset(registry, "a")
    IN  IF known = None THEN None ELSE VerifyB20Identity(Identity(sight), known).status

\* What is asked of the feed in its session may stay unanswered.
Evidence(op, session, tokenBlock, reachable) ==
    LET feed == Sight(session.block, session.notices)
        token == Sight(tokenBlock, session.notices)
        input == FeedInput(op.class, feed, token)
    IN  [identityStatus |-> IdentityStatus(token), isFixture |-> token.notices.fixture,
         targetConfigured |-> op.target \in adapter.targets,
         priceVerdict |-> PriceVerdict(input, feed.notices.pairing, reachable),
         pairingReviewed |-> feed.notices.pairing = "REVIEWED_VERIFIED",
         sequencerHealthy |-> IF reachable THEN SequencerServes(input) ELSE None,
         tokenPaused |-> token.world.paused,
         scheduleCapability |-> IF token.world.dialed THEN "LIVE" ELSE "NOT_DIALED",
         secondsUntilActivation |-> UntilActivation(token), guardWindow |-> GuardWindow,
         blocksComparable |-> AssertComparable({session.block, tokenBlock}),
         openIncident |-> incident]

DecisionOn(op, session, tokenBlock, reachable) ==
    EvaluateB20Preflight(op, Evidence(op, session, tokenBlock, reachable),
                         Multiplier(Sight(tokenBlock, session.notices)))

-----------------------------------------------------------------------------
(* What an operation needs, said of what was seen and not of the evidence. *)

PriceIsSound(sight, maxAge) ==
    LET round == sight.world.round
        sequencer == sight.world.sequencer
    IN  /\ round.decimals = 8 /\ round.answer > 0
        /\ round.answeredInRound >= round.roundId
        /\ round.updatedAt \in (sight.time - maxAge)..sight.time
        /\ sequencer.answer = 0 /\ sight.time >= sequencer.startedAt + Grace
        /\ ~sight.notices.issuerPaused /\ sight.notices.pairing = "REVIEWED_VERIFIED"

NothingImminent(sight) ==
    /\ sight.world.dialed
    /\ sight.world.asset.effectiveAt \notin (sight.time + 1)..(sight.time + GuardWindow)

Permitted(op, sight) ==
    /\ sight.world.identity = Original /\ sight.notices.listed /\ ~sight.notices.fixture
    /\ ~sight.world.paused
    /\ Multiplier(sight) = op.expectedMultiplier
    /\ op.class # "DISPLAY_POSITION" =>
           PriceIsSound(sight, MaxAgeSeconds(op.class)) /\ NothingImminent(sight)

-----------------------------------------------------------------------------
(* The world.                                                              *)

\* The next block, and what it shows.
Mined(now, next) ==
    /\ time' = now /\ world' = next
    /\ block' = block + 1
    /\ views' = [b \in 0..block + 1 |->
                    IF b <= block THEN views[b] ELSE [time |-> now, world |-> next]]
    /\ UNCHANGED <<notices, reviews, requests, executions>>

Becomes(next) ==
    /\ events < MaxEvents /\ events' = events + 1
    /\ next # world
    /\ Mined(time, next)

Advance ==
    /\ time < MaxTime
    /\ Mined(time + Tick, world)
    /\ UNCHANGED events

PublishRound ==
    Becomes([world EXCEPT !.round =
                [roundId |-> @.roundId + 1, answer |-> @.answer, updatedAt |-> time,
                 answeredInRound |-> @.roundId + 1, decimals |-> @.decimals]])
ToggleSequencer ==
    Becomes([world EXCEPT !.sequencer = [answer |-> 1 - @.answer, startedAt |-> time]])
PauseToken == Becomes([world EXCEPT !.paused = ~@])
Rename     == Becomes([world EXCEPT !.identity.name = "renamed"])

CallAsset ==
    \E call \in {Asset!UpdateMultiplier(2), Asset!CancelUIMultiplierUpdate}
                \cup {Asset!UpdateUIMultiplier(2, time + d) : d \in Delays} :
        /\ ~Asset!Reverts(world.asset, call, time)
        /\ Becomes([world EXCEPT !.asset = Asset!AfterCall(@, call)])

\* Off the chain: no block shows it.
Announced(next) ==
    /\ events < MaxEvents /\ events' = events + 1
    /\ notices' = next
    /\ UNCHANGED <<time, block, world, views, reviews, requests, executions>>

PauseIssuer  == Announced([notices EXCEPT !.issuerPaused = ~@])
EditManifest == Announced([notices EXCEPT !.listed = ~@])

Manifest == IF notices.listed THEN [a |-> Original] ELSE << >>

\* The projection that replaces the last one, and the reviews its differences open.  A node
\* that does not answer is one of the events.
RefreshRegistry ==
    \E answers \in BOOLEAN :
        LET live == IF answers THEN [a |-> Identity(Sight(Confirmed, notices))] ELSE << >>
            next == ProjectB20Registry(Manifest, live, registry)
        IN  /\ IF answers THEN UNCHANGED events
               ELSE events < MaxEvents /\ events' = events + 1
            /\ registry' = next
            /\ incident' = (incident \/ \E change \in DiffB20Registry(registry, next) :
                                            change.requiresReview)
            /\ UNCHANGED <<time, block, world, notices, views, requests, executions>>

-----------------------------------------------------------------------------
(* The requests.                                                           *)

Steps(c, caller) ==
    /\ callers' = [callers EXCEPT ![c] = caller]
    /\ UNCHANGED <<chain, reviews, executions>>

Row(op) ==
    [request |-> CanonicalizeB20Operation(op), status |-> "PENDING", decision |-> None,
     receipt |-> None]

\* Mutant: the key alone identifies a request.
AnyRequest(row, op) == TRUE

SameRequest(row, op) == row.request = CanonicalizeB20Operation(op)

\* CLAIMED, CONFLICT, IN_PROGRESS or REPLAYED: one insert, and a read by its losers.
ClaimPreflightIntent(row, op) ==
    CASE row = None                -> "CLAIMED"
      [] ~SameRequest(row, op)     -> "CONFLICT"
      [] row.status # "DECIDED"    -> "IN_PROGRESS"
      [] OTHER                     -> "REPLAYED"

\* A conflict is answered 409, and work in progress later: neither is a decision.
Claim(c) ==
    /\ callers[c].pc = "idle"
    /\ \E key \in Keys, amount \in Amounts :
        LET op == Operation(amount)
            outcome == ClaimPreflightIntent(intents[key], op)
        IN  /\ outcome \in {"CLAIMED", "REPLAYED"}
            /\ IF outcome = "CLAIMED"
               THEN /\ intents' = [intents EXCEPT ![key] = Row(op)]
                    /\ Steps(c, [pc |-> "claimed", key |-> key, op |-> op])
               ELSE /\ Steps(c, [pc |-> "answered", key |-> key, op |-> op,
                                 decision |-> intents[key].decision])
                    /\ UNCHANGED intents
            /\ UNCHANGED <<issued, permitted>>

ReadFeed(c) ==
    /\ callers[c].pc = "claimed"
    /\ Steps(c, [pc |-> "read", key |-> callers[c].key, op |-> callers[c].op,
                 session |-> FeedSession])
    /\ UNCHANGED <<intents, issued, permitted>>

\* The token is read at a block of its own, and the request decided on both.
DecideRequest(c) ==
    /\ callers[c].pc = "read"
    /\ \E reachable \in BOOLEAN :
        Steps(c, [pc |-> "decided", key |-> callers[c].key, op |-> callers[c].op,
                  decision |-> DecisionOn(callers[c].op, callers[c].session, Confirmed,
                                          reachable)])
    /\ UNCHANGED <<intents, issued, permitted>>

\* A row that is no longer pending keeps the decision it has.
RecordPreflightDecision(c) ==
    /\ callers[c].pc = "decided"
    /\ IF intents[callers[c].key].status = "PENDING"
       THEN /\ intents' = [intents EXCEPT ![callers[c].key] =
                              [@ EXCEPT !.status = "DECIDED", !.decision = callers[c].decision]]
            /\ Steps(c, [callers[c] EXCEPT !.pc = "answered"])
       ELSE Steps(c, Idle) /\ UNCHANGED intents
    /\ UNCHANGED <<issued, permitted>>

\* The validity of the receipt starts here, before the evidence is read again.
BeginIssue(c) ==
    /\ callers[c].pc = "answered"
    /\ ReceiptEligible(callers[c].op, callers[c].decision)
    /\ issued < MaxReceipts
    /\ Steps(c, [pc |-> "issuing", key |-> callers[c].key, op |-> callers[c].op,
                 since |-> time, session |-> FeedSession])
    /\ UNCHANGED <<intents, issued, permitted>>

ReadToken(c) ==
    /\ callers[c].pc = "issuing"
    /\ Steps(c, [pc |-> "rereading", key |-> callers[c].key, op |-> callers[c].op,
                 since |-> callers[c].since, session |-> callers[c].session,
                 token |-> Confirmed])
    /\ UNCHANGED <<intents, issued, permitted>>

TokenSight(c) == Sight(callers[c].token, callers[c].session.notices)

\* What the re-read answers, by the time it does.
Reverification(c, reachable) ==
    LET token == TokenSight(c)
    IN  [decision |-> DecisionOn(callers[c].op, callers[c].session, callers[c].token, reachable),
         multiplier |-> Multiplier(token),
         pendingEffectiveAt |-> IF token.world.dialed THEN token.world.asset.effectiveAt ELSE 0,
         round |-> views[callers[c].session.block].world.round.roundId,
         elapsed |-> time - callers[c].since]

\* The receipt is bound to what was read, which may be the past by now.
Reverify(c) ==
    /\ callers[c].pc = "rereading"
    /\ \E reachable \in BOOLEAN :
        LET op == callers[c].op
            params == ReceiptParams(op, issued + 1, callers[c].since, callers[c].since + Ttl)
            bound == Issue(params, Reverification(c, reachable), MaxReverification)
        IN  IF bound = {}
            THEN Steps(c, Idle) /\ UNCHANGED <<issued, permitted>>
            ELSE /\ issued < MaxReceipts
                 /\ issued' = issued + 1
                 /\ permitted' = [id \in 1..issued + 1 |->
                                     IF id <= issued THEN permitted[id]
                                     ELSE IF Permitted(op, TokenSight(c)) THEN TokenSight(c).time
                                     ELSE 0]
                 /\ \E r \in bound :
                     Steps(c, [pc |-> "signing", key |-> callers[c].key, op |-> op,
                               draft |-> r])
    /\ UNCHANGED intents

\* The signer answers when it does; nothing is looked at again.
Sign(c) ==
    /\ callers[c].pc = "signing"
    /\ Steps(c, [pc |-> "signed", key |-> callers[c].key, op |-> callers[c].op,
                 receipt |-> Signed(callers[c].draft, "k")])
    /\ UNCHANGED <<intents, issued, permitted>>

\* Mutant: whether a receipt has been attached already is not asked.
AllowedRow(row) == row.decision = "ALLOW"

MayAttach(row) == row.decision = "ALLOW" /\ row.receipt = None

\* Somebody else's receipt is the answer when this one comes second.
AttachReceipt(c) ==
    /\ callers[c].pc = "signed"
    /\ IF MayAttach(intents[callers[c].key])
       THEN /\ intents' = [intents EXCEPT ![callers[c].key].receipt =
                              callers[c].receipt.receipt.id]
            /\ Steps(c, [callers[c] EXCEPT !.pc = "attached"])
       ELSE Steps(c, Idle) /\ UNCHANGED intents
    /\ UNCHANGED <<issued, permitted>>

Deliver(c) ==
    /\ callers[c].pc = "attached"
    /\ delivered' = delivered \cup {callers[c].receipt}
    /\ callers' = [callers EXCEPT ![c] = Idle]
    /\ UNCHANGED <<chain, reviews, intents, issued, permitted, adapter, executed>>

\* The request ends, or the process serving it dies.
Leave(c) ==
    /\ callers[c].pc # "idle"
    /\ Steps(c, Idle)
    /\ UNCHANGED <<intents, issued, permitted>>

-----------------------------------------------------------------------------
(* The adapter.                                                            *)

\* At the head of the chain, where a transaction is executed.
ChainState ==
    [multiplier |-> Asset!MultiplierOf(world.asset, time), paused |-> world.paused,
     dialed |-> world.dialed, effectiveAt |-> world.asset.effectiveAt]

Execute(signed) ==
    /\ Accepts(signed, "s", "vault", adapter, ChainState, time)
    /\ adapter' = [adapter EXCEPT !.consumed = @ \cup {signed.receipt.id}]
    /\ executed' = executed \cup {[id |-> signed.receipt.id, at |-> time,
                                   activation |-> world.asset.effectiveAt]}
    /\ UNCHANGED <<chain, reviews, requests, delivered>>

Configure(next) ==
    /\ events < MaxEvents
    /\ adapter' = next
    /\ events' = events + 1
    /\ UNCHANGED <<time, block, world, notices, views, reviews, requests, delivered, executed>>

SetAuthorizedSigner == Configure([adapter EXCEPT !.signers = {"k"} \ @])
SetAllowedTarget    == Configure([adapter EXCEPT !.targets = {"vault"} \ @])

-----------------------------------------------------------------------------

Environment ==
    \/ Advance \/ PublishRound \/ ToggleSequencer \/ PauseToken \/ PauseIssuer \/ Rename
    \/ EditManifest \/ CallAsset \/ RefreshRegistry
    \/ SetAuthorizedSigner \/ SetAllowedTarget

Serve(c) ==
    \/ Claim(c) \/ ReadFeed(c) \/ DecideRequest(c) \/ RecordPreflightDecision(c)
    \/ BeginIssue(c) \/ ReadToken(c) \/ Reverify(c) \/ Sign(c)
    \/ AttachReceipt(c) \/ Deliver(c)

Next ==
    \/ Environment
    \/ \E c \in Callers : Serve(c) \/ Leave(c)
    \/ \E signed \in delivered : Execute(signed)

Spec == Init /\ [][Next]_vars

\* Processes that live serve what they are asked.
FairSpec == Spec /\ \A c \in Callers : WF_vars(Serve(c))

-----------------------------------------------------------------------------
(* Properties.                                                             *)

\* A client is only ever given the answer to the question it asked, whatever key it asked
\* under, who else used the key and which process answered
\* (packages/db/src/b20-idempotency.ts:142-149).
AnsweredAsAsked ==
    \A c \in Callers : callers[c].pc \in {"answered", "issuing", "rereading", "signing", "signed",
                                       "attached"} =>
        intents[callers[c].key].request = callers[c].op

\* Retries, crashes and concurrent processes execute an intent at most once
\* (packages/db/src/b20-idempotency.ts:10-14): of the receipts signed for it only the one its
\* row names gets out, and that one is executed once.
OneExecution ==
    \A e \in executed :
        /\ \E key \in Keys : intents[key] # None /\ intents[key].receipt = e.id
        /\ \A f \in executed : f.id = e.id => f = e

\* For every class of action, where the confirmed block does not meet the needs of the class, or
\* a price is needed and the feed does not answer, the evidence of that block is not answered
\* ALLOW (packages/domain/src/b20/preflight.ts:49-123).
AllowMeansPermitted ==
    \A class \in ActionClasses, reachable \in BOOLEAN :
        LET op == [Operation(1) EXCEPT !.class = class]
        IN  \/ Permitted(op, Sight(Confirmed, notices)) /\ (NeedsPrice(class) => reachable)
            \/ DecisionOn(op, FeedSession, Confirmed, reachable) # "ALLOW"

\* How far the block a session is pinned to can be behind the clock.
Lag == Confirmations * Tick

\* Whatever the age of the decision a receipt was asked for with, and whatever happened between
\* the second reading, the signature and the execution, the operation was permitted by what one
\* block showed, less than a Ttl and the confirmations before it executed
\* (packages/receipts/src/b20-signer.ts:55-85, contracts/src/B20GuardAdapter.sol:229-231).
ExecutedOnRecentAllow ==
    \A e \in executed : permitted[e.id] # 0 /\ e.at - permitted[e.id] < Ttl + Lag

\* No operation executes close to an activation: one that was pending at the block the receipt
\* was bound to was beyond the guard window, and one scheduled since is refused by the adapter
\* (contracts/src/B20GuardAdapter.sol:270-283).
ActivationIsFar ==
    \A e \in executed :
        e.activation > e.at => e.activation - e.at > GuardWindow - Ttl - Lag

\* A receipt the chain would execute now is one a verifier off the chain calls valid now
\* (packages/receipts/src/b20-signer.ts:177-184: both must agree).
OffChainAgrees ==
    \A signed \in delivered :
        Accepts(signed, "s", "vault", adapter, ChainState, time) =>
            VerifyB20Receipt(signed, "k", time)

\* Every key has one outcome, across retries, crashes and concurrent processes: one question, one
\* decision, one receipt of its own, which gets out only once the row names it and is executed
\* once (packages/db/src/b20-idempotency.ts:3-14).
Content(column) == IF column = None THEN {} ELSE {column}
Column(field) ==
    [key \in Keys |-> IF intents[key] = None THEN {} ELSE Content(intents[key][field])]
Questions == Column("request")
Rulings == Column("decision")
Receipts == Column("receipt")
InHand == {key \in Keys : \E signed \in delivered : signed.receipt.id \in Receipts[key]}
Used == {key \in Keys : Receipts[key] \cap adapter.consumed # {}}

Outcome == INSTANCE OneOutcomePerKey WITH
    request <- Questions, decision <- Rulings, receipt <- Receipts, out <- InHand, spent <- Used

ImplementsOneOutcome == Outcome!Spec

\* A pending row is a crashed request or one that is being served: it does not stay pending
\* (packages/db/migrations/0009_b20_preflight_idempotency.sql:37-38).  The code does not keep
\* this, under FairSpec: nobody claims the key of a pending row again, whoever reserved it.
PendingIsRetried ==
    \A key \in Keys :
        (intents[key] # None /\ intents[key].status = "PENDING")
            ~> (intents[key] # None /\ intents[key].status # "PENDING")

\* A change between the decision and the signature yields no signature
\* (docs/base-b20/data-flows.md:128).  The code does not keep this: the re-read reads confirmed
\* blocks, and the signer is awaited after the last check (packages/receipts/src/b20-signer.ts:163).
PermittedWhenSigned ==
    [][\A c \in Callers : Sign(c) => Permitted(callers[c].op, Sight(Confirmed, notices))]_vars

=============================================================================
