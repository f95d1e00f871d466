---------------------------- MODULE B20Tracking ----------------------------
(***************************************************************************)
(* The B20 pipeline end to end: a chain that replaces branches, an indexer *)
(* that follows it, the facts it holds reduced to a multiplier and the     *)
(* reconciliation state derived from them.                                 *)
(*   packages/b20-reader/src/indexing.ts, reader.ts                        *)
(*   packages/domain/src/b20/lifecycle.ts                                  *)
(*   packages/reconciler/src/b20-correlator.ts, b20-state-machine.ts       *)
(*                                                                         *)
(* The repository has the functions and no loop that calls them: the loop  *)
(* here is the one their comments describe.                                *)
(***************************************************************************)
EXTENDS B20Reader, B20StateMachine, B20Correlation, B20Asset, TLC

CONSTANTS
    Seed,           \* the multiplier the asset is deployed with
    Values,         \* the multipliers an issuer may set
    MaxBlock,       \* bound on the chain's height
    MaxHashes,      \* bound on the blocks ever mined, replaced ones included
    Unseen,         \* TRUE: a block the cursor keeps no hash of may be replaced
    Lookback,       \* the lookback of the cursor
    MaxWidth,       \* the widest range the provider answers
    GuardWindow,
    FlawSets        \* which defects of the other evidence may come together

ASSUME Bounds ==
    /\ MaxBlock \in Nat /\ MaxHashes \in Nat /\ Lookback \in Nat /\ GuardWindow \in Nat
    /\ MaxWidth \in Nat \ {0} /\ Unseen \in BOOLEAN
    /\ Seed # None /\ None \notin Values /\ None \notin Nat
    /\ None \notin States \cup {"FRESH"}
    /\ None \notin [value : Values \cup {0}, at : Nat]

Reference == INSTANCE ReferenceAdapter

VARIABLES
    blocks,         \* the canonical chain, oldest first
    hashes,         \* blocks mined so far, on any branch
    cursor,         \* the indexer's cursor
    journal,        \* every log ever journaled
    compensated,    \* hashes of the blocks a rewind took back
    halted,         \* a reorganisation beyond the lookback was reported
    machine         \* the operational state the last evaluation left

chainVars == <<blocks, hashes>>
indexVars == <<cursor, journal, compensated, halted>>
vars == <<chainVars, indexVars, machine>>

Height == Len(blocks)
Ref(n) == [number |-> n, hash |-> blocks[n].hash]

AssetAt(n) == IF n = 0 THEN Deployed(Seed) ELSE blocks[n].asset

Init ==
    /\ blocks = <<>>
    /\ hashes = 0
    /\ cursor = [last |-> 0, recent |-> {}, fence |-> 0]
    /\ journal = {}
    /\ compensated = {}
    /\ halted = FALSE
    /\ machine = "DISCOVERED"

-----------------------------------------------------------------------------
(* The chain.                                                              *)

Calls(time) ==
    {NoCall, CancelUIMultiplierUpdate}
    \cup {UpdateMultiplier(v) : v \in Values}
    \cup {UpdateUIMultiplier(v, time + 1) : v \in Values}
    \cup {UpdateUIMultiplier(v, time + 2) : v \in Values}

\* Extends the first n blocks by one: a reorganisation when n is not the height.
MineOn(n) ==
    /\ n < MaxBlock /\ hashes < MaxHashes
    /\ \E call \in Calls(n + 1) :
        /\ ~Reverts(AssetAt(n), call, n + 1)
        /\ blocks' = Append(SubSeq(blocks, 1, n),
                            [hash |-> hashes + 1,
                             asset |-> AfterCall(AssetAt(n), call),
                             logs |-> Emitted(AssetAt(n), call,
                                              [number |-> n + 1, hash |-> hashes + 1])])
    /\ hashes' = hashes + 1
    /\ UNCHANGED <<indexVars, machine>>

Mine == MineOn(Height)

\* A replacement above block n reaches nothing indexed, or a block whose hash is kept.
Visible(n) == n >= cursor.last \/ \E b \in cursor.recent : b.number <= n + 1

Replace == \E n \in 0..(Height - 1) : (Unseen \/ Visible(n)) /\ MineOn(n)

-----------------------------------------------------------------------------
(* The indexer.                                                            *)

Retained == {b.number : b \in cursor.recent}

\* What one round reads: the retained heights again, and the next range.
Observed(range) == {Ref(n) : n \in (Retained \cup range) \cap 1..Height}

\* A round on one range; a refused range is halved and tried again.
Span(r) == r.from..r.to
LogsIn(r) == UNION {blocks[n].logs : n \in Span(r)}
Ranges ==
    LET next == NextRange(cursor, SafeHead(Height, 0), MaxWidth)
    IN  next \cup UNION {ShrinkRange(r) : r \in next}

Journal(r) ==
    /\ DetectReorg(cursor.recent, Observed(Span(r)), Lookback) = Consistent
    /\ journal' = DedupeLogs(journal, LogsIn(r))
    /\ cursor' = AdvanceCursor(cursor, r.to, {Ref(n) : n \in Span(r)}, Lookback)
    /\ UNCHANGED <<compensated, halted>>

\* What was derived above a fork is taken back; a fork below what is retained is for people.
Recover ==
    LET outcome == DetectReorg(cursor.recent, Observed({}), Lookback)
        deep == outcome.kind = "BEYOND_LOOKBACK"
    IN  /\ outcome # Consistent
        /\ halted' = deep
        /\ cursor' = IF deep THEN cursor ELSE RewindCursor(cursor, outcome.forkPoint)
        /\ compensated' = IF deep THEN compensated
                          ELSE compensated \cup
                               {b.hash : b \in {c \in cursor.recent : c.number >= outcome.forkPoint}}
        /\ UNCHANGED journal

Index ==
    /\ ~halted
    /\ Recover \/ \E r \in Ranges : Journal(r)
    /\ UNCHANGED <<chainVars, machine>>

-----------------------------------------------------------------------------
(* What is derived from the facts that still count.                        *)

Facts == {log \in journal : log.hash \notin compensated}

Live == [currentMultiplier |-> "LIVE", scheduledUpdate |-> "LIVE"]

Derived(time) == ReduceB20Lifecycle(Facts, time, Live, Seed)

\* The multiplier changes among the facts, as the correlator takes them.
Changes ==
    LET updates == SetToSortSeq({fact \in Facts : fact.kind = "UPDATED"}, FactBefore)
    IN  [i \in DOMAIN updates |->
            [id |-> LogIdentity(updates[i]), block |-> updates[i].block, old |-> updates[i].old,
             new |-> updates[i].new, effectiveAt |-> updates[i].effectiveAt]]

\* What surrounds a change: one closed bracket over every block, a round after it and a
\* typed record of its ratio, each of which may be missing.
CaseInput(flaws) ==
    [changes |-> Changes,
     announcements |-> IF "unannounced" \in flaws THEN <<>>
                       ELSE <<[id |-> "CA", openedAt |-> 0, closedAt |-> MaxBlock]>>,
     pauses |-> IF "unpaused" \in flaws THEN <<[paused |-> FALSE, block |-> MaxBlock]>> ELSE <<>>,
     rounds |-> IF "noRound" \in flaws THEN <<>> ELSE <<MaxBlock>>,
     evidence |-> IF "untyped" \in flaws \/ Changes = <<>> THEN None
                  ELSE [attested |-> TRUE, eventType |-> "FORWARD_SPLIT",
                        numerator |-> Last(Changes).new, denominator |-> Last(Changes).old],
     time |-> cursor.last, sla |-> 1]

CaseOutcome(flaws) ==
    IF Changes = <<>> THEN None ELSE Last(CorrelateB20Cases(CaseInput(flaws))).outcome

\* A session pinned to the block the facts end at.
Replies(flaws) ==
    [name \in DOMAIN Surface \cup StateReads |->
        IF "unreachable" \in flaws THEN "silent"
        ELSE IF "undialed" \in flaws /\ name \in {"newUIMultiplier", "effectiveAt"}
        THEN "selector" ELSE "value"]

Session(flaws) == [block |-> cursor.last, replies |-> Replies(flaws)]

TokenState(flaws) == [wadPrecise |-> TRUE, paused |-> "paused" \in flaws]

\* What can be wrong with the rest of the evidence.
Evidence(flaws, pendingAt) ==
    LET read == ReadAssetState(Session(flaws), TokenState(flaws))
    IN [reorgBeyondLookback |-> halted,
        reorgDetected |-> DetectReorg(cursor.recent, Observed({}), Lookback).kind = "REORG",
        assetIsFixture |-> "fixture" \in flaws,
        assetVerified |-> IF "unknownAsset" \in flaws THEN None
                          ELSE IF "unlisted" \in flaws THEN "no" ELSE "yes",
        rpcReachable |-> read.ok,
        blocksComparable |-> "incomparable" \notin flaws,
        openIncident |-> "incident" \in flaws,
        caseOutcome |-> CaseOutcome(flaws),
        pendingAt |-> pendingAt, time |-> cursor.last, guardWindow |-> GuardWindow,
        scheduledUpdates |-> IF ProbeCapabilities(Session(flaws)).scheduledUpdatesLive
                             THEN "LIVE" ELSE "NOT_DIALED",
        tokenPaused |-> read.ok /\ read.value.paused,
        pairingReviewed |-> "unreviewed" \notin flaws,
        feedVerdict |-> IF "noRound" \in flaws THEN None
                        ELSE IF "stale" \in flaws THEN "STALE" ELSE "FRESH"]

\* The schedule as the facts have it, or as the contract reports it when it can be asked:
\* the contract keeps reporting a schedule that has taken effect.
PendingReads(flaws) ==
    LET at(schedule) == IF schedule = None THEN None ELSE schedule.at
        read == ReadScheduledUpdate(Session(flaws), AssetAt(cursor.last))
    IN  {at(Derived(cursor.last).pending)} \cup (IF read.ok THEN {at(read.value)} ELSE {})

Evaluate ==
    /\ cursor.last <= Height
    /\ \E flaws \in FlawSets : \E pendingAt \in PendingReads(flaws) :
        machine' = NextB20State(machine, Evidence(flaws, pendingAt))
    /\ UNCHANGED <<chainVars, indexVars>>

Next == Mine \/ Replace \/ Index \/ Evaluate

Spec == Init /\ [][Next]_vars
FairSpec == Spec /\ WF_vars(Index)

-----------------------------------------------------------------------------

TipAgrees ==
    cursor.last = 0 \/ (cursor.last <= Height /\ Ref(cursor.last) \in cursor.recent)

(* The multiplier derived from the facts is the one the contract had: for  *)
(* every block up to the cursor, when the cursor's tip is on the canonical *)
(* chain, whatever was replaced, delivered twice or fetched in halves      *)
(* before (lifecycle.ts:226, indexing.ts:93-230).                          *)
DerivedFollowsChain ==
    TipAgrees /\ ~halted =>
        \A n \in 1..cursor.last :
            LET derived == Derived(n)
                asset == AssetAt(n)
            IN  /\ derived.active = MultiplierOf(asset, n)
                /\ derived.pending =
                     IF asset.effectiveAt > n
                     THEN [value |-> asset.newMultiplier, at |-> asset.effectiveAt] ELSE None

(* The two independent implementations of the lifecycle agree: the         *)
(* reducer, and the reference integration fed the same facts one by one    *)
(* (lifecycle.ts:226-378, conformance/src/reference.ts:108-231).           *)
AsScenarioFact(fact) ==
    [kind |-> CASE fact.kind = "LEGACY" -> "MULTIPLIER_UPDATED_LEGACY"
                [] fact.kind = "UPDATED" -> "MULTIPLIER_UPDATED"
                [] fact.kind = "CANCELLED" -> "SCHEDULE_CANCELLED",
     block |-> fact.block, tx |-> fact.tx, time |-> fact.time,
     fields |-> [new |-> fact.new, effectiveAt |-> fact.effectiveAt]]

\* The reference, fed the facts in FactBefore's order.
Fed(facts) ==
    MapThenFoldSet(LAMBDA fact, s : Reference!Ingest(s, AsScenarioFact(fact), {}),
                   Reference!FreshState, LAMBDA fact : fact, Latest, facts)

\* It starts with a multiplier of its own, until a fact gives it the asset's.
ReferenceAgrees ==
    LET state == Fed(Facts)
        derived == Derived(cursor.last)
    IN  /\ Reference!PendingLive(state, cursor.last) <=> derived.pending # None
        /\ state.restatements = Cardinality({fact \in Facts : fact.kind = "UPDATED"})
        /\ derived.epochs # <<>> => Reference!MultiplierAt(state, cursor.last) = derived.active

(* Inside the window before an activation no evaluation arrives at NORMAL  *)
(* or VERIFIED: not after a pending state seen twice, not on evidence that *)
(* is otherwise complete, not with the schedule read from the contract     *)
(* instead of the facts (b20-state-machine.ts:248-271).                    *)
InsideWindow ==
    LET at == AssetAt(cursor.last).effectiveAt
    IN  TipAgrees /\ ~halted /\ at > cursor.last /\ at - cursor.last <= GuardWindow

WindowIsHeld ==
    [][InsideWindow => machine' \notin {"NORMAL", "VERIFIED"}]_machine

(* What keeps an asset from being verified.  A missing announcement, a     *)
(* pause that was not seen and an untyped change do not: b20-correlator.ts *)
(* gives them other outcomes.                                              *)
Holes ==
    {"unreachable", "undialed", "noRound", "stale", "unreviewed", "paused", "fixture",
     "unknownAsset", "unlisted", "incomparable", "incident"}

(* Missing data never equals a match: whatever schedule is read and        *)
(* whatever else is missing, no state is left for VERIFIED on evidence     *)
(* with a hole in it (b20-state-machine.ts:6-11).                          *)
VerifiedIsComplete ==
    cursor.last <= Height /\ IsLegalTransition(machine, "VERIFIED") =>
        \A hole \in Holes, others \in FlawSets :
            LET flaws == others \cup {hole}
            IN  \A pendingAt \in PendingReads(flaws) :
                    NextB20State(machine, Evidence(flaws, pendingAt)) # "VERIFIED"

(* An unreachable RPC, an absent round, an unreviewed pairing and a        *)
(* capability the chain does not expose all lead away from VERIFIED        *)
(* (b20-state-machine.ts:6-11).  The code does not keep this: from         *)
(* VERIFIED neither INSUFFICIENT_EVIDENCE nor OBSERVING is legal, the      *)
(* transition is thrown, and the asset stays VERIFIED.                     *)
MissingLeadsAway ==
    cursor.last <= Height /\ machine = "VERIFIED" =>
        \A flaws \in FlawSets \ {{}} : \A pendingAt \in PendingReads(flaws) :
            NextB20State(machine, Evidence(flaws, pendingAt)) # "VERIFIED"

(* However often the chain was replaced, the indexer ends up holding its   *)
(* tip, unless it has reported that it cannot or the chain is now shorter  *)
(* than what it holds (indexing.ts:193-230).                               *)
CatchesUp == []<>(halted \/ cursor.last > Height \/ (cursor.last = Height /\ TipAgrees))

=============================================================================
