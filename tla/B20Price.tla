------------------------------ MODULE B20Price ------------------------------
(***************************************************************************)
(* Reading a feed and the sequencer's uptime at one block, and what a      *)
(* round is worth for one class of action.                                 *)
(*   packages/chainlink-reader/src/reader.ts, freshness.ts                 *)
(***************************************************************************)
EXTENDS Integers, FiniteSets

ActionClasses ==
    {"DISPLAY_POSITION", "QUOTE", "TRANSFER", "VAULT_DEPOSIT", "VAULT_WITHDRAW",
     "COLLATERAL_VALUE", "LIQUIDATION_CHECK", "INDEX_REBALANCE", "AGENT_ORDER"}

PriceVerdicts ==
    {"FRESH", "EXPECTED_HOLD", "STALE", "ISSUER_PAUSED", "SEQUENCER_UNAVAILABLE",
     "INVALID_ROUND"}

MaxAgeSeconds(class) ==
    CASE class = "DISPLAY_POSITION"                         -> 86400
      [] class \in {"QUOTE", "TRANSFER"}                    -> 900
      [] class \in {"VAULT_DEPOSIT", "VAULT_WITHDRAW"}      -> 600
      [] class \in {"COLLATERAL_VALUE", "INDEX_REBALANCE"}  -> 300
      [] class \in {"LIQUIDATION_CHECK", "AGENT_ORDER"}     -> 120

AllowExpectedHold(class) == class = "DISPLAY_POSITION"

\* A pairing nobody reviewed is read for display only, and refused before the read.
Readable(pairing, allowUnreviewed) ==
    \/ pairing = "REVIEWED_VERIFIED"
    \/ pairing = "INFERRED_UNREVIEWED" /\ allowUnreviewed

\* {} for every refusal and failure.
ReadEquityFeed(feed, pairing, allowUnreviewed) ==
    IF Readable(pairing, allowUnreviewed) /\ feed.reachable
       /\ feed.round.decimals = feed.manifestDecimals
    THEN {feed.round} ELSE {}

\* A read that fails is not "up".
ReadSequencer(feed) == IF feed.reachable THEN {feed.sequencer} ELSE {}

\* assertComparable: all from one block.
AssertComparable(blocks) == Cardinality(blocks) <= 1

\* Mutant: a sequencer that has just come back counts as up.
SequencerAnswers(input) == input.sequencer.answer = 0

\* Up, and past the grace that follows an outage.
SequencerServes(input) ==
    /\ input.sequencer.answer = 0
    /\ input.time - input.sequencer.startedAt >= input.grace

RoundIsValid(input) ==
    /\ input.round.decimals = input.manifestDecimals
    /\ input.round.answer > 0
    /\ input.round.updatedAt # 0
    /\ input.round.updatedAt <= input.time
    /\ input.round.answeredInRound >= input.round.roundId

\* Each condition makes the ones after it meaningless, so the order is part of the answer.
EvaluateFreshness(input) ==
    IF ~SequencerServes(input) THEN "SEQUENCER_UNAVAILABLE"
    ELSE IF input.issuerPaused \/ input.tokenPaused THEN "ISSUER_PAUSED"
    ELSE IF ~RoundIsValid(input) THEN "INVALID_ROUND"
    ELSE IF input.time - input.round.updatedAt <= MaxAgeSeconds(input.class) THEN "FRESH"
    ELSE IF ~input.expectedPublishing THEN "EXPECTED_HOLD"
    ELSE "STALE"

Actionable(verdict) == verdict = "FRESH"
UsableForDisplay(verdict, class) ==
    Actionable(verdict) \/ (verdict = "EXPECTED_HOLD" /\ AllowExpectedHold(class))

=============================================================================
