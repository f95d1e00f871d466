-------------------------- MODULE ReferenceAdapter --------------------------
(***************************************************************************)
(* The smallest integration that gets B20 multipliers right, and the eight *)
(* one-line bugs the suite must tell from it.                              *)
(*   packages/conformance/src/reference.ts, adapter.ts                     *)
(*                                                                         *)
(* A fact's fields are a function over the names it carries.  An answer is *)
(* a tagged tuple where the code formats a string; numbers keep the ratio  *)
(* of the code's and not its 18 digits.                                    *)
(***************************************************************************)
EXTENDS Integers, Sequences, SequencesExt, FiniteSets

CONSTANT None

One == 10000                    \* 1e18 in the code
RawHeld == 100                  \* one holder's position
SequencerGrace == 1800
MaxFeedAge == 3600

Flags ==
    {"rawAsShares", "doubleMultiplier", "activateOnArrival", "ignoreCancel",
     "keyByTicker", "acceptStaleFeed", "duplicateOnRetry", "swallowReorg"}

FreshState ==
    [address |-> "AAPL", multiplier |-> One, pending |-> None,
     cancelled |-> FALSE, superseded |-> FALSE, duplicate |-> FALSE,
     symbol |-> "AAPLc", listed |-> TRUE, paused |-> FALSE, reorged |-> FALSE,
     issuerPaused |-> FALSE, feed |-> None, publishing |-> TRUE, reviewed |-> TRUE,
     sequencer |-> 0, sequencerSince |-> 0, seen |-> {}, restatements |-> 0]

Has(fact, name) == name \in DOMAIN fact.fields
FieldOr(fact, name, default) == IF Has(fact, name) THEN fact.fields[name] ELSE default

\* The emission a fact belongs to: block, transaction and value.
UpdateKey(fact) == <<fact.block, fact.tx, fact.fields.new>>

IngestAsset(s, fact) ==
    [s EXCEPT !.address = FieldOr(fact, "address", @),
              !.multiplier = FieldOr(fact, "multiplier", @),
              !.symbol = FieldOr(fact, "symbol", @),
              !.listed = FieldOr(fact, "listed", @)]

\* A value in force at once clears what was pending.
SetMultiplier(s, value) ==
    [s EXCEPT !.multiplier = value, !.pending = None,
              !.superseded = @ \/ s.pending # None]

Booked(s, fact) ==
    [s EXCEPT !.seen = @ \cup {UpdateKey(fact)}, !.restatements = @ + 1]

IngestLegacy(s, fact, flags) ==
    IF UpdateKey(fact) \in s.seen /\ "duplicateOnRetry" \notin flags THEN s
    ELSE SetMultiplier([Booked(s, fact) EXCEPT !.duplicate = TRUE], fact.fields.new)

IngestUpdate(s, fact, flags) ==
    LET again == UpdateKey(fact) \in s.seen
        told == [s EXCEPT !.duplicate = @ \/ again]
        booked == Booked(told, fact)
        scheduled == fact.fields.effectiveAt > fact.time
    IN  IF again /\ "duplicateOnRetry" \notin flags THEN told
        ELSE IF scheduled /\ "activateOnArrival" \notin flags
        THEN [booked EXCEPT
                !.pending = [value |-> fact.fields.new, at |-> fact.fields.effectiveAt],
                !.cancelled = FALSE]
        ELSE SetMultiplier(booked, fact.fields.new)

IngestCancel(s, flags) ==
    IF "ignoreCancel" \in flags THEN s
    ELSE [s EXCEPT !.pending = None, !.cancelled = TRUE]

IngestFeed(s, fact) ==
    [s EXCEPT !.feed = [answer |-> fact.fields.answer,
                        updatedAt |-> FieldOr(fact, "updatedAt", fact.time)],
              !.issuerPaused = FieldOr(fact, "issuerPaused", @),
              !.publishing = FieldOr(fact, "publishing", @),
              !.reviewed = FieldOr(fact, "reviewed", @)]

Ingest(s, fact, flags) ==
    CASE fact.kind = "ASSET_STATE"               -> IngestAsset(s, fact)
      [] fact.kind = "MULTIPLIER_UPDATED_LEGACY" -> IngestLegacy(s, fact, flags)
      [] fact.kind = "MULTIPLIER_UPDATED"        -> IngestUpdate(s, fact, flags)
      [] fact.kind = "SCHEDULE_CANCELLED"        -> IngestCancel(s, flags)
      [] fact.kind = "PAUSED"                    -> [s EXCEPT !.paused = TRUE]
      [] fact.kind = "UNPAUSED"                  -> [s EXCEPT !.paused = FALSE]
      [] fact.kind = "METADATA_CHANGED" -> [s EXCEPT !.symbol = FieldOr(fact, "symbol", @)]
      [] fact.kind = "FEED_ROUND"                -> IngestFeed(s, fact)
      [] fact.kind = "SEQUENCER_STATUS" ->
            [s EXCEPT !.sequencer = fact.fields.answer, !.sequencerSince = fact.fields.startedAt]
      [] fact.kind = "REORG" -> [s EXCEPT !.reorged = @ \/ "swallowReorg" \notin flags]
      [] fact.kind \in {"ANNOUNCEMENT_OPENED", "ANNOUNCEMENT_CLOSED"} -> s

IngestAll(facts, flags) ==
    FoldLeft(LAMBDA s, fact : Ingest(s, fact, flags), FreshState, facts)

-----------------------------------------------------------------------------
(* Answering at a block timestamp.                                         *)

PendingLive(s, time) == s.pending # None /\ time < s.pending.at

\* Nothing is emitted when a schedule takes effect: it is read off the clock.
MultiplierAt(s, time) ==
    IF s.pending # None /\ time >= s.pending.at THEN s.pending.value ELSE s.multiplier

StateReasons(s, time) ==
    (IF PendingLive(s, time) THEN {"B20_SCHEDULE_NOT_YET_EFFECTIVE"} ELSE {})
    \cup (IF s.cancelled THEN {"B20_SCHEDULE_CANCELLED"} ELSE {})
    \cup (IF s.superseded THEN {"B20_SCHEDULE_SUPERSEDED"} ELSE {})
    \cup (IF s.duplicate THEN {"B20_DUPLICATE_EVENT_GENERATION"} ELSE {})
    \cup (IF s.reorged THEN {"B20_REORG_DETECTED"} ELSE {})

Shares(s, time) == (RawHeld * MultiplierAt(s, time)) \div One

Said(answer, reasons) == [answer |-> answer, reasons |-> reasons]

AnswerIdentity(s, flags) ==
    IF ~s.listed
    THEN Said(<<"UNKNOWN">>, {"B20_NOT_ON_OFFICIAL_LIST", "B20_PREFIX_ONLY_IDENTITY"})
    ELSE Said(IF "keyByTicker" \in flags /\ s.symbol # "AAPLc" THEN <<"UNKNOWN">>
              ELSE <<"ASSET", s.address>>,
              IF s.symbol # "AAPLc" THEN {"B20_IDENTITY_DRIFT"} ELSE {})

\* judgeFreshness, then route A: the raw amount at the price that holds the multiplier.
AnswerValue(s, time, flags) ==
    LET stale == time - s.feed.updatedAt > MaxFeedAge /\ "acceptStaleFeed" \notin flags
        quantity == IF "doubleMultiplier" \in flags THEN Shares(s, time) ELSE RawHeld
    IN  IF ~s.reviewed       THEN Said(<<"UNAVAILABLE">>, {"B20_FEED_PAIRING_UNREVIEWED"})
        ELSE IF s.issuerPaused THEN Said(<<"UNAVAILABLE">>, {"B20_ISSUER_PAUSED"})
        ELSE IF s.feed = None THEN Said(<<"UNAVAILABLE">>, {"B20_RPC_UNAVAILABLE"})
        ELSE IF stale
        THEN Said(<<"NON_ACTIONABLE">>,
                  {IF s.publishing THEN "B20_FEED_STALE" ELSE "B20_FEED_EXPECTED_HOLD"})
        ELSE Said(<<"VALUE", quantity * s.feed.answer>>, {})

AnswerPreflight(s, time) ==
    IF s.paused THEN Said(<<"BLOCK">>, {"B20_TOKEN_PAUSED"})
    ELSE IF s.sequencer # 0 THEN Said(<<"BLOCK">>, {"B20_SEQUENCER_DOWN"})
    ELSE IF s.sequencerSince > 0 /\ time - s.sequencerSince < SequencerGrace
    THEN Said(<<"BLOCK">>, {"B20_SEQUENCER_GRACE_PERIOD"})
    ELSE Said(<<"ONE_RESULT_ONE_RECEIPT">>, {})

AnswerOf(s, question, time, flags) ==
    CASE question = "ASSET_IDENTITY"     -> AnswerIdentity(s, flags)
      [] question = "RESTATEMENT_COUNT"  -> Said(<<"COUNT", s.restatements>>, {})
      [] question = "PENDING_ACTION"     ->
            Said(IF PendingLive(s, time) THEN <<"AT", s.pending.at>> ELSE <<"NONE">>, {})
      [] question = "ACTION_CLASSIFICATION" ->
            Said(<<"UNKNOWN">>, {"B20_UNCLASSIFIED_BUSINESS_EVENT"})
      [] question = "SHARE_EQUIVALENT"   ->
            Said(<<"SHARES", IF "rawAsShares" \in flags THEN RawHeld ELSE Shares(s, time)>>, {})
      [] question = "POSITION_VALUE"     -> AnswerValue(s, time, flags)
      [] question = "PREFLIGHT_DECISION" -> AnswerPreflight(s, time)

\* Derived state of a replaced branch answers nothing but who the asset is.
Answer(s, question, time, flags) ==
    IF s.reorged /\ question # "ASSET_IDENTITY"
    THEN Said(<<"REORGED">>, StateReasons(s, time))
    ELSE LET said == AnswerOf(s, question, time, flags)
         IN  [said EXCEPT !.reasons = @ \cup StateReasons(s, time)]

=============================================================================
