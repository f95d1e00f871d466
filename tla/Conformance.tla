---------------------------- MODULE Conformance ----------------------------
(***************************************************************************)
(* The conformance suite: fifteen small worlds, and the runner that plays  *)
(* them one after the other into one adapter and asks each world's         *)
(* question.                                                               *)
(*   packages/conformance/src/scenarios.ts, runner.ts                      *)
(***************************************************************************)
EXTENDS ReferenceAdapter

T0 == 1788000000
At(offset) == T0 + 2 * offset

NoFields == [name \in {} |-> None]

Fact(kind, offset, fields) ==
    [kind |-> kind, block |-> 1000 + offset, tx |-> 0, time |-> At(offset), fields |-> fields]

Asset == Fact("ASSET_STATE", 0, [multiplier |-> One])
Legacy(offset, new) == Fact("MULTIPLIER_UPDATED_LEGACY", offset, [new |-> new])
Scheduled(offset, new, effective) ==
    Fact("MULTIPLIER_UPDATED", offset, [new |-> new, effectiveAt |-> At(effective)])
Instant(offset, new) == Scheduled(offset, new, offset)
Cancelled(offset) == Fact("SCHEDULE_CANCELLED", offset, NoFields)
Round(offset, answer) == Fact("FEED_ROUND", offset, [answer |-> answer])
Opened(offset) == Fact("ANNOUNCEMENT_OPENED", offset, NoFields)
Closed(offset) == Fact("ANNOUNCEMENT_CLOSED", offset, NoFields)
Sequencer(offset, answer) ==
    Fact("SEQUENCER_STATUS", offset, [answer |-> answer, startedAt |-> At(offset)])

Asked(id, facts, offset, question, answer, required, forbidden) ==
    [id |-> id, facts |-> facts, time |-> At(offset), question |-> question,
     answer |-> answer, required |-> required, forbidden |-> forbidden]

\* The catalogue, in its order.
SplitScenarios == <<
    Asked("DIVIDEND_SHAPED_INCREASE_STAYS_UNKNOWN",
        <<Asset, Opened(5), Instant(5, 10032), Closed(5)>>,
        20, "ACTION_CLASSIFICATION", <<"UNKNOWN">>, {"B20_UNCLASSIFIED_BUSINESS_EVENT"}, {}),
    Asked("FORWARD_SPLIT_10_TO_1",
        <<Asset, Round(0, 200), Instant(10, 10 * One), Round(11, 200)>>,
        20, "POSITION_VALUE", <<"VALUE", RawHeld * 200>>, {}, {"B20_DOUBLE_MULTIPLIER_APPLIED"}),
    Asked("REVERSE_SPLIT_1_TO_10_WITH_PAUSE",
        <<Asset, Fact("PAUSED", 5, NoFields), Instant(6, One \div 10),
          Fact("UNPAUSED", 8, NoFields)>>,
        7, "PREFLIGHT_DECISION", <<"BLOCK">>, {"B20_TOKEN_PAUSED"}, {}) >>

ScheduleScenarios == <<
    Asked("SCHEDULE_CANCELLED_BEFORE_EFFECTIVE",
        <<Asset, Scheduled(5, 10 * One, 100), Cancelled(50)>>,
        200, "SHARE_EQUIVALENT", <<"SHARES", RawHeld>>, {"B20_SCHEDULE_CANCELLED"}, {}),
    Asked("CANCEL_AND_RESCHEDULE",
        <<Asset, Scheduled(5, 10 * One, 100), Opened(50), Cancelled(50),
          Scheduled(50, 10 * One, 300), Closed(50)>>,
        150, "PENDING_ACTION", <<"AT", At(300)>>, {"B20_SCHEDULE_NOT_YET_EFFECTIVE"}, {}),
    Asked("INSTANT_OVERRIDE_CLEARS_PENDING",
        <<Asset, Scheduled(5, 10 * One, 100), Legacy(50, 2 * One), Instant(50, 2 * One)>>,
        200, "SHARE_EQUIVALENT", <<"SHARES", 2 * RawHeld>>, {"B20_SCHEDULE_SUPERSEDED"}, {}),
    Asked("LEGACY_AND_CANONICAL_ONE_UPDATE",
        <<Asset, Legacy(10, 3 * One), Instant(10, 3 * One), Instant(14, 3 * One)>>,
        20, "RESTATEMENT_COUNT", <<"COUNT", 2>>, {"B20_DUPLICATE_EVENT_GENERATION"}, {}) >>

EvidenceScenarios == <<
    Asked("SYMBOL_RENAME_STABLE_IDENTITY",
        <<Asset, Fact("METADATA_CHANGED", 10, [symbol |-> "AAPLXc"])>>,
        20, "ASSET_IDENTITY", <<"ASSET", "AAPL">>, {"B20_IDENTITY_DRIFT"}, {"B20_UNKNOWN_ASSET"}),
    Asked("CHAINLINK_ISSUER_PAUSE",
        <<Asset, Fact("FEED_ROUND", 0, [answer |-> 200, issuerPaused |-> FALSE]),
          Fact("FEED_ROUND", 10, [answer |-> 200, issuerPaused |-> TRUE])>>,
        20, "POSITION_VALUE", <<"UNAVAILABLE">>, {"B20_ISSUER_PAUSED"}, {}),
    Asked("OFF_HOURS_HOLD_VERSUS_STALE",
        <<Asset, Fact("FEED_ROUND", 0, [answer |-> 320, updatedAt |-> At(20) - 224190,
                                        publishing |-> FALSE])>>,
        20, "POSITION_VALUE", <<"NON_ACTIONABLE">>, {"B20_FEED_EXPECTED_HOLD"},
        {"B20_FEED_STALE"}),
    Asked("SEQUENCER_DOWN_AND_GRACE",
        <<Asset, Sequencer(10, 1), Sequencer(18, 0), Round(19, 200)>>,
        20, "PREFLIGHT_DECISION", <<"BLOCK">>, {"B20_SEQUENCER_GRACE_PERIOD"}, {}),
    Asked("SHALLOW_REORG_REPLACES_ACTION",
        <<Asset, Instant(10, 10 * One), Fact("REORG", 12, NoFields)>>,
        20, "SHARE_EQUIVALENT", <<"REORGED">>, {"B20_REORG_DETECTED"}, {}),
    Asked("WRONG_TOKEN_FEED_MAPPING",
        <<Asset, Fact("FEED_ROUND", 0, [answer |-> 450, reviewed |-> FALSE])>>,
        20, "POSITION_VALUE", <<"UNAVAILABLE">>, {"B20_FEED_PAIRING_UNREVIEWED"}, {}),
    Asked("FAKE_B20_PREFIX_ASSET",
        <<Fact("ASSET_STATE", 0, [address |-> "DEADBEEF", multiplier |-> One,
                                  listed |-> FALSE])>>,
        20, "ASSET_IDENTITY", <<"UNKNOWN">>,
        {"B20_NOT_ON_OFFICIAL_LIST", "B20_PREFIX_ONLY_IDENTITY"}, {}),
    Asked("CONCURRENT_SAME_KEY_PREFLIGHT",
        <<Asset, Round(0, 200)>>,
        20, "PREFLIGHT_DECISION", <<"ONE_RESULT_ONE_RECEIPT">>, {},
        {"B20_IDEMPOTENCY_CONFLICT"}) >>

Scenarios == SplitScenarios \o ScheduleScenarios \o EvidenceScenarios

\* MUTANT_TARGETS: the scenario each bug must fail.
Target(flag) ==
    CASE flag = "rawAsShares"       -> "INSTANT_OVERRIDE_CLEARS_PENDING"
      [] flag = "doubleMultiplier"  -> "FORWARD_SPLIT_10_TO_1"
      [] flag = "activateOnArrival" -> "CANCEL_AND_RESCHEDULE"
      [] flag = "ignoreCancel"      -> "SCHEDULE_CANCELLED_BEFORE_EFFECTIVE"
      [] flag = "keyByTicker"       -> "SYMBOL_RENAME_STABLE_IDENTITY"
      [] flag = "acceptStaleFeed"   -> "OFF_HOURS_HOLD_VERSUS_STALE"
      [] flag = "duplicateOnRetry"  -> "LEGACY_AND_CANONICAL_ONE_UPDATE"
      [] flag = "swallowReorg"      -> "SHALLOW_REORG_REPLACES_ACTION"

-----------------------------------------------------------------------------

VARIABLES
    flags,          \* which bugs the adapter under test has
    adapter,        \* its state
    order,          \* the scenarios still to run, in the caller's order
    fed,            \* how many facts of the first of them have been looked at
    cases           \* scenario -> status of the cases run

vars == <<flags, adapter, order, fed, cases>>

Init ==
    /\ flags \in {{}} \cup {{f} : f \in Flags}
    /\ adapter = FreshState
    /\ order \in {Scenarios, Reverse(Scenarios)}
    /\ fed = 0
    /\ cases = [id \in {} |-> "PASS"]

Current == Head(order)

AnyFact(fact) == TRUE

\* What lies after the question's instant is never shown to the adapter.
ObservableFact(fact) == fact.time <= Current.time

IngestFact ==
    /\ order # <<>>
    /\ fed < Len(Current.facts)
    /\ LET fact == Current.facts[fed + 1]
       IN  adapter' = IF ObservableFact(fact) THEN Ingest(adapter, fact, flags) ELSE adapter
    /\ fed' = fed + 1
    /\ UNCHANGED <<flags, order, cases>>

\* Right answer, every required reason, no forbidden one.
Status(said) ==
    IF said.answer = Current.answer /\ Current.required \subseteq said.reasons
                                    /\ Current.forbidden \cap said.reasons = {}
    THEN "PASS" ELSE "FAIL"

\* reset before every scenario.
ResetAdapter(state) == FreshState

Ask ==
    /\ order # <<>>
    /\ fed = Len(Current.facts)
    /\ LET said == Answer(adapter, Current.question, Current.time, flags)
       IN  cases' = cases @@ (Current.id :> Status(said))
    /\ order' = Tail(order)
    /\ adapter' = ResetAdapter(adapter)
    /\ fed' = 0
    /\ UNCHANGED flags

Next == IngestFact \/ Ask

Spec == Init /\ [][Next]_vars

-----------------------------------------------------------------------------

Conformant == order = <<>> /\ \A id \in DOMAIN cases : cases[id] = "PASS"

(* The suite accepts the correct integration and tells each bug from it:   *)
(* whatever the order of the cases, the reference passes every one and a   *)
(* mutant fails the one written for it, nothing else deciding the verdict  *)
(* than the facts a case feeds (runner.ts:110-120, reference.ts:357-402).  *)
SuiteDiscriminates ==
    /\ flags = {} => \A id \in DOMAIN cases : cases[id] = "PASS"
    /\ order = <<>> => (Conformant <=> flags = {})
    /\ \A f \in flags : Target(f) \in DOMAIN cases => cases[Target(f)] = "FAIL"

=============================================================================
