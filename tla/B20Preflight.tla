---------------------------- MODULE B20Preflight ----------------------------
(***************************************************************************)
(* One decision, bound to one operation, under the evidence its class of   *)
(* action requires.                                                        *)
(*   packages/domain/src/b20/preflight.ts                                  *)
(***************************************************************************)
EXTENDS B20Price, B20Identity

\* What a class requires besides a verified identity: nothing, a price, or all of it.
MovesValue(class) == class \notin {"DISPLAY_POSITION", "QUOTE"}
NeedsPrice(class) == class # "DISPLAY_POSITION"

If(condition, reason) == IF condition THEN {reason} ELSE {}

PriceReason(verdict) ==
    CASE verdict = "EXPECTED_HOLD"         -> "B20_FEED_EXPECTED_HOLD"
      [] verdict = "ISSUER_PAUSED"         -> "B20_ISSUER_PAUSED"
      [] verdict = "SEQUENCER_UNAVAILABLE" -> "B20_SEQUENCER_DOWN"
      [] verdict = "INVALID_ROUND"         -> "B20_FEED_INVALID_ROUND"
      [] OTHER                             -> "B20_FEED_STALE"

IdentityReasons(e) ==
    If(e.isFixture, "B20_FIXTURE_NOT_PRODUCTION")
    \cup If(e.identityStatus = None, "B20_UNKNOWN_ASSET")
    \cup If(e.identityStatus \in {"CONFLICT", "CHANGED"}, "B20_IDENTITY_DRIFT")
    \cup If(e.identityStatus \in {"RETIRED", "UNKNOWN"}, "B20_NOT_ON_OFFICIAL_LIST")

\* A known asset whose multiplier was not read, or is not the one the caller sized it with.
MultiplierReasons(op, e, observed) ==
    If(e.identityStatus # None /\ observed = None, "B20_RPC_UNAVAILABLE")
    \cup If(e.identityStatus # None /\ observed # None /\ observed # op.expectedMultiplier,
            "B20_MULTIPLIER_CONTINUITY_BROKEN")

InsideWindow(e) ==
    /\ e.secondsUntilActivation # None
    /\ e.secondsUntilActivation > 0
    /\ e.secondsUntilActivation <= e.guardWindow

PriceReasons(e) ==
    If(~e.pairingReviewed, "B20_FEED_PAIRING_UNREVIEWED")
    \cup (IF e.priceVerdict = None THEN {"B20_RPC_UNAVAILABLE"}
          ELSE If(e.priceVerdict # "FRESH", PriceReason(e.priceVerdict)))
    \cup If(e.sequencerHealthy = None, "B20_RPC_UNAVAILABLE")
    \cup If(e.sequencerHealthy = FALSE, "B20_SEQUENCER_DOWN")

Reasons(op, e, observed) ==
    IdentityReasons(e)
    \cup If(~e.blocksComparable, "B20_EVIDENCE_BLOCK_MISMATCH")
    \cup MultiplierReasons(op, e, observed)
    \cup If(MovesValue(op.class) /\ ~e.targetConfigured, "B20_UNSUPPORTED_ACTION_CLASS")
    \cup If(e.tokenPaused, "B20_TOKEN_PAUSED")
    \cup (IF ~NeedsPrice(op.class) THEN {}
          ELSE If(e.scheduleCapability # "LIVE", "B20_UNSUPPORTED_CAPABILITY")
               \cup If(InsideWindow(e), "B20_SCHEDULE_NOT_YET_EFFECTIVE")
               \cup PriceReasons(e))
    \cup If(e.openIncident, "B20_MANUAL_REVIEW_REQUIRED")

\* hasHardBlock: every reason but these two.
HasHardBlock(reasons) == reasons \ {"B20_IDENTITY_DRIFT", "B20_MANUAL_REVIEW_REQUIRED"} # {}

\* A rename or an open incident asks for a person, unless something worse is there.
Decide(e, reasons) ==
    IF reasons = {} THEN "ALLOW"
    ELSE IF (e.identityStatus = "CHANGED" \/ e.openIncident) /\ ~HasHardBlock(reasons)
    THEN "REVIEW" ELSE "BLOCK"

EvaluateB20Preflight(op, e, observed) == Decide(e, Reasons(op, e, observed))

ReceiptEligible(op, decision) == decision = "ALLOW" /\ MovesValue(op.class)

\* The bytes a request is known by: every field but the identifier it is given later.
CanonicalizeB20Operation(op) == [field \in DOMAIN op \ {"operationId"} |-> op[field]]

=============================================================================
