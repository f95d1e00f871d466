--------------------------- MODULE B20StateMachine ---------------------------
(***************************************************************************)
(* From evidence to one operational state.                                 *)
(*   packages/reconciler/src/b20-state-machine.ts                          *)
(*                                                                         *)
(* Evidence is a record; None where the code distinguishes "not read" from *)
(* a value.  An illegal transition is thrown, which leaves the caller with *)
(* the state it had.                                                       *)
(***************************************************************************)
EXTENDS Integers, FiniteSets, B20Lifecycle

States ==
    {"DISCOVERED", "OBSERVING", "NORMAL", "ACTION_PENDING", "GUARD_WINDOW",
     "ACTION_EFFECTIVE", "RECONCILING", "VERIFIED", "CONFLICT",
     "INSUFFICIENT_EVIDENCE", "REORGED", "MANUAL_REVIEW", "RECOVERING", "UNSUPPORTED"}

LegalFrom(from) ==
    CASE from = "DISCOVERED" ->
            {"OBSERVING", "UNSUPPORTED", "INSUFFICIENT_EVIDENCE", "CONFLICT"}
      [] from = "OBSERVING" ->
            {"NORMAL", "INSUFFICIENT_EVIDENCE", "CONFLICT", "UNSUPPORTED", "REORGED"}
      [] from = "NORMAL" ->
            {"ACTION_PENDING", "ACTION_EFFECTIVE", "INSUFFICIENT_EVIDENCE", "CONFLICT",
             "REORGED", "MANUAL_REVIEW", "NORMAL"}
      [] from = "ACTION_PENDING" ->
            {"GUARD_WINDOW", "NORMAL", "CONFLICT", "REORGED", "INSUFFICIENT_EVIDENCE"}
      [] from = "GUARD_WINDOW" ->
            {"ACTION_EFFECTIVE", "NORMAL", "CONFLICT", "REORGED", "MANUAL_REVIEW"}
      [] from = "ACTION_EFFECTIVE" ->
            {"RECONCILING", "CONFLICT", "REORGED", "INSUFFICIENT_EVIDENCE"}
      [] from = "RECONCILING" ->
            {"VERIFIED", "CONFLICT", "INSUFFICIENT_EVIDENCE", "MANUAL_REVIEW", "REORGED"}
      [] from = "VERIFIED" ->
            {"NORMAL", "ACTION_PENDING", "REORGED", "CONFLICT", "MANUAL_REVIEW"}
      [] from = "CONFLICT" -> {"RECOVERING", "MANUAL_REVIEW", "REORGED"}
      [] from = "INSUFFICIENT_EVIDENCE" ->
            {"RECOVERING", "OBSERVING", "MANUAL_REVIEW", "REORGED"}
      [] from = "REORGED" -> {"RECOVERING", "MANUAL_REVIEW"}
      [] from = "MANUAL_REVIEW" -> {"RECOVERING"}
      [] from = "RECOVERING" ->
            {"NORMAL", "OBSERVING", "VERIFIED", "CONFLICT", "MANUAL_REVIEW"}
      [] from = "UNSUPPORTED" -> {"DISCOVERED", "OBSERVING"}

IsLegalTransition(from, to) == to \in LegalFrom(from)

\* What may only be left on new evidence.
NeedsNewEvidence(state) == state \in {"VERIFIED", "CONFLICT", "MANUAL_REVIEW", "UNSUPPORTED"}

Severity(state) ==
    CASE state \in {"CONFLICT", "REORGED", "MANUAL_REVIEW"} -> "SAFETY_CRITICAL"
      [] state \in {"GUARD_WINDOW", "INSUFFICIENT_EVIDENCE", "RECOVERING", "UNSUPPORTED"} ->
            "EVIDENCE_DEGRADED"
      [] OTHER -> "INFORMATIONAL"

\* The target when it is legal from here, else its fallback.
Prefer(from, to, fallback) == IF IsLegalTransition(from, to) THEN to ELSE fallback

Toward(to, reasons) == [to |-> to, reasons |-> reasons]

FeedReason(verdict) ==
    CASE verdict = "EXPECTED_HOLD"         -> "B20_FEED_EXPECTED_HOLD"
      [] verdict = "ISSUER_PAUSED"         -> "B20_ISSUER_PAUSED"
      [] verdict = "SEQUENCER_UNAVAILABLE" -> "B20_SEQUENCER_DOWN"
      [] verdict = "INVALID_ROUND"         -> "B20_FEED_INVALID_ROUND"
      [] OTHER                             -> "B20_FEED_STALE"

\* 1-4. The branch, the asset, the chain, an operator.
Urgent(from, e) ==
    IF e.reorgBeyondLookback
    THEN Toward(Prefer(from, "MANUAL_REVIEW", "REORGED"), {"B20_REORG_BEYOND_LOOKBACK"})
    ELSE IF e.reorgDetected THEN Toward("REORGED", {"B20_REORG_DETECTED"})
    ELSE IF e.assetIsFixture THEN Toward("UNSUPPORTED", {"B20_FIXTURE_NOT_PRODUCTION"})
    ELSE IF e.assetVerified = None
    THEN Toward("INSUFFICIENT_EVIDENCE", {"B20_UNKNOWN_ASSET"})
    ELSE IF e.assetVerified = "no" THEN Toward("CONFLICT", {"B20_NOT_ON_OFFICIAL_LIST"})
    ELSE IF ~e.rpcReachable
    THEN Toward(Prefer(from, "INSUFFICIENT_EVIDENCE", "OBSERVING"), {"B20_RPC_UNAVAILABLE"})
    ELSE IF ~e.blocksComparable THEN Toward("CONFLICT", {"B20_EVIDENCE_BLOCK_MISMATCH"})
    ELSE IF e.openIncident
    THEN Toward(Prefer(from, "MANUAL_REVIEW", "RECOVERING"), {"B20_MANUAL_REVIEW_REQUIRED"})
    ELSE Toward(None, {})

\* 5. What correlation concluded.
FromCase(from, e) ==
    CASE e.caseOutcome = "CONFLICT" -> Toward("CONFLICT", {"B20_MULTIPLIER_CONTINUITY_BROKEN"})
      [] e.caseOutcome = "MANUAL_REVIEW" ->
            Toward(Prefer(from, "MANUAL_REVIEW", "RECOVERING"), {"B20_MANUAL_REVIEW_REQUIRED"})
      [] OTHER -> Toward(None, {})

\* Mutant: only what is due or beyond the window is looked at.
FromFarSchedule(from, e) ==
    IF e.pendingAt = None THEN Toward(None, {})
    ELSE IF e.pendingAt > e.time
    THEN Toward(Prefer(from, "ACTION_PENDING", "NORMAL"), {"B20_SCHEDULE_NOT_YET_EFFECTIVE"})
    ELSE Toward(Prefer(from, "ACTION_EFFECTIVE", "RECONCILING"), {})

\* 6. The schedule and the window before it.
FromSchedule(from, e) ==
    IF e.pendingAt = None THEN Toward(None, {})
    ELSE IF e.pendingAt - e.time > e.guardWindow
    THEN Toward(Prefer(from, "ACTION_PENDING", "NORMAL"), {"B20_SCHEDULE_NOT_YET_EFFECTIVE"})
    ELSE IF e.pendingAt > e.time
    THEN Toward(Prefer(from, "GUARD_WINDOW", "ACTION_PENDING"), {"B20_SCHEDULE_NOT_YET_EFFECTIVE"})
    ELSE Toward(Prefer(from, "ACTION_EFFECTIVE", "RECONCILING"), {})

\* Mutant: an absent price is not looked at.
FromPresentEvidence(from, e) ==
    IF e.scheduledUpdates # "LIVE"
    THEN Toward(Prefer(from, "NORMAL", "OBSERVING"), {"B20_UNSUPPORTED_CAPABILITY"})
    ELSE IF e.tokenPaused
    THEN Toward(Prefer(from, "GUARD_WINDOW", Prefer(from, "INSUFFICIENT_EVIDENCE", "NORMAL")),
                {"B20_TOKEN_PAUSED"})
    ELSE IF e.feedVerdict \in {None, "FRESH"} THEN Toward(None, {})
    ELSE Toward(Prefer(from, "INSUFFICIENT_EVIDENCE", "OBSERVING"),
                {FeedReason(e.feedVerdict)})

\* 7-8. What cannot be asked, the pause, the price.
FromEvidence(from, e) ==
    IF e.scheduledUpdates # "LIVE"
    THEN Toward(Prefer(from, "NORMAL", "OBSERVING"), {"B20_UNSUPPORTED_CAPABILITY"})
    ELSE IF e.tokenPaused
    THEN Toward(Prefer(from, "GUARD_WINDOW", Prefer(from, "INSUFFICIENT_EVIDENCE", "NORMAL")),
                {"B20_TOKEN_PAUSED"})
    ELSE IF e.pairingReviewed /\ e.feedVerdict = "FRESH" THEN Toward(None, {})
    ELSE Toward(Prefer(from, "INSUFFICIENT_EVIDENCE", "OBSERVING"),
                {IF ~e.pairingReviewed THEN "B20_FEED_PAIRING_UNREVIEWED"
                 ELSE IF e.feedVerdict = None THEN "B20_RPC_UNAVAILABLE"
                 ELSE FeedReason(e.feedVerdict)})

\* 9. Everything mandatory is present and agrees.
Agreed(from) ==
    IF from \in {"RECONCILING", "ACTION_EFFECTIVE", "RECOVERING"}
    THEN Toward(Prefer(from, "VERIFIED", "NORMAL"), {})
    ELSE IF from = "DISCOVERED" THEN Toward("OBSERVING", {})
    ELSE Toward(Prefer(from, "NORMAL", from), {})

\* The first concern that has something to say decides.
Wanted(from, e) ==
    LET concerns == <<Urgent(from, e), FromCase(from, e), FromSchedule(from, e),
                      FromEvidence(from, e), Agreed(from)>>
    IN  concerns[SelectInSeq(concerns, LAMBDA concern : concern.to # None)]

\* nextB20State: the transition, or IllegalTransitionError.
Throws(from, e) == ~IsLegalTransition(from, Wanted(from, e).to)

NextB20State(from, e) == IF Throws(from, e) THEN from ELSE Wanted(from, e).to

\* Collapses repeated incidents: no block and no time in it.
IncidentSignature(asset, transition) == <<asset, transition.to, transition.reasons>>

=============================================================================
