--------------------------- MODULE B20Correlation ---------------------------
(***************************************************************************)
(* One case per multiplier change: what belongs to it, what is missing.    *)
(*   packages/reconciler/src/b20-correlator.ts                             *)
(*                                                                         *)
(* Announcements, pauses and rounds come as sequences, because the code    *)
(* takes the first that fits.  A declared ratio is a pair.                 *)
(***************************************************************************)
EXTENDS B20Lifecycle

CaseOutcomes ==
    {"VERIFIED", "PENDING", "CONFLICT", "INSUFFICIENT_EVIDENCE", "MANUAL_REVIEW"}

\* Array.find: the first that fits, or None.
First(seq, Test(_)) ==
    LET i == SelectInSeq(seq, Test) IN IF i = 0 THEN None ELSE seq[i]

\* The link is the block range, never a description.
BracketOf(change, announcements) ==
    First(announcements, LAMBDA a : /\ a.openedAt <= change.block
                                    /\ a.closedAt = None \/ a.closedAt >= change.block)

PauseBefore(change, pauses) ==
    First(pauses, LAMBDA p : p.paused /\ p.block <= change.block)

UnpauseAfter(change, pauses) ==
    First(pauses, LAMBDA p : ~p.paused /\ p.block >= change.block)

RoundAfter(change, rounds) == First(rounds, LAMBDA r : r >= change.block)

\* Only attested structured evidence whose ratio reproduces the change types it.
Classify(evidence, change) ==
    IF evidence = None \/ ~evidence.attested THEN [event |-> "UNKNOWN", status |-> "UNKNOWN"]
    ELSE IF change.old = None THEN [event |-> evidence.eventType, status |-> "CONFLICT"]
    ELSE IF evidence.denominator = 0 THEN [event |-> "UNKNOWN", status |-> "CONFLICT"]
    ELSE [event |-> evidence.eventType,
          status |-> IF (change.old * evidence.numerator) \div evidence.denominator = change.new
                     THEN "VERIFIED" ELSE "CONFLICT"]

Unmoved(change) == change.old # None /\ change.new = change.old

UnpausedTooSoon(input, change) ==
    RoundAfter(change, input.rounds) = None /\ UnpauseAfter(change, input.pauses) # None

\* Named absences; nothing is assumed away.
Missing(input, change) ==
    LET bracket == BracketOf(change, input.announcements)
        absent == [ announcement |-> bracket = None,
                    closing |-> bracket # None /\ bracket.closedAt = None,
                    unpause |-> /\ PauseBefore(change, input.pauses) # None
                                /\ UnpauseAfter(change, input.pauses) = None,
                    round |-> UnpausedTooSoon(input, change),
                    movement |-> Unmoved(change),
                    typing |-> Classify(input.evidence, change).status # "VERIFIED" ]
    IN  {name \in DOMAIN absent : absent[name]}

CaseReasons(input, change) ==
    (IF UnpausedTooSoon(input, change) THEN {"B20_FEED_REGISTRY_DISAGREEMENT"} ELSE {})
    \cup (IF Unmoved(change) THEN {"B20_MULTIPLIER_CONTINUITY_BROKEN"} ELSE {})
    \cup (IF "typing" \in Missing(input, change) THEN {"B20_UNCLASSIFIED_BUSINESS_EVENT"} ELSE {})

\* An effectiveAt that was not carried counts as the beginning of time.
Age(input, change) ==
    input.time - (IF change.effectiveAt = None THEN 0 ELSE change.effectiveAt)

DecideOutcome(input, change) ==
    IF CaseReasons(input, change) \cap
         {"B20_MULTIPLIER_CONTINUITY_BROKEN", "B20_FEED_REGISTRY_DISAGREEMENT"} # {}
    THEN "CONFLICT"
    ELSE IF change.effectiveAt # None /\ change.effectiveAt > input.time THEN "PENDING"
    ELSE IF Missing(input, change) = {} THEN "VERIFIED"
    ELSE IF Age(input, change) > input.sla THEN "MANUAL_REVIEW" ELSE "INSUFFICIENT_EVIDENCE"

BuildCase(input, change) ==
    LET outcome == DecideOutcome(input, change)
        class == Classify(input.evidence, change)
    IN  [anchor |-> change.id, outcome |-> outcome,
         event |-> class.event, classification |-> class.status,
         missing |-> Missing(input, change),
         reasons |-> CaseReasons(input, change)
                     \cup (IF outcome = "MANUAL_REVIEW" THEN {"B20_MANUAL_REVIEW_REQUIRED"}
                           ELSE {}),
         before |-> change.old, after |-> change.new]

\* An announcement with no change is a case too, and only then.
MetadataCase(a) ==
    [anchor |-> a.id, outcome |-> "INSUFFICIENT_EVIDENCE", event |-> "UNKNOWN",
     classification |-> "UNKNOWN", missing |-> {"change"},
     reasons |-> {"B20_UNCLASSIFIED_BUSINESS_EVENT"}, before |-> None, after |-> None]

CorrelateB20Cases(input) ==
    IF input.changes = <<>>
    THEN [i \in DOMAIN input.announcements |-> MetadataCase(input.announcements[i])]
    ELSE LET sorted == SortSeq(input.changes, LAMBDA a, b : a.block < b.block)
         IN  [i \in DOMAIN sorted |-> BuildCase(input, sorted[i])]

=============================================================================
