---------------------------- MODULE B20Lifecycle ----------------------------
(***************************************************************************)
(* Which multiplier is active at a block timestamp, from ordered facts.    *)
(*   packages/domain/src/b20/lifecycle.ts                                  *)
(*                                                                         *)
(* A fact is [kind, block, tx, log, time, old, new, effectiveAt], None     *)
(* where the observation carries no such value; None is also the absent    *)
(* multiplier.  The code sorts the facts it is given: they are a set here, *)
(* read in FactBefore's order, and no two facts of one branch tie in it.   *)
(* Reasons are a set: the code may repeat one.                             *)
(***************************************************************************)
EXTENDS Integers, Sequences, SequencesExt, FiniteSets, Folds

CONSTANT None

LifecycleStates ==
    {"LEGACY_ACTIVE", "SCHEDULED_PENDING", "SCHEDULED_ACTIVE_LAZY", "CANCELLED",
     "INSTANT_OVERRIDE", "PAUSED_FOR_ACTION", "RECONCILED", "REORGED",
     "UNSUPPORTED_CAPABILITY"}

FactKinds == {"LEGACY", "UPDATED", "CANCELLED", "SNAPSHOT"}

\* compareFacts: block, then transaction, then log.
FactBefore(a, b) ==
    \/ a.block < b.block
    \/ a.block = b.block /\ a.tx < b.tx
    \/ a.block = b.block /\ a.tx = b.tx /\ a.log < b.log

\* The canonical event of the same transaction with the same value.
HasTwin(fact, facts) ==
    \E other \in facts : /\ other.kind = "UPDATED" /\ other.hash = fact.hash
                         /\ other.tx = fact.tx /\ other.new = fact.new

Folded(facts) == {fact \in facts : fact.kind = "LEGACY" /\ HasTwin(fact, facts)}

\* One open epoch at most: opening one closes the last.
OpenEpoch(epochs, value, from, instant) ==
    LET closed == IF epochs # <<>> /\ Last(epochs).until = None
                  THEN [epochs EXCEPT ![Len(epochs)].until = from] ELSE epochs
    IN  Append(closed, [multiplier |-> value, from |-> from, until |-> None, instant |-> instant])

Unread(seed) ==
    [active |-> seed, pending |-> None, instant |-> FALSE, cancelled |-> FALSE,
     superseded |-> FALSE, reasons |-> {}, epochs |-> <<>>]

Seeded(s, fact) ==
    IF fact.new = None \/ s.active # None THEN s
    ELSE [s EXCEPT !.active = fact.new,
                   !.epochs = OpenEpoch(@, fact.new, fact.time, FALSE)]

\* Mutant: the cancelled update stays pending.
CancelNoted(s) == [s EXCEPT !.cancelled = TRUE]

CancelSeen(s) == [s EXCEPT !.pending = None, !.cancelled = TRUE]

Broken(s) == [s EXCEPT !.reasons = @ \cup {"B20_MULTIPLIER_CONTINUITY_BROKEN"}]

\* A fact whose old value is not what was believed current.
Continued(s, fact) ==
    IF fact.old # None /\ s.active # None /\ fact.old # s.active THEN Broken(s) ELSE s

IsScheduled(fact) ==
    fact.kind = "UPDATED" /\ fact.effectiveAt # None /\ fact.effectiveAt > fact.time

ScheduleSeen(s, fact) ==
    [(IF s.pending # None THEN Broken(s) ELSE s) EXCEPT
        !.pending = [value |-> fact.new, at |-> fact.effectiveAt],
        !.instant = FALSE]

InstantSeen(s, fact, anyFolded) ==
    LET override == fact.kind = "LEGACY" \/ anyFolded
    IN  [s EXCEPT !.superseded = @ \/ s.pending # None,
                  !.pending = None, !.active = fact.new, !.instant = override,
                  !.epochs = OpenEpoch(@, fact.new, fact.time, override)]

Step(s, fact, anyFolded) ==
    IF fact.kind = "SNAPSHOT" THEN Seeded(s, fact)
    ELSE IF fact.kind = "CANCELLED" THEN CancelSeen(s)
    ELSE IF fact.new = None THEN s
    ELSE IF IsScheduled(fact) THEN ScheduleSeen(Continued(s, fact), fact)
    ELSE InstantSeen(Continued(s, fact), fact, anyFolded)

\* Mutant: facts from after the instant are read too.
AllFacts(facts, time) == facts

\* The loop stops at the first fact from after the instant asked about.
UpTo(facts, time) ==
    {fact \in facts : \A later \in facts : later.time > time => FactBefore(fact, later)}

\* The last of some facts.
Latest(facts) == CHOOSE fact \in facts : \A other \in facts : ~FactBefore(fact, other)

\* What is known once the facts have been read in order.
Read(facts, seed, anyFolded) ==
    MapThenFoldSet(LAMBDA fact, s : Step(s, fact, anyFolded), Unread(seed),
                   LAMBDA fact : fact, Latest, facts)

\* No event marks an activation: it is read off the instant asked about.
Activated(s, time) ==
    IF s.pending = None THEN s
    ELSE IF time < s.pending.at
    THEN [s EXCEPT !.reasons = @ \cup {"B20_SCHEDULE_NOT_YET_EFFECTIVE"}]
    ELSE [s EXCEPT !.active = s.pending.value, !.pending = None,
                   !.epochs = OpenEpoch(@, s.pending.value, s.pending.at, FALSE)]

StateOf(s, time) ==
    CASE s.pending # None /\ time >= s.pending.at          -> "SCHEDULED_ACTIVE_LAZY"
      [] s.pending # None /\ time < s.pending.at           -> "SCHEDULED_PENDING"
      [] s.pending = None /\ s.superseded                  -> "INSTANT_OVERRIDE"
      [] s.pending = None /\ ~s.superseded /\ s.cancelled  -> "CANCELLED"
      [] s.pending = None /\ ~s.superseded /\ ~s.cancelled ->
            IF s.instant THEN "INSTANT_OVERRIDE" ELSE "LEGACY_ACTIVE"

OutcomeReasons(s) ==
    IF s.pending # None THEN {}
    ELSE IF s.superseded THEN {"B20_SCHEDULE_SUPERSEDED"}
    ELSE IF s.cancelled THEN {"B20_SCHEDULE_CANCELLED"} ELSE {}

\* An absence nobody can ask the chain about is not an absence.
CapabilityReasons(state, capabilities) ==
    IF capabilities.scheduledUpdate = "NOT_DIALED"
       /\ state \in {"LEGACY_ACTIVE", "INSTANT_OVERRIDE"}
    THEN {"B20_UNSUPPORTED_CAPABILITY"} ELSE {}

FoldReasons(facts) ==
    IF Folded(facts) # {} THEN {"B20_DUPLICATE_EVENT_GENERATION"} ELSE {}

Result(state, active, pending, epochs, reasons) ==
    [state |-> state, active |-> active, pending |-> pending, epochs |-> epochs,
     reasons |-> reasons]

\* reduceB20Lifecycle, of facts in any order.
ReduceB20Lifecycle(facts, time, capabilities, seed) ==
    LET folded == Folded(facts)
        read == Read(UpTo(facts \ folded, time), seed, folded # {})
        state == StateOf(read, time)
        final == Activated(read, time)
    IN  IF capabilities.currentMultiplier = "UNAVAILABLE"
        THEN Result("UNSUPPORTED_CAPABILITY", None, None, <<>>, {"B20_RPC_UNAVAILABLE"})
        ELSE Result(state, final.active, final.pending, final.epochs,
                    final.reasons \cup OutcomeReasons(read) \cup FoldReasons(facts)
                    \cup CapabilityReasons(state, capabilities))

=============================================================================
