--------------------------- MODULE AssetLifecycle ---------------------------
(***************************************************************************)
(* One asset of the discovered catalog: what the worker's discovery cycle  *)
(* records of it, the reviews its disagreements open, the operator who     *)
(* resolves them, and the preflight that reads both.                       *)
(*   apps/worker/src/discovery.ts      runDiscoveryCycle, journalAsset     *)
(*   packages/reconciler/src/reconcile.ts, packages/domain/src/lifecycle.ts*)
(*   packages/db/src/projections.ts    current_assets, current_incidents   *)
(*   apps/api/src/server.ts            review-resolution                   *)
(*   apps/api/src/index.ts             loadEvidence                        *)
(*                                                                         *)
(* A cycle reads the registry, the chain, the registry's multiplier, the   *)
(* row and the open reviews one after the other, and only then writes, in  *)
(* one transaction that checks its lease.  Workers may be superseded at    *)
(* any of these points (WorkLease says when).                              *)
(*                                                                         *)
(* The registry and the token may answer each read with any view of them.  *)
(* Left out: the age of evidence and the multiplier nonce (GuardedAction   *)
(* has both), so that a preflight here allows at any age; the health rows  *)
(* of the two sources, which no decision reads.                            *)
(***************************************************************************)
EXTENDS Canonicality

CONSTANTS
    Workers,        \* worker processes
    None,           \* no row, no cycle, no evaluation
    Token,          \* the asset's token
    Wrappers,       \* wrappers the registry may declare
    AssetOf,        \* wrapper.asset() of each wrapper
    ChainViews,     \* bound of the model: multipliers and schedules of the token
    ApiViews,       \* bound of the model: multipliers and schedules published
    Horizon,        \* bound of the model: time stops here
    MaxResolutions, \* bound of the model: reviews resolved
    FailureSets,    \* bound of the model: reads that may fail in one snapshot
    GuardBefore,    \* policy.guardBefore
    GuardAfter      \* policy.guardAfter

\* The reads of observeAsset; "other" is newMultiplier() or the nonce.
Reads == {"token", "wrapper", "asset", "multiplier", "activation", "other"}

Schedules == {v.activation : v \in ChainViews \cup ApiViews} \cup {Absent}
Multipliers == {v.multiplier : v \in ChainViews \cup ApiViews} \cup {Absent}

ASSUME LifecycleAssumption ==
    /\ Absent \notin {AssetOf[w] : w \in Wrappers}
    /\ Schedules \ {Absent} \subseteq Nat
    /\ Horizon \in Nat /\ MaxResolutions \in Nat
    /\ GuardBefore \in Nat /\ GuardAfter \in Nat
    /\ FailureSets \subseteq SUBSET Reads
    /\ None \notin Workers
    /\ Absent \notin Nat \cup Wrappers
    /\ \A v \in ChainViews \cup ApiViews :
           v = [multiplier |-> v.multiplier, activation |-> v.activation]
           /\ v.multiplier # Absent

VARIABLES
    time,           \* the present instant
    row,            \* the asset's row of current_assets
    open,           \* signatures of the reviews open or in review
    resolutions,    \* reviews resolved so far
    holder,         \* the worker that holds the discovery lease
    cycle,          \* each worker's cycle in progress
    evaluation      \* what the row read by the preflight in progress says of it

vars == <<time, row, open, resolutions, holder, cycle, evaluation>>

LifecycleStates ==
    {"NORMAL", "PENDING", "GUARD_WINDOW", "APPLIED", "RECONCILED", "MISMATCH",
     "MANUAL_REVIEW", "RECOVERED"}

Reasons == {CheckReason(c) : c \in CheckNames}
           \cup {"SOURCE_MISMATCH", "MANUAL_REVIEW_REQUIRED", "UNAPPLIED_CORPORATE_ACTION"}

\* whole: history, every read behind the recorded agreement succeeded.
\* reviewsRead: history, resolutions when the recording cycle read the reviews.
Row == [lifecycle : LifecycleStates, activation : Schedules, agreement : Agreement,
        canonical : BOOLEAN, current : BOOLEAN, whole : BOOLEAN, reviewsRead : Nat]

\* The phases of a cycle and what it has read by each of them.
Cycle == [at : {"listed", "observed", "compared", "ready"},
          wrapper : Wrappers \cup {Absent}, failed : SUBSET Reads,
          seen : [multiplier : Multipliers, activation : Schedules],
          api : [multiplier : Multipliers, activation : Schedules],
          previous : [lifecycle : LifecycleStates, activation : Schedules],
          review : BOOLEAN, reviewsRead : Nat]

ASSUME NoneAssumption == None \notin Row

TypeOK ==
    /\ time \in 0..Horizon
    /\ row \in Row \cup {None}
    /\ open \subseteq SUBSET Reasons
    /\ resolutions \in 0..MaxResolutions
    /\ holder \in Workers
    /\ cycle \in [Workers -> Cycle \cup {None}]
    /\ evaluation \in {"none", "allows", "blocks"}

Init ==
    /\ time = 0
    /\ row = None
    /\ open = {}
    /\ resolutions = 0
    /\ holder \in Workers
    /\ cycle = [w \in Workers |-> None]
    /\ evaluation = "none"

-----------------------------------------------------------------------------

Tick ==
    /\ time < Horizon
    /\ time' = time + 1
    /\ UNCHANGED <<row, open, resolutions, holder, cycle, evaluation>>

-----------------------------------------------------------------------------
\* deriveLifecycleState and reconcileAsset

\* The schedule a state is derived from: the chain's, or the registry's.
Known(c) == IF c.seen.activation # Absent THEN c.seen.activation ELSE c.api.activation

InGuardWindow(at) == at <= time + GuardBefore /\ time <= at + GuardAfter

DeriveLifecycleState(schedule, mismatched, review, applied, reconciled) ==
    LET settled(otherwise) ==
            IF applied THEN "APPLIED" ELSE IF reconciled THEN "RECONCILED" ELSE otherwise
    IN  CASE review     -> "MANUAL_REVIEW"
          [] ~review /\ mismatched -> "MISMATCH"
          [] ~review /\ ~mismatched /\ schedule = Absent -> settled("NORMAL")
          [] OTHER ->
                IF InGuardWindow(schedule) THEN "GUARD_WINDOW"
                ELSE IF time < schedule THEN "PENDING"
                ELSE IF reconciled THEN "RECONCILED" ELSE settled("MISMATCH")

Snapshot(c) ==
    [token |-> Token, wrapper |-> c.wrapper, failed |-> c.failed,
     code |-> [target \in {"token", "wrapper"} |-> target \notin c.failed],
     wrapperAsset |-> IF "asset" \in c.failed THEN Absent ELSE AssetOf[c.wrapper]]

Checks(c) == VerifyCanonicality([token |-> Token, wrapper |-> c.wrapper], Snapshot(c))

Complete(c) == c.failed = {}

\* The wrapper the chain was read at is the declared one, so it always agrees.
Compared(c) == CompareSources(c.api, c.seen, {"multiplier", "activation"})

\* A partial chain read is not compared here.
Disagree(c) == Complete(c) /\ Compared(c) # "MATCH"

ReconcileReasons(c) ==
    CanonicalityReasons(Checks(c))
    \cup (IF Disagree(c) THEN {"SOURCE_MISMATCH"} ELSE {})
    \cup (IF c.review THEN {"MANUAL_REVIEW_REQUIRED"} ELSE {})

\* Mutant of Matched: an open review no longer stands in the way.
MatchedUnderReview(c) == Complete(c) /\ ReconcileReasons(c) \ {"MANUAL_REVIEW_REQUIRED"} = {}

\* Outcome MATCHED, and what canRecover asks.
Matched(c) == Complete(c) /\ ReconcileReasons(c) = {}

\* A schedule the row has and this snapshot has not reads as applied.
Cleared(c) == c.previous.activation # Absent /\ c.seen.activation = Absent

\* Mutant of Decided: a recorded review is never left.
DecidedInReview(c) ==
    IF c.previous.lifecycle = "MANUAL_REVIEW" THEN "MANUAL_REVIEW"
    ELSE DeriveLifecycleState(Known(c), Disagree(c), c.review, Cleared(c),
             c.previous.lifecycle \in {"APPLIED", "RECOVERED", "RECONCILED"} /\ Matched(c))

\* The recorded state is remembered where the present evidence cannot tell.
Decided(c) ==
    IF Matched(c) /\ c.previous.lifecycle = "MANUAL_REVIEW" THEN "RECOVERED"
    ELSE IF Matched(c) /\ c.previous.lifecycle \in {"APPLIED", "RECOVERED"} THEN "RECONCILED"
    ELSE DeriveLifecycleState(Known(c), Disagree(c), c.review, Cleared(c),
             c.previous.lifecycle = "RECONCILED" /\ ReconcileReasons(c) = {})

\* lifecycleTransitionEvent: whether a decision is journaled at all.
Journaled(c) ==
    CASE Decided(c) = "PENDING" ->
            (c.previous.activation = Absent \/ c.previous.activation # c.seen.activation)
      [] Decided(c) = "MANUAL_REVIEW" -> FALSE
      [] OTHER -> Decided(c) # c.previous.lifecycle

-----------------------------------------------------------------------------
\* One cycle, step by step.

\* Mutant of LeaseHeld: a superseded worker writes.
LeaseIgnored(w) == TRUE

\* A cycle runs under the lease; assertLeaseHeld checks it again in the transaction.
LeaseHeld(w) == holder = w

HasCycle(w, phase) == cycle[w] # None /\ cycle[w].at = phase

Nothing == [multiplier |-> Absent, activation |-> Absent]

\* listAssets: the catalog names the asset's deployment and its v2 wrapper.
ListAsset(w, wrapper) ==
    /\ cycle[w] = None
    /\ LeaseHeld(w)
    /\ cycle' = [cycle EXCEPT ![w] =
           [at |-> IF wrapper = Absent THEN "compared" ELSE "listed",
            wrapper |-> wrapper, failed |-> {}, seen |-> Nothing, api |-> Nothing,
            previous |-> [lifecycle |-> "NORMAL", activation |-> Absent],
            review |-> FALSE, reviewsRead |-> 0]]

\* getHead and observeAsset, every read at that one block.
Observe(w, view, failed) ==
    /\ HasCycle(w, "listed")
    /\ cycle' = [cycle EXCEPT ![w].at = "observed", ![w].failed = failed,
           ![w].seen = [f \in DOMAIN view |-> IF f \in failed THEN Absent ELSE view[f]]]

\* getMultiplier; a failure leaves both of its fields absent.
CompareForAsset(w, view) ==
    /\ HasCycle(w, "observed")
    /\ cycle' = [cycle EXCEPT ![w].at = "compared",
           ![w].api = view]

\* getAsset, then the open reviews, both outside the transaction.
Recall(w) ==
    /\ HasCycle(w, "compared")
    /\ cycle' = [cycle EXCEPT ![w].at = "ready",
           ![w].previous = IF row = None THEN @
                           ELSE [lifecycle |-> row.lifecycle, activation |-> row.activation],
           ![w].review = (open # {}), ![w].reviewsRead = resolutions]

\* The provider fails, the asset's turn ends in an error, or the process dies.
AbandonCycle(w) ==
    /\ cycle[w] # None
    /\ cycle' = [cycle EXCEPT ![w] = None]

\* API_SNAPSHOT_OBSERVED creates the row, or refreshes what the registry owns.
AfterApiSnapshot(c) ==
    IF row = None
    THEN [lifecycle |-> "NORMAL", activation |-> c.api.activation, agreement |-> "INCOMPLETE",
          canonical |-> FALSE, current |-> c.wrapper # Absent, whole |-> FALSE,
          reviewsRead |-> c.reviewsRead]
    ELSE [row EXCEPT !.activation = c.api.activation, !.current = (c.wrapper # Absent)]

\* CHAIN_SNAPSHOT_OBSERVED: the verdict of the comparison alone is recorded.
AfterChainSnapshot(c) ==
    [AfterApiSnapshot(c) EXCEPT
        !.activation = c.seen.activation,
        !.agreement = Compared(c),
        !.canonical = (SummarizeCanonicality(Checks(c)) = "PASS"),
        !.whole = (Complete(c) /\ c.api.multiplier # Absent),
        !.reviewsRead = c.reviewsRead]

\* The lifecycle event, when there is one, records the decision.
AfterDecision(c) ==
    IF Journaled(c)
    THEN [AfterChainSnapshot(c) EXCEPT !.lifecycle = Decided(c)]
    ELSE AfterChainSnapshot(c)

Signature(c) ==
    IF ReconcileReasons(c) = {} THEN {"UNAPPLIED_CORPORATE_ACTION"} ELSE ReconcileReasons(c)

\* Mutant of OpensReviewFor: the mismatch is recorded and nobody is asked.
OpensNoReview(c) == FALSE

\* A mismatch opens a review unless one with its signature is open.
OpensReviewFor(c) == Decided(c) = "MISMATCH" /\ Signature(c) \notin open

\* journalAsset's transaction.
JournalAsset(w) ==
    LET c == cycle[w] IN
    /\ HasCycle(w, "ready")
    /\ LeaseHeld(w)
    /\ cycle' = [cycle EXCEPT ![w] = None]
    /\ IF c.wrapper = Absent
       THEN row' = AfterApiSnapshot(c) /\ UNCHANGED open
       ELSE /\ open' = IF OpensReviewFor(c) THEN open \cup {Signature(c)} ELSE open
            /\ row' = IF OpensReviewFor(c)
                      THEN [AfterDecision(c) EXCEPT !.lifecycle = "MANUAL_REVIEW"]
                      ELSE AfterDecision(c)

\* Another worker takes an expired lease over; a worker runs one cycle at a time.
TakeLease(w) ==
    /\ cycle[w] = None
    /\ holder' = w
    /\ UNCHANGED <<time, row, open, resolutions, cycle, evaluation>>

CycleStep(w) ==
    /\ \/ \E wrapper \in Wrappers \cup {Absent} : ListAsset(w, wrapper)
       \/ \E view \in ChainViews, failed \in FailureSets : Observe(w, view, failed)
       \/ \E view \in ApiViews \cup {Nothing} : CompareForAsset(w, view)
       \/ Recall(w)
       \/ AbandonCycle(w)
    /\ UNCHANGED <<time, row, open, resolutions, holder, evaluation>>

Journal(w) ==
    /\ JournalAsset(w)
    /\ UNCHANGED <<time, resolutions, holder, evaluation>>

-----------------------------------------------------------------------------

\* POST review-resolution: the incident is resolved under its row lock; the
\* asset's row is not touched.
ResolveReview(signature) ==
    /\ signature \in open
    /\ resolutions < MaxResolutions
    /\ open' = open \ {signature}
    /\ resolutions' = resolutions + 1
    /\ UNCHANGED <<time, row, holder, cycle, evaluation>>

\* The reasons of evaluatePreflight this state can raise.
RowAllows(r) ==
    /\ r.canonical
    /\ r.current
    /\ r.agreement = "MATCH"
    /\ r.activation # Absent =>
           ~InGuardWindow(r.activation) /\ ~(time > r.activation + GuardAfter)

\* The instant is taken and loadEvidence reads the row, then the incidents,
\* outside a transaction.
LoadRow ==
    /\ row # None /\ evaluation = "none"
    /\ evaluation' = IF RowAllows(row) THEN "allows" ELSE "blocks"
    /\ UNCHANGED <<time, row, open, resolutions, holder, cycle>>

Evaluated ==
    /\ evaluation # "none"
    /\ evaluation' = "none"
    /\ UNCHANGED <<time, row, open, resolutions, holder, cycle>>

Allow == evaluation = "allows" /\ open = {} /\ Evaluated

Block == (evaluation = "blocks" \/ open # {}) /\ Evaluated

Next ==
    \/ Tick
    \/ \E w \in Workers : TakeLease(w) \/ CycleStep(w) \/ Journal(w)
    \/ \E s \in open : ResolveReview(s)
    \/ LoadRow
    \/ Allow
    \/ Block

\* Providers fail and processes die, but again and again a cycle of the worker
\* holding the lease runs through with every read answered.
Clean(w) == cycle[w] # None /\ cycle[w].failed = {}
Answered(w) == Clean(w) /\ cycle[w].api # Nothing

CleanObservation(w) == \E view \in ChainViews : Observe(w, view, {})
CleanComparison(w) == Clean(w) /\ \E view \in ApiViews : CompareForAsset(w, view)

Fairness ==
    \A w \in Workers :
        /\ WF_vars(CycleStep(w) \/ Journal(w))
        /\ SF_vars(CycleStep(w) /\ \E wrapper \in Wrappers : ListAsset(w, wrapper))
        /\ SF_vars(CycleStep(w) /\ CleanObservation(w))
        /\ SF_vars(CycleStep(w) /\ CleanComparison(w))
        /\ SF_vars(CycleStep(w) /\ Recall(w) /\ Answered(w))
        /\ SF_vars(Journal(w) /\ Answered(w))

Spec == Init /\ [][Next]_vars

FairSpec == Spec /\ Fairness

-----------------------------------------------------------------------------

\* ReviewIsRecorded.  As long as a review of the asset is open, its row says so:
\* no cycle that read the reviews earlier, under a lease since lost, writes over it.
ReviewIsRecorded == open # {} => row.lifecycle = "MANUAL_REVIEW"

\* RecoveryIsObserved.  An asset recovers only in the transaction that records a
\* whole observation in which the sources agree, and never during a review.
RecoveryIsObserved ==
    [][row' # row /\ row'.lifecycle = "RECOVERED" /\ row.lifecycle # "RECOVERED" =>
           row'.agreement = "MATCH" /\ row'.whole /\ open = {}]_vars

\* AllowIsCurrent.  A preflight may decide on a row that has been replaced since
\* it read it.  When the new row records a disagreement, the review that came with
\* it blocks, unless an operator resolved one since the disagreement was observed.
AllowIsCurrent ==
    [][Allow /\ row.agreement # "MATCH" /\ row.whole => resolutions > row.reviewsRead]_vars

\* What a cycle that answered every read is about to record.
AllReady(P(_)) ==
    \A w \in Workers : HasCycle(w, "ready") /\ Answered(w) => P(cycle[w])

\* DisagreementIsReviewed.  A disagreement that lasts brings a review about,
\* however often one is resolved.
DisagreementIsReviewed ==
    <>[]AllReady(Disagree) /\ <>[][holder' = holder]_vars => []<>(open # {})

SettledView(c) ==
    /\ Compared(c) = "MATCH" /\ c.seen.activation = Absent
    /\ CanonicalityReasons(Checks(c)) = {}

\* DisputeSettles.  Once the sources agree for good, nothing is scheduled and the
\* reviews are resolved, the asset leaves its review.
DisputeSettles ==
    /\ <>[](open = {}) /\ <>[][holder' = holder]_vars
    /\ <>[]AllReady(SettledView)
    => <>[](row # None /\ row.lifecycle # "MANUAL_REVIEW")

\* ADR 0002: "Missing evidence can never become an implicit match."  The code does
\* not keep this: two absent values agree, and a read that failed leaves one absent.
NoImplicitMatch == row # None /\ row.agreement = "MATCH" => row.whole

\* Nor, therefore, this: an asset whose review an operator resolved goes on as NORMAL only with
\* an observation that was read whole.
NormalAfterReviewIsWhole ==
    [][row # None /\ row.lifecycle = "MANUAL_REVIEW" /\ row'.lifecycle = "NORMAL" =>
           row'.whole]_vars

=============================================================================
