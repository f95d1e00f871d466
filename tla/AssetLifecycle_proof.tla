------------------------- MODULE AssetLifecycle_proof -------------------------
(***************************************************************************)
(* AssetLifecycle's safety for any number of workers, any views of the     *)
(* registry and the token and any reads that fail.                         *)
(*                                                                         *)
(* The argument: only the worker that holds the lease writes, and a worker *)
(* takes the lease only between cycles, so between the holder's reading of *)
(* the reviews and its transaction reviews are at most resolved, never     *)
(* opened.  What it read is therefore a bound on what is open.             *)
(***************************************************************************)
EXTENDS AssetLifecycle, TLAPS

View == [multiplier : Multipliers, activation : Schedules]

-----------------------------------------------------------------------------
\* Types.

LEMMA ViewType ==
    \A v \in ChainViews \cup ApiViews \cup {Nothing} : v \in View
<1>1. ASSUME NEW v \in ChainViews \cup ApiViews
      PROVE  /\ v.multiplier \in Multipliers /\ v.activation \in Schedules
             /\ v = [multiplier |-> v.multiplier, activation |-> v.activation]
    BY LifecycleAssumption DEF Multipliers, Schedules
<1>2. Nothing \in View
    BY DEF Nothing, View, Multipliers, Schedules
<1> QED
    BY <1>1, <1>2 DEF View

LEMMA ComparedType ==
    ASSUME NEW c PROVE Compared(c) \in Agreement
BY DEF Compared, CompareSources, Combine, Agreement

\* The state derived: a review first, then a disagreement, and never a recovery.
LEMMA DerivedState ==
    ASSUME NEW schedule, NEW mismatched \in BOOLEAN, NEW review \in BOOLEAN,
           NEW applied \in BOOLEAN, NEW reconciled \in BOOLEAN
    PROVE  LET state == DeriveLifecycleState(schedule, mismatched, review, applied, reconciled)
           IN  /\ state \in LifecycleStates \ {"RECOVERED"}
               /\ review => state = "MANUAL_REVIEW"
               /\ ~review /\ mismatched => state = "MISMATCH"
BY DEF DeriveLifecycleState, LifecycleStates

\* A disagreement and an open review are reasons, so neither leaves a match.
LEMMA MatchedMeans ==
    ASSUME NEW c \in Cycle, Matched(c)
    PROVE  Complete(c) /\ Compared(c) = "MATCH" /\ c.review = FALSE
BY DEF Matched, ReconcileReasons, Disagree, Cycle

LEMMA DecidedState ==
    ASSUME NEW c \in Cycle
    PROVE  /\ Decided(c) \in LifecycleStates
           /\ c.review => Decided(c) = "MANUAL_REVIEW"
           /\ Disagree(c) /\ ~c.review => Decided(c) = "MISMATCH"
           /\ Decided(c) = "RECOVERED" => Matched(c)
<1> DEFINE mismatched == Disagree(c)
           review == c.review
           applied == Cleared(c)
           reconciled == c.previous.lifecycle = "RECONCILED" /\ ReconcileReasons(c) = {}
           derived == DeriveLifecycleState(Known(c), mismatched, review, applied, reconciled)
<1>1. /\ mismatched \in BOOLEAN /\ review \in BOOLEAN
      /\ applied \in BOOLEAN /\ reconciled \in BOOLEAN
    BY DEF Disagree, Cleared, Complete, Cycle
<1>2. Matched(c) => ~mismatched /\ ~review
    BY MatchedMeans DEF Disagree
<1>3. \/ Matched(c) /\ Decided(c) \in {"RECOVERED", "RECONCILED"}
      \/ Decided(c) = derived
    BY DEF Decided
<1>4. (review <=> c.review) /\ (mismatched <=> Disagree(c))
    OBVIOUS
<1> HIDE DEF mismatched, review, applied, reconciled
<1>5. /\ derived \in LifecycleStates \ {"RECOVERED"}
      /\ review => derived = "MANUAL_REVIEW"
      /\ ~review /\ mismatched => derived = "MISMATCH"
    BY <1>1, DerivedState
<1> HIDE DEF derived
<1> QED
    BY <1>2, <1>3, <1>4, <1>5 DEF LifecycleStates

\* The row after the registry's snapshot.
LEMMA ApiRow ==
    ASSUME row \in Row \cup {None}, NEW c \in Cycle
    PROVE  /\ AfterApiSnapshot(c) \in Row
           /\ IF row = None
              THEN /\ AfterApiSnapshot(c).lifecycle = "NORMAL"
                   /\ AfterApiSnapshot(c).whole = FALSE
                   /\ AfterApiSnapshot(c).reviewsRead = c.reviewsRead
              ELSE /\ AfterApiSnapshot(c).lifecycle = row.lifecycle
                   /\ AfterApiSnapshot(c).whole = row.whole
                   /\ AfterApiSnapshot(c).agreement = row.agreement
                   /\ AfterApiSnapshot(c).reviewsRead = row.reviewsRead
<1>1. CASE row = None
    BY <1>1 DEF AfterApiSnapshot, Row, Cycle, Agreement, LifecycleStates
<1>2. CASE row # None
    BY <1>2 DEF AfterApiSnapshot, Row, Cycle
<1> QED
    BY <1>1, <1>2

\* The row after the chain's snapshot, and after the decision.
LEMMA ChainRow ==
    ASSUME row \in Row \cup {None}, NEW c \in Cycle
    PROVE  /\ AfterChainSnapshot(c) \in Row
           /\ AfterChainSnapshot(c).lifecycle = IF row = None THEN "NORMAL" ELSE row.lifecycle
           /\ AfterChainSnapshot(c).agreement = Compared(c)
           /\ AfterChainSnapshot(c).whole = (Complete(c) /\ c.api.multiplier # Absent)
           /\ AfterChainSnapshot(c).reviewsRead = c.reviewsRead
<1>1. AfterApiSnapshot(c) \in Row
    BY ApiRow
<1>2. AfterApiSnapshot(c).lifecycle = IF row = None THEN "NORMAL" ELSE row.lifecycle
    BY ApiRow
<1>3. /\ Compared(c) \in Agreement /\ c.seen.activation \in Schedules
      /\ c.reviewsRead \in Nat
      /\ (Complete(c) /\ c.api.multiplier # Absent) \in BOOLEAN
      /\ (SummarizeCanonicality(Checks(c)) = "PASS") \in BOOLEAN
    BY ComparedType DEF Cycle, Complete
<1> QED
    BY <1>1, <1>2, <1>3 DEF AfterChainSnapshot, Row

LEMMA DecisionRow ==
    ASSUME row \in Row \cup {None}, NEW c \in Cycle
    PROVE  /\ AfterDecision(c) \in Row
           /\ AfterDecision(c).lifecycle =
                  IF Journaled(c) THEN Decided(c)
                  ELSE IF row = None THEN "NORMAL" ELSE row.lifecycle
           /\ AfterDecision(c).agreement = Compared(c)
           /\ AfterDecision(c).whole = (Complete(c) /\ c.api.multiplier # Absent)
           /\ AfterDecision(c).reviewsRead = c.reviewsRead
BY ChainRow, DecidedState DEF AfterDecision, Row

LEMMA SignatureType ==
    ASSUME NEW c PROVE Signature(c) \subseteq Reasons
<1>1. CanonicalityReasons(Checks(c)) \subseteq {CheckReason(d) : d \in CheckNames}
    BY DEF CanonicalityReasons, Checks, VerifyCanonicality
<1> QED
    BY <1>1 DEF Signature, ReconcileReasons, Reasons

-----------------------------------------------------------------------------
\* The inductive invariant.

\* A cycle that read the token without a failure has its multiplier.
CycleViews ==
    \A w \in Workers :
        cycle[w] # None /\ cycle[w].wrapper # Absent /\ cycle[w].at # "listed"
        /\ cycle[w].failed = {} => cycle[w].seen.multiplier # Absent

\* ReviewIsRecorded, with the row it speaks of.
OpenIsRecorded == open # {} => row # None /\ row.lifecycle = "MANUAL_REVIEW"

\* The holder read every review that is still open: nobody else could open one.
HolderKnows ==
    \A w \in Workers :
        holder = w /\ HasCycle(w, "ready") /\ open # {} => cycle[w].review

\* Reviews read as open are open, or one was resolved in the meantime.
ReadIsOpenOrResolved ==
    \A w \in Workers :
        HasCycle(w, "ready") =>
            /\ cycle[w].reviewsRead <= resolutions
            /\ cycle[w].review => open # {} \/ cycle[w].reviewsRead < resolutions

\* A recorded disagreement is under review, or a review was resolved since.
RowReviewed ==
    row # None =>
        /\ row.reviewsRead <= resolutions
        /\ row.whole /\ row.agreement # "MATCH" =>
               open # {} \/ row.reviewsRead < resolutions

EvaluatedRow == evaluation # "none" => row # None

IInv ==
    /\ TypeOK
    /\ CycleViews
    /\ OpenIsRecorded
    /\ HolderKnows
    /\ ReadIsOpenOrResolved
    /\ RowReviewed
    /\ EvaluatedRow

LEMMA InitIInv == Init => IInv
<1> SUFFICES ASSUME Init PROVE IInv
    OBVIOUS
<1>1. Horizon \in Nat /\ MaxResolutions \in Nat
    BY LifecycleAssumption
<1>2. TypeOK
    BY <1>1 DEF Init, TypeOK
<1> QED
    BY <1>2 DEF Init, IInv, CycleViews, OpenIsRecorded, HolderKnows,
                ReadIsOpenOrResolved, RowReviewed, EvaluatedRow, HasCycle

\* The steps of a cycle before its transaction.
LEMMA ListAssetStep ==
    ASSUME IInv, NEW w \in Workers, NEW wrapper \in Wrappers \cup {Absent},
           ListAsset(w, wrapper),
           UNCHANGED <<time, row, open, resolutions, holder, evaluation>>
    PROVE  IInv'
<1> DEFINE c == [at |-> IF wrapper = Absent THEN "compared" ELSE "listed",
            wrapper |-> wrapper, failed |-> {}, seen |-> Nothing, api |-> Nothing,
            previous |-> [lifecycle |-> "NORMAL", activation |-> Absent],
            review |-> FALSE, reviewsRead |-> 0]
<1>1. c \in Cycle
    BY ViewType DEF Cycle, View, Reads, LifecycleStates, Schedules
<1>2. cycle' = [cycle EXCEPT ![w] = c]
    BY DEF ListAsset
<1>3. c.at # "ready" /\ (c.wrapper # Absent => c.at = "listed")
    OBVIOUS
<1> HIDE DEF c
<1>4. TypeOK'
    BY <1>1, <1>2 DEF IInv, TypeOK
<1>5. cycle'[w] = c /\ \A u \in Workers \ {w} : cycle'[u] = cycle[u]
    BY <1>2 DEF IInv, TypeOK
<1> QED
    BY <1>3, <1>4, <1>5 DEF IInv, CycleViews, OpenIsRecorded, HolderKnows,
                ReadIsOpenOrResolved, RowReviewed, EvaluatedRow, HasCycle

LEMMA ObserveStep ==
    ASSUME IInv, NEW w \in Workers, NEW view \in ChainViews, NEW failed \in FailureSets,
           Observe(w, view, failed),
           UNCHANGED <<time, row, open, resolutions, holder, evaluation>>
    PROVE  IInv'
<1> DEFINE seen == [f \in DOMAIN view |-> IF f \in failed THEN Absent ELSE view[f]]
           c == [cycle[w] EXCEPT !.at = "observed", !.failed = failed, !.seen = seen]
<1>1. cycle[w] \in Cycle
    BY DEF Observe, HasCycle, IInv, TypeOK
<1>2. view \in View /\ view.multiplier # Absent
    BY ViewType, LifecycleAssumption
<1>3. /\ seen \in View
      /\ failed = {} => seen.multiplier # Absent
    BY <1>2 DEF View, Multipliers, Schedules
<1>4. failed \in SUBSET Reads
    BY LifecycleAssumption
<1>5. cycle' = [cycle EXCEPT ![w] = c]
    BY DEF Observe
<1> HIDE DEF seen
<1>6. c \in Cycle
    BY <1>1, <1>3, <1>4 DEF Cycle, View
<1>7. c.at = "observed" /\ c.failed = failed /\ c.seen = seen
    BY <1>1 DEF Cycle
<1> HIDE DEF c
<1>8. TypeOK'
    BY <1>5, <1>6 DEF IInv, TypeOK
<1>9. cycle'[w] = c /\ \A u \in Workers \ {w} : cycle'[u] = cycle[u]
    BY <1>5 DEF IInv, TypeOK
<1> QED
    BY <1>3, <1>7, <1>8, <1>9 DEF IInv, CycleViews, OpenIsRecorded, HolderKnows,
                ReadIsOpenOrResolved, RowReviewed, EvaluatedRow, HasCycle

LEMMA CompareForAssetStep ==
    ASSUME IInv, NEW w \in Workers, NEW view \in ApiViews \cup {Nothing},
           CompareForAsset(w, view),
           UNCHANGED <<time, row, open, resolutions, holder, evaluation>>
    PROVE  IInv'
<1> DEFINE c == [cycle[w] EXCEPT !.at = "compared", !.api = view]
<1>1. cycle[w] # None /\ cycle[w] \in Cycle /\ cycle[w].at = "observed"
    BY DEF CompareForAsset, HasCycle, IInv, TypeOK
<1>2. view \in View
    BY ViewType
<1>3. cycle' = [cycle EXCEPT ![w] = c]
    BY DEF CompareForAsset
<1>4. c \in Cycle
    BY <1>1, <1>2 DEF Cycle, View
<1>5. /\ c.at = "compared" /\ c.wrapper = cycle[w].wrapper
      /\ c.failed = cycle[w].failed /\ c.seen = cycle[w].seen
    BY <1>1 DEF Cycle
<1> HIDE DEF c
<1>6. TypeOK'
    BY <1>3, <1>4 DEF IInv, TypeOK
<1>7. cycle'[w] = c /\ \A u \in Workers \ {w} : cycle'[u] = cycle[u]
    BY <1>3 DEF IInv, TypeOK
<1> QED
    BY <1>1, <1>5, <1>6, <1>7 DEF IInv, CycleViews, OpenIsRecorded, HolderKnows,
                ReadIsOpenOrResolved, RowReviewed, EvaluatedRow, HasCycle

LEMMA RecallStep ==
    ASSUME IInv, NEW w \in Workers, Recall(w),
           UNCHANGED <<time, row, open, resolutions, holder, evaluation>>
    PROVE  IInv'
<1> DEFINE previous == IF row = None THEN cycle[w].previous
                       ELSE [lifecycle |-> row.lifecycle, activation |-> row.activation]
           c == [cycle[w] EXCEPT !.at = "ready", !.previous = previous,
                    !.review = (open # {}), !.reviewsRead = resolutions]
<1>1. cycle[w] # None /\ cycle[w] \in Cycle /\ cycle[w].at = "compared"
    BY DEF Recall, HasCycle, IInv, TypeOK
<1>2. previous \in [lifecycle : LifecycleStates, activation : Schedules]
    BY <1>1 DEF IInv, TypeOK, Cycle, Row
<1>3. cycle' = [cycle EXCEPT ![w] = c]
    BY DEF Recall
<1>4. resolutions \in Nat
    BY LifecycleAssumption DEF IInv, TypeOK
<1> HIDE DEF previous
<1>5. c \in Cycle
    BY <1>1, <1>2, <1>4 DEF Cycle
<1>6. /\ c.wrapper = cycle[w].wrapper /\ c.failed = cycle[w].failed
      /\ c.seen = cycle[w].seen /\ c.review = (open # {}) /\ c.reviewsRead = resolutions
    BY <1>1 DEF Cycle
<1> HIDE DEF c
<1>7. TypeOK'
    BY <1>3, <1>5 DEF IInv, TypeOK
<1>8. cycle'[w] = c /\ \A u \in Workers \ {w} : cycle'[u] = cycle[u]
    BY <1>3 DEF IInv, TypeOK
<1>9. CycleViews'
    BY <1>1, <1>6, <1>8 DEF IInv, CycleViews
<1>10. HolderKnows'
    BY <1>6, <1>8 DEF IInv, HolderKnows, HasCycle
<1>11. ReadIsOpenOrResolved'
  <2>1. /\ c.reviewsRead <= resolutions
        /\ c.review => open # {}
    <3>1. c.reviewsRead = resolutions /\ (c.review <=> open # {})
        BY <1>6, Zenon
    <3> QED
        BY <1>4, <3>1
  <2> SUFFICES ASSUME NEW u \in Workers, HasCycle(u, "ready")'
               PROVE  /\ cycle'[u].reviewsRead <= resolutions'
                      /\ cycle'[u].review => open' # {} \/ cycle'[u].reviewsRead < resolutions'
      BY DEF ReadIsOpenOrResolved
  <2>2. CASE u = w
      BY <1>8, <2>1, <2>2
  <2>3. CASE u # w
      BY <1>8, <2>3 DEF IInv, ReadIsOpenOrResolved, HasCycle
  <2> QED
      BY <2>2, <2>3
<1> QED
    BY <1>7, <1>9, <1>10, <1>11 DEF IInv, OpenIsRecorded, RowReviewed, EvaluatedRow

LEMMA AbandonStep ==
    ASSUME IInv, NEW w \in Workers, AbandonCycle(w),
           UNCHANGED <<time, row, open, resolutions, holder, evaluation>>
    PROVE  IInv'
<1>1. TypeOK'
    BY DEF AbandonCycle, IInv, TypeOK
<1>2. cycle'[w] = None /\ \A u \in Workers \ {w} : cycle'[u] = cycle[u]
    BY DEF AbandonCycle, IInv, TypeOK
<1> QED
    BY <1>1, <1>2 DEF IInv, CycleViews, OpenIsRecorded, HolderKnows,
                ReadIsOpenOrResolved, RowReviewed, EvaluatedRow, HasCycle

\* The transaction: what it does to the row and to the reviews.
LEMMA JournalStep ==
    ASSUME IInv, NEW w \in Workers, Journal(w)
    PROVE  /\ IInv'
           /\ row'.lifecycle = "RECOVERED" /\ row.lifecycle # "RECOVERED" =>
                  row'.agreement = "MATCH" /\ row'.whole /\ open = {}
<1> DEFINE c == cycle[w]
<1>1. /\ c # None /\ c \in Cycle /\ c.at = "ready" /\ holder = w
      /\ row \in Row \cup {None}
      /\ cycle' = [cycle EXCEPT ![w] = None]
      /\ UNCHANGED <<time, resolutions, holder, evaluation>>
    BY DEF Journal, JournalAsset, HasCycle, LeaseHeld, IInv, TypeOK
<1>2. /\ open # {} => c.review
      /\ c.review => open # {} \/ c.reviewsRead < resolutions
      /\ c.reviewsRead <= resolutions
      /\ c.wrapper # Absent /\ c.failed = {} => c.seen.multiplier # Absent
    BY <1>1 DEF IInv, HolderKnows, ReadIsOpenOrResolved, CycleViews, HasCycle
<1>3. cycle'[w] = None /\ \A u \in Workers \ {w} : cycle'[u] = cycle[u]
    BY <1>1 DEF IInv, TypeOK
<1>4. CASE c.wrapper = Absent
  <2>1. row' = AfterApiSnapshot(c) /\ open' = open
      BY <1>4 DEF Journal, JournalAsset
  <2>2. /\ row' \in Row /\ row' # None
        /\ IF row = None
           THEN row'.lifecycle = "NORMAL" /\ ~row'.whole /\ row'.reviewsRead = c.reviewsRead
           ELSE /\ row'.lifecycle = row.lifecycle /\ row'.whole = row.whole
                /\ row'.agreement = row.agreement /\ row'.reviewsRead = row.reviewsRead
      BY <1>1, <2>1, ApiRow, NoneAssumption
  <2>3. TypeOK'
      BY <1>1, <2>1, <2>2 DEF IInv, TypeOK
  <2>4. OpenIsRecorded' /\ EvaluatedRow'
      BY <2>1, <2>2 DEF IInv, OpenIsRecorded, EvaluatedRow
  <2>5. RowReviewed'
      BY <1>1, <1>2, <2>1, <2>2 DEF IInv, RowReviewed
  <2>6. CycleViews' /\ HolderKnows' /\ ReadIsOpenOrResolved'
      BY <1>1, <1>3, <2>1 DEF IInv, CycleViews, HolderKnows, ReadIsOpenOrResolved, HasCycle
  <2> HIDE DEF c
  <2> QED
      BY <2>2, <2>3, <2>4, <2>5, <2>6 DEF IInv
<1>5. CASE c.wrapper # Absent
  <2> DEFINE opens == OpensReviewFor(c)
             decided == AfterDecision(c)
  <2>1. /\ open' = IF opens THEN open \cup {Signature(c)} ELSE open
        /\ row' = IF opens THEN [decided EXCEPT !.lifecycle = "MANUAL_REVIEW"] ELSE decided
      BY <1>5 DEF Journal, JournalAsset
  <2>2. /\ decided \in Row
        /\ decided.lifecycle = IF Journaled(c) THEN Decided(c)
                               ELSE IF row = None THEN "NORMAL" ELSE row.lifecycle
        /\ decided.agreement = Compared(c)
        /\ decided.whole = (Complete(c) /\ c.api.multiplier # Absent)
        /\ decided.reviewsRead = c.reviewsRead
      BY <1>1, DecisionRow
  <2>3. /\ c.review => Decided(c) = "MANUAL_REVIEW"
        /\ Disagree(c) /\ ~c.review => Decided(c) = "MISMATCH"
        /\ Decided(c) = "RECOVERED" => Matched(c)
      BY <1>1, DecidedState
  <2>4. opens => Decided(c) = "MISMATCH"
      BY DEF OpensReviewFor
  <2>5. Decided(c) = "MISMATCH" => open' # {}
      BY <2>1 DEF OpensReviewFor
  <2>6. open \subseteq open' /\ (open' # {} => open # {} \/ opens)
      BY <2>1
  <2>7. Decided(c) = "MANUAL_REVIEW" => ~Journaled(c)
      BY DEF Journaled
  <2>8. open' \subseteq SUBSET Reasons
      BY <2>1, SignatureType DEF IInv, TypeOK
  <2>9. Matched(c) => /\ Complete(c) /\ Compared(c) = "MATCH" /\ c.review = FALSE
                      /\ c.api.multiplier # Absent
    <3> SUFFICES ASSUME Matched(c)
                 PROVE  /\ Complete(c) /\ Compared(c) = "MATCH" /\ c.review = FALSE
                        /\ c.api.multiplier # Absent
        OBVIOUS
    <3>1. Complete(c) /\ Compared(c) = "MATCH" /\ c.review = FALSE
        BY <1>1, MatchedMeans
    <3>2. c.seen.multiplier # Absent
        BY <1>2, <1>5, <3>1 DEF Complete
    <3>3. c.api.multiplier # Absent
        BY <3>1, <3>2 DEF Compared, CompareSources, CompareOptional, Combine
    <3> QED
        BY <3>1, <3>3
  <2> HIDE DEF opens, decided, c
  <2>10. /\ row' \in Row /\ row' # None
         /\ row'.lifecycle = IF opens THEN "MANUAL_REVIEW" ELSE decided.lifecycle
         /\ row'.agreement = Compared(c)
         /\ row'.whole = (Complete(c) /\ c.api.multiplier # Absent)
         /\ row'.reviewsRead = c.reviewsRead
      BY <2>1, <2>2, NoneAssumption DEF Row, LifecycleStates
  <2>11. TypeOK'
      BY <1>1, <2>8, <2>10 DEF IInv, TypeOK
  <2>12. OpenIsRecorded'
    <3>1. CASE opens
        BY <2>10, <3>1 DEF OpenIsRecorded
    <3>2. CASE ~opens /\ open # {}
        BY <1>2, <2>2, <2>3, <2>7, <2>10, <3>2 DEF IInv, OpenIsRecorded
    <3>3. CASE ~opens /\ open = {}
        BY <2>6, <3>3 DEF OpenIsRecorded
    <3> QED
        BY <3>1, <3>2, <3>3
  <2>13. RowReviewed'
    <3>1. row'.reviewsRead <= resolutions'
        BY <1>1, <1>2, <2>10
    <3>2. ASSUME row'.whole, row'.agreement # "MATCH"
          PROVE  open' # {} \/ row'.reviewsRead < resolutions'
      <4>1. Disagree(c)
          BY <2>10, <3>2 DEF Disagree
      <4>2. CASE c.review
          BY <1>1, <1>2, <2>6, <2>10, <4>2
      <4>3. CASE ~c.review
          BY <2>3, <2>5, <4>1, <4>3
      <4> QED
          BY <4>2, <4>3
    <3> QED
        BY <3>1, <3>2 DEF RowReviewed
  <2>14. EvaluatedRow'
      BY <2>10 DEF EvaluatedRow
  <2>15. CycleViews' /\ HolderKnows'
      BY <1>1, <1>3 DEF IInv, CycleViews, HolderKnows, HasCycle
  <2>16. ReadIsOpenOrResolved'
      BY <1>1, <1>3, <2>6 DEF IInv, ReadIsOpenOrResolved, HasCycle
  <2>17. ASSUME row'.lifecycle = "RECOVERED", row.lifecycle # "RECOVERED"
         PROVE  row'.agreement = "MATCH" /\ row'.whole /\ open = {}
    <3>1. Decided(c) = "RECOVERED"
        BY <2>2, <2>10, <2>17
    <3>2. Matched(c)
        BY <2>3, <3>1
    <3> QED
        BY <1>2, <2>9, <2>10, <3>2
  <2> QED
      BY <2>11, <2>12, <2>13, <2>14, <2>15, <2>16, <2>17 DEF IInv
<1> QED
    BY <1>4, <1>5

-----------------------------------------------------------------------------
\* Every step.

LEMMA NextStep ==
    ASSUME IInv, [Next]_vars
    PROVE  /\ IInv'
           /\ row' # row /\ row'.lifecycle = "RECOVERED" /\ row.lifecycle # "RECOVERED" =>
                  row'.agreement = "MATCH" /\ row'.whole /\ open = {}
           /\ Allow /\ row.agreement # "MATCH" /\ row.whole => resolutions > row.reviewsRead
<1>1. ASSUME NEW w \in Workers, Journal(w)
      PROVE  /\ IInv'
             /\ row'.lifecycle = "RECOVERED" /\ row.lifecycle # "RECOVERED" =>
                    row'.agreement = "MATCH" /\ row'.whole /\ open = {}
    BY <1>1, JournalStep
<1>2. ASSUME NEW w \in Workers, CycleStep(w)
      PROVE  IInv' /\ row' = row
  <2>1. UNCHANGED <<time, row, open, resolutions, holder, evaluation>>
      BY <1>2 DEF CycleStep
  <2> QED
      BY <1>2, <2>1, ListAssetStep, ObserveStep, CompareForAssetStep, RecallStep, AbandonStep
         DEF CycleStep
<1>3. ASSUME Tick
      PROVE  IInv' /\ row' = row
  <2>1. Horizon \in Nat
      BY LifecycleAssumption
  <2>2. TypeOK'
      BY <1>3, <2>1 DEF Tick, IInv, TypeOK
  <2> QED
      BY <1>3, <2>2 DEF Tick, IInv, CycleViews, OpenIsRecorded, HolderKnows,
             ReadIsOpenOrResolved, RowReviewed, EvaluatedRow, HasCycle
<1>4. ASSUME NEW w \in Workers, TakeLease(w)
      PROVE  IInv' /\ row' = row
  <2>1. TypeOK'
      BY <1>4 DEF TakeLease, IInv, TypeOK
  <2> QED
      BY <1>4, <2>1 DEF TakeLease, IInv, CycleViews, OpenIsRecorded, HolderKnows,
             ReadIsOpenOrResolved, RowReviewed, EvaluatedRow, HasCycle
<1>5. ASSUME NEW s \in open, ResolveReview(s)
      PROVE  IInv' /\ row' = row
  <2>1. /\ resolutions \in Nat /\ resolutions' = resolutions + 1 /\ resolutions' <= MaxResolutions
        /\ open' \subseteq open
        /\ UNCHANGED <<time, row, holder, cycle, evaluation>>
      BY <1>5, LifecycleAssumption DEF ResolveReview, IInv, TypeOK
  <2>2. TypeOK'
      BY <2>1, LifecycleAssumption DEF IInv, TypeOK
  <2>3. \A n \in Nat : n <= resolutions => n < resolutions'
      BY <2>1
  <2>4. ReadIsOpenOrResolved'
    <3>1. \A w \in Workers : HasCycle(w, "ready") => cycle[w].reviewsRead \in Nat
        BY DEF IInv, TypeOK, HasCycle, Cycle
    <3> QED
        BY <2>1, <2>3, <3>1 DEF IInv, ReadIsOpenOrResolved, HasCycle
  <2>5. RowReviewed'
    <3>1. row # None => row.reviewsRead \in Nat
        BY DEF IInv, TypeOK, Row
    <3> QED
        BY <2>1, <2>3, <3>1 DEF IInv, RowReviewed
  <2> QED
      BY <2>1, <2>2, <2>4, <2>5 DEF IInv, CycleViews, OpenIsRecorded, HolderKnows,
             EvaluatedRow, HasCycle
<1>6. ASSUME LoadRow \/ Allow \/ Block \/ UNCHANGED vars
      PROVE  IInv' /\ row' = row
  <2>1. /\ UNCHANGED <<time, row, open, resolutions, holder, cycle>>
        /\ evaluation' \in {"none", "allows", "blocks"}
        /\ evaluation' # "none" => row # None
      BY <1>6 DEF LoadRow, Allow, Block, Evaluated, vars, IInv, TypeOK, EvaluatedRow
  <2>2. TypeOK'
      BY <2>1 DEF IInv, TypeOK
  <2> QED
      BY <2>1, <2>2 DEF IInv, CycleViews, OpenIsRecorded, HolderKnows,
             ReadIsOpenOrResolved, RowReviewed, EvaluatedRow, HasCycle
<1>7. ASSUME Allow, row.agreement # "MATCH", row.whole
      PROVE  resolutions > row.reviewsRead
  <2>1. open = {} /\ row # None
      BY <1>7 DEF Allow, IInv, EvaluatedRow
  <2>2. row.reviewsRead < resolutions
      BY <1>7, <2>1 DEF IInv, RowReviewed
  <2>3. row.reviewsRead \in Nat /\ resolutions \in Nat
      BY <2>1, LifecycleAssumption DEF IInv, TypeOK, Row
  <2> QED
      BY <2>2, <2>3
<1>8. Next \/ UNCHANGED vars
    OBVIOUS
<1> QED
    BY <1>1, <1>2, <1>3, <1>4, <1>5, <1>6, <1>7, <1>8 DEF Next

\* The inductive invariant holds.
THEOREM LifecycleIInv == Spec => []IInv
<1>1. Init => IInv
    BY InitIInv
<1>2. IInv /\ [Next]_vars => IInv'
    BY NextStep
<1> QED
    BY <1>1, <1>2, PTL DEF Spec

\* The state is well typed.
THEOREM LifecycleTypeOK == Spec => []TypeOK
<1>1. IInv => TypeOK
    BY DEF IInv
<1> QED
    BY <1>1, LifecycleIInv, PTL

\* As long as a review is open the asset's row says so, whatever becomes of the
\* workers, the providers and the lease.
THEOREM ReviewsAreRecorded == Spec => []ReviewIsRecorded
<1>1. IInv => ReviewIsRecorded
    BY DEF IInv, OpenIsRecorded, ReviewIsRecorded
<1> QED
    BY <1>1, LifecycleIInv, PTL

\* No asset recovers but on a whole observation in which the sources agree,
\* outside a review.
THEOREM RecoveriesAreObserved == Spec => RecoveryIsObserved
<1>1. IInv /\ [Next]_vars =>
          [row' # row /\ row'.lifecycle = "RECOVERED" /\ row.lifecycle # "RECOVERED" =>
               row'.agreement = "MATCH" /\ row'.whole /\ open = {}]_vars
    BY NextStep
<1> QED
    BY <1>1, LifecycleIInv, PTL DEF Spec, RecoveryIsObserved

\* A preflight allows over a recorded disagreement only when a review was
\* resolved since the disagreement was observed.
THEOREM AllowsAreCurrent == Spec => AllowIsCurrent
<1>1. IInv /\ [Next]_vars =>
          [Allow /\ row.agreement # "MATCH" /\ row.whole => resolutions > row.reviewsRead]_vars
    BY NextStep
<1> QED
    BY <1>1, LifecycleIInv, PTL DEF Spec, AllowIsCurrent

=============================================================================
