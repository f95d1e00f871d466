---------------------------- MODULE B20Indexing ----------------------------
(***************************************************************************)
(* Range planning, log identity, reorganisation detection and the cursor   *)
(* of the B20 indexer, as the pure functions they are.                     *)
(*   packages/b20-reader/src/indexing.ts                                   *)
(*                                                                         *)
(* A block reference is [number, hash]; the code also carries parentHash   *)
(* and never reads it.                                                     *)
(***************************************************************************)
EXTENDS Integers, Sequences, SequencesExt, FiniteSets, FiniteSetsExt

\* Inclusive at both ends.
PlanRanges(from, to, maxWidth) ==
    LET count == IF to < from THEN 0 ELSE (to - from) \div maxWidth + 1
        start(i) == from + (i - 1) * maxWidth
    IN  [i \in 1..count |-> [from |-> start(i), to |-> Min({start(i) + maxWidth - 1, to})]]

\* The first half of a refused range; {} when one block is already too wide.
ShrinkRange(range) ==
    LET span == range.to - range.from + 1
    IN  IF span <= 1 THEN {} ELSE {[range EXCEPT !.to = range.from + span \div 2 - 1]}

\* Structural, never semantic: two logs with equal values are two facts.
LogIdentity(log) == <<log.hash, log.tx, log.log>>

\* Repeat deliveries are dropped, every distinct log is kept.
DedupeLogs(journal, logs) ==
    journal \cup {log \in logs : \A kept \in journal : LogIdentity(kept) # LogIdentity(log)}

Consistent == [kind |-> "CONSISTENT"]

\* The first height at which both sides have a hash and the hashes differ.
Forks(known, observed) ==
    {b.number : b \in {o \in observed :
        \E k \in known : k.number = o.number /\ k.hash # o.hash}}

DetectReorg(known, observed, lookback) ==
    LET heights == {b.number : b \in known}
        fork == Min(Forks(known, observed))
    IN  IF known = {} \/ observed = {} \/ Forks(known, observed) = {} THEN Consistent
        ELSE IF Max(heights) - fork > lookback \/ fork < Min(heights)
        THEN [kind |-> "BEYOND_LOOKBACK", oldestKnown |-> Min(heights)]
        ELSE [kind |-> "REORG", forkPoint |-> fork, depth |-> Max(heights) - fork + 1]

\* The hash accepted first wins; older heights than the lookback are dropped.
AdvanceCursor(cursor, through, observed, lookback) ==
    LET known == {b.number : b \in cursor.recent}
        merged == cursor.recent \cup {b \in observed : b.number \notin known}
    IN  [cursor EXCEPT !.last = through,
                       !.recent = {b \in merged : b.number > through - lookback}]

\* Mutant: off by one, the fork's own height is not read again.
RewindToFork(cursor, forkPoint) ==
    [last |-> forkPoint,
     recent |-> {b \in cursor.recent : b.number < forkPoint},
     fence |-> cursor.fence + 1]

\* Only the cursor moves; observations are compensated, never deleted.
RewindCursor(cursor, forkPoint) ==
    [last |-> forkPoint - 1,
     recent |-> {b \in cursor.recent : b.number < forkPoint},
     fence |-> cursor.fence + 1]

SafeHead(head, confirmations) == Max({head - confirmations, 0})

\* {} when the cursor has caught up.
NextRange(cursor, safeHead, maxWidth) ==
    LET from == cursor.last + 1
    IN  IF from > safeHead THEN {} ELSE {PlanRanges(from, safeHead, maxWidth)[1]}

\* classifyProviderError: what a provider refused for.
ProviderErrors == {"LOG_RANGE_TOO_WIDE", "PRUNED_HISTORY", "RPC_UNAVAILABLE"}

=============================================================================
