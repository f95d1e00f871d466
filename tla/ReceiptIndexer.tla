--------------------------- MODULE ReceiptIndexer ---------------------------
(***************************************************************************)
(* The worker's receipt indexer: it reads the adapter's logs up to the     *)
(* confirmed block, journals each of them once, marks receipts consumed    *)
(* and moves its cursor in one transaction; when the block under its cursor*)
(* changed it takes back what it concluded above a rewind point and reads  *)
(* again from there.                                                       *)
(*   apps/worker/src/receipt-indexer.ts, packages/xlayer-reader/src/       *)
(*   reader.ts, packages/db/src/journal.ts, packages/db/src/projections.ts *)
(*                                                                         *)
(* A block is known by its height and the branch it was mined on, which    *)
(* stand for its hash; the blocks below a fork are common to both branches.*)
(* Cycles run one at a time and every write proves the lease (WorkLease),  *)
(* so nobody else moves the cursor while a cycle is under way.  Receipts   *)
(* are issued, committed and projected before they can be on chain.        *)
(***************************************************************************)
EXTENDS Naturals, FiniteSets, SequencesExt

CONSTANTS
    Receipts,
    Logs,           \* ReceiptConsumed logs: a transaction and its log index
    ReceiptOf,      \* ReceiptOf[l]: the receipt a log consumes
    Depth,          \* the reader's confirmation depth
    Deployment,     \* the adapter's deployment block
    MaxRange,       \* blocks one getLogs call may span
    MaxHeight,      \* bound of the model: blocks of the chain
    MaxBranches,    \* bound of the model: reorganisations
    MaxFailures,    \* bound of the model: cycles lost to errors
    Relocation,     \* TRUE: a log may be mined again at another height
    TornReads,      \* TRUE: the confirmed block may change while a cycle reads
    None

ASSUME IndexerAssumption ==
    /\ ReceiptOf \in [Logs -> Receipts]
    /\ Depth \in Nat /\ Deployment \in Nat \ {0} /\ MaxRange \in Nat \ {0}
    /\ MaxHeight \in Nat /\ MaxBranches \in Nat /\ MaxFailures \in Nat
    /\ Relocation \in BOOLEAN /\ TornReads \in BOOLEAN
    /\ None \notin Logs /\ None \notin Nat

VARIABLES
    chain,          \* the node's chain; chain[h] is the block at height h
    branch,         \* the branch new blocks are mined on
    mined,          \* history: where each log was mined last
    cursor,         \* the row of indexed_chain_cursor
    recorded,       \* the block number each log is journaled with
    status,         \* receipt_status: the log that consumed it, None when ISSUED
    journal,        \* the batches the indexer appended, one per transaction
    cycle,          \* the cycle in progress
    failures        \* cycles lost so far, for the bound

chainVars == <<chain, branch, mined>>
tables == <<cursor, recorded, status, journal>>
vars == <<chainVars, tables, cycle, failures>>

Block == [branch : Nat, log : Logs \cup {None}]
Stamp == [block : Nat, branch : Nat]
Found == [log : Logs, block : Nat]
Batch == [reverted : SUBSET Logs, consumed : SUBSET Logs]
CycleState == [stage : {"detect", "logs", "commit"}, to : Nat, next : Nat,
               rewind : Nat \cup {None}, found : SUBSET Found, stamp : Nat \cup {None}]

ASSUME NoStampAssumption == None \notin Stamp /\ None \notin CycleState

TypeOK ==
    /\ chain \in Seq(Block)
    /\ branch \in Nat
    /\ mined \in [Logs -> Nat \cup {None}]
    /\ cursor \in Stamp \cup {None}
    /\ recorded \in [Logs -> Nat \cup {None}]
    /\ status \in [Receipts -> Logs \cup {None}]
    /\ journal \in Seq(Batch)
    /\ cycle \in CycleState \cup {None}
    /\ failures \in Nat

Init ==
    /\ chain = <<>>
    /\ branch = 0
    /\ mined = [l \in Logs |-> None]
    /\ cursor = None
    /\ recorded = [l \in Logs |-> None]
    /\ status = [r \in Receipts |-> None]
    /\ journal = <<>>
    /\ cycle = None
    /\ failures = 0

Less(a, b) == IF a > b THEN a - b ELSE 0
Smaller(a, b) == IF a < b THEN a ELSE b
Larger(a, b) == IF a < b THEN b ELSE a

-----------------------------------------------------------------------------
\* The chain.

Consumed(r) == \E h \in DOMAIN chain : chain[h].log # None /\ ReceiptOf[chain[h].log] = r

\* A block with at most one log of the adapter, which consumes a receipt once
\* on a branch.  Bounded by MaxHeight.
Mine(log) ==
    /\ Len(chain) < MaxHeight
    /\ log # None =>
          /\ Len(chain) + 1 >= Deployment
          /\ ~Consumed(ReceiptOf[log])
          /\ Relocation \/ mined[log] \in {None, Len(chain) + 1}
    /\ chain' = Append(chain, [branch |-> branch, log |-> log])
    /\ mined' = IF log = None THEN mined ELSE [mined EXCEPT ![log] = Len(chain) + 1]
    /\ UNCHANGED <<branch, tables, cycle, failures>>

\* The blocks above a fork give way to another branch, no deeper below the
\* cursor than a rewind reaches: the confirmation depth, or the deployment.  Unless
\* TornReads, only above the block a running cycle confirmed.  Bounded by
\* MaxBranches.
Reorganise(fork) ==
    /\ branch < MaxBranches
    /\ fork < Len(chain)
    /\ cursor # None =>
          fork >= Less(cursor.block, Depth) \/ Less(cursor.block, Depth) < Deployment
    /\ cycle # None /\ ~TornReads => fork >= cycle.to
    /\ chain' = SubSeq(chain, 1, fork)
    /\ branch' = branch + 1
    /\ UNCHANGED <<mined, tables, cycle, failures>>

-----------------------------------------------------------------------------
\* runReceiptIndexCycle

OnChain(stamp) == stamp.block <= Len(chain)
                  /\ (stamp.block > 0 => chain[stamp.block].branch = stamp.branch)

ConfirmedBlock == Less(Len(chain), Depth)

\* getHead, then the cursor's row.
BeginCycle ==
    /\ cycle = None
    /\ cycle' = [stage |-> "detect", to |-> ConfirmedBlock, next |-> Deployment,
                 rewind |-> None, found |-> {}, stamp |-> None]
    /\ UNCHANGED <<chainVars, tables, failures>>

\* Mutant of Shrunk: a chain shorter than the cursor goes unnoticed.
NeverShrunk == FALSE /\ cursor.block > cycle.to

\* chainShrank: the cursor is above the confirmed block.
Shrunk == cursor.block > cycle.to

\* Mutant of RewindBlock: nothing below the confirmed block is read again.
RewindToConfirmed == Larger(Deployment - 1, Smaller(cursor.block, cycle.to))

RewindBlock ==
    Larger(Deployment - 1, Less(Smaller(cursor.block, cycle.to), Depth))

\* A read names a block the node does not have: getBlock throws.
NeedsMissingBlock ==
    \/ /\ cycle.stage = "detect" /\ cursor # None
       /\ \/ ~Shrunk /\ cursor.block > Len(chain)
          \/ (Shrunk \/ ~OnChain(cursor)) /\ RewindBlock > Len(chain)
    \/ cycle.stage = "commit" /\ cycle.stamp = None /\ cycle.to > Len(chain)

\* An empty range ends the cycle, a detected reorganisation included.
GoOn(from, rewind) ==
    cycle' = IF from > cycle.to THEN None
             ELSE [cycle EXCEPT !.stage = "logs", !.next = from, !.rewind = rewind]

\* detectReorg compares the hash under the cursor.
Detect ==
    /\ cycle # None /\ cycle.stage = "detect"
    /\ ~NeedsMissingBlock
    /\ \/ cursor = None /\ GoOn(Deployment, None)
       \/ /\ cursor # None
          /\ IF Shrunk \/ ~OnChain(cursor)
             THEN GoOn(RewindBlock + 1, RewindBlock)
             ELSE GoOn(cursor.block + 1, None)
    /\ UNCHANGED <<chainVars, tables, failures>>

\* The height of a log gives its place among the others.
LogsBetween(from, to) ==
    {[log |-> chain[h].log, block |-> h] :
        h \in {g \in from..to : g <= Len(chain) /\ chain[g].log # None}}

\* getLogsChunked: one getLogs call.
ReadLogs ==
    /\ cycle # None /\ cycle.stage = "logs"
    /\ LET last == Smaller(cycle.next + MaxRange - 1, cycle.to)
       IN cycle' = [cycle EXCEPT
              !.found = @ \cup LogsBetween(cycle.next, last),
              !.next = last + 1,
              !.stage = IF last = cycle.to THEN "commit" ELSE "logs"]
    /\ UNCHANGED <<chainVars, tables, failures>>

\* getBlockStamp(toBlock): what the cursor will say, read after the logs.
ReadStamp ==
    /\ cycle # None /\ cycle.stage = "commit" /\ cycle.stamp = None
    /\ ~NeedsMissingBlock
    /\ cycle' = [cycle EXCEPT !.stamp = chain[cycle.to].branch]
    /\ UNCHANGED <<chainVars, tables, failures>>

\* What the compensating event names: what is journaled above the rewind point.
Superseded ==
    IF cycle.rewind = None THEN {}
    ELSE {l \in Logs : recorded[l] # None /\ recorded[l] > cycle.rewind}

\* Mutant of AfterRevert: a consumption is never taken back.
NothingReverted(logs) == [r \in Receipts |-> IF status[r] \in {} THEN None ELSE status[r]]

\* CHAIN_EVENTS_REVERTED
AfterRevert(logs) ==
    [r \in Receipts |-> IF status[r] \in logs THEN None ELSE status[r]]

\* RECEIPT_CONSUMED, log after log: only a receipt still ISSUED is consumed.
First(found) == CHOOSE f \in found : \A g \in found : f.block <= g.block

AfterLogs(statuses) ==
    [r \in Receipts |->
        LET own == {f \in cycle.found : ReceiptOf[f.log] = r}
        IN  IF statuses[r] # None \/ own = {} THEN statuses[r] ELSE First(own).log]

FoundLogs == {f.log : f \in cycle.found}

\* appendEvidence: a log that is journaled already keeps its row.
Recorded ==
    [l \in Logs |->
        IF recorded[l] # None \/ l \notin FoundLogs THEN recorded[l]
        ELSE First({f \in cycle.found : f.log = l}).block]

\* The transaction: compensation, logs and cursor together, under the lease.
Commit ==
    /\ cycle # None /\ cycle.stamp # None
    /\ status' = AfterLogs(AfterRevert(Superseded))
    /\ recorded' = Recorded
    /\ journal' = Append(journal,
           [reverted |-> Superseded,
            consumed |-> {l \in FoundLogs : recorded[l] = None}])
    /\ cursor' = [block |-> cycle.to, branch |-> cycle.stamp]
    /\ cycle' = None
    /\ UNCHANGED <<chainVars, failures>>

ReadFails ==
    /\ cycle # None
    /\ NeedsMissingBlock
    /\ cycle' = None
    /\ UNCHANGED <<chainVars, tables, failures>>

\* The provider fails, the lease is lost or the worker restarts.  Bounded by
\* MaxFailures.
Fail ==
    /\ cycle # None
    /\ failures < MaxFailures
    /\ failures' = failures + 1
    /\ cycle' = None
    /\ UNCHANGED <<chainVars, tables>>

IndexCycle ==
    BeginCycle \/ Detect \/ ReadLogs \/ ReadStamp \/ Commit \/ ReadFails

ChainNext ==
    \/ \E log \in Logs \cup {None} : Mine(log)
    \/ \E fork \in 0..MaxHeight : Reorganise(fork)

Next == ChainNext \/ IndexCycle \/ Fail

Spec == Init /\ [][Next]_vars

\* The worker's loop starts cycle after cycle and each goes on.
FairSpec == Spec /\ WF_vars(IndexCycle)

-----------------------------------------------------------------------------

\* FollowsChain.  While the block under the cursor is still on the chain, a
\* receipt is marked consumed exactly if the chain consumed it no later than
\* the cursor: nothing is missed and nothing of an abandoned branch is kept,
\* whatever was reorganised between cycles, and above the block a cycle
\* confirmed also inside it.  The code keeps this only while a log that is mined
\* again keeps its height and no block a cycle has yet to read is replaced
\* (receipt-indexer.ts:106, journal.ts:128): Relocation and TornReads are FALSE.
ConsumedBy(block, r) ==
    \E h \in Deployment..block : chain[h].log # None /\ ReceiptOf[chain[h].log] = r

FollowsChain ==
    cursor # None /\ OnChain(cursor) =>
        \A r \in Receipts : status[r] # None <=> ConsumedBy(cursor.block, r)

\* CatchesUp.  Once the chain stands still the cursor comes to the confirmed
\* block of the branch that stayed.  Bounded by MaxHeight, MaxBranches and
\* MaxFailures, so it does stand still.
CaughtUp ==
    ConfirmedBlock >= Deployment =>
        cursor # None /\ OnChain(cursor) /\ cursor.block = ConfirmedBlock

CatchesUp == <>[]CaughtUp

\* evidence-journal.md: "rebuilding from the journal reproduces the same
\* result".  A rebuild applies the journal by ingestion time, which is the
\* transaction's, and within one transaction in no particular order.
Outcomes(r, logOfReceipt, batch) ==
    LET own == {l \in batch.consumed : ReceiptOf[l] = r} IN
    IF logOfReceipt = None THEN (IF own = {} THEN {None} ELSE own)
    ELSE IF logOfReceipt \in batch.reverted THEN own \cup {None}
    ELSE {logOfReceipt}

Rebuilt(r) ==
    FoldLeft(LAMBDA before, batch : UNION {Outcomes(r, l, batch) : l \in before},
             {None}, journal)

\* RebuildReproduces.  docs/evidence-journal.md:61: a rebuild reproduces the live
\* tables.  The code does not keep this: a log read again after a rewind is
\* deduplicated, so the journal has it only before its compensation.
RebuildReproduces ==
    \A r \in Receipts : Rebuilt(r) = {status[r]}

\* RebuildInventsNothing.  A rebuild may lose a consumption that was applied again
\* without being journaled again, but it never marks a receipt consumed that is
\* not, nor by another log than the table's.  Like FollowsChain, the code keeps
\* this only while Relocation and TornReads are FALSE.
RebuildInventsNothing ==
    \A r \in Receipts : Rebuilt(r) \subseteq {None, status[r]}

=============================================================================
