------------------------- MODULE ReceiptIndexer_proof -------------------------
(***************************************************************************)
(* The receipt indexer follows the chain for any receipts and logs, any    *)
(* confirmation depth and range of a call, any length of the chain and any *)
(* number of reorganisations and lost cycles: as long as a log that is     *)
(* mined again keeps its height and the blocks a cycle reads do not change *)
(* while it reads them (Settled).                                          *)
(*                                                                         *)
(* The argument: below the block a rewind would go back to, the tables are *)
(* right whatever happened; above it they are right while the block under  *)
(* the cursor is still there, and a block that was replaced never looks    *)
(* like the one that was.  A cycle starts from one of the two, so what it  *)
(* adds continues tables that are right.                                   *)
(***************************************************************************)
EXTENDS ReceiptIndexer, FiniteSetTheorems, WellFoundedInduction, TLAPS

\* Without these the code does not follow the chain, nor does a rebuild follow the tables.
Settled == ~Relocation /\ ~TornReads

-----------------------------------------------------------------------------
\* The inductive invariant.

\* Where a rewind stops at most.
Kept == Larger(Deployment - 1, Less(cursor.block, Depth))

Mined(h) == h \in DOMAIN chain /\ chain[h].log # None

ChainHolds ==
    /\ \A h \in DOMAIN chain : chain[h].branch <= branch
    /\ \A h \in DOMAIN chain : Mined(h) =>
           h >= Deployment /\ mined[chain[h].log] = h
    /\ \A g, h \in DOMAIN chain :
           Mined(g) /\ Mined(h) /\ ReceiptOf[chain[g].log] = ReceiptOf[chain[h].log] => g = h

\* What is journaled was mined there; what is consumed was consumed by its own log, up to
\* the cursor.
TablesHold ==
    /\ \A l \in Logs : recorded[l] # None => recorded[l] = mined[l]
    /\ \A r \in Receipts : status[r] # None =>
           /\ cursor # None /\ ReceiptOf[status[r]] = r
           /\ recorded[status[r]] \in Deployment..cursor.block

\* Up to block n, what the tables say is what the chain has.
Agrees(n) ==
    \A h \in Deployment..n, l \in Logs :
        h \in DOMAIN chain /\ chain[h].log = l
            <=> status[ReceiptOf[l]] = l /\ recorded[l] = h

\* A block above the chain will be another one when it is mined.
CursorHolds ==
    cursor # None =>
        /\ cursor.block >= Deployment /\ cursor.branch <= branch
        /\ cursor.block > Len(chain) => cursor.branch < branch
        /\ Kept >= Deployment => Kept <= Len(chain)
        /\ Agrees(Kept)
        /\ OnChain(cursor) => Agrees(cursor.block)

\* The block a cycle continues from.
Base ==
    IF cycle.rewind # None THEN cycle.rewind
    ELSE IF cursor = None THEN Deployment - 1 ELSE cursor.block

CycleHolds ==
    cycle # None =>
        /\ cycle.to <= Len(chain)
        /\ cycle.stage = "detect" => cycle.stamp = None /\ cycle.found = {}
        /\ cycle.stage # "detect" =>
               /\ IF cycle.rewind # None
                  THEN cursor # None /\ cycle.rewind \in (Deployment - 1)..Kept
                  ELSE cursor # None => OnChain(cursor)
               /\ cycle.next \in (Base + 1)..(cycle.to + 1)
               /\ cycle.found = LogsBetween(Base + 1, cycle.next - 1)
        /\ cycle.stage = "logs" => cycle.next <= cycle.to /\ cycle.stamp = None
        /\ cycle.stage = "commit" => cycle.next = cycle.to + 1 /\ Base < cycle.to
        /\ cycle.stamp # None => cycle.stamp = chain[cycle.to].branch

IInv == TypeOK /\ ChainHolds /\ TablesHold /\ CursorHolds /\ CycleHolds

-----------------------------------------------------------------------------
\* Positions.

LEMMA Arithmetic ==
    ASSUME NEW a \in Nat, NEW b \in Nat
    PROVE  /\ Less(a, b) \in Nat /\ Less(a, b) <= a
           /\ Smaller(a, b) \in Nat /\ Smaller(a, b) <= a /\ Smaller(a, b) <= b
           /\ Smaller(a, b) \in {a, b}
           /\ Larger(a, b) \in Nat /\ a <= Larger(a, b) /\ b <= Larger(a, b)
           /\ Larger(a, b) \in {a, b}
BY DEF Less, Smaller, Larger

LEMMA DeploymentFacts ==
    /\ Deployment \in Nat /\ Deployment >= 1 /\ Deployment - 1 \in Nat
    /\ Depth \in Nat /\ MaxRange \in Nat /\ MaxRange >= 1 /\ Settled \in BOOLEAN
BY IndexerAssumption DEF Settled

\* A rewind goes back to the confirmation depth below the cursor, or before the deployment.
LEMMA RewindFacts ==
    ASSUME NEW b \in Nat, b >= Deployment
    PROVE  LET kept == Larger(Deployment - 1, Less(b, Depth))
           IN  /\ kept \in Nat /\ kept >= Deployment - 1 /\ kept <= b
               /\ kept >= Deployment => kept = Less(b, Depth)
               /\ Less(b, Depth) <= kept
<1> DEFINE k == Less(b, Depth)
<1>1. k \in Nat /\ k <= b
    BY Arithmetic, DeploymentFacts
<1> HIDE DEF k
<1>2. Larger(Deployment - 1, k) \in Nat /\ Larger(Deployment - 1, k) \in {Deployment - 1, k}
      /\ Deployment - 1 <= Larger(Deployment - 1, k) /\ k <= Larger(Deployment - 1, k)
    BY <1>1, Arithmetic, DeploymentFacts
<1> QED
    BY <1>1, <1>2, DeploymentFacts DEF k

LEMMA KeptFacts ==
    ASSUME cursor \in Stamp, cursor.block >= Deployment
    PROVE  /\ Kept \in Nat /\ Kept >= Deployment - 1 /\ Kept <= cursor.block
           /\ Kept >= Deployment => Kept = Less(cursor.block, Depth)
           /\ Less(cursor.block, Depth) <= Kept
BY RewindFacts DEF Kept, Stamp

\* The tables agree with the chain as far as both stay what they are.
LEMMA AgreesStays ==
    ASSUME chain \in Seq(Block), chain' \in Seq(Block), NEW n \in Nat,
           n <= Len(chain), n <= Len(chain'),
           \A h \in 1..n : chain'[h] = chain[h],
           UNCHANGED <<recorded, status>>, Agrees(n)
    PROVE  Agrees(n)'
<1>1. ASSUME NEW h \in Deployment..n
      PROVE  h \in DOMAIN chain /\ h \in DOMAIN chain' /\ chain'[h] = chain[h]
    BY DeploymentFacts
<1> QED
    BY <1>1 DEF Agrees

LEMMA AgreesBelow ==
    ASSUME NEW n \in Int, NEW m \in Int, m <= n, Agrees(n)
    PROVE  Agrees(m)
BY DeploymentFacts DEF Agrees

\* Before the deployment there is nothing to agree on.
LEMMA AgreesOnNothing ==
    ASSUME NEW n \in Int, n < Deployment
    PROVE  Agrees(n)
BY DeploymentFacts DEF Agrees

LEMMA LogsStay ==
    ASSUME chain \in Seq(Block), chain' \in Seq(Block), NEW from \in Nat, NEW n \in Nat,
           from >= 1, n <= Len(chain), n <= Len(chain'),
           \A h \in 1..n : chain'[h] = chain[h]
    PROVE  LogsBetween(from, n)' = LogsBetween(from, n)
<1>1. \A h \in from..n : h \in 1..n /\ chain'[h] = chain[h] /\ h <= Len(chain) /\ h <= Len(chain')
    OBVIOUS
<1>2. {g \in from..n : g <= Len(chain') /\ chain'[g].log # None}
          = {g \in from..n : g <= Len(chain) /\ chain[g].log # None}
    BY <1>1
<1> QED
    BY <1>1, <1>2 DEF LogsBetween

-----------------------------------------------------------------------------
\* The chain's steps.

\* What both steps of the chain leave: the blocks up to n, under the tables and the cycle.
LEMMA ChainStep ==
    ASSUME IInv, NEW n \in Nat, chain' \in Seq(Block), branch' \in Nat, branch' >= branch,
           n <= Len(chain), n <= Len(chain'),
           \A h \in 1..n : chain'[h] = chain[h],
           cursor # None => Kept < Deployment \/ Kept <= n,
           cycle # None => cycle.to <= n,
           cursor # None /\ cursor.block > Len(chain') => cursor.branch < branch',
           cursor # None /\ OnChain(cursor)' => cursor.block <= n,
           UNCHANGED <<tables, cycle>>
    PROVE  CursorHolds' /\ CycleHolds'
<1> USE DEF tables
<1>1. TypeOK /\ CursorHolds /\ CycleHolds
    BY DEF IInv
<1>2. CursorHolds'
  <2>1. SUFFICES ASSUME cursor # None
                 PROVE  /\ cursor.block >= Deployment /\ cursor.branch <= branch'
                        /\ cursor.block > Len(chain') => cursor.branch < branch'
                        /\ Kept >= Deployment => Kept <= Len(chain')
                        /\ Agrees(Kept)'
                        /\ OnChain(cursor)' => Agrees(cursor.block)'
      BY DEF CursorHolds, Kept
  <2>2. cursor \in Stamp /\ cursor.block >= Deployment /\ cursor.branch <= branch
      BY <1>1, <2>1 DEF TypeOK, CursorHolds
  <2>3. cursor.block \in Nat /\ cursor.branch \in Nat /\ branch \in Nat
      BY <1>1, <2>2 DEF Stamp, TypeOK
  <2>4. Kept \in Nat /\ UNCHANGED Kept
      BY <2>2, KeptFacts DEF Kept
  <2>5. Agrees(Kept)'
    <3>1. CASE Kept < Deployment
        BY <2>4, <3>1, DeploymentFacts DEF Agrees
    <3>2. CASE Kept <= n
      <4>1. PICK k \in Nat : k = Kept
          BY <2>4
      <4>2. \A h \in 1..k : chain'[h] = chain[h]
          BY <3>2, <4>1
      <4>3. k <= Len(chain) /\ k <= Len(chain') /\ Agrees(k) /\ chain \in Seq(Block)
          BY <1>1, <2>1, <3>2, <4>1 DEF CursorHolds, TypeOK
      <4>4. Agrees(k)'
          BY <4>2, <4>3, AgreesStays
      <4> QED
          BY <2>4, <4>1, <4>4
    <3> QED
        BY <2>1, <3>1, <3>2
  <2>6. ASSUME OnChain(cursor)' PROVE Agrees(cursor.block)'
    <3>1. cursor.block <= n
        BY <2>1, <2>6
    <3>2. cursor.block >= 1
        BY <2>2, <2>3, DeploymentFacts
    <3>3. OnChain(cursor)
        BY <1>1, <2>3, <2>6, <3>1, <3>2 DEF OnChain, TypeOK
    <3>4. PICK b \in Nat : b = cursor.block
        BY <2>3
    <3>5. /\ \A h \in 1..b : chain'[h] = chain[h]
          /\ b <= Len(chain) /\ b <= Len(chain') /\ Agrees(b) /\ chain \in Seq(Block)
        BY <1>1, <2>1, <3>1, <3>3, <3>4 DEF CursorHolds, TypeOK
    <3>6. Agrees(b)'
        BY <3>5, AgreesStays
    <3> QED
        BY <3>4, <3>6
  <2>7. Kept >= Deployment => Kept <= Len(chain')
      BY <2>1, <2>4, DeploymentFacts
  <2>8. cursor.block > Len(chain') => cursor.branch < branch'
      BY <2>1
  <2>9. cursor.branch <= branch'
      BY <2>2, <2>3
  <2> QED
      BY <2>2, <2>5, <2>6, <2>7, <2>8, <2>9
<1>3. CycleHolds'
  <2>1. SUFFICES ASSUME cycle # None PROVE CycleHolds'
      BY DEF CycleHolds
  <2>2. /\ cycle \in CycleState /\ cycle.to \in Nat /\ cycle.next \in Nat
        /\ cycle.to <= n /\ cycle.to <= Len(chain) /\ cycle.to <= Len(chain')
        /\ cycle.stage \in {"detect", "logs", "commit"}
      BY <1>1, <2>1 DEF TypeOK, CycleState
  <2>3. Kept' = Kept /\ Base' = Base
      BY DEF Kept, Base
  <2>4. cycle.stage # "detect" =>
            /\ cursor # None => cursor \in Stamp /\ cursor.block >= Deployment
                                /\ cursor.block \in Nat /\ Kept \in Nat
            /\ Base \in Nat /\ Base >= Deployment - 1 /\ Base + 1 >= 1
            /\ Base <= cycle.to
    <3>1. SUFFICES ASSUME cycle.stage # "detect" PROVE <2>4!2
        OBVIOUS
    <3>2. cursor # None => cursor \in Stamp /\ cursor.block >= Deployment
                           /\ cursor.block \in Nat /\ Kept \in Nat
        BY <1>1, KeptFacts DEF TypeOK, CursorHolds, Stamp
    <3>3. Base \in Nat /\ Base >= Deployment - 1
        BY <1>1, <2>1, <3>1, <3>2, DeploymentFacts DEF Base, CycleHolds
    <3>4. Base + 1 <= cycle.to
        BY <1>1, <2>1, <2>2, <3>1, <3>3 DEF CycleHolds
    <3> QED
        BY <2>2, <3>2, <3>3, <3>4
  <2>5. ASSUME cycle.stage # "detect", cycle.rewind = None, cursor # None
        PROVE  OnChain(cursor)'
    <3>1. OnChain(cursor) /\ Base = cursor.block
        BY <1>1, <2>1, <2>5 DEF CycleHolds, Base
    <3>2. cursor.block <= n /\ cursor.block \in Nat
        BY <2>2, <2>4, <2>5, <3>1
    <3> QED
        BY <3>1, <3>2 DEF OnChain
  <2>6. ASSUME cycle.stage # "detect"
        PROVE  cycle.found = LogsBetween(Base + 1, cycle.next - 1)'
    <3>1. /\ cycle.found = LogsBetween(Base + 1, cycle.next - 1)
          /\ cycle.next \in (Base + 1)..(cycle.to + 1)
        BY <1>1, <2>1, <2>6 DEF CycleHolds
    <3>2. PICK from \in Nat, last \in Nat : from = Base + 1 /\ last = cycle.next - 1
        BY <2>2, <2>4, <2>6, <3>1
    <3>3. from >= 1 /\ last <= n
        BY <2>2, <2>4, <2>6, <3>1, <3>2
    <3>4. \A h \in 1..last : chain'[h] = chain[h]
        BY <3>3
    <3>5. LogsBetween(from, last)' = LogsBetween(from, last)
      <4>1. chain \in Seq(Block) /\ last <= Len(chain) /\ last <= Len(chain')
          BY <1>1, <3>3 DEF TypeOK
      <4> QED
          BY <3>3, <3>4, <4>1, LogsStay
    <3> QED
        BY <2>3, <3>1, <3>2, <3>5
  <2>7. ASSUME cycle.stamp # None PROVE cycle.stamp = chain'[cycle.to].branch
    <3>1. cycle.stamp = chain[cycle.to].branch /\ cycle.stage = "commit"
        BY <1>1, <2>1, <2>2, <2>7 DEF CycleHolds
    <3>2. cycle.to >= 1
        BY <1>1, <2>1, <2>2, <2>4, <3>1 DEF CycleHolds
    <3> QED
        BY <2>2, <3>1, <3>2
  <2> QED
      BY <1>1, <2>1, <2>2, <2>3, <2>5, <2>6, <2>7 DEF CycleHolds
<1> QED
    BY <1>2, <1>3

LEMMA MinedBlock ==
    ASSUME chain \in Seq(Block), NEW b \in Block, chain' = Append(chain, b)
    PROVE  LET n == Len(chain)
           IN  /\ n \in Nat /\ chain' \in Seq(Block) /\ Len(chain') = n + 1
               /\ DOMAIN chain = 1..n /\ DOMAIN chain' = 1..(n + 1)
               /\ \A h \in 1..n : chain'[h] = chain[h]
               /\ chain'[n + 1] = b
OBVIOUS

LEMMA ForkedChain ==
    ASSUME chain \in Seq(Block), NEW fork \in Nat, fork < Len(chain),
           chain' = SubSeq(chain, 1, fork)
    PROVE  /\ chain' \in Seq(Block) /\ Len(chain') = fork
           /\ DOMAIN chain = 1..Len(chain) /\ DOMAIN chain' = 1..fork
           /\ \A h \in 1..fork : chain'[h] = chain[h] /\ h \in DOMAIN chain
OBVIOUS

LEMMA MineHolds ==
    ASSUME IInv, Settled, NEW log \in Logs \cup {None}, Mine(log)
    PROVE  IInv'
<1> USE DEF tables
<1> DEFINE n == Len(chain)
           b == [branch |-> branch, log |-> log]
<1>1. TypeOK /\ ChainHolds /\ TablesHold /\ CursorHolds /\ CycleHolds
    BY DEF IInv
<1>2. b \in Block /\ chain \in Seq(Block) /\ chain' = Append(chain, b)
    BY <1>1 DEF Block, Mine, TypeOK
<1>3. /\ n \in Nat /\ chain' \in Seq(Block) /\ Len(chain') = n + 1
      /\ DOMAIN chain = 1..n /\ DOMAIN chain' = 1..(n + 1)
      /\ \A h \in 1..n : chain'[h] = chain[h]
      /\ chain'[n + 1] = b
    BY <1>2, MinedBlock
<1> HIDE DEF b
<1>4. UNCHANGED <<branch, tables, cycle, failures>>
    BY DEF Mine
<1>5. log # None =>
          /\ n + 1 >= Deployment /\ ~Consumed(ReceiptOf[log])
          /\ mined[log] \in {None, n + 1} /\ mined' = [mined EXCEPT ![log] = n + 1]
    BY DEF Mine, Settled
<1>6. log = None => mined' = mined
    BY DEF Mine
<1>7. TypeOK'
    BY <1>1, <1>3, <1>4, <1>5, <1>6 DEF TypeOK
<1>8. b.branch = branch /\ b.log = log
    BY DEF b
<1>9. \A h \in 1..n : Mined(h)' <=> Mined(h)
    BY <1>3 DEF Mined
<1>10. ASSUME NEW h \in 1..n, Mined(h), log # None
       PROVE  ReceiptOf[chain[h].log] # ReceiptOf[log] /\ chain[h].log # log
    BY <1>3, <1>5, <1>10 DEF Consumed, Mined
<1>11. ChainHolds'
  <2>1. \A h \in 1..(n + 1) : chain'[h].branch <= branch'
      BY <1>1, <1>3, <1>4, <1>8 DEF ChainHolds, TypeOK
  <2>2. ASSUME NEW h \in 1..(n + 1), Mined(h)'
        PROVE  h >= Deployment /\ mined'[chain'[h].log] = h
    <3>1. CASE h = n + 1
        BY <1>1, <1>3, <1>5, <1>8, <2>2, <3>1 DEF Mined, TypeOK
    <3>2. CASE h \in 1..n
      <4>1. /\ Mined(h) /\ h >= Deployment /\ mined[chain[h].log] = h
            /\ chain[h].log \in Logs /\ chain'[h] = chain[h]
        <5>1. Mined(h) /\ h \in DOMAIN chain /\ chain[h] \in Block
            BY <1>2, <1>3, <1>9, <2>2, <3>2
        <5> QED
            BY <1>1, <1>3, <3>2, <5>1 DEF ChainHolds, Mined, Block
      <4> QED
          BY <1>1, <1>5, <1>6, <1>10, <3>2, <4>1 DEF TypeOK
    <3> QED
        BY <1>3, <3>1, <3>2
  <2>3. ASSUME NEW g \in 1..(n + 1), NEW h \in 1..(n + 1), Mined(g)', Mined(h)',
               ReceiptOf[chain'[g].log] = ReceiptOf[chain'[h].log]
        PROVE  g = h
    <3>1. CASE g \in 1..n /\ h \in 1..n
        BY <1>1, <1>3, <1>9, <2>3, <3>1 DEF ChainHolds
    <3>2. CASE g = n + 1 /\ h \in 1..n
        BY <1>3, <1>8, <1>9, <1>10, <2>3, <3>2 DEF Mined
    <3>3. CASE h = n + 1 /\ g \in 1..n
        BY <1>3, <1>8, <1>9, <1>10, <2>3, <3>3 DEF Mined
    <3> QED
        BY <1>3, <3>1, <3>2, <3>3
  <2> QED
      BY <1>3, <2>1, <2>2, <2>3 DEF ChainHolds
<1>12. TablesHold'
  <2>1. ASSUME NEW l \in Logs, recorded[l] # None PROVE recorded[l] = mined'[l]
      BY <1>1, <1>5, <1>6, <2>1 DEF TablesHold, TypeOK
  <2> QED
      BY <1>1, <1>4, <2>1 DEF TablesHold
<1>13. ASSUME cursor # None
       PROVE  /\ Kept < Deployment \/ Kept <= n
              /\ cursor.block > Len(chain') => cursor.branch < branch'
              /\ OnChain(cursor)' => cursor.block <= n
  <2>1. /\ cursor \in Stamp /\ cursor.block >= Deployment
        /\ cursor.block > n => cursor.branch < branch
        /\ Kept >= Deployment => Kept <= n
      BY <1>1, <1>13 DEF CursorHolds, TypeOK
  <2>2. cursor.block \in Nat /\ cursor.branch \in Nat /\ branch \in Nat /\ Kept \in Nat
      BY <1>1, <2>1, KeptFacts DEF Stamp, TypeOK
  <2>3. Kept < Deployment \/ Kept <= n
      BY <2>1, <2>2, DeploymentFacts
  <2>4. cursor.block > Len(chain') => cursor.branch < branch'
      BY <1>3, <1>4, <2>1, <2>2
  <2>5. ASSUME OnChain(cursor)', cursor.block > n PROVE FALSE
    <3>1. cursor.block = n + 1 /\ cursor.branch # branch
        BY <1>3, <1>4, <2>1, <2>2, <2>5 DEF OnChain
    <3>2. chain'[n + 1].branch = cursor.branch
        BY <1>3, <1>4, <2>5, <3>1 DEF OnChain
    <3> QED
        BY <1>3, <1>8, <3>1, <3>2
  <2> QED
      BY <1>3, <2>2, <2>3, <2>4, <2>5
<1>14. cycle # None => cycle.to <= n
    BY <1>1 DEF CycleHolds
<1>15. branch' \in Nat /\ branch' >= branch /\ n <= Len(chain) /\ n <= Len(chain')
    BY <1>1, <1>3, <1>4 DEF TypeOK
<1>16. CursorHolds' /\ CycleHolds'
    BY <1>3, <1>4, <1>13, <1>14, <1>15, ChainStep
<1> QED
    BY <1>7, <1>11, <1>12, <1>16 DEF IInv

LEMMA ReorganiseHolds ==
    ASSUME IInv, Settled, NEW fork \in Nat, Reorganise(fork)
    PROVE  IInv'
<1> USE DEF tables
<1>1. TypeOK /\ ChainHolds /\ TablesHold /\ CursorHolds /\ CycleHolds
    BY DEF IInv
<1>2. /\ chain \in Seq(Block) /\ fork < Len(chain) /\ chain' = SubSeq(chain, 1, fork)
      /\ branch' = branch + 1 /\ branch \in Nat
      /\ UNCHANGED <<mined, tables, cycle, failures>>
    BY <1>1 DEF Reorganise, TypeOK
<1>3. /\ chain' \in Seq(Block) /\ Len(chain') = fork
      /\ DOMAIN chain = 1..Len(chain) /\ DOMAIN chain' = 1..fork
      /\ \A h \in 1..fork : chain'[h] = chain[h] /\ h \in DOMAIN chain
    BY <1>2, ForkedChain
<1>4. TypeOK'
    BY <1>1, <1>2, <1>3 DEF TypeOK
<1>5. ChainHolds'
  <2>1. \A h \in 1..fork : chain'[h].branch <= branch'
    <3>1. \A h \in 1..fork : chain[h].branch \in Nat /\ chain[h].branch <= branch
        BY <1>1, <1>2, <1>3 DEF ChainHolds, Block
    <3> QED
        BY <1>2, <1>3, <3>1
  <2>2. \A h \in 1..fork : Mined(h)' => Mined(h)
      BY <1>3 DEF Mined
  <2> QED
      BY <1>1, <1>2, <1>3, <2>1, <2>2 DEF ChainHolds
<1>6. TablesHold'
    BY <1>1, <1>2 DEF TablesHold
<1>7. ASSUME cursor # None
      PROVE  /\ Kept < Deployment \/ Kept <= fork
             /\ cursor.block > Len(chain') => cursor.branch < branch'
             /\ OnChain(cursor)' => cursor.block <= fork
  <2>1. cursor \in Stamp /\ cursor.block >= Deployment /\ cursor.branch <= branch
      BY <1>1, <1>7 DEF CursorHolds, TypeOK
  <2>2. cursor.block \in Nat /\ cursor.branch \in Nat
      BY <2>1 DEF Stamp
  <2>3. /\ Kept \in Nat
        /\ Kept >= Deployment => Kept = Less(cursor.block, Depth)
        /\ Less(cursor.block, Depth) \in Nat
      BY <2>1, <2>2, KeptFacts, Arithmetic, DeploymentFacts
  <2>4. fork >= Less(cursor.block, Depth) \/ Less(cursor.block, Depth) < Deployment
      BY <1>7 DEF Reorganise
  <2>5. Kept < Deployment \/ Kept <= fork
      BY <2>3, <2>4, DeploymentFacts
  <2>6. OnChain(cursor)' => cursor.block <= fork
      BY <1>2, <1>3 DEF OnChain
  <2> QED
      BY <1>2, <2>1, <2>2, <2>5, <2>6
<1>8. cycle # None => cycle.to <= fork
    BY <1>1 DEF Reorganise, Settled, TypeOK, CycleState
<1>9. branch' \in Nat /\ branch' >= branch /\ fork <= Len(chain) /\ fork <= Len(chain')
    BY <1>2, <1>3
<1>10. CursorHolds' /\ CycleHolds'
    BY <1>2, <1>3, <1>7, <1>8, <1>9, ChainStep
<1> QED
    BY <1>4, <1>5, <1>6, <1>10 DEF IInv

-----------------------------------------------------------------------------
\* The cycle's steps.

LEMMA CycleStep ==
    ASSUME IInv, UNCHANGED <<chainVars, tables>>, failures' \in Nat,
           cycle' \in CycleState \cup {None}, CycleHolds'
    PROVE  IInv'
<1> USE DEF chainVars, tables
<1>1. TypeOK'
    BY DEF IInv, TypeOK
<1>2. ChainHolds' /\ TablesHold'
    BY DEF IInv, ChainHolds, TablesHold, Mined
<1>3. CursorHolds'
    BY DEF IInv, CursorHolds, Kept, Agrees, OnChain
<1> QED
    BY <1>1, <1>2, <1>3 DEF IInv

LEMMA CycleEnds ==
    ASSUME IInv, UNCHANGED <<chainVars, tables>>, failures' \in Nat, cycle' = None
    PROVE  IInv'
BY CycleStep DEF CycleHolds

LEMMA BeginCycleHolds ==
    ASSUME IInv, BeginCycle PROVE IInv'
<1>1. chain \in Seq(Block) /\ Len(chain) \in Nat /\ failures \in Nat
    BY DEF IInv, TypeOK
<1>2. ConfirmedBlock \in Nat /\ ConfirmedBlock <= Len(chain)
    BY <1>1, Arithmetic, DeploymentFacts DEF ConfirmedBlock
<1> DEFINE c == [stage |-> "detect", to |-> ConfirmedBlock, next |-> Deployment,
                 rewind |-> None, found |-> {}, stamp |-> None]
<1>3. cycle' = c /\ UNCHANGED <<chainVars, tables, failures>>
    BY DEF BeginCycle
<1>4. c \in CycleState
    BY <1>2, DeploymentFacts DEF CycleState
<1>5. CycleHolds'
    BY <1>2, <1>3 DEF CycleHolds, chainVars
<1> QED
    BY <1>1, <1>3, <1>4, <1>5, CycleStep

LEMMA CycleUpdates ==
    ASSUME NEW c \in CycleState, NEW stage \in {"logs", "commit"}, NEW next \in Nat,
           NEW rewind \in Nat \cup {None}, NEW found \in SUBSET Found
    PROVE  /\ [c EXCEPT !.stage = stage, !.next = next, !.rewind = rewind] \in CycleState
           /\ [c EXCEPT !.found = found, !.next = next, !.stage = stage] \in CycleState
<1> DEFINE staged == [c EXCEPT !.stage = stage]
           moved == [staged EXCEPT !.next = next]
<1>1. staged \in CycleState
    BY DEF CycleState
<1>2. moved \in CycleState
    BY <1>1 DEF CycleState
<1>3. [moved EXCEPT !.rewind = rewind] \in CycleState
    BY <1>2 DEF CycleState
<1>4. [moved EXCEPT !.found = found] \in CycleState
    BY <1>2 DEF CycleState
<1>5. [moved EXCEPT !.found = found] = [c EXCEPT !.found = found, !.next = next, !.stage = stage]
    BY DEF CycleState
<1> QED
    BY <1>3, <1>4, <1>5

\* A cycle goes on from a base the tables agree up to.
LEMMA GoOnHolds ==
    ASSUME IInv, cycle # None, cycle.stage = "detect", NEW base \in Nat, NEW rewind \in Nat \cup {None},
           base >= Deployment - 1, GoOn(base + 1, rewind),
           IF rewind # None
           THEN base = rewind /\ cursor # None /\ rewind <= Kept
           ELSE IF cursor = None THEN base = Deployment - 1
                ELSE base = cursor.block /\ OnChain(cursor),
           UNCHANGED <<chainVars, tables, failures>>
    PROVE  IInv'
<1> USE DEF chainVars, tables
<1>1. TypeOK /\ CycleHolds /\ cycle \in CycleState /\ cursor \in Stamp \cup {None}
    BY DEF IInv, TypeOK
<1>2. /\ cycle.to \in Nat /\ cycle.to <= Len(chain) /\ cycle.stamp = None
      /\ failures \in Nat /\ cycle.found = {}
    BY <1>1 DEF CycleHolds, CycleState, TypeOK
<1>3. CASE base + 1 > cycle.to
    BY <1>2, <1>3, CycleEnds DEF GoOn
<1>4. CASE ~(base + 1 > cycle.to)
  <2> DEFINE c == [cycle EXCEPT !.stage = "logs", !.next = base + 1, !.rewind = rewind]
  <2>1. cycle' = c /\ base + 1 <= cycle.to
      BY <1>2, <1>4 DEF GoOn
  <2>2. /\ c \in CycleState /\ c.stage = "logs" /\ c.next = base + 1 /\ c.rewind = rewind
        /\ c.to = cycle.to /\ c.found = {} /\ c.stamp = None
    <3>1. c \in CycleState
      <4>1. base + 1 \in Nat /\ {} \in SUBSET Found
          OBVIOUS
      <4> QED
          BY <1>1, <4>1, CycleUpdates
    <3> QED
        BY <1>1, <1>2, <3>1 DEF CycleState
  <2> HIDE DEF c
  <2>3. Base' = base /\ Kept' = Kept
      BY <2>1, <2>2, DeploymentFacts DEF Base, Kept
  <2>4. LogsBetween(base + 1, base) = {}
      BY DEF LogsBetween
  <2>5. /\ c.next - 1 = base
        /\ LogsBetween(Base + 1, cycle.next - 1)' = LogsBetween(base + 1, base)
    <3>1. c.next - 1 = base
        BY <2>2
    <3> QED
        BY <2>1, <2>3, <3>1 DEF LogsBetween
  <2>6. IF rewind # None
        THEN cursor # None /\ rewind \in (Deployment - 1)..Kept
        ELSE cursor # None => OnChain(cursor)
    <3>1. CASE rewind # None
      <4>1. cursor # None /\ cursor \in Stamp /\ cursor.block >= Deployment
          BY <1>1, <3>1 DEF IInv, CursorHolds
      <4>2. Kept \in Nat
          BY <4>1, KeptFacts
      <4> QED
          BY <3>1, <4>1, <4>2, DeploymentFacts
    <3>2. CASE rewind = None
        BY <3>2
    <3> QED
        BY <3>1, <3>2
  <2>7. OnChain(cursor)' <=> OnChain(cursor)
      BY DEF OnChain
  <2>8. base + 1 \in (base + 1)..(cycle.to + 1)
      BY <1>2, <2>1
  <2>9. CycleHolds'
      BY <1>2, <2>1, <2>2, <2>3, <2>4, <2>5, <2>6, <2>7, <2>8 DEF CycleHolds
  <2> QED
      BY <1>2, <2>1, <2>2, <2>9, CycleStep
<1> QED
    BY <1>3, <1>4

LEMMA DetectHolds ==
    ASSUME IInv, Detect PROVE IInv'
<1>1. /\ TypeOK /\ CycleHolds /\ CursorHolds /\ cycle # None /\ cycle.stage = "detect"
      /\ cycle \in CycleState /\ cycle.to \in Nat
      /\ UNCHANGED <<chainVars, tables, failures>>
    BY DEF IInv, TypeOK, CycleState, Detect
<1>2. CASE cursor = None
  <2>1. GoOn(Deployment, None) /\ (Deployment - 1) + 1 = Deployment
      BY <1>2, DeploymentFacts DEF Detect
  <2> QED
      BY <1>1, <1>2, <2>1, DeploymentFacts, GoOnHolds
<1>3. CASE cursor # None
  <2>1. /\ cursor \in Stamp /\ cursor.block \in Nat /\ cursor.block >= Deployment
        /\ Kept \in Nat
      BY <1>1, <1>3, KeptFacts DEF TypeOK, CursorHolds, Stamp
  <2>2. CASE Shrunk \/ ~OnChain(cursor)
    <3>1. GoOn(RewindBlock + 1, RewindBlock)
        BY <1>3, <2>2 DEF Detect
    <3> DEFINE low == Smaller(cursor.block, cycle.to)
    <3>2. low \in Nat /\ low <= cursor.block
        BY <1>1, <2>1, Arithmetic
    <3> HIDE DEF low
    <3>3. Less(low, Depth) \in Nat /\ Less(low, Depth) <= Less(cursor.block, Depth)
        BY <2>1, <3>2, DeploymentFacts DEF Less
    <3>4. RewindBlock \in Nat /\ RewindBlock >= Deployment - 1 /\ RewindBlock <= Kept
      <4>1. PICK a \in Nat : a = Less(low, Depth)
          BY <3>3
      <4>2. RewindBlock = Larger(Deployment - 1, a)
          BY <4>1 DEF RewindBlock, low
      <4>3. Kept >= Deployment - 1 /\ a <= Kept
        <5>1. Less(cursor.block, Depth) \in Nat
            BY <2>1, Arithmetic, DeploymentFacts
        <5> QED
            BY <2>1, <3>3, <4>1, <5>1, KeptFacts
      <4> QED
          BY <2>1, <4>2, <4>3, DeploymentFacts DEF Larger
    <3>5. RewindBlock # None
        BY <3>4, IndexerAssumption
    <3> QED
        BY <1>1, <1>3, <3>1, <3>4, <3>5, GoOnHolds
  <2>3. CASE ~(Shrunk \/ ~OnChain(cursor))
    <3>1. GoOn(cursor.block + 1, None) /\ OnChain(cursor)
        BY <1>3, <2>3 DEF Detect
    <3>2. cursor.block >= Deployment - 1
        BY <2>1, DeploymentFacts
    <3> QED
        BY <1>1, <1>3, <2>1, <3>1, <3>2, GoOnHolds
  <2> QED
      BY <2>2, <2>3
<1> QED
    BY <1>2, <1>3

\* One call after another reads all that is between.
LEMMA LogsJoin ==
    ASSUME NEW from \in Nat, NEW middle \in Nat, NEW to \in Nat,
           from <= middle + 1, middle <= to
    PROVE  LogsBetween(from, to) = LogsBetween(from, middle) \cup LogsBetween(middle + 1, to)
<1>1. from..to = (from..middle) \cup ((middle + 1)..to)
    OBVIOUS
<1> QED
    BY <1>1 DEF LogsBetween

LEMMA BaseFacts ==
    ASSUME IInv, cycle # None, cycle.stage # "detect"
    PROVE  /\ Base \in Nat /\ Base >= Deployment - 1 /\ Base <= cycle.to
           /\ cycle.to \in Nat /\ cycle.to <= Len(chain) /\ cycle.next \in Nat
           /\ cycle.next \in (Base + 1)..(cycle.to + 1)
<1>1. TypeOK /\ CycleHolds /\ CursorHolds /\ cycle \in CycleState
    BY DEF IInv, TypeOK
<1>2. cursor # None => cursor \in Stamp /\ cursor.block >= Deployment
                       /\ cursor.block \in Nat /\ Kept \in Nat
    BY <1>1, KeptFacts DEF TypeOK, CursorHolds, Stamp
<1>3. Base \in Nat /\ Base >= Deployment - 1
    BY <1>1, <1>2, DeploymentFacts DEF Base, CycleHolds
<1>4. /\ cycle.to \in Nat /\ cycle.next \in Nat /\ cycle.to <= Len(chain)
      /\ cycle.next \in (Base + 1)..(cycle.to + 1)
      /\ cycle.stage \in {"logs", "commit"}
    BY <1>1 DEF CycleState, CycleHolds
<1>5. Base + 1 <= cycle.to
    BY <1>1, <1>3, <1>4 DEF CycleHolds
<1> QED
    BY <1>3, <1>4, <1>5

LEMMA ReadLogsHolds ==
    ASSUME IInv, ReadLogs PROVE IInv'
<1> DEFINE last == Smaller(cycle.next + MaxRange - 1, cycle.to)
           c == [cycle EXCEPT
                    !.found = @ \cup LogsBetween(cycle.next, last),
                    !.next = last + 1,
                    !.stage = IF last = cycle.to THEN "commit" ELSE "logs"]
<1>1. /\ TypeOK /\ CycleHolds /\ cycle # None /\ cycle.stage = "logs" /\ cycle \in CycleState
      /\ cycle' = c /\ UNCHANGED <<chainVars, tables, failures>>
    BY DEF IInv, TypeOK, ReadLogs
<1>2. /\ Base \in Nat /\ Base >= Deployment - 1 /\ Base <= cycle.to
      /\ cycle.to \in Nat /\ cycle.to <= Len(chain) /\ cycle.next \in Nat
      /\ cycle.next \in (Base + 1)..(cycle.to + 1)
    BY <1>1, BaseFacts
<1>3. /\ cycle.next <= cycle.to /\ cycle.stamp = None
      /\ cycle.found = LogsBetween(Base + 1, cycle.next - 1)
    BY <1>1 DEF CycleHolds
<1>4. last \in Nat /\ cycle.next <= last /\ last <= cycle.to
  <2>1. cycle.next + MaxRange - 1 \in Nat /\ cycle.next <= cycle.next + MaxRange - 1
      BY <1>2, DeploymentFacts
  <2> QED
      BY <1>2, <1>3, <2>1 DEF Smaller
<1> HIDE DEF last
<1>5. LogsBetween(cycle.next, last) \subseteq Found
  <2>1. ASSUME NEW h \in cycle.next..last, h <= Len(chain), chain[h].log # None
        PROVE  [log |-> chain[h].log, block |-> h] \in Found
    <3>1. h \in Nat /\ h \in 1..Len(chain) /\ chain \in Seq(Block)
        BY <1>1, <1>2, <1>4, <2>1, DeploymentFacts DEF TypeOK
    <3>2. chain[h] \in Block
        BY <3>1
    <3> QED
        BY <2>1, <3>1, <3>2 DEF Block, Found
  <2> QED
      BY <2>1 DEF LogsBetween
<1>6. /\ c \in CycleState /\ c.next = last + 1 /\ c.to = cycle.to /\ c.stamp = cycle.stamp
      /\ c.rewind = cycle.rewind /\ c.found = cycle.found \cup LogsBetween(cycle.next, last)
      /\ c.stage = IF last = cycle.to THEN "commit" ELSE "logs"
  <2>1. /\ cycle.found \cup LogsBetween(cycle.next, last) \in SUBSET Found
        /\ last + 1 \in Nat
        /\ (IF last = cycle.to THEN "commit" ELSE "logs") \in {"logs", "commit"}
      BY <1>1, <1>4, <1>5 DEF CycleState
  <2>2. c \in CycleState
      BY <1>1, <2>1, CycleUpdates
  <2> QED
      BY <1>1, <2>2 DEF CycleState
<1> HIDE DEF c
<1>7. Base' = Base /\ Kept' = Kept /\ (OnChain(cursor)' <=> OnChain(cursor))
    BY <1>1, <1>6 DEF Base, Kept, OnChain, chainVars, tables
<1>8. c.found = LogsBetween(Base + 1, c.next - 1)
  <2>1. PICK middle \in Nat : middle = cycle.next - 1
      BY <1>2
  <2>2. cycle.next = middle + 1 /\ c.next - 1 = last /\ Base + 1 \in Nat
      BY <1>2, <1>4, <1>6, <2>1
  <2>3. Base + 1 <= middle + 1 /\ middle <= last
      BY <1>2, <1>4, <2>1
  <2> QED
      BY <1>3, <1>4, <1>6, <2>1, <2>2, <2>3, LogsJoin
<1>9. cycle'.found = LogsBetween(Base + 1, cycle.next - 1)'
    BY <1>1, <1>7, <1>8 DEF LogsBetween, chainVars
<1>10. /\ c.next \in (Base + 1)..(cycle.to + 1)
       /\ c.stage = "logs" => c.next <= cycle.to
       /\ c.stage = "commit" => c.next = cycle.to + 1 /\ Base < cycle.to
    BY <1>2, <1>3, <1>4, <1>6
<1>11. CycleHolds'
    BY <1>1, <1>2, <1>3, <1>6, <1>7, <1>9, <1>10 DEF CycleHolds, chainVars, tables
<1> QED
    BY <1>1, <1>6, <1>11, CycleStep DEF TypeOK

LEMMA ReadStampHolds ==
    ASSUME IInv, ReadStamp PROVE IInv'
<1> DEFINE c == [cycle EXCEPT !.stamp = chain[cycle.to].branch]
<1>1. /\ TypeOK /\ CycleHolds /\ cycle # None /\ cycle.stage = "commit" /\ cycle \in CycleState
      /\ cycle' = c /\ UNCHANGED <<chainVars, tables, failures>>
    BY DEF IInv, TypeOK, ReadStamp
<1>2. Base \in Nat /\ cycle.to \in Nat /\ Base < cycle.to /\ cycle.to <= Len(chain)
    BY <1>1, BaseFacts DEF CycleHolds
<1>3. chain[cycle.to] \in Block
    BY <1>1, <1>2 DEF TypeOK
<1>4. /\ c \in CycleState /\ c.stamp = chain[cycle.to].branch /\ c.stage = "commit"
      /\ c.next = cycle.next /\ c.to = cycle.to /\ c.rewind = cycle.rewind
      /\ c.found = cycle.found
    BY <1>1, <1>3 DEF CycleState, Block
<1> HIDE DEF c
<1>5. /\ Base' = Base /\ Kept' = Kept /\ (OnChain(cursor)' <=> OnChain(cursor))
      /\ LogsBetween(Base + 1, cycle.next - 1)' = LogsBetween(Base + 1, cycle.next - 1)
    BY <1>1, <1>4 DEF Base, Kept, OnChain, LogsBetween, chainVars, tables
<1>6. CycleHolds'
    BY <1>1, <1>4, <1>5 DEF CycleHolds, chainVars, tables
<1> QED
    BY <1>1, <1>4, <1>6, CycleStep DEF TypeOK

LEMMA LostHolds ==
    ASSUME IInv, ReadFails \/ Fail PROVE IInv'
<1>1. UNCHANGED <<chainVars, tables>> /\ cycle' = None /\ failures' \in Nat
    BY DEF ReadFails, Fail, IInv, TypeOK
<1> QED
    BY <1>1, CycleEnds

-----------------------------------------------------------------------------
\* The transaction.

\* A cycle that commits has read every log above its base.
Whole ==
    /\ cycle # None /\ cycle \in CycleState /\ cycle.stage = "commit"
    /\ cycle.stamp # None /\ cycle.stamp = chain[cycle.to].branch
    /\ Base \in Nat /\ Base >= Deployment - 1 /\ Base < cycle.to
    /\ cycle.to \in Nat /\ cycle.to <= Len(chain)
    /\ cycle.found = LogsBetween(Base + 1, cycle.to)

LEMMA CommitIsWhole ==
    ASSUME IInv, cycle # None, cycle.stamp # None
    PROVE  Whole
<1>1. TypeOK /\ CycleHolds /\ cycle \in CycleState
    BY DEF IInv, TypeOK
<1>2. cycle.stage = "commit"
    BY <1>1 DEF CycleHolds, CycleState
<1>3. Base \in Nat /\ Base >= Deployment - 1 /\ cycle.to \in Nat /\ cycle.to <= Len(chain)
    BY <1>2, BaseFacts
<1>4. /\ cycle.next = cycle.to + 1 /\ Base < cycle.to
      /\ cycle.found = LogsBetween(Base + 1, cycle.next - 1)
      /\ cycle.stamp = chain[cycle.to].branch
    BY <1>1, <1>2 DEF CycleHolds
<1>5. cycle.next - 1 = cycle.to
    BY <1>3, <1>4
<1> QED
    BY <1>1, <1>2, <1>3, <1>4, <1>5 DEF Whole

\* What was found is what the chain has above the base, one log per receipt.
LEMMA FoundFacts ==
    ASSUME IInv, Whole
    PROVE  /\ \A f \in cycle.found :
                  /\ f.log \in Logs /\ f.block \in (Base + 1)..cycle.to
                  /\ f.block \in DOMAIN chain /\ chain[f.block].log = f.log
                  /\ mined[f.log] = f.block
           /\ \A h \in (Base + 1)..cycle.to, l \in Logs :
                  chain[h].log = l => \E f \in cycle.found : f.log = l /\ f.block = h
           /\ \A f, g \in cycle.found : ReceiptOf[f.log] = ReceiptOf[g.log] => f = g
<1>1. TypeOK /\ ChainHolds /\ chain \in Seq(Block) /\ Len(chain) \in Nat /\ None \notin Logs
    BY IndexerAssumption DEF IInv, TypeOK
<1>2. /\ Base \in Nat /\ cycle.to \in Nat /\ cycle.to <= Len(chain)
      /\ cycle.found = {[log |-> chain[h].log, block |-> h] :
             h \in {g \in (Base + 1)..cycle.to : g <= Len(chain) /\ chain[g].log # None}}
    BY DEF Whole, LogsBetween
<1>3. \A h \in (Base + 1)..cycle.to : h \in DOMAIN chain /\ chain[h] \in Block /\ h <= Len(chain)
    BY <1>1, <1>2
<1>4. ASSUME NEW f \in cycle.found
      PROVE  /\ f.log \in Logs /\ f.block \in (Base + 1)..cycle.to
             /\ f.block \in DOMAIN chain /\ chain[f.block].log = f.log
             /\ mined[f.log] = f.block
             /\ f = [log |-> chain[f.block].log, block |-> f.block]
  <2>1. PICK h \in (Base + 1)..cycle.to :
            f = [log |-> chain[h].log, block |-> h] /\ chain[h].log # None
      BY <1>2
  <2>2. h \in DOMAIN chain /\ chain[h] \in Block /\ Mined(h)
      BY <1>3, <2>1 DEF Mined
  <2>3. chain[h].log \in Logs /\ mined[chain[h].log] = h
      BY <1>1, <2>1, <2>2 DEF ChainHolds, Block
  <2> QED
      BY <2>1, <2>2, <2>3
<1>5. ASSUME NEW h \in (Base + 1)..cycle.to, NEW l \in Logs, chain[h].log = l
      PROVE  \E f \in cycle.found : f.log = l /\ f.block = h
  <2>1. [log |-> chain[h].log, block |-> h] \in cycle.found
      BY <1>1, <1>2, <1>3, <1>5
  <2> QED
      BY <1>5, <2>1
<1>6. ASSUME NEW f \in cycle.found, NEW g \in cycle.found,
             ReceiptOf[f.log] = ReceiptOf[g.log]
      PROVE  f = g
  <2>1. Mined(f.block) /\ Mined(g.block)
      BY <1>1, <1>4 DEF Mined
  <2>2. f.block = g.block
      BY <1>1, <1>4, <1>6, <2>1 DEF ChainHolds
  <2> QED
      BY <1>4, <2>2
<1> QED
    BY <1>4, <1>5, <1>6

LEMMA FirstOfOne ==
    ASSUME NEW f, f.block \in Nat PROVE First({f}) = f
BY DEF First

\* The tables agree with the chain up to the base.
LEMMA AgreesOnBase ==
    ASSUME IInv, Whole PROVE Agrees(Base)
<1>1. TypeOK /\ CycleHolds /\ CursorHolds /\ Base \in Nat /\ cycle.stage # "detect" /\ cycle # None
    BY DEF IInv, Whole
<1>2. CASE cycle.rewind # None
  <2>1. cursor # None /\ cycle.rewind \in (Deployment - 1)..Kept /\ Base = cycle.rewind
      BY <1>1, <1>2 DEF CycleHolds, Base
  <2>2. Kept \in Nat /\ Agrees(Kept)
      BY <1>1, <2>1, KeptFacts DEF CursorHolds, TypeOK
  <2>3. PICK k \in Nat : k = Kept
      BY <2>2
  <2>4. Base <= k /\ Agrees(k)
      BY <2>1, <2>2, <2>3, DeploymentFacts
  <2>5. PICK m \in Nat : m = Base
      BY <1>1
  <2>6. Agrees(m)
      BY <2>4, <2>5, AgreesBelow
  <2> QED
      BY <2>5, <2>6
<1>3. CASE cycle.rewind = None /\ cursor # None
    BY <1>1, <1>3 DEF CycleHolds, CursorHolds, Base
<1>4. CASE cycle.rewind = None /\ cursor = None
  <2>1. Base = Deployment - 1
      BY <1>4 DEF Base
  <2> QED
      BY <2>1, DeploymentFacts DEF Agrees
<1> QED
    BY <1>2, <1>3, <1>4

\* What stays consumed was consumed on the chain, no later than the base.
LEMMA KeptStatus ==
    ASSUME IInv, Whole
    PROVE  LET kept == AfterRevert(Superseded)
           IN  /\ \A r \in Receipts : kept[r] # None =>
                      /\ kept[r] \in Logs /\ ReceiptOf[kept[r]] = r
                      /\ recorded[kept[r]] \in Deployment..Base
                      /\ recorded[kept[r]] \in DOMAIN chain
                      /\ chain[recorded[kept[r]]].log = kept[r]
               /\ \A h \in Deployment..Base, l \in Logs :
                      chain[h].log = l => kept[ReceiptOf[l]] = l /\ recorded[l] = h
<1> DEFINE kept == AfterRevert(Superseded)
<1>1. /\ TypeOK /\ TablesHold /\ CycleHolds /\ Agrees(Base) /\ cycle.stage # "detect" /\ cycle # None
      /\ Base \in Nat /\ Base <= Len(chain) /\ Len(chain) \in Nat /\ DOMAIN chain = 1..Len(chain)
  <2>1. chain \in Seq(Block) /\ Base < cycle.to /\ cycle.to <= Len(chain)
        /\ Base \in Nat /\ cycle.to \in Nat
      BY DEF IInv, TypeOK, Whole
  <2> QED
      BY <2>1, AgreesOnBase DEF IInv, Whole
<1>2. ASSUME NEW r \in Receipts, kept[r] # None
      PROVE  /\ kept[r] \in Logs /\ ReceiptOf[kept[r]] = r
             /\ recorded[kept[r]] \in Deployment..Base
             /\ recorded[kept[r]] \in DOMAIN chain
             /\ chain[recorded[kept[r]]].log = kept[r]
  <2>1. PICK l : l = status[r]
      OBVIOUS
  <2>2. kept[r] = l /\ l \notin Superseded
      BY <1>2, <2>1 DEF AfterRevert
  <2>3. /\ l \in Logs /\ ReceiptOf[l] = r /\ cursor # None
        /\ recorded[l] \in Deployment..cursor.block
      BY <1>1, <1>2, <2>1, <2>2 DEF TypeOK, TablesHold
  <2>4. cursor.block \in Nat /\ recorded[l] \in Nat /\ recorded[l] # None
      BY <1>1, <2>3, IndexerAssumption, DeploymentFacts DEF TypeOK, Stamp
  <2>5. recorded[l] <= Base
    <3>1. CASE cycle.rewind # None
        BY <1>1, <2>2, <2>3, <2>4, <3>1 DEF Superseded, Base
    <3>2. CASE cycle.rewind = None
        BY <2>3, <2>4, <3>2 DEF Base
    <3> QED
        BY <3>1, <3>2
  <2>6. recorded[l] \in Deployment..Base
      BY <1>1, <2>3, <2>4, <2>5
  <2>7. recorded[l] \in DOMAIN chain /\ chain[recorded[l]].log = l
      BY <1>1, <2>1, <2>3, <2>6 DEF Agrees
  <2> QED
      BY <2>2, <2>3, <2>6, <2>7
<1>3. ASSUME NEW h \in Deployment..Base, NEW l \in Logs, chain[h].log = l
      PROVE  kept[ReceiptOf[l]] = l /\ recorded[l] = h
  <2>1. h \in DOMAIN chain /\ h \in Nat /\ h <= Base /\ ReceiptOf[l] \in Receipts
      BY <1>1, DeploymentFacts, IndexerAssumption
  <2>2. status[ReceiptOf[l]] = l /\ recorded[l] = h
      BY <1>1, <1>3, <2>1 DEF Agrees
  <2>3. l \notin Superseded
    <3>1. CASE cycle.rewind = None
        BY <3>1 DEF Superseded
    <3>2. CASE cycle.rewind # None
      <4>1. Base = cycle.rewind
          BY <3>2 DEF Base
      <4>2. ~(recorded[l] > cycle.rewind)
          BY <1>1, <2>1, <2>2, <4>1
      <4> QED
          BY <3>2, <4>2 DEF Superseded
    <3> QED
        BY <3>1, <3>2
  <2> QED
      BY <2>1, <2>2, <2>3 DEF AfterRevert
<1> HIDE DEF kept
<1> QED
    BY <1>2, <1>3 DEF kept

\* The statuses after the transaction: what stays, and the log found for what does not.
LEMMA StatusAfter ==
    ASSUME IInv, Whole, NEW r \in Receipts
    PROVE  LET kept == AfterRevert(Superseded)
               after == AfterLogs(kept)
           IN  /\ kept[r] # None => after[r] = kept[r]
               /\ kept[r] = None /\ (\A f \in cycle.found : ReceiptOf[f.log] # r) =>
                      after[r] = None
               /\ \A f \in cycle.found :
                      kept[r] = None /\ ReceiptOf[f.log] = r => after[r] = f.log
<1> DEFINE kept == AfterRevert(Superseded)
           after == AfterLogs(kept)
           own == {f \in cycle.found : ReceiptOf[f.log] = r}
<1> HIDE DEF kept
<1>1. after[r] = IF kept[r] # None \/ own = {} THEN kept[r] ELSE First(own).log
    BY DEF AfterLogs
<1> HIDE DEF after
<1>2. ASSUME NEW f \in cycle.found, kept[r] = None, ReceiptOf[f.log] = r
      PROVE  after[r] = f.log
  <2>1. own = {f}
      BY <1>2, FoundFacts
  <2>2. f.block \in Nat
      BY FoundFacts DEF Whole
  <2> QED
      BY <1>1, <1>2, <2>1, <2>2, FirstOfOne
<1> QED
    BY <1>1, <1>2 DEF after, kept

\* The rows after the transaction: a log is journaled where the chain has it.
LEMMA RecordedAfter ==
    ASSUME IInv, Whole
    PROVE  /\ \A l \in Logs : recorded[l] # None => Recorded[l] = recorded[l]
           /\ \A f \in cycle.found : Recorded[f.log] = f.block
           /\ \A l \in Logs : l \notin FoundLogs /\ recorded[l] = None => Recorded[l] = None
<1>1. ASSUME NEW l \in Logs
      PROVE  Recorded[l] = IF recorded[l] # None \/ l \notin FoundLogs THEN recorded[l]
                           ELSE First({f \in cycle.found : f.log = l}).block
    BY DEF Recorded
<1>2. ASSUME NEW f \in cycle.found
      PROVE  Recorded[f.log] = f.block
  <2>1. f.log \in Logs /\ f.block \in Nat /\ mined[f.log] = f.block /\ f.log \in FoundLogs
      BY FoundFacts DEF Whole, FoundLogs
  <2>2. CASE recorded[f.log] # None
      BY <1>1, <2>1, <2>2 DEF IInv, TablesHold
  <2>3. CASE recorded[f.log] = None
    <3>1. {g \in cycle.found : g.log = f.log} = {f}
        BY FoundFacts
    <3> QED
        BY <1>1, <2>1, <2>3, <3>1, FirstOfOne
  <2> QED
      BY <2>2, <2>3
<1> QED
    BY <1>1, <1>2

LEMMA CommitHolds ==
    ASSUME IInv, Commit PROVE IInv'
<1> DEFINE kept == AfterRevert(Superseded)
<1>1. Whole
    BY CommitIsWhole DEF Commit
<1>0. PICK to \in Nat : to = cycle.to
    BY <1>1 DEF Whole
<1>2. /\ status' = AfterLogs(kept) /\ recorded' = Recorded
      /\ cursor' = [block |-> to, branch |-> chain[to].branch] /\ cycle' = None
      /\ UNCHANGED <<chain, branch, mined, failures>>
    BY <1>0, <1>1 DEF Commit, Whole, chainVars
<1>3. /\ TypeOK /\ ChainHolds /\ TablesHold /\ chain \in Seq(Block) /\ None \notin Logs
      /\ None \notin Nat
    BY IndexerAssumption DEF IInv, TypeOK
<1>4. /\ to \in Nat /\ to <= Len(chain) /\ Base \in Nat /\ Base < to /\ to >= Deployment
      /\ Base >= Deployment - 1 /\ Len(chain) \in Nat
      /\ DOMAIN chain = 1..Len(chain) /\ to \in DOMAIN chain /\ chain[to] \in Block
    BY <1>0, <1>1, <1>3, DeploymentFacts DEF Whole
<1>5. /\ \A f \in cycle.found :
             /\ f.log \in Logs /\ f.block \in (Base + 1)..to
             /\ f.block \in DOMAIN chain /\ chain[f.block].log = f.log
             /\ mined[f.log] = f.block
      /\ \A h \in (Base + 1)..to, l \in Logs :
             chain[h].log = l => \E f \in cycle.found : f.log = l /\ f.block = h
      /\ \A f, g \in cycle.found : ReceiptOf[f.log] = ReceiptOf[g.log] => f = g
    BY <1>0, <1>1, FoundFacts
<1>6. /\ \A r \in Receipts : kept[r] # None =>
             /\ kept[r] \in Logs /\ ReceiptOf[kept[r]] = r
             /\ recorded[kept[r]] \in Deployment..Base
             /\ recorded[kept[r]] \in DOMAIN chain
             /\ chain[recorded[kept[r]]].log = kept[r]
      /\ \A h \in Deployment..Base, l \in Logs :
             chain[h].log = l => kept[ReceiptOf[l]] = l /\ recorded[l] = h
    BY <1>1, KeptStatus
<1>7. ASSUME NEW r \in Receipts
      PROVE  /\ kept[r] # None => status'[r] = kept[r]
             /\ kept[r] = None /\ (\A f \in cycle.found : ReceiptOf[f.log] # r) =>
                    status'[r] = None
             /\ \A f \in cycle.found :
                    kept[r] = None /\ ReceiptOf[f.log] = r => status'[r] = f.log
    BY <1>1, <1>2, StatusAfter
<1>8. /\ \A l \in Logs : recorded[l] # None => recorded'[l] = recorded[l]
      /\ \A f \in cycle.found : recorded'[f.log] = f.block
      /\ \A l \in Logs : l \notin FoundLogs /\ recorded[l] = None => recorded'[l] = None
    BY <1>1, <1>2, RecordedAfter
<1>9. ReceiptOf \in [Logs -> Receipts]
    BY IndexerAssumption
<1> HIDE DEF kept
\* A receipt is consumed by what stayed or by what was found for it.
<1>10. ASSUME NEW r \in Receipts, status'[r] # None
       PROVE  \/ kept[r] # None /\ status'[r] = kept[r]
              \/ \E f \in cycle.found : kept[r] = None /\ ReceiptOf[f.log] = r /\ status'[r] = f.log
    BY <1>7, <1>10
<1>11. ASSUME NEW r \in Receipts, kept[r] # None, status'[r] = kept[r]
       PROVE  /\ status'[r] \in Logs /\ ReceiptOf[status'[r]] = r
              /\ recorded'[status'[r]] \in Deployment..Base
              /\ recorded'[status'[r]] \in DOMAIN chain
              /\ chain[recorded'[status'[r]]].log = status'[r]
  <2>1. recorded[kept[r]] # None
      BY <1>3, <1>4, <1>6, <1>11, DeploymentFacts
  <2>2. recorded'[kept[r]] = recorded[kept[r]]
      BY <1>6, <1>8, <1>11, <2>1
  <2> QED
      BY <1>6, <1>11, <2>2
<1>12. ASSUME NEW r \in Receipts, status'[r] # None
       PROVE  /\ status'[r] \in Logs /\ ReceiptOf[status'[r]] = r
              /\ recorded'[status'[r]] \in Deployment..to
              /\ recorded'[status'[r]] \in DOMAIN chain
              /\ chain[recorded'[status'[r]]].log = status'[r]
  <2>1. CASE kept[r] # None /\ status'[r] = kept[r]
      BY <1>4, <1>11, <2>1, DeploymentFacts
  <2>2. CASE \E f \in cycle.found : ReceiptOf[f.log] = r /\ status'[r] = f.log
    <3>1. PICK f \in cycle.found : ReceiptOf[f.log] = r /\ status'[r] = f.log
        BY <2>2
    <3>2. /\ f.log \in Logs /\ recorded'[f.log] = f.block /\ f.block \in (Base + 1)..to
          /\ f.block \in DOMAIN chain /\ chain[f.block].log = f.log
        BY <1>5, <1>8, <3>1
    <3> QED
        BY <1>4, <3>1, <3>2, DeploymentFacts
  <2> QED
      BY <1>10, <1>12, <2>1, <2>2
<1>13. ASSUME NEW h \in Deployment..to, NEW l \in Logs, chain[h].log = l
       PROVE  status'[ReceiptOf[l]] = l /\ recorded'[l] = h
  <2>1. CASE h <= Base
    <3>1. kept[ReceiptOf[l]] = l /\ recorded[l] = h /\ h \in Nat
        BY <1>4, <1>6, <1>13, <2>1, DeploymentFacts
    <3> QED
        BY <1>3, <1>7, <1>8, <1>9, <3>1
  <2>2. CASE h > Base
    <3>1. h \in (Base + 1)..to /\ h \in DOMAIN chain /\ h \in Nat
        BY <1>4, <2>2, DeploymentFacts
    <3>2. PICK f \in cycle.found : f.log = l /\ f.block = h
        BY <1>5, <1>13, <3>1
    <3>3. kept[ReceiptOf[l]] = None
      <4>1. SUFFICES ASSUME kept[ReceiptOf[l]] # None PROVE FALSE
          OBVIOUS
      <4>2. PICK g : g = recorded[kept[ReceiptOf[l]]]
          OBVIOUS
      <4>3. /\ g \in Deployment..Base /\ g \in DOMAIN chain /\ Mined(g)
            /\ ReceiptOf[chain[g].log] = ReceiptOf[l]
          BY <1>3, <1>6, <1>9, <4>1, <4>2 DEF Mined
      <4>4. Mined(h)
          BY <1>3, <1>13, <3>1 DEF Mined
      <4>5. g = h
          BY <1>3, <1>13, <3>1, <4>3, <4>4 DEF ChainHolds
      <4> QED
          BY <1>4, <2>2, <4>3, <4>5, DeploymentFacts
    <3> QED
        BY <1>7, <1>8, <1>9, <3>2, <3>3
  <2> QED
      BY <1>4, <2>1, <2>2, DeploymentFacts
<1>14. cursor' \in Stamp /\ cursor'.block = to /\ cursor'.branch = chain[to].branch
    BY <1>2, <1>4 DEF Block, Stamp
<1>15. Agrees(to)'
  <2>1. ASSUME NEW h \in Deployment..to, NEW l \in Logs
        PROVE  h \in DOMAIN chain /\ chain[h].log = l
                   <=> status'[ReceiptOf[l]] = l /\ recorded'[l] = h
    <3>1. h \in DOMAIN chain /\ ReceiptOf[l] \in Receipts /\ l # None
        BY <1>3, <1>4, <1>9, DeploymentFacts
    <3>2. status'[ReceiptOf[l]] = l /\ recorded'[l] = h => chain[h].log = l
        BY <1>12, <3>1
    <3> QED
        BY <1>13, <3>1, <3>2
  <2> QED
      BY <1>2, <2>1 DEF Agrees
<1>16. TypeOK'
  <2>1. recorded' \in [Logs -> Nat \cup {None}]
    <3>1. \A l \in Logs : recorded'[l] \in Nat \cup {None}
      <4>1. ASSUME NEW l \in Logs, l \in FoundLogs PROVE recorded'[l] \in Nat
        <5>1. PICK f \in cycle.found : f.log = l
            BY <4>1 DEF FoundLogs
        <5> QED
            BY <1>4, <1>5, <1>8, <5>1
      <4> QED
          BY <1>3, <1>8, <4>1 DEF TypeOK
    <3>2. recorded' = [l \in Logs |-> recorded'[l]]
        BY <1>2 DEF Recorded
    <3> QED
        BY <3>1, <3>2
  <2>2. status' \in [Receipts -> Logs \cup {None}]
    <3>1. \A r \in Receipts : status'[r] \in Logs \cup {None}
        BY <1>12
    <3>2. status' = [r \in Receipts |-> status'[r]]
        BY <1>2 DEF AfterLogs
    <3> QED
        BY <3>1, <3>2
  <2>3. journal' \in Seq(Batch)
    <3>1. Superseded \subseteq Logs /\ FoundLogs \subseteq Logs
        BY <1>5 DEF Superseded, FoundLogs
    <3>2. [reverted |-> Superseded,
           consumed |-> {l \in FoundLogs : recorded[l] = None}] \in Batch
        BY <3>1 DEF Batch
    <3> QED
        BY <1>3, <3>2 DEF Commit, TypeOK
  <2> QED
      BY <1>2, <1>3, <1>14, <2>1, <2>2, <2>3 DEF TypeOK
<1>17. ChainHolds'
    BY <1>2, <1>3 DEF ChainHolds, Mined
<1>18. TablesHold'
  <2>1. ASSUME NEW l \in Logs, recorded'[l] # None PROVE recorded'[l] = mined[l]
    <3>1. CASE recorded[l] # None
        BY <1>3, <1>8, <3>1 DEF TablesHold
    <3>2. CASE l \in FoundLogs
      <4>1. PICK f \in cycle.found : f.log = l
          BY <3>2 DEF FoundLogs
      <4> QED
          BY <1>5, <1>8, <4>1
    <3> QED
        BY <1>8, <2>1, <3>1, <3>2
  <2>2. cursor' # None
      BY <1>14, NoStampAssumption
  <2> QED
      BY <1>2, <1>12, <1>14, <2>1, <2>2 DEF TablesHold
<1>19. CursorHolds'
  <2>1. Agrees(cursor.block)'
      BY <1>14, <1>15 DEF Agrees
  <2>2. /\ Kept' \in Nat /\ Kept' >= Deployment - 1 /\ Kept' <= to
      BY <1>4, <1>14, RewindFacts DEF Kept
  <2>3. Agrees(Kept)'
      BY <1>4, <1>15, <2>2, DeploymentFacts DEF Agrees
  <2>4. chain[to].branch \in Nat /\ chain[to].branch <= branch
      BY <1>3, <1>4 DEF ChainHolds, Block
  <2> QED
      BY <1>2, <1>4, <1>14, <2>1, <2>2, <2>3, <2>4 DEF CursorHolds
<1> QED
    BY <1>2, <1>16, <1>17, <1>18, <1>19 DEF IInv, CycleHolds

-----------------------------------------------------------------------------

LEMMA InitHolds ==
    ASSUME Init PROVE IInv
<1> USE DEF Init
<1>1. TypeOK
    BY DEF TypeOK
<1>2. ChainHolds
    BY DEF ChainHolds
<1> QED
    BY <1>1, <1>2 DEF IInv, TablesHold, CursorHolds, CycleHolds

LEMMA NextHolds ==
    ASSUME IInv, Settled, [Next]_vars PROVE IInv'
<1>1. ASSUME UNCHANGED vars PROVE IInv'
  <2>1. /\ UNCHANGED <<chainVars, tables>> /\ failures' \in Nat /\ cycle' \in CycleState \cup {None}
      BY <1>1 DEF IInv, TypeOK, vars
  <2>2. CycleHolds'
      BY <1>1 DEF IInv, CycleHolds, Kept, Base, OnChain, LogsBetween, vars, chainVars, tables
  <2> QED
      BY <2>1, <2>2, CycleStep
<1>2. ASSUME NEW fork \in 0..MaxHeight, Reorganise(fork) PROVE IInv'
    BY <1>2, ReorganiseHolds, IndexerAssumption
<1> QED
    BY <1>1, <1>2, MineHolds, BeginCycleHolds, DetectHolds, ReadLogsHolds, ReadStampHolds,
       CommitHolds, LostHolds DEF Next, ChainNext, IndexCycle

\* What the tables and a cycle hold of the chain at every moment.
THEOREM IndexerInvariant == Settled => (Spec => []IInv)
<1> SUFFICES ASSUME Settled PROVE Spec => []IInv
    OBVIOUS
<1>1. IInv /\ [Next]_vars => IInv'
    BY NextHolds
<1> QED
    BY <1>1, InitHolds, PTL DEF Spec

\* FollowsChain: while the block under the cursor is there, a receipt is marked consumed
\* exactly if the chain consumed it by then.
THEOREM IndexerFollowsChain == Settled => (Spec => []FollowsChain)
<1>1. ASSUME IInv, cursor # None, OnChain(cursor), NEW r \in Receipts
      PROVE  status[r] # None <=> ConsumedBy(cursor.block, r)
  <2>1. /\ TypeOK /\ TablesHold /\ Agrees(cursor.block) /\ cursor.block >= Deployment
        /\ cursor.block \in Nat /\ cursor.block <= Len(chain) /\ chain \in Seq(Block)
        /\ None \notin Logs /\ ReceiptOf \in [Logs -> Receipts]
      BY <1>1, IndexerAssumption DEF IInv, TypeOK, CursorHolds, OnChain, Stamp
  <2>2. ASSUME status[r] # None PROVE ConsumedBy(cursor.block, r)
    <3>1. /\ status[r] \in Logs /\ ReceiptOf[status[r]] = r
          /\ recorded[status[r]] \in Deployment..cursor.block
        BY <2>1, <2>2 DEF TypeOK, TablesHold
    <3>2. chain[recorded[status[r]]].log = status[r]
        BY <2>1, <3>1 DEF Agrees
    <3> QED
        BY <2>2, <3>1, <3>2 DEF ConsumedBy
  <2>3. ASSUME ConsumedBy(cursor.block, r) PROVE status[r] # None
    <3>1. PICK h \in Deployment..cursor.block :
              chain[h].log # None /\ ReceiptOf[chain[h].log] = r
        BY <2>3 DEF ConsumedBy
    <3>2. h \in DOMAIN chain /\ chain[h] \in Block
        BY <2>1, <3>1, DeploymentFacts
    <3>3. chain[h].log \in Logs
        BY <3>1, <3>2 DEF Block
    <3> QED
        BY <2>1, <3>1, <3>2, <3>3 DEF Agrees
  <2> QED
      BY <2>2, <2>3
<1>2. IInv => FollowsChain
    BY <1>1 DEF FollowsChain
<1> QED
    BY <1>2, IndexerInvariant, PTL

-----------------------------------------------------------------------------
\* What a rebuild makes of the journal, transaction after transaction.  The community
\* modules fold a sequence by a recursive function on the sets of its positions; that there
\* is one is shown from the well-foundedness of strict inclusion between finite sets.

After(logs, r, batch) == UNION {Outcomes(r, l, batch) : l \in logs}

\* iter folds, for receipt r, the transactions of j at the positions of every subset of S.
FoldsTo(iter, r, j, S) ==
    iter = [s \in SUBSET S |->
               IF s = {} THEN {None} ELSE After(iter[s \ {Max(s)}], r, j[Max(s)])]

IterOf(r, j, S) == CHOOSE iter : FoldsTo(iter, r, j, S)

LEMMA RebuiltIsIter ==
    ASSUME NEW r
    PROVE  Rebuilt(r) = IterOf(r, journal, DOMAIN journal)[DOMAIN journal]
BY DEF Rebuilt, FoldLeft, MapThenFoldSet, IterOf, FoldsTo, After

\* A non-empty collection of subsets of a finite set has one that contains no other.
LEMMA LeastSubset ==
    ASSUME NEW S, IsFiniteSet(S), NEW T, T \subseteq SUBSET S, T # {}
    PROVE  \E x \in T : \A y \in T : y \subseteq x => y = x
<1> DEFINE R == StrictSubsetOrdering(S)
<1>1. IsWellFoundedOn(R, SUBSET S)
    BY FS_StrictSubsetOrderingWellFounded, FS_FiniteSubsetsOfFinite
<1> HIDE DEF R
<1>2. PICK x \in T : \A y \in T : ~(<<y, x>> \in R)
    BY <1>1, WFMin
<1>3. ASSUME NEW y \in T, y \subseteq x PROVE y = x
    BY <1>2, <1>3 DEF R, StrictSubsetOrdering
<1> QED
    BY <1>2, <1>3

Positions(S) == IsFiniteSet(S) /\ \A x \in S : x \in Int

LEMMA IntervalIsPositions ==
    ASSUME NEW n \in Nat PROVE Positions(1..n)
<1>1. 0 \in Int /\ 1 \in Int /\ n \in Int
    OBVIOUS
<1>2. IsFiniteSet(1..n)
    BY <1>1, FS_Interval
<1> QED
    BY <1>2 DEF Positions

LEMMA SomePositions ==
    ASSUME NEW S, Positions(S), NEW T \in SUBSET S
    PROVE  Positions(T)
BY FS_Subset DEF Positions

\* A finite set of integers has a greatest member, which is its Max.
LEMMA MaxIsReached ==
    ASSUME NEW S, Positions(S), S # {}
    PROVE  Max(S) \in S /\ \A x \in S : Max(S) >= x
<1> USE DEF Positions
<1> DEFINE above(x) == {y \in S : y >= x}
           Cuts == {C \in SUBSET S : \E x \in S : C = above(x)}
<1>1. Cuts \subseteq SUBSET S /\ Cuts # {}
    OBVIOUS
<1>2. PICK U \in Cuts : \A V \in Cuts : V \subseteq U => V = U
    <2> HIDE DEF Cuts
    <2> QED BY <1>1, LeastSubset
<1>3. PICK x \in S : U = above(x)
    BY <1>2
<1>4. ASSUME NEW y \in S PROVE x >= y
    <2> SUFFICES ASSUME y > x PROVE FALSE
        OBVIOUS
    <2>1. x \in Int /\ y \in Int /\ \A z \in S : z \in Int
        OBVIOUS
    <2>2. above(y) \subseteq U
        <3>1. \A z \in S : z >= y => z >= x
            BY <2>1
        <3>2. U = {z \in S : z >= x}
            BY <1>3
        <3> QED
            BY <3>1, <3>2
    <2>3. x \in U /\ x \notin above(y)
        BY <1>3, <2>1
    <2>4. above(y) \in Cuts
        OBVIOUS
    <2> QED
        BY <1>2, <2>2, <2>3, <2>4
<1> QED
    BY <1>4 DEF Max

LEMMA MaxOfPositions ==
    ASSUME NEW S, Positions(S), NEW s \in SUBSET S, s # {}
    PROVE  Max(s) \in s /\ s \ {Max(s)} # s
<1>1. Max(s) \in s
    BY SomePositions, MaxIsReached
<1> QED
    BY <1>1

SameAt(j, k, S) == \A i \in S : j[i] = k[i]

\* Two folds of journals that agree on the positions of T agree there.
LEMMA FoldsAgree ==
    ASSUME NEW r, NEW S, Positions(S), NEW T \in SUBSET S,
           NEW j, NEW k, SameAt(j, k, T),
           NEW g, NEW h, FoldsTo(g, r, j, S), FoldsTo(h, r, k, T)
    PROVE  g[T] = h[T]
<1> DEFINE D == {s \in SUBSET T : g[s] # h[s]}
<1> SUFFICES ASSUME D # {} PROVE FALSE
    OBVIOUS
<1>1. PICK s \in D : \A y \in D : y \subseteq s => y = s
    <2>1. D \subseteq SUBSET S
        OBVIOUS
    <2>2. IsFiniteSet(S)
        BY DEF Positions
    <2> HIDE DEF D
    <2> QED BY <2>1, <2>2, LeastSubset
<1>2. CASE s = {}
    BY <1>1, <1>2 DEF FoldsTo
<1>3. CASE s # {}
    <2> DEFINE m == Max(s)
    <2>1. m \in s /\ s \ {m} # s
        BY <1>1, <1>3, MaxOfPositions
    <2> HIDE DEF m
    <2>2. s \ {m} \notin D
        BY <1>1, <2>1
    <2>3. g[s \ {m}] = h[s \ {m}] /\ j[m] = k[m]
        BY <2>1, <2>2 DEF SameAt
    <2>4. g[s] = After(g[s \ {m}], r, j[m])
        BY <1>3 DEF FoldsTo, m
    <2>5. h[s] = After(h[s \ {m}], r, k[m])
        BY <1>3 DEF FoldsTo, m
    <2> QED
        BY <1>1, <2>3, <2>4, <2>5
<1> QED
    BY <1>2, <1>3

LEMMA FoldsWithin ==
    ASSUME NEW r, NEW j, NEW S, Positions(S), NEW T \in SUBSET S,
           NEW g, NEW h, FoldsTo(g, r, j, S), FoldsTo(h, r, j, T)
    PROVE  g[T] = h[T]
<1>1. SameAt(j, j, T)
    BY DEF SameAt
<1> QED
    BY <1>1, FoldsAgree

\* There is a fold: a least set without one would have those of its own subsets to build on.
LEMMA FoldExists ==
    ASSUME NEW r, NEW j, NEW S, Positions(S)
    PROVE  FoldsTo(IterOf(r, j, S), r, j, S)
<1> DEFINE Without == {T \in SUBSET S : ~ \E g : FoldsTo(g, r, j, T)}
<1>1. Without = {}
    <2> SUFFICES ASSUME Without # {} PROVE FALSE
        OBVIOUS
    <2>1. PICK T \in Without : \A y \in Without : y \subseteq T => y = T
        <3>1. Without \subseteq SUBSET S
            OBVIOUS
        <3>2. IsFiniteSet(S)
            BY DEF Positions
        <3> HIDE DEF Without
        <3> QED BY <3>1, <3>2, LeastSubset
    <2>2. ASSUME NEW s \in SUBSET T, s # T PROVE FoldsTo(IterOf(r, j, s), r, j, s)
        <3>1. \E g : FoldsTo(g, r, j, s)
            BY <2>1, <2>2
        <3> QED
            BY <3>1 DEF IterOf
    <2> DEFINE rest(s) == s \ {Max(s)}
               own(s) == IterOf(r, j, s)[s]
               g == [s \in SUBSET T |->
                        IF s = {} THEN {None} ELSE After(own(rest(s)), r, j[Max(s)])]
    <2>3. ASSUME NEW s \in SUBSET T, s # {}
          PROVE  rest(s) \in SUBSET T /\ rest(s) # T /\ rest(s) \in SUBSET s /\ Positions(s)
        BY <2>3, MaxOfPositions, SomePositions
    <2>4. ASSUME NEW s \in SUBSET T, s # T PROVE own(s) = g[s]
        <3>1. FoldsTo(IterOf(r, j, s), r, j, s)
            BY <2>2, <2>4
        <3>2. CASE s = {}
            BY <3>1, <3>2 DEF FoldsTo
        <3>3. CASE s # {}
            <4>1. IterOf(r, j, s)[s] = After(IterOf(r, j, s)[rest(s)], r, j[Max(s)])
                BY <3>1, <3>3 DEF FoldsTo
            <4>2. FoldsTo(IterOf(r, j, rest(s)), r, j, rest(s))
                BY <2>2, <2>3, <3>3
            <4>3. rest(s) \in SUBSET s /\ Positions(s)
                BY <2>3, <3>3
            <4>4. IterOf(r, j, s)[rest(s)] = own(rest(s))
                <5>1. PICK u \in SUBSET s : u = rest(s)
                    BY <4>3
                <5>2. FoldsTo(IterOf(r, j, u), r, j, u)
                    BY <4>2, <5>1
                <5>3. IterOf(r, j, s)[u] = IterOf(r, j, u)[u]
                    BY <3>1, <4>3, <5>2, FoldsWithin
                <5> QED
                    BY <5>1, <5>3
            <4> QED
                BY <3>3, <4>1, <4>4
        <3> QED
            BY <3>2, <3>3
    <2>5. ASSUME NEW s \in SUBSET T, s # {} PROVE own(rest(s)) = g[rest(s)]
        BY <2>3, <2>4, <2>5
    <2>6. g = [s \in SUBSET T |->
                  IF s = {} THEN {None} ELSE After(g[rest(s)], r, j[Max(s)])]
        BY <2>5
    <2>7. FoldsTo(g, r, j, T)
        BY <2>6 DEF FoldsTo
    <2> QED
        BY <2>1, <2>7
<1>2. \E g : FoldsTo(g, r, j, S)
    BY <1>1
<1> QED
    BY <1>2 DEF IterOf

\* An empty journal consumes nothing.
LEMMA RebuiltOfNothing ==
    ASSUME journal = <<>>, NEW r
    PROVE  Rebuilt(r) = {None}
<1>1. DOMAIN journal = {} /\ Positions({})
    BY FS_EmptySet DEF Positions
<1>2. FoldsTo(IterOf(r, journal, {}), r, journal, {})
    BY <1>1, FoldExists
<1> QED
    BY <1>1, <1>2, RebuiltIsIter DEF FoldsTo

LEMMA FoldsMeet ==
    ASSUME NEW r, NEW j, NEW k, NEW U, Positions(U), NEW S \in SUBSET U, SameAt(k, j, S)
    PROVE  IterOf(r, k, U)[S] = IterOf(r, j, S)[S]
<1>1. Positions(S)
    BY SomePositions
<1>2. PICK g : g = IterOf(r, k, U)
    OBVIOUS
<1>3. PICK h : h = IterOf(r, j, S)
    OBVIOUS
<1>4. FoldsTo(g, r, k, U)
    BY <1>2, FoldExists
<1>5. FoldsTo(h, r, j, S)
    BY <1>1, <1>3, FoldExists
<1>6. g[S] = h[S]
    BY <1>4, <1>5, FoldsAgree
<1> QED
    BY <1>2, <1>3, <1>6

\* The last position is folded last.
LEMMA FoldGrows ==
    ASSUME NEW r, NEW j, NEW k, NEW U, Positions(U), U # {},
           NEW S, S = U \ {Max(U)}, SameAt(k, j, S)
    PROVE  IterOf(r, k, U)[U] = After(IterOf(r, j, S)[S], r, k[Max(U)])
<1>1. FoldsTo(IterOf(r, k, U), r, k, U)
    BY FoldExists
<1>2. IterOf(r, k, U)[U] = After(IterOf(r, k, U)[U \ {Max(U)}], r, k[Max(U)])
    BY <1>1 DEF FoldsTo
<1>3. IterOf(r, k, U)[S] = IterOf(r, j, S)[S]
    BY FoldsMeet
<1> QED
    BY <1>2, <1>3

\* A transaction appended is applied after the others.
LEMMA RebuiltGrows ==
    ASSUME journal \in Seq(Batch), NEW batch \in Batch, journal' = Append(journal, batch),
           NEW r
    PROVE  Rebuilt(r)' = After(Rebuilt(r), r, batch)
<1>1. PICK n \in Nat : n = Len(journal) + 1
    OBVIOUS
<1>2. PICK S : S = DOMAIN journal
    OBVIOUS
<1>3. PICK U : U = 1..n
    OBVIOUS
<1>4. PICK k : k = Append(journal, batch)
    OBVIOUS
<1>5. /\ DOMAIN k = U /\ S = 1..Len(journal) /\ Len(journal) \in Nat
      /\ \A i \in S : k[i] = journal[i]
      /\ k[n] = batch
    BY <1>1, <1>2, <1>3, <1>4
<1>6. Positions(U) /\ U # {} /\ S = U \ {Max(U)} /\ Max(U) = n /\ SameAt(k, journal, S)
    <2>1. Positions(U) /\ n \in U /\ S = U \ {n} /\ \A i \in U : n >= i
        BY <1>1, <1>3, <1>5, IntervalIsPositions
    <2>2. Max(U) \in U /\ Max(U) >= n
        BY <2>1, MaxIsReached
    <2>3. Max(U) = n
        BY <1>1, <1>3, <2>1, <2>2
    <2> QED
        BY <1>5, <2>1, <2>3 DEF SameAt
<1>7. Rebuilt(r) = IterOf(r, journal, S)[S]
    BY <1>2, RebuiltIsIter
<1>8. Rebuilt(r)' = IterOf(r, k, U)[U]
    <2>1. Rebuilt(r)' = IterOf(r, journal', DOMAIN journal')[DOMAIN journal']
        BY DEF Rebuilt, FoldLeft, MapThenFoldSet, IterOf, FoldsTo, After
    <2> QED
        BY <1>4, <1>5, <2>1
<1>9. IterOf(r, k, U)[U] = After(IterOf(r, journal, S)[S], r, k[Max(U)])
    BY <1>6, FoldGrows
<1> QED
    BY <1>5, <1>6, <1>7, <1>8, <1>9

-----------------------------------------------------------------------------
\* A rebuild invents nothing.

\* The transaction leaves a rebuild of receipt r with what it leaves the table with.
LEMMA CommitInventsNothing ==
    ASSUME IInv, Commit, RebuildInventsNothing
    PROVE  RebuildInventsNothing'
<1> DEFINE kept == AfterRevert(Superseded)
           batch == [reverted |-> Superseded, consumed |-> {l \in FoundLogs : recorded[l] = None}]
<1>1. IInv /\ Whole /\ TypeOK /\ None \notin Logs
    BY CommitIsWhole, IndexerAssumption DEF Commit, IInv
<1>2. status' = AfterLogs(kept) /\ journal' = Append(journal, batch)
    BY DEF Commit
<1>3. FoundLogs \subseteq Logs /\ Superseded \subseteq Logs
    BY <1>1, FoundFacts DEF FoundLogs, Superseded
<1>4. batch \in Batch /\ journal \in Seq(Batch)
    BY <1>1, <1>3 DEF Batch, TypeOK
<1>5. ASSUME NEW r \in Receipts, NEW l \in batch.consumed, ReceiptOf[l] = r
      PROVE  status'[r] = l
    <2>1. PICK f \in cycle.found : f.log = l
        BY <1>5 DEF FoundLogs
    <2>2. /\ l \in Logs /\ f.block \in (Base + 1)..cycle.to /\ f.block \in DOMAIN chain
          /\ chain[f.block].log = l
        BY <1>1, <2>1, FoundFacts
    <2>3. kept[r] = None
        <3>1. SUFFICES ASSUME kept[r] # None PROVE FALSE
            OBVIOUS
        <3>2. PICK g : g = recorded[kept[r]]
            OBVIOUS
        <3>3. /\ kept[r] \in Logs /\ ReceiptOf[kept[r]] = r /\ g \in Deployment..Base
              /\ g \in DOMAIN chain /\ chain[g].log = kept[r]
            BY <1>1, <3>1, <3>2, KeptStatus
        <3>4. Mined(g) /\ Mined(f.block) /\ ReceiptOf[chain[g].log] = ReceiptOf[chain[f.block].log]
            BY <1>1, <1>5, <2>2, <3>3 DEF Mined
        <3>5. g = f.block
            BY <1>1, <2>2, <3>3, <3>4 DEF IInv, ChainHolds
        <3> QED
            BY <1>1, <2>2, <3>3, <3>5, DeploymentFacts DEF Whole
    <2>4. AfterLogs(kept)[r] = f.log
        BY <1>1, <1>5, <2>1, <2>3, StatusAfter
    <2> QED
        BY <1>2, <2>1, <2>4
<1>6. ASSUME NEW r \in Receipts, kept[r] # None PROVE status'[r] = kept[r]
    BY <1>1, <1>2, <1>6, StatusAfter
<1>7. ASSUME NEW r \in Receipts, NEW l \in {None, status[r]}, NEW m \in Outcomes(r, l, batch)
      PROVE  m \in {None, status'[r]}
    <2>1. CASE l = None \/ l \in batch.reverted
        BY <1>5, <1>7, <2>1 DEF Outcomes
    <2>2. CASE l # None /\ l \notin batch.reverted
        <3>1. m = l /\ l = status[r] /\ kept[r] = l
            BY <1>7, <2>2 DEF Outcomes, AfterRevert
        <3> QED
            BY <1>6, <2>2, <3>1
    <2> QED
        BY <2>1, <2>2
<1>8. ASSUME NEW r \in Receipts PROVE (Rebuilt(r) \subseteq {None, status[r]})'
    <2>1. Rebuilt(r)' = After(Rebuilt(r), r, batch)
        BY <1>2, <1>4, RebuiltGrows
    <2>2. Rebuilt(r) \subseteq {None, status[r]}
        BY DEF RebuildInventsNothing
    <2> HIDE DEF batch
    <2> QED
        BY <1>7, <2>1, <2>2 DEF After
<1> QED
    BY <1>8 DEF RebuildInventsNothing

\* RebuildInventsNothing: as long as a log that is mined again keeps its height and no block
\* changes under the cycle that reads it, a rebuild marks a receipt consumed only if the table
\* has it so, and by the same log; without either it may not.
THEOREM RebuildsInventNothing == Settled => (Spec => []RebuildInventsNothing)
<1> SUFFICES ASSUME Settled PROVE Spec => []RebuildInventsNothing
    OBVIOUS
<1>1. Init => RebuildInventsNothing
    BY RebuiltOfNothing DEF Init, RebuildInventsNothing
<1>2. ASSUME UNCHANGED <<journal, status>>, RebuildInventsNothing
      PROVE  RebuildInventsNothing'
    <2>1. ASSUME NEW r PROVE Rebuilt(r)' = Rebuilt(r)
        BY <1>2 DEF Rebuilt, FoldLeft, MapThenFoldSet
    <2> QED
        BY <1>2, <2>1 DEF RebuildInventsNothing
<1>3. IInv /\ RebuildInventsNothing /\ [Next]_vars => RebuildInventsNothing'
    BY <1>2, CommitInventsNothing
       DEF Next, ChainNext, IndexCycle, Mine, Reorganise, BeginCycle, Detect, ReadLogs,
           ReadStamp, ReadFails, Fail, vars, tables
<1> QED
    BY <1>1, <1>3, IndexerInvariant, PTL DEF Spec

=============================================================================
