-------------------------- MODULE B20Tracking_proof --------------------------
(***************************************************************************)
(* What the B20 indexer holds and what is derived from it, for any chain,  *)
(* any lookback and width of a range, any number of replaced blocks and    *)
(* any multipliers: as long as no replaced block is one the cursor has     *)
(* indexed and keeps no hash of.                                           *)
(*                                                                         *)
(* The argument: there is a branch, one block for every height up to the   *)
(* cursor, whose logs are the facts that still count.  It differs from the *)
(* chain only at heights whose hashes the cursor keeps, and a hash says    *)
(* all of the branch below it, so a round that finds no fork has the       *)
(* chain's own blocks.                                                     *)
(***************************************************************************)
EXTENDS B20Tracking, FiniteSetTheorems, WellFoundedInduction, TLAPS

-----------------------------------------------------------------------------
\* The fixture and its logs.

AssetSet == [multiplier : Values \cup {Seed}, newMultiplier : Values \cup {0}, effectiveAt : Nat]

LEMMA DeployedTyped == Deployed(Seed) \in AssetSet
BY DEF Deployed, AssetSet

LEMMA CallTyped ==
    ASSUME NEW n \in Nat, NEW call \in Calls(n)
    PROVE  /\ call.kind \in {"none", "instant", "schedule", "cancel"}
           /\ call.kind \in {"instant", "schedule"} => call.value \in Values
           /\ call.kind = "schedule" => call.at \in Nat /\ call.at > n
<1> USE DEF NoCall, CancelUIMultiplierUpdate, UpdateMultiplier, UpdateUIMultiplier
<1>1. CASE call \in {NoCall, CancelUIMultiplierUpdate}
    BY <1>1
<1>2. ASSUME NEW v \in Values, call = UpdateMultiplier(v) PROVE call.kind = "instant" /\ call.value \in Values
    BY <1>2
<1>3. ASSUME NEW v \in Values, NEW at \in {n + 1, n + 2}, call = UpdateUIMultiplier(v, at)
      PROVE  call.kind = "schedule" /\ call.value \in Values /\ call.at \in Nat /\ call.at > n
    BY <1>3
<1> HIDE DEF NoCall, CancelUIMultiplierUpdate, UpdateMultiplier, UpdateUIMultiplier
<1>4. \/ call \in {NoCall, CancelUIMultiplierUpdate}
      \/ \E v \in Values : call = UpdateMultiplier(v)
      \/ \E v \in Values, at \in {n + 1, n + 2} : call = UpdateUIMultiplier(v, at)
    BY DEF Calls
<1> QED
    BY <1>1, <1>2, <1>3, <1>4 DEF NoCall, CancelUIMultiplierUpdate

LEMMA AfterCallTyped ==
    ASSUME NEW n \in Nat, NEW call \in Calls(n), NEW asset \in AssetSet
    PROVE  AfterCall(asset, call) \in AssetSet
BY CallTyped DEF AfterCall, ClearSchedule, AssetSet

\* What is said of a log: whose it is and where it stands.
LogOf(log, ref) ==
    /\ log.hash = ref.hash /\ log.block = ref.number /\ log.time = ref.number
    /\ log.tx = 0 /\ log.log \in {0, 1, 2}

LEMMA EmittedLogs ==
    ASSUME NEW n \in Nat, NEW call \in Calls(n), NEW asset \in AssetSet, NEW ref
    PROVE  /\ \A log \in Emitted(asset, call, ref) : LogOf(log, ref)
           /\ \A a, b \in Emitted(asset, call, ref) : a.log = b.log => a = b
           /\ IsFiniteSet(Emitted(asset, call, ref))
<1> DEFINE none == Log(ref, 0, "CANCELLED", None, None, None)
           legacy == Log(ref, 1, "LEGACY", None, call.value, None)
           updated == Log(ref, 2, "UPDATED", call.value, call.value, ref.number)
           scheduled == Log(ref, 0, "UPDATED", asset.multiplier, call.value, call.at)
<1>1. /\ LogOf(none, ref) /\ LogOf(legacy, ref) /\ LogOf(updated, ref) /\ LogOf(scheduled, ref)
      /\ none.log = 0 /\ legacy.log = 1 /\ updated.log = 2 /\ scheduled.log = 0
    BY DEF Log, LogOf
<1>2. Emitted(asset, call, ref) \in
        {{}, {none}, {legacy, updated}, {none, legacy, updated}, {scheduled}}
    BY CallTyped DEF Emitted
<1> HIDE DEF none, legacy, updated, scheduled
<1>3. ASSUME NEW S \in {{}, {none}, {legacy, updated}, {none, legacy, updated}, {scheduled}}
      PROVE  IsFiniteSet(S)
    <2>1. IsFiniteSet({}) /\ IsFiniteSet({none}) /\ IsFiniteSet({legacy}) /\ IsFiniteSet({scheduled})
        BY FS_EmptySet, FS_Singleton
    <2>2. IsFiniteSet({legacy} \cup {updated})
        BY <2>1, FS_AddElement
    <2>3. IsFiniteSet(({legacy} \cup {updated}) \cup {none})
        BY <2>2, FS_AddElement
    <2>4. {legacy} \cup {updated} = {legacy, updated}
          /\ ({legacy} \cup {updated}) \cup {none} = {none, legacy, updated}
        OBVIOUS
    <2> QED
        BY <1>3, <2>1, <2>2, <2>3, <2>4
<1>4. IsFiniteSet(Emitted(asset, call, ref))
    BY <1>2, <1>3
<1> QED
    BY <1>1, <1>2, <1>4

-----------------------------------------------------------------------------
\* The chain.

AssetIn(c, n) == IF n = 0 THEN Deployed(Seed) ELSE c[n].asset

\* Block n of c is what some call leaves of the block below it.
Mined(c, n) ==
    \E call \in Calls(n) :
        /\ ~Reverts(AssetIn(c, n - 1), call, n)
        /\ c[n].asset = AfterCall(AssetIn(c, n - 1), call)
        /\ c[n].logs = Emitted(AssetIn(c, n - 1), call, [number |-> n, hash |-> c[n].hash])

\* The first n blocks of c were mined one upon the other.
Grown(c, n) ==
    /\ n \in Nat
    /\ \A m \in 1..n : c[m].asset \in AssetSet /\ Mined(c, m)

ChainHolds ==
    /\ hashes \in Nat /\ Height \in Nat
    /\ \E S : blocks \in Seq(S)
    /\ \A n \in 1..Height : /\ blocks[n].hash \in 1..hashes /\ blocks[n].asset \in AssetSet
                            /\ Mined(blocks, n)
    /\ \A m, n \in 1..Height : m < n => blocks[m].hash < blocks[n].hash

\* What is journaled of a block on the chain is the chain's, and is not taken back.
JournalHolds ==
    /\ \A log \in journal : log.hash \in 1..hashes
    /\ \A log \in journal, n \in 1..Height : log.hash = blocks[n].hash => log \in blocks[n].logs
    /\ compensated \in SUBSET (1..hashes)
    /\ \A n \in 1..Height : blocks[n].hash \notin compensated

\* The branch that is held: see the head of the module.
Branch(held) ==
    /\ Grown(held, cursor.last)
    /\ \A n \in 1..cursor.last : /\ held[n].hash \in 1..hashes
                                 /\ \A log \in held[n].logs : log.hash = held[n].hash
    /\ \A m, n \in 1..cursor.last : m < n => held[m].hash < held[n].hash
    /\ Facts = UNION {held[n].logs : n \in 1..cursor.last}
    /\ \A b \in cursor.recent : b = [number |-> b.number, hash |-> held[b.number].hash]
    /\ \A n \in 1..cursor.last : n \notin Retained => n \in 1..Height /\ held[n] = blocks[n]
    /\ \A n \in 1..cursor.last, m \in 1..Height :
            held[n].hash = blocks[m].hash => m = n /\ \A k \in 1..n : held[k] = blocks[k]

CursorHolds ==
    /\ cursor.last \in Nat /\ DOMAIN cursor = {"last", "recent", "fence"}
    /\ cursor = [last |-> cursor.last, recent |-> cursor.recent, fence |-> cursor.fence]
    /\ \A b \in cursor.recent : b.number \in 1..cursor.last
    /\ \A b \in cursor.recent : b.number..cursor.last \subseteq Retained

IInv == ChainHolds /\ JournalHolds /\ CursorHolds /\ \E held : Branch(held)

LEMMA InitHolds == Init => IInv
<1> SUFFICES ASSUME Init PROVE IInv
    OBVIOUS
<1>1. ChainHolds
    BY DEF Init, ChainHolds, Height
<1>2. JournalHolds
    BY <1>1 DEF Init, JournalHolds, Height
<1>3. CursorHolds
    BY DEF Init, CursorHolds, Retained
<1>4. Branch(<<>>)
    BY DEF Init, Branch, Grown, Facts, Height
<1> QED
    BY <1>1, <1>2, <1>3, <1>4 DEF IInv

LEMMA GrownTyped ==
    ASSUME NEW c, NEW top, Grown(c, top), NEW n \in 1..top
    PROVE  /\ n \in Nat /\ n - 1 \in Nat /\ AssetIn(c, n - 1) \in AssetSet
           /\ \A log \in c[n].logs : LogOf(log, [number |-> n, hash |-> c[n].hash])
           /\ \A a, b \in c[n].logs : a.log = b.log => a = b
           /\ IsFiniteSet(c[n].logs)
<1>1. top \in Nat /\ n \in Nat /\ n - 1 \in Nat /\ (n - 1 # 0 => n - 1 \in 1..top)
    BY DEF Grown
<1>2. AssetIn(c, n - 1) \in AssetSet
    BY <1>1, DeployedTyped DEF Grown, AssetIn
<1>3. PICK call \in Calls(n) :
        c[n].logs = Emitted(AssetIn(c, n - 1), call, [number |-> n, hash |-> c[n].hash])
    BY DEF Grown, Mined
<1> QED
    BY <1>1, <1>2, <1>3, EmittedLogs

LEMMA ChainGrown == ChainHolds => Grown(blocks, Height)
BY DEF ChainHolds, Grown

LEMMA ChainTyped ==
    ASSUME ChainHolds, NEW n \in 1..Height
    PROVE  /\ n \in Nat /\ n - 1 \in Nat /\ AssetIn(blocks, n - 1) \in AssetSet
           /\ \A log \in blocks[n].logs : LogOf(log, [number |-> n, hash |-> blocks[n].hash])
           /\ \A a, b \in blocks[n].logs : a.log = b.log => a = b
           /\ IsFiniteSet(blocks[n].logs)
BY ChainGrown, GrownTyped

-----------------------------------------------------------------------------
\* A new block.

LEMMA MinedBlocks ==
    ASSUME ChainHolds, NEW n \in 0..Height, MineOn(n)
    PROVE  /\ hashes' = hashes + 1 /\ hashes \in Nat /\ Height \in Nat
           /\ Height' = n + 1 /\ (\E S : blocks' \in Seq(S))
           /\ \A m \in 1..n : m \in 1..Height /\ blocks'[m] = blocks[m]
           /\ blocks'[n + 1].hash = hashes + 1 /\ blocks'[n + 1].asset \in AssetSet
           /\ Mined(blocks', n + 1)
<1>1. hashes \in Nat /\ Height \in Nat /\ Height = Len(blocks) /\ hashes' = hashes + 1
    BY DEF ChainHolds, Height, MineOn
<1>2. PICK S : blocks \in Seq(S)
    BY DEF ChainHolds
<1>3. PICK call \in Calls(n + 1) :
        /\ ~Reverts(AssetAt(n), call, n + 1)
        /\ blocks' = Append(SubSeq(blocks, 1, n),
                            [hash |-> hashes + 1, asset |-> AfterCall(AssetAt(n), call),
                             logs |-> Emitted(AssetAt(n), call,
                                              [number |-> n + 1, hash |-> hashes + 1])])
    BY DEF MineOn
<1> DEFINE new == [hash |-> hashes + 1, asset |-> AfterCall(AssetAt(n), call),
                   logs |-> Emitted(AssetAt(n), call, [number |-> n + 1, hash |-> hashes + 1])]
           prefix == SubSeq(blocks, 1, n)
<1>4. /\ new.hash = hashes + 1 /\ new.asset = AfterCall(AssetAt(n), call)
      /\ new.logs = Emitted(AssetAt(n), call, [number |-> n + 1, hash |-> hashes + 1])
    OBVIOUS
<1>5. blocks' = Append(prefix, new)
    BY <1>3
<1>6. prefix \in Seq(S \cup {new}) /\ Len(prefix) = n /\ \A m \in 1..n : prefix[m] = blocks[m]
    BY <1>1, <1>2
<1> HIDE DEF new, prefix
<1>7. /\ blocks' \in Seq(S \cup {new}) /\ Len(blocks') = n + 1 /\ blocks'[n + 1] = new
      /\ \A m \in 1..n : blocks'[m] = prefix[m]
    BY <1>5, <1>6
<1>8. \A m \in 1..n : m \in 1..Height /\ blocks'[m] = blocks[m]
    BY <1>1, <1>6, <1>7
<1>9. AssetAt(n) = AssetIn(blocks, n) /\ AssetIn(blocks', n) = AssetIn(blocks, n)
      /\ AssetIn(blocks, n) \in AssetSet
    <2>1. n # 0 => n \in 1..n /\ n \in 1..Height
        BY <1>1
    <2> QED
        BY <1>8, <2>1, DeployedTyped DEF AssetAt, AssetIn, ChainHolds
<1>10. new.asset \in AssetSet
    BY <1>1, <1>4, <1>9, AfterCallTyped
<1>11. Mined(blocks', n + 1)
    <2>1. (n + 1) - 1 = n
        BY <1>1
    <2> QED
        BY <1>3, <1>4, <1>7, <1>9, <2>1 DEF Mined
<1> QED
    BY <1>1, <1>4, <1>7, <1>8, <1>10, <1>11 DEF Height

LEMMA MinedChain ==
    ASSUME ChainHolds, NEW n \in 0..Height, MineOn(n)
    PROVE  ChainHolds'
<1>1. /\ hashes' = hashes + 1 /\ hashes \in Nat /\ Height \in Nat
      /\ Height' = n + 1 /\ (\E S : blocks' \in Seq(S))
      /\ \A m \in 1..n : m \in 1..Height /\ blocks'[m] = blocks[m]
      /\ blocks'[n + 1].hash = hashes + 1 /\ blocks'[n + 1].asset \in AssetSet
      /\ Mined(blocks', n + 1)
    BY MinedBlocks
<1>2. ASSUME NEW m \in 1..Height', m # n + 1
      PROVE  m \in 1..n /\ m \in 1..Height /\ blocks'[m] = blocks[m]
    BY <1>1, <1>2
<1>3. ASSUME NEW m \in 1..Height'
      PROVE  /\ blocks'[m].hash \in 1..hashes' /\ blocks'[m].asset \in AssetSet
             /\ Mined(blocks', m)
    <2>1. CASE m = n + 1
        BY <1>1, <2>1
    <2>2. CASE m # n + 1
        <3>1. m \in 1..n /\ m \in 1..Height /\ blocks'[m] = blocks[m]
            BY <1>2, <2>2
        <3>2. AssetIn(blocks', m - 1) = AssetIn(blocks, m - 1)
            <4>1. m - 1 # 0 => m - 1 \in 1..n
                BY <3>1
            <4> QED
                BY <1>1, <4>1 DEF AssetIn
        <3>3. Mined(blocks, m) /\ blocks[m].hash \in 1..hashes /\ blocks[m].asset \in AssetSet
            BY <3>1 DEF ChainHolds
        <3>4. Mined(blocks', m)
            BY <3>1, <3>2, <3>3 DEF Mined
        <3> QED
            BY <1>1, <3>1, <3>3, <3>4
    <2> QED
        BY <2>1, <2>2
<1>4. ASSUME NEW i \in 1..Height', NEW j \in 1..Height', i < j
      PROVE  blocks'[i].hash < blocks'[j].hash
    <2>1. i \in 1..n /\ i \in 1..Height /\ blocks'[i] = blocks[i]
        BY <1>1, <1>2, <1>4
    <2>2. blocks[i].hash \in 1..hashes
        BY <2>1 DEF ChainHolds
    <2>3. CASE j = n + 1
        BY <1>1, <2>1, <2>2, <2>3
    <2>4. CASE j # n + 1
        BY <1>2, <1>4, <2>1, <2>4 DEF ChainHolds
    <2> QED
        BY <2>3, <2>4
<1>5. hashes' \in Nat /\ Height' \in Nat
    BY <1>1
<1>6. (\E S : blocks \in Seq(S))'
    BY <1>1
<1> QED
    BY <1>3, <1>4, <1>5, <1>6 DEF ChainHolds

LEMMA MinedJournal ==
    ASSUME ChainHolds, JournalHolds, NEW n \in 0..Height, MineOn(n)
    PROVE  JournalHolds'
<1>1. /\ hashes' = hashes + 1 /\ hashes \in Nat /\ Height' = n + 1
      /\ \A m \in 1..n : m \in 1..Height /\ blocks'[m] = blocks[m]
      /\ blocks'[n + 1].hash = hashes + 1
    BY MinedBlocks
<1>2. journal' = journal /\ compensated' = compensated
    BY DEF MineOn, indexVars
<1>3. ASSUME NEW m \in 1..Height', m # n + 1
      PROVE  m \in 1..Height /\ blocks'[m] = blocks[m]
    BY <1>1, <1>3
<1>4. ASSUME NEW log \in journal, NEW m \in 1..Height', log.hash = blocks'[m].hash
      PROVE  log \in blocks'[m].logs
    <2>1. m # n + 1
        BY <1>1, <1>4 DEF JournalHolds
    <2> QED
        BY <1>3, <1>4, <2>1 DEF JournalHolds
<1>5. ASSUME NEW m \in 1..Height' PROVE blocks'[m].hash \notin compensated
    BY <1>1, <1>3 DEF JournalHolds
<1>6. /\ \A log \in journal : log.hash \in 1..hashes'
      /\ compensated \in SUBSET (1..hashes')
    BY <1>1 DEF JournalHolds
<1> QED
    BY <1>2, <1>4, <1>5, <1>6 DEF JournalHolds

LEMMA MineHolds ==
    ASSUME IInv, NEW n \in 0..Height, MineOn(n), n = Height \/ Visible(n)
    PROVE  IInv'
<1>0. ChainHolds /\ JournalHolds /\ CursorHolds
    BY DEF IInv
<1>1. /\ hashes' = hashes + 1 /\ hashes \in Nat /\ Height \in Nat /\ Height' = n + 1
      /\ \A m \in 1..n : m \in 1..Height /\ blocks'[m] = blocks[m]
      /\ blocks'[n + 1].hash = hashes + 1
    BY <1>0, MinedBlocks
<1>2. UNCHANGED <<cursor, journal, compensated>>
    BY DEF MineOn, indexVars
<1>3. PICK held : Branch(held)
    BY DEF IInv
<1>4. CursorHolds' /\ Facts' = Facts /\ Retained' = Retained
    BY <1>0, <1>2 DEF CursorHolds, Facts, Retained
<1>5. ASSUME NEW m \in 1..cursor.last, m \notin Retained
      PROVE  m \in 1..Height' /\ held[m] = blocks'[m]
    <2>1. m \in 1..Height /\ held[m] = blocks[m] /\ cursor.last \in Nat /\ m \in Nat
        BY <1>0, <1>3, <1>5 DEF Branch, CursorHolds
    <2>2. m \in 1..n
        <3>1. CASE n = Height \/ n >= cursor.last
            BY <1>1, <2>1, <3>1
        <3>2. CASE \E b \in cursor.recent : b.number <= n + 1
            <4>1. PICK b \in cursor.recent : b.number <= n + 1
                BY <3>2
            <4>2. b.number \in 1..cursor.last /\ b.number..cursor.last \subseteq Retained
                BY <1>0 DEF CursorHolds
            <4>3. m < b.number
                BY <1>5, <2>1, <4>2
            <4> QED
                BY <1>1, <2>1, <4>1, <4>2, <4>3
        <3> QED
            BY <3>1, <3>2 DEF Visible
    <2> QED
        BY <1>1, <2>1, <2>2
<1>6. ASSUME NEW i \in 1..cursor.last, NEW m \in 1..Height', held[i].hash = blocks'[m].hash
      PROVE  m = i /\ \A k \in 1..i : held[k] = blocks'[k]
    <2>1. held[i].hash \in 1..hashes
        BY <1>3 DEF Branch
    <2>2. m \in 1..n /\ m \in 1..Height /\ blocks'[m] = blocks[m]
        BY <1>1, <1>6, <2>1
    <2>3. m = i /\ \A k \in 1..i : held[k] = blocks[k]
        BY <1>3, <1>6, <2>2 DEF Branch
    <2>4. \A k \in 1..i : k \in 1..n
        BY <2>2, <2>3
    <2> QED
        BY <1>1, <2>3, <2>4
<1>7. \A i \in 1..cursor.last : held[i].hash \in 1..hashes'
    BY <1>1, <1>3 DEF Branch
<1>8. Branch(held)'
    BY <1>2, <1>3, <1>4, <1>5, <1>6, <1>7 DEF Branch, Grown
<1> QED
    BY <1>0, <1>4, <1>8, MinedChain, MinedJournal DEF IInv

-----------------------------------------------------------------------------
\* A round on one range.

LEMMA SmallerOfTwo ==
    ASSUME NEW a \in Int, NEW b \in Int
    PROVE  Min({a, b}) = (IF a <= b THEN a ELSE b)
<1> DEFINE m == IF a <= b THEN a ELSE b
<1>1. m \in {a, b} /\ \A y \in {a, b} : m <= y
    OBVIOUS
<1>2. \A x \in {a, b} : (\A y \in {a, b} : x <= y) => x = m
    OBVIOUS
<1> QED
    BY <1>1, <1>2 DEF Min

LEMMA LargerOfTwo ==
    ASSUME NEW a \in Int, NEW b \in Int
    PROVE  Max({a, b}) = (IF a >= b THEN a ELSE b)
<1> DEFINE m == IF a >= b THEN a ELSE b
<1>1. m \in {a, b} /\ \A y \in {a, b} : m >= y
    OBVIOUS
<1>2. \A x \in {a, b} : (\A y \in {a, b} : x >= y) => x = m
    OBVIOUS
<1> QED
    BY <1>1, <1>2 DEF Max

\* A range starts above the cursor and ends on the chain.
LEMMA RangesFit ==
    ASSUME ChainHolds, CursorHolds, NEW r \in Ranges
    PROVE  /\ r.from = cursor.last + 1 /\ r.to \in r.from..Height
           /\ cursor.last \in Nat /\ Height \in Nat
<1>1. cursor.last \in Nat /\ Height \in Nat /\ MaxWidth \in Nat \ {0}
    BY Bounds DEF CursorHolds, ChainHolds
<1>2. SafeHead(Height, 0) = Height
    BY <1>1, LargerOfTwo DEF SafeHead
<1> DEFINE from == cursor.last + 1
           to == IF from + MaxWidth - 1 <= Height THEN from + MaxWidth - 1 ELSE Height
           first == [from |-> from, to |-> to]
           next == NextRange(cursor, SafeHead(Height, 0), MaxWidth)
<1>3. next \subseteq {first} /\ (next # {} => from <= Height)
    <2>1. CASE from > Height
        BY <1>1, <1>2, <2>1 DEF NextRange
    <2>2. CASE from <= Height
        <3>1. next = {PlanRanges(from, Height, MaxWidth)[1]}
            BY <1>1, <1>2, <2>2 DEF NextRange
        <3> DEFINE count == (Height - from) \div MaxWidth + 1
        <3>2. 1 \in 1..count
            BY <1>1, <2>2
        <3>3. PlanRanges(from, Height, MaxWidth)
                = [i \in 1..count |->
                     [from |-> from + (i - 1) * MaxWidth,
                      to |-> Min({from + (i - 1) * MaxWidth + MaxWidth - 1, Height})]]
            BY <1>1, <2>2 DEF PlanRanges
        <3>4. from + (1 - 1) * MaxWidth = from
            BY <1>1
        <3> HIDE DEF count, from
        <3>5. PlanRanges(from, Height, MaxWidth)[1]
                = [from |-> from, to |-> Min({from + MaxWidth - 1, Height})]
            BY <3>2, <3>3, <3>4
        <3>6. Min({from + MaxWidth - 1, Height}) = to
            <4>1. from + MaxWidth - 1 \in Int /\ Height \in Int
                BY <1>1 DEF from
            <4> QED
                BY <4>1, SmallerOfTwo
        <3> QED
            BY <2>2, <3>1, <3>5, <3>6
    <2> QED
        BY <1>1, <2>1, <2>2
<1>4. ASSUME r = first, from <= Height
      PROVE  r.from = cursor.last + 1 /\ r.to \in r.from..Height
    BY <1>1, <1>4
<1>5. ASSUME r \in ShrinkRange(first), from <= Height
      PROVE  r.from = cursor.last + 1 /\ r.to \in r.from..Height
    <2> DEFINE span == to - from + 1
    <2>1. to \in from..Height /\ span \in Nat /\ from \in Nat
        BY <1>1, <1>5
    <2>2. first.from = from /\ first.to = to
        OBVIOUS
    <2>3. span > 1 /\ r = [first EXCEPT !.to = from + span \div 2 - 1]
        BY <1>5, <2>1, <2>2 DEF ShrinkRange
    <2>4. r.from = from /\ r.to = from + span \div 2 - 1
        BY <2>3
    <2>5. span \div 2 >= 1 /\ span \div 2 <= span /\ span \div 2 \in Int
        BY <2>1, <2>3
    <2> HIDE DEF span
    <2>6. span = to - from + 1
        BY DEF span
    <2> HIDE DEF to, from
    <2>7. r.to \in from..Height
        BY <1>1, <2>1, <2>4, <2>5, <2>6
    <2> QED
        BY <2>4, <2>7 DEF from
<1> HIDE DEF first, from, next
<1>6. r \in next \/ \E q \in next : r \in ShrinkRange(q)
    BY DEF Ranges, next
<1> QED
    BY <1>1, <1>3, <1>4, <1>5, <1>6

\* What DetectReorg says when hashes differ.
LEMMA ForksAreTold ==
    ASSUME NEW known, NEW observed, NEW lookback,
           known # {}, observed # {}, Forks(known, observed) # {}
    PROVE  LET outcome == DetectReorg(known, observed, lookback)
           IN  \/ outcome.kind = "BEYOND_LOOKBACK"
               \/ outcome.kind = "REORG" /\ outcome.forkPoint = Min(Forks(known, observed))
<1> DEFINE oldest == Min({b.number : b \in known})
           newest == Max({b.number : b \in known})
           fork == Min(Forks(known, observed))
           beyond == [kind |-> "BEYOND_LOOKBACK", oldestKnown |-> oldest]
           reorg == [kind |-> "REORG", forkPoint |-> fork, depth |-> newest - fork + 1]
<1>1. beyond.kind = "BEYOND_LOOKBACK" /\ reorg.kind = "REORG" /\ reorg.forkPoint = fork
    OBVIOUS
<1>2. DetectReorg(known, observed, lookback) \in {beyond, reorg}
    BY DEF DetectReorg
<1> HIDE DEF beyond, reorg
<1> QED
    BY <1>1, <1>2

\* A hash that is kept and was not found to differ is the chain's.
LEMMA NoForkAgrees ==
    ASSUME ChainHolds, CursorHolds, NEW held, Branch(held), NEW r \in Ranges,
           DetectReorg(cursor.recent, Observed(Span(r)), Lookback) = Consistent
    PROVE  \A n \in 1..cursor.last : held[n] = blocks[n]
<1>1. /\ r.from = cursor.last + 1 /\ r.to \in r.from..Height
      /\ cursor.last \in Nat /\ Height \in Nat
    BY RangesFit
<1>2. CASE cursor.last \notin Retained
    <2>1. \A n \in 1..cursor.last : n \notin Retained
        BY <1>1, <1>2 DEF CursorHolds, Retained
    <2> QED
        BY <2>1 DEF Branch
<1>3. CASE cursor.last \in Retained
    <2>1. PICK b \in cursor.recent : b.number = cursor.last
        BY <1>3 DEF Retained
    <2>2. cursor.last \in 1..cursor.last /\ cursor.last \in 1..Height
        BY <1>1, <2>1 DEF CursorHolds
    <2>3. Ref(cursor.last) \in Observed(Span(r))
        BY <1>3, <2>2 DEF Observed
    <2>4. Forks(cursor.recent, Observed(Span(r))) = {}
        <3>1. cursor.recent # {} /\ Observed(Span(r)) # {}
            BY <2>1, <2>3
        <3>2. Consistent.kind = "CONSISTENT"
            BY DEF Consistent
        <3> SUFFICES ASSUME Forks(cursor.recent, Observed(Span(r))) # {} PROVE FALSE
            OBVIOUS
        <3>3. DetectReorg(cursor.recent, Observed(Span(r)), Lookback).kind \in {"REORG", "BEYOND_LOOKBACK"}
            BY <3>1, ForksAreTold
        <3> QED
            BY <3>2, <3>3
    <2>5. b.hash = blocks[cursor.last].hash
        <3>1. Ref(cursor.last).number = cursor.last /\ Ref(cursor.last).hash = blocks[cursor.last].hash
            BY DEF Ref
        <3> QED
            BY <2>1, <2>3, <2>4, <3>1 DEF Forks
    <2>6. held[cursor.last].hash = blocks[cursor.last].hash
        BY <2>1, <2>5 DEF Branch
    <2> QED
        BY <2>2, <2>6 DEF Branch
<1> QED
    BY <1>2, <1>3

\* A log that is on the chain and looks journaled is journaled.
LEMMA JournalGrows ==
    ASSUME ChainHolds, JournalHolds, NEW r \in Ranges, CursorHolds
    PROVE  DedupeLogs(journal, LogsIn(r)) = journal \cup LogsIn(r)
<1>1. r.from \in Nat /\ r.from >= 1 /\ r.to \in Nat /\ r.to <= Height /\ Height \in Nat
    <2>1. r.from = cursor.last + 1 /\ cursor.last \in Nat /\ Height \in Nat /\ r.to \in r.from..Height
        BY RangesFit
    <2> QED
        BY <2>1
<1>2. ASSUME NEW log \in LogsIn(r), NEW kept \in journal, LogIdentity(kept) = LogIdentity(log)
      PROVE  log \in journal
    <2>1. PICK n \in Span(r) : log \in blocks[n].logs
        BY DEF LogsIn
    <2>2. n \in 1..Height
        BY <1>1, <2>1 DEF Span
    <2>3. log.hash = blocks[n].hash
        BY <2>1, <2>2, ChainTyped DEF LogOf
    <2>4. kept.hash = log.hash /\ kept.log = log.log
        BY <1>2 DEF LogIdentity
    <2>5. kept \in blocks[n].logs
        BY <2>2, <2>3, <2>4 DEF JournalHolds
    <2>6. kept = log
        BY <2>1, <2>2, <2>4, <2>5, ChainTyped
    <2> QED
        BY <2>6
<1> QED
    BY <1>2 DEF DedupeLogs

LEMMA JournalHoldsAfter ==
    ASSUME IInv, NEW r \in Ranges, Journal(r), UNCHANGED chainVars
    PROVE  IInv'
<1>0. ChainHolds /\ JournalHolds /\ CursorHolds
    BY DEF IInv
<1>1. PICK held : Branch(held)
    BY DEF IInv
<1>2. \A n \in 1..cursor.last : held[n] = blocks[n]
    BY <1>0, <1>1, NoForkAgrees DEF Journal
<1>3. /\ r.from = cursor.last + 1 /\ r.to \in r.from..Height
      /\ cursor.last \in Nat /\ Height \in Nat
    BY <1>0, RangesFit
<1>4. journal' = journal \cup LogsIn(r)
    BY <1>0, JournalGrows DEF Journal
<1>5. blocks' = blocks /\ hashes' = hashes /\ compensated' = compensated /\ Height' = Height
    BY DEF chainVars, Journal, Height
<1> DEFINE known == {b.number : b \in cursor.recent}
           merged == cursor.recent \cup {b \in {Ref(n) : n \in Span(r)} : b.number \notin known}
           kept == {b \in merged : b.number > r.to - Lookback}
<1>6. cursor' = [cursor EXCEPT !.last = r.to, !.recent = kept]
    BY DEF Journal, AdvanceCursor
<1>7. cursor'.last = r.to /\ cursor'.recent = kept /\ cursor'.fence = cursor.fence
      /\ cursor' = [last |-> r.to, recent |-> kept, fence |-> cursor.fence]
    <2> HIDE DEF kept
    <2> QED
        BY <1>0, <1>6 DEF CursorHolds
<1>8. ASSUME NEW b \in kept
      PROVE  /\ b.number \in 1..r.to
             /\ b = [number |-> b.number, hash |-> blocks[b.number].hash]
             /\ b.number > r.to - Lookback
    <2>1. CASE b \in cursor.recent
        BY <1>0, <1>1, <1>2, <1>3, <1>8, <2>1 DEF CursorHolds, Branch
    <2>2. CASE b \notin cursor.recent
        <3>1. PICK n \in Span(r) : b = Ref(n)
            BY <1>8, <2>2
        <3>2. b.number = n /\ b.hash = blocks[n].hash /\ b = [number |-> n, hash |-> blocks[n].hash]
            BY <3>1 DEF Ref
        <3> QED
            BY <1>3, <1>8, <3>1, <3>2 DEF Span
    <2> QED
        BY <2>1, <2>2
<1>9. ASSUME NEW b \in kept, NEW n \in b.number..r.to
      PROVE  \E c \in kept : c.number = n
    <2>1. b.number \in 1..r.to /\ n \in Nat /\ n > r.to - Lookback /\ r.to \in Nat /\ Lookback \in Nat
        BY <1>3, <1>8, <1>9, Bounds
    <2>2. CASE n \in known
        BY <2>1, <2>2
    <2>3. CASE n \notin known
        <3>1. n \in Span(r)
            <4>1. CASE n > cursor.last
                BY <1>3, <1>9, <2>1, <4>1 DEF Span
            <4>2. CASE n <= cursor.last
                <5>1. b \in cursor.recent
                    <6> SUFFICES ASSUME b \notin cursor.recent PROVE FALSE
                        OBVIOUS
                    <6>1. PICK m \in Span(r) : b = Ref(m)
                        BY <1>9
                    <6>2. b.number = m /\ m >= r.from
                        BY <1>3, <6>1 DEF Ref, Span
                    <6> QED
                        BY <1>3, <1>9, <2>1, <4>2, <6>2
                <5>2. b.number..cursor.last \subseteq known
                    BY <1>0, <5>1 DEF CursorHolds, Retained
                <5>3. n \in b.number..cursor.last
                    BY <1>3, <1>9, <2>1, <4>2
                <5> QED
                    BY <2>3, <5>2, <5>3
            <4> QED
                BY <1>3, <2>1, <4>1, <4>2
        <3>2. Ref(n).number = n
            BY DEF Ref
        <3>3. Ref(n) \in merged
            BY <2>3, <3>1, <3>2
        <3> QED
            BY <2>1, <3>2, <3>3
    <2> QED
        BY <2>2, <2>3
<1> HIDE DEF kept, merged, known
<1>10. CursorHolds'
    <2>1. Retained' = {b.number : b \in kept}
        BY <1>7 DEF Retained
    <2>2. \A b \in kept : b.number..r.to \subseteq {c.number : c \in kept}
        <3> SUFFICES ASSUME NEW b \in kept, NEW n \in b.number..r.to
                     PROVE  n \in {c.number : c \in kept}
            OBVIOUS
        <3> QED
            BY <1>9
    <2>3. r.to \in Nat
        BY <1>3
    <2> QED
        BY <1>7, <1>8, <2>1, <2>2, <2>3 DEF CursorHolds
<1>11. \A n \in Span(r) : n \in 1..Height
    BY <1>3 DEF Span
<1>12. \A n \in 1..r.to : n \in 1..Height
    BY <1>3
<1>13. JournalHolds'
    <2>1. ASSUME NEW log \in LogsIn(r)
          PROVE  /\ log.hash \in 1..hashes
                 /\ \A n \in 1..Height : log.hash = blocks[n].hash => log \in blocks[n].logs
        <3>1. PICK m \in Span(r) : log \in blocks[m].logs
            BY DEF LogsIn
        <3>2. m \in 1..Height /\ log.hash = blocks[m].hash
            BY <1>0, <1>11, <3>1, ChainTyped DEF LogOf
        <3>3. ASSUME NEW n \in 1..Height, blocks[m].hash = blocks[n].hash PROVE n = m
            BY <1>0, <3>2, <3>3 DEF ChainHolds
        <3> QED
            BY <1>0, <3>1, <3>2, <3>3 DEF ChainHolds
    <2> QED
        BY <1>0, <1>4, <1>5, <2>1 DEF JournalHolds
<1>14. Facts' = UNION {blocks[n].logs : n \in 1..r.to}
    <2>1. Facts' = {log \in journal \cup LogsIn(r) : log.hash \notin compensated}
        BY <1>4, <1>5 DEF Facts
    <2>2. \A log \in LogsIn(r) : log.hash \notin compensated
        <3> SUFFICES ASSUME NEW log \in LogsIn(r) PROVE log.hash \notin compensated
            OBVIOUS
        <3>1. PICK m \in Span(r) : log \in blocks[m].logs
            BY DEF LogsIn
        <3> QED
            BY <1>0, <1>11, <3>1, ChainTyped DEF LogOf, JournalHolds
    <2>3. Facts' = Facts \cup LogsIn(r)
        BY <2>1, <2>2 DEF Facts
    <2>4. Facts = UNION {blocks[n].logs : n \in 1..cursor.last}
        BY <1>1, <1>2 DEF Branch
    <2>5. \A n : n \in 1..r.to <=> n \in 1..cursor.last \/ n \in Span(r)
        BY <1>3 DEF Span
    <2> QED
        BY <2>3, <2>4, <2>5 DEF LogsIn
<1>15. Branch(blocks)'
    <2>1. \A n \in 1..r.to : /\ blocks[n].hash \in 1..hashes
                             /\ \A log \in blocks[n].logs : log.hash = blocks[n].hash
        BY <1>0, <1>12, ChainTyped DEF ChainHolds, LogOf
    <2>2. \A m, n \in 1..r.to : m < n => blocks[m].hash < blocks[n].hash
        BY <1>0, <1>12 DEF ChainHolds
    <2>3. ASSUME NEW n \in 1..r.to, NEW m \in 1..Height, blocks[n].hash = blocks[m].hash
          PROVE  m = n
        BY <1>0, <1>12, <2>3 DEF ChainHolds
    <2>4. Grown(blocks, r.to)
        BY <1>0, <1>3, <1>12, ChainGrown DEF Grown
    <2> QED
        BY <1>5, <1>7, <1>8, <1>12, <1>14, <2>1, <2>2, <2>3, <2>4 DEF Branch, Grown, Mined, AssetIn
<1>16. ChainHolds'
    BY <1>0, <1>5 DEF ChainHolds, Mined, AssetIn
<1> QED
    BY <1>10, <1>13, <1>15, <1>16 DEF IInv

-----------------------------------------------------------------------------
\* A rewind.

\* A set of naturals has a least member, which is its Min.
LEMMA MinIsReached ==
    ASSUME NEW S \in SUBSET Nat, S # {}
    PROVE  Min(S) \in S /\ \A x \in S : Min(S) <= x
<1>1. PICK x \in S : \A y \in S : ~ (<<y, x>> \in OpToRel(<, Nat))
    BY NatLessThanWellFounded, WFMin
<1>2. \A y \in S : ~ (y < x)
    BY <1>1 DEF OpToRel
<1>3. x \in Nat /\ \A y \in S : x <= y
    BY <1>2
<1> QED
    BY <1>3 DEF Min

LEMMA RecoverHolds ==
    ASSUME IInv, Recover, UNCHANGED chainVars
    PROVE  IInv'
<1>0. ChainHolds /\ JournalHolds /\ CursorHolds
    BY DEF IInv
<1>1. PICK held : Branch(held)
    BY DEF IInv
<1>2. blocks' = blocks /\ hashes' = hashes /\ Height' = Height /\ journal' = journal
    BY DEF chainVars, Recover, Height
<1>3. ChainHolds'
    BY <1>0, <1>2 DEF ChainHolds, Mined, AssetIn
<1> DEFINE outcome == DetectReorg(cursor.recent, Observed({}), Lookback)
           fork == outcome.forkPoint
           gone == {b.hash : b \in {c \in cursor.recent : c.number >= fork}}
<1>4. CASE outcome.kind = "BEYOND_LOOKBACK"
    <2>1. cursor' = cursor /\ compensated' = compensated
        BY <1>4 DEF Recover
    <2>2. CursorHolds' /\ Facts' = Facts /\ Retained' = Retained
        BY <1>0, <1>2, <2>1 DEF CursorHolds, Facts, Retained
    <2>3. JournalHolds' /\ Branch(held)'
        BY <1>0, <1>1, <1>2, <2>1, <2>2 DEF JournalHolds, Branch
    <2> QED
        BY <1>3, <2>2, <2>3 DEF IInv
<1>5. CASE outcome.kind # "BEYOND_LOOKBACK"
    <2>1. /\ cursor.recent # {} /\ Observed({}) # {} /\ Forks(cursor.recent, Observed({})) # {}
          /\ outcome # Consistent
        BY DEF Recover, DetectReorg
    <2>2. fork = Min(Forks(cursor.recent, Observed({})))
        BY <1>5, <2>1, ForksAreTold
    <2>3. \A b \in Observed({}) : b.number \in 1..Height /\ b.hash = blocks[b.number].hash
        BY <1>0 DEF Observed, Ref, ChainHolds
    <2>4. Forks(cursor.recent, Observed({})) \in SUBSET Nat
        BY <1>0, <2>3 DEF Forks, ChainHolds
    <2>5. fork \in Forks(cursor.recent, Observed({}))
        BY <2>1, <2>2, <2>4, MinIsReached
    <2>6. PICK b \in cursor.recent :
            b.number = fork /\ fork \in 1..Height /\ b.hash # blocks[fork].hash
        BY <2>3, <2>5 DEF Forks
    <2> HIDE DEF outcome, fork
    <2>7. /\ cursor.last \in Nat /\ fork \in 1..cursor.last /\ fork \in Nat
          /\ fork..cursor.last \subseteq Retained
          /\ held[fork].hash # blocks[fork].hash
        BY <1>0, <1>1, <2>6 DEF CursorHolds, Branch
    <2> DEFINE kept == {c \in cursor.recent : c.number < fork}
    <2>8. cursor' = [last |-> fork - 1, recent |-> kept, fence |-> cursor.fence + 1]
          /\ compensated' = compensated \cup gone
        BY <1>5 DEF Recover, RewindCursor, outcome, fork
    <2>9. cursor'.last = fork - 1 /\ cursor'.recent = kept /\ cursor'.fence = cursor.fence + 1
          /\ fork - 1 \in Nat /\ fork - 1 < cursor.last
        BY <2>7, <2>8
    <2>10. \A h : h \in gone <=> \E n \in fork..cursor.last : h = held[n].hash
        <3>1. ASSUME NEW c \in cursor.recent, c.number >= fork
              PROVE  c.number \in fork..cursor.last /\ c.hash = held[c.number].hash
            BY <1>0, <1>1, <2>7, <3>1 DEF CursorHolds, Branch
        <3>2. ASSUME NEW n \in fork..cursor.last
              PROVE  \E c \in cursor.recent : c.number = n /\ c.number >= fork
            <4>1. n \in Retained /\ n >= fork
                BY <2>7
            <4> QED
                BY <4>1 DEF Retained
        <3> QED
            BY <3>1, <3>2
    <2> HIDE DEF gone
    <2>11. ASSUME NEW n \in fork..cursor.last, NEW m \in 1..Height
           PROVE  held[n].hash # blocks[m].hash
        <3>1. n \in 1..cursor.last /\ fork \in 1..n
            BY <2>7
        <3> QED
            BY <1>1, <2>7, <3>1 DEF Branch
    <2>12. JournalHolds'
        <3>1. gone \subseteq 1..hashes
            <4>1. \A n \in fork..cursor.last : held[n].hash \in 1..hashes
                BY <1>1, <2>7 DEF Branch
            <4> QED
                BY <2>10, <4>1
        <3>2. \A m \in 1..Height : blocks[m].hash \notin gone
            BY <2>10, <2>11
        <3> QED
            BY <1>0, <1>2, <2>8, <3>1, <3>2 DEF JournalHolds
    <2>13. \A n : n \in 1..(fork - 1) => n \in 1..cursor.last
        BY <2>7
    <2>14. CursorHolds' /\ \A n \in 1..(fork - 1) : n \notin Retained' => n \notin Retained
        <3>1. ASSUME NEW c \in kept
              PROVE  c.number \in 1..(fork - 1)
            BY <1>0, <2>7, <3>1 DEF CursorHolds
        <3>2. ASSUME NEW c \in cursor.recent, c.number \in 1..(fork - 1)
              PROVE  c \in kept
            BY <2>7, <3>2
        <3>3. Retained' = {c.number : c \in kept}
            BY <2>9 DEF Retained
        <3>4. ASSUME NEW n \in 1..(fork - 1), n \in Retained PROVE n \in Retained'
            <4>1. PICK c \in cursor.recent : c.number = n
                BY <3>4 DEF Retained
            <4> QED
                BY <3>2, <3>3, <3>4, <4>1
        <3>5. ASSUME NEW c \in kept, NEW n \in c.number..(fork - 1) PROVE n \in Retained'
            <4>1. n \in 1..(fork - 1) /\ n \in c.number..cursor.last
                BY <2>7, <3>1, <3>5
            <4>2. n \in Retained
                BY <1>0, <4>1 DEF CursorHolds
            <4> QED
                BY <3>4, <4>1, <4>2
        <3> HIDE DEF kept
        <3>6. \A c \in kept : c.number..(fork - 1) \subseteq Retained'
            BY <3>5
        <3>7. CursorHolds'
            BY <2>8, <2>9, <3>1, <3>6 DEF CursorHolds
        <3> QED
            BY <3>4, <3>7
    <2>15. Facts' = UNION {held[n].logs : n \in 1..(fork - 1)}
        <3>1. Facts' = {log \in Facts : log.hash \notin gone}
            BY <1>2, <2>8 DEF Facts
        <3>2. Facts = UNION {held[n].logs : n \in 1..cursor.last}
            BY <1>1 DEF Branch
        <3>3. ASSUME NEW n \in 1..cursor.last, NEW log \in held[n].logs
              PROVE  log.hash \in gone <=> n >= fork
            <4>1. log.hash = held[n].hash
                BY <1>1 DEF Branch
            <4>2. ASSUME NEW k \in fork..cursor.last, held[n].hash = held[k].hash PROVE k = n
                <5>1. /\ held[n].hash \in Int /\ held[k].hash \in Int /\ k \in 1..cursor.last
                      /\ k < n => held[k].hash < held[n].hash
                      /\ n < k => held[n].hash < held[k].hash
                    BY <1>1, <2>7 DEF Branch
                <5> QED
                    BY <2>7, <4>2, <5>1
            <4> QED
                BY <2>7, <2>10, <4>1, <4>2
        <3>4. \A n \in 1..cursor.last : n >= fork \/ n \in 1..(fork - 1)
            BY <2>7
        <3>5. \A n \in 1..(fork - 1) : n \in 1..cursor.last /\ ~(n >= fork)
            BY <2>7
        <3> QED
            BY <3>1, <3>2, <3>3, <3>4, <3>5
    <2>16. Branch(held)'
        <3>1. \A c \in kept : c = [number |-> c.number, hash |-> held[c.number].hash]
            BY <1>1 DEF Branch
        <3> HIDE DEF kept
        <3>2. Grown(held, fork - 1)
            BY <1>1, <2>9, <2>13 DEF Branch, Grown
        <3> QED
            BY <1>1, <1>2, <2>9, <2>13, <2>14, <2>15, <3>1, <3>2 DEF Branch
    <2> QED
        BY <1>3, <2>12, <2>14, <2>16 DEF IInv
<1> QED
    BY <1>4, <1>5

-----------------------------------------------------------------------------
LEMMA NextHolds == ~Unseen /\ IInv /\ [Next]_vars => IInv'
<1> SUFFICES ASSUME ~Unseen, IInv, [Next]_vars PROVE IInv'
    OBVIOUS
<1>0. Height \in Nat
    BY DEF IInv, ChainHolds
<1>1. CASE Mine
    BY <1>0, <1>1, MineHolds DEF Mine
<1>2. CASE Replace
    <2>1. PICK n \in 0..(Height - 1) : Visible(n) /\ MineOn(n)
        BY <1>2 DEF Replace
    <2> QED
        BY <1>0, <2>1, MineHolds
<1>3. CASE Index
    BY <1>3, RecoverHolds, JournalHoldsAfter DEF Index
<1>4. CASE UNCHANGED <<blocks, hashes, cursor, journal, compensated>>
    <2>1. Height' = Height /\ Facts' = Facts /\ Retained' = Retained
        BY <1>4 DEF Height, Facts, Retained
    <2>2. ChainHolds' /\ JournalHolds' /\ CursorHolds'
        BY <1>4, <2>1 DEF IInv, ChainHolds, JournalHolds, CursorHolds, Mined, AssetIn
    <2>3. ASSUME NEW held, Branch(held) PROVE Branch(held)'
        BY <1>4, <2>1, <2>3 DEF Branch
    <2> QED
        BY <2>2, <2>3 DEF IInv
<1> QED
    BY <1>1, <1>2, <1>3, <1>4 DEF Next, vars, chainVars, indexVars, Evaluate

\* The facts that still count are the logs of one branch: every block of it was the chain's
\* when it was read, and those whose hashes are gone from the cursor still are.
THEOREM TrackingInvariant == ~Unseen => (Spec => []IInv)
<1> SUFFICES ASSUME ~Unseen PROVE Spec => []IInv
    OBVIOUS
<1> QED
    BY InitHolds, NextHolds, PTL DEF Spec

-----------------------------------------------------------------------------
\* Reading facts in order.  The community modules fold a set by a recursive function on its
\* subsets; that there is one is shown from the well-foundedness of strict inclusion between
\* finite sets.

\* A non-empty collection of subsets of a finite set has one that contains no other.
LEMMA LeastSubset ==
    ASSUME NEW S, IsFiniteSet(S), NEW T, T \subseteq SUBSET S, T # {}
    PROVE  \E x \in T : \A y \in T : y \subseteq x => y = x
<1> DEFINE R == StrictSubsetOrdering(S)
<1>1. IsWellFoundedOn(R, SUBSET S)
    BY FS_StrictSubsetOrderingWellFounded, FS_FiniteSubsetsOfFinite
<1> HIDE DEF R
<1>2. PICK x \in T : \A y \in T : ~(<<y, x>> \in R)
    BY <1>1, WFMin
<1>3. ASSUME NEW y \in T, y \subseteq x PROVE y = x
    BY <1>2, <1>3 DEF R, StrictSubsetOrdering
<1> QED
    BY <1>2, <1>3

Placed(fact) == fact.block \in Int /\ fact.tx \in Int /\ fact.log \in Int

Readable(S) == IsFiniteSet(S) /\ \A fact \in S : Placed(fact)

LEMMA SomeReadable ==
    ASSUME NEW S, Readable(S), NEW T \in SUBSET S
    PROVE  Readable(T)
BY FS_Subset DEF Readable

\* Among readable facts some come last.
LEMMA LatestIsOne ==
    ASSUME NEW S, Readable(S), S # {}
    PROVE  Latest(S) \in S
<1> DEFINE from(f) == {g \in S : g = f \/ FactBefore(f, g)}
           Cuts == {C \in SUBSET S : \E f \in S : C = from(f)}
<1>1. Cuts \subseteq SUBSET S /\ Cuts # {} /\ IsFiniteSet(S)
    BY DEF Readable
<1>2. PICK U \in Cuts : \A V \in Cuts : V \subseteq U => V = U
    <2> HIDE DEF Cuts
    <2> QED BY <1>1, LeastSubset
<1>3. PICK f \in S : U = from(f)
    BY <1>2
<1>4. ASSUME NEW g \in S, FactBefore(f, g) PROVE FALSE
    <2>1. Placed(f) /\ Placed(g) /\ \A h \in S : Placed(h)
        BY DEF Readable
    <2>2. ~FactBefore(g, f) /\ g # f
        BY <1>4, <2>1 DEF FactBefore, Placed
    <2>3. ASSUME NEW h \in S, FactBefore(g, h) PROVE FactBefore(f, h)
        BY <1>4, <2>1, <2>3 DEF FactBefore, Placed
    <2>4. from(g) \subseteq U /\ from(g) \in Cuts
        BY <1>3, <1>4, <2>3
    <2>5. f \in U /\ f \notin from(g)
        BY <1>3, <2>2
    <2> QED
        BY <1>2, <2>4, <2>5
<1> QED
    BY <1>4 DEF Latest

\* The one fact that all others come before is the last.
LEMMA LatestIs ==
    ASSUME NEW S, Readable(S), NEW f \in S, \A g \in S \ {f} : FactBefore(g, f)
    PROVE  Latest(S) = f
<1>1. Placed(f) /\ \A g \in S : Placed(g)
    BY DEF Readable
<1>2. \A g \in S : ~FactBefore(f, g)
    BY <1>1 DEF FactBefore, Placed
<1>3. \A x \in S : (\A g \in S : ~FactBefore(x, g)) => x = f
    OBVIOUS
<1> QED
    BY <1>2, <1>3 DEF Latest

\* Two readers fold the same facts: the reducer, and the reference.
Reducer(b) == [by |-> "reducer", folded |-> b]
Referee == [by |-> "reference"]

Fresh(how) == IF how = Referee THEN Reference!FreshState ELSE Unread(Seed)

Take(s, fact, how) ==
    IF how = Referee THEN Reference!Ingest(s, AsScenarioFact(fact), {})
    ELSE Step(s, fact, how.folded)

\* iter reads every subset of S.
FoldsTo(iter, b, S) ==
    iter = [s \in SUBSET S |->
               IF s = {} THEN Fresh(b) ELSE Take(iter[s \ {Latest(s)}], Latest(s), b)]

IterOf(b, S) == CHOOSE iter : FoldsTo(iter, b, S)

LEMMA LatestLeaves ==
    ASSUME NEW S, Readable(S), NEW s \in SUBSET S, s # {}
    PROVE  s \ {Latest(s)} \in SUBSET s /\ s \ {Latest(s)} # s
<1>1. Latest(s) \in s
    BY SomeReadable, LatestIsOne
<1> QED
    BY <1>1

\* Two readings agree where both are defined.
LEMMA FoldsWithin ==
    ASSUME NEW b, NEW S, Readable(S), NEW T \in SUBSET S,
           NEW g, NEW h, FoldsTo(g, b, S), FoldsTo(h, b, T)
    PROVE  g[T] = h[T]
<1> DEFINE D == {s \in SUBSET T : g[s] # h[s]}
<1> SUFFICES ASSUME D # {} PROVE FALSE
    OBVIOUS
<1>1. PICK s \in D : \A y \in D : y \subseteq s => y = s
    <2>1. D \subseteq SUBSET S
        OBVIOUS
    <2>2. IsFiniteSet(S)
        BY DEF Readable
    <2> HIDE DEF D
    <2> QED BY <2>1, <2>2, LeastSubset
<1>2. CASE s = {}
    BY <1>1, <1>2 DEF FoldsTo
<1>3. CASE s # {}
    <2> DEFINE f == Latest(s)
    <2>1. s \ {f} \in SUBSET s /\ s \ {f} # s
        BY <1>1, <1>3, LatestLeaves
    <2> HIDE DEF f
    <2>2. s \ {f} \notin D
        BY <1>1, <2>1
    <2>3. g[s \ {f}] = h[s \ {f}]
        BY <2>1, <2>2
    <2>4. g[s] = Take(g[s \ {f}], f, b)
        BY <1>3 DEF FoldsTo, f
    <2>5. h[s] = Take(h[s \ {f}], f, b)
        BY <1>3 DEF FoldsTo, f
    <2> QED
        BY <1>1, <2>3, <2>4, <2>5
<1> QED
    BY <1>2, <1>3

\* There is a reading: a least set without one would have those of its subsets to build on.
LEMMA FoldExists ==
    ASSUME NEW b, NEW S, Readable(S)
    PROVE  FoldsTo(IterOf(b, S), b, S)
<1> DEFINE Without == {T \in SUBSET S : ~ \E g : FoldsTo(g, b, T)}
<1>1. Without = {}
    <2> SUFFICES ASSUME Without # {} PROVE FALSE
        OBVIOUS
    <2>1. PICK T \in Without : \A y \in Without : y \subseteq T => y = T
        <3>1. Without \subseteq SUBSET S
            OBVIOUS
        <3>2. IsFiniteSet(S)
            BY DEF Readable
        <3> HIDE DEF Without
        <3> QED BY <3>1, <3>2, LeastSubset
    <2>2. ASSUME NEW s \in SUBSET T, s # T PROVE FoldsTo(IterOf(b, s), b, s)
        <3>1. \E g : FoldsTo(g, b, s)
            BY <2>1, <2>2
        <3> QED
            BY <3>1 DEF IterOf
    <2> DEFINE rest(s) == s \ {Latest(s)}
               own(s) == IterOf(b, s)[s]
               g == [s \in SUBSET T |->
                        IF s = {} THEN Fresh(b) ELSE Take(own(rest(s)), Latest(s), b)]
    <2>3. ASSUME NEW s \in SUBSET T, s # {}
          PROVE  rest(s) \in SUBSET T /\ rest(s) # T /\ rest(s) \in SUBSET s /\ Readable(s)
        BY <2>3, LatestLeaves, SomeReadable
    <2>4. ASSUME NEW s \in SUBSET T, s # T PROVE own(s) = g[s]
        <3>1. FoldsTo(IterOf(b, s), b, s)
            BY <2>2, <2>4
        <3>2. CASE s = {}
            BY <3>1, <3>2 DEF FoldsTo
        <3>3. CASE s # {}
            <4>1. IterOf(b, s)[s] = Take(IterOf(b, s)[rest(s)], Latest(s), b)
                BY <3>1, <3>3 DEF FoldsTo
            <4>2. FoldsTo(IterOf(b, rest(s)), b, rest(s))
                BY <2>2, <2>3, <3>3
            <4>3. rest(s) \in SUBSET s /\ Readable(s)
                BY <2>3, <3>3
            <4>4. IterOf(b, s)[rest(s)] = own(rest(s))
                <5>1. PICK u \in SUBSET s : u = rest(s)
                    BY <4>3
                <5>2. FoldsTo(IterOf(b, u), b, u)
                    BY <4>2, <5>1
                <5>3. IterOf(b, s)[u] = IterOf(b, u)[u]
                    BY <3>1, <4>3, <5>2, FoldsWithin
                <5> QED
                    BY <5>1, <5>3
            <4> QED
                BY <3>3, <4>1, <4>4
        <3> QED
            BY <3>2, <3>3
    <2>5. ASSUME NEW s \in SUBSET T, s # {} PROVE own(rest(s)) = g[rest(s)]
        BY <2>3, <2>4, <2>5
    <2>6. g = [s \in SUBSET T |->
                  IF s = {} THEN Fresh(b) ELSE Take(g[rest(s)], Latest(s), b)]
        BY <2>5
    <2>7. FoldsTo(g, b, T)
        BY <2>6 DEF FoldsTo
    <2> QED
        BY <2>1, <2>7
<1>2. \E g : FoldsTo(g, b, S)
    BY <1>1
<1> QED
    BY <1>2 DEF IterOf

LEMMA FoldsNothing ==
    ASSUME NEW how PROVE IterOf(how, {})[{}] = Fresh(how)
<1>1. Readable({})
    BY FS_EmptySet DEF Readable
<1>2. FoldsTo(IterOf(how, {}), how, {})
    BY <1>1, FoldExists
<1> QED
    BY <1>2 DEF FoldsTo

\* The last fact is read last.
LEMMA FoldGrows ==
    ASSUME NEW how, NEW S, NEW f, Readable(S \cup {f}), f \notin S,
           \A g \in S : FactBefore(g, f)
    PROVE  IterOf(how, S \cup {f})[S \cup {f}] = Take(IterOf(how, S)[S], f, how)
<1>1. PICK U : U = S \cup {f}
    OBVIOUS
<1>2. U # {} /\ f \in U /\ S = U \ {f} /\ S \in SUBSET U /\ Readable(U) /\ Readable(S)
    BY <1>1, SomeReadable
<1>3. Latest(U) = f
    BY <1>2, LatestIs
<1>4. PICK g : g = IterOf(how, U)
    OBVIOUS
<1>5. PICK h : h = IterOf(how, S)
    OBVIOUS
<1>6. FoldsTo(g, how, U) /\ FoldsTo(h, how, S)
    BY <1>2, <1>4, <1>5, FoldExists
<1>7. g[U] = Take(g[U \ {Latest(U)}], Latest(U), how)
    BY <1>2, <1>6 DEF FoldsTo
<1>8. g[S] = h[S]
    BY <1>2, <1>6, FoldsWithin
<1> QED
    BY <1>1, <1>2, <1>3, <1>4, <1>5, <1>7, <1>8

\* The library's fold of each reader is the one there is.
LEMMA ReadIsIter ==
    ASSUME NEW b, NEW S, Readable(S)
    PROVE  Read(S, Seed, b) = IterOf(Reducer(b), S)[S]
<1> DEFINE Own(iter) ==
        iter = [s \in SUBSET S |->
                   IF s = {} THEN Unread(Seed) ELSE Step(iter[s \ {Latest(s)}], Latest(s), b)]
           chosen == CHOOSE iter : Own(iter)
<1>1. Reducer(b) # Referee /\ Reducer(b).folded = b
    BY DEF Reducer, Referee
<1>2. \A iter : FoldsTo(iter, Reducer(b), S) <=> Own(iter)
    BY <1>1 DEF FoldsTo, Fresh, Take
<1>3. Read(S, Seed, b) = chosen[S]
    BY DEF Read, MapThenFoldSet
<1>4. FoldsTo(IterOf(Reducer(b), S), Reducer(b), S)
    BY FoldExists
<1> HIDE DEF Own
<1>5. Own(chosen)
    BY <1>2, <1>4
<1> HIDE DEF chosen
<1>6. FoldsTo(chosen, Reducer(b), S)
    BY <1>2, <1>5
<1>7. S \in SUBSET S
    OBVIOUS
<1> QED
    BY <1>3, <1>4, <1>6, <1>7, FoldsWithin

LEMMA FedIsIter ==
    ASSUME NEW S, Readable(S)
    PROVE  Fed(S) = IterOf(Referee, S)[S]
<1> DEFINE Own(iter) ==
        iter = [s \in SUBSET S |->
                   IF s = {} THEN Reference!FreshState
                   ELSE Reference!Ingest(iter[s \ {Latest(s)}], AsScenarioFact(Latest(s)), {})]
           chosen == CHOOSE iter : Own(iter)
<1>2. \A iter : FoldsTo(iter, Referee, S) <=> Own(iter)
    BY DEF FoldsTo, Fresh, Take
<1>3. Fed(S) = chosen[S]
    BY DEF Fed, MapThenFoldSet
<1>4. FoldsTo(IterOf(Referee, S), Referee, S)
    BY FoldExists
<1> HIDE DEF Own
<1>5. Own(chosen)
    BY <1>2, <1>4
<1> HIDE DEF chosen
<1>6. FoldsTo(chosen, Referee, S)
    BY <1>2, <1>5
<1>7. S \in SUBSET S
    OBVIOUS
<1> QED
    BY <1>3, <1>4, <1>6, <1>7, FoldsWithin

LEMMA ReadNothing ==
    ASSUME NEW b PROVE Read({}, Seed, b) = Unread(Seed)
<1>1. Readable({}) /\ Reducer(b) # Referee
    BY FS_EmptySet DEF Readable, Reducer, Referee
<1> QED
    BY <1>1, ReadIsIter, FoldsNothing DEF Fresh

LEMMA ReadGrows ==
    ASSUME NEW b, NEW S, NEW f, Readable(S \cup {f}), f \notin S,
           \A g \in S : FactBefore(g, f)
    PROVE  Read(S \cup {f}, Seed, b) = Step(Read(S, Seed, b), f, b)
<1>1. Reducer(b) # Referee /\ Reducer(b).folded = b /\ Readable(S)
    BY SomeReadable DEF Reducer, Referee
<1> QED
    BY <1>1, ReadIsIter, FoldGrows DEF Take

LEMMA FedNothing == Fed({}) = Reference!FreshState
<1>1. Readable({})
    BY FS_EmptySet DEF Readable
<1> QED
    BY <1>1, FedIsIter, FoldsNothing DEF Fresh

LEMMA FedGrows ==
    ASSUME NEW S, NEW f, Readable(S \cup {f}), f \notin S, \A g \in S : FactBefore(g, f)
    PROVE  Fed(S \cup {f}) = Reference!Ingest(Fed(S), AsScenarioFact(f), {})
<1>1. Readable(S)
    BY SomeReadable
<1> QED
    BY <1>1, FedIsIter, FoldGrows DEF Take

-----------------------------------------------------------------------------
\* What has been read, and the contract.

IsReading(s) ==
    s = [active |-> s.active, pending |-> s.pending, instant |-> s.instant,
         cancelled |-> s.cancelled, superseded |-> s.superseded, reasons |-> s.reasons,
         epochs |-> s.epochs]

ScheduleOf(asset) ==
    IF asset.effectiveAt = 0 THEN None
    ELSE [value |-> asset.newMultiplier, at |-> asset.effectiveAt]

\* What has been read says what the contract stores.
Tells(s, asset) ==
    IsReading(s) /\ s.active = asset.multiplier /\ s.pending = ScheduleOf(asset)

LEMMA BrokenReads ==
    ASSUME NEW s, IsReading(s)
    PROVE  /\ IsReading(Broken(s)) /\ Broken(s).active = s.active
           /\ Broken(s).pending = s.pending /\ Broken(s).epochs = s.epochs
BY DEF IsReading, Broken

LEMMA ContinuedReads ==
    ASSUME NEW s, NEW fact, IsReading(s)
    PROVE  /\ IsReading(Continued(s, fact)) /\ Continued(s, fact).active = s.active
           /\ Continued(s, fact).pending = s.pending /\ Continued(s, fact).epochs = s.epochs
BY BrokenReads DEF Continued

LEMMA CancelReads ==
    ASSUME NEW s, NEW fact, NEW b, IsReading(s), fact.kind = "CANCELLED"
    PROVE  LET r == Step(s, fact, b)
           IN  IsReading(r) /\ r.active = s.active /\ r.pending = None /\ r.epochs = s.epochs
<1>1. Step(s, fact, b) = CancelSeen(s)
    BY DEF Step
<1> QED
    BY <1>1 DEF IsReading, CancelSeen

LEMMA ScheduleReads ==
    ASSUME NEW s, NEW fact, NEW b, IsReading(s), fact.kind = "UPDATED", fact.new # None,
           fact.effectiveAt # None, fact.effectiveAt > fact.time
    PROVE  LET r == Step(s, fact, b)
           IN  /\ IsReading(r) /\ r.active = s.active /\ r.epochs = s.epochs
               /\ r.pending = [value |-> fact.new, at |-> fact.effectiveAt]
<1>1. Step(s, fact, b) = ScheduleSeen(Continued(s, fact), fact)
    BY DEF Step, IsScheduled
<1>2. PICK t : t = Continued(s, fact)
    OBVIOUS
<1>3. IsReading(t) /\ t.active = s.active /\ t.epochs = s.epochs
    BY <1>2, ContinuedReads
<1>4. PICK u : u = IF t.pending # None THEN Broken(t) ELSE t
    OBVIOUS
<1>5. IsReading(u) /\ u.active = s.active /\ u.epochs = s.epochs
    BY <1>3, <1>4, BrokenReads
<1>6. ScheduleSeen(t, fact)
        = [u EXCEPT !.pending = [value |-> fact.new, at |-> fact.effectiveAt],
                    !.instant = FALSE]
    BY <1>4 DEF ScheduleSeen
<1> QED
    BY <1>1, <1>2, <1>5, <1>6 DEF IsReading

LEMMA InstantReads ==
    ASSUME NEW s, NEW fact, NEW b, IsReading(s), fact.kind = "UPDATED", fact.new # None,
           ~(fact.effectiveAt > fact.time)
    PROVE  LET r == Step(s, fact, b)
           IN  IsReading(r) /\ r.active = fact.new /\ r.pending = None
<1>1. Step(s, fact, b) = InstantSeen(Continued(s, fact), fact, b)
    BY DEF Step, IsScheduled
<1>2. PICK t : t = Continued(s, fact)
    OBVIOUS
<1>3. IsReading(t)
    BY <1>2, ContinuedReads
<1> QED
    BY <1>1, <1>2, <1>3 DEF IsReading, InstantSeen

\* What the logs say of a call at height n, which leaves asset as after.
SaysNothing(logs, asset, after) == logs = {} /\ after = asset

SaysCancelled(logs, asset, after) ==
    \E f : /\ logs = {f} /\ f.kind = "CANCELLED"
          /\ after.multiplier = asset.multiplier /\ after.effectiveAt = 0

SaysScheduled(logs, asset, after, n) ==
    \E f : /\ logs = {f} /\ f.kind = "UPDATED" /\ f.new \in Values
          /\ f.effectiveAt \in Nat /\ f.effectiveAt > n /\ f.time = n
          /\ after.multiplier = asset.multiplier
          /\ after.newMultiplier = f.new /\ after.effectiveAt = f.effectiveAt

\* The legacy half comes before its twin, and a cancellation before both.
SaysInstant(logs, asset, after, n) ==
    \E f, l : /\ f.kind = "UPDATED" /\ f.new \in Values
             /\ f.effectiveAt = n /\ f.time = n /\ f.log = 2
             /\ l.kind = "LEGACY" /\ l.new = f.new /\ l.log = 1
             /\ after.multiplier = f.new /\ after.effectiveAt = 0
             /\ \/ logs = {l, f}
                \/ \E g : logs = {g, l, f} /\ g.kind = "CANCELLED" /\ g.log = 0

\* What a call leaves to be read: nothing, a cancellation, an update, or both in order.
LEMMA EmittedKinds ==
    ASSUME NEW n \in Nat, NEW call \in Calls(n), NEW asset \in AssetSet,
           ~Reverts(asset, call, n), NEW ref, ref.number = n,
           NEW logs, logs = Emitted(asset, call, ref),
           NEW after, after = AfterCall(asset, call)
    PROVE  /\ \/ SaysNothing(logs, asset, after)
              \/ SaysCancelled(logs, asset, after)
              \/ SaysScheduled(logs, asset, after, n)
              \/ SaysInstant(logs, asset, after, n)
           /\ \A log \in logs : log.kind = "LEGACY" => HasTwin(log, logs)
<1> DEFINE cancelled == Log(ref, 0, "CANCELLED", None, None, None)
           legacy == Log(ref, 1, "LEGACY", None, call.value, None)
           updated == Log(ref, 2, "UPDATED", call.value, call.value, ref.number)
           scheduled == Log(ref, 0, "UPDATED", asset.multiplier, call.value, call.at)
           first == IF asset.effectiveAt = 0 THEN {} ELSE {cancelled}
<1>1. /\ cancelled.kind = "CANCELLED" /\ cancelled.log = 0
      /\ legacy.kind = "LEGACY" /\ legacy.new = call.value /\ legacy.log = 1
      /\ legacy.hash = ref.hash /\ legacy.tx = 0
      /\ updated.kind = "UPDATED" /\ updated.new = call.value /\ updated.effectiveAt = n
      /\ updated.time = n /\ updated.log = 2 /\ updated.hash = ref.hash /\ updated.tx = 0
      /\ scheduled.kind = "UPDATED" /\ scheduled.new = call.value
      /\ scheduled.effectiveAt = call.at /\ scheduled.time = n
    BY DEF Log
<1>2. /\ call.kind \in {"none", "instant", "schedule", "cancel"}
      /\ call.kind \in {"instant", "schedule"} => call.value \in Values
      /\ call.kind = "schedule" => call.at \in Nat /\ call.at > n
    BY CallTyped
<1>3. /\ call.kind = "none" => logs = {}
      /\ call.kind = "instant" => logs = first \cup {legacy, updated}
      /\ call.kind = "schedule" => logs = {scheduled}
      /\ call.kind = "cancel" => logs = first
    BY <1>2 DEF Emitted
<1> HIDE DEF cancelled, legacy, updated, scheduled
<1>4. CASE call.kind = "none"
    BY <1>3, <1>4 DEF AfterCall, SaysNothing
<1>5. CASE call.kind = "cancel"
    <2>1. asset.effectiveAt # 0 /\ logs = {cancelled}
        BY <1>1, <1>3, <1>5 DEF Reverts
    <2>2. after.multiplier = asset.multiplier /\ after.effectiveAt = 0
        BY <1>5 DEF AfterCall, ClearSchedule, AssetSet
    <2> QED
        BY <1>1, <1>3, <1>5, <2>1, <2>2 DEF SaysCancelled
<1>6. CASE call.kind = "schedule"
    <2>1. logs = {scheduled}
        BY <1>1, <1>3, <1>6
    <2>2. /\ after.multiplier = asset.multiplier
          /\ after.newMultiplier = call.value /\ after.effectiveAt = call.at
        BY <1>6 DEF AfterCall, AssetSet
    <2> QED
        BY <1>1, <1>2, <1>3, <1>6, <2>1, <2>2 DEF SaysScheduled
<1>7. CASE call.kind = "instant"
    <2>1. logs = first \cup {legacy, updated}
        BY <1>3, <1>7
    <2>2. after.multiplier = call.value /\ after.effectiveAt = 0
        BY <1>7 DEF AfterCall, ClearSchedule, AssetSet
    <2>3. \A log \in logs : log.kind = "LEGACY" => log = legacy
        BY <1>1, <1>3, <1>7
    <2>4. HasTwin(legacy, logs)
        BY <1>1, <1>3, <1>7 DEF HasTwin
    <2>5. logs = {legacy, updated} \/ logs = {cancelled, legacy, updated}
        BY <2>1
    <2> QED
        BY <1>1, <1>2, <1>7, <2>2, <2>3, <2>4, <2>5 DEF SaysInstant
<1> QED
    BY <1>2, <1>4, <1>5, <1>6, <1>7

LogsTo(c, n) == UNION {c[m].logs : m \in 1..n}
CountedTo(c, n) == {fact \in LogsTo(c, n) : fact.kind # "LEGACY"}

LEMMA LogsToGrows ==
    ASSUME NEW c, NEW n \in Nat
    PROVE  LogsTo(c, n + 1) = LogsTo(c, n) \cup c[n + 1].logs
<1>1. \A m : m \in 1..(n + 1) <=> m \in 1..n \/ m = n + 1
    OBVIOUS
<1> QED
    BY <1>1 DEF LogsTo

\* A log of one of the first n c, and where it stands.
LEMMA LogsToTyped ==
    ASSUME NEW c, NEW top, Grown(c, top), NEW n \in 0..top, NEW log \in LogsTo(c, n)
    PROVE  /\ Placed(log) /\ log.block \in 1..n /\ log.time = log.block
           /\ log \in c[log.block].logs
<1>1. PICK m \in 1..n : log \in c[m].logs
    BY DEF LogsTo
<1>2. m \in 1..top
    BY DEF Grown
<1>3. LogOf(log, [number |-> m, hash |-> c[m].hash])
    BY <1>1, <1>2, GrownTyped
<1> QED
    BY <1>1, <1>3 DEF LogOf, Placed

ReadTo(c, n, b) == Read(CountedTo(c, n), Seed, b)

\* One more block is read as the contract went through it.
LEMMA BlockReads ==
    ASSUME NEW c, NEW top, Grown(c, top), NEW b, NEW n \in Nat, n + 1 \in 1..top, Readable(CountedTo(c, n)),
           Tells(ReadTo(c, n, b), AssetIn(c, n))
    PROVE  /\ Readable(CountedTo(c, n + 1)) /\ Tells(ReadTo(c, n + 1, b), AssetIn(c, n + 1))
           /\ \/ ReadTo(c, n + 1, b).epochs = ReadTo(c, n, b).epochs
              \/ \E log \in c[n + 1].logs : log.kind = "LEGACY"
<1> DEFINE S == CountedTo(c, n)
           ref == [number |-> n + 1, hash |-> c[n + 1].hash]
           logs == c[n + 1].logs
           counted == {log \in logs : log.kind # "LEGACY"}
           asset == AssetIn(c, n)
           after == AssetIn(c, n + 1)
           s == Read(S, Seed, b)
<1>0. top \in Nat /\ n \in 0..top
    BY DEF Grown
<1>1. /\ asset \in AssetSet /\ IsFiniteSet(logs)
      /\ \A log \in logs : LogOf(log, ref)
    <2>1. (n + 1) - 1 = n
        OBVIOUS
    <2> QED
        BY <2>1, GrownTyped
<1>2. PICK call \in Calls(n + 1) :
        ~Reverts(asset, call, n + 1) /\ after = AfterCall(asset, call)
        /\ logs = Emitted(asset, call, ref)
    <2>1. Mined(c, n + 1) /\ (n + 1) - 1 = n /\ after = c[n + 1].asset
        BY DEF Grown, AssetIn
    <2> QED
        BY <2>1 DEF Mined
<1>3. after \in AssetSet
    BY <1>1, <1>2, AfterCallTyped
<1>4. CountedTo(c, n + 1) = S \cup counted
    BY LogsToGrows DEF CountedTo
<1>5. Readable(S \cup counted)
    <2>1. IsFiniteSet(S) /\ IsFiniteSet(counted)
        BY <1>1, FS_Subset DEF Readable
    <2>2. IsFiniteSet(S \cup counted)
        BY <2>1, FS_Union
    <2>3. \A f \in counted : Placed(f)
        BY <1>1 DEF LogOf, Placed
    <2> QED
        BY <2>2, <2>3 DEF Readable
<1>6. ASSUME NEW g \in S, NEW f \in counted PROVE FactBefore(g, f) /\ g # f
    <2>1. g.block \in 1..n /\ f.block = n + 1
        BY <1>0, <1>1, LogsToTyped DEF CountedTo, LogOf
    <2> QED
        BY <2>1 DEF FactBefore
<1>7. IsReading(s) /\ s.active = asset.multiplier /\ s.pending = ScheduleOf(asset)
    BY DEF Tells, ReadTo
<1>8. PICK r : r = Read(S \cup counted, Seed, b)
    OBVIOUS
<1>9. \/ SaysNothing(logs, asset, after)
      \/ SaysCancelled(logs, asset, after)
      \/ SaysScheduled(logs, asset, after, n + 1)
      \/ SaysInstant(logs, asset, after, n + 1)
    <2>1. n + 1 \in Nat /\ ref.number = n + 1
        OBVIOUS
    <2> HIDE DEF ref, logs, asset, after
    <2> QED
        BY <1>1, <1>2, <2>1, EmittedKinds
<1> HIDE DEF S, ref, logs, counted, asset, after, s
<1>10. None \notin Values /\ None \notin Nat /\ n + 1 \in Nat
    BY Bounds
<1>11. ASSUME NEW f, counted = {f}
       PROVE  r = Step(s, f, b)
    <2>1. f \notin S /\ \A g \in S : FactBefore(g, f)
        BY <1>6, <1>11
    <2> QED
        BY <1>5, <1>8, <1>11, <2>1, ReadGrows DEF s
<1>12. Tells(r, after) /\ (r.epochs = s.epochs \/ \E log \in logs : log.kind = "LEGACY")
    <2>1. CASE SaysNothing(logs, asset, after)
        <3>1. r = s
            BY <1>8, <2>1 DEF s, counted, SaysNothing
        <3> QED
            BY <1>7, <2>1, <3>1 DEF Tells, SaysNothing
    <2>2. CASE SaysCancelled(logs, asset, after)
        <3>1. PICK f : /\ counted = {f} /\ f.kind = "CANCELLED"
                       /\ after.multiplier = asset.multiplier /\ after.effectiveAt = 0
            BY <2>2 DEF SaysCancelled, counted
        <3>2. IsReading(r) /\ r.active = s.active /\ r.pending = None /\ r.epochs = s.epochs
            BY <1>7, <1>11, <3>1, CancelReads
        <3> QED
            BY <1>7, <3>1, <3>2 DEF Tells, ScheduleOf
    <2>3. CASE SaysScheduled(logs, asset, after, n + 1)
        <3>1. PICK f : /\ counted = {f} /\ f.kind = "UPDATED" /\ f.new \in Values
                       /\ f.effectiveAt \in Nat /\ f.effectiveAt > n + 1 /\ f.time = n + 1
                       /\ after.multiplier = asset.multiplier
                       /\ after.newMultiplier = f.new /\ after.effectiveAt = f.effectiveAt
            BY <2>3 DEF SaysScheduled, counted
        <3>2. f.new # None /\ f.effectiveAt # None /\ f.effectiveAt > f.time /\ f.effectiveAt # 0
            BY <1>10, <3>1
        <3>3. /\ IsReading(r) /\ r.active = s.active /\ r.epochs = s.epochs
              /\ r.pending = [value |-> f.new, at |-> f.effectiveAt]
            BY <1>7, <1>11, <3>1, <3>2, ScheduleReads
        <3> QED
            BY <1>7, <3>1, <3>2, <3>3 DEF Tells, ScheduleOf
    <2>4. CASE SaysInstant(logs, asset, after, n + 1)
        <3>0. PICK f, l :
                /\ f.kind = "UPDATED" /\ f.new \in Values
                /\ f.effectiveAt = n + 1 /\ f.time = n + 1 /\ f.log = 2 /\ l.kind = "LEGACY"
                /\ after.multiplier = f.new /\ after.effectiveAt = 0
                /\ \/ logs = {l, f}
                   \/ \E g : logs = {g, l, f} /\ g.kind = "CANCELLED" /\ g.log = 0
            BY <2>4 DEF SaysInstant
        <3>1. /\ l \in logs
              /\ \/ counted = {f}
                 \/ \E g : counted = {g, f} /\ g.kind = "CANCELLED" /\ g.log = 0
            <4>1. CASE logs = {l, f}
                BY <3>0, <4>1 DEF counted
            <4>2. CASE \E g : logs = {g, l, f} /\ g.kind = "CANCELLED" /\ g.log = 0
                <5>1. PICK g : logs = {g, l, f} /\ g.kind = "CANCELLED" /\ g.log = 0
                    BY <4>2
                <5>2. counted = {g, f}
                    BY <3>0, <5>1 DEF counted
                <5> QED
                    BY <5>1, <5>2
            <4> QED
                BY <3>0, <4>1, <4>2
        <3>2. f.new # None /\ ~(f.effectiveAt > f.time)
            BY <1>10, <3>0
        <3>3. ASSUME NEW t, IsReading(t), r = Step(t, f, b)
              PROVE  Tells(r, after)
            BY <3>0, <3>2, <3>3, InstantReads DEF Tells, ScheduleOf
        <3>4. CASE counted = {f}
            BY <1>7, <1>11, <3>0, <3>1, <3>3, <3>4
        <3>5. CASE \E g : counted = {g, f} /\ g.kind = "CANCELLED" /\ g.log = 0
            <4>1. PICK g : counted = {g, f} /\ g.kind = "CANCELLED" /\ g.log = 0
                BY <3>5
            <4>2. PICK T : T = S \cup {g}
                OBVIOUS
            <4>3. S \cup counted = T \cup {f} /\ T \in SUBSET (S \cup counted)
                BY <4>1, <4>2
            <4>4. Readable(T) /\ Readable(T \cup {f})
                BY <1>5, <4>3, SomeReadable
            <4>5. FactBefore(g, f) /\ g # f
                <5>1. LogOf(g, ref) /\ LogOf(f, ref)
                    BY <1>1, <4>1 DEF counted
                <5> QED
                    BY <3>0, <4>1, <5>1 DEF LogOf, FactBefore
            <4>6. g \in counted /\ f \in counted
                BY <4>1
            <4>7. Read(T, Seed, b) = Step(s, g, b)
                BY <1>6, <4>2, <4>4, <4>6, ReadGrows DEF s
            <4>8. f \notin T /\ \A h \in T : FactBefore(h, f)
                BY <1>6, <4>2, <4>5, <4>6
            <4>9. r = Step(Read(T, Seed, b), f, b)
                BY <1>8, <4>3, <4>4, <4>8, ReadGrows
            <4>10. IsReading(Step(s, g, b))
                BY <1>7, <4>1, CancelReads
            <4> QED
                BY <3>0, <3>1, <3>3, <4>7, <4>9, <4>10
        <3> QED
            BY <3>1, <3>4, <3>5
    <2> QED
        BY <1>9, <2>1, <2>2, <2>3, <2>4
<1> QED
    BY <1>4, <1>5, <1>8, <1>12 DEF ReadTo, S, s, logs, after

\* Reading the logs of the first n blocks gives what the contract stores there.
LEMMA ReadingTells ==
    ASSUME NEW c, NEW top, Grown(c, top), NEW b, NEW n \in 0..top
    PROVE  Readable(CountedTo(c, n)) /\ Tells(ReadTo(c, n, b), AssetIn(c, n))
<1> DEFINE Good(m) == Readable(CountedTo(c, m)) /\ Tells(ReadTo(c, m, b), AssetIn(c, m))
           D == {m \in 0..top : ~Good(m)}
<1>0. top \in Nat
    BY DEF Grown
<1>1. Good(0)
    <2>1. CountedTo(c, 0) = {}
        BY DEF CountedTo, LogsTo
    <2>2. Readable(CountedTo(c, 0))
        BY <2>1, FS_EmptySet DEF Readable
    <2>3. ReadTo(c, 0, b) = Unread(Seed)
        BY <2>1, ReadNothing DEF ReadTo
    <2>4. Tells(Unread(Seed), Deployed(Seed))
        BY DEF Tells, IsReading, Unread, Deployed, ScheduleOf
    <2> QED
        BY <2>2, <2>3, <2>4 DEF AssetIn
<1>2. ASSUME NEW m \in Nat, m + 1 \in 1..top, Good(m) PROVE Good(m + 1)
    BY <1>2, BlockReads
<1> HIDE DEF Good
<1>3. D = {}
    <2> SUFFICES ASSUME D # {} PROVE FALSE
        OBVIOUS
    <2>1. D \in SUBSET Nat
        BY <1>0
    <2>2. PICK m \in D : \A k \in D : m <= k
        BY <2>1, MinIsReached
    <2>3. m # 0 /\ m \in Nat /\ m \in 1..top
        BY <1>0, <1>1, <2>2
    <2>4. m - 1 \in Nat /\ m - 1 \in 0..top /\ (m - 1) + 1 = m /\ ~(m <= m - 1)
        BY <1>0, <2>3
    <2>5. Good(m - 1)
        BY <2>2, <2>4
    <2>6. Good((m - 1) + 1)
        BY <1>2, <2>3, <2>4, <2>5
    <2> QED
        BY <2>2, <2>4, <2>6
<1>4. Good(n)
    BY <1>3
<1> QED
    BY <1>4 DEF Good

\* The legacy half of every emission is folded, and the loop stops where the blocks do.
LEMMA ReadsUpTo ==
    ASSUME NEW c, NEW top, Grown(c, top), NEW last \in 0..top, NEW n \in 0..last
    PROVE  UpTo(LogsTo(c, last) \ Folded(LogsTo(c, last)), n) = CountedTo(c, n)
<1> DEFINE all == LogsTo(c, last)
<1>0. top \in Nat /\ n \in 0..top /\ n \in Nat /\ last \in Nat
    BY DEF Grown
<1>1. \A log \in all : /\ log.block \in 1..last /\ log.time = log.block
                       /\ log \in c[log.block].logs
    BY LogsToTyped
<1>2. \A m \in 1..last : m \in 1..top /\ c[m].logs \subseteq all
    BY <1>0 DEF LogsTo
<1>3. ASSUME NEW log \in all, log.kind = "LEGACY" PROVE HasTwin(log, all)
    <2> DEFINE m == log.block
               ref == [number |-> m, hash |-> c[m].hash]
    <2>1. m \in 1..last /\ m \in 1..top /\ log \in c[m].logs
        BY <1>1, <1>2
    <2>2. m \in Nat /\ AssetIn(c, m - 1) \in AssetSet
        BY <2>1, GrownTyped
    <2>3. PICK call \in Calls(m) :
            /\ ~Reverts(AssetIn(c, m - 1), call, m)
            /\ c[m].logs = Emitted(AssetIn(c, m - 1), call, ref)
        BY <2>1 DEF Grown, Mined
    <2>4. ref.number = m
        OBVIOUS
    <2> HIDE DEF ref, m
    <2>5. \A l \in c[m].logs : l.kind = "LEGACY" => HasTwin(l, c[m].logs)
        BY <2>2, <2>3, <2>4, EmittedKinds
    <2>6. HasTwin(log, c[m].logs)
        BY <1>3, <2>1, <2>5
    <2> QED
        BY <1>2, <2>1, <2>6 DEF HasTwin
<1>4. all \ Folded(all) = {log \in all : log.kind # "LEGACY"}
    BY <1>3 DEF Folded
<1>5. \A log : log \in CountedTo(c, n) <=> log \in all /\ log.kind # "LEGACY" /\ log.block <= n
    <2>1. ASSUME NEW log \in LogsTo(c, n) PROVE log \in all /\ log.block <= n
        <3>1. PICK m \in 1..n : log \in c[m].logs
            BY DEF LogsTo
        <3>2. log.block \in 1..n
            BY <1>0, LogsToTyped
        <3> QED
            BY <1>0, <1>2, <3>1, <3>2
    <2>2. ASSUME NEW log \in all, log.block <= n PROVE log \in LogsTo(c, n)
        BY <1>0, <1>1, <2>2 DEF LogsTo
    <2> QED
        BY <2>1, <2>2 DEF CountedTo
<1>6. ASSUME NEW log \in all, log.kind # "LEGACY", log.block <= n,
             NEW later \in all, later.time > n
      PROVE  FactBefore(log, later)
    BY <1>0, <1>1, <1>6 DEF FactBefore
<1>7. ASSUME NEW log \in all, ~(log.block <= n)
      PROVE  log.time > n /\ ~FactBefore(log, log)
    <2>1. Placed(log)
        BY LogsToTyped
    <2> QED
        BY <1>0, <1>1, <1>7, <2>1 DEF FactBefore, Placed
<1> HIDE DEF all
<1> QED
    BY <1>4, <1>5, <1>6, <1>7 DEF UpTo, all

\* What is derived at a height, when the facts are the chain's.
LEMMA DerivedIs ==
    ASSUME NEW c, NEW top, Grown(c, top), NEW last \in 0..top, Facts = LogsTo(c, last), NEW n \in 0..last
    PROVE  LET derived == Derived(n)
               asset == AssetIn(c, n)
           IN  /\ derived.active = MultiplierOf(asset, n)
               /\ derived.pending =
                     IF asset.effectiveAt > n
                     THEN [value |-> asset.newMultiplier, at |-> asset.effectiveAt] ELSE None
<1> DEFINE folded == Folded(Facts)
           asset == AssetIn(c, n)
<1>0. n \in 0..top /\ n \in Nat /\ top \in Nat
    BY DEF Grown
<1>1. asset \in AssetSet
    <2>1. n = 0 \/ n \in 1..top
        BY <1>0
    <2> QED
        BY <2>1, DeployedTyped DEF AssetIn, Grown
<1>2. PICK b : b = (folded # {})
    OBVIOUS
<1>3. PICK s : s = Read(UpTo(Facts \ folded, n), Seed, folded # {})
    OBVIOUS
<1>4. s = ReadTo(c, n, b)
    BY <1>2, <1>3, ReadsUpTo DEF ReadTo
<1>5. IsReading(s) /\ s.active = asset.multiplier /\ s.pending = ScheduleOf(asset)
    BY <1>0, <1>4, ReadingTells DEF Tells
<1>6. Derived(n).active = Activated(s, n).active /\ Derived(n).pending = Activated(s, n).pending
    <2>1. Live.currentMultiplier = "LIVE"
        BY DEF Live
    <2> QED
        BY <1>3, <2>1 DEF Derived, ReduceB20Lifecycle, Result
<1>7. asset.effectiveAt \in Nat /\ asset.newMultiplier \in Values \cup {0}
    BY <1>1 DEF AssetSet
<1> HIDE DEF asset
<1>8. CASE asset.effectiveAt = 0
    <2>1. s.pending = None
        BY <1>5, <1>8 DEF ScheduleOf
    <2>2. Activated(s, n) = s
        BY <2>1 DEF Activated
    <2> QED
        BY <1>0, <1>5, <1>6, <1>8, <2>1, <2>2 DEF MultiplierOf, asset
<1>9. CASE asset.effectiveAt # 0
    <2>1. /\ s.pending = [value |-> asset.newMultiplier, at |-> asset.effectiveAt]
          /\ s.pending.value = asset.newMultiplier /\ s.pending.at = asset.effectiveAt
        BY <1>5, <1>9 DEF ScheduleOf
    <2>2. s.pending # None
        BY <1>7, <2>1, Bounds
    <2>3. CASE n < asset.effectiveAt
        <3>1. Activated(s, n) = [s EXCEPT !.reasons = @ \cup {"B20_SCHEDULE_NOT_YET_EFFECTIVE"}]
            BY <2>1, <2>2, <2>3 DEF Activated
        <3>2. Activated(s, n).active = s.active /\ Activated(s, n).pending = s.pending
            BY <1>5, <3>1 DEF IsReading
        <3> QED
            BY <1>0, <1>5, <1>6, <1>7, <2>1, <2>3, <3>2 DEF MultiplierOf, asset
    <2>4. CASE ~(n < asset.effectiveAt)
        <3>1. Activated(s, n)
                = [s EXCEPT !.active = s.pending.value, !.pending = None,
                            !.epochs = OpenEpoch(@, s.pending.value, s.pending.at, FALSE)]
            BY <2>1, <2>2, <2>4 DEF Activated
        <3>2. Activated(s, n).active = s.pending.value /\ Activated(s, n).pending = None
            BY <1>5, <3>1 DEF IsReading
        <3> QED
            BY <1>0, <1>6, <1>7, <1>9, <2>1, <2>4, <3>2 DEF MultiplierOf, asset
    <2> QED
        BY <2>3, <2>4
<1> QED
    BY <1>8, <1>9 DEF asset

-----------------------------------------------------------------------------
\* The reference, fed the same logs.

\* The fields the lifecycle is about.
IsReferee(r) ==
    {"multiplier", "pending", "cancelled", "superseded", "duplicate", "seen", "restatements"}
        \subseteq DOMAIN r

KeyOf(fact) == Reference!UpdateKey(AsScenarioFact(fact))

LEMMA KeyIs == \A fact : KeyOf(fact) = <<fact.block, fact.tx, fact.new>>
BY DEF KeyOf, AsScenarioFact, Reference!UpdateKey

LEMMA RefereeCancels ==
    ASSUME NEW r, IsReferee(r), NEW fact, fact.kind = "CANCELLED"
    PROVE  LET q == Reference!Ingest(r, AsScenarioFact(fact), {})
           IN  /\ IsReferee(q) /\ q.pending = None /\ q.multiplier = r.multiplier
               /\ q.seen = r.seen /\ q.restatements = r.restatements
<1>1. AsScenarioFact(fact).kind = "SCHEDULE_CANCELLED"
    BY DEF AsScenarioFact
<1>2. Reference!Ingest(r, AsScenarioFact(fact), {}) = [r EXCEPT !.pending = None, !.cancelled = TRUE]
    BY <1>1 DEF Reference!Ingest, Reference!IngestCancel
<1> QED
    BY <1>2 DEF IsReferee

LEMMA RefereeSchedules ==
    ASSUME NEW r, IsReferee(r), NEW fact, fact.kind = "UPDATED",
           fact.effectiveAt > fact.time, KeyOf(fact) \notin r.seen
    PROVE  LET q == Reference!Ingest(r, AsScenarioFact(fact), {})
           IN  /\ IsReferee(q) /\ q.multiplier = r.multiplier
               /\ q.pending = [value |-> fact.new, at |-> fact.effectiveAt]
               /\ q.seen = r.seen \cup {KeyOf(fact)} /\ q.restatements = r.restatements + 1
<1> DEFINE given == AsScenarioFact(fact)
           told == [r EXCEPT !.duplicate = @ \/ FALSE]
           booked == [told EXCEPT !.seen = @ \cup {KeyOf(fact)}, !.restatements = @ + 1]
<1>1. /\ given.kind = "MULTIPLIER_UPDATED" /\ given.time = fact.time
      /\ given.fields.new = fact.new /\ given.fields.effectiveAt = fact.effectiveAt
    BY DEF AsScenarioFact
<1>2. Reference!Ingest(r, given, {}) = Reference!IngestUpdate(r, given, {})
    BY <1>1 DEF Reference!Ingest
<1> HIDE DEF given
<1>3. Reference!UpdateKey(given) = KeyOf(fact)
    BY DEF KeyOf, given
<1>4. Reference!IngestUpdate(r, given, {})
        = [booked EXCEPT !.pending = [value |-> fact.new, at |-> fact.effectiveAt],
                         !.cancelled = FALSE]
    BY <1>1, <1>3 DEF Reference!IngestUpdate, Reference!Booked
<1>5. /\ IsReferee(told) /\ told.multiplier = r.multiplier
      /\ told.seen = r.seen /\ told.restatements = r.restatements
    BY DEF IsReferee
<1> HIDE DEF told
<1>6. /\ IsReferee(booked) /\ booked.multiplier = r.multiplier
      /\ booked.seen = r.seen \cup {KeyOf(fact)} /\ booked.restatements = r.restatements + 1
    BY <1>5 DEF IsReferee
<1> HIDE DEF booked
<1> QED
    BY <1>2, <1>4, <1>6 DEF IsReferee, given

\* A value in force at once.
LEMMA SetsAtOnce ==
    ASSUME NEW r, IsReferee(r), NEW value
    PROVE  LET q == Reference!SetMultiplier(r, value)
           IN  /\ IsReferee(q) /\ q.multiplier = value /\ q.pending = None
               /\ q.seen = r.seen /\ q.restatements = r.restatements
BY DEF Reference!SetMultiplier, IsReferee

LEMMA RefereeSetsLegacy ==
    ASSUME NEW r, IsReferee(r), NEW fact, fact.kind = "LEGACY", KeyOf(fact) \notin r.seen
    PROVE  LET q == Reference!Ingest(r, AsScenarioFact(fact), {})
           IN  /\ IsReferee(q) /\ q.multiplier = fact.new /\ q.pending = None
               /\ q.seen = r.seen \cup {KeyOf(fact)} /\ q.restatements = r.restatements + 1
<1> DEFINE given == AsScenarioFact(fact)
           booked == [r EXCEPT !.seen = @ \cup {KeyOf(fact)}, !.restatements = @ + 1]
           told == [booked EXCEPT !.duplicate = TRUE]
<1>1. given.kind = "MULTIPLIER_UPDATED_LEGACY" /\ given.fields.new = fact.new
    BY DEF AsScenarioFact
<1>2. Reference!Ingest(r, given, {}) = Reference!IngestLegacy(r, given, {})
    BY <1>1 DEF Reference!Ingest
<1> HIDE DEF given
<1>3. Reference!UpdateKey(given) = KeyOf(fact)
    BY DEF KeyOf, given
<1>4. Reference!IngestLegacy(r, given, {}) = Reference!SetMultiplier(told, fact.new)
    BY <1>1, <1>3 DEF Reference!IngestLegacy, Reference!Booked
<1>5. /\ IsReferee(booked) /\ booked.restatements = r.restatements + 1
      /\ booked.seen = r.seen \cup {KeyOf(fact)}
    BY DEF IsReferee
<1> HIDE DEF booked
<1>6. /\ IsReferee(told) /\ told.restatements = booked.restatements /\ told.seen = booked.seen
    BY <1>5 DEF IsReferee
<1> HIDE DEF told
<1> QED
    BY <1>2, <1>4, <1>5, <1>6, SetsAtOnce DEF given

\* The canonical half of an emission whose legacy half was booked.
LEMMA RefereeFoldsTwin ==
    ASSUME NEW r, IsReferee(r), NEW fact, fact.kind = "UPDATED", KeyOf(fact) \in r.seen
    PROVE  LET q == Reference!Ingest(r, AsScenarioFact(fact), {})
           IN  /\ IsReferee(q) /\ q.multiplier = r.multiplier /\ q.pending = r.pending
               /\ q.seen = r.seen /\ q.restatements = r.restatements
<1> DEFINE given == AsScenarioFact(fact)
<1>1. given.kind = "MULTIPLIER_UPDATED"
    BY DEF AsScenarioFact
<1>2. Reference!Ingest(r, given, {}) = Reference!IngestUpdate(r, given, {})
    BY <1>1 DEF Reference!Ingest
<1> HIDE DEF given
<1>3. Reference!UpdateKey(given) = KeyOf(fact)
    BY DEF KeyOf, given
<1>4. Reference!IngestUpdate(r, given, {}) = [r EXCEPT !.duplicate = @ \/ TRUE]
    BY <1>3 DEF Reference!IngestUpdate
<1> QED
    BY <1>2, <1>4 DEF IsReferee, given

UpdatesTo(c, n) == {fact \in LogsTo(c, n) : fact.kind = "UPDATED"}

\* What the reference keeps after n blocks: the contract's schedule, its multiplier once an
\* epoch was opened, and each update counted once.
Follows(c, r, n, epochs) ==
    /\ IsReferee(r)
    /\ r.pending = ScheduleOf(AssetIn(c, n))
    /\ epochs # <<>> => r.multiplier = AssetIn(c, n).multiplier
    /\ r.restatements = Cardinality(UpdatesTo(c, n))
    /\ \A key \in r.seen : key[1] \in 1..n

\* One more block is fed.
LEMMA BlockIsFed ==
    ASSUME NEW c, NEW top, Grown(c, top), NEW n \in Nat, n + 1 \in 1..top,
           Readable(LogsTo(c, n)), NEW epochs, NEW later,
           Follows(c, Fed(LogsTo(c, n)), n, epochs),
           later = epochs \/ \E log \in c[n + 1].logs : log.kind = "LEGACY"
    PROVE  Readable(LogsTo(c, n + 1)) /\ Follows(c, Fed(LogsTo(c, n + 1)), n + 1, later)
<1> DEFINE S == LogsTo(c, n)
           ref == [number |-> n + 1, hash |-> c[n + 1].hash]
           logs == c[n + 1].logs
           asset == AssetIn(c, n)
           after == AssetIn(c, n + 1)
           r == Fed(S)
<1>0. top \in Nat /\ n \in 0..top
    BY DEF Grown
<1>1. /\ asset \in AssetSet /\ IsFiniteSet(logs)
      /\ \A log \in logs : LogOf(log, ref)
    <2>1. (n + 1) - 1 = n
        OBVIOUS
    <2> QED
        BY <2>1, GrownTyped
<1>2. PICK call \in Calls(n + 1) :
        ~Reverts(asset, call, n + 1) /\ after = AfterCall(asset, call)
        /\ logs = Emitted(asset, call, ref)
    <2>1. Mined(c, n + 1) /\ (n + 1) - 1 = n /\ after = c[n + 1].asset
        BY DEF Grown, AssetIn
    <2> QED
        BY <2>1 DEF Mined
<1>3. LogsTo(c, n + 1) = S \cup logs
    BY LogsToGrows
<1>4. \A log \in logs : log.block = n + 1 /\ log.tx = 0 /\ Placed(log)
    BY <1>1 DEF LogOf, Placed
<1>5. Readable(S \cup logs) /\ IsFiniteSet(S)
    <2>1. IsFiniteSet(S \cup logs)
        BY <1>1, FS_Union DEF Readable
    <2> QED
        BY <1>4, <2>1 DEF Readable
<1>6. ASSUME NEW g \in S, NEW f \in logs PROVE FactBefore(g, f) /\ g # f
    <2>1. g.block \in 1..n /\ f.block = n + 1
        BY <1>0, <1>4, LogsToTyped
    <2> QED
        BY <2>1 DEF FactBefore
<1>7. /\ IsReferee(r) /\ r.pending = ScheduleOf(asset)
      /\ epochs # <<>> => r.multiplier = asset.multiplier
      /\ r.restatements = Cardinality(UpdatesTo(c, n))
      /\ \A key \in r.seen : key[1] \in 1..n
    BY DEF Follows
<1>8. \/ SaysNothing(logs, asset, after)
      \/ SaysCancelled(logs, asset, after)
      \/ SaysScheduled(logs, asset, after, n + 1)
      \/ SaysInstant(logs, asset, after, n + 1)
    <2>1. n + 1 \in Nat /\ ref.number = n + 1
        OBVIOUS
    <2> HIDE DEF ref, logs, asset, after
    <2> QED
        BY <1>1, <1>2, <2>1, EmittedKinds
<1>9. None \notin Values /\ None \notin Nat /\ n + 1 \in Nat
    BY Bounds
<1>10. PICK q : q = Fed(S \cup logs)
    OBVIOUS
<1>11. UpdatesTo(c, n + 1) = UpdatesTo(c, n) \cup {log \in logs : log.kind = "UPDATED"}
    BY <1>3 DEF UpdatesTo
<1>12. IsFiniteSet(UpdatesTo(c, n)) /\ \A log \in logs : log \notin UpdatesTo(c, n)
    BY <1>5, <1>6, FS_Subset DEF UpdatesTo
<1>13. ASSUME NEW f, {log \in logs : log.kind = "UPDATED"} = {f}
       PROVE  Cardinality(UpdatesTo(c, n + 1)) = Cardinality(UpdatesTo(c, n)) + 1
    <2>1. f \in logs
        BY <1>13
    <2> QED
        BY <1>11, <1>12, <1>13, <2>1, FS_AddElement
<1>14. ASSUME {log \in logs : log.kind = "UPDATED"} = {}
       PROVE  Cardinality(UpdatesTo(c, n + 1)) = Cardinality(UpdatesTo(c, n))
    BY <1>11, <1>14
<1>15. ASSUME NEW key, key[1] = n + 1 PROVE key \notin r.seen
    BY <1>7, <1>15
<1>16. \A fact \in logs : KeyOf(fact)[1] = n + 1
    BY <1>4, KeyIs
<1>17. ASSUME NEW seen, \A key \in seen : key \in r.seen \/ \E fact \in logs : key = KeyOf(fact)
       PROVE  \A key \in seen : key[1] \in 1..(n + 1)
    BY <1>7, <1>16, <1>17
<1>18. ASSUME NEW f \in logs, logs = {f} PROVE q = Reference!Ingest(r, AsScenarioFact(f), {})
    <2>1. f \notin S /\ \A g \in S : FactBefore(g, f)
        BY <1>6
    <2> QED
        BY <1>5, <1>10, <1>18, <2>1, FedGrows
<1> HIDE DEF S, ref, logs, asset, after, r
<1>19. Follows(c, q, n + 1, later)
    <2>1. CASE SaysNothing(logs, asset, after)
        <3>1. q = r /\ logs = {} /\ after = asset /\ later = epochs
            BY <1>10, <2>1 DEF r, SaysNothing, logs
        <3>2. Cardinality(UpdatesTo(c, n + 1)) = Cardinality(UpdatesTo(c, n))
            BY <1>14, <3>1
        <3>3. \A key \in q.seen : key[1] \in 1..(n + 1)
            BY <1>17, <3>1
        <3> QED
            BY <1>7, <3>1, <3>2, <3>3 DEF Follows, after, asset
    <2>2. CASE SaysCancelled(logs, asset, after)
        <3>1. PICK f : /\ logs = {f} /\ f.kind = "CANCELLED"
                       /\ after.multiplier = asset.multiplier /\ after.effectiveAt = 0
            BY <2>2 DEF SaysCancelled
        <3>2. /\ IsReferee(q) /\ q.pending = None /\ q.multiplier = r.multiplier
              /\ q.seen = r.seen /\ q.restatements = r.restatements
            BY <1>7, <1>18, <3>1, RefereeCancels
        <3>3. later = epochs
            BY <3>1 DEF logs
        <3>4. Cardinality(UpdatesTo(c, n + 1)) = Cardinality(UpdatesTo(c, n))
            BY <1>14, <3>1
        <3>5. \A key \in q.seen : key[1] \in 1..(n + 1)
            BY <1>17, <3>2
        <3> QED
            BY <1>7, <3>1, <3>2, <3>3, <3>4, <3>5 DEF Follows, ScheduleOf, after
    <2>3. CASE SaysScheduled(logs, asset, after, n + 1)
        <3>1. PICK f : /\ logs = {f} /\ f.kind = "UPDATED" /\ f.new \in Values
                       /\ f.effectiveAt \in Nat /\ f.effectiveAt > n + 1 /\ f.time = n + 1
                       /\ after.multiplier = asset.multiplier
                       /\ after.newMultiplier = f.new /\ after.effectiveAt = f.effectiveAt
            BY <2>3 DEF SaysScheduled
        <3>2. f.effectiveAt > f.time /\ f.effectiveAt # 0 /\ KeyOf(f) \notin r.seen
            BY <1>9, <1>15, <1>16, <3>1
        <3>3. /\ IsReferee(q) /\ q.multiplier = r.multiplier
              /\ q.pending = [value |-> f.new, at |-> f.effectiveAt]
              /\ q.seen = r.seen \cup {KeyOf(f)} /\ q.restatements = r.restatements + 1
            BY <1>7, <1>18, <3>1, <3>2, RefereeSchedules
        <3>4. later = epochs
            BY <3>1 DEF logs
        <3>5. Cardinality(UpdatesTo(c, n + 1)) = Cardinality(UpdatesTo(c, n)) + 1
            BY <1>13, <3>1
        <3>6. \A key \in q.seen : key[1] \in 1..(n + 1)
            BY <1>17, <3>1, <3>3
        <3> QED
            BY <1>7, <3>1, <3>2, <3>3, <3>4, <3>5, <3>6 DEF Follows, ScheduleOf, after
    <2>4. CASE SaysInstant(logs, asset, after, n + 1)
        <3>1. PICK f, l :
                /\ f.kind = "UPDATED" /\ f.new \in Values
                /\ f.effectiveAt = n + 1 /\ f.time = n + 1 /\ f.log = 2
                /\ l.kind = "LEGACY" /\ l.new = f.new /\ l.log = 1
                /\ after.multiplier = f.new /\ after.effectiveAt = 0
                /\ \/ logs = {l, f}
                   \/ \E g : logs = {g, l, f} /\ g.kind = "CANCELLED" /\ g.log = 0
            BY <2>4 DEF SaysInstant
        <3>2. KeyOf(l) \notin r.seen /\ KeyOf(f) = KeyOf(l) /\ FactBefore(l, f) /\ l # f
              /\ l \in logs /\ f \in logs
            BY <1>4, <1>15, <1>16, <3>1, KeyIs DEF FactBefore
        <3>3. {log \in logs : log.kind = "UPDATED"} = {f}
            BY <3>1
        <3>4. ASSUME NEW T, T \cup {l, f} = S \cup logs, l \notin T, f \notin T,
                     \A h \in T : FactBefore(h, l) /\ FactBefore(h, f),
                     NEW t, t = Fed(T), IsReferee(t), t.seen = r.seen,
                     t.restatements = r.restatements
              PROVE  Follows(c, q, n + 1, later)
            <4>1. PICK U : U = T \cup {l}
                OBVIOUS
            <4>2. PICK u : u = Fed(U)
                OBVIOUS
            <4>3. S \cup logs = U \cup {f} /\ U \in SUBSET (S \cup logs)
                BY <3>4, <4>1
            <4>4. Readable(U) /\ Readable(U \cup {f})
                BY <1>5, <4>3, SomeReadable DEF S
            <4>5. u = Reference!Ingest(t, AsScenarioFact(l), {})
                BY <3>4, <4>1, <4>2, <4>4, FedGrows
            <4>6. /\ IsReferee(u) /\ u.multiplier = l.new /\ u.pending = None
                  /\ u.seen = r.seen \cup {KeyOf(l)} /\ u.restatements = r.restatements + 1
                BY <3>1, <3>2, <3>4, <4>5, RefereeSetsLegacy
            <4>7. f \notin U /\ \A h \in U : FactBefore(h, f)
                BY <3>2, <3>4, <4>1
            <4>8. q = Reference!Ingest(u, AsScenarioFact(f), {})
                BY <1>10, <4>2, <4>3, <4>4, <4>7, FedGrows
            <4>9. /\ IsReferee(q) /\ q.multiplier = u.multiplier /\ q.pending = u.pending
                  /\ q.seen = u.seen /\ q.restatements = u.restatements
                BY <3>1, <3>2, <4>6, <4>8, RefereeFoldsTwin
            <4>10. Cardinality(UpdatesTo(c, n + 1)) = Cardinality(UpdatesTo(c, n)) + 1
                BY <1>13, <3>3
            <4>11. \A key \in q.seen : key[1] \in 1..(n + 1)
                BY <1>17, <3>2, <4>6, <4>9
            <4> QED
                BY <1>7, <3>1, <4>6, <4>9, <4>10, <4>11 DEF Follows, ScheduleOf, after
        <3>5. CASE logs = {l, f}
            <4>1. \A h \in S : FactBefore(h, l) /\ FactBefore(h, f) /\ h # l /\ h # f
                BY <1>6, <3>2
            <4> QED
                BY <1>7, <3>4, <3>5, <4>1 DEF r
        <3>6. CASE \E g : logs = {g, l, f} /\ g.kind = "CANCELLED" /\ g.log = 0
            <4>1. PICK g : logs = {g, l, f} /\ g.kind = "CANCELLED" /\ g.log = 0
                BY <3>6
            <4>2. PICK T : T = S \cup {g}
                OBVIOUS
            <4>3. PICK t : t = Fed(T)
                OBVIOUS
            <4>4. g \in logs /\ FactBefore(g, l) /\ FactBefore(g, f) /\ g # l /\ g # f
                BY <1>4, <3>1, <3>2, <4>1 DEF FactBefore
            <4>5. T \in SUBSET (S \cup logs) /\ T \cup {l, f} = S \cup logs
                BY <4>1, <4>2
            <4>6. Readable(T)
                BY <1>5, <4>5, SomeReadable DEF S
            <4>7. \A h \in S : h # g /\ FactBefore(h, g)
                BY <1>6, <4>4
            <4>8. t = Reference!Ingest(r, AsScenarioFact(g), {})
                BY <4>2, <4>3, <4>6, <4>7, FedGrows DEF r
            <4>9. IsReferee(t) /\ t.seen = r.seen /\ t.restatements = r.restatements
                BY <1>7, <4>1, <4>8, RefereeCancels
            <4>10. l \notin T /\ f \notin T /\ \A h \in T : FactBefore(h, l) /\ FactBefore(h, f)
                BY <1>6, <3>2, <4>2, <4>4
            <4> QED
                BY <3>4, <4>3, <4>5, <4>9, <4>10
        <3> QED
            BY <3>1, <3>5, <3>6
    <2> QED
        BY <1>8, <2>1, <2>2, <2>3, <2>4
<1> QED
    BY <1>3, <1>5, <1>10, <1>19 DEF S

\* The logs of the first n blocks are read and fed to the same end.
LEMMA FeedingFollows ==
    ASSUME NEW c, NEW top, Grown(c, top), NEW b, NEW n \in 0..top
    PROVE  /\ Readable(LogsTo(c, n))
           /\ Follows(c, Fed(LogsTo(c, n)), n, ReadTo(c, n, b).epochs)
<1> DEFINE Good(m) == /\ Readable(LogsTo(c, m))
                      /\ Follows(c, Fed(LogsTo(c, m)), m, ReadTo(c, m, b).epochs)
           D == {m \in 0..top : ~Good(m)}
<1>0. top \in Nat
    BY DEF Grown
<1>1. Good(0)
    <2>1. LogsTo(c, 0) = {} /\ CountedTo(c, 0) = {} /\ UpdatesTo(c, 0) = {}
        BY DEF LogsTo, CountedTo, UpdatesTo
    <2>2. Readable({}) /\ Cardinality({}) = 0
        BY FS_EmptySet DEF Readable
    <2>3. ReadTo(c, 0, b).epochs = <<>>
        <3>1. Read({}, Seed, b).epochs = <<>>
            BY ReadNothing DEF Unread
        <3> QED
            BY <2>1, <3>1 DEF ReadTo
    <2>4. IsReferee(Reference!FreshState) /\ Reference!FreshState.pending = None
          /\ Reference!FreshState.seen = {} /\ Reference!FreshState.restatements = 0
        BY DEF IsReferee, Reference!FreshState
    <2>5. ScheduleOf(AssetIn(c, 0)) = None
        BY DEF ScheduleOf, AssetIn, Deployed
    <2> QED
        BY <2>1, <2>2, <2>3, <2>4, <2>5, FedNothing DEF Follows
<1>2. ASSUME NEW m \in Nat, m + 1 \in 1..top, Good(m) PROVE Good(m + 1)
    <2>1. m \in 0..top
        BY <1>0, <1>2
    <2>2. Readable(CountedTo(c, m)) /\ Tells(ReadTo(c, m, b), AssetIn(c, m))
        BY <2>1, ReadingTells
    <2>3. \/ ReadTo(c, m + 1, b).epochs = ReadTo(c, m, b).epochs
          \/ \E log \in c[m + 1].logs : log.kind = "LEGACY"
        BY <1>2, <2>2, BlockReads
    <2> QED
        BY <1>2, <2>3, BlockIsFed
<1> HIDE DEF Good
<1>3. D = {}
    <2> SUFFICES ASSUME D # {} PROVE FALSE
        OBVIOUS
    <2>1. D \in SUBSET Nat
        BY <1>0
    <2>2. PICK m \in D : \A k \in D : m <= k
        BY <2>1, MinIsReached
    <2>3. m # 0 /\ m \in Nat /\ m \in 1..top
        BY <1>0, <1>1, <2>2
    <2>4. m - 1 \in Nat /\ m - 1 \in 0..top /\ (m - 1) + 1 = m /\ ~(m <= m - 1)
        BY <1>0, <2>3
    <2>5. Good(m - 1)
        BY <2>2, <2>4
    <2>6. Good((m - 1) + 1)
        BY <1>2, <2>3, <2>4, <2>5
    <2> QED
        BY <2>2, <2>4, <2>6
<1>4. Good(n)
    BY <1>3
<1> QED
    BY <1>4 DEF Good

\* What the reducer and the reference answer at the cursor, on the branch that is held.
LEMMA BothAgree == IInv => ReferenceAgrees
<1> SUFFICES ASSUME IInv PROVE ReferenceAgrees
    OBVIOUS
<1>1. PICK held : Branch(held)
    BY DEF IInv
<1> DEFINE last == cursor.last
           asset == AssetIn(held, last)
           folded == Folded(Facts)
           state == Fed(Facts)
           derived == Derived(last)
<1>2. Grown(held, last) /\ last \in Nat /\ last \in 0..last /\ Facts = LogsTo(held, last)
    BY <1>1 DEF Branch, Grown, LogsTo
<1>3. PICK b : b = (folded # {})
    OBVIOUS
<1>4. PICK s : s = Read(UpTo(Facts \ folded, last), Seed, folded # {})
    OBVIOUS
<1>5. s = ReadTo(held, last, b)
    BY <1>2, <1>3, <1>4, ReadsUpTo DEF ReadTo
<1>6. IsReading(s) /\ s.active = asset.multiplier /\ s.pending = ScheduleOf(asset)
    BY <1>2, <1>5, ReadingTells DEF Tells
<1>7. /\ state.pending = ScheduleOf(asset)
      /\ s.epochs # <<>> => state.multiplier = asset.multiplier
      /\ state.restatements = Cardinality({fact \in Facts : fact.kind = "UPDATED"})
    BY <1>2, <1>5, FeedingFollows DEF Follows, UpdatesTo
<1>8. /\ derived.active = MultiplierOf(asset, last)
      /\ derived.pending = IF asset.effectiveAt > last
                           THEN [value |-> asset.newMultiplier, at |-> asset.effectiveAt]
                           ELSE None
    BY <1>2, DerivedIs
<1>9. derived.epochs = Activated(s, last).epochs
    <2>1. Live.currentMultiplier = "LIVE"
        BY DEF Live
    <2> QED
        BY <1>4, <2>1 DEF Derived, ReduceB20Lifecycle, Result
<1>10. asset \in AssetSet
    <2>1. last = 0 \/ last \in 1..last
        BY <1>2
    <2> QED
        BY <1>2, <2>1, DeployedTyped DEF AssetIn, Grown
<1>11. asset.effectiveAt \in Nat /\ asset.newMultiplier \in Values \cup {0}
    BY <1>10 DEF AssetSet
<1> HIDE DEF asset, folded, state, derived, last
<1>12. /\ Reference!PendingLive(state, last) <=> derived.pending # None
       /\ derived.epochs # <<>> => Reference!MultiplierAt(state, last) = derived.active
    <2>1. CASE asset.effectiveAt = 0
        <3>1. s.pending = None /\ state.pending = None
            BY <1>6, <1>7, <2>1 DEF ScheduleOf
        <3>2. derived.pending = None /\ derived.active = asset.multiplier
            BY <1>2, <1>8, <2>1 DEF MultiplierOf
        <3>3. derived.epochs = s.epochs
            BY <1>9, <3>1 DEF Activated
        <3>4. Reference!MultiplierAt(state, last) = state.multiplier
              /\ ~Reference!PendingLive(state, last)
            BY <3>1 DEF Reference!MultiplierAt, Reference!PendingLive
        <3> QED
            BY <1>7, <3>2, <3>3, <3>4
    <2>2. CASE asset.effectiveAt # 0
        <3>1. /\ state.pending = [value |-> asset.newMultiplier, at |-> asset.effectiveAt]
              /\ s.pending = state.pending /\ state.pending # None
              /\ state.pending.at = asset.effectiveAt
              /\ state.pending.value = asset.newMultiplier
            BY <1>6, <1>7, <1>11, <2>2, Bounds DEF ScheduleOf
        <3>2. CASE last < asset.effectiveAt
            <4>1. Activated(s, last) = [s EXCEPT !.reasons = @ \cup {"B20_SCHEDULE_NOT_YET_EFFECTIVE"}]
                BY <3>1, <3>2 DEF Activated
            <4>2. derived.epochs = s.epochs
                BY <1>6, <1>9, <4>1 DEF IsReading
            <4>3. derived.active = asset.multiplier /\ derived.pending = state.pending
                BY <1>2, <1>8, <1>11, <3>1, <3>2 DEF MultiplierOf
            <4>4. Reference!MultiplierAt(state, last) = state.multiplier
                  /\ Reference!PendingLive(state, last)
                BY <1>2, <1>11, <3>1, <3>2 DEF Reference!MultiplierAt, Reference!PendingLive
            <4> QED
                BY <1>7, <3>1, <4>2, <4>3, <4>4
        <3>3. CASE ~(last < asset.effectiveAt)
            <4>1. derived.active = asset.newMultiplier /\ derived.pending = None
                BY <1>2, <1>8, <1>11, <2>2, <3>3 DEF MultiplierOf
            <4>2. Reference!MultiplierAt(state, last) = asset.newMultiplier
                  /\ ~Reference!PendingLive(state, last)
                BY <1>2, <1>11, <3>1, <3>3 DEF Reference!MultiplierAt, Reference!PendingLive
            <4> QED
                BY <4>1, <4>2
        <3> QED
            BY <3>2, <3>3
    <2> QED
        BY <2>1, <2>2
<1> QED
    BY <1>7, <1>12 DEF ReferenceAgrees, state, derived, last

\* ReferenceAgrees: the reducer and the reference integration, two implementations that share
\* nothing, make the same of the facts that still count, on the chain or off it.
THEOREM ImplementationsAgree == ~Unseen => (Spec => []ReferenceAgrees)
<1> SUFFICES ASSUME ~Unseen PROVE Spec => []ReferenceAgrees
    OBVIOUS
<1> QED
    BY TrackingInvariant, BothAgree, PTL

-----------------------------------------------------------------------------
\* A tip that is still the chain's has the chain's logs below it.
LEMMA TipHeld ==
    ASSUME IInv, TipAgrees
    PROVE  ChainHolds /\ cursor.last \in 0..Height /\ Facts = LogsTo(blocks, cursor.last)
<1>1. ChainHolds /\ cursor.last \in Nat /\ Height \in Nat
    BY DEF IInv, ChainHolds, CursorHolds
<1>2. PICK held : Branch(held)
    BY DEF IInv
<1>3. cursor.last \in 0..Height
    BY <1>1 DEF TipAgrees
<1>4. \A n \in 1..cursor.last : held[n] = blocks[n]
    <2>1. CASE cursor.last = 0
        BY <2>1
    <2>2. CASE cursor.last # 0
        <3>1. cursor.last \in 1..cursor.last /\ cursor.last \in 1..Height
            BY <1>1, <1>3, <2>2
        <3>2. Ref(cursor.last) \in cursor.recent
            BY <2>2 DEF TipAgrees
        <3>3. Ref(cursor.last).number = cursor.last
              /\ Ref(cursor.last).hash = blocks[cursor.last].hash
            BY DEF Ref
        <3>4. Ref(cursor.last) = [number |-> cursor.last, hash |-> held[cursor.last].hash]
            BY <1>2, <3>2, <3>3 DEF Branch
        <3>5. held[cursor.last].hash = blocks[cursor.last].hash
            BY <3>3, <3>4
        <3> QED
            BY <1>2, <3>1, <3>5 DEF Branch
    <2> QED
        BY <2>1, <2>2
<1> QED
    BY <1>1, <1>2, <1>3, <1>4 DEF Branch, LogsTo

LEMMA DerivedIsContracts == IInv => DerivedFollowsChain
<1> SUFFICES ASSUME IInv, TipAgrees, NEW n \in 1..cursor.last
             PROVE  LET derived == Derived(n)
                        asset == AssetAt(n)
                    IN  /\ derived.active = MultiplierOf(asset, n)
                        /\ derived.pending =
                              IF asset.effectiveAt > n
                              THEN [value |-> asset.newMultiplier, at |-> asset.effectiveAt]
                              ELSE None
    BY DEF DerivedFollowsChain
<1>1. ChainHolds /\ cursor.last \in 0..Height /\ Facts = LogsTo(blocks, cursor.last)
    BY TipHeld
<1>2. n \in 0..cursor.last
    OBVIOUS
<1>3. AssetAt(n) = AssetIn(blocks, n)
    BY DEF AssetAt, AssetIn
<1> QED
    BY <1>1, <1>2, <1>3, ChainGrown, DerivedIs

\* DerivedFollowsChain: what is derived from the facts for any block up to a tip that is still
\* the chain's is what the contract had there, whatever was replaced, refused and read again.
THEOREM MultipliersFollowChain == ~Unseen => (Spec => []DerivedFollowsChain)
<1> SUFFICES ASSUME ~Unseen PROVE Spec => []DerivedFollowsChain
    OBVIOUS
<1> QED
    BY TrackingInvariant, DerivedIsContracts, PTL


-----------------------------------------------------------------------------
\* The operational state.

\* The first concern with something to say: the ones before it have nothing to say.
LEMMA FirstConcern ==
    ASSUME NEW from, NEW e, NEW k \in 1..5,
           <<Urgent(from, e), FromCase(from, e), FromSchedule(from, e), FromEvidence(from, e),
             Agreed(from)>>[k].to # None
    PROVE  \E i \in 1..k :
              LET concerns == <<Urgent(from, e), FromCase(from, e), FromSchedule(from, e),
                                FromEvidence(from, e), Agreed(from)>>
              IN  /\ Wanted(from, e) = concerns[i] /\ concerns[i].to # None
                  /\ \A j \in 1..(i - 1) : concerns[j].to = None
<1> DEFINE concerns == <<Urgent(from, e), FromCase(from, e), FromSchedule(from, e),
                         FromEvidence(from, e), Agreed(from)>>
           speaking == {i \in 1..5 : concerns[i].to # None}
<1>1. k \in speaking
    OBVIOUS
<1>2. Min(speaking) \in speaking /\ \A j \in speaking : Min(speaking) <= j
    BY <1>1, MinIsReached, speaking \in SUBSET Nat
<1>3. Wanted(from, e) = concerns[Min(speaking)]
    <2>1. Len(concerns) = 5
        OBVIOUS
    <2>2. speaking = {i \in 1..Len(concerns) : concerns[i].to # None}
        BY <2>1
    <2> HIDE DEF speaking
    <2> QED
        BY <1>1, <2>2 DEF Wanted, SelectInSeq
<1> HIDE DEF concerns
<1>4. Min(speaking) \in 1..k
    BY <1>1, <1>2
<1>5. \A j \in 1..(Min(speaking) - 1) : concerns[j].to = None
    BY <1>2, <1>4
<1> QED
    BY <1>2, <1>3, <1>4, <1>5 DEF concerns

LEMMA LegalStates == \A from \in States : LegalFrom(from) \in SUBSET States
BY DEF States, LegalFrom


MachineOK == machine \in States

LEMMA MachineStep ==
    ASSUME MachineOK, [Next]_vars
    PROVE  MachineOK'
<1> USE DEF MachineOK
<1>1. CASE Evaluate
    <2>1. PICK e : machine' = NextB20State(machine, e)
        BY <1>1 DEF Evaluate
    <2>2. CASE Throws(machine, e)
        BY <2>1, <2>2 DEF NextB20State
    <2>3. CASE ~Throws(machine, e)
        BY <2>1, <2>3, LegalStates DEF NextB20State, Throws, IsLegalTransition
    <2> QED
        BY <2>2, <2>3
<1>2. CASE ~Evaluate
    BY <1>2 DEF Next, Mine, Replace, MineOn, Index, vars
<1> QED
    BY <1>1, <1>2

LEMMA MachineTyped == Spec => []MachineOK
<1>1. Init => MachineOK
    BY DEF Init, States, MachineOK
<1>2. MachineOK /\ [Next]_vars => MachineOK'
    BY MachineStep
<1> QED
    BY <1>1, <1>2, PTL DEF Spec

\* While the cursor's tip is the chain's, every reading of a schedule still ahead is the
\* contract's: the facts hold it, and so does the contract when it can be asked.
LEMMA PendingIsContracts ==
    ASSUME IInv, InsideWindow, NEW flaws, NEW pendingAt \in PendingReads(flaws)
    PROVE  pendingAt = AssetAt(cursor.last).effectiveAt
<1> DEFINE last == cursor.last
           asset == AssetAt(last)
           at(schedule) == IF schedule = None THEN None ELSE schedule.at
           read == ReadScheduledUpdate(Session(flaws), asset)
           schedule == [value |-> asset.newMultiplier, at |-> asset.effectiveAt]
<1>1. ChainHolds /\ last \in 0..Height /\ Facts = LogsTo(blocks, last) /\ asset.effectiveAt > last
      /\ Height \in Nat
    BY TipHeld DEF InsideWindow, ChainHolds
<1>2. asset = AssetIn(blocks, last)
    BY DEF AssetAt, AssetIn
<1>3. asset \in AssetSet
    <2>1. last = 0 \/ last \in 1..Height
        BY <1>1
    <2> QED
        BY <1>1, <1>2, <2>1, DeployedTyped DEF AssetIn, ChainHolds
<1>4. schedule # None /\ asset.effectiveAt # 0
    <2>1. schedule \in [value : Values \cup {0}, at : Nat]
        BY <1>3 DEF AssetSet
    <2> QED
        BY <1>1, <2>1, Bounds
<1>5. Derived(last).pending = schedule
    <2>1. last \in 0..last
        BY <1>1
    <2> QED
        BY <1>1, <1>2, <2>1, ChainGrown, DerivedIs
<1>6. read.ok => read.value = schedule
    BY <1>4 DEF ReadScheduledUpdate, Reads, Ok, Failed
<1>7. at(schedule) = asset.effectiveAt
    BY <1>4
<1>8. pendingAt = at(Derived(last).pending) \/ (read.ok /\ pendingAt = at(read.value))
    BY DEF PendingReads
<1> HIDE DEF schedule, asset, read, at
<1> QED
    BY <1>5, <1>6, <1>7, <1>8 DEF asset, last

\* Nothing that is looked at before the evidence leads to NORMAL or to VERIFIED while a
\* schedule is inside its window.
LEMMA WindowConcerns ==
    ASSUME NEW from, NEW e,
           e.pendingAt \in Nat, e.time \in Nat, e.pendingAt > e.time,
           e.pendingAt - e.time <= e.guardWindow, e.guardWindow \in Nat
    PROVE  /\ Urgent(from, e).to \notin {"NORMAL", "VERIFIED"}
           /\ FromCase(from, e).to \notin {"NORMAL", "VERIFIED"}
           /\ FromSchedule(from, e).to \in {"GUARD_WINDOW", "ACTION_PENDING"}
<1>0. None \notin {"NORMAL", "VERIFIED"}
    BY Bounds DEF States
<1>1. Urgent(from, e).to \notin {"NORMAL", "VERIFIED"}
    BY <1>0 DEF Urgent, Toward, Prefer
<1>2. FromCase(from, e).to \notin {"NORMAL", "VERIFIED"}
    BY <1>0 DEF FromCase, Toward, Prefer
<1>3. FromSchedule(from, e).to \in {"GUARD_WINDOW", "ACTION_PENDING"}
    BY Bounds DEF FromSchedule, Toward, Prefer
<1> QED
    BY <1>1, <1>2, <1>3

LEMMA WindowStep ==
    ASSUME IInv, [Next]_vars
    PROVE  [InsideWindow => machine' \notin {"NORMAL", "VERIFIED"}]_machine
<1> SUFFICES ASSUME InsideWindow, machine' # machine
             PROVE  machine' \notin {"NORMAL", "VERIFIED"}
    OBVIOUS
<1>1. Evaluate
    BY DEF Next, Mine, Replace, MineOn, Index, vars
<1>2a. PICK flaws \in FlawSets : \E pendingAt \in PendingReads(flaws) :
            machine' = NextB20State(machine, Evidence(flaws, pendingAt))
    BY <1>1 DEF Evaluate
<1>2. PICK pendingAt \in PendingReads(flaws) :
            machine' = NextB20State(machine, Evidence(flaws, pendingAt))
    BY <1>2a
<1> DEFINE e == Evidence(flaws, pendingAt)
<1>3. machine' = Wanted(machine, e).to
    BY <1>2 DEF NextB20State
<1>4. e.pendingAt = pendingAt /\ e.time = cursor.last /\ e.guardWindow = GuardWindow
    BY DEF Evidence
<1>5. pendingAt = AssetAt(cursor.last).effectiveAt
    BY PendingIsContracts
<1>6. /\ e.pendingAt \in Nat /\ e.time \in Nat /\ e.pendingAt > e.time
      /\ e.pendingAt - e.time <= e.guardWindow /\ e.guardWindow \in Nat
    <2>1. cursor.last \in 0..Height /\ Height \in Nat
        BY TipHeld DEF InsideWindow, ChainHolds
    <2>2. AssetAt(cursor.last) \in AssetSet
        <3>1. cursor.last = 0 \/ cursor.last \in 1..Height
            BY <2>1
        <3> QED
            BY <3>1, DeployedTyped DEF AssetAt, IInv, ChainHolds
    <2> QED
        BY <1>4, <1>5, <2>1, <2>2, Bounds DEF InsideWindow, AssetSet
<1> HIDE DEF e
<1>7. /\ Urgent(machine, e).to \notin {"NORMAL", "VERIFIED"}
      /\ FromCase(machine, e).to \notin {"NORMAL", "VERIFIED"}
      /\ FromSchedule(machine, e).to \in {"GUARD_WINDOW", "ACTION_PENDING"}
    BY <1>6, WindowConcerns
<1>8. FromSchedule(machine, e).to # None
    BY <1>7, Bounds DEF States
<1>9. \E i \in 1..3 : Wanted(machine, e) = <<Urgent(machine, e), FromCase(machine, e),
                FromSchedule(machine, e), FromEvidence(machine, e), Agreed(machine)>>[i]
    BY <1>8, FirstConcern
<1> QED
    BY <1>3, <1>7, <1>9

\* WindowIsHeld: inside the window before an activation no evaluation arrives at NORMAL or
\* VERIFIED, for any length of the window and whatever is missing from the evidence.
THEOREM WindowStaysHeld == ~Unseen => (Spec => WindowIsHeld)
<1> SUFFICES ASSUME ~Unseen PROVE Spec => WindowIsHeld
    OBVIOUS
<1>1. IInv /\ [Next]_vars => [InsideWindow => machine' \notin {"NORMAL", "VERIFIED"}]_machine
    BY WindowStep
<1> QED
    BY <1>1, TrackingInvariant, PTL DEF Spec, WindowIsHeld

\* A reading that cannot be made, and a capability that is not there, are told.
LEMMA ReadsTell ==
    ASSUME NEW flaws, NEW pendingAt
    PROVE  LET e == Evidence(flaws, pendingAt)
           IN  /\ "unreachable" \in flaws => ~e.rpcReachable
               /\ "undialed" \in flaws => e.scheduledUpdates # "LIVE"
               /\ "paused" \in flaws /\ e.rpcReachable => e.tokenPaused
<1> DEFINE e == Evidence(flaws, pendingAt)
           session == Session(flaws)
           read == ReadAssetState(session, TokenState(flaws))
<1>1. e.rpcReachable = read.ok /\ e.tokenPaused = (read.ok /\ read.value.paused)
      /\ e.scheduledUpdates = (IF ProbeCapabilities(session).scheduledUpdatesLive
                               THEN "LIVE" ELSE "NOT_DIALED")
    BY DEF Evidence
<1>2. session.replies = Replies(flaws)
    BY DEF Session
<1>3. ASSUME "unreachable" \in flaws PROVE ~read.ok
    <2>1. "name" \in StateReads
        BY DEF StateReads
    <2>2. session.replies["name"] = "silent"
        BY <1>2, <1>3, <2>1 DEF Replies
    <2>3. {name \in StateReads : session.replies[name] # "value"} # {}
        BY <2>1, <2>2
    <2> HIDE DEF session
    <2>4. ~Reads(session, StateReads, TokenState(flaws)).ok
        BY <2>3 DEF Reads, Failed
    <2> QED
        BY <2>4 DEF ReadAssetState
<1>4. ASSUME "undialed" \in flaws PROVE ~ProbeCapabilities(session).scheduledUpdatesLive
    <2>1. "effectiveAt" \in DOMAIN Surface
        BY DEF Surface
    <2>2. session.replies["effectiveAt"] \in {"silent", "selector"}
        BY <1>2, <1>4, <2>1 DEF Replies
    <2>3. Probes(session)["effectiveAt"] \in {"UNAVAILABLE", "NOT_DIALED"}
        BY <2>1, <2>2 DEF Probes, ClassifyProbe
    <2> HIDE DEF session
    <2> QED
        BY <2>3 DEF ProbeCapabilities, SummarizeCapabilities
<1>5. ASSUME "paused" \in flaws, read.ok PROVE read.value.paused
    <2>1. TokenState(flaws).paused
        BY <1>5 DEF TokenState
    <2>2. read = Reads(session, StateReads, TokenState(flaws))
        BY <1>5 DEF ReadAssetState, Failed
    <2> HIDE DEF session
    <2> QED
        BY <1>5, <2>1, <2>2 DEF Reads, Ok, Failed
<1> HIDE DEF e, session, read
<1>6. /\ "unreachable" \in flaws => ~e.rpcReachable
      /\ "undialed" \in flaws => e.scheduledUpdates # "LIVE"
      /\ "paused" \in flaws /\ e.rpcReachable => e.tokenPaused
    BY <1>1, <1>3, <1>4, <1>5
<1> QED
    BY <1>6 DEF e

\* Nothing but the last concern leads to VERIFIED.
LEMMA OnlyAgreedVerifies ==
    ASSUME NEW from, NEW e
    PROVE  /\ Urgent(from, e).to # "VERIFIED"
           /\ FromCase(from, e).to # "VERIFIED"
           /\ FromSchedule(from, e).to # "VERIFIED"
           /\ FromEvidence(from, e).to # "VERIFIED"
<1>1. None # "VERIFIED"
    BY Bounds DEF States
<1>2. Urgent(from, e).to # "VERIFIED"
    BY <1>1 DEF Urgent, Toward, Prefer
<1>3. FromCase(from, e).to # "VERIFIED"
    BY <1>1 DEF FromCase, Toward, Prefer
<1>4. FromSchedule(from, e).to # "VERIFIED"
    BY <1>1 DEF FromSchedule, Toward, Prefer
<1>5. FromEvidence(from, e).to # "VERIFIED"
    BY <1>1 DEF FromEvidence, Toward, Prefer
<1> QED
    BY <1>2, <1>3, <1>4, <1>5

\* With a hole in the evidence either the first concern or the fourth speaks.
LEMMA HolesAreTold ==
    ASSUME NEW from \in States, NEW flaws, NEW pendingAt, Holes \cap flaws # {}
    PROVE  LET e == Evidence(flaws, pendingAt)
           IN  Urgent(from, e).to # None \/ FromEvidence(from, e).to # None
<1> DEFINE e == Evidence(flaws, pendingAt)
<1>1. /\ e.assetIsFixture = ("fixture" \in flaws)
      /\ e.assetVerified = (IF "unknownAsset" \in flaws THEN None
                            ELSE IF "unlisted" \in flaws THEN "no" ELSE "yes")
      /\ e.blocksComparable = ("incomparable" \notin flaws)
      /\ e.openIncident = ("incident" \in flaws)
      /\ e.pairingReviewed = ("unreviewed" \notin flaws)
      /\ e.feedVerdict = (IF "noRound" \in flaws THEN None
                          ELSE IF "stale" \in flaws THEN "STALE" ELSE "FRESH")
    BY DEF Evidence
<1>2. /\ "unreachable" \in flaws => ~e.rpcReachable
      /\ "undialed" \in flaws => e.scheduledUpdates # "LIVE"
      /\ "paused" \in flaws /\ e.rpcReachable => e.tokenPaused
    BY ReadsTell
<1> HIDE DEF e
<1>3. ASSUME NEW to \in States PROVE to # None
    BY Bounds
<1>4. Urgent(from, e).to = None =>
         /\ ~e.assetIsFixture /\ e.assetVerified # None /\ e.assetVerified # "no"
         /\ e.rpcReachable /\ e.blocksComparable /\ ~e.openIncident
    BY <1>3 DEF Urgent, Toward, Prefer, States
<1>5. FromEvidence(from, e).to = None =>
         e.scheduledUpdates = "LIVE" /\ ~e.tokenPaused /\ e.pairingReviewed
         /\ e.feedVerdict = "FRESH"
    BY <1>3 DEF FromEvidence, Toward, Prefer, States
<1>6. None # "FRESH"
    BY Bounds
<1>7. Urgent(from, e).to # None \/ FromEvidence(from, e).to # None
    BY <1>1, <1>2, <1>4, <1>5, <1>6 DEF Holes
<1> QED
    BY <1>7 DEF e

LEMMA HolesDoNotVerify ==
    ASSUME NEW from \in States, NEW flaws, NEW pendingAt, Holes \cap flaws # {},
           from # "VERIFIED"
    PROVE  NextB20State(from, Evidence(flaws, pendingAt)) # "VERIFIED"
<1> DEFINE e == Evidence(flaws, pendingAt)
           concerns == <<Urgent(from, e), FromCase(from, e), FromSchedule(from, e),
                         FromEvidence(from, e), Agreed(from)>>
<1>1. concerns[1].to # None \/ concerns[4].to # None
    BY HolesAreTold
<1> HIDE DEF e
<1>2. PICK k \in {1, 4} : concerns[k].to # None
    BY <1>1
<1>3. PICK i \in 1..k : Wanted(from, e) = concerns[i]
    BY <1>2, FirstConcern
<1>4. Wanted(from, e).to # "VERIFIED"
    BY <1>3, OnlyAgreedVerifies
<1>5. NextB20State(from, e) # "VERIFIED"
    BY <1>4 DEF NextB20State
<1> QED
    BY <1>5 DEF e

\* VerifiedIsComplete: no state is left for VERIFIED on evidence with a hole in it, whatever
\* schedule is read and whatever else is missing.
THEOREM VerifiedOnWholeEvidence == Spec => []VerifiedIsComplete
<1>1. ASSUME MachineOK PROVE VerifiedIsComplete
    <2> SUFFICES ASSUME IsLegalTransition(machine, "VERIFIED"),
                        NEW hole \in Holes, NEW others \in FlawSets,
                        NEW pendingAt \in PendingReads(others \cup {hole})
                 PROVE  NextB20State(machine, Evidence(others \cup {hole}, pendingAt))
                            # "VERIFIED"
        BY DEF VerifiedIsComplete
    <2>1. machine # "VERIFIED"
        BY DEF IsLegalTransition, LegalFrom
    <2>2. Holes \cap (others \cup {hole}) # {}
        OBVIOUS
    <2> QED
        BY <1>1, <2>1, <2>2, HolesDoNotVerify DEF MachineOK
<1> QED
    BY <1>1, MachineTyped, PTL

=============================================================================
