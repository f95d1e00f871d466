----------------------------- MODULE EquityLedger -----------------------------
(***************************************************************************)
(* The position ledger: entries folded from what an indexer delivers, in   *)
(* any order, more than once and under new entry ids, with restatements    *)
(* that move no raw unit and corrections that are entries of their own.    *)
(*   packages/equity-ledger/src/postings.ts                                *)
(*                                                                         *)
(* One asset.  The chain's history is the reference: a sequence of facts,  *)
(* one to a block; a movement has a transaction, an activation has none.   *)
(***************************************************************************)
EXTENDS B20Quantities, Sequences, FiniteSets, FiniteSetsExt, Functions, TLC

CONSTANTS
    None, Holders, Issuance,
    RawAmounts, Multipliers,
    Total,              \* the total-return price, constant across a compensated split
    MaxFacts, MaxDeliveries, MaxMistakes    \* bounds

\* Supply and multiplier are capped at type(uint128).max on chain, and a uint256
\* holds their product (arithmetic.ts:86, quantities.ts:41-45).
ASSUME LedgerAssumption ==
    /\ IsFiniteSet(Holders) /\ Issuance \notin Holders
    /\ None \notin Int
    /\ RawAmounts \subseteq 1..MaxRaw /\ Multipliers \subseteq 1..MaxRaw
    /\ Wad <= MaxRaw /\ MaxRaw * MaxRaw <= MaxProduct
    /\ Total \in Nat
    /\ MaxFacts \in Nat /\ MaxDeliveries \in Nat /\ MaxMistakes \in Nat

VARIABLES
    facts,      \* what happened on the chain
    inbox       \* the entries delivered so far

vars == <<facts, inbox>>

Accounts == Holders \cup {Issuance}

Init == facts = << >> /\ inbox = << >>

-----------------------------------------------------------------------------
(* The chain.                                                              *)

\* What a movement does to a balance.
Effect(fact, account) ==
    (IF fact.to = account THEN fact.amount ELSE 0)
    - (IF fact.from = account THEN fact.amount ELSE 0)

\* Balances after the first n facts; the issuance account is the boundary.
RawAt(account, n) ==
    SumFunction([i \in {j \in 1..n : facts[j].kind = "movement"} |-> Effect(facts[i], account)])

MultiplierAt(n) ==
    LET changes == {i \in 1..n : facts[i].kind = "activation"}
    IN  IF changes = {} THEN Wad ELSE facts[Max(changes)].multiplier

-----------------------------------------------------------------------------
(* Entries.                                                                *)

Posting(account, raw, shares, priced) ==
    [account |-> account, raw |-> raw, shares |-> shares, priced |-> priced,
     value |-> IF priced THEN raw * Total ELSE 0]

MovementKind(fact) ==
    CASE fact.from = Issuance -> "RECEIVE" [] fact.to = Issuance -> "SEND"
      [] OTHER -> "INTERNAL_TRANSFER"

\* The indexer posts a movement in the shares of its block.
Movement(id, n, priced) ==
    LET fact == facts[n]
        shares == RawToShares(fact.amount, MultiplierAt(n)).shares
    IN  [id |-> id, kind |-> MovementKind(fact), block |-> n, tx |-> n, log |-> 0,
         postings |-> {Posting(fact.from, -fact.amount, -shares, priced),
                       Posting(fact.to, fact.amount, shares, priced)},
         multiplier |-> None, corrects |-> None, classification |-> "VERIFIED"]

BuildRestatement(id, holder, n, before, after, multiplier, classification) ==
    [id |-> id, kind |-> "CORPORATE_ACTION_RESTATEMENT", block |-> n, tx |-> None, log |-> 0,
     postings |-> {Posting(holder, 0, after - before, FALSE),
                   Posting(Issuance, 0, before - after, FALSE)},
     multiplier |-> multiplier, corrects |-> None, classification |-> classification]

Restatement(id, holder, n, multiplier, classification) ==
    LET raw == RawAt(holder, n)
    IN  BuildRestatement(id, holder, n, RawToShares(raw, MultiplierAt(n - 1)).shares,
                         RawToShares(raw, multiplier).shares, multiplier, classification)

Opposite(p) ==
    [p EXCEPT !.raw = -@, !.shares = -@, !.value = -@]

\* Everything else is the original's, its transaction, time and classification included.
BuildCorrection(original, id) ==
    [original EXCEPT !.id = id, !.kind = "CORRECTION", !.corrects = original.id,
                     !.postings = {Opposite(p) : p \in @}]

\* The violations of one entry.
AssertBalanced(e) ==
    (IF e.postings = {} THEN {"EMPTY_ENTRY"} ELSE {})
    \cup (IF SumFunction([p \in e.postings |-> p.raw]) # 0 THEN {"RAW_UNITS_NOT_BALANCED"} ELSE {})
    \cup (IF e.kind = "CORPORATE_ACTION_RESTATEMENT" /\ \E p \in e.postings : p.raw # 0
          THEN {"RESTATEMENT_MOVED_RAW_UNITS"} ELSE {})
    \cup (IF e.kind # "CORPORATE_ACTION_RESTATEMENT" /\ SumFunction([p \in e.postings |-> p.shares]) # 0
          THEN {"SHARES_NOT_BALANCED"} ELSE {})
    \cup (IF e.kind = "CORRECTION" /\ e.corrects = None THEN {"CORRECTION_WITHOUT_TARGET"} ELSE {})
    \cup (IF Cardinality({p.account : p \in e.postings}) # Cardinality(e.postings)
          THEN {"DUPLICATE_POSTING_IDENTITY"} ELSE {})

CheckConservation(entries) ==
    /\ \A e \in entries : AssertBalanced(e) = {}
    /\ SumFunction([e \in entries |-> SumFunction([p \in e.postings |-> p.raw])]) = 0

\* Mutant: the identifier of the delivery.
EntryIdentity(e) == <<e.id>>

\* The fact on the chain; a restatement has no transaction and is known by what it restates.
MovementIdentity(e) ==
    IF e.tx # None THEN <<e.block, e.tx, e.log>>
    ELSE <<e.kind, e.block, e.multiplier, {p.account : p \in e.postings}>>

\* The first delivery of every identity.
DedupeEntries(delivered) ==
    {delivered[i] : i \in {j \in DOMAIN delivered :
        \A k \in 1..j - 1 : MovementIdentity(delivered[k]) # MovementIdentity(delivered[j])}}

\* Mutant: whatever has been delivered.
Everything(entries, at) == entries

UpToTime(entries, at) == {e \in entries : e.block <= at}

\* Mutant: a partial sum.
SomePriced(postings) == \E p \in postings : p.priced

AllPriced(postings) == \A p \in postings : p.priced

PostingOf(e, account) == CHOOSE p \in e.postings : p.account = account

\* Order does not matter to a sum; a posting without a price leaves the value absent for good.
Position(entries, account) ==
    LET own == {e \in entries : \E p \in e.postings : p.account = account}
    IN  [raw    |-> SumFunction([e \in own |-> PostingOf(e, account).raw]),
         shares |-> SumFunction([e \in own |-> PostingOf(e, account).shares]),
         value  |-> IF own # {} /\ AllPriced({PostingOf(e, account) : e \in own})
                    THEN SumFunction([e \in own |-> PostingOf(e, account).value]) ELSE None,
         count  |-> Cardinality(own)]

ProjectPositions(delivered, at) ==
    [account \in Accounts |-> Position(UpToTime(DedupeEntries(delivered), at), account)]

-----------------------------------------------------------------------------
(* Actions.                                                                *)

Occurs(fact) ==
    /\ Len(facts) < MaxFacts
    /\ facts' = Append(facts, fact)
    /\ UNCHANGED inbox

\* The issuance account may owe the whole supply cap, a holder nothing.
Spendable(account) ==
    RawAt(account, Len(facts)) + (IF account = Issuance THEN MaxRaw ELSE 0)

Move ==
    \E from, to \in Accounts, amount \in RawAmounts :
        /\ from # to
        /\ Spendable(from) >= amount
        /\ Occurs([kind |-> "movement", from |-> from, to |-> to, amount |-> amount])

Activate ==
    \E m \in Multipliers \ {MultiplierAt(Len(facts))} :
        Occurs([kind |-> "activation", multiplier |-> m])

Receive(e) ==
    /\ Len(inbox) < MaxDeliveries
    /\ inbox' = Append(inbox, e)
    /\ UNCHANGED facts

NextId == Len(inbox) + 1

\* Any fact, again or for the first time, with safe price evidence or without.
DeliverMovement ==
    \E n \in DOMAIN facts, priced \in BOOLEAN :
        facts[n].kind = "movement" /\ Receive(Movement(NextId, n, priced))

DeliverRestatement ==
    \E n \in DOMAIN facts, holder \in Holders :
        /\ facts[n].kind = "activation"
        /\ Receive(Restatement(NextId, holder, n, facts[n].multiplier, "VERIFIED"))

Mistakes == {i \in DOMAIN inbox : inbox[i].classification = "CONFLICT"}

\* What evidence said and the chain did not.
PostMistake ==
    /\ Cardinality(Mistakes) < MaxMistakes
    /\ \E n \in DOMAIN facts, holder \in Holders :
        \/ \E m \in Multipliers \ {MultiplierAt(n)} :
                Receive(Restatement(NextId, holder, n, m, "CONFLICT"))
        \/ \E amount \in RawAmounts :
                Receive([id |-> NextId, kind |-> "RECEIVE", block |-> n, tx |-> 0,
                         log |-> 0, multiplier |-> None, corrects |-> None,
                         classification |-> "CONFLICT",
                         postings |-> {Posting(Issuance, -amount, -amount, FALSE),
                                       Posting(holder, amount, amount, FALSE)}])

\* Corrected once, by whoever noticed.
Correct ==
    \E i \in Mistakes :
        /\ inbox[i].kind # "CORRECTION"
        /\ \A j \in DOMAIN inbox : inbox[j].corrects # inbox[i].id
        /\ Receive(BuildCorrection(inbox[i], NextId))

Next == Move \/ Activate \/ DeliverMovement \/ DeliverRestatement \/ PostMistake \/ Correct

Spec == Init /\ [][Next]_vars

-----------------------------------------------------------------------------
(* Properties.                                                             *)

Delivered(n) ==
    IF facts[n].kind = "movement" THEN \E i \in DOMAIN inbox : inbox[i].tx = n
    ELSE \A h \in Holders : \E i \in DOMAIN inbox :
            /\ inbox[i].kind = "CORPORATE_ACTION_RESTATEMENT" /\ inbox[i].block = n
            /\ inbox[i].classification = "VERIFIED"
            /\ \E p \in inbox[i].postings : p.account = h

Corrected(i) == \E j \in DOMAIN inbox : inbox[j].corrects = inbox[i].id

\* Every fact up to a time has come at least once, and every mistake has been taken back; a
\* mistake with a transaction cannot be, see CorrectionSurvives.
Settled(at) ==
    /\ \A n \in 1..at : Delivered(n)
    /\ \A i \in Mistakes :
        inbox[i].tx = None /\ (inbox[i].kind = "CORRECTION" \/ Corrected(i))

\* However often, in whatever order and under whatever ids the entries came, a settled ledger
\* has the chain's raw balances at every time, the shares of those balances up to one unit
\* for each entry's floor, and conserves raw units
\* (packages/equity-ledger/src/postings.ts:371-436).
LedgerFollowsChain ==
    \A at \in 0..Len(facts) : Settled(at) =>
        /\ CheckConservation(DedupeEntries(inbox))
        /\ \A h \in Holders :
            LET position == ProjectPositions(inbox, at)[h]
            IN  /\ position.raw = RawAt(h, at)
                /\ Abs(position.shares - Shares(RawAt(h, at), MultiplierAt(at))) <= position.count

\* A value is the whole position's or absent, never the part that happened to be priced
\* (packages/equity-ledger/src/postings.ts:261-269).
ValueIsWhole ==
    \A at \in 0..Len(facts) : Settled(at) =>
        \A h \in Holders :
            LET position == ProjectPositions(inbox, at)[h]
            IN  position.value # None => position.value = RawAt(h, at) * Total

\* A query about a time in the past returns the same answer for ever: later facts and repeated
\* deliveries do not reach it (packages/equity-ledger/src/postings.ts:230-236).
PastIsFixed ==
    [][\A at \in 0..Len(facts) :
        Settled(at) /\ (inbox' = inbox \/ inbox'[Len(inbox')].classification = "VERIFIED") =>
            \A h \in Holders : ProjectPositions(inbox', at)[h] = ProjectPositions(inbox, at)[h]]_vars

\* What a holder has on the chain is worth the same along both routes up to the two floors
\* (packages/domain/src/b20/arithmetic.ts:255-292).
RoutesReconcile ==
    \A h \in Holders, decimals \in {0, 1} :
        LET raw == RawAt(h, Len(facts))
            m == MultiplierAt(Len(facts))
            total == [basis |-> TotalReturn, value |-> Total, decimals |-> decimals,
                      traced |-> TRUE, freshness |-> "FRESH"]
            result == DeriveValuation(raw, m, 0, total, {DerivedUnderlying(total, m)})
        IN  DerivedUnderlying(total, m).value > 0 =>
                result.agree = {TRUE} /\ result.actionable

\* A correction is a new entry that counts (packages/equity-ledger/src/postings.ts:20-21):
\* repeat deliveries are dropped and every distinct entry is kept (:424).  The code does
\* not keep this: a correction has its original's transaction, so it is taken for a repeat.
CorrectionSurvives ==
    \A i \in DOMAIN inbox : inbox[i].kind = "CORRECTION" => inbox[i] \in DedupeEntries(inbox)

\* A restatement that was wrong in its amount alone is corrected and replaced
\* (packages/equity-ledger/src/postings.ts:333-339).  The code does not keep this: the right one
\* has the wrong one's block, multiplier and accounts, so it too is taken for a repeat.
ReplacementCounts ==
    \A n \in DOMAIN facts, h \in Holders : facts[n].kind = "activation" =>
        LET right == Restatement(3, h, n, facts[n].multiplier, "VERIFIED")
            wrong == BuildRestatement(1, h, n, 0, 1, facts[n].multiplier, "CONFLICT")
        IN  right \in DedupeEntries(<<wrong, BuildCorrection(wrong, 2), right>>)

\* A movement mined again in another block is posted once, its first entry being taken back
\* (packages/equity-ledger/src/postings.ts:400-401).  The code does not keep this: the block is
\* part of a movement's identity, and the correction of the first is a repeat of it.
MinedAgainIsPostedOnce ==
    \A n \in DOMAIN facts, h \in Holders : facts[n].kind = "movement" /\ facts[n].to = h =>
        LET first == Movement(1, n, FALSE)
            again == [Movement(3, n, FALSE) EXCEPT !.block = n + 1]
            posted == DedupeEntries(<<first, BuildCorrection(first, 2), again>>)
        IN  Position(posted, h).raw = facts[n].amount

=============================================================================
