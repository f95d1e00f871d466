-------------------------- MODULE B20Requests_proof --------------------------
(***************************************************************************)
(* B20Requests' safety for any callers, keys and amounts, any timing and   *)
(* any world the reads can find.                                           *)
(*                                                                         *)
(* The argument has two halves.  An ALLOW is about a block: its evidence   *)
(* is from one, and every change of the world makes another one, so what   *)
(* the sessions read is what that block shows.  A receipt is about that    *)
(* block, which is behind the clock by no more than the confirmations: the *)
(* receipt's validity starts before it is read, one key gives out one, and *)
(* the adapter compares what a signature cannot cover.  When the signer    *)
(* answers, and what the world has become by then, the argument leaves     *)
(* open.                                                                   *)
(***************************************************************************)
EXTENDS B20Requests, FiniteSetTheorems, TLAPS

Operations == {Operation(amount) : amount \in Amounts}

\* What a session can see.
Sights == [time : Nat, world : Worlds, notices : Notices]

-----------------------------------------------------------------------------
\* What an ALLOW says.

\* Two blocks compare only if they are one.
LEMMA OneBlock == ASSUME NEW a, NEW b, AssertComparable({a, b}) PROVE a = b
<1> SUFFICES ASSUME a # b PROVE FALSE
    OBVIOUS
<1>1. IsFiniteSet({a}) /\ Cardinality({a}) = 1
    BY FS_Singleton
<1>2. b \notin {a} /\ {a} \cup {b} = {a, b}
    OBVIOUS
<1>3. Cardinality({a} \cup {b}) = 2
    BY <1>1, <1>2, FS_AddElement
<1> QED
    BY <1>2, <1>3 DEF AssertComparable

\* While no review is open the registry holds the identity that was reviewed.
RegistryAsReviewed ==
    ~incident =>
        /\ DOMAIN registry = {"a"}
        /\ registry["a"].name = "n" /\ registry["a"].symbol = "s"
        /\ registry["a"].decimals = 18

\* A verified identity is the one the manifest records.
LEMMA VerifiedIsOriginal ==
    ASSUME NEW sight \in Sights, RegistryAsReviewed, ~incident,
           IdentityStatus(sight) = "VERIFIED"
    PROVE  sight.world.identity = Original /\ sight.notices.listed /\ ~sight.notices.fixture
<1> DEFINE known == registry["a"]
           read == Identity(sight)
<1>1. IdentityStatus(sight) = IF known = None THEN None ELSE VerifyB20Identity(read, known).status
    BY DEF IdentityStatus, ResolveB20Asset, At, RegistryAsReviewed
<1>2. known # None /\ VerifyB20Identity(read, known).status = "VERIFIED"
  <2>1. "VERIFIED" # None
    BY Readings DEF AssetStatuses
  <2> QED
    BY <1>1, <2>1
<1>3. known.name = "n" /\ known.symbol = "s" /\ known.decimals = 18
    BY DEF RegistryAsReviewed
<1> PICK world1 \in Worlds, notices1 \in Notices :
        sight.world = world1 /\ sight.notices = notices1
    BY DEF Sights
<1>4. /\ read.fixture = notices1.fixture /\ read.onOfficialList = notices1.listed
      /\ read.initialized = world1.identity.initialized
      /\ read.name = world1.identity.name /\ read.symbol = world1.identity.symbol
      /\ read.decimals = world1.identity.decimals /\ read.prefixMatches = TRUE
      /\ read.mixedCase = FALSE
    BY DEF Identity
<1> HIDE DEF known, read
<1>5. /\ ~read.fixture /\ read.onOfficialList /\ read.initialized # FALSE
      /\ ~Unanswered(read) /\ AgainstKnown(read, known).status = "VERIFIED"
    BY <1>2, <1>4 DEF VerifyB20Identity, Verdict, Unlisted, Notices, Worlds
<1>6. read.decimals = 18 /\ read.symbol = "s" /\ read.name = "n"
    BY <1>2, <1>3, <1>5 DEF AgainstKnown, Verdict
<1>7. read.initialized # None
    BY <1>5 DEF Unanswered
<1>8. /\ world1.identity.initialized = TRUE /\ world1.identity.decimals = 18
      /\ world1.identity.symbol = "s" /\ world1.identity.name = "n"
    BY <1>4, <1>5, <1>6, <1>7 DEF Worlds
<1>9. world1.identity = Original
    BY <1>8 DEF Worlds, Original
<1> QED
    BY <1>4, <1>5, <1>9 DEF Notices

LEMMA StatusOfIdentity ==
    ASSUME NEW sight PROVE IdentityStatus(sight) \in AssetStatuses \cup {None}
BY DEF IdentityStatus, VerifyB20Identity, Verdict, Unlisted, AgainstKnown, AssetStatuses

\* An ALLOW has no reason against it.
LEMMA AllowHasNoReason ==
    ASSUME NEW op, NEW e, NEW observed, EvaluateB20Preflight(op, e, observed) = "ALLOW"
    PROVE  /\ IdentityReasons(e) = {} /\ MultiplierReasons(op, e, observed) = {}
           /\ e.blocksComparable
           /\ ~e.tokenPaused /\ ~e.openIncident
           /\ NeedsPrice(op.class) =>
                  e.scheduleCapability = "LIVE" /\ ~InsideWindow(e) /\ PriceReasons(e) = {}
<1>1. Reasons(op, e, observed) = {}
    BY DEF EvaluateB20Preflight, Decide
<1>2. /\ IdentityReasons(e) = {} /\ MultiplierReasons(op, e, observed) = {}
      /\ If(~e.blocksComparable, "B20_EVIDENCE_BLOCK_MISMATCH") = {}
      /\ If(e.tokenPaused, "B20_TOKEN_PAUSED") = {}
      /\ If(e.openIncident, "B20_MANUAL_REVIEW_REQUIRED") = {}
    BY <1>1 DEF Reasons
<1>3. NeedsPrice(op.class) =>
          /\ If(e.scheduleCapability # "LIVE", "B20_UNSUPPORTED_CAPABILITY") = {}
          /\ If(InsideWindow(e), "B20_SCHEDULE_NOT_YET_EFFECTIVE") = {}
          /\ PriceReasons(e) = {}
    BY <1>1 DEF Reasons
<1> QED
    BY <1>2, <1>3 DEF If

\* No price reason: the pairing is reviewed, the feed fresh and the sequencer up.
LEMMA NoPriceReason ==
    ASSUME NEW e, PriceReasons(e) = {}
    PROVE  e.pairingReviewed /\ e.priceVerdict = "FRESH"
BY DEF PriceReasons, If

\* A verdict other than None was given on answers.
LEMMA VerdictIsOnAnswers ==
    ASSUME NEW class, NEW feed, NEW token, NEW pairing, NEW reachable \in BOOLEAN,
           PriceVerdict(FeedInput(class, feed, token), pairing, reachable) = "FRESH"
    PROVE  reachable /\ EvaluateFreshness(FeedInput(class, feed, token)) = "FRESH"
<1> PICK input : input = FeedInput(class, feed, token)
    OBVIOUS
<1>1. PriceVerdict(input, pairing, reachable) = "FRESH" /\ "FRESH" # None
    BY Readings DEF PriceVerdicts
<1> QED
    BY <1>1 DEF PriceVerdict, ReadSequencer

\* A fresh verdict of one sight: the round and the sequencer support it.
LEMMA FreshIsSound ==
    ASSUME NEW sight \in Sights, NEW class \in ActionClasses, NEW reachable \in BOOLEAN,
           PriceVerdict(FeedInput(class, sight, sight), sight.notices.pairing, reachable) = "FRESH",
           sight.notices.pairing = "REVIEWED_VERIFIED"
    PROVE  PriceIsSound(sight, MaxAgeSeconds(class))
<1> DEFINE input == FeedInput(class, sight, sight)
<1>1. EvaluateFreshness(input) = "FRESH"
    BY VerdictIsOnAnswers
<1>2. /\ SequencerServes(input) /\ ~input.issuerPaused /\ RoundIsValid(input)
      /\ input.time - input.round.updatedAt <= MaxAgeSeconds(input.class)
    BY <1>1 DEF EvaluateFreshness
<1> PICK world1 \in Worlds, notices1 \in Notices, t \in Nat :
        sight.world = world1 /\ sight.notices = notices1 /\ sight.time = t
    BY DEF Sights
<1>3. /\ world1.sequencer.answer = 0 /\ t - world1.sequencer.startedAt >= Grace
      /\ ~notices1.issuerPaused /\ world1.round.decimals = 8 /\ world1.round.answer > 0
      /\ world1.round.updatedAt <= t /\ world1.round.answeredInRound >= world1.round.roundId
      /\ t - world1.round.updatedAt <= MaxAgeSeconds(class)
    BY <1>2 DEF FeedInput, SequencerServes, RoundIsValid
<1>4. MaxAgeSeconds(class) \in Nat
    BY DEF MaxAgeSeconds, ActionClasses
<1>5. world1.round.updatedAt \in Nat /\ world1.sequencer.startedAt \in Nat
    BY DEF Worlds
<1>6. /\ world1.round.updatedAt \in (t - MaxAgeSeconds(class))..t
      /\ t >= world1.sequencer.startedAt + Grace
    BY <1>3, <1>4, <1>5, Seconds
<1> QED
    BY <1>3, <1>6 DEF PriceIsSound

\* An ALLOW on what both sessions read at one block means that the block meets the needs of the
\* class, and that a price that is needed was answered.
LEMMA AllowIsPermitted ==
    ASSUME incident \in BOOLEAN, RegistryAsReviewed,
           NEW op, op.class \in ActionClasses, NEW session, NEW reachable \in BOOLEAN,
           Sight(session.block, session.notices) \in Sights,
           DecisionOn(op, session, session.block, reachable) = "ALLOW"
    PROVE  /\ Permitted(op, Sight(session.block, session.notices))
           /\ NeedsPrice(op.class) => reachable
<1> PICK sight \in Sights : sight = Sight(session.block, session.notices)
    OBVIOUS
<1> DEFINE e == Evidence(op, session, session.block, reachable)
           verdict == PriceVerdict(FeedInput(op.class, sight, sight), sight.notices.pairing,
                                   reachable)
<1>1. /\ IdentityReasons(e) = {} /\ MultiplierReasons(op, e, Multiplier(sight)) = {}
      /\ ~e.tokenPaused /\ ~e.openIncident
      /\ NeedsPrice(op.class) =>
             e.scheduleCapability = "LIVE" /\ ~InsideWindow(e) /\ PriceReasons(e) = {}
    BY AllowHasNoReason DEF DecisionOn
<1>2. /\ e.identityStatus = IdentityStatus(sight) /\ e.tokenPaused = sight.world.paused
      /\ e.openIncident = incident
      /\ e.pairingReviewed = (sight.notices.pairing = "REVIEWED_VERIFIED")
      /\ e.priceVerdict = verdict /\ e.secondsUntilActivation = UntilActivation(sight)
      /\ e.scheduleCapability = (IF sight.world.dialed THEN "LIVE" ELSE "NOT_DIALED")
      /\ e.guardWindow = GuardWindow
    BY DEF Evidence
<1> HIDE DEF e
<1>3. ~sight.world.paused /\ ~incident
    BY <1>1, <1>2
<1>4. IdentityStatus(sight) = "VERIFIED"
    BY <1>1, <1>2, StatusOfIdentity DEF IdentityReasons, If, AssetStatuses
<1>5. sight.world.identity = Original /\ sight.notices.listed /\ ~sight.notices.fixture
    BY <1>3, <1>4, VerifiedIsOriginal
<1>6. Multiplier(sight) = op.expectedMultiplier
    BY <1>1, <1>2, <1>4, Readings DEF MultiplierReasons, If, AssetStatuses
<1>7. ASSUME op.class # "DISPLAY_POSITION"
      PROVE  PriceIsSound(sight, MaxAgeSeconds(op.class)) /\ NothingImminent(sight) /\ reachable
  <2>1. /\ e.scheduleCapability = "LIVE" /\ ~InsideWindow(e)
        /\ e.pairingReviewed /\ e.priceVerdict = "FRESH"
      BY <1>1, <1>7, NoPriceReason DEF NeedsPrice
  <2>2. verdict = "FRESH" /\ sight.notices.pairing = "REVIEWED_VERIFIED"
      BY <1>2, <2>1
  <2>3. PriceIsSound(sight, MaxAgeSeconds(op.class)) /\ reachable
      BY <2>2, FreshIsSound, VerdictIsOnAnswers
  <2>4. sight.world.dialed
      BY <1>2, <2>1
  <2> PICK at \in Nat, t \in Nat : sight.world.asset.effectiveAt = at /\ sight.time = t
      BY DEF Sights, Worlds
  <2>5. ASSUME at \in (t + 1)..(t + GuardWindow) PROVE FALSE
    <3>1. UntilActivation(sight) = at - t
        BY <2>4, <2>5, Seconds DEF UntilActivation
    <3>2. at - t \in Nat /\ at - t > 0 /\ at - t <= GuardWindow
        BY <2>5, Seconds
    <3> QED
        BY <1>2, <2>1, <3>1, <3>2, Readings DEF InsideWindow
  <2> QED
      BY <2>3, <2>4, <2>5 DEF NothingImminent
<1> QED
    BY <1>3, <1>5, <1>6, <1>7 DEF Permitted, NeedsPrice

-----------------------------------------------------------------------------
\* The inductive invariant.

Blocks == 0..block

Types ==
    /\ time \in Nat \ {0} /\ block \in Nat /\ world \in Worlds /\ notices \in Notices
    /\ incident \in BOOLEAN
    /\ intents \in [Keys -> IntentRows \cup {None}]
    /\ callers = [c \in Callers |-> callers[c]]
    /\ issued \in Nat
    /\ adapter \in [asset : {"a"}, signers : SUBSET {"k"}, targets : SUBSET {"vault"},
                    consumed : SUBSET Nat]

\* No block is later than the clock, or further behind it than a Tick for each block since; the
\* surface is the same at all of them.
Kept(b) ==
    /\ views[b].time \in Nat \ {0} /\ views[b].world \in Worlds
    /\ views[b].world.dialed = world.dialed
    /\ views[b].time <= time /\ time <= views[b].time + (block - b) * Tick

HistoryHolds == \A b \in Blocks : Kept(b)

\* What a caller holds by the time it is where it is.
Shape(c) ==
    LET m == callers[c]
    IN  /\ m.pc \in {"decided", "answered"} =>
               m = [pc |-> m.pc, key |-> m.key, op |-> m.op, decision |-> m.decision]
        /\ m.pc = "decided" => m.decision \in Decisions
        /\ m.pc \in {"signed", "attached"} =>
               m = [pc |-> m.pc, key |-> m.key, op |-> m.op, receipt |-> m.receipt]

\* A caller works on the intent it claimed or was answered from.
Serving(c) ==
    callers[c].pc # "idle" =>
        /\ callers[c].key \in Keys /\ callers[c].op \in Operations
        /\ intents[callers[c].key] # None
        /\ intents[callers[c].key].request = callers[c].op

\* A session is pinned to a block there is, and the one a receipt is bound from to a block that
\* was confirmed when the receipt's validity started.
Reading(c) ==
    LET m == callers[c]
    IN  /\ m.pc \in {"read", "issuing", "rereading"} =>
               m.session.block \in Blocks /\ m.session.notices \in Notices
        /\ m.pc \in {"issuing", "rereading"} =>
               m.since \in Nat /\ m.since <= time /\ m.since <= views[m.session.block].time + Lag
        /\ m.pc = "rereading" => m.token \in Blocks

\* A receipt is bound to a block its operation was permitted at, far from what was scheduled
\* there, and its validity started before that block was too old.
Bound(r) ==
    /\ r.schemaVersion = SchemaVersion
    /\ r.id \in 1..issued
    /\ r.issuedAt \in Nat /\ r.expiresAt = r.issuedAt + Ttl
    /\ permitted[r.id] \in Nat \ {0}
    /\ r.issuedAt <= permitted[r.id] + Lag /\ permitted[r.id] <= time
    /\ world.dialed
    /\ r.pendingEffectiveAt \notin (permitted[r.id] + 1)..(permitted[r.id] + GuardWindow)

Sound(signed) == signed.key = "k" /\ Bound(signed.receipt)

Named(id) == \E key \in Keys : intents[key] # None /\ intents[key].receipt = id

Holding(c) ==
    /\ callers[c].pc = "signing" => Bound(callers[c].draft)
    /\ callers[c].pc \in {"signed", "attached"} => Sound(callers[c].receipt)
    /\ callers[c].pc = "attached" =>
           intents[callers[c].key].receipt = callers[c].receipt.receipt.id

CallersHold == \A c \in Callers : Shape(c) /\ Serving(c) /\ Reading(c) /\ Holding(c)

DeliveredHold ==
    \A signed \in delivered : Sound(signed) /\ Named(signed.receipt.id)

\* What was executed was named by its intent, is used up, and was permitted at a recent block.
ExecutedHold ==
    \A e \in executed :
        /\ e.id \in 1..issued /\ e.id \in adapter.consumed /\ Named(e.id)
        /\ \A f \in executed : f.id = e.id => f = e
        /\ permitted[e.id] # 0 /\ e.at - permitted[e.id] < Ttl + Lag
        /\ e.activation > e.at => e.activation - e.at > GuardWindow - Ttl - Lag

IInv ==
    Types /\ HistoryHolds /\ RegistryAsReviewed /\ CallersHold /\ DeliveredHold /\ ExecutedHold

-----------------------------------------------------------------------------
\* What a step leaves standing.

\* Time does not go back, a block is added at most, and no block that was there changes.
MovesOn ==
    /\ time' \in Nat /\ time' >= time
    /\ world' \in Worlds /\ world'.dialed = world.dialed
    /\ block' \in Nat /\ block' >= block
    /\ \A b \in Blocks : views'[b] = views[b]
    /\ HistoryHolds'

\* Rows and receipts are added to and never taken back.
Grows ==
    /\ issued' \in Nat /\ issued' >= issued
    /\ \A id \in 1..issued : permitted'[id] = permitted[id]
    /\ intents' \in [Keys -> IntentRows \cup {None}]
    /\ \A key \in Keys : intents[key] # None =>
           /\ intents'[key] # None /\ intents'[key].request = intents[key].request
           /\ intents[key].receipt # None => intents'[key].receipt = intents[key].receipt

LEMMA LagIsNatural == Lag \in Nat
BY Seconds DEF Lag

\* What is confirmed is no further behind the clock than the confirmations.
LEMMA ConfirmedIsRecent ==
    ASSUME Types, HistoryHolds
    PROVE  Confirmed \in Blocks /\ time <= views[Confirmed].time + Lag
<1> DEFINE behind == block - Confirmed
<1>1. Confirmed \in Blocks /\ behind \in Nat /\ behind <= Confirmations
    BY Seconds DEF Types, Confirmed, Blocks
<1>2. Kept(Confirmed)
    BY <1>1 DEF HistoryHolds
<1> HIDE DEF behind
<1>3. behind * Tick <= Confirmations * Tick
  <2>1. PICK rest \in Nat : Confirmations = behind + rest
      <3>1. Confirmations - behind \in Nat /\ Confirmations = behind + (Confirmations - behind)
          BY <1>1, Seconds
      <3> QED
          BY <3>1
  <2>2. Confirmations * Tick = behind * Tick + rest * Tick
      BY <1>1, <2>1, Seconds
  <2>3. rest * Tick \in Nat /\ behind * Tick \in Nat
      BY <1>1, <2>1, Seconds
  <2> QED
      BY <2>2, <2>3
<1>4. behind * Tick \in Int /\ Lag \in Nat
    BY <1>1, Seconds, LagIsNatural
<1>5. time <= views[Confirmed].time + behind * Tick /\ views[Confirmed].time \in Nat /\ time \in Nat
    BY <1>2 DEF Kept, behind, Types
<1> QED
    BY <1>1, <1>3, <1>4, <1>5 DEF Lag

LEMMA StillStanding ==
    ASSUME Types, UNCHANGED <<intents, issued, permitted>>
    PROVE  Grows
BY DEF Types, Grows

LEMMA StillThere ==
    ASSUME Types, HistoryHolds, UNCHANGED <<time, block, world, views>>
    PROVE  MovesOn
<1>1. HistoryHolds'
    BY DEF HistoryHolds, Kept, Blocks
<1> QED
    BY <1>1 DEF Types, MovesOn

\* The block that is added shows the world as it becomes.
LEMMA MinedMovesOn ==
    ASSUME Types, HistoryHolds, NEW next \in Worlds, next.dialed = world.dialed,
           NEW now \in {time, time + Tick}, Mined(now, next)
    PROVE  MovesOn
<1> PICK n \in Nat : n = block
    BY DEF Types
<1>1. /\ time \in Nat \ {0} /\ now \in Nat \ {0} /\ time <= now /\ now <= time + Tick
      /\ time' = now /\ world' = next /\ block' = n + 1
      /\ views' = [b \in 0..n + 1 |-> IF b <= n THEN views[b]
                                      ELSE [time |-> now, world |-> next]]
    BY Seconds DEF Types, Mined
<1>2. \A b \in 0..n : b \in 0..n + 1 /\ b <= n
    OBVIOUS
<1>3. \A b \in 0..n : views'[b] = views[b]
    BY <1>1, <1>2
<1>4. views'[n + 1] = [time |-> now, world |-> next]
    BY <1>1
<1>5. HistoryHolds'
  <2> SUFFICES ASSUME NEW b \in 0..n + 1 PROVE Kept(b)'
      BY <1>1 DEF HistoryHolds, Blocks
  <2>1. CASE b = n + 1
    <3>1. (block' - b) * Tick = 0
        BY <1>1, <2>1, Seconds
    <3> QED
        BY <1>1, <1>4, <2>1, <3>1 DEF Kept
  <2>2. CASE b \in 0..n
    <3>1. Kept(b) /\ views'[b] = views[b]
        BY <1>3, <2>2 DEF HistoryHolds, Blocks
    <3>2. (block' - b) * Tick = (n - b) * Tick + Tick /\ (n - b) * Tick \in Int
      <4>1. n - b \in Nat /\ block' - b = (n - b) + 1
          BY <1>1, <2>2
      <4>2. \A k \in Nat : (k + 1) * Tick = k * Tick + Tick /\ k * Tick \in Int
          BY Seconds
      <4> QED
          BY <4>1, <4>2
    <3>3. views[b].time \in Nat \ {0} /\ views[b].time <= time
          /\ time <= views[b].time + (n - b) * Tick
        BY <3>1 DEF Kept
    <3>4. views[b].time <= now /\ now <= views[b].time + (block' - b) * Tick
      <4> PICK gap \in Int : gap = (n - b) * Tick
          BY <3>2
      <4> QED
          BY <1>1, <3>2, <3>3, Seconds
    <3> QED
        BY <1>1, <3>1, <3>4 DEF Kept
  <2> QED
      BY <2>1, <2>2
<1> QED
    BY <1>1, <1>3, <1>5 DEF MovesOn, Blocks

LEMMA BoundStays ==
    ASSUME Types, MovesOn, Grows, NEW r, Bound(r)
    PROVE  Bound(r)'
<1>1. r.id \in 1..issued /\ r.id \in 1..issued'
    BY DEF Types, Grows, Bound
<1>2. permitted'[r.id] = permitted[r.id]
    BY <1>1 DEF Grows
<1>3. permitted[r.id] <= time' /\ world'.dialed
    BY DEF Types, MovesOn, Bound
<1> QED
    BY <1>1, <1>2, <1>3 DEF Bound, Lag

LEMMA SoundStays ==
    ASSUME Types, MovesOn, Grows, NEW signed, Sound(signed)
    PROVE  Sound(signed)'
BY BoundStays DEF Sound

LEMMA NamedStays ==
    ASSUME Grows, NEW id \in Nat, Named(id)
    PROVE  Named(id)'
<1>1. id # None
    BY Readings
<1>2. PICK key \in Keys : intents[key] # None /\ intents[key].receipt = id
    BY DEF Named
<1>3. intents'[key] # None /\ intents'[key].receipt = id
    BY <1>1, <1>2 DEF Grows
<1> QED
    BY <1>3 DEF Named

\* A caller that does not move is where it was.
LEMMA CallerStays ==
    ASSUME IInv, MovesOn, Grows, NEW d \in Callers, callers'[d] = callers[d]
    PROVE  Shape(d)' /\ Serving(d)' /\ Reading(d)' /\ Holding(d)'
<1>1. Types /\ Shape(d) /\ Serving(d) /\ Reading(d) /\ Holding(d)
    BY DEF IInv, CallersHold
<1>2. Shape(d)'
    BY <1>1 DEF Shape
<1>3. Serving(d)'
    BY <1>1 DEF Serving, Grows
<1>4. Reading(d)'
  <2>1. PICK m : m = callers[d]
      OBVIOUS
  <2>2. \A b \in Blocks : b \in Blocks' /\ views'[b] = views[b]
      BY <1>1 DEF Blocks, MovesOn, Types
  <2>3. m.pc \in {"issuing", "rereading"} =>
            /\ m.session.block \in Blocks /\ m.since \in Nat /\ m.since <= time
            /\ m.since <= views[m.session.block].time + Lag
      BY <1>1, <2>1 DEF Reading
  <2>4. m.pc \in {"issuing", "rereading"} =>
            m.since <= time' /\ m.since <= views'[m.session.block].time + Lag
      BY <1>1, <2>2, <2>3 DEF MovesOn, Types
  <2> QED
      BY <1>1, <2>1, <2>2, <2>3, <2>4 DEF Reading, Lag
<1>5. Holding(d)'
  <2>1. callers[d].pc = "signing" => Bound(callers[d].draft)'
    <3> PICK r : r = callers[d].draft
        OBVIOUS
    <3>1. callers[d].pc = "signing" => Bound(r)'
        BY <1>1, BoundStays DEF Holding
    <3> QED
        BY <3>1 DEF Bound
  <2>2. callers[d].pc \in {"signed", "attached"} => Sound(callers[d].receipt)'
      BY <1>1, SoundStays DEF Holding
  <2>3. ASSUME callers[d].pc = "attached"
        PROVE  intents'[callers[d].key].receipt = callers[d].receipt.receipt.id
    <3>1. /\ callers[d].key \in Keys /\ intents[callers[d].key] # None
          /\ intents[callers[d].key].receipt = callers[d].receipt.receipt.id
        BY <1>1, <2>3 DEF Serving, Holding
    <3>2. callers[d].receipt.receipt.id \in Nat
        BY <1>1, <2>3 DEF Holding, Sound, Bound, Types
    <3> QED
        BY <3>1, <3>2, Readings DEF Grows
  <2> QED
      BY <2>1, <2>2, <2>3 DEF Holding
<1> QED
    BY <1>2, <1>3, <1>4, <1>5

LEMMA DeliveredStay ==
    ASSUME IInv, MovesOn, Grows, NEW signed \in delivered
    PROVE  Sound(signed)' /\ Named(signed.receipt.id)'
<1>1. Types /\ Sound(signed) /\ Named(signed.receipt.id)
    BY DEF IInv, DeliveredHold
<1>2. signed.receipt.id \in Nat
    BY <1>1 DEF Sound, Bound, Types
<1> QED
    BY <1>1, <1>2, SoundStays, NamedStays

LEMMA ExecutedStay ==
    ASSUME IInv, Grows, UNCHANGED <<adapter, executed>>
    PROVE  ExecutedHold'
<1> SUFFICES ASSUME NEW e \in executed
             PROVE  /\ e.id \in 1..issued' /\ e.id \in adapter.consumed /\ Named(e.id)'
                    /\ \A f \in executed : f.id = e.id => f = e
                    /\ permitted'[e.id] # 0 /\ e.at - permitted'[e.id] < Ttl + Lag
                    /\ e.activation > e.at => e.activation - e.at > GuardWindow - Ttl - Lag
    BY DEF ExecutedHold, Lag
<1>1. ExecutedHold /\ issued \in Nat
    BY DEF IInv, Types
<1>2. e.id \in 1..issued /\ e.id \in Nat /\ Named(e.id)
    BY <1>1 DEF ExecutedHold
<1>3. e.id \in 1..issued' /\ permitted'[e.id] = permitted[e.id]
    BY <1>1, <1>2 DEF Grows
<1>4. Named(e.id)'
    BY <1>2, NamedStays
<1> QED
    BY <1>1, <1>3, <1>4 DEF ExecutedHold

-----------------------------------------------------------------------------
\* Every step preserves the invariant: the world.

LEMMA WorldMoves ==
    ASSUME IInv, MovesOn, notices' \in Notices, UNCHANGED <<reviews, requests, executions>>
    PROVE  IInv'
<1> USE DEF reviews, requests, executions
<1>1. Grows
    BY StillStanding DEF IInv
<1>2. Types' /\ HistoryHolds'
    BY DEF IInv, Types, MovesOn
<1>3. RegistryAsReviewed'
    BY DEF IInv, RegistryAsReviewed
<1>4. CallersHold'
    BY <1>1, CallerStays DEF CallersHold
<1>5. DeliveredHold'
    BY <1>1, DeliveredStay DEF DeliveredHold
<1>6. ExecutedHold'
    BY <1>1, ExecutedStay
<1> QED
    BY <1>2, <1>3, <1>4, <1>5, <1>6 DEF IInv

LEMMA AdvanceHolds ==
    ASSUME IInv, Advance PROVE IInv'
<1>1. MovesOn
    BY MinedMovesOn DEF IInv, Types, Advance
<1> QED
    BY <1>1, WorldMoves DEF Advance, Mined, IInv, Types

\* What becomes of the world stays among what can be read, and keeps its surface.
LEMMA BecomesHolds ==
    ASSUME IInv, NEW next \in Worlds, next.dialed = world.dialed, Becomes(next)
    PROVE  IInv'
<1>1. MovesOn
    BY MinedMovesOn DEF IInv, Types, Becomes
<1> QED
    BY <1>1, WorldMoves DEF Becomes, Mined, IInv, Types

LEMMA PublishRoundHolds ==
    ASSUME IInv, PublishRound PROVE IInv'
<1> DEFINE next == [world EXCEPT !.round =
                       [roundId |-> @.roundId + 1, answer |-> @.answer, updatedAt |-> time,
                        answeredInRound |-> @.roundId + 1, decimals |-> @.decimals]]
<1>1. next \in Worlds /\ next.dialed = world.dialed
    BY DEF IInv, Types, Worlds
<1>2. Becomes(next)
    BY DEF PublishRound
<1> QED
    BY <1>1, <1>2, BecomesHolds

LEMMA ToggleSequencerHolds ==
    ASSUME IInv, ToggleSequencer PROVE IInv'
<1> DEFINE next == [world EXCEPT !.sequencer = [answer |-> 1 - @.answer, startedAt |-> time]]
<1>1. next \in Worlds /\ next.dialed = world.dialed
    BY DEF IInv, Types, Worlds
<1>2. Becomes(next)
    BY DEF ToggleSequencer
<1> QED
    BY <1>1, <1>2, BecomesHolds

LEMMA SwitchesHold ==
    ASSUME IInv, PauseToken \/ Rename PROVE IInv'
<1>1. PICK next \in {[world EXCEPT !.paused = ~@], [world EXCEPT !.identity.name = "renamed"]} :
          Becomes(next)
    BY DEF PauseToken, Rename
<1>2. world \in Worlds
    BY DEF IInv, Types
<1>3. CASE next = [world EXCEPT !.identity.name = "renamed"]
  <2>1. next.identity \in [name : Texts \cup {None}, symbol : Texts \cup {None},
                           decimals : Nat \cup {None}, initialized : BOOLEAN \cup {None}]
      BY <1>2, <1>3 DEF Worlds, Texts
  <2>2. next \in Worlds /\ next.dialed = world.dialed
      BY <1>2, <1>3, <2>1 DEF Worlds
  <2> QED
      BY <1>1, <2>2, BecomesHolds
<1>4. CASE next = [world EXCEPT !.paused = ~@]
    BY <1>1, <1>2, <1>4, BecomesHolds, ZenonT(60) DEF Worlds
<1> QED
    BY <1>1, <1>3, <1>4

\* What is known off the chain is part of no block.
LEMMA AnnouncedHolds ==
    ASSUME IInv, PauseIssuer \/ EditManifest PROVE IInv'
<1>1. PICK next \in {[notices EXCEPT !.issuerPaused = ~@], [notices EXCEPT !.listed = ~@]} :
          Announced(next)
    BY DEF PauseIssuer, EditManifest
<1>2. notices \in Notices
    BY DEF IInv, Types
<1>3. next \in Notices
  <2>1. CASE next = [notices EXCEPT !.issuerPaused = ~@]
      BY <1>2, <2>1, ZenonT(60) DEF Notices
  <2>2. CASE next = [notices EXCEPT !.listed = ~@]
      BY <1>2, <2>2, ZenonT(60) DEF Notices
  <2> QED
      BY <1>1, <2>1, <2>2
<1>4. MovesOn
    BY <1>1, StillThere DEF IInv, Announced
<1> QED
    BY <1>1, <1>3, <1>4, WorldMoves DEF Announced

LEMMA CallAssetHolds ==
    ASSUME IInv, CallAsset PROVE IInv'
<1> USE DEF Asset!UpdateMultiplier, Asset!CancelUIMultiplierUpdate, Asset!UpdateUIMultiplier,
            Asset!NoCall
<1>1. PICK call \in {Asset!UpdateMultiplier(2), Asset!CancelUIMultiplierUpdate}
                    \cup {Asset!UpdateUIMultiplier(2, time + d) : d \in Delays} :
          Becomes([world EXCEPT !.asset = Asset!AfterCall(@, call)])
    BY DEF CallAsset
<1>2. call.value \in Nat /\ call.at \in Nat /\ call.kind \in {"instant", "cancel", "schedule"}
  <2>1. CASE call \in {[kind |-> "instant", value |-> 2, at |-> 0],
                       [kind |-> "cancel", value |-> 0, at |-> 0]}
      BY <2>1
  <2>2. ASSUME NEW d \in Delays, call = Asset!UpdateUIMultiplier(2, time + d)
        PROVE  call.value \in Nat /\ call.at \in Nat /\ call.kind = "schedule"
    <3>1. time + d \in Nat
        BY Seconds DEF IInv, Types
    <3> QED
        BY <2>2, <3>1
  <2> QED
      BY <2>1, <2>2
<1>3. Asset!AfterCall(world.asset, call) \in
          [multiplier : Nat, newMultiplier : Nat, effectiveAt : Nat]
    BY <1>2 DEF IInv, Types, Worlds, Asset!AfterCall, Asset!ClearSchedule
<1> DEFINE next == [world EXCEPT !.asset = Asset!AfterCall(@, call)]
<1>4. next \in Worlds /\ next.dialed = world.dialed
    BY <1>3 DEF IInv, Types, Worlds
<1> QED
    BY <1>1, <1>4, BecomesHolds

\* A refresh that finds another identity, or none, opens a review.
LEMMA RefreshRegistryHolds ==
    ASSUME IInv, RefreshRegistry PROVE IInv'
<1> DEFINE diff(next) == DiffB20Registry(registry, next)
<1>1. PICK answers \in BOOLEAN :
          LET live == IF answers THEN [a |-> Identity(Sight(Confirmed, notices))] ELSE << >>
              next == ProjectB20Registry(Manifest, live, registry)
          IN  /\ registry' = next
              /\ incident' = (incident \/ \E change \in diff(next) : change.requiresReview)
              /\ UNCHANGED <<time, block, world, notices, views, requests, executions>>
    BY DEF RefreshRegistry
<1> DEFINE live == IF answers THEN [a |-> Identity(Sight(Confirmed, notices))] ELSE << >>
<1>2. /\ registry' = ProjectB20Registry(Manifest, live, registry)
      /\ incident' = (incident \/ \E change \in diff(registry') : change.requiresReview)
      /\ UNCHANGED <<time, block, world, notices, views, requests, executions>>
    BY <1>1
<1>3. RegistryAsReviewed'
  <2>1. SUFFICES ASSUME ~incident'
                 PROVE  /\ DOMAIN registry' = {"a"}
                        /\ registry'["a"].name = "n" /\ registry'["a"].symbol = "s"
                        /\ registry'["a"].decimals = 18
      BY DEF RegistryAsReviewed
  <2>2. ~incident /\ \A change \in diff(registry') : ~change.requiresReview
      BY <1>2, <2>1
  <2>3. /\ DOMAIN registry = {"a"} /\ registry["a"].name = "n" /\ registry["a"].symbol = "s"
        /\ registry["a"].decimals = 18
      BY <2>2 DEF IInv, RegistryAsReviewed
  <2>4. DOMAIN registry' = DOMAIN Manifest /\ DOMAIN Manifest \subseteq {"a"}
      BY <1>2 DEF ProjectB20Registry, Manifest
  <2>5. "a" \in DOMAIN registry'
    <3>1. SUFFICES ASSUME "a" \notin DOMAIN registry' PROVE FALSE
        OBVIOUS
    <3>2. Change("a", "removed", TRUE) \in diff(registry')
        BY <2>3, <3>1 DEF DiffB20Registry
    <3> QED
        BY <2>2, <3>2 DEF Change
  <2>6. EntryChanges("a", registry["a"], registry'["a"]) \subseteq diff(registry')
      BY <2>3, <2>5 DEF DiffB20Registry
  <2>7. \A field \in {"symbol", "name", "decimals"} :
            registry["a"][field] = registry'["a"][field]
    <3>1. SUFFICES ASSUME NEW field \in {"symbol", "name", "decimals"},
                          registry["a"][field] # registry'["a"][field]
                   PROVE  FALSE
        OBVIOUS
    <3>2. Change("a", field, TRUE) \in EntryChanges("a", registry["a"], registry'["a"])
        BY <3>1 DEF EntryChanges
    <3> QED
        BY <2>2, <2>6, <3>2 DEF Change
  <2> QED
      BY <2>3, <2>4, <2>5, <2>7
<1> USE <1>2 DEF requests, executions
<1>4. Grows /\ MovesOn
    BY StillStanding, StillThere DEF IInv
<1>5. Types' /\ HistoryHolds'
    BY <1>4 DEF IInv, Types, MovesOn
<1>6. CallersHold'
    BY <1>4, CallerStays DEF CallersHold
<1>7. DeliveredHold'
    BY <1>4, DeliveredStay DEF DeliveredHold
<1>8. ExecutedHold'
    BY <1>4, ExecutedStay
<1> QED
    BY <1>3, <1>5, <1>6, <1>7, <1>8 DEF IInv

-----------------------------------------------------------------------------
\* Every step preserves the invariant: the requests.

CallerHolds(c) == Shape(c) /\ Serving(c) /\ Reading(c) /\ Holding(c)

LEMMA CallerMoves ==
    ASSUME IInv, Grows, NEW c \in Callers, NEW m, Steps(c, m), CallerHolds(c)'
    PROVE  IInv'
<1> USE DEF Steps, chain, reviews, executions
<1>1. MovesOn
    BY StillThere DEF IInv
<1>2. Types' /\ HistoryHolds'
    BY <1>1 DEF IInv, Types, Grows, MovesOn
<1>3. RegistryAsReviewed'
    BY DEF IInv, RegistryAsReviewed
<1>4. CallersHold'
  <2>1. ASSUME NEW d \in Callers, d # c PROVE callers'[d] = callers[d]
      BY <2>1 DEF IInv, Types
  <2> QED
      BY <1>1, <2>1, CallerStays DEF CallersHold, CallerHolds
<1>5. DeliveredHold'
    BY <1>1, DeliveredStay DEF DeliveredHold
<1>6. ExecutedHold'
    BY ExecutedStay
<1> QED
    BY <1>2, <1>3, <1>4, <1>5, <1>6 DEF IInv

LEMMA Moved ==
    ASSUME IInv, NEW c \in Callers, NEW m, callers' = [callers EXCEPT ![c] = m]
    PROVE  callers'[c] = m
BY DEF IInv, Types

\* What is hashed of a request is all of it.
LEMMA CanonicalIsWhole ==
    ASSUME NEW op \in Operations PROVE CanonicalizeB20Operation(op) = op
BY DEF Operations, Operation, CanonicalizeB20Operation

\* A caller that gives up holds nothing.
LEMMA IdleHolds ==
    ASSUME IInv, Grows, NEW c \in Callers, Steps(c, Idle) PROVE IInv'
<1>1. callers'[c] = Idle
    BY Moved DEF Steps
<1>2. CallerHolds(c)'
    BY <1>1 DEF CallerHolds, Shape, Serving, Reading, Holding, Idle
<1> QED
    BY <1>2, CallerMoves

LEMMA ClaimHolds ==
    ASSUME IInv, NEW c \in Callers, Claim(c) PROVE IInv'
<1>1. PICK key \in Keys, amount \in Amounts :
          LET op == Operation(amount)
              outcome == ClaimPreflightIntent(intents[key], op)
          IN  /\ outcome \in {"CLAIMED", "REPLAYED"}
              /\ IF outcome = "CLAIMED"
                 THEN /\ intents' = [intents EXCEPT ![key] = Row(op)]
                      /\ Steps(c, [pc |-> "claimed", key |-> key, op |-> op])
                 ELSE /\ Steps(c, [pc |-> "answered", key |-> key, op |-> op,
                                   decision |-> intents[key].decision])
                      /\ UNCHANGED intents
              /\ UNCHANGED <<issued, permitted>>
    BY DEF Claim
<1> DEFINE op == Operation(amount)
<1>2. op \in Operations /\ CanonicalizeB20Operation(op) = op
    BY CanonicalIsWhole DEF Operations
<1>3. Types
    BY DEF IInv
<1>4. CASE ClaimPreflightIntent(intents[key], op) = "CLAIMED"
  <2>1. /\ intents[key] = None /\ intents' = [intents EXCEPT ![key] = Row(op)]
        /\ Steps(c, [pc |-> "claimed", key |-> key, op |-> op])
        /\ UNCHANGED <<issued, permitted>>
      BY <1>1, <1>4 DEF ClaimPreflightIntent
  <2>2. Row(op) \in IntentRows /\ Row(op) # None /\ Row(op).request = op
      BY <1>2, Readings DEF Row, IntentRows, Operations
  <2>3. Grows
      BY <1>3, <2>1, <2>2 DEF Grows, Types
  <2>4. callers'[c] = [pc |-> "claimed", key |-> key, op |-> op]
      BY <2>1, Moved DEF Steps
  <2>5. intents'[key] = Row(op)
      BY <1>3, <2>1 DEF Types
  <2> HIDE DEF op
  <2>6. CallerHolds(c)'
      BY <1>2, <2>2, <2>4, <2>5 DEF CallerHolds, Shape, Serving, Reading, Holding
  <2> QED
      BY <2>1, <2>3, <2>6, CallerMoves
<1>5. CASE ClaimPreflightIntent(intents[key], op) # "CLAIMED"
  <2> DEFINE m == [pc |-> "answered", key |-> key, op |-> op,
                   decision |-> intents[key].decision]
  <2>1. /\ intents[key] # None /\ SameRequest(intents[key], op)
        /\ Steps(c, m) /\ UNCHANGED intents /\ UNCHANGED <<issued, permitted>>
      BY <1>1, <1>5 DEF ClaimPreflightIntent
  <2>2. Grows
      BY <1>3, <2>1, StillStanding
  <2>3. callers'[c] = m
      BY <2>1, Moved DEF Steps
  <2>4. intents'[key] # None /\ intents'[key].request = op
      BY <1>2, <2>1 DEF SameRequest
  <2> HIDE DEF op
  <2>5. CallerHolds(c)'
      BY <1>2, <2>3, <2>4 DEF CallerHolds, Shape, Serving, Reading, Holding
  <2> QED
      BY <2>1, <2>2, <2>5, CallerMoves
<1> QED
    BY <1>4, <1>5

LEMMA ReadFeedHolds ==
    ASSUME IInv, NEW c \in Callers, ReadFeed(c) PROVE IInv'
<1> DEFINE m == [pc |-> "read", key |-> callers[c].key, op |-> callers[c].op,
                 session |-> FeedSession]
<1>1. /\ Types /\ HistoryHolds /\ Serving(c) /\ callers[c].pc = "claimed" /\ Steps(c, m)
      /\ UNCHANGED <<intents, issued, permitted>>
    BY DEF IInv, CallersHold, ReadFeed
<1>2. Grows
    BY <1>1, StillStanding
<1>3. callers'[c] = m /\ UNCHANGED <<time, block, views>>
    BY <1>1, Moved DEF Steps, chain
<1>4. FeedSession.block \in Blocks /\ FeedSession.notices \in Notices
    BY <1>1, ConfirmedIsRecent DEF FeedSession, Types
<1> PICK session : session = FeedSession
    OBVIOUS
<1>5. Reading(c)'
    BY <1>3, <1>4 DEF Reading, Blocks
<1>6. CallerHolds(c)'
    BY <1>1, <1>3, <1>5 DEF CallerHolds, Shape, Serving, Holding
<1> QED
    BY <1>1, <1>2, <1>6, CallerMoves

LEMMA DecideRequestHolds ==
    ASSUME IInv, NEW c \in Callers, DecideRequest(c) PROVE IInv'
<1>1. PICK reachable \in BOOLEAN :
          Steps(c, [pc |-> "decided", key |-> callers[c].key, op |-> callers[c].op,
                    decision |-> DecisionOn(callers[c].op, callers[c].session, Confirmed,
                                            reachable)])
    BY DEF DecideRequest
<1> DEFINE decision == DecisionOn(callers[c].op, callers[c].session, Confirmed, reachable)
           m == [pc |-> "decided", key |-> callers[c].key, op |-> callers[c].op,
                 decision |-> decision]
<1>2. /\ Types /\ Serving(c) /\ callers[c].pc = "read" /\ Steps(c, m)
      /\ UNCHANGED <<intents, issued, permitted>>
    BY <1>1 DEF IInv, CallersHold, DecideRequest
<1>3. decision \in Decisions
    BY DEF DecisionOn, EvaluateB20Preflight, Decide, Decisions
<1> HIDE DEF decision
<1>4. Grows
    BY <1>2, StillStanding
<1>5. callers'[c] = m
    BY <1>2, Moved DEF Steps
<1>6. CallerHolds(c)'
    BY <1>2, <1>3, <1>5 DEF CallerHolds, Shape, Serving, Reading, Holding
<1> QED
    BY <1>2, <1>4, <1>6, CallerMoves

LEMMA RecordHolds ==
    ASSUME IInv, NEW c \in Callers, RecordPreflightDecision(c) PROVE IInv'
<1> DEFINE key == callers[c].key
           row == [intents[key] EXCEPT !.status = "DECIDED", !.decision = callers[c].decision]
           m == [callers[c] EXCEPT !.pc = "answered"]
<1>1. /\ Types /\ Serving(c) /\ Shape(c) /\ callers[c].pc = "decided"
      /\ UNCHANGED <<issued, permitted>>
    BY DEF IInv, CallersHold, RecordPreflightDecision
<1>2. CASE intents[key].status # "PENDING"
  <2>1. Steps(c, Idle) /\ UNCHANGED intents
      BY <1>2 DEF RecordPreflightDecision
  <2> QED
      BY <1>1, <2>1, IdleHolds, StillStanding
<1>3. CASE intents[key].status = "PENDING"
  <2>1. intents' = [intents EXCEPT ![key] = row] /\ Steps(c, m)
      BY <1>3 DEF RecordPreflightDecision
  <2>2. /\ key \in Keys /\ intents[key] \in IntentRows /\ callers[c].decision \in Decisions
        /\ callers[c].op \in Operations /\ intents[key].request = callers[c].op
      BY <1>1 DEF Types, Serving, Shape
  <2>3. /\ row \in IntentRows /\ row.request = intents[key].request
        /\ row.receipt = intents[key].receipt
      BY <2>2 DEF IntentRows
  <2>4. intents'[key] = row /\ row # None
      BY <1>1, <2>1, <2>2, <2>3, Readings DEF Types
  <2>5. Grows
      BY <1>1, <2>1, <2>2, <2>3, <2>4 DEF Grows, Types
  <2>6. m = [pc |-> "answered", key |-> key, op |-> callers[c].op,
             decision |-> callers[c].decision]
      BY <1>1 DEF Shape
  <2>7. callers'[c] = m
      BY <2>1, Moved DEF Steps
  <2> HIDE DEF row, m
  <2>8. CallerHolds(c)'
      BY <2>2, <2>3, <2>4, <2>6, <2>7 DEF CallerHolds, Shape, Serving, Reading, Holding
  <2> QED
      BY <2>1, <2>5, <2>8, CallerMoves
<1> QED
    BY <1>2, <1>3

LEMMA BeginIssueHolds ==
    ASSUME IInv, NEW c \in Callers, BeginIssue(c) PROVE IInv'
<1> DEFINE m == [pc |-> "issuing", key |-> callers[c].key, op |-> callers[c].op,
                 since |-> time, session |-> FeedSession]
<1>1. /\ Types /\ HistoryHolds /\ Serving(c) /\ callers[c].pc = "answered" /\ Steps(c, m)
      /\ UNCHANGED <<intents, issued, permitted>>
    BY DEF IInv, CallersHold, BeginIssue
<1>2. Grows
    BY <1>1, StillStanding
<1>3. callers'[c] = m /\ UNCHANGED <<time, block, views>>
    BY <1>1, Moved DEF Steps, chain
<1>4. /\ FeedSession.block \in Blocks /\ FeedSession.notices \in Notices
      /\ time \in Nat /\ time <= views[FeedSession.block].time + Lag
    BY <1>1, ConfirmedIsRecent DEF FeedSession, Types
<1>5. Reading(c)'
    BY <1>3, <1>4 DEF Reading, Blocks, Lag
<1>6. CallerHolds(c)'
    BY <1>1, <1>3, <1>5 DEF CallerHolds, Shape, Serving, Holding
<1> QED
    BY <1>1, <1>2, <1>6, CallerMoves

LEMMA ReadTokenHolds ==
    ASSUME IInv, NEW c \in Callers, ReadToken(c) PROVE IInv'
<1> DEFINE m == [pc |-> "rereading", key |-> callers[c].key, op |-> callers[c].op,
                 since |-> callers[c].since, session |-> callers[c].session,
                 token |-> Confirmed]
<1>1. /\ Types /\ HistoryHolds /\ Serving(c) /\ Reading(c) /\ callers[c].pc = "issuing"
      /\ Steps(c, m) /\ UNCHANGED <<intents, issued, permitted>>
    BY DEF IInv, CallersHold, ReadToken
<1>2. Grows
    BY <1>1, StillStanding
<1>3. callers'[c] = m /\ UNCHANGED <<time, block, views>>
    BY <1>1, Moved DEF Steps, chain
<1>4. Confirmed \in Blocks
    BY <1>1, ConfirmedIsRecent
<1>5. Reading(c)'
    BY <1>1, <1>3, <1>4 DEF Reading, Blocks, Lag
<1>6. CallerHolds(c)'
    BY <1>1, <1>3, <1>5 DEF CallerHolds, Shape, Serving, Holding
<1> QED
    BY <1>1, <1>2, <1>6, CallerMoves

\* What a receipt is bound from.
LEMMA BoundFields ==
    ASSUME NEW op, NEW id, NEW since, NEW until, NEW reverified
    PROVE  LET r == Bind(ReceiptParams(op, id, since, until), reverified)
           IN  /\ r.id = id /\ r.issuedAt = since /\ r.expiresAt = until
               /\ r.schemaVersion = SchemaVersion
               /\ r.pendingEffectiveAt = reverified.pendingEffectiveAt
               /\ r.multiplier = reverified.multiplier
BY DEF Bind, ReceiptParams

\* What is signed was permitted at the block it is bound to, beyond the window of what is
\* scheduled there.
LEMMA BoundIsPermitted ==
    ASSUME IInv, NEW c \in Callers, callers[c].pc = "rereading", NEW reachable \in BOOLEAN,
           DecisionOn(callers[c].op, callers[c].session, callers[c].token, reachable) = "ALLOW"
    PROVE  /\ callers[c].token = callers[c].session.block
           /\ Permitted(callers[c].op, TokenSight(c)) /\ NothingImminent(TokenSight(c))
<1> DEFINE op == callers[c].op
           session == callers[c].session
           token == callers[c].token
<1>1. Types /\ HistoryHolds /\ RegistryAsReviewed /\ Serving(c) /\ Reading(c)
    BY DEF IInv, CallersHold
<1>2. Evidence(op, session, token, reachable).blocksComparable
    BY AllowHasNoReason DEF DecisionOn
<1>3. session.block = token
    BY <1>2, OneBlock DEF Evidence
<1>4. session.block \in Blocks /\ session.notices \in Notices
    BY <1>1 DEF Reading
<1>5. Sight(session.block, session.notices) \in Sights
    BY <1>1, <1>4 DEF Sight, Sights, HistoryHolds, Kept
<1>6. op.class \in ActionClasses /\ op.class # "DISPLAY_POSITION"
    BY <1>1 DEF Serving, Operations, Operation, ActionClasses
<1>7. DecisionOn(op, session, session.block, reachable) = "ALLOW"
    BY <1>3
<1> HIDE DEF op, session, token
<1>8. Permitted(op, Sight(session.block, session.notices))
    BY <1>1, <1>5, <1>6, <1>7, AllowIsPermitted DEF Types
<1> QED
    BY <1>3, <1>6, <1>8 DEF Permitted, TokenSight, op, session, token

LEMMA ReverifyHolds ==
    ASSUME IInv, NEW c \in Callers, Reverify(c) PROVE IInv'
<1>1. PICK reachable \in BOOLEAN :
        LET op == callers[c].op
            params == ReceiptParams(op, issued + 1, callers[c].since, callers[c].since + Ttl)
            bound == Issue(params, Reverification(c, reachable), MaxReverification)
        IN  IF bound = {}
            THEN Steps(c, Idle) /\ UNCHANGED <<issued, permitted>>
            ELSE /\ issued < MaxReceipts
                 /\ issued' = issued + 1
                 /\ permitted' = [id \in 1..issued + 1 |->
                                     IF id <= issued THEN permitted[id]
                                     ELSE IF Permitted(op, TokenSight(c)) THEN TokenSight(c).time
                                     ELSE 0]
                 /\ \E r \in bound :
                     Steps(c, [pc |-> "signing", key |-> callers[c].key, op |-> op,
                               draft |-> r])
    BY DEF Reverify
<1> DEFINE op == callers[c].op
           since == callers[c].since
           params == ReceiptParams(op, issued + 1, since, since + Ttl)
           bound == Issue(params, Reverification(c, reachable), MaxReverification)
<1>2. /\ Types /\ HistoryHolds /\ Serving(c) /\ Reading(c) /\ callers[c].pc = "rereading"
      /\ UNCHANGED intents
    BY DEF IInv, CallersHold, Reverify
<1>3. CASE bound = {}
  <2>1. Steps(c, Idle) /\ UNCHANGED <<issued, permitted>>
      BY <1>1, <1>3
  <2> QED
      BY <1>2, <2>1, IdleHolds, StillStanding
<1>4. CASE bound # {}
  <2>1. PICK r \in bound :
            /\ issued' = issued + 1
            /\ permitted' = [id \in 1..issued + 1 |->
                                IF id <= issued THEN permitted[id]
                                ELSE IF Permitted(op, TokenSight(c)) THEN TokenSight(c).time
                                ELSE 0]
            /\ Steps(c, [pc |-> "signing", key |-> callers[c].key, op |-> op, draft |-> r])
      BY <1>1, <1>4
  <2> DEFINE m == [pc |-> "signing", key |-> callers[c].key, op |-> op, draft |-> r]
  <2>2. r = Bind(params, Reverification(c, reachable))
        /\ Reverification(c, reachable).decision = "ALLOW"
      BY <2>1 DEF Issue, StillAllowed
  <2>3. /\ callers[c].token = callers[c].session.block
        /\ Permitted(op, TokenSight(c)) /\ NothingImminent(TokenSight(c))
      BY <1>2, <2>2, BoundIsPermitted DEF Reverification
  <2> PICK shown : shown = views[callers[c].token]
      OBVIOUS
  <2>4. /\ TokenSight(c).time = shown.time /\ TokenSight(c).world = shown.world
        /\ shown.time \in Nat \ {0} /\ shown.world \in Worlds /\ shown.time <= time
        /\ shown.world.dialed = world.dialed
        /\ since \in Nat /\ since <= shown.time + Lag
    <3>1. Kept(callers[c].token)
        BY <1>2, <2>3 DEF Reading, HistoryHolds
    <3> QED
        BY <1>2, <2>3, <3>1 DEF TokenSight, Sight, Kept, Reading
  <2>5. /\ r.id = issued + 1 /\ r.issuedAt = since /\ r.expiresAt = since + Ttl
        /\ r.schemaVersion = SchemaVersion
        /\ r.pendingEffectiveAt = Reverification(c, reachable).pendingEffectiveAt
      BY <2>2, BoundFields
  <2>6. /\ r.pendingEffectiveAt = shown.world.asset.effectiveAt /\ world.dialed
        /\ r.pendingEffectiveAt \notin (shown.time + 1)..(shown.time + GuardWindow)
      BY <2>3, <2>4, <2>5 DEF Reverification, NothingImminent
  <2>7. /\ issued + 1 \in 1..issued + 1 /\ ~(issued + 1 <= issued)
        /\ \A id \in 1..issued : id \in 1..issued + 1 /\ id <= issued
      BY <1>2 DEF Types
  <2>8. permitted'[issued + 1] = shown.time
      BY <2>1, <2>3, <2>4, <2>7
  <2>9. Grows
    <3>1. \A id \in 1..issued : permitted'[id] = permitted[id]
        BY <2>1, <2>7
    <3> QED
        BY <1>2, <2>1, <3>1 DEF Grows, Types
  <2>10. callers'[c] = m /\ UNCHANGED <<time, world>>
      BY <2>1, Moved DEF Steps, chain
  <2> HIDE DEF op, since, bound, params
  <2>11. Bound(r)'
    <3>1. r.id \in 1..issued' /\ permitted'[r.id] = shown.time
        BY <1>2, <2>1, <2>5, <2>7, <2>8 DEF Types
    <3> QED
        BY <2>4, <2>5, <2>6, <2>10, <3>1 DEF Bound, Lag
  <2>12. CallerHolds(c)'
      BY <1>2, <2>10, <2>11 DEF CallerHolds, Shape, Serving, Reading, Holding, op
  <2> QED
      BY <2>1, <2>9, <2>12, CallerMoves
<1> QED
    BY <1>3, <1>4

\* A signature is over what was bound, whatever is true by now.
LEMMA SignHolds ==
    ASSUME IInv, NEW c \in Callers, Sign(c) PROVE IInv'
<1> PICK r : r = callers[c].draft
    OBVIOUS
<1> DEFINE m == [pc |-> "signed", key |-> callers[c].key, op |-> callers[c].op,
                 receipt |-> Signed(r, "k")]
<1>1. /\ Types /\ HistoryHolds /\ Serving(c) /\ Holding(c) /\ callers[c].pc = "signing"
      /\ Steps(c, m) /\ UNCHANGED <<intents, issued, permitted>>
    BY DEF IInv, CallersHold, Sign
<1>2. Grows /\ MovesOn
    BY <1>1, StillStanding, StillThere DEF Steps, chain
<1>3. callers'[c] = m
    BY <1>1, Moved DEF Steps
<1>4. Bound(r)'
    BY <1>1, <1>2, BoundStays DEF Holding
<1>5. CallerHolds(c)'
    BY <1>1, <1>3, <1>4 DEF CallerHolds, Shape, Serving, Reading, Holding, Sound, Signed, Bound
<1> QED
    BY <1>1, <1>2, <1>5, CallerMoves

LEMMA AttachHolds ==
    ASSUME IInv, NEW c \in Callers, AttachReceipt(c) PROVE IInv'
<1> DEFINE key == callers[c].key
           id == callers[c].receipt.receipt.id
           row == [intents[key] EXCEPT !.receipt = id]
           m == [callers[c] EXCEPT !.pc = "attached"]
<1>1. /\ Types /\ HistoryHolds /\ Serving(c) /\ Shape(c) /\ Holding(c)
      /\ callers[c].pc = "signed"
      /\ UNCHANGED <<issued, permitted>>
    BY DEF IInv, CallersHold, AttachReceipt
<1>2. CASE ~MayAttach(intents[key])
  <2>1. Steps(c, Idle) /\ UNCHANGED intents
      BY <1>2 DEF AttachReceipt
  <2> QED
      BY <1>1, <2>1, IdleHolds, StillStanding
<1>3. CASE MayAttach(intents[key])
  <2>1. intents' = [intents EXCEPT ![key] = row] /\ Steps(c, m)
      BY <1>3 DEF AttachReceipt
  <2>2. /\ key \in Keys /\ intents[key] \in IntentRows /\ callers[c].op \in Operations
        /\ intents[key].request = callers[c].op /\ intents[key].receipt = None
        /\ Sound(callers[c].receipt) /\ id \in Nat
      BY <1>1, <1>3 DEF Types, Serving, Holding, Sound, Bound, MayAttach
  <2>3. row \in IntentRows /\ row.request = intents[key].request /\ row.receipt = id
      BY <2>2 DEF IntentRows
  <2>4. intents'[key] = row /\ row # None
      BY <1>1, <2>1, <2>2, <2>3, Readings DEF Types
  <2>5. Grows
      BY <1>1, <2>1, <2>2, <2>3, <2>4 DEF Grows, Types
  <2>6. m = [pc |-> "attached", key |-> key, op |-> callers[c].op,
             receipt |-> callers[c].receipt]
      BY <1>1 DEF Shape
  <2>7. callers'[c] = m
      BY <2>1, Moved DEF Steps
  <2>8. PICK signed : signed = callers[c].receipt
      OBVIOUS
  <2>9. Sound(signed)'
    <3>1. MovesOn
        BY <1>1, <2>1, StillThere DEF Steps, chain
    <3> QED
        BY <1>1, <2>2, <2>5, <2>8, <3>1, SoundStays
  <2> HIDE DEF row, m
  <2>10. CallerHolds(c)'
      BY <2>2, <2>3, <2>4, <2>6, <2>7, <2>8, <2>9
         DEF CallerHolds, Shape, Serving, Reading, Holding
  <2> QED
      BY <2>1, <2>5, <2>10, CallerMoves
<1> QED
    BY <1>2, <1>3

LEMMA DeliverHolds ==
    ASSUME IInv, NEW c \in Callers, Deliver(c) PROVE IInv'
<1> DEFINE signed == callers[c].receipt
<1>1. /\ Types /\ HistoryHolds /\ Serving(c) /\ Holding(c) /\ callers[c].pc = "attached"
      /\ delivered' = delivered \cup {signed} /\ callers' = [callers EXCEPT ![c] = Idle]
      /\ UNCHANGED <<time, block, world, notices, views, registry, incident, intents, issued,
                     permitted, adapter, executed>>
    BY DEF IInv, CallersHold, Deliver, chain, reviews
<1>2. Grows /\ MovesOn
    BY <1>1, StillStanding, StillThere
<1>3. Types' /\ HistoryHolds'
    BY <1>1, <1>2 DEF Types, MovesOn
<1>4. RegistryAsReviewed'
    BY <1>1 DEF IInv, RegistryAsReviewed
<1>5. CallersHold'
  <2>1. callers'[c] = Idle
      BY <1>1, Moved
  <2>2. Shape(c)' /\ Serving(c)' /\ Reading(c)' /\ Holding(c)'
      BY <2>1 DEF Shape, Serving, Reading, Holding, Idle
  <2>3. ASSUME NEW d \in Callers, d # c PROVE callers'[d] = callers[d]
      BY <1>1, <2>3 DEF Types
  <2> QED
      BY <1>2, <2>2, <2>3, CallerStays DEF CallersHold
<1>6. DeliveredHold'
  <2>1. SUFFICES ASSUME NEW s \in delivered'
                 PROVE  Sound(s)' /\ Named(s.receipt.id)'
      BY DEF DeliveredHold
  <2>2. CASE s \in delivered
      BY <1>2, <2>2, DeliveredStay
  <2>3. CASE s = signed
    <3>1. Sound(s) /\ intents[callers[c].key] # None /\ callers[c].key \in Keys
          /\ intents[callers[c].key].receipt = s.receipt.id
        BY <1>1, <2>3 DEF Serving, Holding
    <3>2. s.receipt.id \in Nat /\ Named(s.receipt.id)
        BY <1>1, <3>1 DEF Sound, Bound, Named, Types
    <3> QED
        BY <1>1, <1>2, <3>1, <3>2, SoundStays, NamedStays
  <2> QED
      BY <1>1, <2>2, <2>3
<1>7. ExecutedHold'
    BY <1>1, <1>2, ExecutedStay
<1> QED
    BY <1>3, <1>4, <1>5, <1>6, <1>7 DEF IInv

LEMMA LeaveHolds ==
    ASSUME IInv, NEW c \in Callers, Leave(c) PROVE IInv'
BY IdleHolds, StillStanding DEF IInv, Leave

LEMMA ServeHolds ==
    ASSUME IInv, NEW c \in Callers, Serve(c) PROVE IInv'
BY ClaimHolds, ReadFeedHolds, DecideRequestHolds, RecordHolds, BeginIssueHolds, ReadTokenHolds,
   ReverifyHolds, SignHolds, AttachHolds, DeliverHolds DEF Serve

-----------------------------------------------------------------------------
\* Every step preserves the invariant: the adapter.

\* What the chain accepts was permitted less than a Ttl ago, and what is pending is the one
\* the receipt was signed beside.
LEMMA AcceptedIsRecent ==
    ASSUME Types, NEW signed, Sound(signed),
           Accepts(signed, "s", "vault", adapter, ChainState, time)
    PROVE  LET p == permitted[signed.receipt.id]
               activation == world.asset.effectiveAt
           IN  /\ p # 0 /\ time - p < Ttl + Lag
               /\ activation > time => activation - time > GuardWindow - Ttl - Lag
<1> DEFINE r == signed.receipt
           p == permitted[r.id]
           activation == world.asset.effectiveAt
<1>1. r.issuedAt \in Nat /\ p \in Nat \ {0} /\ r.issuedAt <= p + Lag /\ p <= time
    BY DEF Sound, Bound
<1>2. time < r.issuedAt + Ttl
    BY DEF Accepts, Within, Sound, Bound
<1>3. activation \notin (p + 1)..(p + GuardWindow)
    BY DEF Accepts, ChainStateStillMatches, ChainState, Sound, Bound
<1>4. activation \in Nat /\ time \in Nat /\ Lag \in Nat
    BY LagIsNatural DEF Types, Worlds
<1> HIDE DEF r, p, activation
<1>5. time - p < Ttl + Lag
    BY <1>1, <1>2, <1>4, Seconds
<1>6. activation > time => activation - time > GuardWindow - Ttl - Lag
    BY <1>1, <1>3, <1>4, <1>5, Seconds
<1> QED
    BY <1>1, <1>5, <1>6 DEF r, p, activation

LEMMA ExecuteHolds ==
    ASSUME IInv, NEW signed \in delivered, Execute(signed) PROVE IInv'
<1> DEFINE id == signed.receipt.id
           new == [id |-> id, at |-> time, activation |-> world.asset.effectiveAt]
<1>1. /\ Types /\ HistoryHolds /\ DeliveredHold /\ ExecutedHold
      /\ Accepts(signed, "s", "vault", adapter, ChainState, time)
      /\ adapter' = [adapter EXCEPT !.consumed = @ \cup {id}]
      /\ executed' = executed \cup {new}
      /\ UNCHANGED <<time, block, world, notices, views, registry, incident, intents, callers,
                     issued, permitted, delivered>>
    BY DEF IInv, Execute, chain, reviews, requests
<1>2. Sound(signed) /\ Named(id) /\ id \in 1..issued /\ id \in Nat
    BY <1>1 DEF DeliveredHold, Sound, Bound, Types
<1>3. Grows /\ MovesOn
    BY <1>1, StillStanding, StillThere
<1>4. Types' /\ HistoryHolds' /\ adapter'.consumed = adapter.consumed \cup {id}
    BY <1>1, <1>2, <1>3 DEF Types, MovesOn
<1>5. RegistryAsReviewed'
    BY <1>1 DEF IInv, RegistryAsReviewed
<1>6. CallersHold'
    BY <1>1, <1>3, CallerStays DEF CallersHold
<1>7. DeliveredHold'
    BY <1>1, <1>3, DeliveredStay DEF DeliveredHold
<1>8. ExecutedHold'
  <2> USE DEF Lag
  <2>1. id \notin adapter.consumed
      BY <1>1 DEF Accepts
  <2>2. /\ permitted[id] # 0 /\ new.at - permitted[id] < Ttl + Lag
        /\ new.activation > new.at => new.activation - new.at > GuardWindow - Ttl - Lag
      BY <1>1, <1>2, AcceptedIsRecent
  <2>3. \A f \in executed : f.id # id
      BY <1>1, <2>1 DEF ExecutedHold
  <2>4. \A e \in executed' : \A f \in executed' : f.id = e.id => f = e
      BY <1>1, <2>3 DEF ExecutedHold
  <2>5. SUFFICES ASSUME NEW e \in executed'
                 PROVE  /\ e.id \in 1..issued' /\ e.id \in adapter'.consumed /\ Named(e.id)'
                        /\ permitted'[e.id] # 0 /\ e.at - permitted'[e.id] < Ttl + Lag
                        /\ e.activation > e.at => e.activation - e.at > GuardWindow - Ttl - Lag
      BY <2>4 DEF ExecutedHold
  <2>6. CASE e \in executed
    <3>1. e.id \in 1..issued /\ Named(e.id) /\ e.id \in Nat
        BY <1>1, <2>6 DEF ExecutedHold, Types
    <3> QED
        BY <1>1, <1>3, <1>4, <2>6, <3>1, NamedStays DEF ExecutedHold
  <2>7. CASE e = new
      BY <1>1, <1>2, <1>3, <1>4, <2>2, <2>7, NamedStays
  <2> QED
      BY <1>1, <2>6, <2>7
<1> QED
    BY <1>4, <1>5, <1>6, <1>7, <1>8 DEF IInv

\* The owner's settings change what is accepted, and nothing that was.
LEMMA ConfigureHolds ==
    ASSUME IInv, SetAuthorizedSigner \/ SetAllowedTarget PROVE IInv'
<1>1. /\ Types /\ HistoryHolds /\ ExecutedHold
      /\ \/ adapter' = [adapter EXCEPT !.signers = {"k"} \ @]
         \/ adapter' = [adapter EXCEPT !.targets = {"vault"} \ @]
      /\ UNCHANGED <<time, block, world, notices, views, registry, incident, intents, callers,
                     issued, permitted, delivered, executed>>
    BY DEF IInv, SetAuthorizedSigner, SetAllowedTarget, Configure, reviews, requests
<1>2. Grows /\ MovesOn
    BY <1>1, StillStanding, StillThere
<1>3. Types' /\ HistoryHolds' /\ adapter'.consumed = adapter.consumed
    BY <1>1, <1>2 DEF Types, MovesOn
<1>4. RegistryAsReviewed'
    BY <1>1 DEF IInv, RegistryAsReviewed
<1>5. CallersHold'
    BY <1>1, <1>2, CallerStays DEF CallersHold
<1>6. DeliveredHold'
    BY <1>1, <1>2, DeliveredStay DEF DeliveredHold
<1>7. ExecutedHold'
  <2>1. \A id : Named(id)' <=> Named(id)
      BY <1>1 DEF Named
  <2> QED
      BY <1>1, <1>3, <2>1 DEF ExecutedHold, Lag
<1> QED
    BY <1>3, <1>4, <1>5, <1>6, <1>7 DEF IInv

-----------------------------------------------------------------------------

LEMMA InitHolds ==
    ASSUME Init PROVE IInv
<1>1. PICK setup \in Setups : world = setup.world /\ notices = setup.notices
    BY DEF Init
<1> USE DEF Init
<1>2. Types
  <2>1. time \in Nat \ {0} /\ world \in Worlds /\ notices \in Notices
      BY <1>1, Seconds, Readings
  <2> QED
      BY <2>1 DEF Types, NoAdapter
<1>3. HistoryHolds
  <2>1. Blocks = {0} /\ views[0] = [time |-> Start, world |-> world]
      BY DEF Blocks
  <2>2. (block - 0) * Tick = 0
      BY Seconds
  <2> QED
      BY <1>2, <2>1, <2>2, Seconds DEF HistoryHolds, Kept, Types
<1>4. RegistryAsReviewed
    BY DEF RegistryAsReviewed, ProjectB20Registry, Entry, OrElse, NotRead, Original
<1>5. CallersHold
    BY DEF CallersHold, Shape, Serving, Reading, Holding, Idle
<1> QED
    BY <1>2, <1>3, <1>4, <1>5 DEF IInv, DeliveredHold, ExecutedHold

LEMMA NextHolds ==
    ASSUME IInv, Next PROVE IInv'
BY AdvanceHolds, PublishRoundHolds, ToggleSequencerHolds, SwitchesHold, AnnouncedHolds,
   CallAssetHolds, RefreshRegistryHolds, ConfigureHolds, ServeHolds, LeaveHolds, ExecuteHolds
   DEF Next, Environment

LEMMA StutterHolds ==
    ASSUME IInv, UNCHANGED vars PROVE IInv'
<1> USE DEF vars
<1>1. Grows /\ MovesOn
    BY StillStanding, StillThere DEF IInv
<1> QED
    BY <1>1, WorldMoves DEF reviews, requests, executions, IInv, Types

\* What the requests and the adapter hold at every moment, for any callers, keys and timing.
THEOREM RequestInvariant == Spec => []IInv
<1>1. IInv /\ [Next]_vars => IInv'
    BY NextHolds, StutterHolds
<1> QED
    BY <1>1, InitHolds, PTL DEF Spec

\* AnsweredAsAsked: the row a caller answers from is the row of its own question.
THEOREM AnswersAreOwn == Spec => []AnsweredAsAsked
<1>1. IInv => AnsweredAsAsked
    BY DEF IInv, CallersHold, Serving, AnsweredAsAsked
<1> QED
    BY <1>1, RequestInvariant, PTL

\* OneExecution: an executed receipt is the one its row names, and executed once.
THEOREM IntentsExecuteOnce == Spec => []OneExecution
<1>1. IInv => OneExecution
    BY DEF IInv, ExecutedHold, Named, OneExecution
<1> QED
    BY <1>1, RequestInvariant, PTL

\* AllowMeansPermitted: the decision of every class is bounded by what the confirmed block shows.
THEOREM AllowsAreWarranted == Spec => []AllowMeansPermitted
<1>1. ASSUME IInv, NEW class \in ActionClasses, NEW reachable \in BOOLEAN,
             DecisionOn([Operation(1) EXCEPT !.class = class], FeedSession, Confirmed, reachable)
                 = "ALLOW"
      PROVE  /\ Permitted([Operation(1) EXCEPT !.class = class], Sight(Confirmed, notices))
             /\ NeedsPrice(class) => reachable
  <2>1. /\ incident \in BOOLEAN /\ RegistryAsReviewed
        /\ FeedSession.block = Confirmed /\ FeedSession.notices = notices
      BY <1>1 DEF IInv, Types, FeedSession
  <2>2. [Operation(1) EXCEPT !.class = class].class = class
      BY DEF Operation
  <2>3. Sight(Confirmed, notices) \in Sights
    <3>1. Types /\ HistoryHolds /\ Confirmed \in Blocks
        BY <1>1, ConfirmedIsRecent DEF IInv
    <3> QED
        BY <3>1 DEF Sight, Sights, HistoryHolds, Kept, Types
  <2> QED
      BY <1>1, <2>1, <2>2, <2>3, AllowIsPermitted
<1>2. IInv => AllowMeansPermitted
    BY <1>1 DEF AllowMeansPermitted
<1> QED
    BY <1>2, RequestInvariant, PTL

\* ExecutedOnRecentAllow: the validity starts before the evidence is read again, and the block it
\* is read at is no further behind than the confirmations.  The moment of the signature is free.
THEOREM ExecutionsAreRecent == Spec => []ExecutedOnRecentAllow
<1>1. IInv => ExecutedOnRecentAllow
    BY DEF IInv, ExecutedHold, ExecutedOnRecentAllow
<1> QED
    BY <1>1, RequestInvariant, PTL

\* ActivationIsFar: the window less one validity and the confirmations separates an execution from an activation.
THEOREM ActivationsAreFar == Spec => []ActivationIsFar
<1>1. IInv => ActivationIsFar
    BY DEF IInv, ExecutedHold, ActivationIsFar
<1> QED
    BY <1>1, RequestInvariant, PTL

\* OffChainAgrees: the verifier off the chain accepts what the chain would.
THEOREM VerifierAgrees == Spec => []OffChainAgrees
<1>1. IInv => OffChainAgrees
    BY DEF IInv, DeliveredHold, Sound, Bound, OffChainAgrees, Accepts, Within, VerifyB20Receipt
<1> QED
    BY <1>1, RequestInvariant, PTL

-----------------------------------------------------------------------------
\* One outcome per key.

\* An undecided row has no decision, and its receipt is one that was signed.
RowsInOrder ==
    \A key \in Keys : intents[key] # None =>
        /\ intents[key].status = "PENDING" => intents[key].decision = None
        /\ Receipts[key] \subseteq 1..issued

\* Two rows name different receipts.
OneKeyEach == \A key, other \in Keys : Receipts[key] \cap Receipts[other] # {} => key = other

\* A process with a receipt that is no row's, bound or signed.
Signs(c) == callers[c].pc \in {"signing", "signed"}
SignedId(c) ==
    IF callers[c].pc = "signing" THEN callers[c].draft.id ELSE callers[c].receipt.receipt.id

\* A receipt on its way to its row is no row's yet, and is one process's alone.
SignedAreApart ==
    \A c \in Callers : Signs(c) =>
        /\ \A key \in Keys : SignedId(c) \notin Receipts[key]
        /\ \A d \in Callers : Signs(d) /\ SignedId(d) = SignedId(c) => d = c

ConsumedAreNamed == \A id \in adapter.consumed : \E key \in Keys : id \in Receipts[key]

Apart == RowsInOrder /\ OneKeyEach /\ SignedAreApart /\ ConsumedAreNamed

\* The cells of a row, before a step and after it.
LEMMA CellsAre ==
    ASSUME NEW key \in Keys
    PROVE  /\ Questions[key] = IF intents[key] = None THEN {} ELSE Content(intents[key].request)
           /\ Rulings[key] = IF intents[key] = None THEN {} ELSE Content(intents[key].decision)
           /\ Receipts[key] = IF intents[key] = None THEN {} ELSE Content(intents[key].receipt)
BY DEF Questions, Rulings, Receipts, Column

LEMMA NextCellsAre ==
    ASSUME NEW key \in Keys
    PROVE  /\ Questions'[key] = IF intents'[key] = None THEN {}
                                ELSE Content(intents'[key].request)
           /\ Rulings'[key] = IF intents'[key] = None THEN {}
                              ELSE Content(intents'[key].decision)
           /\ Receipts'[key] = IF intents'[key] = None THEN {}
                               ELSE Content(intents'[key].receipt)
BY DEF Questions, Rulings, Receipts, Column

LEMMA CellsOfKeys ==
    /\ Questions = [key \in Keys |-> Questions[key]] /\ Questions' = [key \in Keys |-> Questions'[key]]
    /\ Rulings = [key \in Keys |-> Rulings[key]] /\ Rulings' = [key \in Keys |-> Rulings'[key]]
    /\ Receipts = [key \in Keys |-> Receipts[key]] /\ Receipts' = [key \in Keys |-> Receipts'[key]]
BY DEF Questions, Rulings, Receipts, Column

LEMMA SameContent ==
    ASSUME NEW f, NEW g, f = [l \in Keys |-> f[l]], g = [l \in Keys |-> g[l]],
           \A l \in Keys : g[l] = f[l]
    PROVE  g = f
OBVIOUS

LEMMA SameCells ==
    ASSUME UNCHANGED intents
    PROVE  UNCHANGED <<Questions, Rulings, Receipts>>
BY DEF Questions, Rulings, Receipts, Column

\* A cell that gets its first content, and the others keep theirs.
LEMMA FirstContent ==
    ASSUME NEW f, NEW g, NEW k \in Keys, NEW x,
           f = [l \in Keys |-> f[l]], g = [l \in Keys |-> g[l]],
           g[k] = {x}, \A l \in Keys \ {k} : g[l] = f[l]
    PROVE  g = [f EXCEPT ![k] = {x}]
OBVIOUS

\* A named receipt is in a row's cell.
LEMMA NamedIsReceipt ==
    ASSUME NEW id \in Nat, Named(id)
    PROVE  \E key \in Keys : id \in Receipts[key]
<1>1. id # None
    BY Readings
<1>2. PICK key \in Keys : intents[key] # None /\ intents[key].receipt = id
    BY DEF Named
<1>3. id \in Receipts[key]
    BY <1>1, <1>2, CellsAre DEF Content
<1> QED
    BY <1>3

\* The rows do not change, and nobody comes to hold a receipt that was just bound.
LEMMA ApartStays ==
    ASSUME Apart, UNCHANGED <<intents, issued>>, adapter'.consumed = adapter.consumed,
           \A c \in Callers : Signs(c)' => Signs(c) /\ SignedId(c)' = SignedId(c)
    PROVE  Apart'
<1>1. UNCHANGED Receipts
    BY SameCells
<1>2. RowsInOrder' /\ OneKeyEach'
    BY <1>1 DEF Apart, RowsInOrder, OneKeyEach
<1>3. SignedAreApart'
    BY <1>1 DEF Apart, SignedAreApart
<1>4. ConsumedAreNamed'
    BY <1>1 DEF Apart, ConsumedAreNamed
<1> QED
    BY <1>2, <1>3, <1>4 DEF Apart

LEMMA OutcomeStays ==
    ASSUME UNCHANGED <<intents, delivered>>, adapter'.consumed = adapter.consumed
    PROVE  UNCHANGED Outcome!vars
BY SameCells DEF Outcome!vars, InHand, Used

LEMMA StepsAlone ==
    ASSUME IInv, NEW c \in Callers, NEW m, Steps(c, m)
    PROVE  /\ callers'[c] = m /\ \A d \in Callers \ {c} : callers'[d] = callers[d]
           /\ UNCHANGED <<delivered, adapter>>
BY DEF Steps, executions, IInv, Types

\* A row that is written, and the cells it shows.
LEMMA RowIsWritten ==
    ASSUME IInv, NEW key \in Keys, NEW row, row # None, intents' = [intents EXCEPT ![key] = row]
    PROVE  /\ intents'[key] = row
           /\ Questions'[key] = Content(row.request)
           /\ Rulings'[key] = Content(row.decision)
           /\ Receipts'[key] = Content(row.receipt)
           /\ \A l \in Keys \ {key} : /\ intents'[l] = intents[l]
                                      /\ Questions'[l] = Questions[l]
                                      /\ Rulings'[l] = Rulings[l]
                                      /\ Receipts'[l] = Receipts[l]
<1>1. intents'[key] = row /\ \A l \in Keys \ {key} : intents'[l] = intents[l]
    BY DEF IInv, Types
<1>2. /\ Questions'[key] = Content(row.request) /\ Rulings'[key] = Content(row.decision)
      /\ Receipts'[key] = Content(row.receipt)
    BY <1>1, NextCellsAre
<1>3. ASSUME NEW l \in Keys \ {key}
      PROVE  Questions'[l] = Questions[l] /\ Rulings'[l] = Rulings[l] /\ Receipts'[l] = Receipts[l]
    BY <1>1, CellsAre, NextCellsAre
<1> QED
    BY <1>1, <1>2, <1>3

\* What no receipt is written or used by leaves what is in hand and what is used.
LEMMA SameReceipts ==
    ASSUME UNCHANGED <<delivered, adapter>>, \A key \in Keys : Receipts'[key] = Receipts[key]
    PROVE  UNCHANGED <<Receipts, InHand, Used>>
<1>1. UNCHANGED Receipts
    BY CellsOfKeys, SameContent
<1> QED
    BY <1>1 DEF InHand, Used

\* A process that moves on without a signature writes nothing and signs nothing.
LEMMA MoveIsApart ==
    ASSUME IInv, Apart, NEW c \in Callers, NEW m, Steps(c, m), m.pc \notin {"signing", "signed"},
           UNCHANGED <<intents, issued>>
    PROVE  Apart' /\ UNCHANGED Outcome!vars
<1>1. /\ callers'[c] = m /\ \A d \in Callers \ {c} : callers'[d] = callers[d]
      /\ UNCHANGED <<delivered, adapter>>
    BY StepsAlone
<1>2. \A d \in Callers : Signs(d)' => Signs(d) /\ SignedId(d)' = SignedId(d)
    BY <1>1 DEF Signs, SignedId
<1> QED
    BY <1>1, <1>2, ApartStays, OutcomeStays

LEMMA ClaimIsApart ==
    ASSUME IInv, Apart, NEW c \in Callers, Claim(c)
    PROVE  Apart' /\ (UNCHANGED Outcome!vars \/ \E key \in Keys : Outcome!Ask(key))
<1>1. PICK key \in Keys, amount \in Amounts :
          LET op == Operation(amount)
              outcome == ClaimPreflightIntent(intents[key], op)
          IN  /\ outcome \in {"CLAIMED", "REPLAYED"}
              /\ IF outcome = "CLAIMED"
                 THEN /\ intents' = [intents EXCEPT ![key] = Row(op)]
                      /\ Steps(c, [pc |-> "claimed", key |-> key, op |-> op])
                 ELSE /\ Steps(c, [pc |-> "answered", key |-> key, op |-> op,
                                   decision |-> intents[key].decision])
                      /\ UNCHANGED intents
              /\ UNCHANGED <<issued, permitted>>
    BY DEF Claim
<1> DEFINE op == Operation(amount)
<1>2. op \in Operations /\ CanonicalizeB20Operation(op) = op /\ op # None
    BY CanonicalIsWhole, Readings DEF Operations
<1>3. CASE ClaimPreflightIntent(intents[key], op) = "CLAIMED"
  <2> DEFINE row == Row(op)
             m == [pc |-> "claimed", key |-> key, op |-> op]
  <2>1. /\ intents[key] = None /\ intents' = [intents EXCEPT ![key] = row]
        /\ Steps(c, m) /\ UNCHANGED <<issued, permitted>>
      BY <1>1, <1>3 DEF ClaimPreflightIntent
  <2>2. /\ row # None /\ row.request = op /\ row.decision = None /\ row.receipt = None
        /\ row.status = "PENDING"
      BY <1>2, Readings DEF Row, IntentRows, Operations
  <2> HIDE DEF row
  <2>3. Questions[key] = {} /\ Rulings[key] = {} /\ Receipts[key] = {}
      BY <2>1, CellsAre
  <2>4. /\ intents'[key] = row /\ Questions'[key] = {op} /\ Rulings'[key] = {}
        /\ Receipts'[key] = {}
        /\ \A l \in Keys \ {key} : /\ intents'[l] = intents[l] /\ Questions'[l] = Questions[l]
                                   /\ Rulings'[l] = Rulings[l] /\ Receipts'[l] = Receipts[l]
    <3>1. Content(op) = {op} /\ Content(None) = {}
        BY <1>2 DEF Content
    <3>2. /\ intents'[key] = row /\ Questions'[key] = Content(row.request)
          /\ Rulings'[key] = Content(row.decision) /\ Receipts'[key] = Content(row.receipt)
          /\ \A l \in Keys \ {key} : /\ intents'[l] = intents[l] /\ Questions'[l] = Questions[l]
                                     /\ Rulings'[l] = Rulings[l] /\ Receipts'[l] = Receipts[l]
        BY <2>1, <2>2, RowIsWritten
    <3> QED
        BY <2>2, <3>1, <3>2
  <2>5. /\ callers'[c].pc = "claimed" /\ \A d \in Callers \ {c} : callers'[d] = callers[d]
        /\ UNCHANGED <<delivered, adapter>>
      BY <2>1, StepsAlone
  <2>6. UNCHANGED <<Receipts, InHand, Used>>
      BY <2>3, <2>4, <2>5, SameReceipts
  <2>7. UNCHANGED Rulings
      BY <2>3, <2>4, CellsOfKeys, SameContent
  <2>8. Questions' = [Questions EXCEPT ![key] = {op}]
      BY <2>4, CellsOfKeys, FirstContent
  <2>9. Outcome!Ask(key)
      BY <2>3, <2>4, <2>6, <2>7, <2>8 DEF Outcome!Ask, Outcome!Written
  <2>10. RowsInOrder'
      BY <2>1, <2>2, <2>3, <2>4, <2>6 DEF Apart, RowsInOrder
  <2>11. OneKeyEach' /\ ConsumedAreNamed'
      BY <2>5, <2>6 DEF Apart, OneKeyEach, ConsumedAreNamed
  <2>12. SignedAreApart'
      BY <2>5, <2>6 DEF Apart, SignedAreApart, Signs, SignedId
  <2> QED
      BY <2>9, <2>10, <2>11, <2>12 DEF Apart
<1>4. CASE ClaimPreflightIntent(intents[key], op) # "CLAIMED"
  <2> DEFINE m == [pc |-> "answered", key |-> key, op |-> op,
                   decision |-> intents[key].decision]
  <2>1. Steps(c, m) /\ UNCHANGED intents /\ UNCHANGED <<issued, permitted>>
      BY <1>1, <1>4
  <2>2. m.pc \notin {"signing", "signed"}
      OBVIOUS
  <2> HIDE DEF m
  <2> QED
      BY <2>1, <2>2, MoveIsApart
<1> QED
    BY <1>3, <1>4

LEMMA RecordIsApart ==
    ASSUME IInv, Apart, NEW c \in Callers, RecordPreflightDecision(c)
    PROVE  Apart' /\ (UNCHANGED Outcome!vars \/ \E key \in Keys : Outcome!Decide(key))
<1> PICK key : key = callers[c].key
    OBVIOUS
<1> DEFINE row == [intents[key] EXCEPT !.status = "DECIDED", !.decision = callers[c].decision]
           m == [callers[c] EXCEPT !.pc = "answered"]
<1>1. /\ Types /\ Serving(c) /\ Shape(c) /\ callers[c].pc = "decided"
      /\ UNCHANGED <<issued, permitted>>
    BY DEF IInv, CallersHold, RecordPreflightDecision
<1>2. CASE intents[key].status # "PENDING"
  <2>1. Steps(c, Idle) /\ UNCHANGED intents
      BY <1>2 DEF RecordPreflightDecision
  <2> QED
      BY <1>1, <2>1, MoveIsApart DEF Idle
<1>3. CASE intents[key].status = "PENDING"
  <2>1. intents' = [intents EXCEPT ![key] = row] /\ Steps(c, m)
      BY <1>3 DEF RecordPreflightDecision
  <2>2. /\ key \in Keys /\ intents[key] # None /\ intents[key] \in IntentRows
        /\ callers[c].decision \in Decisions /\ intents[key].request = callers[c].op
        /\ callers[c].op \in Operations
      BY <1>1 DEF Types, Serving, Shape
  <2>3. /\ row \in IntentRows /\ row.request = callers[c].op /\ row.status = "DECIDED"
        /\ row.decision = callers[c].decision /\ row.receipt = intents[key].receipt
      BY <2>2 DEF IntentRows
  <2>4. row # None /\ callers[c].op # None /\ callers[c].decision # None
      BY <2>2, <2>3, Readings DEF Operations
  <2>5. intents[key].decision = None
      BY <1>3, <2>2 DEF Apart, RowsInOrder
  <2>6. m.pc \notin {"signing", "signed"}
      BY <1>1 DEF Shape
  <2> HIDE DEF row, m
  <2>7. /\ Questions[key] = {callers[c].op} /\ Rulings[key] = {}
        /\ Receipts[key] = Content(intents[key].receipt)
    <3>1. /\ Questions[key] = Content(intents[key].request)
          /\ Rulings[key] = Content(intents[key].decision)
          /\ Receipts[key] = Content(intents[key].receipt)
        BY <2>2, CellsAre
    <3> QED
        BY <2>2, <2>4, <2>5, <3>1 DEF Content
  <2>8. /\ intents'[key] = row /\ Questions'[key] = {callers[c].op}
        /\ Rulings'[key] = {callers[c].decision} /\ Receipts'[key] = Receipts[key]
        /\ \A l \in Keys \ {key} : /\ intents'[l] = intents[l] /\ Questions'[l] = Questions[l]
                                   /\ Rulings'[l] = Rulings[l] /\ Receipts'[l] = Receipts[l]
    <3>1. /\ Content(callers[c].op) = {callers[c].op}
          /\ Content(callers[c].decision) = {callers[c].decision}
        BY <2>4 DEF Content
    <3>2. /\ intents'[key] = row /\ Questions'[key] = Content(row.request)
          /\ Rulings'[key] = Content(row.decision) /\ Receipts'[key] = Content(row.receipt)
          /\ \A l \in Keys \ {key} : /\ intents'[l] = intents[l] /\ Questions'[l] = Questions[l]
                                     /\ Rulings'[l] = Rulings[l] /\ Receipts'[l] = Receipts[l]
        BY <2>1, <2>2, <2>4, RowIsWritten
    <3> QED
        BY <2>3, <2>7, <3>1, <3>2
  <2>9. /\ callers'[c] = m /\ \A d \in Callers \ {c} : callers'[d] = callers[d]
        /\ UNCHANGED <<delivered, adapter>>
      BY <2>1, StepsAlone
  <2>10. UNCHANGED <<Receipts, InHand, Used>>
      BY <2>8, <2>9, SameReceipts
  <2>11. UNCHANGED Questions
    <3>1. \A l \in Keys : Questions'[l] = Questions[l]
        BY <2>7, <2>8
    <3> QED
        BY <3>1, CellsOfKeys, SameContent
  <2>12. Rulings' = [Rulings EXCEPT ![key] = {callers[c].decision}]
      BY <2>2, <2>8, CellsOfKeys, FirstContent
  <2>13. Outcome!Decide(key)
      BY <2>7, <2>8, <2>10, <2>11, <2>12 DEF Outcome!Decide, Outcome!Written
  <2>14. RowsInOrder'
      BY <1>1, <2>2, <2>3, <2>8, <2>10 DEF Apart, RowsInOrder
  <2>15. OneKeyEach' /\ ConsumedAreNamed'
      BY <2>9, <2>10 DEF Apart, OneKeyEach, ConsumedAreNamed
  <2>16. SignedAreApart'
      BY <2>6, <2>9, <2>10 DEF Apart, SignedAreApart, Signs, SignedId
  <2>17. Apart'
      BY <2>14, <2>15, <2>16 DEF Apart
  <2> QED
      BY <2>2, <2>13, <2>17
<1> QED
    BY <1>2, <1>3

\* Binding gives an identifier that no row names and nobody holds.
LEMMA ReverifyIsApart ==
    ASSUME IInv, Apart, NEW c \in Callers, Reverify(c)
    PROVE  Apart' /\ UNCHANGED Outcome!vars
<1> DEFINE op == callers[c].op
           params == ReceiptParams(op, issued + 1, callers[c].since, callers[c].since + Ttl)
<1>1. PICK reachable \in BOOLEAN :
        LET bound == Issue(params, Reverification(c, reachable), MaxReverification)
        IN  IF bound = {}
            THEN Steps(c, Idle) /\ UNCHANGED <<issued, permitted>>
            ELSE /\ issued' = issued + 1
                 /\ \E r \in bound :
                     Steps(c, [pc |-> "signing", key |-> callers[c].key, op |-> op,
                               draft |-> r])
    BY DEF Reverify
<1> DEFINE bound == Issue(params, Reverification(c, reachable), MaxReverification)
<1>2. CASE bound = {}
  <2>1. Steps(c, Idle) /\ UNCHANGED <<intents, issued>>
      BY <1>1, <1>2 DEF Reverify
  <2> QED
      BY <2>1, MoveIsApart DEF Idle
<1>3. CASE bound # {}
  <2>1. PICK r \in bound :
            /\ issued' = issued + 1
            /\ Steps(c, [pc |-> "signing", key |-> callers[c].key, op |-> op, draft |-> r])
      BY <1>1, <1>3
  <2>2. r.id = issued + 1
      BY <2>1, BoundFields DEF Issue
  <2> HIDE DEF bound, params, op
  <2>3. /\ Signs(c)' /\ SignedId(c)' = issued + 1
        /\ \A d \in Callers \ {c} : callers'[d] = callers[d]
        /\ UNCHANGED <<delivered, adapter>>
      BY <2>1, <2>2, StepsAlone DEF Signs, SignedId
  <2>4. UNCHANGED <<intents, Receipts>> /\ issued \in Nat
      BY SameCells DEF Reverify, IInv, Types
  <2>5. \A key \in Keys : Receipts[key] \subseteq 1..issued
      BY CellsAre DEF Apart, RowsInOrder
  <2>6. \A d \in Callers : Signs(d) => SignedId(d) \in 1..issued
      BY DEF IInv, CallersHold, Holding, Sound, Bound, Signs, SignedId
  <2>7. issued + 1 \notin 1..issued /\ 1..issued \subseteq 1..issued'
      BY <2>1, <2>4
  <2>8. RowsInOrder'
      BY <2>4, <2>5, <2>7 DEF Apart, RowsInOrder
  <2>9. OneKeyEach' /\ ConsumedAreNamed'
      BY <2>3, <2>4 DEF Apart, OneKeyEach, ConsumedAreNamed
  <2>10. SignedAreApart'
    <3>1. \A d \in Callers \ {c} : (Signs(d)' <=> Signs(d)) /\ SignedId(d)' = SignedId(d)
        BY <2>3 DEF Signs, SignedId
    <3>2. \A key \in Keys : issued + 1 \notin Receipts[key]
        BY <2>5, <2>7
    <3>3. \A d \in Callers \ {c} : Signs(d) => SignedId(d) # issued + 1
        BY <2>6, <2>7
    <3> QED
        BY <2>3, <2>4, <3>1, <3>2, <3>3 DEF Apart, SignedAreApart
  <2>11. Apart'
      BY <2>8, <2>9, <2>10 DEF Apart
  <2> QED
      BY <2>3, <2>4, <2>11, OutcomeStays
<1> QED
    BY <1>2, <1>3

\* The signature is under the identifier the receipt was bound with.
LEMMA SignIsApart ==
    ASSUME IInv, Apart, NEW c \in Callers, Sign(c)
    PROVE  Apart' /\ UNCHANGED Outcome!vars
<1> PICK r : r = callers[c].draft
    OBVIOUS
<1> DEFINE m == [pc |-> "signed", key |-> callers[c].key, op |-> callers[c].op,
                 receipt |-> Signed(r, "k")]
<1>1. callers[c].pc = "signing" /\ Steps(c, m) /\ UNCHANGED <<intents, issued>>
    BY DEF Sign
<1>2. /\ callers'[c] = m /\ \A d \in Callers \ {c} : callers'[d] = callers[d]
      /\ UNCHANGED <<delivered, adapter>>
    BY <1>1, StepsAlone
<1>3. Signs(c) /\ SignedId(c)' = SignedId(c)
    BY <1>1, <1>2 DEF Signs, SignedId, Signed
<1>4. \A d \in Callers : Signs(d)' => Signs(d) /\ SignedId(d)' = SignedId(d)
    BY <1>2, <1>3 DEF Signs, SignedId
<1> QED
    BY <1>1, <1>2, <1>4, ApartStays, OutcomeStays

\* A row names its receipt once, and the receipt was nobody's.
LEMMA AttachIsApart ==
    ASSUME IInv, Apart, NEW c \in Callers, AttachReceipt(c)
    PROVE  Apart' /\ (UNCHANGED Outcome!vars \/ \E key \in Keys : Outcome!Issue(key))
<1> PICK key : key = callers[c].key
    OBVIOUS
<1> PICK id : id = callers[c].receipt.receipt.id
    OBVIOUS
<1> DEFINE row == [intents[key] EXCEPT !.receipt = id]
           m == [callers[c] EXCEPT !.pc = "attached"]
<1>1. /\ Types /\ Serving(c) /\ Shape(c) /\ Holding(c) /\ callers[c].pc = "signed"
      /\ UNCHANGED <<issued, permitted>>
    BY DEF IInv, CallersHold, AttachReceipt
<1>2. CASE ~MayAttach(intents[key])
  <2>1. Steps(c, Idle) /\ UNCHANGED intents
      BY <1>2 DEF AttachReceipt
  <2> QED
      BY <1>1, <2>1, MoveIsApart DEF Idle
<1>3. CASE MayAttach(intents[key])
  <2>1. intents' = [intents EXCEPT ![key] = row] /\ Steps(c, m)
      BY <1>3 DEF AttachReceipt
  <2>2. /\ key \in Keys /\ intents[key] # None /\ intents[key] \in IntentRows
        /\ intents[key].receipt = None /\ intents[key].decision = "ALLOW"
        /\ id \in 1..issued /\ issued \in Nat
      BY <1>1, <1>3 DEF Types, Serving, Holding, Sound, Bound, MayAttach
  <2>3. /\ row \in IntentRows /\ row.request = intents[key].request
        /\ row.status = intents[key].status /\ row.decision = "ALLOW" /\ row.receipt = id
      BY <2>2 DEF IntentRows
  <2>4. row # None /\ id # None /\ "ALLOW" # None
      BY <2>2, <2>3, Readings DEF Decisions
  <2>5. /\ \A other \in Keys : id \notin Receipts[other]
        /\ \A d \in Callers : Signs(d) /\ SignedId(d) = id => d = c
      BY <1>1 DEF Apart, SignedAreApart, Signs, SignedId
  <2>6. m.pc = "attached"
      BY <1>1 DEF Shape
  <2> HIDE DEF row, m
  <2>7. /\ Questions[key] = Content(intents[key].request) /\ Rulings[key] = {"ALLOW"}
        /\ Receipts[key] = {}
    <3>1. /\ Questions[key] = Content(intents[key].request)
          /\ Rulings[key] = Content(intents[key].decision)
          /\ Receipts[key] = Content(intents[key].receipt)
        BY <2>2, CellsAre
    <3> QED
        BY <2>2, <2>4, <3>1 DEF Content
  <2>8. /\ intents'[key] = row /\ Questions'[key] = Questions[key]
        /\ Rulings'[key] = {"ALLOW"} /\ Receipts'[key] = {id}
        /\ \A l \in Keys \ {key} : /\ intents'[l] = intents[l] /\ Questions'[l] = Questions[l]
                                   /\ Rulings'[l] = Rulings[l] /\ Receipts'[l] = Receipts[l]
    <3>1. Content("ALLOW") = {"ALLOW"} /\ Content(id) = {id}
        BY <2>4 DEF Content
    <3>2. /\ intents'[key] = row /\ Questions'[key] = Content(row.request)
          /\ Rulings'[key] = Content(row.decision) /\ Receipts'[key] = Content(row.receipt)
          /\ \A l \in Keys \ {key} : /\ intents'[l] = intents[l] /\ Questions'[l] = Questions[l]
                                     /\ Rulings'[l] = Rulings[l] /\ Receipts'[l] = Receipts[l]
        BY <2>1, <2>2, <2>4, RowIsWritten
    <3> QED
        BY <2>3, <2>7, <3>1, <3>2
  <2>9. /\ callers'[c] = m /\ \A d \in Callers \ {c} : callers'[d] = callers[d]
        /\ UNCHANGED <<delivered, adapter>>
      BY <2>1, StepsAlone
  <2>10. UNCHANGED <<Questions, Rulings>>
    <3>1. \A l \in Keys : Questions'[l] = Questions[l] /\ Rulings'[l] = Rulings[l]
        BY <2>7, <2>8
    <3> QED
        BY <3>1, CellsOfKeys, SameContent
  <2>11. Receipts' = [Receipts EXCEPT ![key] = {id}]
      BY <2>2, <2>8, CellsOfKeys, FirstContent
  <2>12. UNCHANGED InHand
    <3>1. \A signed \in delivered : signed.receipt.id # id
      <4>1. ASSUME NEW signed \in delivered
            PROVE  \E other \in Keys : signed.receipt.id \in Receipts[other]
          BY NamedIsReceipt DEF IInv, DeliveredHold, Sound, Bound, Types
      <4> QED
          BY <2>5, <4>1
    <3>2. \A l \in Keys : (\E signed \in delivered : signed.receipt.id \in Receipts'[l])
                              <=> \E signed \in delivered : signed.receipt.id \in Receipts[l]
        BY <2>7, <2>8, <3>1
    <3> QED
        BY <2>9, <3>2 DEF InHand
  <2>13. UNCHANGED Used
    <3>1. id \notin adapter.consumed
        BY <2>5 DEF Apart, ConsumedAreNamed
    <3>2. \A l \in Keys : Receipts'[l] \cap adapter.consumed = Receipts[l] \cap adapter.consumed
        BY <2>7, <2>8, <3>1
    <3> QED
        BY <2>9, <3>2 DEF Used
  <2>14. Outcome!Issued(key)
    <3>1. \A j \in Keys \ {key} : Receipts[j] \cap Receipts'[key] = {}
        BY <2>5, <2>8
    <3>2. Outcome!Written(Receipts, key)
        BY <2>7, <2>8, <2>11 DEF Outcome!Written
    <3> QED
        BY <2>8, <3>1, <3>2 DEF Outcome!Issued
  <2>15. Outcome!Issue(key)
      BY <2>10, <2>12, <2>13, <2>14 DEF Outcome!Issue
  <2>16. RowsInOrder'
    <3> SUFFICES ASSUME NEW l \in Keys, intents'[l] # None
                 PROVE  /\ intents'[l].status = "PENDING" => intents'[l].decision = None
                        /\ Receipts'[l] \subseteq 1..issued'
        BY DEF RowsInOrder
    <3>1. CASE l = key
        BY <1>1, <2>2, <2>3, <2>8, <3>1 DEF Apart, RowsInOrder
    <3>2. CASE l # key
        BY <1>1, <2>8, <3>2 DEF Apart, RowsInOrder
    <3> QED
        BY <3>1, <3>2
  <2>17. OneKeyEach'
      BY <2>5, <2>8 DEF Apart, OneKeyEach
  <2>18. ConsumedAreNamed'
    <3> SUFFICES ASSUME NEW x \in adapter.consumed PROVE \E l \in Keys : x \in Receipts'[l]
        BY <2>9 DEF ConsumedAreNamed
    <3>1. PICK l \in Keys : x \in Receipts[l]
        BY DEF Apart, ConsumedAreNamed
    <3> QED
        BY <2>7, <2>8, <3>1
  <2>19. SignedAreApart'
    <3>1. ~Signs(c)' /\ \A d \in Callers \ {c} : (Signs(d)' <=> Signs(d)) /\ SignedId(d)' = SignedId(d)
        BY <2>6, <2>9 DEF Signs, SignedId
    <3>2. \A d \in Callers \ {c} : Signs(d) => SignedId(d) # id
        BY <2>5
    <3>3. \A l \in Keys : \A x \in Receipts'[l] : x \in Receipts[l] \/ x = id
        BY <2>8
    <3> QED
        BY <3>1, <3>2, <3>3 DEF Apart, SignedAreApart
  <2>20. Apart'
      BY <2>16, <2>17, <2>18, <2>19 DEF Apart
  <2> QED
      BY <2>2, <2>15, <2>20
<1> QED
    BY <1>2, <1>3

\* The receipt a row names comes into a client's hands.
LEMMA DeliverIsApart ==
    ASSUME IInv, Apart, NEW c \in Callers, Deliver(c)
    PROVE  Apart' /\ \E key \in Keys : Outcome!HandOut(key)
<1> PICK key : key = callers[c].key
    OBVIOUS
<1> PICK signed : signed = callers[c].receipt
    OBVIOUS
<1>1. /\ Types /\ Serving(c) /\ Holding(c) /\ callers[c].pc = "attached"
      /\ delivered' = delivered \cup {signed} /\ callers' = [callers EXCEPT ![c] = Idle]
      /\ UNCHANGED <<intents, issued, adapter>>
    BY DEF IInv, CallersHold, Deliver
<1>2. /\ key \in Keys /\ intents[key] # None /\ intents[key].receipt = signed.receipt.id
      /\ signed.receipt.id \in Nat
    BY <1>1 DEF Serving, Holding, Sound, Bound, Types
<1>3. Receipts[key] = {signed.receipt.id}
    BY <1>2, CellsAre, Readings DEF Content
<1>4. \A l \in Keys : signed.receipt.id \in Receipts[l] => l = key
    BY <1>2, <1>3 DEF Apart, OneKeyEach
<1>5. UNCHANGED <<Questions, Rulings, Receipts>>
    BY <1>1, SameCells
<1>6. InHand' = InHand \cup {key}
    BY <1>1, <1>2, <1>3, <1>4, <1>5 DEF InHand
<1>7. UNCHANGED Used
    BY <1>1, <1>5 DEF Used
<1>8. Outcome!HandOut(key)
    BY <1>3, <1>5, <1>6, <1>7 DEF Outcome!HandOut
<1>9. Apart'
  <2>1. \A d \in Callers : Signs(d)' => Signs(d) /\ SignedId(d)' = SignedId(d)
      BY <1>1 DEF Types, Idle, Signs, SignedId
  <2> QED
      BY <1>1, <2>1, ApartStays
<1> QED
    BY <1>2, <1>8, <1>9

\* The receipt of one row is used, for the first time.
LEMMA ExecuteIsApart ==
    ASSUME IInv, Apart, NEW signed \in delivered, Execute(signed)
    PROVE  Apart' /\ \E key \in Keys : Outcome!Spend(key)
<1> PICK id : id = signed.receipt.id
    OBVIOUS
<1>1. /\ id \notin adapter.consumed /\ adapter'.consumed = adapter.consumed \cup {id}
      /\ UNCHANGED <<intents, callers, issued, delivered>>
    BY DEF Execute, requests, Accepts, IInv, Types
<1>2. id \in Nat /\ Named(id)
    BY DEF IInv, DeliveredHold, Sound, Bound, Types
<1>3. PICK key \in Keys : id \in Receipts[key]
    BY <1>2, NamedIsReceipt
<1>4. Receipts[key] = {id} /\ \A l \in Keys : id \in Receipts[l] => l = key
  <2>1. Receipts[key] = {id}
      BY <1>3, CellsAre DEF Content
  <2> QED
      BY <1>3, <2>1 DEF Apart, OneKeyEach
<1>5. UNCHANGED <<Questions, Rulings, Receipts>>
    BY <1>1, SameCells
<1>6. key \in InHand /\ UNCHANGED InHand
    BY <1>1, <1>3, <1>5 DEF InHand
<1>7. key \notin Used /\ Used' = Used \cup {key}
    BY <1>1, <1>4, <1>5 DEF Used
<1>8. Outcome!Spend(key)
    BY <1>5, <1>6, <1>7 DEF Outcome!Spend
<1>9. RowsInOrder' /\ OneKeyEach'
    BY <1>1, <1>5 DEF Apart, RowsInOrder, OneKeyEach
<1>10. SignedAreApart'
    BY <1>1, <1>5 DEF Apart, SignedAreApart, Signs, SignedId
<1>11. ConsumedAreNamed'
    BY <1>1, <1>3, <1>5 DEF Apart, ConsumedAreNamed
<1> QED
    BY <1>8, <1>9, <1>10, <1>11 DEF Apart

\* The world, the registry and the adapter's owner touch neither row nor receipt.
LEMMA EnvironmentIsApart ==
    ASSUME IInv, Apart, Environment
    PROVE  Apart' /\ UNCHANGED Outcome!vars
<1>1. UNCHANGED <<intents, issued, callers, delivered>> /\ adapter'.consumed = adapter.consumed
  <2>1. CASE Advance \/ PublishRound \/ ToggleSequencer \/ PauseToken \/ PauseIssuer \/ Rename
             \/ EditManifest \/ CallAsset \/ RefreshRegistry
      BY <2>1 DEF Advance, PublishRound, ToggleSequencer, PauseToken, PauseIssuer, Rename,
                  EditManifest, CallAsset, RefreshRegistry, Becomes, Announced, Mined, requests, executions
  <2>2. CASE SetAuthorizedSigner \/ SetAllowedTarget
      BY <2>2 DEF SetAuthorizedSigner, SetAllowedTarget, Configure, requests, IInv, Types
  <2> QED
      BY <2>1, <2>2 DEF Environment
<1>2. \A c \in Callers : Signs(c)' => Signs(c) /\ SignedId(c)' = SignedId(c)
    BY <1>1 DEF Signs, SignedId
<1> QED
    BY <1>1, <1>2, ApartStays, OutcomeStays

LEMMA QuietStepIsApart ==
    ASSUME IInv, Apart, NEW c \in Callers,
           ReadFeed(c) \/ DecideRequest(c) \/ BeginIssue(c) \/ ReadToken(c) \/ Leave(c)
    PROVE  Apart' /\ UNCHANGED Outcome!vars
<1>1. CASE ReadFeed(c)
    BY <1>1, MoveIsApart DEF ReadFeed
<1>2. CASE DecideRequest(c)
    BY <1>2, MoveIsApart DEF DecideRequest
<1>3. CASE BeginIssue(c)
    BY <1>3, MoveIsApart DEF BeginIssue
<1>4. CASE Leave(c)
    BY <1>4, MoveIsApart DEF Leave, Idle
<1>5. CASE ReadToken(c)
    BY <1>5, MoveIsApart DEF ReadToken
<1> QED
    BY <1>1, <1>2, <1>3, <1>4, <1>5

LEMMA StepRefines ==
    ASSUME IInv, Apart, [Next]_vars
    PROVE  Apart' /\ [Outcome!Next]_Outcome!vars
<1> USE DEF Outcome!Next
<1>1. CASE UNCHANGED vars
  <2>1. \A c \in Callers : Signs(c)' => Signs(c) /\ SignedId(c)' = SignedId(c)
      BY <1>1 DEF vars, Signs, SignedId
  <2> QED
      BY <1>1, <2>1, ApartStays, OutcomeStays DEF vars
<1>2. CASE Environment
    BY <1>2, EnvironmentIsApart
<1>3. ASSUME NEW c \in Callers, Serve(c) \/ Leave(c)
      PROVE  Apart' /\ [Outcome!Next]_Outcome!vars
    BY <1>3, ClaimIsApart, QuietStepIsApart, RecordIsApart, ReverifyIsApart, SignIsApart,
       AttachIsApart, DeliverIsApart DEF Serve
<1>4. ASSUME NEW signed \in delivered, Execute(signed)
      PROVE  Apart' /\ [Outcome!Next]_Outcome!vars
    BY <1>4, ExecuteIsApart
<1> QED
    BY <1>1, <1>2, <1>3, <1>4 DEF Next

LEMMA InitRefines ==
    ASSUME Init PROVE Apart /\ Outcome!Init
<1>1. \A key \in Keys : Questions[key] = {} /\ Rulings[key] = {} /\ Receipts[key] = {}
    BY CellsAre DEF Init
<1>2. /\ Questions = Outcome!Empty /\ Rulings = Outcome!Empty /\ Receipts = Outcome!Empty
    BY <1>1 DEF Questions, Rulings, Receipts, Column, Outcome!Empty
<1>3. InHand = {} /\ Used = {}
    BY <1>1 DEF InHand, Used
<1>4. Apart
    BY <1>1 DEF Init, NoAdapter, Idle, Apart, RowsInOrder, OneKeyEach, SignedAreApart, Signs,
                ConsumedAreNamed
<1> QED
    BY <1>2, <1>3, <1>4 DEF Outcome!Init

\* ImplementsOneOutcome: for any number of processes, keys and receipts, each key is asked one
\* question, decided once, given one receipt that is no other key's, and executed once.
THEOREM RefinesOneOutcome == Spec => ImplementsOneOutcome
<1>1. IInv /\ Apart /\ [Next]_vars => Apart' /\ [Outcome!Next]_Outcome!vars
    BY StepRefines
<1>2. Init => Apart /\ Outcome!Init
    BY InitRefines
<1> QED
    BY <1>1, <1>2, RequestInvariant, PTL DEF Spec, ImplementsOneOutcome, Outcome!Spec

=============================================================================
