----------------------------- MODULE B20Reader -----------------------------
(***************************************************************************)
(* Read-only B20 reads: one session at one block of one chain, the probe   *)
(* of what the chain exposes, and the outcome of each read.                *)
(*   packages/b20-reader/src/reader.ts, errors.ts                          *)
(*                                                                         *)
(* A node is [chain, head, replies]; replies gives, for each function, what *)
(* came back: "value", "selector" (a revert carrying the called selector   *)
(* and nothing else), "revert" (any other data), "silent" (no data).       *)
(***************************************************************************)
EXTENDS B20Indexing, B20Lifecycle

Surface ==
    [multiplier |-> "BERYL", toScaledBalance |-> "BERYL", isPaused |-> "BERYL",
     uiMultiplier |-> "COBALT", newUIMultiplier |-> "COBALT", effectiveAt |-> "COBALT"]

StateReads ==
    {"name", "symbol", "decimals", "totalSupply", "multiplier", "WAD_PRECISION",
     "supplyCap", "isPaused", "isB20Initialized"}

CapabilityOutcomes == {"LIVE", "NOT_DIALED", "REVERTED", "UNAVAILABLE"}

\* Exactly the called selector; any other payload is an answer about state.
ClassifyProbe(reply) ==
    CASE reply = "value"    -> "LIVE"
      [] reply = "selector" -> "NOT_DIALED"
      [] reply = "revert"   -> "REVERTED"
      [] reply = "silent"   -> "UNAVAILABLE"

\* toReaderError: only a revert carries data.
ErrorOf(reply) == IF reply = "silent" THEN "RPC_UNAVAILABLE" ELSE "CONTRACT_REVERT"

Ok(value) == [ok |-> TRUE, value |-> value]
Failed(kind) == [ok |-> FALSE, error |-> kind]

\* openB20ReadSession: the chain is asserted first and the block pinned; {} when it throws.
Open(node, expectedChain, confirmations) ==
    IF node.chain # expectedChain THEN {}
    ELSE {[chain |-> node.chain, block |-> SafeHead(node.head, confirmations),
           replies |-> node.replies]}

Probes(session) == [name \in DOMAIN Surface |-> ClassifyProbe(session.replies[name])]

\* Both halves of the pair; partial availability is never rounded up to live.
SummarizeCapabilities(probes) ==
    LET live(names) == \A name \in names : probes[name] = "LIVE"
    IN  [berylLive |-> live({name \in DOMAIN Surface : Surface[name] = "BERYL"}),
         scheduledUpdatesLive |-> live({"newUIMultiplier", "effectiveAt"})]

ProbeCapabilities(session) == SummarizeCapabilities(Probes(session))

\* The reads come one after another and the first that fails is the outcome; which one
\* does not matter to what is derived from it.
Reads(session, names, value) ==
    LET failing == {name \in names : session.replies[name] # "value"}
    IN  IF failing = {} THEN Ok(value)
        ELSE Failed(ErrorOf(session.replies[CHOOSE name \in failing : TRUE]))

\* A token on another scale would break every conversion downstream.
ReadAssetState(session, state) ==
    LET outcome == Reads(session, StateReads, state)
    IN  IF outcome.ok /\ ~state.wadPrecise THEN Failed("MALFORMED_RESPONSE") ELSE outcome

ReadRawBalance(session, balance) == Reads(session, {"balanceOf"}, balance)

\* "Not dialed" is an error and never "nothing pending"; effectiveAt = 0 is nothing pending.
ReadScheduledUpdate(session, asset) ==
    IF ~ProbeCapabilities(session).scheduledUpdatesLive THEN Failed("NOT_DIALED")
    ELSE Reads(session, {"newUIMultiplier", "effectiveAt"},
               IF asset.effectiveAt = 0 THEN None
               ELSE [value |-> asset.newMultiplier, at |-> asset.effectiveAt])

=============================================================================
