------------------------------ MODULE B20Asset ------------------------------
(***************************************************************************)
(* The B20 fixture: a multiplier, at most one scheduled update, which      *)
(* takes effect by the clock and without an event, and the calls' logs.    *)
(*   contracts/src/fixtures/B20FixtureAsset.sol                            *)
(***************************************************************************)
EXTENDS B20Lifecycle

\* effectiveAt = 0: nothing is scheduled.  Nothing but a call resets it.
Deployed(value) == [multiplier |-> value, newMultiplier |-> 0, effectiveAt |-> 0]

MultiplierOf(asset, time) ==
    IF asset.effectiveAt # 0 /\ time >= asset.effectiveAt THEN asset.newMultiplier
    ELSE asset.multiplier

ClearSchedule(asset) == [asset EXCEPT !.newMultiplier = 0, !.effectiveAt = 0]

\* A call is [kind, value, at]; NoCall is a block that does not touch the asset.
NoCall == [kind |-> "none", value |-> 0, at |-> 0]
UpdateMultiplier(value) == [NoCall EXCEPT !.kind = "instant", !.value = value]
UpdateUIMultiplier(value, at) == [kind |-> "schedule", value |-> value, at |-> at]
CancelUIMultiplierUpdate == [NoCall EXCEPT !.kind = "cancel"]

Reverts(asset, call, time) ==
    \/ call.kind = "schedule" /\ (call.at <= time \/ asset.effectiveAt # 0)
    \/ call.kind = "cancel" /\ asset.effectiveAt = 0

AfterCall(asset, call) ==
    CASE call.kind = "none"     -> asset
      [] call.kind = "instant"  -> [ClearSchedule(asset) EXCEPT !.multiplier = call.value]
      [] call.kind = "schedule" ->
            [asset EXCEPT !.newMultiplier = call.value, !.effectiveAt = call.at]
      [] call.kind = "cancel"   -> ClearSchedule(asset)

\* A log of a block [number, hash]; a block's timestamp is its height.
Log(ref, log, kind, old, new, at) ==
    [kind |-> kind, hash |-> ref.hash, block |-> ref.number, tx |-> 0, log |-> log,
     time |-> ref.number, old |-> old, new |-> new, effectiveAt |-> at]

\* An instant update reports its new value as the old one too: it has been stored.
Emitted(asset, call, ref) ==
    LET cancelled == IF asset.effectiveAt = 0 THEN {}
                     ELSE {Log(ref, 0, "CANCELLED", None, None, None)}
    IN  CASE call.kind = "none"     -> {}
          [] call.kind = "instant"  ->
                cancelled \cup {Log(ref, 1, "LEGACY", None, call.value, None),
                                Log(ref, 2, "UPDATED", call.value, call.value, ref.number)}
          [] call.kind = "schedule" ->
                {Log(ref, 0, "UPDATED", asset.multiplier, call.value, call.at)}
          [] call.kind = "cancel"   -> cancelled

=============================================================================
