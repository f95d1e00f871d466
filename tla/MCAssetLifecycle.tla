-------------------------- MODULE MCAssetLifecycle --------------------------
(* Bounded instances of AssetLifecycle. *)
EXTENDS AssetLifecycle

CONSTANTS good, foreign, other

MCAssetOf == [w \in Wrappers |-> IF w = foreign THEN other ELSE Token]

At(multiplier, activation) == [multiplier |-> multiplier, activation |-> activation]

\* The change is still to come, and another multiplier is in force.
MCPending == {At(0, 1)}
MCEarlyOrLate == {At(0, 1), At(0, Absent)}

\* No change is announced; the registry may be a multiplier ahead.
MCChainViews == {At(0, Absent), At(0, 1)}
MCApiViews == {At(0, Absent), At(0, 1), At(1, Absent)}

=============================================================================
