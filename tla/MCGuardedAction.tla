--------------------------- MODULE MCGuardedAction --------------------------
(* Bounded instances of GuardedAction. *)
EXTENDS GuardedAction

CONSTANTS alice, key, r1

MCOperations ==
    {[caller |-> alice, recipient |-> alice, kind |-> "DEPOSIT", amount |-> 1]}

MCGuardWindows == {<<1, 1>>}
MCDeployedWindow == <<1, 1>>

MCFailureSets == {{}, {"nonce"}, {"activation"}, {"identity"}}

=============================================================================
