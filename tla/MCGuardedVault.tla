--------------------------- MODULE MCGuardedVault ---------------------------
(* Bounded instance of GuardedVault: two accounts, two identifiers, one of   *)
(* them signed for two different operations.                                 *)
EXTENDS GuardedVault

CONSTANTS alice, bob, r1, r2, k1, k2

MCOperations ==
    {[caller |-> alice, recipient |-> bob, kind |-> "DEPOSIT", amount |-> 1],
     [caller |-> bob, recipient |-> alice, kind |-> "WITHDRAW", amount |-> 1],
     [caller |-> alice, recipient |-> alice, kind |-> "DEPOSIT", amount |-> 2]}

MCGuardWindows == {<<1, 0>>, <<0, 1>>}
MCDeployedWindow == <<1, 0>>

Op(k, n) == CHOOSE o \in MCOperations : o.kind = k /\ o.amount = n

MCSignable ==
    {[id |-> r1, op |-> Op("DEPOSIT", 1), nonce |-> 0, validAfter |-> 0, validUntil |-> 3],
     [id |-> r1, op |-> Op("DEPOSIT", 2), nonce |-> 1, validAfter |-> 1, validUntil |-> 2],
     [id |-> r2, op |-> Op("WITHDRAW", 1), nonce |-> 1, validAfter |-> 0, validUntil |-> 3]}

=============================================================================
