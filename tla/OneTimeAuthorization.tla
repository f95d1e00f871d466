------------------------ MODULE OneTimeAuthorization ------------------------
(***************************************************************************)
(* What the guard promises, without saying how: an authorization is given  *)
(* under one multiplier, is spent at most once, and is spent only while    *)
(* that same multiplier is in force.                                       *)
(***************************************************************************)
EXTENDS Naturals

CONSTANTS Ids, NotGranted

VARIABLES
    epoch,      \* the multiplier in force
    granted,    \* under which multiplier each authorization was given
    spent       \* the uses: an authorization and the moment it was used

vars == <<epoch, granted, spent>>

Init ==
    /\ epoch = 0
    /\ granted = [i \in Ids |-> NotGranted]
    /\ spent = {}

ChangeEpoch ==
    /\ epoch' \in Nat
    /\ epoch' > epoch
    /\ UNCHANGED <<granted, spent>>

Grant(i) ==
    /\ granted[i] = NotGranted
    /\ granted' = [granted EXCEPT ![i] = epoch]
    /\ UNCHANGED <<epoch, spent>>

Spend(i) ==
    /\ granted[i] = epoch
    /\ \A use \in spent : use[1] # i
    /\ \E use \in spent' : use[1] = i /\ spent' = spent \cup {use}
    /\ UNCHANGED <<epoch, granted>>

Next ==
    \/ ChangeEpoch
    \/ \E i \in Ids : Grant(i) \/ Spend(i)

Spec == Init /\ [][Next]_vars

=============================================================================
