-------------------------- MODULE OneOutcomePerKey --------------------------
(***************************************************************************)
(* What an idempotency key promises to whoever uses it, however often the  *)
(* request is sent, whatever fails meanwhile and whichever process serves  *)
(* it: one question, one decision on it, one receipt if the decision       *)
(* allows, which is nobody else's, is given out only when it is recorded   *)
(* and is used once.                                                       *)
(*                                                                         *)
(* Implemented by IdempotentPreflight, where a transaction settles a key   *)
(* at once, and by B20Requests, where each column of the row is written by *)
(* a statement of its own.                                                 *)
(***************************************************************************)
CONSTANT Keys

VARIABLES
    request,    \* for each key, the set of at most one question asked under it
    decision,   \* what was decided on it
    receipt,    \* what was issued for it
    out,        \* keys whose receipt a client holds
    spent       \* keys whose receipt was executed

vars == <<request, decision, receipt, out, spent>>

Empty == [k \in Keys |-> {}]

Init ==
    /\ request = Empty /\ decision = Empty /\ receipt = Empty
    /\ out = {} /\ spent = {}

\* A cell is empty until it is written, and keeps what it was written.
Written(cell, k) ==
    /\ cell[k] = {}
    /\ \E content \in cell'[k] : cell' = [cell EXCEPT ![k] = {content}]

\* Two keys have no receipt in common.
Issued(k) ==
    /\ decision'[k] = {"ALLOW"}
    /\ Written(receipt, k)
    /\ \A j \in Keys \ {k} : receipt[j] \cap receipt'[k] = {}

Ask(k) == Written(request, k) /\ UNCHANGED <<decision, receipt, out, spent>>

Decide(k) ==
    /\ request[k] # {}
    /\ Written(decision, k)
    /\ UNCHANGED <<request, receipt, out, spent>>

Issue(k) == Issued(k) /\ UNCHANGED <<request, decision, out, spent>>

HandOut(k) ==
    /\ receipt[k] # {}
    /\ out' = out \cup {k}
    /\ UNCHANGED <<request, decision, receipt, spent>>

\* All of it in one transaction, whose client may or may not hear of it.
Settle(k) ==
    /\ Written(request, k)
    /\ Written(decision, k)
    /\ Issued(k) \/ UNCHANGED receipt
    /\ out' = out \/ (receipt'[k] # {} /\ out' = out \cup {k})
    /\ UNCHANGED spent

Spend(k) ==
    /\ k \in out
    /\ k \notin spent
    /\ spent' = spent \cup {k}
    /\ UNCHANGED <<request, decision, receipt, out>>

Next ==
    \E k \in Keys : Ask(k) \/ Decide(k) \/ Issue(k) \/ HandOut(k) \/ Settle(k) \/ Spend(k)

Spec == Init /\ [][Next]_vars

=============================================================================
