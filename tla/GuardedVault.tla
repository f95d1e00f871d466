---------------------------- MODULE GuardedVault ----------------------------
(***************************************************************************)
(* What the adapter and the vault promise by themselves, whatever a signing*)
(* key has signed: the adapter's documentation limits its trust in the     *)
(* signers, so nothing here relies on how receipts come about.             *)
(***************************************************************************)
EXTENDS ActionGuardAdapter, FiniteSetsExt

CONSTANTS
    Signable    \* bound of the model: the receipts a key may sign

ASSUME SignableAssumption == Signable \subseteq Receipt

vars == <<assetVars, vaultVars, adapterVars, signed>>

Init ==
    /\ AssetInit
    /\ VaultInit
    /\ AdapterInit
    /\ signed = {}

\* A key signs a receipt: outside the contracts, hence unconstrained.
Sign ==
    /\ \E receipt \in Signable, s \in Signers : signed' = signed \cup {<<receipt, s>>}
    /\ UNCHANGED <<assetVars, vaultVars, adapterVars>>

Next ==
    \/ Sign
    \/ /\ UNCHANGED signed
       /\ \/ AssetNext /\ UNCHANGED <<vaultVars, adapterVars>>
          \/ HolderNext /\ UNCHANGED <<assetVars, adapterVars>>
          \/ AdminNext /\ UNCHANGED <<assetVars, vaultVars>>
          \/ ExecuteSome /\ UNCHANGED assetVars

Spec == Init /\ [][Next]_vars

-----------------------------------------------------------------------------

Used == {e.receipt : e \in executions}

Total(receipts) == MapThenSumSet(LAMBDA r : r.op.amount, receipts)

DepositedFor(h) ==
    Total({r \in Used : r.op.kind = Deposits /\ r.op.recipient = h})

WithdrawnBy(h) ==
    Total({r \in Used : r.op.kind = Withdrawals /\ r.op.caller = h})

\* OwedByReceipts.  An address is owed at most what distinct consumed receipts
\* deposited for it, less what its own receipts took out: no replay, override
\* of a receipt identifier or interleaving of signers credits or debits twice.
OwedByReceipts ==
    \A h \in Holders : credit[h] + WithdrawnBy(h) <= DepositedFor(h)

\* OnlyOwnerDebited.  A step that lowers what an address is owed is that
\* address's own and nobody else's: its escape, or a receipt it is the caller of
\* (performProtectedAction, withdraw).
EscapeOf(h) == \E to \in Holders, n \in HolderAmounts : EscapeWithdraw(h, to, n)

OnlyOwnerDebited ==
    [][\A h \in Holders :
           credit'[h] < credit[h] =>
               IF consumed' = consumed
               THEN EscapeOf(h) /\ \A other \in Holders \ {h} : ~EscapeOf(other)
               ELSE \A e \in executions' :
                        e.receipt.id \in consumed' \ consumed => e.receipt.op.caller = h]_vars

=============================================================================
