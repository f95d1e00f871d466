------------------------- MODULE ActionGuardAdapter -------------------------
(***************************************************************************)
(* The on-chain guard: it re-verifies a signed receipt against the chain   *)
(* and calls the vault.  contracts/src/ActionGuardAdapter.sol              *)
(*                                                                         *)
(* The adapter trusts its signers only so far, so here a receipt is        *)
(* whatever a signing key signed, with any validity and any nonce.         *)
(* GuardedAction composes the adapter with the API that really signs.      *)
(*                                                                         *)
(* An EIP-712 signature and the operation digest both cover every field, so*)
(* presenting a changed receipt is presenting one that nobody signed.      *)
(***************************************************************************)
EXTENDS CorporateActionAsset, ProtectedVault, FiniteSets

CONSTANTS
    ReceiptIds,     \* receipt identifiers
    Signers,        \* signing keys
    Operations,     \* the operations integrators ask about
    GuardWindows,   \* the <<before, after>> windows the owner may configure
    DeployedWindow, \* the window the constructor was given
    MaxAdmin        \* bound of the model: calls the adapter's owner makes

Deposits == "DEPOSIT"
Withdrawals == "WITHDRAW"

Operation == [caller : Accounts, recipient : Holders,
              kind : {Deposits, Withdrawals}, amount : Nat \ {0}]

ASSUME AdapterAssumption ==
    /\ Operations \subseteq Operation
    /\ GuardWindows \subseteq Nat \X Nat
    /\ DeployedWindow \in GuardWindows
    /\ MaxAdmin \in Nat

VARIABLES
    config,         \* what the owner configures
    consumed,       \* consumed[receiptId]
    signed,         \* every <<receipt, key>> ever signed
    adminCalls,     \* calls of the owner so far, for the bound
    executions      \* history: each movement, when and under which multiplier

adapterVars == <<config, consumed, adminCalls, executions>>

Receipt == [id : ReceiptIds, op : Operations, nonce : Nat,
            validAfter : Nat, validUntil : Nat]

Config == [paused : BOOLEAN, signers : SUBSET Signers, vaultAllowed : BOOLEAN,
           pairProtected : BOOLEAN, window : GuardWindows]

Execution == [receipt : Receipt, at : Nat, under : Nat]

AdapterTypeOK ==
    /\ config \in Config
    /\ consumed \subseteq ReceiptIds
    /\ signed \subseteq Receipt \X Signers
    /\ adminCalls \in Nat
    /\ executions \subseteq Execution

AdapterInit ==
    /\ config = [paused |-> FALSE, signers |-> Signers, vaultAllowed |-> TRUE,
                 pairProtected |-> TRUE, window |-> DeployedWindow]
    /\ consumed = {}
    /\ adminCalls = 0
    /\ executions = {}

-----------------------------------------------------------------------------
\* Administration.  Each call is bounded by MaxAdmin.

Reconfigure(newConfig) ==
    /\ adminCalls < MaxAdmin
    /\ config' = newConfig
    /\ adminCalls' = adminCalls + 1
    /\ UNCHANGED <<consumed, executions>>

SetAuthorizedSigner(s, authorized) ==
    Reconfigure([config EXCEPT !.signers =
                     IF authorized THEN @ \cup {s} ELSE @ \ {s}])

SetAllowedTarget(allowed) == Reconfigure([config EXCEPT !.vaultAllowed = allowed])

\* The pair is either the modelled asset with its wrapper, or another one.  What
\* the wrapper is a wrapper of never changes, so execute's check of it is here too.
SetProtectedPair(modelled) == Reconfigure([config EXCEPT !.pairProtected = modelled])

SetGuardWindow(w) == Reconfigure([config EXCEPT !.window = w])

SetPaused(p) == Reconfigure([config EXCEPT !.paused = p])

AdminNext ==
    \/ \E s \in Signers, b \in BOOLEAN : SetAuthorizedSigner(s, b)
    \/ \E b \in BOOLEAN : SetAllowedTarget(b)
    \/ \E b \in BOOLEAN : SetProtectedPair(b)
    \/ \E w \in GuardWindows : SetGuardWindow(w)
    \/ \E b \in BOOLEAN : SetPaused(b)

-----------------------------------------------------------------------------
\* execute

\* The owner's switches, and the receipt's binding to its caller.
Admitted(receipt, signer, sender) ==
    /\ ~config.paused
    /\ receipt.op.caller = sender
    /\ config.vaultAllowed
    /\ config.pairProtected
    /\ signer \in config.signers

\* Valid at exactly validAfter, expired at exactly validUntil.
WithinValidity(receipt) ==
    receipt.validAfter <= time /\ time < receipt.validUntil

\* Mutant of NotConsumed: the replay check is dropped.
NeverConsumed(receipt) == receipt \in Receipt

NotConsumed(receipt) == receipt.id \notin consumed

\* Mutant of SameEpoch: the nonce is a lower bound.
EpochReached(receipt) == receipt.nonce <= nonce

SameEpoch(receipt) == receipt.nonce = nonce

WindowStart ==
    IF activation > config.window[1] THEN activation - config.window[1] ELSE 0

WindowEnd == activation + config.window[2]

\* InsideGuardWindow and CorporateActionStillPending both revert; a cleared
\* schedule is no instant and has no window.
OutsideGuardWindow ==
    activation # NoSchedule =>
        /\ ~(WindowStart <= time /\ time <= WindowEnd)
        /\ ~(time > WindowEnd)

\* Mutant of PerformProtectedAction: a withdrawal's two addresses change places.
PerformSwapped(op) ==
    \/ op.kind = Deposits /\ Deposit(op.caller, op.recipient, op.amount)
    \/ op.kind = Withdrawals /\ WithdrawCredit(op.recipient, op.caller, op.amount)

\* performProtectedAction: the vault's part of the transaction.
PerformProtectedAction(op) ==
    \/ op.kind = Deposits /\ Deposit(op.caller, op.recipient, op.amount)
    \/ op.kind = Withdrawals /\ WithdrawCredit(op.caller, op.recipient, op.amount)

\* Mutant of MarkConsumed: the receipt is never marked.
MarkNothing(receipt) == {id \in consumed : id # receipt.id}

MarkConsumed(receipt) == consumed \cup {receipt.id}

Execute(receipt, signer, sender) ==
    /\ <<receipt, signer>> \in signed
    /\ Admitted(receipt, signer, sender)
    /\ WithinValidity(receipt)
    /\ NotConsumed(receipt)
    /\ SameEpoch(receipt)
    /\ OutsideGuardWindow
    /\ consumed' = MarkConsumed(receipt)
    /\ PerformProtectedAction(receipt.op)
    /\ executions' = executions \cup
           {[receipt |-> receipt, at |-> time, under |-> effective]}
    /\ UNCHANGED <<config, adminCalls>>

\* A receipt's caller submits it; anyone else's submission reverts.
ExecuteSome ==
    \E rs \in signed, sender \in Accounts : Execute(rs[1], rs[2], sender)

=============================================================================
