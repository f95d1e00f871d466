--------------------------- MODULE ProtectedVault ---------------------------
(***************************************************************************)
(* The guarded vault and the token balances behind it.                     *)
(* contracts/src/ProtectedVault.sol, and the ERC-20 side of                *)
(* contracts/src/fixtures/FixtureAsset.sol.                                *)
(*                                                                         *)
(* A call that reverts leaves no trace, so a reverting branch is an action *)
(* that is not enabled.  Holders are taken to have approved the vault; a   *)
(* missing allowance is one more way for a deposit to revert.              *)
(***************************************************************************)
EXTENDS Naturals, Functions, FiniteSets

CONSTANTS
    Accounts,       \* externally owned accounts
    Vault,          \* the vault's own address
    FaucetLimit,    \* FAUCET_LIMIT_PER_ADDRESS
    InitialBalance, \* bound of the model: tokens each account starts with
    HolderAmounts   \* bound of the model: amounts holders move on their own

ASSUME VaultAssumption ==
    /\ IsFiniteSet(Accounts)       \* an address has twenty bytes
    /\ Vault \notin Accounts
    /\ FaucetLimit \in Nat
    /\ InitialBalance \in Nat
    /\ HolderAmounts \subseteq Nat

VARIABLES
    wallet,         \* the token's balanceOf; wallet[Vault] is what the vault holds
    faucetMinted,   \* faucetMinted of the token
    credit,         \* the vault's balanceOf: what it owes each address
    totalDeposited  \* the vault's running total

vaultVars == <<wallet, faucetMinted, credit, totalDeposited>>

Holders == Accounts \cup {Vault}

VaultTypeOK ==
    /\ wallet \in [Holders -> Nat]
    /\ faucetMinted \in [Accounts -> Nat]
    /\ credit \in [Holders -> Nat]
    /\ totalDeposited \in Nat

VaultInit ==
    /\ wallet = [h \in Holders |-> IF h = Vault THEN 0 ELSE InitialBalance]
    /\ faucetMinted = [a \in Accounts |-> 0]
    /\ credit = [h \in Holders |-> 0]
    /\ totalDeposited = 0

\* An ERC-20 transfer.  A transfer to oneself leaves the balances alone.
Moved(balances, from, to, amount) ==
    IF from = to THEN balances
    ELSE [balances EXCEPT ![from] = @ - amount, ![to] = @ + amount]

-----------------------------------------------------------------------------

\* faucet: a capped mint.
Faucet(a, amount) ==
    /\ faucetMinted[a] + amount <= FaucetLimit
    /\ faucetMinted' = [faucetMinted EXCEPT ![a] = @ + amount]
    /\ wallet' = [wallet EXCEPT ![a] = @ + amount]
    /\ UNCHANGED <<credit, totalDeposited>>

\* A holder moves tokens outside the guard, the vault's address included.
DirectTransfer(from, to, amount) ==
    /\ wallet[from] >= amount
    /\ wallet' = Moved(wallet, from, to, amount)
    /\ UNCHANGED <<faucetMinted, credit, totalDeposited>>

\* _deposit
Deposit(caller, recipient, amount) ==
    /\ wallet[caller] >= amount
    /\ wallet' = Moved(wallet, caller, Vault, amount)
    /\ credit' = [credit EXCEPT ![recipient] = @ + amount]
    /\ totalDeposited' = totalDeposited + amount
    /\ UNCHANGED faucetMinted

\* Mutant of CreditAfterWithdrawal: the recipient's credit is debited.
RecipientDebited(caller, recipient, amount) ==
    [credit EXCEPT ![recipient] = IF @ >= amount THEN @ - amount ELSE 0]

\* _withdraw debits the caller, whoever receives the tokens.
CreditAfterWithdrawal(caller, recipient, amount) ==
    [credit EXCEPT ![caller] = @ - amount]

\* The balance _withdraw checks the request against.
Available(caller) == credit[caller]

\* _withdraw.  The checked subtraction reverts below zero, and the transfer
\* reverts when the vault cannot pay.
WithdrawCredit(caller, recipient, amount) ==
    /\ Available(caller) >= amount
    /\ totalDeposited >= amount
    /\ wallet[Vault] >= amount
    /\ credit' = CreditAfterWithdrawal(caller, recipient, amount)
    /\ totalDeposited' = totalDeposited - amount
    /\ wallet' = Moved(wallet, Vault, recipient, amount)
    /\ UNCHANGED faucetMinted

\* withdraw: the owner's escape hatch, outside the adapter.
EscapeWithdraw(owner, recipient, amount) ==
    /\ amount > 0
    /\ WithdrawCredit(owner, recipient, amount)

\* What holders do without the adapter.
HolderNext ==
    \E a \in Accounts, amount \in HolderAmounts :
        \/ Faucet(a, amount)
        \/ \E h \in Holders : DirectTransfer(a, h, amount)
        \/ \E h \in Holders : EscapeWithdraw(a, h, amount)

-----------------------------------------------------------------------------

\* Solvent.  Every unit the vault owes is a unit it holds, and the running total
\* is what it owes, whatever the order of guarded actions, escapes and stray
\* transfers (_deposit, _withdraw).
Solvent ==
    /\ wallet[Vault] >= totalDeposited
    /\ totalDeposited = SumFunction(credit)

=============================================================================
