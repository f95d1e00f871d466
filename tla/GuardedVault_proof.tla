------------------------- MODULE GuardedVault_proof -------------------------
(***************************************************************************)
(* Proofs about GuardedVault, for every value of its constants: types, who *)
(* may be debited, the vault's solvency, and what the receipts account for.*)
(*                                                                         *)
(* The last two compare sums, which the community modules define by a      *)
(* recursive function.  The first part proves what a sum does when an      *)
(* entry changes or a member is added, from the well-foundedness of strict *)
(* inclusion between finite sets.                                          *)
(***************************************************************************)
EXTENDS GuardedVault, FiniteSetTheorems, WellFoundedInduction, TLAPS

-----------------------------------------------------------------------------
\* Sums over a finite set.

\* The member the library's folds take first.
Pick(s) == CHOOSE x \in s : TRUE

\* iter is the recursive function SumFunctionOnSet(f, S) is defined by.
Solves(iter, f, S) ==
    iter = [s \in SUBSET S |->
               IF s = {} THEN 0 ELSE f[Pick(s)] + iter[s \ {Pick(s)}]]

IterOf(f, S) == CHOOSE iter : Solves(iter, f, S)

LEMMA SumIsIter ==
    ASSUME NEW f, NEW S
    PROVE  SumFunctionOnSet(f, S) = IterOf(f,S)[S]
BY DEF SumFunctionOnSet, FoldFunctionOnSet, MapThenFoldSet, IterOf, Solves, Pick

\* LeastSubset.  A non-empty collection of subsets of a finite set has one that
\* contains no other: the induction of every proof below, as a statement about
\* sets.
LEMMA LeastSubset ==
    ASSUME NEW S, IsFiniteSet(S), NEW T, T \subseteq SUBSET S, T # {}
    PROVE  \E x \in T : \A y \in T : y \subseteq x => y = x
<1>1. IsWellFoundedOn(StrictSubsetOrdering(S), SUBSET S)
  BY FS_StrictSubsetOrderingWellFounded, FS_FiniteSubsetsOfFinite
<1>2. PICK x \in T : \A y \in T : <<y, x>> \notin StrictSubsetOrdering(S)
  <2> DEFINE R == StrictSubsetOrdering(S)
  <2>1. IsWellFoundedOn(R, SUBSET S)
    BY <1>1
  <2> HIDE DEF R
  <2>2. \E x \in T : \A y \in T : ~(<<y, x>> \in R)
    BY <2>1, WFMin
  <2> QED BY <2>2 DEF R
<1>3. ASSUME NEW y \in T, y \subseteq x PROVE y = x
  BY <1>2, <1>3 DEF StrictSubsetOrdering
<1> QED BY <1>2, <1>3

\* Two solutions of the recursion agree wherever both are defined.
LEMMA SolutionsAgree ==
    ASSUME NEW f, NEW S, IsFiniteSet(S), NEW T \in SUBSET S,
           NEW g, NEW h, Solves(g, f, S), Solves(h, f, T)
    PROVE  \A s \in SUBSET T : g[s] = h[s]
<1> DEFINE D == {s \in SUBSET T : g[s] # h[s]}
<1> SUFFICES ASSUME D # {} PROVE FALSE
  OBVIOUS
<1>1. D \subseteq SUBSET S
  OBVIOUS
<1>2. PICK s \in D : \A y \in D : y \subseteq s => y = s
  <2> HIDE DEF D
  <2> QED BY <1>1, LeastSubset
<1>3. CASE s = {}
  BY <1>2, <1>3 DEF Solves
<1>4. CASE s # {}
  <2>1. Pick(s) \in s
    BY <1>4 DEF Pick
  <2>2. s \ {Pick(s)} \notin D
    BY <1>2, <2>1
  <2>3. g[s \ {Pick(s)}] = h[s \ {Pick(s)}]
    BY <2>2
  <2> DEFINE p == Pick(s)
  <2>4. g[s] = f[p] + g[s \ {p}]
    BY <1>4 DEF Solves
  <2>5. h[s] = f[p] + h[s \ {p}]
    BY <1>4 DEF Solves
  <2> QED BY <2>3, <2>4, <2>5
<1> QED BY <1>3, <1>4

\* The recursion has a solution, so IterOf is one: a least set without one would
\* have the solutions of its own subsets to build on.
LEMMA SolutionExists ==
    ASSUME NEW f, NEW S, IsFiniteSet(S)
    PROVE  Solves(IterOf(f, S), f, S)
<1> DEFINE Without == {T \in SUBSET S : ~ \E g : Solves(g, f, T)}
<1>1. Without = {}
  <2> SUFFICES ASSUME Without # {} PROVE FALSE
    OBVIOUS
  <2>1. Without \subseteq SUBSET S
    OBVIOUS
  <2>2. PICK T \in Without : \A y \in Without : y \subseteq T => y = T
    <3> HIDE DEF Without
    <3> QED BY <2>1, LeastSubset
  <2>3. ASSUME NEW s \in SUBSET T, s # T PROVE Solves(IterOf(f, s), f, s)
    <3>1. \E g : Solves(g, f, s)
      BY <2>2, <2>3
    <3> QED BY <3>1 DEF IterOf
  <2> DEFINE p(s) == Pick(s)
             rest(s) == s \ {Pick(s)}
             own(s) == IterOf(f, s)[s]
             g == [s \in SUBSET T |-> IF s = {} THEN 0 ELSE f[Pick(s)] + own(rest(s))]
  <2>4. ASSUME NEW s \in SUBSET T, s # {} PROVE rest(s) \in SUBSET T /\ rest(s) # T /\ rest(s) # s /\ rest(s) \subseteq s
    BY <2>4 DEF Pick
  <2>5. ASSUME NEW s \in SUBSET T, s # T PROVE own(s) = g[s]
    <3>1. Solves(IterOf(f, s), f, s)
      BY <2>3, <2>5
    <3>2. CASE s = {}
      BY <3>1, <3>2 DEF Solves
    <3>3. CASE s # {}
      <4>1. IterOf(f, s)[s] = f[Pick(s)] + IterOf(f, s)[rest(s)]
        BY <3>1, <3>3 DEF Solves
      <4>2. Solves(IterOf(f, rest(s)), f, rest(s))
        BY <2>3, <2>4, <3>3
      <4>3. IsFiniteSet(s)
        BY FS_Subset
      <4>4. IterOf(f, s)[rest(s)] = own(rest(s))
        BY <3>1, <4>2, <4>3, <2>4, <3>3, SolutionsAgree
      <4> QED BY <3>3, <4>1, <4>4
    <3> QED BY <3>2, <3>3
  <2>6. ASSUME NEW s \in SUBSET T, s # {} PROVE own(rest(s)) = g[rest(s)]
    BY <2>4, <2>5, <2>6
  <2>7. Solves(g, f, T)
    <3>1. g = [s \in SUBSET T |-> IF s = {} THEN 0 ELSE f[Pick(s)] + g[rest(s)]]
      BY <2>6
    <3> QED BY <3>1 DEF Solves
  <2> QED BY <2>2, <2>7
<1>2. \E g : Solves(g, f, S)
  BY <1>1
<1> QED BY <1>2 DEF IterOf

LEMMA SumOfNothing == \A f : SumFunctionOnSet(f, {}) = 0
<1> TAKE f
<1>1. Solves(IterOf(f, {}), f, {})
  BY FS_EmptySet, SolutionExists
<1>2. IterOf(f, {})[{}] = 0
  BY <1>1 DEF Solves
<1> QED BY <1>2, SumIsIter

LEMMA SumPicks ==
    ASSUME NEW f, NEW S, IsFiniteSet(S), S # {}
    PROVE  SumFunctionOnSet(f, S) = f[Pick(S)] + SumFunctionOnSet(f, S \ {Pick(S)})
<1> DEFINE R == S \ {Pick(S)}
<1>1. Solves(IterOf(f, S), f, S)
  BY SolutionExists
<1>2. IsFiniteSet(R)
  BY FS_Subset
<1>3. Solves(IterOf(f, R), f, R)
  BY <1>2, SolutionExists
<1>4. IterOf(f, S)[R] = IterOf(f, R)[R]
  BY <1>1, <1>3, SolutionsAgree
<1>5. IterOf(f, S)[S] = f[Pick(S)] + IterOf(f, S)[R]
  BY <1>1 DEF Solves
<1> QED BY <1>4, <1>5, SumIsIter

\* A sum of natural numbers is one.
LEMMA SumIsNat ==
    ASSUME NEW S, IsFiniteSet(S), NEW f, \A x \in S : f[x] \in Nat
    PROVE  SumFunctionOnSet(f, S) \in Nat
<1> DEFINE Bad == {T \in SUBSET S : SumFunctionOnSet(f, T) \notin Nat}
<1> SUFFICES ASSUME Bad # {} PROVE FALSE
  OBVIOUS
<1>1. Bad \subseteq SUBSET S
  OBVIOUS
<1>2. PICK T \in Bad : \A y \in Bad : y \subseteq T => y = T
  <2> HIDE DEF Bad
  <2> QED BY <1>1, LeastSubset
<1>3. T # {}
  BY SumOfNothing
<1>4. IsFiniteSet(T)
  BY FS_Subset
<1>5. Pick(T) \in T
  BY <1>3 DEF Pick
<1>6. SumFunctionOnSet(f, T \ {Pick(T)}) \in Nat
  BY <1>2, <1>5
<1> QED BY <1>3, <1>4, <1>5, <1>6, SumPicks

\* SumTakes.  Any member may be taken out of the sum first, whichever the
\* library's choice takes.
LEMMA SumTakes ==
    ASSUME NEW S, IsFiniteSet(S), NEW f, \A x \in S : f[x] \in Nat, NEW e \in S
    PROVE  SumFunctionOnSet(f, S) = f[e] + SumFunctionOnSet(f, S \ {e})
<1> DEFINE Sum(T) == SumFunctionOnSet(f, T)
           Bad == {T \in SUBSET S : \E x \in T : Sum(T) # f[x] + Sum(T \ {x})}
<1> SUFFICES ASSUME Bad # {} PROVE FALSE
  OBVIOUS
<1>1. Bad \subseteq SUBSET S
  OBVIOUS
<1>2. PICK T \in Bad : \A y \in Bad : y \subseteq T => y = T
  <2> HIDE DEF Bad
  <2> QED BY <1>1, LeastSubset
<1>3. PICK x \in T : Sum(T) # f[x] + Sum(T \ {x})
  OBVIOUS
<1> DEFINE p == Pick(T)
<1>4. p \in T
  BY DEF Pick
<1>5. \A U \in SUBSET S : IsFiniteSet(U) /\ Sum(U) \in Nat
  BY FS_Subset, SumIsNat
<1>6. Sum(T) = f[p] + Sum(T \ {p})
  BY <1>4, <1>5, SumPicks
<1>7. x # p
  BY <1>3, <1>6
<1>8. Sum(T \ {p}) = f[x] + Sum((T \ {p}) \ {x})
  <2>1. T \ {p} \in SUBSET S /\ T \ {p} \notin Bad /\ x \in T \ {p}
    BY <1>2, <1>4, <1>7
  <2> QED BY <2>1
<1>9. Sum(T \ {x}) = f[p] + Sum((T \ {x}) \ {p})
  <2>1. T \ {x} \in SUBSET S /\ T \ {x} \notin Bad /\ p \in T \ {x}
    BY <1>2, <1>3, <1>4, <1>7
  <2> QED BY <2>1
<1>10. (T \ {p}) \ {x} = (T \ {x}) \ {p}
  OBVIOUS
<1> DEFINE rest == Sum((T \ {x}) \ {p})
<1>11. f[x] \in Nat /\ f[p] \in Nat /\ rest \in Nat
  BY <1>4, <1>5
<1> HIDE DEF Sum, p, rest
<1>12. Sum(T) = f[p] + (f[x] + rest) /\ Sum(T \ {x}) = f[p] + rest
  BY <1>6, <1>8, <1>9, <1>10 DEF rest
<1> QED BY <1>3, <1>11, <1>12

\* A sum depends on the summed members alone.
LEMMA SumAgrees ==
    ASSUME NEW S, IsFiniteSet(S), NEW f, NEW g, \A x \in S : f[x] = g[x]
    PROVE  SumFunctionOnSet(f, S) = SumFunctionOnSet(g, S)
<1> DEFINE Bad == {T \in SUBSET S : SumFunctionOnSet(f, T) # SumFunctionOnSet(g, T)}
<1> SUFFICES ASSUME Bad # {} PROVE FALSE
  OBVIOUS
<1>1. Bad \subseteq SUBSET S
  OBVIOUS
<1>2. PICK T \in Bad : \A y \in Bad : y \subseteq T => y = T
  <2> HIDE DEF Bad
  <2> QED BY <1>1, LeastSubset
<1>3. T # {}
  BY SumOfNothing
<1>4. IsFiniteSet(T)
  BY FS_Subset
<1>5. Pick(T) \in T
  BY <1>3 DEF Pick
<1>6. SumFunctionOnSet(f, T \ {Pick(T)}) = SumFunctionOnSet(g, T \ {Pick(T)})
  BY <1>2, <1>5
<1>7. f[Pick(T)] = g[Pick(T)]
  BY <1>5
<1> QED BY <1>3, <1>4, <1>6, <1>7, SumPicks

\* Changing one entry moves the sum of a function by the difference.
LEMMA SumRaised ==
    ASSUME NEW S, IsFiniteSet(S), NEW f \in [S -> Nat], NEW e \in S, NEW n \in Nat,
           NEW g \in [S -> Nat], g[e] = n, \A x \in S \ {e} : g[x] = f[x]
    PROVE  SumFunction(g) + f[e] = SumFunction(f) + n
<1> DEFINE R == S \ {e}
<1>1. IsFiniteSet(R) /\ R \subseteq S
  BY FS_Subset
<1>2. SumFunctionOnSet(g, S) = n + SumFunctionOnSet(g, R)
  BY SumTakes
<1>3. SumFunctionOnSet(f, S) = f[e] + SumFunctionOnSet(f, R)
  BY SumTakes
<1>4. SumFunctionOnSet(g, R) = SumFunctionOnSet(f, R)
  BY <1>1, SumAgrees
<1>5. SumFunctionOnSet(f, R) \in Nat
  BY <1>1, SumIsNat
<1>6. SumFunction(g) = SumFunctionOnSet(g, S) /\ SumFunction(f) = SumFunctionOnSet(f, S)
  BY DEF SumFunction
<1> QED BY <1>2, <1>3, <1>4, <1>5, <1>6

LEMMA SumOfZeros ==
    ASSUME NEW S, IsFiniteSet(S)
    PROVE  SumFunction([x \in S |-> 0]) = 0
<1> DEFINE f == [x \in S |-> 0]
           Bad == {T \in SUBSET S : SumFunctionOnSet(f, T) # 0}
<1>1. Bad = {}
  <2> SUFFICES ASSUME Bad # {} PROVE FALSE
    OBVIOUS
  <2>1. Bad \subseteq SUBSET S
    OBVIOUS
  <2>2. PICK T \in Bad : \A y \in Bad : y \subseteq T => y = T
    <3> HIDE DEF Bad
    <3> QED BY <2>1, LeastSubset
  <2>3. T # {}
    BY SumOfNothing
  <2>4. IsFiniteSet(T)
    BY FS_Subset
  <2>5. Pick(T) \in T
    BY <2>3 DEF Pick
  <2>6. SumFunctionOnSet(f, T \ {Pick(T)}) = 0
    BY <2>2, <2>5
  <2>7. f[Pick(T)] = 0
    BY <2>5
  <2> HIDE DEF f
  <2>8. SumFunctionOnSet(f, T) = f[Pick(T)] + SumFunctionOnSet(f, T \ {Pick(T)})
    BY <2>3, <2>4, SumPicks
  <2> QED BY <2>6, <2>7, <2>8
<1>2. SumFunctionOnSet(f, S) = 0
  BY <1>1
<1> QED BY <1>2 DEF SumFunction

-----------------------------------------------------------------------------
\* The amounts of a set of receipts.

AmountOf == [r \in Receipt |-> r.op.amount]

\* Total is the sum of the receipts' amounts.
LEMMA TotalIsSum ==
    ASSUME NEW R, IsFiniteSet(R), R \subseteq Receipt
    PROVE  Total(R) = SumFunctionOnSet(AmountOf, R)
<1> DEFINE Fits(iter) ==
               iter = [s \in SUBSET R |->
                          IF s = {} THEN 0
                          ELSE Pick(s).op.amount + iter[s \ {Pick(s)}]]
           it == CHOOSE iter : Fits(iter)
<1>1. Total(R) = it[R]
  BY DEF Total, MapThenSumSet, MapThenFoldSet, Pick
<1>2. \A iter : Fits(iter) => Solves(iter, AmountOf, R)
  <2>1. \A s \in SUBSET R : s # {} => AmountOf[Pick(s)] = Pick(s).op.amount
    BY DEF AmountOf, Pick
  <2> QED BY <2>1 DEF Solves
<1>3. \A iter : Solves(iter, AmountOf, R) => Fits(iter)
  <2>1. \A s \in SUBSET R : s # {} => AmountOf[Pick(s)] = Pick(s).op.amount
    BY DEF AmountOf, Pick
  <2> QED BY <2>1 DEF Solves
<1> HIDE DEF Fits
<1>4. Solves(IterOf(AmountOf, R), AmountOf, R)
  BY SolutionExists
<1>5. Fits(it)
  BY <1>3, <1>4
<1>6. it[R] = IterOf(AmountOf, R)[R]
  <2> HIDE DEF it
  <2> QED BY <1>2, <1>4, <1>5, SolutionsAgree
<1> QED BY <1>1, <1>6, SumIsIter

LEMMA AmountsAreNat ==
    \A r \in Receipt : AmountOf[r] \in Nat /\ AmountOf[r] = r.op.amount
BY AdapterAssumption DEF AmountOf, Receipt, Operation

LEMMA TotalIsNat ==
    ASSUME NEW R, IsFiniteSet(R), R \subseteq Receipt
    PROVE  Total(R) \in Nat
BY TotalIsSum, AmountsAreNat, SumIsNat

\* TotalAdds.  A receipt that was not counted yet adds its amount.
LEMMA TotalAdds ==
    ASSUME NEW R, IsFiniteSet(R), R \subseteq Receipt, NEW r \in Receipt, r \notin R
    PROVE  Total(R \cup {r}) = Total(R) + r.op.amount
<1> DEFINE Q == R \cup {r}
<1>1. IsFiniteSet(Q) /\ Q \subseteq Receipt /\ r \in Q /\ Q \ {r} = R
  BY FS_AddElement
<1> HIDE DEF Q
<1>2. SumFunctionOnSet(AmountOf, Q) = AmountOf[r] + SumFunctionOnSet(AmountOf, R)
  BY <1>1, AmountsAreNat, SumTakes
<1>3. Total(Q) = SumFunctionOnSet(AmountOf, Q) /\ Total(R) = SumFunctionOnSet(AmountOf, R)
  BY <1>1, TotalIsSum
<1>4. Total(R) \in Nat /\ AmountOf[r] = r.op.amount /\ AmountOf[r] \in Nat
  BY TotalIsNat, AmountsAreNat
<1> QED BY <1>2, <1>3, <1>4 DEF Q

-----------------------------------------------------------------------------
\* The inductive invariant.

Types == AssetTypeOK /\ VaultTypeOK /\ AdapterTypeOK

\* What was executed is finite, and a receipt is consumed once it was.
ExecutedIsConsumed ==
    /\ IsFiniteSet(executions)
    /\ \A e \in executions : e.receipt.id \in consumed

IInv == Types /\ ExecutedIsConsumed /\ Solvent /\ OwedByReceipts

USE AssetBounds, VaultAssumption, AdapterAssumption, SignableAssumption

LEMMA HoldersAreFinite == IsFiniteSet(Holders)
BY FS_AddElement DEF Holders

LEMMA UsedIsFinite ==
    ASSUME Types, ExecutedIsConsumed
    PROVE  /\ IsFiniteSet(Used) /\ Used \subseteq Receipt
           /\ \A r \in Used : r.id \in consumed
<1>1. Used \subseteq Receipt /\ \A r \in Used : r.id \in consumed
  BY DEF Used, Types, AdapterTypeOK, Execution, ExecutedIsConsumed
<1>2. IsFiniteSet({e.receipt : e \in executions})
  <2> DEFINE f == [e \in executions |-> e.receipt]
  <2>1. f \in Surjection(executions, {e.receipt : e \in executions})
    BY DEF Surjection
  <2> QED BY <2>1, FS_Surjection DEF ExecutedIsConsumed
<1> QED BY <1>1, <1>2 DEF Used

LEMMA TotalsAreNat ==
    ASSUME Types, ExecutedIsConsumed, NEW h
    PROVE  WithdrawnBy(h) \in Nat /\ DepositedFor(h) \in Nat
<1>1. \A R \in SUBSET Used : Total(R) \in Nat
  BY UsedIsFinite, FS_Subset, TotalIsNat
<1> QED BY <1>1 DEF WithdrawnBy, DepositedFor

-----------------------------------------------------------------------------
\* Types.

LEMMA CurrentViewType ==
    AssetTypeOK => CurrentView \in AssetView
BY DEF AssetTypeOK, CurrentView, AssetView

LEMMA AssetStepType ==
    AssetTypeOK /\ AssetNext => AssetTypeOK'
<1> SUFFICES ASSUME AssetTypeOK, AssetNext PROVE AssetTypeOK'
    OBVIOUS
<1>1. CASE Tick
    BY <1>1 DEF Tick, AssetTypeOK
<1>2. ASSUME NEW at \in 1..Horizon, ScheduleMultiplier(at) PROVE AssetTypeOK'
    BY <1>2 DEF ScheduleMultiplier, AssetTypeOK, CurrentView, AssetView
<1>3. CASE ApplyScheduledMultiplier
    BY <1>3 DEF ApplyScheduledMultiplier, AssetTypeOK, CurrentView, AssetView, NoSchedule
<1> QED
    BY <1>1, <1>2, <1>3 DEF AssetNext

\* A transfer of what the sender has keeps balances natural numbers.
LEMMA MovedType ==
    ASSUME NEW balances \in [Holders -> Nat], NEW from \in Holders, NEW to \in Holders,
           NEW amount \in Nat, balances[from] >= amount
    PROVE  Moved(balances, from, to, amount) \in [Holders -> Nat]
BY DEF Moved

LEMMA DepositType ==
    ASSUME VaultTypeOK, NEW caller \in Accounts, NEW recipient \in Holders,
           NEW amount \in Nat, Deposit(caller, recipient, amount)
    PROVE  VaultTypeOK'
<1>1. caller \in Holders /\ Vault \in Holders
    BY DEF Holders
<1>2. wallet' \in [Holders -> Nat]
    BY <1>1, MovedType DEF Deposit, VaultTypeOK
<1>3. credit' \in [Holders -> Nat]
    BY DEF Deposit, VaultTypeOK
<1> QED
    BY <1>2, <1>3 DEF Deposit, VaultTypeOK

LEMMA WithdrawType ==
    ASSUME VaultTypeOK, NEW caller \in Accounts, NEW recipient \in Holders,
           NEW amount \in Nat, WithdrawCredit(caller, recipient, amount)
    PROVE  VaultTypeOK'
<1>1. caller \in Holders /\ Vault \in Holders
    BY DEF Holders
<1>2. wallet' \in [Holders -> Nat]
    BY <1>1, MovedType DEF WithdrawCredit, VaultTypeOK
<1>3. credit' \in [Holders -> Nat]
    BY <1>1 DEF WithdrawCredit, CreditAfterWithdrawal, Available, VaultTypeOK
<1> QED
    BY <1>2, <1>3 DEF WithdrawCredit, VaultTypeOK

LEMMA HolderStepType ==
    VaultTypeOK /\ HolderNext => VaultTypeOK'
<1> SUFFICES ASSUME VaultTypeOK, HolderNext PROVE VaultTypeOK'
    OBVIOUS
<1>1. PICK a \in Accounts, amount \in HolderAmounts :
          \/ Faucet(a, amount)
          \/ \E h \in Holders : DirectTransfer(a, h, amount)
          \/ \E h \in Holders : EscapeWithdraw(a, h, amount)
    BY DEF HolderNext
<1>2. a \in Holders /\ amount \in Nat
    BY DEF Holders
<1>3. CASE Faucet(a, amount)
    BY <1>2, <1>3 DEF Faucet, VaultTypeOK
<1>4. ASSUME NEW h \in Holders, DirectTransfer(a, h, amount) PROVE VaultTypeOK'
    BY <1>2, <1>4, MovedType DEF DirectTransfer, VaultTypeOK
<1>5. ASSUME NEW h \in Holders, EscapeWithdraw(a, h, amount) PROVE VaultTypeOK'
    BY <1>2, <1>5, WithdrawType DEF EscapeWithdraw
<1> QED
    BY <1>1, <1>3, <1>4, <1>5

LEMMA AdminStepType ==
    AdapterTypeOK /\ AdminNext /\ UNCHANGED signed => AdapterTypeOK'
<1> SUFFICES ASSUME AdapterTypeOK, AdminNext, UNCHANGED signed PROVE AdapterTypeOK'
    OBVIOUS
<1>1. ASSUME NEW c \in Config, Reconfigure(c) PROVE AdapterTypeOK'
    BY <1>1 DEF Reconfigure, AdapterTypeOK
<1>2. ASSUME NEW s \in Signers, NEW b \in BOOLEAN, SetAuthorizedSigner(s, b)
      PROVE  AdapterTypeOK'
    BY <1>1, <1>2 DEF SetAuthorizedSigner, AdapterTypeOK, Config
<1>3. ASSUME NEW b \in BOOLEAN, SetAllowedTarget(b) PROVE AdapterTypeOK'
    BY <1>1, <1>3 DEF SetAllowedTarget, AdapterTypeOK, Config
<1>4. ASSUME NEW b \in BOOLEAN, SetProtectedPair(b) PROVE AdapterTypeOK'
    BY <1>1, <1>4 DEF SetProtectedPair, AdapterTypeOK, Config
<1>5. ASSUME NEW w \in GuardWindows, SetGuardWindow(w) PROVE AdapterTypeOK'
    BY <1>1, <1>5 DEF SetGuardWindow, AdapterTypeOK, Config
<1>6. ASSUME NEW b \in BOOLEAN, SetPaused(b) PROVE AdapterTypeOK'
    BY <1>1, <1>6 DEF SetPaused, AdapterTypeOK, Config
<1> QED
    BY <1>2, <1>3, <1>4, <1>5, <1>6 DEF AdminNext

LEMMA ExecuteType ==
    AssetTypeOK /\ VaultTypeOK /\ AdapterTypeOK /\ ExecuteSome /\ UNCHANGED signed
        => VaultTypeOK' /\ AdapterTypeOK'
<1> SUFFICES ASSUME AssetTypeOK, VaultTypeOK, AdapterTypeOK, UNCHANGED signed,
                    NEW rs \in signed, NEW sender \in Accounts,
                    Execute(rs[1], rs[2], sender)
             PROVE  VaultTypeOK' /\ AdapterTypeOK'
    BY DEF ExecuteSome
<1>1. rs[1] \in Receipt /\ rs[1].op \in Operation /\ rs[1].id \in ReceiptIds
    BY DEF AdapterTypeOK, Receipt
<1>2. VaultTypeOK'
    BY <1>1, DepositType, WithdrawType DEF Execute, PerformProtectedAction, Operation
<1>3. AdapterTypeOK'
    BY <1>1 DEF Execute, MarkConsumed, AdapterTypeOK, AssetTypeOK, Execution
<1> QED
    BY <1>2, <1>3

-----------------------------------------------------------------------------
\* The effect of each kind of step.  A step either leaves the vault and the
\* executions alone, or is a holder's, or is an execution.

LEMMA InitIInv == Init => IInv
<1> SUFFICES ASSUME Init PROVE IInv
  OBVIOUS
<1> USE DEF Init
<1>1. AssetTypeOK
  BY DEF AssetInit, AssetTypeOK, CurrentView, AssetView, NoSchedule
<1>2. VaultTypeOK
  BY DEF VaultInit, VaultTypeOK
<1>3. AdapterTypeOK
  BY DEF AdapterInit, AdapterTypeOK, Config
<1>4. ExecutedIsConsumed
  BY FS_EmptySet DEF AdapterInit, ExecutedIsConsumed
<1>5. Solvent
  <2>1. SumFunction(credit) = 0
    BY HoldersAreFinite, SumOfZeros DEF VaultInit
  <2>2. wallet[Vault] = 0
    BY DEF VaultInit, Holders
  <2> QED BY <2>1, <2>2 DEF VaultInit, Solvent
<1>6. OwedByReceipts
  <2> SUFFICES ASSUME NEW h \in Holders
               PROVE  credit[h] + WithdrawnBy(h) <= DepositedFor(h)
    BY DEF OwedByReceipts
  <2>1. Used = {}
    BY DEF AdapterInit, Used
  <2>2. Total({}) = 0
    <3>1. IsFiniteSet({})
      BY FS_EmptySet
    <3> QED BY <3>1, TotalIsSum, SumOfNothing
  <2>3. WithdrawnBy(h) = 0 /\ DepositedFor(h) = 0
    <3>1. /\ {r \in Used : r.op.kind = Deposits /\ r.op.recipient = h} = {}
          /\ {r \in Used : r.op.kind = Withdrawals /\ r.op.caller = h} = {}
      BY <2>1
    <3> QED BY <2>2, <3>1 DEF WithdrawnBy, DepositedFor
  <2>4. credit[h] = 0
    BY DEF VaultInit
  <2> QED BY <2>3, <2>4
<1> QED BY <1>1, <1>2, <1>3, <1>4, <1>5, <1>6 DEF IInv, Types

\* What receipts account for depends on the used receipts alone.
LEMMA TotalsUntouched ==
    ASSUME UNCHANGED executions, NEW h
    PROVE  WithdrawnBy(h)' = WithdrawnBy(h) /\ DepositedFor(h)' = DepositedFor(h)
<1>1. Used' = Used
  BY DEF Used
<1> QED BY <1>1 DEF WithdrawnBy, DepositedFor

LEMMA VaultUntouched ==
    ASSUME IInv, UNCHANGED <<vaultVars, executions>>
    PROVE  Solvent' /\ OwedByReceipts'
<1>1. Solvent'
  BY DEF IInv, vaultVars, Solvent
<1>2. OwedByReceipts'
  BY TotalsUntouched DEF IInv, vaultVars, OwedByReceipts
<1> QED BY <1>1, <1>2

LEMMA SignStep ==
    ASSUME IInv, Sign
    PROVE  IInv'
<1>1. Types'
  BY DEF IInv, Types, Sign, assetVars, vaultVars, adapterVars, AssetTypeOK, VaultTypeOK,
         AdapterTypeOK
<1>2. ExecutedIsConsumed'
  BY DEF IInv, ExecutedIsConsumed, Sign, adapterVars
<1>3. Solvent' /\ OwedByReceipts'
  BY VaultUntouched DEF Sign, adapterVars
<1> QED BY <1>1, <1>2, <1>3 DEF IInv

LEMMA AssetStep ==
    ASSUME IInv, AssetNext, UNCHANGED <<vaultVars, adapterVars, signed>>
    PROVE  IInv'
<1>1. Types'
  BY AssetStepType DEF IInv, Types, vaultVars, adapterVars, VaultTypeOK, AdapterTypeOK
<1>2. ExecutedIsConsumed'
  BY DEF IInv, ExecutedIsConsumed, adapterVars
<1>3. Solvent' /\ OwedByReceipts'
  BY VaultUntouched DEF adapterVars
<1> QED BY <1>1, <1>2, <1>3 DEF IInv

LEMMA AdminStep ==
    ASSUME IInv, AdminNext, UNCHANGED <<assetVars, vaultVars, signed>>
    PROVE  IInv'
<1>1. UNCHANGED <<consumed, executions>>
  BY DEF AdminNext, SetAuthorizedSigner, SetAllowedTarget, SetProtectedPair,
         SetGuardWindow, SetPaused, Reconfigure
<1>2. Types'
  BY AdminStepType DEF IInv, Types, assetVars, vaultVars, AssetTypeOK, VaultTypeOK
<1>3. ExecutedIsConsumed'
  BY <1>1 DEF IInv, ExecutedIsConsumed
<1>4. Solvent' /\ OwedByReceipts'
  BY <1>1, VaultUntouched
<1> QED BY <1>2, <1>3, <1>4 DEF IInv

\* A credit raised or lowered by an amount, and the total with it, stay a total.
LEMMA TotalFollowsCredit ==
    ASSUME VaultTypeOK, totalDeposited = SumFunction(credit), NEW h \in Holders,
           NEW n \in Nat, credit' = [credit EXCEPT ![h] = n],
           totalDeposited' + credit[h] = totalDeposited + n, totalDeposited' \in Nat
    PROVE  totalDeposited' = SumFunction(credit')
<1>1. SumFunction(credit') + credit[h] = SumFunction(credit) + n
  <2>1. credit \in [Holders -> Nat]
    BY DEF VaultTypeOK
  <2>2. credit' \in [Holders -> Nat] /\ credit'[h] = n /\ \A x \in Holders \ {h} : credit'[x] = credit[x]
    BY <2>1
  <2>3. \A f, g \in [Holders -> Nat] :
            (\A x \in Holders \ {h} : g[x] = f[x]) /\ g[h] = n =>
                SumFunction(g) + f[h] = SumFunction(f) + n
    BY HoldersAreFinite, SumRaised
  <2> QED BY <2>1, <2>2, <2>3
<1>2. SumFunction(credit') \in Nat
  <2>1. credit' \in [Holders -> Nat] /\ DOMAIN credit' = Holders
    BY DEF VaultTypeOK
  <2>2. SumFunctionOnSet(credit', Holders) \in Nat
    BY <2>1, HoldersAreFinite, SumIsNat
  <2> QED BY <2>1, <2>2 DEF SumFunction
<1> QED BY <1>1, <1>2 DEF VaultTypeOK

LEMMA DepositSolvent ==
    ASSUME VaultTypeOK, Solvent, NEW caller \in Accounts, NEW recipient \in Holders,
           NEW amount \in Nat, Deposit(caller, recipient, amount)
    PROVE  Solvent'
<1>1. caller \in Holders /\ Vault \in Holders /\ caller # Vault
  BY DEF Holders
<1>2. wallet'[Vault] = wallet[Vault] + amount
  BY <1>1 DEF Deposit, Moved, VaultTypeOK
<1>3. totalDeposited' = totalDeposited + amount
  BY DEF Deposit
<1>4. credit' = [credit EXCEPT ![recipient] = credit[recipient] + amount]
  BY DEF Deposit
<1>5. totalDeposited' = SumFunction(credit')
  <2>1. credit[recipient] \in Nat /\ totalDeposited \in Nat /\ totalDeposited = SumFunction(credit)
    BY DEF VaultTypeOK, Solvent
  <2>2. /\ credit[recipient] + amount \in Nat /\ totalDeposited' \in Nat
        /\ totalDeposited' + credit[recipient] = totalDeposited + (credit[recipient] + amount)
    BY <1>3, <2>1
  <2> QED BY <1>4, <2>1, <2>2, TotalFollowsCredit
<1>6. wallet'[Vault] >= totalDeposited'
  BY <1>1, <1>2, <1>3 DEF VaultTypeOK, Solvent
<1> QED BY <1>5, <1>6 DEF Solvent

LEMMA WithdrawSolvent ==
    ASSUME VaultTypeOK, Solvent, NEW caller \in Accounts, NEW recipient \in Holders,
           NEW amount \in Nat, WithdrawCredit(caller, recipient, amount)
    PROVE  Solvent'
<1>1. caller \in Holders /\ Vault \in Holders
  BY DEF Holders
<1>2. wallet'[Vault] >= wallet[Vault] - amount
  BY <1>1 DEF WithdrawCredit, Moved, VaultTypeOK
<1>3. totalDeposited' = totalDeposited - amount /\ totalDeposited >= amount
  BY DEF WithdrawCredit
<1>4. credit' = [credit EXCEPT ![caller] = credit[caller] - amount] /\ credit[caller] >= amount
  BY DEF WithdrawCredit, CreditAfterWithdrawal, Available
<1>5. totalDeposited' = SumFunction(credit')
  <2>1. credit[caller] \in Nat /\ totalDeposited \in Nat /\ totalDeposited = SumFunction(credit)
    BY <1>1 DEF VaultTypeOK, Solvent
  <2>2. /\ credit[caller] - amount \in Nat /\ totalDeposited' \in Nat
        /\ totalDeposited' + credit[caller] = totalDeposited + (credit[caller] - amount)
    BY <1>3, <1>4, <2>1
  <2> QED BY <1>1, <1>4, <2>1, <2>2, TotalFollowsCredit
<1>6. VaultTypeOK'
  BY WithdrawType
<1>7. wallet'[Vault] >= totalDeposited'
  BY <1>1, <1>2, <1>3, <1>6 DEF VaultTypeOK, Solvent
<1> QED BY <1>5, <1>7 DEF Solvent

\* What a holder does alone moves tokens and may lower its own credit.
LEMMA HolderMoves ==
    ASSUME IInv, HolderNext
    PROVE  \/ credit' = credit /\ totalDeposited' = totalDeposited
              /\ wallet'[Vault] >= wallet[Vault]
           \/ \E a \in Accounts, to \in Holders, n \in HolderAmounts :
                 EscapeWithdraw(a, to, n)
<1>1. PICK a \in Accounts, n \in HolderAmounts :
          \/ Faucet(a, n)
          \/ \E h \in Holders : DirectTransfer(a, h, n)
          \/ \E h \in Holders : EscapeWithdraw(a, h, n)
  BY DEF HolderNext
<1>2. a \in Holders /\ Vault \in Holders /\ a # Vault /\ n \in Nat /\ wallet \in [Holders -> Nat]
  BY DEF Holders, IInv, Types, VaultTypeOK
<1>3. CASE Faucet(a, n)
  BY <1>2, <1>3 DEF Faucet
<1>4. ASSUME NEW h \in Holders, DirectTransfer(a, h, n)
      PROVE  credit' = credit /\ totalDeposited' = totalDeposited
             /\ wallet'[Vault] >= wallet[Vault]
  BY <1>2, <1>4 DEF DirectTransfer, Moved
<1> QED BY <1>1, <1>3, <1>4

LEMMA HolderStep ==
    ASSUME IInv, HolderNext, UNCHANGED <<assetVars, adapterVars, signed>>
    PROVE  IInv'
<1>1. Types'
  BY HolderStepType DEF IInv, Types, assetVars, adapterVars, AssetTypeOK, AdapterTypeOK
<1>2. ExecutedIsConsumed'
  BY DEF IInv, ExecutedIsConsumed, adapterVars
<1>3. \A h \in Holders : WithdrawnBy(h)' = WithdrawnBy(h) /\ DepositedFor(h)' = DepositedFor(h)
  BY TotalsUntouched DEF adapterVars
<1>4. CASE credit' = credit /\ totalDeposited' = totalDeposited /\ wallet'[Vault] >= wallet[Vault]
  <2>1. OwedByReceipts'
    BY <1>3, <1>4 DEF IInv, OwedByReceipts
  <2>2. Vault \in Holders
    BY DEF Holders
  <2>3. Solvent'
    BY <1>1, <1>4, <2>2 DEF IInv, Types, VaultTypeOK, Solvent
  <2> QED BY <1>1, <1>2, <2>1, <2>3 DEF IInv
<1>5. ASSUME NEW a \in Accounts, NEW to \in Holders, NEW n \in HolderAmounts,
             EscapeWithdraw(a, to, n)
      PROVE  IInv'
  <2>1. n \in Nat /\ a \in Holders /\ WithdrawCredit(a, to, n)
    BY <1>5 DEF EscapeWithdraw, Holders
  <2>2. Solvent'
    BY <2>1, WithdrawSolvent DEF IInv, Types
  <2>3. OwedByReceipts'
    <3> SUFFICES ASSUME NEW h \in Holders
                 PROVE  credit'[h] + WithdrawnBy(h) <= DepositedFor(h)
      BY <1>3 DEF OwedByReceipts
    <3>1. credit'[h] <= credit[h] /\ credit'[h] \in Nat /\ credit[h] \in Nat
      BY <1>1, <2>1 DEF WithdrawCredit, CreditAfterWithdrawal, Available, IInv, Types, VaultTypeOK
    <3>2. WithdrawnBy(h) \in Nat /\ DepositedFor(h) \in Nat
      BY TotalsAreNat DEF IInv
    <3>3. credit[h] + WithdrawnBy(h) <= DepositedFor(h)
      BY DEF IInv, OwedByReceipts
    <3> QED BY <3>1, <3>2, <3>3
  <2> QED BY <1>1, <1>2, <2>2, <2>3 DEF IInv
<1> QED BY <1>4, <1>5, HolderMoves

\* What an execution does: an unconsumed receipt is used, its amount moves, and
\* only its caller can be debited.
LEMMA ExecuteStepIs ==
    ASSUME IInv, ExecuteSome, UNCHANGED <<assetVars, signed>>
    PROVE  \E r \in Receipt :
               /\ r.id \notin consumed
               /\ consumed' = consumed \cup {r.id}
               /\ executions' = executions \cup
                      {[receipt |-> r, at |-> time, under |-> effective]}
               /\ PerformProtectedAction(r.op)
<1>1. PICK rs \in signed, sender \in Accounts : Execute(rs[1], rs[2], sender)
  BY DEF ExecuteSome
<1>2. rs[1] \in Receipt
  BY DEF IInv, Types, AdapterTypeOK
<1> QED BY <1>1, <1>2 DEF Execute, NotConsumed, MarkConsumed

LEMMA ExecuteStep ==
    ASSUME IInv, ExecuteSome, UNCHANGED <<assetVars, signed>>
    PROVE  IInv'
<1>1. PICK r \in Receipt :
          /\ r.id \notin consumed
          /\ consumed' = consumed \cup {r.id}
          /\ executions' = executions \cup
                 {[receipt |-> r, at |-> time, under |-> effective]}
          /\ PerformProtectedAction(r.op)
  BY ExecuteStepIs
<1> DEFINE op == r.op
           D(h, U) == {x \in U : x.op.kind = Deposits /\ x.op.recipient = h}
           W(h, U) == {x \in U : x.op.kind = Withdrawals /\ x.op.caller = h}
<1>2. /\ op.caller \in Accounts /\ op.recipient \in Holders /\ op.amount \in Nat
      /\ op.caller \in Holders /\ Deposits # Withdrawals
  BY DEF Receipt, Operation, Holders, Deposits, Withdrawals
<1>3. Types'
  BY ExecuteType DEF IInv, Types, assetVars, AssetTypeOK
<1>4. ExecutedIsConsumed'
  <2>1. IsFiniteSet(executions')
    BY <1>1, FS_AddElement DEF IInv, ExecutedIsConsumed
  <2> QED BY <1>1, <2>1 DEF IInv, ExecutedIsConsumed
<1>5. Used' = Used \cup {r}
  <2> DEFINE e == [receipt |-> r, at |-> time, under |-> effective]
  <2>1. executions' = executions \cup {e} /\ e.receipt = r
    BY <1>1
  <2> HIDE DEF e
  <2> QED BY <2>1 DEF Used
<1>6. r \notin Used /\ IsFiniteSet(Used) /\ Used \subseteq Receipt
  BY <1>1, UsedIsFinite DEF IInv
<1>7. ASSUME NEW h \in Holders
      PROVE  /\ WithdrawnBy(h) = Total(W(h, Used)) /\ DepositedFor(h) = Total(D(h, Used))
             /\ WithdrawnBy(h)' = Total(W(h, Used \cup {r}))
             /\ DepositedFor(h)' = Total(D(h, Used \cup {r}))
             /\ WithdrawnBy(h) \in Nat /\ DepositedFor(h) \in Nat
             /\ credit[h] \in Nat /\ credit[h] + WithdrawnBy(h) <= DepositedFor(h)
  <2>1. WithdrawnBy(h) = Total(W(h, Used)) /\ DepositedFor(h) = Total(D(h, Used))
    BY DEF WithdrawnBy, DepositedFor
  <2>2. /\ WithdrawnBy(h)' = Total(W(h, Used \cup {r}))
        /\ DepositedFor(h)' = Total(D(h, Used \cup {r}))
    BY <1>5 DEF WithdrawnBy, DepositedFor
  <2>3. WithdrawnBy(h) \in Nat /\ DepositedFor(h) \in Nat
    BY TotalsAreNat DEF IInv
  <2>4. credit[h] \in Nat /\ credit[h] + WithdrawnBy(h) <= DepositedFor(h)
    BY DEF IInv, Types, VaultTypeOK, OwedByReceipts
  <2> QED BY <2>1, <2>2, <2>3, <2>4
<1>8. ASSUME NEW h
      PROVE  /\ IsFiniteSet(W(h, Used)) /\ W(h, Used) \subseteq Receipt /\ r \notin W(h, Used)
             /\ IsFiniteSet(D(h, Used)) /\ D(h, Used) \subseteq Receipt /\ r \notin D(h, Used)
  <2>1. W(h, Used) \subseteq Used /\ D(h, Used) \subseteq Used
    OBVIOUS
  <2> QED BY <1>6, <2>1, FS_Subset
<1>9. CASE op.kind = Deposits /\ Deposit(op.caller, op.recipient, op.amount)
  <2>1. Solvent'
    BY <1>2, <1>9, DepositSolvent DEF IInv, Types
  <2>2. ASSUME NEW h \in Holders
        PROVE  credit'[h] + WithdrawnBy(h)' <= DepositedFor(h)'
    <3>1. W(h, Used \cup {r}) = W(h, Used)
      BY <1>2, <1>9
    <3>2. CASE h = op.recipient
      <4>1. D(h, Used \cup {r}) = D(h, Used) \cup {r}
        BY <1>9, <3>2
      <4>2. Total(D(h, Used) \cup {r}) = Total(D(h, Used)) + op.amount
        <5> HIDE DEF D, W
        <5> QED BY <1>8, TotalAdds
      <4>3. credit'[h] = credit[h] + op.amount
        BY <1>9, <3>2 DEF Deposit, IInv, Types, VaultTypeOK
      <4>4. WithdrawnBy(h)' = WithdrawnBy(h) /\ DepositedFor(h)' = DepositedFor(h) + op.amount
        <5> HIDE DEF D, W
        <5> QED BY <1>7, <3>1, <4>1, <4>2
      <4>5. /\ credit[h] \in Nat /\ WithdrawnBy(h) \in Nat /\ DepositedFor(h) \in Nat
            /\ credit[h] + WithdrawnBy(h) <= DepositedFor(h)
        BY <1>7
      <4> QED BY <1>2, <4>3, <4>4, <4>5
    <3>3. CASE h # op.recipient
      <4>1. D(h, Used \cup {r}) = D(h, Used)
        BY <3>3
      <4>2. credit'[h] = credit[h]
        BY <1>9, <3>3 DEF Deposit, IInv, Types, VaultTypeOK
      <4> HIDE DEF D, W, op
      <4> QED BY <1>7, <3>1, <4>1, <4>2
    <3> QED BY <3>2, <3>3
  <2> QED BY <1>3, <1>4, <2>1, <2>2 DEF IInv, OwedByReceipts
<1>10. CASE op.kind = Withdrawals /\ WithdrawCredit(op.caller, op.recipient, op.amount)
  <2>1. Solvent'
    BY <1>2, <1>10, WithdrawSolvent DEF IInv, Types
  <2>2. ASSUME NEW h \in Holders
        PROVE  credit'[h] + WithdrawnBy(h)' <= DepositedFor(h)'
    <3>1. D(h, Used \cup {r}) = D(h, Used)
      BY <1>2, <1>10
    <3>2. CASE h = op.caller
      <4>1. W(h, Used \cup {r}) = W(h, Used) \cup {r}
        BY <1>10, <3>2
      <4>2. Total(W(h, Used) \cup {r}) = Total(W(h, Used)) + op.amount
        <5> HIDE DEF D, W
        <5> QED BY <1>8, TotalAdds
      <4>3. credit'[h] = credit[h] - op.amount
        BY <1>10, <3>2 DEF WithdrawCredit, CreditAfterWithdrawal, IInv, Types, VaultTypeOK
      <4>4. WithdrawnBy(h)' = WithdrawnBy(h) + op.amount /\ DepositedFor(h)' = DepositedFor(h)
        <5> HIDE DEF D, W
        <5> QED BY <1>7, <3>1, <4>1, <4>2
      <4>5. /\ credit[h] \in Nat /\ WithdrawnBy(h) \in Nat /\ DepositedFor(h) \in Nat
            /\ credit[h] + WithdrawnBy(h) <= DepositedFor(h)
        BY <1>7
      <4> QED BY <1>2, <4>3, <4>4, <4>5
    <3>3. CASE h # op.caller
      <4>1. W(h, Used \cup {r}) = W(h, Used)
        BY <3>3
      <4>2. credit'[h] = credit[h]
        BY <1>10, <3>3 DEF WithdrawCredit, CreditAfterWithdrawal, IInv, Types, VaultTypeOK
      <4> HIDE DEF D, W, op
      <4> QED BY <1>7, <3>1, <4>1, <4>2
    <3> QED BY <3>2, <3>3
  <2> QED BY <1>3, <1>4, <2>1, <2>2 DEF IInv, OwedByReceipts
<1> QED BY <1>1, <1>9, <1>10 DEF PerformProtectedAction

LEMMA StepIInv == IInv /\ [Next]_vars => IInv'
<1> SUFFICES ASSUME IInv, [Next]_vars PROVE IInv'
  OBVIOUS
<1>1. CASE UNCHANGED vars
  <2>1. Types' /\ ExecutedIsConsumed'
    BY <1>1 DEF IInv, Types, ExecutedIsConsumed, vars, assetVars, vaultVars, adapterVars,
                AssetTypeOK, VaultTypeOK, AdapterTypeOK
  <2> QED BY <1>1, <2>1, VaultUntouched DEF IInv, vars, adapterVars
<1>2. CASE Next
  BY <1>2, SignStep, AssetStep, HolderStep, AdminStep, ExecuteStep DEF Next, adapterVars
<1> QED BY <1>1, <1>2

-----------------------------------------------------------------------------

\* VaultInvariant.  Every reachable state is typed, a consumed identifier is
\* behind every execution, and the two accounts below hold.
THEOREM VaultInvariant == Spec => []IInv
BY InitIInv, StepIInv, PTL DEF Spec

\* VaultStaysSolvent.  Whatever keys sign, owners configure and holders move, the
\* vault holds what it owes and its total is the sum of its credits.
THEOREM VaultStaysSolvent == Spec => []Solvent
<1>1. IInv => Solvent
  BY DEF IInv
<1> QED BY <1>1, VaultInvariant, PTL

\* CreditIsBacked.  Whatever keys sign, a credit never exceeds what distinct
\* receipts deposited less what its owner's receipts withdrew.
THEOREM CreditIsBacked == Spec => []OwedByReceipts
<1>1. IInv => OwedByReceipts
  BY DEF IInv
<1> QED BY <1>1, VaultInvariant, PTL

\* A step that lowers a credit is its owner's.
LEMMA DebitIsTheOwners ==
    ASSUME IInv, [Next]_vars, NEW h \in Holders, credit'[h] < credit[h]
    PROVE  IF consumed' = consumed
           THEN EscapeOf(h) /\ \A other \in Holders \ {h} : ~EscapeOf(other)
           ELSE \A e \in executions' :
                    e.receipt.id \in consumed' \ consumed => e.receipt.op.caller = h
<1>0. credit \in [Holders -> Nat] /\ credit' \in [Holders -> Nat]
  BY StepIInv DEF IInv, Types, VaultTypeOK
<1>1. credit' # credit
  BY <1>0
<1>2. CASE HolderNext /\ UNCHANGED adapterVars
  <2>1. PICK a \in Accounts, to \in Holders, n \in HolderAmounts : EscapeWithdraw(a, to, n)
    BY <1>1, <1>2, HolderMoves
  <2>2. consumed' = consumed
    BY <1>2 DEF adapterVars
  <2>3. h = a
    BY <1>0, <2>1 DEF EscapeWithdraw, WithdrawCredit, CreditAfterWithdrawal, Holders
  <2>4. ASSUME NEW other \in Holders \ {h}, EscapeOf(other) PROVE FALSE
    <3>1. PICK m \in HolderAmounts : credit' = [credit EXCEPT ![other] = @ - m]
      BY <2>4 DEF EscapeOf, EscapeWithdraw, WithdrawCredit, CreditAfterWithdrawal
    <3> QED BY <1>0, <3>1
  <2> QED BY <2>1, <2>2, <2>3, <2>4 DEF EscapeOf
<1>3. CASE ExecuteSome /\ UNCHANGED <<assetVars, signed>>
  <2>1. PICK r \in Receipt :
            /\ r.id \notin consumed
            /\ consumed' = consumed \cup {r.id}
            /\ executions' = executions \cup
                   {[receipt |-> r, at |-> time, under |-> effective]}
            /\ PerformProtectedAction(r.op)
    BY <1>3, ExecuteStepIs
  <2>2. r.op.caller \in Holders /\ r.op.recipient \in Holders /\ r.op.amount \in Nat
    BY DEF Receipt, Operation, Holders
  <2>3. ~Deposit(r.op.caller, r.op.recipient, r.op.amount)
    BY <1>0, <2>2 DEF Deposit
  <2>4. credit' = [credit EXCEPT ![r.op.caller] = @ - r.op.amount]
    BY <2>1, <2>3 DEF PerformProtectedAction, WithdrawCredit, CreditAfterWithdrawal
  <2>5. h = r.op.caller
    BY <1>0, <2>4
  <2>6. ASSUME NEW e \in executions', e.receipt.id \in consumed' \ consumed
        PROVE  e.receipt = r
    BY <2>1, <2>6 DEF IInv, ExecutedIsConsumed
  <2> QED BY <2>1, <2>5, <2>6
<1>4. CASE ~(HolderNext /\ UNCHANGED adapterVars)
           /\ ~(ExecuteSome /\ UNCHANGED <<assetVars, signed>>)
  BY <1>1, <1>4 DEF Next, Sign, vars, vaultVars
<1> QED BY <1>2, <1>3, <1>4

\* DebitsAreTheOwners.  In every step, whoever is owed less afterwards escaped
\* itself, or is the caller of the receipt that the step consumed.
THEOREM DebitsAreTheOwners == Spec => OnlyOwnerDebited
<1>1. IInv /\ [Next]_vars =>
         [\A h \in Holders :
              credit'[h] < credit[h] =>
                  IF consumed' = consumed
                  THEN EscapeOf(h) /\ \A other \in Holders \ {h} : ~EscapeOf(other)
                  ELSE \A e \in executions' :
                           e.receipt.id \in consumed' \ consumed => e.receipt.op.caller = h]_vars
  BY DebitIsTheOwners
<1> QED BY <1>1, VaultInvariant, PTL DEF Spec, OnlyOwnerDebited

=============================================================================
