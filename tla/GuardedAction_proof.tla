------------------------ MODULE GuardedAction_proof -------------------------
(***************************************************************************)
(* Proofs about GuardedAction, for every value of its constants: types,    *)
(* the inductive invariant behind EpochSafety, and the refinement of       *)
(* OneTimeAuthorization.                                                   *)
(***************************************************************************)
EXTENDS GuardedAction, TLAPS

USE AssetBounds, VaultAssumption, AdapterAssumption, EvidenceAssumption,
    NoneAssumption, PolicyAssumption

-----------------------------------------------------------------------------
\* Types.

\* The views recorded at a block are typed when the asset's state is.
LEMMA CurrentViewType ==
    AssetTypeOK => CurrentView \in AssetView
BY DEF AssetTypeOK, CurrentView, AssetView

LEMMA AssetStepType ==
    AssetTypeOK /\ AssetNext => AssetTypeOK'
<1> SUFFICES ASSUME AssetTypeOK, AssetNext PROVE AssetTypeOK'
    OBVIOUS
<1>1. CASE Tick
    BY <1>1 DEF Tick, AssetTypeOK
<1>2. ASSUME NEW at \in 1..Horizon, ScheduleMultiplier(at) PROVE AssetTypeOK'
    BY <1>2 DEF ScheduleMultiplier, AssetTypeOK, CurrentView, AssetView
<1>3. CASE ApplyScheduledMultiplier
    BY <1>3 DEF ApplyScheduledMultiplier, AssetTypeOK, CurrentView, AssetView, NoSchedule
<1> QED
    BY <1>1, <1>2, <1>3 DEF AssetNext

\* A transfer of what the sender has keeps balances natural numbers.
LEMMA MovedType ==
    ASSUME NEW balances \in [Holders -> Nat], NEW from \in Holders, NEW to \in Holders,
           NEW amount \in Nat, balances[from] >= amount
    PROVE  Moved(balances, from, to, amount) \in [Holders -> Nat]
BY DEF Moved

LEMMA DepositType ==
    ASSUME VaultTypeOK, NEW caller \in Accounts, NEW recipient \in Holders,
           NEW amount \in Nat, Deposit(caller, recipient, amount)
    PROVE  VaultTypeOK'
<1>1. caller \in Holders /\ Vault \in Holders
    BY DEF Holders
<1>2. wallet' \in [Holders -> Nat]
    BY <1>1, MovedType DEF Deposit, VaultTypeOK
<1>3. credit' \in [Holders -> Nat]
    BY DEF Deposit, VaultTypeOK
<1> QED
    BY <1>2, <1>3 DEF Deposit, VaultTypeOK

LEMMA WithdrawType ==
    ASSUME VaultTypeOK, NEW caller \in Accounts, NEW recipient \in Holders,
           NEW amount \in Nat, WithdrawCredit(caller, recipient, amount)
    PROVE  VaultTypeOK'
<1>1. caller \in Holders /\ Vault \in Holders
    BY DEF Holders
<1>2. wallet' \in [Holders -> Nat]
    BY <1>1, MovedType DEF WithdrawCredit, VaultTypeOK
<1>3. credit' \in [Holders -> Nat]
    BY <1>1 DEF WithdrawCredit, CreditAfterWithdrawal, Available, VaultTypeOK
<1> QED
    BY <1>2, <1>3 DEF WithdrawCredit, VaultTypeOK

LEMMA HolderStepType ==
    VaultTypeOK /\ HolderNext => VaultTypeOK'
<1> SUFFICES ASSUME VaultTypeOK, HolderNext PROVE VaultTypeOK'
    OBVIOUS
<1>1. PICK a \in Accounts, amount \in HolderAmounts :
          \/ Faucet(a, amount)
          \/ \E h \in Holders : DirectTransfer(a, h, amount)
          \/ \E h \in Holders : EscapeWithdraw(a, h, amount)
    BY DEF HolderNext
<1>2. a \in Holders /\ amount \in Nat
    BY DEF Holders
<1>3. CASE Faucet(a, amount)
    BY <1>2, <1>3 DEF Faucet, VaultTypeOK
<1>4. ASSUME NEW h \in Holders, DirectTransfer(a, h, amount) PROVE VaultTypeOK'
    BY <1>2, <1>4, MovedType DEF DirectTransfer, VaultTypeOK
<1>5. ASSUME NEW h \in Holders, EscapeWithdraw(a, h, amount) PROVE VaultTypeOK'
    BY <1>2, <1>5, WithdrawType DEF EscapeWithdraw
<1> QED
    BY <1>1, <1>3, <1>4, <1>5

LEMMA AdminStepType ==
    AdapterTypeOK /\ AdminNext /\ UNCHANGED signed => AdapterTypeOK'
<1> SUFFICES ASSUME AdapterTypeOK, AdminNext, UNCHANGED signed PROVE AdapterTypeOK'
    OBVIOUS
<1>1. ASSUME NEW c \in Config, Reconfigure(c) PROVE AdapterTypeOK'
    BY <1>1 DEF Reconfigure, AdapterTypeOK
<1>2. ASSUME NEW s \in Signers, NEW b \in BOOLEAN, SetAuthorizedSigner(s, b)
      PROVE  AdapterTypeOK'
    BY <1>1, <1>2 DEF SetAuthorizedSigner, AdapterTypeOK, Config
<1>3. ASSUME NEW b \in BOOLEAN, SetAllowedTarget(b) PROVE AdapterTypeOK'
    BY <1>1, <1>3 DEF SetAllowedTarget, AdapterTypeOK, Config
<1>4. ASSUME NEW b \in BOOLEAN, SetProtectedPair(b) PROVE AdapterTypeOK'
    BY <1>1, <1>4 DEF SetProtectedPair, AdapterTypeOK, Config
<1>5. ASSUME NEW w \in GuardWindows, SetGuardWindow(w) PROVE AdapterTypeOK'
    BY <1>1, <1>5 DEF SetGuardWindow, AdapterTypeOK, Config
<1>6. ASSUME NEW b \in BOOLEAN, SetPaused(b) PROVE AdapterTypeOK'
    BY <1>1, <1>6 DEF SetPaused, AdapterTypeOK, Config
<1> QED
    BY <1>2, <1>3, <1>4, <1>5, <1>6 DEF AdminNext

LEMMA ExecuteType ==
    AssetTypeOK /\ VaultTypeOK /\ AdapterTypeOK /\ ExecuteSome /\ UNCHANGED signed
        => VaultTypeOK' /\ AdapterTypeOK'
<1> SUFFICES ASSUME AssetTypeOK, VaultTypeOK, AdapterTypeOK, UNCHANGED signed,
                    NEW rs \in signed, NEW sender \in Accounts,
                    Execute(rs[1], rs[2], sender)
             PROVE  VaultTypeOK' /\ AdapterTypeOK'
    BY DEF ExecuteSome
<1>1. rs[1] \in Receipt /\ rs[1].op \in Operation /\ rs[1].id \in ReceiptIds
    BY DEF AdapterTypeOK, Receipt
<1>2. VaultTypeOK'
    BY <1>1, DepositType, WithdrawType DEF Execute, PerformProtectedAction, Operation
<1>3. AdapterTypeOK'
    BY <1>1 DEF Execute, MarkConsumed, AdapterTypeOK, AssetTypeOK, Execution
<1> QED
    BY <1>2, <1>3

LEMMA RowAfterIntentType ==
    ASSUME EvidenceTypeOK, NEW i \in Intent
    PROVE  RowAfterIntent(i) \in Row
BY DEF RowAfterIntent, EvidenceTypeOK, Row, Intent, AssetView, Agreement

LEMMA AgreementType ==
    ASSUME NEW intended, NEW view, NEW failed
    PROVE  SourceAgreement(intended, view, failed) \in Agreement
BY DEF SourceAgreement, CompareSources, Combine, Agreement

LEMMA RowAfterSnapshotType ==
    ASSUME EvidenceTypeOK, AssetTypeOK, row # None, NEW intended, NEW view \in AssetView,
           NEW failed
    PROVE  RowAfterSnapshot(intended, view, failed) \in Row
<1> DEFINE agreement == SourceAgreement(intended, view, failed)
           n == IF "nonce" \in failed THEN row.nonce ELSE view.nonce
           a == IF "activation" \in failed THEN NoSchedule ELSE view.activation
           m == IF agreement = "MATCH" THEN view ELSE None
           c == "identity" \notin failed
<1>1. row \in Row
    BY DEF EvidenceTypeOK
<1>2. agreement \in Agreement
    BY AgreementType
<1>3. n \in Nat /\ a \in Nat
    BY <1>1 DEF Row, AssetView, NoSchedule
<1>4. m \in AssetView \cup {None}
    OBVIOUS
<1>5. c \in BOOLEAN
    OBVIOUS
<1>6. time \in Nat \cup {None}
    BY DEF AssetTypeOK
<1>7. RowAfterSnapshot(intended, view, failed) =
        [row EXCEPT !.nonce = n, !.activation = a, !.chainAt = time,
                    !.agreement = agreement, !.matched = m, !.canonical = c]
    BY DEF RowAfterSnapshot, NonceWritten, ScheduleWritten
<1> HIDE DEF agreement, n, a, m, c
<1> QED
    BY <1>1, <1>2, <1>3, <1>4, <1>5, <1>6, <1>7 DEF Row

LEMMA EvidenceStepType ==
    AssetTypeOK /\ EvidenceTypeOK /\ EvidenceNext => EvidenceTypeOK'
<1> SUFFICES ASSUME AssetTypeOK, EvidenceTypeOK, EvidenceNext PROVE EvidenceTypeOK'
    OBVIOUS
<1>1. ASSUME NEW view \in Intendable, NEW at \in 0..Horizon, PostIntent(view, at)
      PROVE  EvidenceTypeOK'
  <2>1. view \in AssetView
      BY DEF Intendable, AssetTypeOK, AssetView
  <2>2. [view |-> view, at |-> at] \in Intent
      BY <2>1 DEF Intent
  <2>3. row' \in Row
      BY <1>1, <2>2, RowAfterIntentType DEF PostIntent
  <2>4. None \notin Row
      OBVIOUS
  <2> QED
      BY <1>1, <2>2, <2>3, <2>4 DEF PostIntent, EvidenceTypeOK
<1>2. CASE BeginObservation
    BY <1>2 DEF BeginObservation, EvidenceTypeOK, Intent
<1>3. CASE AbandonObservation
    BY <1>3 DEF AbandonObservation, EvidenceTypeOK
<1>4. ASSUME NEW view \in past, NEW failed \in FailureSets, CommitObservation(view, failed)
      PROVE  EvidenceTypeOK'
  <2>1. view \in AssetView /\ row # None
      BY <1>4 DEF AssetTypeOK, EvidenceTypeOK, CommitObservation
  <2>2. row' \in Row
      BY <1>4, <2>1, RowAfterSnapshotType DEF CommitObservation
  <2> QED
      BY <1>4, <2>2 DEF CommitObservation, EvidenceTypeOK
<1> QED
    BY <1>1, <1>2, <1>3, <1>4 DEF EvidenceNext

LEMMA PreflightType ==
    AdapterTypeOK /\ AssetTypeOK /\ issuedUnder \in [ReceiptIds -> Nat \cup {None}]
    /\ Preflight
        => AdapterTypeOK' /\ issuedUnder' \in [ReceiptIds -> Nat \cup {None}]
<1> SUFFICES ASSUME AdapterTypeOK, AssetTypeOK,
                    issuedUnder \in [ReceiptIds -> Nat \cup {None}],
                    UNCHANGED adapterVars,
                    NEW id \in ReceiptIds, NEW op \in Operations, NEW n \in 0..MaxNonce,
                    NEW now \in 0..Horizon + Skew, IssueReceipt(id, op, n, now)
             PROVE  AdapterTypeOK' /\ issuedUnder' \in [ReceiptIds -> Nat \cup {None}]
    BY DEF Preflight
<1>1. NewReceipt(id, op, n, now) \in Receipt
    BY DEF NewReceipt, Receipt
<1>2. signed' \subseteq Receipt \X Signers
    BY <1>1 DEF IssueReceipt, AdapterTypeOK
<1>3. issuedUnder' \in [ReceiptIds -> Nat \cup {None}]
    BY DEF IssueReceipt, AssetTypeOK
<1> QED
    BY <1>2, <1>3 DEF AdapterTypeOK, adapterVars

LEMMA InitType == Init => TypeOK
<1> SUFFICES ASSUME Init PROVE TypeOK
    OBVIOUS
<1>1. AssetTypeOK
    BY DEF Init, AssetInit, AssetTypeOK, CurrentView, AssetView, NoSchedule
<1>2. VaultTypeOK
    BY DEF Init, VaultInit, VaultTypeOK
<1>3. AdapterTypeOK
    BY DEF Init, AdapterInit, AdapterTypeOK, Config
<1>4. EvidenceTypeOK
    BY DEF Init, EvidenceInit, EvidenceTypeOK
<1>5. issuedUnder \in [ReceiptIds -> Nat \cup {None}]
    BY DEF Init
<1> QED
    BY <1>1, <1>2, <1>3, <1>4, <1>5 DEF TypeOK

LEMMA StepType == TypeOK /\ [Next]_vars => TypeOK'
<1> SUFFICES ASSUME TypeOK, [Next]_vars PROVE TypeOK'
    OBVIOUS
<1> USE DEF TypeOK
<1>1. CASE UNCHANGED vars
    BY <1>1 DEF vars, assetVars, vaultVars, adapterVars, evidenceVars,
                AssetTypeOK, VaultTypeOK, AdapterTypeOK, EvidenceTypeOK
<1>2. CASE ChainStep
  <2>1. EvidenceTypeOK' /\ issuedUnder' \in [ReceiptIds -> Nat \cup {None}] /\ signed' = signed
      BY <1>2 DEF ChainStep, evidenceVars, EvidenceTypeOK
  <2>2. CASE AssetNext /\ UNCHANGED <<vaultVars, adapterVars>>
      BY <2>1, <2>2, AssetStepType DEF vaultVars, adapterVars, VaultTypeOK, AdapterTypeOK
  <2>3. CASE HolderNext /\ UNCHANGED <<assetVars, adapterVars>>
      BY <2>1, <2>3, HolderStepType DEF assetVars, adapterVars, AssetTypeOK, AdapterTypeOK
  <2>4. CASE AdminNext /\ UNCHANGED <<assetVars, vaultVars>>
      BY <2>1, <2>4, AdminStepType DEF assetVars, vaultVars, AssetTypeOK, VaultTypeOK
  <2>5. CASE ExecuteSome /\ UNCHANGED assetVars
      BY <2>1, <2>5, ExecuteType DEF assetVars, AssetTypeOK
  <2> QED
      BY <1>2, <2>2, <2>3, <2>4, <2>5 DEF ChainStep
<1>3. CASE EvidenceStep
    BY <1>3, EvidenceStepType DEF EvidenceStep, assetVars, vaultVars, adapterVars,
            AssetTypeOK, VaultTypeOK, AdapterTypeOK
<1>4. CASE Preflight
    BY <1>4, PreflightType DEF Preflight, assetVars, vaultVars, evidenceVars,
            AssetTypeOK, VaultTypeOK, EvidenceTypeOK
<1> QED
    BY <1>1, <1>2, <1>3, <1>4 DEF Next

\* TypeInvariant.  Every reachable state is typed: balances and credits never
\* go below zero, whatever the chain, the worker and the API interleave.
THEOREM TypeInvariant == Spec => []TypeOK
<1> QED
    BY InitType, StepType, PTL DEF Spec

-----------------------------------------------------------------------------
\* The inductive invariant.

LEMMA InitIInv == Init => IInv
BY DEF Init, AssetInit, AdapterInit, EvidenceInit, CurrentView, NoSchedule, IInv,
       EpochOrder, PastIsSeen, SeenTogether, IntentsAreSeen, MatchedRowIsSeen,
       LiveReceiptsAreSafe, ExecutedIsConsumed, EpochSafety, AtMostOnce

\* Once a nonce and a schedule were on chain together, they stay related as
\* SeenTogether says: a new schedule moves the nonce on, an application clears
\* the schedule, and nothing else touches either.
LEMMA SeenStable ==
    ASSUME AssetTypeOK, AssetNext, NEW n \in Nat, NEW a, SeenTogether(n, a)
    PROVE  SeenTogether(n, a)'
<1>1. CASE Tick
    BY <1>1 DEF Tick, SeenTogether
<1>2. ASSUME NEW at \in 1..Horizon, ScheduleMultiplier(at) PROVE SeenTogether(n, a)'
    BY <1>2 DEF ScheduleMultiplier, SeenTogether, AssetTypeOK
<1>3. CASE ApplyScheduledMultiplier
    BY <1>3 DEF ApplyScheduledMultiplier, SeenTogether
<1> QED
    BY <1>1, <1>2, <1>3 DEF AssetNext

LEMMA PastStep ==
    ASSUME AssetTypeOK, AssetNext, PastIsSeen
    PROVE  PastIsSeen'
<1>1. past' \subseteq past \cup {CurrentView'}
    BY DEF AssetNext, Tick, ScheduleMultiplier, ApplyScheduledMultiplier
<1> SUFFICES ASSUME NEW v \in past' PROVE SeenTogether(v.nonce, v.activation)'
    BY DEF PastIsSeen
<1>2. CASE v \in past
  <2>1. v.nonce \in Nat /\ SeenTogether(v.nonce, v.activation)
      BY <1>2 DEF PastIsSeen, AssetTypeOK, AssetView
  <2> QED
      BY <2>1, SeenStable
<1>3. CASE v = CurrentView'
  <2>1. v.nonce = nonce' /\ v.activation = activation' /\ nonce' \in Nat
      BY <1>3, AssetStepType DEF CurrentView, AssetTypeOK
  <2> QED
      BY <2>1 DEF SeenTogether
<1> QED
    BY <1>1, <1>2, <1>3

LEMMA EpochOrderStep ==
    ASSUME AssetTypeOK, AssetNext, EpochOrder
    PROVE  EpochOrder'
<1>1. CASE Tick
    BY <1>1 DEF Tick, EpochOrder
<1>2. ASSUME NEW at \in 1..Horizon, ScheduleMultiplier(at) PROVE EpochOrder'
    BY <1>2 DEF ScheduleMultiplier, EpochOrder, AssetTypeOK, NoSchedule
<1>3. CASE ApplyScheduledMultiplier
    BY <1>3 DEF ApplyScheduledMultiplier, EpochOrder, AssetTypeOK
<1> QED
    BY <1>1, <1>2, <1>3 DEF AssetNext

\* No receipt outlives a pending change, so applying one catches none alive.
LEMMA ReceiptsAcrossAssetStep ==
    ASSUME TypeOK, AssetNext, LiveReceiptsAreSafe, UNCHANGED <<signed, issuedUnder>>
    PROVE  LiveReceiptsAreSafe'
<1> SUFFICES ASSUME NEW rs \in signed
             PROVE  /\ issuedUnder[rs[1].id] # None
                    /\ rs[1].nonce <= nonce'
                    /\ rs[1].nonce = nonce' /\ time' < rs[1].validUntil =>
                          /\ issuedUnder[rs[1].id] = effective'
                          /\ activation' # NoSchedule => rs[1].validUntil <= activation'
    BY DEF LiveReceiptsAreSafe
<1>1. /\ rs[1].nonce \in Nat /\ rs[1].validUntil \in Nat
      /\ time \in Nat /\ nonce \in Nat /\ activation \in Nat
    BY DEF TypeOK, AdapterTypeOK, AssetTypeOK, Receipt
<1>2. /\ issuedUnder[rs[1].id] # None
      /\ rs[1].nonce <= nonce
      /\ rs[1].nonce = nonce /\ time < rs[1].validUntil =>
            /\ issuedUnder[rs[1].id] = effective
            /\ activation # NoSchedule => rs[1].validUntil <= activation
    BY DEF LiveReceiptsAreSafe
<1>3. CASE Tick
    BY <1>1, <1>2, <1>3 DEF Tick
<1>4. CASE \E at \in 1..Horizon : ScheduleMultiplier(at)
    BY <1>1, <1>2, <1>4 DEF ScheduleMultiplier
<1>5. CASE ApplyScheduledMultiplier
    BY <1>1, <1>2, <1>5 DEF ApplyScheduledMultiplier, ActivationReached
<1> QED
    BY <1>3, <1>4, <1>5 DEF AssetNext

LEMMA AssetStepIInv ==
    ASSUME TypeOK, IInv, AssetNext,
           UNCHANGED <<vaultVars, adapterVars, signed, evidenceVars, issuedUnder>>
    PROVE  IInv'
<1>1. EpochOrder' /\ PastIsSeen'
    BY EpochOrderStep, PastStep DEF IInv, TypeOK
<1>2. IntentsAreSeen'
    BY SeenStable DEF IInv, IntentsAreSeen, TypeOK, EvidenceTypeOK, Intent, AssetView, evidenceVars
<1>3. MatchedRowIsSeen'
    BY SeenStable DEF IInv, MatchedRowIsSeen, TypeOK, EvidenceTypeOK, Row, evidenceVars
<1>4. LiveReceiptsAreSafe'
    BY ReceiptsAcrossAssetStep DEF IInv
<1>5. ExecutedIsConsumed' /\ EpochSafety' /\ AtMostOnce'
    BY DEF IInv, ExecutedIsConsumed, EpochSafety, AtMostOnce, adapterVars
<1> QED
    BY <1>1, <1>2, <1>3, <1>4, <1>5 DEF IInv

\* The adapter executes only a live receipt of the current nonce, hence one
\* issued under the multiplier still in force.
LEMMA ExecuteIInv ==
    ASSUME TypeOK, IInv, ExecuteSome,
           UNCHANGED <<assetVars, signed, evidenceVars, issuedUnder>>
    PROVE  IInv'
<1>1. PICK rs \in signed, sender \in Accounts : Execute(rs[1], rs[2], sender)
    BY DEF ExecuteSome
<1> DEFINE new == [receipt |-> rs[1], at |-> time, under |-> effective]
<1>2. /\ executions' = executions \cup {new}
      /\ consumed' = consumed \cup {rs[1].id}
      /\ rs[1].id \notin consumed
      /\ rs[1].nonce = nonce
      /\ time < rs[1].validUntil
    BY <1>1 DEF Execute, MarkConsumed, NotConsumed, SameEpoch, WithinValidity
<1>3. new.receipt = rs[1] /\ new.under = effective
    OBVIOUS
<1> HIDE DEF new
<1>4. issuedUnder[rs[1].id] = effective
    BY <1>2 DEF IInv, LiveReceiptsAreSafe
<1>5. EpochSafety'
    BY <1>2, <1>3, <1>4 DEF IInv, EpochSafety
<1>6. ExecutedIsConsumed'
    BY <1>2, <1>3 DEF IInv, ExecutedIsConsumed
<1>7. AtMostOnce'
    BY <1>2, <1>3 DEF IInv, ExecutedIsConsumed, AtMostOnce
<1>8. EpochOrder' /\ PastIsSeen' /\ IntentsAreSeen' /\ MatchedRowIsSeen'
      /\ LiveReceiptsAreSafe'
    BY DEF IInv, EpochOrder, PastIsSeen, SeenTogether, IntentsAreSeen, MatchedRowIsSeen,
           LiveReceiptsAreSafe, assetVars, evidenceVars
<1> QED
    BY <1>5, <1>6, <1>7, <1>8 DEF IInv

\* What holders and the adapter's owner do touches nothing the invariant reads.
LEMMA OtherCallsIInv ==
    ASSUME IInv, UNCHANGED <<assetVars, signed, evidenceVars, issuedUnder, consumed, executions>>
    PROVE  IInv'
BY DEF IInv, EpochOrder, PastIsSeen, SeenTogether, IntentsAreSeen, MatchedRowIsSeen,
       LiveReceiptsAreSafe, ExecutedIsConsumed, EpochSafety, AtMostOnce,
       assetVars, evidenceVars

LEMMA ChainStepIInv ==
    ASSUME TypeOK, IInv, ChainStep
    PROVE  IInv'
<1>1. UNCHANGED <<signed, evidenceVars, issuedUnder>>
    BY DEF ChainStep
<1>2. CASE AssetNext /\ UNCHANGED <<vaultVars, adapterVars>>
    BY <1>1, <1>2, AssetStepIInv
<1>3. CASE HolderNext /\ UNCHANGED <<assetVars, adapterVars>>
    BY <1>1, <1>3, OtherCallsIInv DEF adapterVars
<1>4. CASE AdminNext /\ UNCHANGED <<assetVars, vaultVars>>
  <2>1. UNCHANGED <<consumed, executions>>
      BY <1>4 DEF AdminNext, SetAuthorizedSigner, SetAllowedTarget, SetProtectedPair,
                  SetGuardWindow, SetPaused, Reconfigure
  <2> QED
      BY <1>1, <1>4, <2>1, OtherCallsIInv
<1>5. CASE ExecuteSome /\ UNCHANGED assetVars
    BY <1>1, <1>5, ExecuteIInv
<1> QED
    BY <1>2, <1>3, <1>4, <1>5 DEF ChainStep

\* An intent restates a state of the chain, and a comparison that says MATCH
\* wrote the whole of one: the row never holds half of each.
LEMMA EvidenceStepIInv ==
    ASSUME ~FreeIntents, TypeOK, IInv, EvidenceStep
    PROVE  IInv'
<1>1. UNCHANGED <<assetVars, adapterVars, signed, issuedUnder>> /\ EvidenceNext
    BY DEF EvidenceStep
<1>2. EpochOrder' /\ PastIsSeen' /\ LiveReceiptsAreSafe' /\ ExecutedIsConsumed'
      /\ EpochSafety' /\ AtMostOnce'
    BY <1>1 DEF IInv, EpochOrder, PastIsSeen, SeenTogether, LiveReceiptsAreSafe,
                ExecutedIsConsumed, EpochSafety, AtMostOnce, assetVars, adapterVars
<1>3. ASSUME NEW n, NEW a, SeenTogether(n, a) PROVE SeenTogether(n, a)'
    BY <1>1, <1>3 DEF SeenTogether, assetVars
<1>4. IntentsAreSeen' /\ MatchedRowIsSeen'
  <2>1. ASSUME NEW view \in Intendable, NEW at \in 0..Horizon, PostIntent(view, at)
        PROVE  IntentsAreSeen' /\ MatchedRowIsSeen'
    <3>1. SeenTogether(view.nonce, view.activation)'
        BY <1>3 DEF Intendable, IInv, PastIsSeen
    <3>2. intent'.view = view
        BY <2>1 DEF PostIntent
    <3>3. row'.nonce = view.nonce /\ row'.activation = view.activation
        BY <2>1 DEF PostIntent, RowAfterIntent, TypeOK, EvidenceTypeOK, Row
    <3> QED
        BY <3>1, <3>2, <3>3 DEF IntentsAreSeen, MatchedRowIsSeen
  <2>2. CASE BeginObservation \/ AbandonObservation
      BY <2>2, <1>3 DEF BeginObservation, AbandonObservation, IInv, IntentsAreSeen,
                        MatchedRowIsSeen
  <2>3. ASSUME NEW view \in past, NEW failed \in FailureSets, CommitObservation(view, failed)
        PROVE  IntentsAreSeen' /\ MatchedRowIsSeen'
    <3>1. row' = RowAfterSnapshot(comparing, view, failed) /\ intent' = intent
        BY <2>3 DEF CommitObservation
    <3>2. row \in Row
        BY <2>3 DEF CommitObservation, TypeOK, EvidenceTypeOK
    <3>3. row'.agreement = SourceAgreement(comparing, view, failed)
        BY <3>1, <3>2 DEF RowAfterSnapshot, Row
    <3>4. row'.agreement = "MATCH" => failed = {}
        BY <3>3 DEF SourceAgreement
    <3>5. failed = {} => row'.nonce = view.nonce /\ row'.activation = view.activation
        BY <3>1, <3>2 DEF RowAfterSnapshot, NonceWritten, ScheduleWritten, Row
    <3>6. SeenTogether(view.nonce, view.activation)'
        BY <1>3 DEF IInv, PastIsSeen
    <3> QED
        BY <3>1, <3>4, <3>5, <3>6, <1>3 DEF IInv, IntentsAreSeen, MatchedRowIsSeen
  <2> QED
      BY <1>1, <2>1, <2>2, <2>3 DEF EvidenceNext
<1> QED
    BY <1>2, <1>4 DEF IInv

\* A receipt issued outside the preflight's guard window dies before the pending
\* activation, because its lifetime is no longer than that window.
LEMMA IssuedReceiptIsSafe ==
    ASSUME TypeOK, IInv, NEW n \in Nat, NEW now \in Nat, Allows(n, now)
    PROVE  /\ n <= nonce
           /\ n = nonce /\ activation # NoSchedule => now + Lifetime <= activation
<1>1. /\ row \in Row
      /\ row.nonce = n
      /\ row.agreement = "MATCH"
      /\ OutsideScheduledWindow(now)
    BY DEF Allows, SourcesAgree, TypeOK, EvidenceTypeOK
<1>2. SeenTogether(n, row.activation)
    BY <1>1 DEF Allows, IInv, MatchedRowIsSeen
<1>3. row.activation \in Nat
    BY <1>1 DEF Row
<1>4. row.activation # NoSchedule => row.activation > now + GuardBefore
    BY <1>1, <1>3 DEF OutsideScheduledWindow
<1>5. row.activation # NoSchedule => now + Lifetime <= row.activation
    BY <1>3, <1>4
<1> QED
    BY <1>2, <1>5 DEF SeenTogether

LEMMA PreflightIInv ==
    ASSUME TypeOK, IInv, Preflight
    PROVE  IInv'
<1>1. UNCHANGED <<assetVars, adapterVars, evidenceVars>>
    BY DEF Preflight
<1>2. PICK id \in ReceiptIds, op \in Operations, n \in 0..MaxNonce, now \in 0..Horizon + Skew :
          IssueReceipt(id, op, n, now)
    BY DEF Preflight
<1> DEFINE r == NewReceipt(id, op, n, now)
<1>3. r.id = id /\ r.nonce = n /\ r.validUntil = now + Lifetime
    BY DEF NewReceipt
<1>4. /\ issuedUnder[id] = None
      /\ signed' = signed \cup {<<r, ApiSigner>>}
      /\ issuedUnder' = [issuedUnder EXCEPT ![id] = effective]
      /\ Allows(n, now)
    BY <1>2 DEF IssueReceipt
<1>5. n \in Nat /\ now \in Nat
    BY DEF PolicyAssumption
<1>6. /\ n <= nonce
      /\ n = nonce /\ activation # NoSchedule => now + Lifetime <= activation
    BY <1>4, <1>5, IssuedReceiptIsSafe
<1> HIDE DEF r
<1>7. issuedUnder'[id] = effective /\ effective # None
    BY <1>4 DEF TypeOK, AssetTypeOK
<1>8. ASSUME NEW other \in ReceiptIds, issuedUnder[other] # None
      PROVE  issuedUnder'[other] = issuedUnder[other]
    BY <1>4, <1>8 DEF TypeOK
<1>9. UNCHANGED <<time, nonce, activation, effective, past, executions, consumed, intent, row>>
    BY <1>1 DEF assetVars, adapterVars, evidenceVars
<1>10. LiveReceiptsAreSafe'
  <2> SUFFICES ASSUME NEW rs \in signed'
               PROVE  /\ issuedUnder'[rs[1].id] # None
                      /\ rs[1].nonce <= nonce
                      /\ rs[1].nonce = nonce /\ time < rs[1].validUntil =>
                            /\ issuedUnder'[rs[1].id] = effective
                            /\ activation # NoSchedule => rs[1].validUntil <= activation
      BY <1>9 DEF LiveReceiptsAreSafe
  <2>1. CASE rs \in signed
    <3>1. rs[1].id \in ReceiptIds
        BY <2>1 DEF TypeOK, AdapterTypeOK, Receipt
    <3>2. /\ issuedUnder[rs[1].id] # None
          /\ rs[1].nonce <= nonce
          /\ rs[1].nonce = nonce /\ time < rs[1].validUntil =>
                /\ issuedUnder[rs[1].id] = effective
                /\ activation # NoSchedule => rs[1].validUntil <= activation
        BY <2>1 DEF IInv, LiveReceiptsAreSafe
    <3> QED
        BY <3>1, <3>2, <1>8
  <2>2. CASE rs = <<r, ApiSigner>>
      BY <2>2, <1>3, <1>6, <1>7
  <2> QED
      BY <1>4, <2>1, <2>2
<1>11. EpochSafety'
  <2> SUFFICES ASSUME NEW e \in executions PROVE e.under = issuedUnder'[e.receipt.id]
      BY <1>9 DEF EpochSafety
  <2>1. e.receipt.id \in ReceiptIds /\ e.under # None
      BY DEF TypeOK, AdapterTypeOK, Execution, Receipt
  <2>2. e.under = issuedUnder[e.receipt.id]
      BY DEF IInv, EpochSafety
  <2> QED
      BY <2>1, <2>2, <1>8
<1>12. EpochOrder' /\ PastIsSeen' /\ IntentsAreSeen' /\ MatchedRowIsSeen'
       /\ ExecutedIsConsumed' /\ AtMostOnce'
    BY <1>9 DEF IInv, EpochOrder, PastIsSeen, SeenTogether, IntentsAreSeen,
                MatchedRowIsSeen, ExecutedIsConsumed, AtMostOnce
<1> QED
    BY <1>10, <1>11, <1>12 DEF IInv

LEMMA StepIInv ==
    ASSUME ~FreeIntents
    PROVE  TypeOK /\ IInv /\ [Next]_vars => IInv'
<1> SUFFICES ASSUME TypeOK, IInv, [Next]_vars PROVE IInv'
    OBVIOUS
<1>1. CASE UNCHANGED vars
  <2>1. UNCHANGED <<assetVars, signed, evidenceVars, issuedUnder, consumed, executions>>
      BY <1>1 DEF vars, adapterVars
  <2> QED
      BY <2>1, OtherCallsIInv
<1>2. CASE ChainStep
    BY <1>2, ChainStepIInv
<1>3. CASE EvidenceStep
    BY <1>3, EvidenceStepIInv
<1>4. CASE Preflight
    BY <1>4, PreflightIInv
<1> QED
    BY <1>1, <1>2, <1>3, <1>4 DEF Next

\* InductiveInvariant.  Whatever the chain, the worker, the API and the holders
\* interleave, every part of IInv holds, provided that the fixture's publisher
\* announces only states the chain has shown.
THEOREM InductiveInvariant ==
    ASSUME ~FreeIntents
    PROVE  Spec => []IInv
<1> QED
    BY InitType, StepType, InitIInv, StepIInv, PTL DEF Spec

\* NoEpochCrossing.  No movement the adapter lets through runs under another
\* multiplier than the one its receipt was issued under.
THEOREM NoEpochCrossing ==
    ASSUME ~FreeIntents
    PROVE  Spec => []EpochSafety
<1>1. IInv => EpochSafety
    BY DEF IInv
<1> QED
    BY <1>1, InductiveInvariant, PTL

-----------------------------------------------------------------------------
\* A receipt is used once, also when intents run ahead of the chain.

LEMMA ExecuteUsesFreshReceipt ==
    ASSUME ExecutedIsConsumed, AtMostOnce, ExecuteSome
    PROVE  ExecutedIsConsumed' /\ AtMostOnce'
<1>1. PICK rs \in signed, sender \in Accounts : Execute(rs[1], rs[2], sender)
    BY DEF ExecuteSome
<1> DEFINE new == [receipt |-> rs[1], at |-> time, under |-> effective]
<1>2. /\ rs[1].id \notin {e.receipt.id : e \in executions}
      /\ consumed' = consumed \cup {rs[1].id}
      /\ executions' = executions \cup {new}
    BY <1>1 DEF Execute, NotConsumed, MarkConsumed, ExecutedIsConsumed
<1>3. new.receipt.id = rs[1].id
    OBVIOUS
<1>4. ExecutedIsConsumed'
    BY <1>2, <1>3 DEF ExecutedIsConsumed
<1>5. AtMostOnce'
    BY <1>2, <1>3 DEF AtMostOnce
<1> QED
    BY <1>4, <1>5

LEMMA StepUsesFreshReceipt ==
    ASSUME ExecutedIsConsumed, AtMostOnce, [Next]_vars
    PROVE  ExecutedIsConsumed' /\ AtMostOnce'
<1>1. CASE UNCHANGED <<consumed, executions>>
    BY <1>1 DEF ExecutedIsConsumed, AtMostOnce
<1>2. CASE ExecuteSome
    BY <1>2, ExecuteUsesFreshReceipt
<1>3. AdminNext => UNCHANGED <<consumed, executions>>
    BY DEF AdminNext, SetAuthorizedSigner, SetAllowedTarget, SetProtectedPair,
           SetGuardWindow, SetPaused, Reconfigure
<1> QED
    BY <1>1, <1>2, <1>3 DEF Next, ChainStep, EvidenceStep, Preflight, vars, adapterVars

\* ReceiptUsedOnce.  A receipt moves funds once, whoever signs what, whatever the
\* owner configures and whatever the evidence says.
THEOREM ReceiptUsedOnce == Spec => []AtMostOnce
<1>1. Init => ExecutedIsConsumed /\ AtMostOnce
    BY DEF Init, AdapterInit, ExecutedIsConsumed, AtMostOnce
<1> QED
    BY <1>1, StepUsesFreshReceipt, PTL DEF Spec

-----------------------------------------------------------------------------
\* What a row that says MATCH stands for.

LEMMA EvidenceStepMatch ==
    ASSUME TypeOK, MatchIsARealState, EvidenceStep
    PROVE  MatchIsARealState'
<1>1. past' = past /\ EvidenceNext
    BY DEF EvidenceStep, assetVars
<1>2. ASSUME ~FreeIntents, NEW view \in Intendable, NEW at \in 0..Horizon,
             PostIntent(view, at)
      PROVE  MatchIsARealState'
  <2>1. view \in past
      BY <1>2 DEF Intendable
  <2>2. row'.nonce = view.nonce /\ row'.activation = view.activation
      BY <1>2 DEF PostIntent, RowAfterIntent, TypeOK, EvidenceTypeOK, Row
  <2> QED
      BY <1>1, <2>1, <2>2 DEF MatchIsARealState
<1>3. CASE BeginObservation \/ AbandonObservation
    BY <1>1, <1>3 DEF BeginObservation, AbandonObservation, MatchIsARealState
<1>4. ASSUME NEW view \in past, NEW failed \in FailureSets, CommitObservation(view, failed)
      PROVE  MatchIsARealState'
  <2>1. row' = RowAfterSnapshot(comparing, view, failed) /\ row \in Row
      BY <1>4 DEF CommitObservation, TypeOK, EvidenceTypeOK
  <2>2. row'.agreement = SourceAgreement(comparing, view, failed)
      BY <2>1 DEF RowAfterSnapshot, Row
  <2>3. row'.agreement = "MATCH" => failed = {}
      BY <2>2 DEF SourceAgreement
  <2>4. failed = {} => row'.nonce = view.nonce /\ row'.activation = view.activation
      BY <2>1 DEF RowAfterSnapshot, NonceWritten, ScheduleWritten, Row
  <2> QED
      BY <1>1, <2>3, <2>4 DEF MatchIsARealState
<1>5. FreeIntents => MatchIsARealState'
    BY DEF MatchIsARealState
<1> QED
    BY <1>1, <1>2, <1>3, <1>4, <1>5 DEF EvidenceNext

LEMMA StepMatch ==
    ASSUME TypeOK, MatchIsARealState, [Next]_vars
    PROVE  MatchIsARealState'
<1>1. CASE EvidenceStep
    BY <1>1, EvidenceStepMatch
<1>2. CASE UNCHANGED row /\ past \subseteq past'
    BY <1>2 DEF MatchIsARealState
<1>3. AssetNext => past \subseteq past'
    BY DEF AssetNext, Tick, ScheduleMultiplier, ApplyScheduledMultiplier
<1> QED
    BY <1>1, <1>2, <1>3 DEF Next, ChainStep, Preflight, vars, assetVars, evidenceVars

\* MatchesAreReal.  A row that says MATCH describes a state the asset was in,
\* whichever reads fail and however intents and observations interleave.
THEOREM MatchesAreReal == Spec => []MatchIsARealState
<1>1. Init => MatchIsARealState
    BY DEF Init, EvidenceInit, MatchIsARealState
<1>2. TypeOK /\ MatchIsARealState /\ [Next]_vars => MatchIsARealState'
    BY StepMatch
<1> QED
    BY <1>1, <1>2, TypeInvariant, PTL DEF Spec

-----------------------------------------------------------------------------
\* Refinement of the one-time authorization.

Spent == {<<e.receipt.id, e.at>> : e \in executions}

LEMMA InitRefines == Init => Authorization!Init
BY DEF Init, AssetInit, AdapterInit, Authorization!Init

LEMMA AssetStepRefines ==
    ASSUME TypeOK, IInv, AssetNext, UNCHANGED <<executions, issuedUnder>>
    PROVE  Authorization!ChangeEpoch \/ UNCHANGED Authorization!vars
<1>1. CASE ApplyScheduledMultiplier
  <2>1. effective' \in Nat /\ effective' > effective
      BY <1>1 DEF ApplyScheduledMultiplier, IInv, EpochOrder, TypeOK, AssetTypeOK
  <2> QED
      BY <2>1 DEF Authorization!ChangeEpoch
<1>2. CASE Tick \/ \E at \in 1..Horizon : ScheduleMultiplier(at)
    BY <1>2 DEF Tick, ScheduleMultiplier, Authorization!vars
<1> QED
    BY <1>1, <1>2 DEF AssetNext

LEMMA ExecuteRefines ==
    ASSUME TypeOK, IInv, ExecuteSome, UNCHANGED <<effective, issuedUnder>>
    PROVE  \E i \in ReceiptIds : Authorization!Spend(i)
<1>1. PICK rs \in signed, sender \in Accounts : Execute(rs[1], rs[2], sender)
    BY DEF ExecuteSome
<1> DEFINE new == [receipt |-> rs[1], at |-> time, under |-> effective]
<1>2. /\ executions' = executions \cup {new}
      /\ rs[1].id \notin consumed
      /\ rs[1].nonce = nonce
      /\ time < rs[1].validUntil
    BY <1>1 DEF Execute, NotConsumed, SameEpoch, WithinValidity
<1>3. new.receipt = rs[1] /\ new.at = time
    OBVIOUS
<1> HIDE DEF new
<1>4. Spent' = Spent \cup {<<rs[1].id, time>>}
    BY <1>2, <1>3 DEF Spent
<1>5. \A use \in Spent : use[1] # rs[1].id
    BY <1>2 DEF Spent, IInv, ExecutedIsConsumed
<1>6. issuedUnder[rs[1].id] = effective
    BY <1>2 DEF IInv, LiveReceiptsAreSafe
<1>7. rs[1].id \in ReceiptIds
    BY DEF TypeOK, AdapterTypeOK, Receipt
<1> QED
    BY <1>4, <1>5, <1>6, <1>7 DEF Authorization!Spend, Spent

LEMMA StepRefines ==
    ASSUME TypeOK, IInv, [Next]_vars
    PROVE  [Authorization!Next]_Authorization!vars
<1> USE DEF Authorization!Next
<1>1. CASE UNCHANGED vars
    BY <1>1 DEF vars, assetVars, adapterVars, Authorization!vars
<1>2. CASE ChainStep
  <2>1. UNCHANGED issuedUnder
      BY <1>2 DEF ChainStep
  <2>2. CASE AssetNext /\ UNCHANGED <<vaultVars, adapterVars>>
      BY <2>1, <2>2, AssetStepRefines DEF adapterVars
  <2>3. CASE HolderNext /\ UNCHANGED <<assetVars, adapterVars>>
      BY <2>1, <2>3 DEF assetVars, adapterVars, Authorization!vars
  <2>4. CASE AdminNext /\ UNCHANGED <<assetVars, vaultVars>>
    <3>1. UNCHANGED executions
        BY <2>4 DEF AdminNext, SetAuthorizedSigner, SetAllowedTarget, SetProtectedPair,
                    SetGuardWindow, SetPaused, Reconfigure
    <3> QED
        BY <2>1, <2>4, <3>1 DEF assetVars, Authorization!vars
  <2>5. CASE ExecuteSome /\ UNCHANGED assetVars
      BY <2>1, <2>5, ExecuteRefines DEF assetVars
  <2> QED
      BY <1>2, <2>2, <2>3, <2>4, <2>5 DEF ChainStep
<1>3. CASE EvidenceStep
    BY <1>3 DEF EvidenceStep, assetVars, adapterVars, Authorization!vars
<1>4. CASE Preflight
  <2>1. PICK id \in ReceiptIds, op \in Operations, n \in 0..MaxNonce, now \in 0..Horizon + Skew :
            IssueReceipt(id, op, n, now)
      BY <1>4 DEF Preflight
  <2>2. Authorization!Grant(id)
      BY <1>4, <2>1 DEF Preflight, IssueReceipt, assetVars, adapterVars, Authorization!Grant
  <2> QED
      BY <2>2
<1> QED
    BY <1>1, <1>2, <1>3, <1>4 DEF Next

\* RefinesAuthorization.  The guarded action, from evidence to movement, is a
\* one-time authorization: granted under one multiplier, spent at most once, and
\* only while that multiplier is in force.
THEOREM RefinesAuthorization ==
    ASSUME ~FreeIntents
    PROVE  Spec => ImplementsAuthorization
<1>1. TypeOK /\ IInv /\ [Next]_vars => [Authorization!Next]_Authorization!vars
    BY StepRefines
<1> QED
    BY <1>1, InitRefines, TypeInvariant, InductiveInvariant, PTL
       DEF Spec, ImplementsAuthorization, Authorization!Spec

=============================================================================
