-------------------------- MODULE Database_proof --------------------------
(***************************************************************************)
(* Proofs about the two protocols packages/db keeps in rows: the claims of *)
(* IdempotentPreflight, for any attempts, keys and pool size, and the      *)
(* leases of WorkLease, for any workers, TTL and number of acquisitions.   *)
(* Each step lemma is about one step of one attempt or of one worker.      *)
(***************************************************************************)
EXTENDS IdempotentPreflight, WorkLease, TLAPS

USE PreflightAssumption, WorkLeaseAssumption


LEMMA KeyInKeys == \A a \in Attempts : Key[a] \in Keys
BY DEF Keys

IInv == TypeOK /\ ClaimInv

LEMMA InitIInv == Init => IInv
BY DEF Init, IInv, TypeOK, ClaimInv, ClaimsAreExclusive, DecisionsAreOwn,
       StoredIsOfItsKey, AnswersAreStored, StoredIsJournaled, Answered, Keys

\* Steps that only move an attempt on: they claim nothing and store nothing.
LEMMA MoveIInv ==
    ASSUME IInv, NEW a \in Attempts,
           Send(a) \/ Begin(a) \/ StartReading(a) \/ EndReading(a)
    PROVE  IInv'
<1>1. UNCHANGED <<claimant, stored, decision, minted, journaled, answer>>
    BY DEF Send, Begin, StartReading, EndReading
<1>2. \/ phase' = [phase EXCEPT ![a] = "sent"]
      \/ phase' = [phase EXCEPT ![a] = "begun"]
      \/ phase' = [phase EXCEPT ![a] = "reading"] /\ phase[a] = "claimed"
      \/ phase' = [phase EXCEPT ![a] = "evaluating"] /\ phase[a] = "reading"
    BY DEF Send, Begin, StartReading, EndReading
<1>3. TypeOK'
    BY <1>1, <1>2 DEF IInv, TypeOK
<1>4. ClaimsAreExclusive' /\ DecisionsAreOwn'
    BY <1>1, <1>2 DEF IInv, TypeOK, ClaimInv, ClaimsAreExclusive, DecisionsAreOwn
<1>5. StoredIsOfItsKey' /\ AnswersAreStored' /\ StoredIsJournaled' /\ (journaled \subseteq minted)'
    BY <1>1 DEF IInv, ClaimInv, StoredIsOfItsKey, AnswersAreStored, StoredIsJournaled, Answered
<1> QED
    BY <1>3, <1>4, <1>5 DEF IInv, ClaimInv

LEMMA ClaimIInv ==
    ASSUME IInv, NEW a \in Attempts, Claim(a)
    PROVE  IInv'
<1>1. UNCHANGED <<stored, decision, minted, journaled, answer>>
    BY DEF Claim
<1>2. /\ claimant' = [claimant EXCEPT ![Key[a]] = a]
      /\ phase' = [phase EXCEPT ![a] = "claimed"]
      /\ claimant[Key[a]] = None
      /\ stored[Key[a]] = None
    BY DEF Claim, KeyFree
<1>3. TypeOK'
    BY <1>1, <1>2 DEF IInv, TypeOK
<1>4. ClaimsAreExclusive'
    BY <1>1, <1>2, KeyInKeys DEF IInv, TypeOK, ClaimInv, ClaimsAreExclusive
<1>5. DecisionsAreOwn'
    BY <1>1, <1>2 DEF IInv, TypeOK, ClaimInv, DecisionsAreOwn
<1>6. StoredIsOfItsKey' /\ AnswersAreStored' /\ StoredIsJournaled' /\ (journaled \subseteq minted)'
    BY <1>1 DEF IInv, ClaimInv, StoredIsOfItsKey, AnswersAreStored, StoredIsJournaled, Answered
<1> QED
    BY <1>3, <1>4, <1>5, <1>6 DEF IInv, ClaimInv

LEMMA AnswerStoredIInv ==
    ASSUME IInv, NEW a \in Attempts, AnswerStored(a)
    PROVE  IInv'
<1> DEFINE k == Key[a]
<1>1. UNCHANGED <<claimant, stored, decision, minted, journaled>>
    BY DEF AnswerStored
<1>2. /\ answer' = [answer EXCEPT ![a] = Replay(a)]
      /\ phase' = [phase EXCEPT ![a] = "ended"]
      /\ stored[k] # None
    BY DEF AnswerStored
<1>3. stored[k] \in Stored
    BY <1>2, KeyInKeys DEF IInv, TypeOK
<1>4. \/ Replay(a) = Mismatch
      \/ Replay(a) = stored[k].response /\ stored[k].hash = Hash[a]
    BY DEF Replay
<1>5. Replay(a) \in Decision \cup {Mismatch}
    BY <1>3, <1>4 DEF Stored
<1> HIDE DEF k
<1>6. TypeOK'
    BY <1>1, <1>2, <1>5 DEF IInv, TypeOK
<1>7. ClaimsAreExclusive' /\ DecisionsAreOwn'
    BY <1>1, <1>2 DEF IInv, TypeOK, ClaimInv, ClaimsAreExclusive, DecisionsAreOwn
<1>8. AnswersAreStored'
  <2> SUFFICES ASSUME NEW b \in Attempts, answer'[b] \notin {None, Mismatch}
               PROVE  /\ stored[Key[b]] # None
                      /\ stored[Key[b]].response = answer'[b]
                      /\ stored[Key[b]].hash = Hash[b]
      BY <1>1 DEF AnswersAreStored, Answered
  <2>1. CASE b = a
      BY <2>1, <1>2, <1>4 DEF IInv, TypeOK, k
  <2>2. CASE b # a
      BY <2>2, <1>2 DEF IInv, TypeOK, ClaimInv, AnswersAreStored, Answered
  <2> QED
      BY <2>1, <2>2
<1>9. StoredIsOfItsKey' /\ StoredIsJournaled' /\ (journaled \subseteq minted)'
    BY <1>1 DEF IInv, ClaimInv, StoredIsOfItsKey, StoredIsJournaled
<1> QED
    BY <1>6, <1>7, <1>8, <1>9 DEF IInv, ClaimInv

LEMMA EvaluateIInv ==
    ASSUME IInv, NEW a \in Attempts, Evaluate(a)
    PROVE  IInv'
<1>1. PICK kind \in {"ALLOW", "BLOCK"} :
          /\ decision' = [decision EXCEPT ![a] = [kind |-> kind, by |-> a]]
          /\ minted' = IF kind = "ALLOW" THEN minted \cup {a} ELSE minted
    BY DEF Evaluate
<1>2. /\ UNCHANGED <<claimant, stored, journaled, answer>>
      /\ phase[a] = "evaluating"
      /\ phase' = [phase EXCEPT ![a] = "completing"]
    BY DEF Evaluate
<1>3. [kind |-> kind, by |-> a] \in Decision
    BY DEF Decision
<1>4. TypeOK'
    BY <1>1, <1>2, <1>3 DEF IInv, TypeOK
<1>5. ClaimsAreExclusive'
    BY <1>2 DEF IInv, TypeOK, ClaimInv, ClaimsAreExclusive
<1>6. minted \subseteq minted'
    BY <1>1
<1>7. decision'[a].by = a /\ decision'[a] # None /\ (decision'[a].kind = "ALLOW" => a \in minted')
    BY <1>1, <1>3 DEF IInv, TypeOK
<1>8. \A b \in Attempts \ {a} : decision'[b] = decision[b] /\ phase'[b] = phase[b]
    BY <1>1, <1>2 DEF IInv, TypeOK
<1>9. DecisionsAreOwn'
    BY <1>6, <1>7, <1>8 DEF IInv, ClaimInv, DecisionsAreOwn
<1>10. StoredIsOfItsKey' /\ AnswersAreStored' /\ StoredIsJournaled' /\ (journaled \subseteq minted)'
    BY <1>2, <1>6 DEF IInv, ClaimInv, StoredIsOfItsKey, AnswersAreStored, StoredIsJournaled,
                      Answered
<1> QED
    BY <1>4, <1>5, <1>9, <1>10 DEF IInv, ClaimInv

LEMMA FailIInv ==
    ASSUME IInv, NEW a \in Attempts, Fail(a)
    PROVE  IInv'
<1>1. /\ claimant' = [k \in Keys |-> IF claimant[k] = a THEN None ELSE claimant[k]]
      /\ phase' = [phase EXCEPT ![a] = "failed"]
      /\ UNCHANGED <<stored, decision, minted, journaled, answer>>
    BY DEF Fail, ReleasedClaims
<1>2. TypeOK'
    BY <1>1 DEF IInv, TypeOK
<1>3. ClaimsAreExclusive' /\ DecisionsAreOwn'
    BY <1>1, KeyInKeys DEF IInv, TypeOK, ClaimInv, ClaimsAreExclusive, DecisionsAreOwn
<1>4. StoredIsOfItsKey' /\ AnswersAreStored' /\ StoredIsJournaled' /\ (journaled \subseteq minted)'
    BY <1>1 DEF IInv, ClaimInv, StoredIsOfItsKey, AnswersAreStored, StoredIsJournaled, Answered
<1> QED
    BY <1>2, <1>3, <1>4 DEF IInv, ClaimInv

\* Journal and stored response appear together, under a key that had neither.
LEMMA CommitIInv ==
    ASSUME IInv, NEW a \in Attempts, Commit(a)
    PROVE  IInv'
<1> DEFINE k == Key[a]
           d == decision[a]
           r == [hash |-> Hash[a], response |-> d]
<1>1. k \in Keys
    BY KeyInKeys
<1>2. /\ claimant[k] = a
      /\ stored[k] = None
      /\ d \in Decision
      /\ d.by = a
      /\ d.kind = "ALLOW" => a \in minted
    BY DEF Commit, IInv, TypeOK, ClaimInv, ClaimsAreExclusive, DecisionsAreOwn
<1>3. r \in Stored /\ r # None /\ r.response = d /\ r.hash = Hash[a]
    BY <1>2 DEF Stored
<1>4. /\ stored' = [stored EXCEPT ![k] = r]
      /\ claimant' = [claimant EXCEPT ![k] = None]
      /\ journaled' = IF d.kind = "ALLOW" THEN journaled \cup {a} ELSE journaled
      /\ phase' = [phase EXCEPT ![a] = "ended"]
      /\ answer' = [answer EXCEPT ![a] = d] \/ answer' = answer
      /\ UNCHANGED <<decision, minted>>
    BY DEF Commit, RowCompleted
<1>5. \A b \in Attempts : Key[b] = k \/ Key[b] # k
    OBVIOUS
<1> HIDE DEF d, r
<1>6. stored'[k] = r /\ \A l \in Keys \ {k} : stored'[l] = stored[l] /\ claimant'[l] = claimant[l]
    BY <1>1, <1>4 DEF IInv, TypeOK
<1>7. TypeOK'
    BY <1>1, <1>2, <1>3, <1>4 DEF IInv, TypeOK
<1>8. ClaimsAreExclusive'
  <2> SUFFICES ASSUME NEW b \in Attempts,
                      phase'[b] \in {"claimed", "reading", "evaluating", "completing"}
               PROVE  claimant'[Key[b]] = b /\ stored'[Key[b]] = None
      BY DEF ClaimsAreExclusive
  <2>1. b # a /\ phase'[b] = phase[b]
      BY <1>4 DEF IInv, TypeOK
  <2>2. claimant[Key[b]] = b /\ stored[Key[b]] = None
      BY <2>1 DEF IInv, ClaimInv, ClaimsAreExclusive
  <2>3. Key[b] \in Keys \ {k}
      BY <2>1, <2>2, <1>2, KeyInKeys
  <2> QED
      BY <2>2, <2>3, <1>6
<1>9. DecisionsAreOwn'
    BY <1>4 DEF IInv, TypeOK, ClaimInv, DecisionsAreOwn
<1>10. StoredIsOfItsKey'
    BY <1>2, <1>3, <1>6 DEF IInv, ClaimInv, StoredIsOfItsKey
<1>11. AnswersAreStored'
  <2> SUFFICES ASSUME NEW b \in Attempts, answer'[b] \notin {None, Mismatch}
               PROVE  /\ stored'[Key[b]] # None
                      /\ stored'[Key[b]].response = answer'[b]
                      /\ stored'[Key[b]].hash = Hash[b]
      BY DEF AnswersAreStored, Answered
  <2>1. CASE answer'[b] = answer[b]
    <3>1. /\ stored[Key[b]] # None
          /\ stored[Key[b]].response = answer[b]
          /\ stored[Key[b]].hash = Hash[b]
        BY <2>1 DEF IInv, ClaimInv, AnswersAreStored, Answered
    <3>2. Key[b] \in Keys \ {k}
        BY <3>1, <1>2, KeyInKeys
    <3> QED
        BY <2>1, <3>1, <3>2, <1>6
  <2>2. CASE answer'[b] # answer[b]
    <3>1. b = a /\ answer'[a] = d
        BY <2>2, <1>4 DEF IInv, TypeOK
    <3> QED
        BY <3>1, <1>3, <1>6
  <2> QED
      BY <2>1, <2>2
<1>12. StoredIsJournaled'
  <2> SUFFICES ASSUME NEW b \in Attempts
               PROVE  b \in journaled' <=>
                          /\ stored'[Key[b]] # None
                          /\ stored'[Key[b]].response = [kind |-> "ALLOW", by |-> b]
      BY DEF StoredIsJournaled
  <2>1. b \in journaled <=>
            /\ stored[Key[b]] # None
            /\ stored[Key[b]].response = [kind |-> "ALLOW", by |-> b]
      BY DEF IInv, ClaimInv, StoredIsJournaled
  <2>2. CASE b = a
    <3>1. b \notin journaled
        BY <2>1, <2>2, <1>2
    <3>2. d.kind = "ALLOW" <=> d = [kind |-> "ALLOW", by |-> a]
        BY <1>2 DEF Decision
    <3> QED
        BY <2>2, <3>1, <3>2, <1>3, <1>4, <1>6
  <2>3. CASE b # a /\ Key[b] = k
    <3>1. b \notin journaled
        BY <2>1, <2>3, <1>2
    <3>2. d # [kind |-> "ALLOW", by |-> b]
        BY <2>3, <1>2
    <3> QED
        BY <2>3, <3>1, <3>2, <1>3, <1>4, <1>6
  <2>4. CASE b # a /\ Key[b] # k
    <3>1. Key[b] \in Keys \ {k}
        BY <2>4, KeyInKeys
    <3> QED
        BY <2>1, <2>4, <3>1, <1>4, <1>6
  <2> QED
      BY <2>2, <2>3, <2>4
<1>13. (journaled \subseteq minted)'
    BY <1>2, <1>4 DEF IInv, ClaimInv
<1> QED
    BY <1>7, <1>8, <1>9, <1>10, <1>11, <1>12, <1>13 DEF IInv, ClaimInv

LEMMA StepIInv == IInv /\ [Next]_vars => IInv'
<1> SUFFICES ASSUME IInv, [Next]_vars PROVE IInv'
    OBVIOUS
<1>1. CASE UNCHANGED vars
    BY <1>1 DEF vars, IInv, TypeOK, ClaimInv, ClaimsAreExclusive, DecisionsAreOwn,
                StoredIsOfItsKey, AnswersAreStored, StoredIsJournaled, Answered
<1>2. ASSUME NEW a \in Attempts, Send(a) \/ Serve(a) \/ Fail(a) PROVE IInv'
    BY <1>2, MoveIInv, ClaimIInv, AnswerStoredIInv, EvaluateIInv, CommitIInv, FailIInv DEF Serve
<1> QED
    BY <1>1, <1>2 DEF Next, Done

\* ClaimsHold.  An open claim is exclusive, and what is stored, answered and
\* journaled under a key is one decision.
THEOREM ClaimsHold == Spec => []ClaimInv
<1>1. IInv => ClaimInv
    BY DEF IInv
<1> QED
    BY <1>1, InitIInv, StepIInv, PTL DEF Spec

\* RetriesAgree.  However attempts race, fail, lose their responses or are
\* repeated, the clients of one key that were answered hold the same decision.
THEOREM RetriesAgree == Spec => []OneAnswerPerKey
<1>1. IInv => OneAnswerPerKey
    BY DEF IInv, ClaimInv, AnswersAreStored, OneAnswerPerKey
<1> QED
    BY <1>1, InitIInv, StepIInv, PTL DEF Spec

\* NoStrayReceipt.  A receipt in a client's hands is in the journal, the only
\* one of its key.
THEOREM NoStrayReceipt == Spec => []EveryReceiptJournaled
<1>1. ASSUME IInv PROVE EveryReceiptJournaled
  <2>1. ASSUME NEW a \in Attempts, Answered(a), answer[a].kind = "ALLOW"
        PROVE  answer[a].by \in journaled
    <3> DEFINE c == answer[a].by
    <3>1. answer[a] \in Decision
        BY <1>1, <2>1 DEF IInv, TypeOK, Answered
    <3>2. c \in Attempts /\ answer[a] = [kind |-> "ALLOW", by |-> c]
        BY <2>1, <3>1 DEF Decision
    <3>3. stored[Key[a]] # None /\ stored[Key[a]].response = answer[a]
        BY <1>1, <2>1 DEF IInv, ClaimInv, AnswersAreStored
    <3>4. Key[c] = Key[a]
        BY <1>1, <3>3, KeyInKeys DEF IInv, ClaimInv, StoredIsOfItsKey
    <3> QED
        BY <1>1, <3>2, <3>3, <3>4 DEF IInv, ClaimInv, StoredIsJournaled
  <2>2. ASSUME NEW a \in journaled, NEW b \in journaled, Key[a] = Key[b]
        PROVE  a = b
    <3>1. a \in Attempts /\ b \in Attempts
        BY <1>1 DEF IInv, TypeOK
    <3>2. [kind |-> "ALLOW", by |-> a] = [kind |-> "ALLOW", by |-> b]
        BY <1>1, <2>2, <3>1 DEF IInv, ClaimInv, StoredIsJournaled
    <3>3. [kind |-> "ALLOW", by |-> a].by = [kind |-> "ALLOW", by |-> b].by
        BY <3>2
    <3> QED
        BY <3>3
  <2> QED
      BY <1>1, <2>1, <2>2 DEF EveryReceiptJournaled, IInv, ClaimInv
<1> QED
    BY <1>1, InitIInv, StepIInv, PTL DEF Spec

-----------------------------------------------------------------------------
\* One outcome per key: the mapping reads the row, the journal and the clients.

LEMMA OutcomeStarts == Init => Outcome!Init
BY DEF Init, Outcome!Init, Outcome!Empty, Questions, Rulings, Receipts, Told,
       Answered

LEMMA OutcomeStays ==
    ASSUME UNCHANGED <<stored, journaled, answer>>
    PROVE  UNCHANGED Outcome!vars
BY DEF Outcome!vars, Questions, Rulings, Receipts, Told, Answered

\* A stored decision that allows is of an attempt in the journal, with the same key.
LEMMA StoredAllowIsJournaled ==
    ASSUME IInv, NEW k \in Keys, stored[k] # None, stored[k].response.kind = "ALLOW"
    PROVE  Receipts[k] # {}
<1> DEFINE by == stored[k].response.by
<1>1. stored[k].response = [kind |-> "ALLOW", by |-> by] /\ by \in Attempts
    BY DEF IInv, TypeOK, Stored, Decision
<1>2. Key[by] = k
    BY DEF IInv, ClaimInv, StoredIsOfItsKey
<1>3. by \in journaled
    BY <1>1, <1>2 DEF IInv, ClaimInv, StoredIsJournaled
<1> QED
    BY <1>2, <1>3 DEF Receipts

\* Whom an answer tells of a receipt.
Tells(b) == Answered(b) /\ answer[b].kind = "ALLOW"

LEMMA ToldAre == Told = {Key[b] : b \in {c \in Attempts : Tells(c)}}
BY DEF Told, Tells

\* Only the answer to a has changed.
LEMMA ToldMore ==
    ASSUME NEW a \in Attempts, \A b \in Attempts \ {a} : answer'[b] = answer[b]
    PROVE  /\ ~Tells(a) /\ Tells(a)' => Told' = Told \cup {Key[a]}
           /\ (Tells(a) <=> Tells(a)') => Told' = Told
<1>1. \A b \in Attempts \ {a} : Tells(b)' <=> Tells(b)
    BY DEF Tells, Answered
<1>2. Told' = {Key[b] : b \in {c \in Attempts : Tells(c)'}}
    BY DEF Told, Tells
<1> QED
    BY <1>1, <1>2, ToldAre

\* What is told from the row is a receipt handed out, or tells of none.
LEMMA AnswerRefines ==
    ASSUME IInv, NEW a \in Attempts, AnswerStored(a)
    PROVE  Outcome!HandOut(Key[a]) \/ UNCHANGED Outcome!vars
<1> DEFINE k == Key[a]
<1>1. /\ UNCHANGED <<stored, journaled>> /\ stored[k] # None /\ k \in Keys
      /\ answer' = [answer EXCEPT ![a] = Replay(a)]
    BY KeyInKeys DEF AnswerStored
<1>2. UNCHANGED <<Questions, Rulings, Receipts>>
    BY <1>1 DEF Questions, Rulings, Receipts
<1>3. \A b \in Attempts \ {a} : answer'[b] = answer[b]
    BY <1>1 DEF IInv, TypeOK
<1>4. answer'[a] = Replay(a)
    BY <1>1 DEF IInv, TypeOK
<1>5. CASE Tells(a)' /\ ~Tells(a)
  <2>1. stored[k].response.kind = "ALLOW"
      BY <1>4, <1>5 DEF Tells, Answered, Replay
  <2>2. Receipts[k] # {}
      BY <1>1, <2>1, StoredAllowIsJournaled
  <2>3. Told' = Told \cup {k}
      BY <1>3, <1>5, ToldMore
  <2> QED
      BY <1>2, <2>2, <2>3 DEF Outcome!HandOut
<1>6. CASE Tells(a)' <=> Tells(a)
  <2>1. Told' = Told
      BY <1>3, <1>6, ToldMore
  <2> QED
      BY <1>2, <2>1 DEF Outcome!vars
<1>7. ASSUME Tells(a) PROVE Tells(a)'
    BY <1>4, <1>7 DEF Tells, Answered, Replay, IInv, ClaimInv, AnswersAreStored
<1> QED
    BY <1>5, <1>6, <1>7

\* A cell that gets its first content, and the others keep theirs.
LEMMA FirstContent ==
    ASSUME NEW f, NEW g, NEW k \in Keys, NEW x,
           f = [l \in Keys |-> f[l]], g = [l \in Keys |-> g[l]],
           g[k] = {x}, \A l \in Keys \ {k} : g[l] = f[l]
    PROVE  g = [f EXCEPT ![k] = {x}]
OBVIOUS

\* The transaction settles a key that nothing was asked under.
LEMMA CommitRefines ==
    ASSUME IInv, NEW a \in Attempts, Commit(a)
    PROVE  Outcome!Settle(Key[a])
<1> DEFINE k == Key[a]
           d == decision[a]
           r == [hash |-> Hash[a], response |-> d]
<1>1. k \in Keys
    BY KeyInKeys
<1>2. stored[k] = None /\ d \in Decision /\ d.by = a
    BY DEF Commit, IInv, TypeOK, ClaimInv, ClaimsAreExclusive, DecisionsAreOwn
<1>3. r # None /\ r.hash = Hash[a] /\ r.response = d
    BY <1>2 DEF Stored, Decision
<1>4. /\ stored' = [stored EXCEPT ![k] = r]
      /\ journaled' = IF d.kind = "ALLOW" THEN journaled \cup {a} ELSE journaled
      /\ answer' = [answer EXCEPT ![a] = d] \/ answer' = answer
    BY DEF Commit, RowCompleted
<1>5. stored'[k] = r /\ \A l \in Keys \ {k} : stored'[l] = stored[l]
    BY <1>1, <1>4 DEF IInv, TypeOK
<1>6. \A b \in Attempts : Key[b] = k => b \notin journaled /\ ~Answered(b)
    BY <1>2 DEF IInv, ClaimInv, StoredIsJournaled, AnswersAreStored
<1> HIDE DEF d, r
<1>7. Outcome!Written(Questions, k)
  <2>1. /\ Questions[k] = {} /\ Questions'[k] = {Hash[a]}
        /\ \A l \in Keys \ {k} : Questions'[l] = Questions[l]
      BY <1>1, <1>2, <1>3, <1>5 DEF Questions
  <2>2. Questions = [l \in Keys |-> Questions[l]] /\ Questions' = [l \in Keys |-> Questions'[l]]
      BY DEF Questions
  <2>3. Questions' = [Questions EXCEPT ![k] = {Hash[a]}]
      BY <1>1, <2>1, <2>2, FirstContent
  <2> QED
      BY <2>1, <2>3 DEF Outcome!Written
<1>8. Rulings'[k] = {d.kind} /\ Outcome!Written(Rulings, k)
  <2>1. /\ Rulings[k] = {} /\ Rulings'[k] = {d.kind}
        /\ \A l \in Keys \ {k} : Rulings'[l] = Rulings[l]
      BY <1>1, <1>2, <1>3, <1>5 DEF Rulings
  <2>2. Rulings = [l \in Keys |-> Rulings[l]] /\ Rulings' = [l \in Keys |-> Rulings'[l]]
      BY DEF Rulings
  <2>3. Rulings' = [Rulings EXCEPT ![k] = {d.kind}]
      BY <1>1, <2>1, <2>2, FirstContent
  <2> QED
      BY <2>1, <2>3 DEF Outcome!Written
<1>9. \A b \in Attempts \ {a} : answer'[b] = answer[b]
    BY <1>4 DEF IInv, TypeOK
<1>10. ~Tells(a) /\ (Tells(a)' => d.kind = "ALLOW")
    BY <1>4, <1>6 DEF IInv, TypeOK, Tells, Answered
<1>11. CASE d.kind = "ALLOW"
  <2>1. /\ Receipts[k] = {} /\ Receipts'[k] = {a}
        /\ \A l \in Keys \ {k} : Receipts'[l] = Receipts[l]
      BY <1>1, <1>4, <1>6, <1>11 DEF Receipts, IInv, TypeOK
  <2>2. Outcome!Written(Receipts, k)
    <3>1. Receipts = [l \in Keys |-> Receipts[l]] /\ Receipts' = [l \in Keys |-> Receipts'[l]]
        BY DEF Receipts
    <3>2. Receipts' = [Receipts EXCEPT ![k] = {a}]
        BY <1>1, <2>1, <3>1, FirstContent
    <3> QED
        BY <2>1, <3>2 DEF Outcome!Written
  <2>3. \A j \in Keys \ {k} : Receipts[j] \cap Receipts'[k] = {}
      BY <2>1 DEF Receipts
  <2>4. Outcome!Issued(k)
      BY <1>8, <1>11, <2>2, <2>3 DEF Outcome!Issued
  <2>5. Told' = Told \/ Told' = Told \cup {k}
      BY <1>9, <1>10, ToldMore
  <2>6. Receipts'[k] # {}
      BY <2>1
  <2> QED
      BY <1>7, <1>8, <2>4, <2>5, <2>6 DEF Outcome!Settle
<1>12. CASE d.kind # "ALLOW"
  <2>1. Receipts' = Receipts
      BY <1>4, <1>12 DEF Receipts
  <2>2. Told' = Told
      BY <1>9, <1>10, <1>12, ToldMore
  <2> QED
      BY <1>7, <1>8, <2>1, <2>2 DEF Outcome!Settle
<1> QED
    BY <1>11, <1>12

LEMMA StepRefines ==
    ASSUME IInv, [Next]_vars
    PROVE  [Outcome!Next]_Outcome!vars
<1>1. CASE UNCHANGED <<stored, journaled, answer>>
    BY <1>1, OutcomeStays
<1>2. ASSUME NEW a \in Attempts, AnswerStored(a) PROVE [Outcome!Next]_Outcome!vars
    BY <1>2, AnswerRefines, KeyInKeys DEF Outcome!Next
<1>3. ASSUME NEW a \in Attempts, Commit(a) PROVE [Outcome!Next]_Outcome!vars
    BY <1>3, CommitRefines, KeyInKeys DEF Outcome!Next
<1>4. \/ UNCHANGED <<stored, journaled, answer>>
      \/ \E a \in Attempts : AnswerStored(a) \/ Commit(a)
    BY DEF Next, Done, vars, Serve, Send, Begin, Claim, StartReading, EndReading, Evaluate, Fail
<1> QED
    BY <1>1, <1>2, <1>3, <1>4

\* RefinesOneOutcome.  However attempts race, fail and lose their answers, a key is settled once:
\* one question, one decision, and a receipt that is in the journal before anyone holds it.
THEOREM RefinesOneOutcome == Spec => ImplementsOneOutcome
<1>1. IInv /\ [Next]_vars => [Outcome!Next]_Outcome!vars
    BY StepRefines
<1> QED
    BY <1>1, OutcomeStarts, InitIInv, StepIInv, PTL
       DEF Spec, ImplementsOneOutcome, Outcome!Spec

-----------------------------------------------------------------------------
\* Work leases.  Fencing needs no bound on how long a worker stalls, and no
\* token that survives the deletion of the row.


LEMMA InitType == LeaseInit => LeaseTypeOK
BY DEF LeaseInit, LeaseTypeOK

LEMMA NextTokenType ==
    LeaseTypeOK => NextToken \in Nat
BY DEF LeaseTypeOK, NextToken, Row

LEMMA TickType ==
    ASSUME LeaseTypeOK, Tick
    PROVE  LeaseTypeOK'
<1>1. \A n \in 0..TTL : Less(n) \in 0..TTL
    BY DEF Less
<1>2. lease' \in Row \cup {Nothing}
    BY <1>1 DEF Tick, LeaseTypeOK, Row
<1>3. ASSUME NEW w \in Workers, beat[w] # Nothing
      PROVE  [beat[w] EXCEPT !.left = Less(@)] \in Renewal
    BY <1>1, <1>3 DEF LeaseTypeOK, Renewal
<1>4. beat' \in [Workers -> Renewal \cup {Nothing}]
    BY <1>3 DEF Tick, LeaseTypeOK
<1> QED
    BY <1>2, <1>4 DEF Tick, LeaseTypeOK

LEMMA AcquireType ==
    ASSUME LeaseTypeOK, NEW w \in Workers, Acquire(w)
    PROVE  LeaseTypeOK'
<1>1. NextToken \in Nat
    BY NextTokenType
<1>2. lease' \in Row
    BY <1>1 DEF Acquire, Row
<1>3. stage' \in [Workers -> {"idle", "working", "writing", "leaving", "dead"}]
    BY DEF Acquire, LeaseTypeOK
<1>4. token' \in [Workers -> Nat] /\ session' \in [Workers -> Nat]
    BY <1>1 DEF Acquire, LeaseTypeOK
<1>5. grants' \in Nat
    BY <1>1 DEF Acquire, LeaseTypeOK
<1> QED
    BY <1>2, <1>3, <1>4, <1>5 DEF Acquire, LeaseTypeOK

LEMMA RenewalType ==
    ASSUME LeaseTypeOK, NEW w \in Workers, StartRenewal(w) \/ FinishRenewal(w) \/ RenewalError(w)
    PROVE  LeaseTypeOK'
<1>1. CASE StartRenewal(w)
  <2>1. Held(w) \in BOOLEAN
      BY DEF Held
  <2>2. [token |-> token[w], session |-> session[w], left |-> TTL, live |-> Held(w)] \in Renewal
      BY <2>1 DEF LeaseTypeOK, Renewal
  <2> QED
      BY <1>1, <2>2 DEF StartRenewal, LeaseTypeOK
<1>2. RenewalFailed(w) => lost' \in [Workers -> BOOLEAN]
    BY DEF RenewalFailed, LeaseTypeOK
<1>3. CASE FinishRenewal(w)
  <2>1. RenewalAccepted(w) => [lease EXCEPT !.left = beat[w].left] \in Row
      BY <1>3 DEF FinishRenewal, RenewalAccepted, LeaseTypeOK, Row, Renewal
  <2> QED
      BY <1>2, <1>3, <2>1 DEF FinishRenewal, LeaseTypeOK
<1>4. CASE RenewalError(w)
    BY <1>2, <1>4 DEF RenewalError, LeaseTypeOK
<1> QED
    BY <1>1, <1>3, <1>4

LEMMA SessionType ==
    ASSUME LeaseTypeOK, NEW w \in Workers,
           \/ BeginWrite(w) \/ CommitWrite(w) \/ Throw(w) \/ EndWork(w)
           \/ Release(w) \/ ReleaseError(w) \/ Crash(w) \/ Restart(w)
    PROVE  LeaseTypeOK'
<1>1. CASE BeginWrite(w)
    BY <1>1 DEF BeginWrite, Moves, LeaseTypeOK
<1>2. CASE CommitWrite(w)
    BY <1>2 DEF CommitWrite, Moves, LeaseTypeOK
<1>3. CASE Throw(w)
    BY <1>3 DEF Throw, Moves, LeaseTypeOK
<1>4. CASE EndWork(w)
    BY <1>4 DEF EndWork, Moves, LeaseTypeOK
<1>5. CASE Release(w)
    BY <1>5 DEF Release, Forget, LeaseTypeOK
<1>6. CASE ReleaseError(w)
    BY <1>6 DEF ReleaseError, Forget, LeaseTypeOK
<1>7. CASE Crash(w)
    BY <1>7 DEF Crash, Forget, LeaseTypeOK
<1>8. CASE Restart(w)
    BY <1>8 DEF Restart, LeaseTypeOK
<1> QED
    BY <1>1, <1>2, <1>3, <1>4, <1>5, <1>6, <1>7, <1>8

LEMMA StepType == LeaseTypeOK /\ [LeaseNext]_leaseVars => LeaseTypeOK'
<1> SUFFICES ASSUME LeaseTypeOK, [LeaseNext]_leaseVars PROVE LeaseTypeOK'
    OBVIOUS
<1>1. CASE UNCHANGED leaseVars
    BY <1>1 DEF leaseVars, LeaseTypeOK
<1>2. CASE LeaseNext
    BY <1>2, TickType, AcquireType, RenewalType, SessionType DEF LeaseNext, Cycle
<1> QED
    BY <1>1, <1>2

\* LeaseTypes.  The row, every lease object and every renewal under way are
\* typed: no statement leaves a lease with more than its TTL.
THEOREM LeaseTypes == LeaseSpec => []LeaseTypeOK
<1> QED
    BY InitType, StepType, PTL DEF LeaseSpec

-----------------------------------------------------------------------------
\* Fencing.

LEMMA InitFencing == LeaseInit => FencingInv
BY DEF LeaseInit, FencingInv, ProvenIsNewest, WritersAreProven, Active

\* While a transaction holds the row lock nobody acquires; when nobody writes,
\* the new row proves nothing to the others.
LEMMA AcquireFencing ==
    ASSUME LeaseTypeOK, FencingInv, NEW w \in Workers, Acquire(w)
    PROVE  FencingInv'
<1>1. \A v \in Workers : stage'[v] # "writing"
    BY DEF Acquire, Locked, LeaseTypeOK
<1>2. session'[w] = grants'
    BY DEF Acquire, LeaseTypeOK
<1>3. \A v \in Workers : Matches(v)' => v = w
    BY DEF Acquire, Matches
<1> QED
    BY <1>1, <1>2, <1>3 DEF FencingInv, ProvenIsNewest, WritersAreProven

\* A renewal changes how long the row lasts, not whose it is.
LEMMA RenewalFencing ==
    ASSUME LeaseTypeOK, FencingInv, NEW w \in Workers,
           Tick \/ StartRenewal(w) \/ FinishRenewal(w) \/ RenewalError(w)
    PROVE  FencingInv'
<1>1. UNCHANGED <<stage, token, session, grants>>
    BY DEF Tick, StartRenewal, FinishRenewal, RenewalError
<1>2. \/ lease' = lease
      \/ lease # Nothing /\ \E left \in 0..TTL : lease' = [lease EXCEPT !.left = left]
  <2>1. CASE Tick
    <3>1. \A n \in 0..TTL : Less(n) \in 0..TTL
        BY DEF Less
    <3>2. lease # Nothing => lease' = [lease EXCEPT !.left = Less(lease.left)]
        BY <2>1 DEF Tick
    <3> QED
        BY <2>1, <3>1, <3>2 DEF Tick, LeaseTypeOK, Row
  <2>2. CASE FinishRenewal(w)
    <3>1. beat[w] \in Renewal
        BY <2>2 DEF FinishRenewal, LeaseTypeOK
    <3> QED
        BY <2>2, <3>1 DEF FinishRenewal, RenewalAccepted, Renewal
  <2> QED
      BY <2>1, <2>2 DEF StartRenewal, RenewalError
<1>3. /\ lease # Nothing <=> lease' # Nothing
      /\ lease # Nothing => lease'.owner = lease.owner /\ lease'.token = lease.token
  <2>1. CASE lease' = lease
      BY <2>1
  <2>2. ASSUME lease # Nothing, NEW left \in 0..TTL, lease' = [lease EXCEPT !.left = left]
        PROVE  /\ lease' # Nothing
               /\ lease'.owner = lease.owner /\ lease'.token = lease.token
    <3>1. lease \in Row
        BY <2>2 DEF LeaseTypeOK
    <3>2. lease' \in Row
        BY <2>2, <3>1 DEF Row
    <3> QED
        BY <2>2, <3>1, <3>2 DEF Row
  <2> QED
      BY <1>2, <2>1, <2>2
<1>4. \A v \in Workers : Matches(v)' <=> Matches(v)
    BY <1>1, <1>3 DEF Matches
<1> QED
    BY <1>1, <1>4 DEF FencingInv, ProvenIsNewest, WritersAreProven, Active

\* The steps of a session: each leaves the row alone, or deletes it while no
\* transaction is under way.
LEMMA SessionFencing ==
    ASSUME LeaseTypeOK, FencingInv, NEW w \in Workers,
           \/ BeginWrite(w) \/ CommitWrite(w) \/ Throw(w) \/ EndWork(w)
    PROVE  FencingInv'
<1>1. UNCHANGED <<lease, token, session, grants>> /\ Active(w)
    BY DEF BeginWrite, CommitWrite, Throw, EndWork, Moves, Active
<1>2. \E to \in {"working", "writing", "leaving"} :
          /\ stage' = [stage EXCEPT ![w] = to]
          /\ to = "writing" => Matches(w)
    BY DEF BeginWrite, CommitWrite, Throw, EndWork, Moves, Held
<1>3. \A v \in Workers : Matches(v)' <=> Matches(v)
    BY <1>1 DEF Matches
<1> QED
    BY <1>1, <1>2, <1>3 DEF FencingInv, ProvenIsNewest, WritersAreProven, Active, LeaseTypeOK

LEMMA EndFencing ==
    ASSUME LeaseTypeOK, FencingInv, NEW w \in Workers,
           Release(w) \/ ReleaseError(w) \/ Crash(w) \/ Restart(w)
    PROVE  FencingInv'
<1>1. \E to \in {"idle", "dead"} : stage' = [stage EXCEPT ![w] = to]
    BY DEF Release, ReleaseError, Crash, Restart, Forget
<1>2. \A v \in Workers \ {w} : stage'[v] = stage[v] /\ token'[v] = token[v]
                               /\ session'[v] = session[v]
    BY <1>1 DEF Release, ReleaseError, Crash, Restart, Forget, LeaseTypeOK
<1>3. grants' = grants /\ stage'[w] \in {"idle", "dead"}
    BY <1>1 DEF Release, ReleaseError, Crash, Restart, Forget, LeaseTypeOK
<1>4. lease' = lease \/ (lease' = Nothing /\ ~Locked)
    BY DEF Release, ReleaseError, Crash, Restart
<1>5. \A v \in Workers \ {w} : Matches(v)' => Matches(v)
    BY <1>2, <1>4 DEF Matches
<1>6. \A v \in Workers \ {w} : stage'[v] = "writing" => Matches(v)'
    BY <1>2, <1>4 DEF Matches, Locked, FencingInv, WritersAreProven
<1> QED
    BY <1>2, <1>3, <1>5, <1>6 DEF FencingInv, ProvenIsNewest, WritersAreProven, Active

LEMMA StepFencing == LeaseTypeOK /\ FencingInv /\ [LeaseNext]_leaseVars => FencingInv'
<1> SUFFICES ASSUME LeaseTypeOK, FencingInv, [LeaseNext]_leaseVars PROVE FencingInv'
    OBVIOUS
<1>1. CASE UNCHANGED leaseVars
    BY <1>1 DEF leaseVars, FencingInv, ProvenIsNewest, WritersAreProven, Active, Matches
<1>2. CASE Tick
  <2>1. CASE Workers = {}
      BY <2>1 DEF FencingInv, ProvenIsNewest, WritersAreProven
  <2>2. CASE Workers # {}
      BY <1>2, <2>2, RenewalFencing
  <2> QED
      BY <2>1, <2>2
<1>3. ASSUME NEW w \in Workers, Cycle(w) \/ StartRenewal(w) \/ FinishRenewal(w)
                                \/ RenewalError(w) \/ Crash(w) \/ Restart(w)
      PROVE  FencingInv'
    BY <1>3, AcquireFencing, RenewalFencing, SessionFencing, EndFencing DEF Cycle
<1> QED
    BY <1>1, <1>2, <1>3 DEF LeaseNext

\* FencingHolds.  A session that can prove the row holds the newest acquisition.
THEOREM FencingHolds == LeaseSpec => []FencingInv
<1> QED
    BY InitType, StepType, InitFencing, StepFencing, PTL DEF LeaseSpec

\* Only CommitWrite and EndWork record anything, and both proved the row.
LEMMA ActsAreNewest ==
    LeaseTypeOK /\ FencingInv /\ [LeaseNext]_leaseVars =>
        [/\ written' # written => written' = grants
         /\ completed' \subseteq completed \cup {grants}]_leaseVars
<1> SUFFICES ASSUME LeaseTypeOK, FencingInv, LeaseNext
             PROVE  /\ written' # written => written' = grants
                    /\ completed' \subseteq completed \cup {grants}
    OBVIOUS
<1>1. ASSUME NEW w \in Workers, CommitWrite(w)
      PROVE  written' = grants /\ completed' = completed
    BY <1>1 DEF CommitWrite, FencingInv, ProvenIsNewest, WritersAreProven, Active
<1>2. ASSUME NEW w \in Workers, EndWork(w)
      PROVE  written' = written /\ completed' \subseteq completed \cup {grants}
    BY <1>2 DEF EndWork, MayComplete, Held, FencingInv, ProvenIsNewest, Active
<1>3. ASSUME NEW w \in Workers,
             \/ Acquire(w) \/ BeginWrite(w) \/ Throw(w) \/ Release(w) \/ ReleaseError(w)
             \/ StartRenewal(w) \/ FinishRenewal(w) \/ RenewalError(w) \/ Crash(w)
             \/ Restart(w) \/ Tick
      PROVE  written' = written /\ completed' = completed
    BY <1>3 DEF Acquire, BeginWrite, Throw, Release, ReleaseError, StartRenewal,
                FinishRenewal, RenewalError, Crash, Restart, Tick, Forget
<1>4. Tick => written' = written /\ completed' = completed
    BY DEF Tick
<1> QED
    BY <1>1, <1>2, <1>3, <1>4 DEF LeaseNext, Cycle

\* StaleWorkersDoNothing.  No superseded worker commits or completes.
THEOREM StaleWorkersDoNothing == LeaseSpec => OnlyNewestActs
<1> QED
    BY LeaseTypes, FencingHolds, ActsAreNewest, PTL DEF LeaseSpec, OnlyNewestActs

=============================================================================
