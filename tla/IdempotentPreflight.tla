------------------------- MODULE IdempotentPreflight ------------------------
(***************************************************************************)
(* Concurrent and retried preflight requests: one Idempotency-Key claims   *)
(* one row, and the decision is made, journaled and stored inside the      *)
(* transaction that holds the claim.                                       *)
(*   apps/api/src/server.ts POST /v1/preflight, packages/db/src/commands.ts*)
(*   packages/db/src/journal.ts withTransaction, apps/api/src/index.ts Pool*)
(*                                                                         *)
(* The transaction keeps its connection from BEGIN to COMMIT while         *)
(* loadEvidence takes another one from the same pool for its reads.        *)
(*                                                                         *)
(* An attempt is one HTTP request; a retry is another attempt with the key *)
(* of the first, sent after it failed or while it is still running.  The   *)
(* principal is part of the key.                                           *)
(***************************************************************************)
EXTENDS Naturals, FiniteSets

CONSTANTS
    Attempts,   \* requests sent
    Key,        \* Key[a]: principal and Idempotency-Key of the attempt
    Hash,       \* Hash[a]: requestHash of its body
    PoolSize,   \* max of the connection pool
    None        \* no claim, no stored response, no answer

Keys == {Key[a] : a \in Attempts}

\* A decision is that of the attempt that evaluated: a receipt identifier is
\* fresh, and a refusal carries the attempt's own evidence and time.
Decision == [kind : {"ALLOW", "BLOCK"}, by : Attempts]

Stored == [hash : {Hash[a] : a \in Attempts}, response : Decision]

Mismatch == [kind |-> "REQUEST_MISMATCH"]

ASSUME PreflightAssumption ==
    /\ PoolSize \in Nat
    /\ None \notin Attempts
    /\ None \notin Decision
    /\ None \notin Stored
    /\ None # Mismatch

VARIABLES
    phase,      \* where each attempt is
    claimant,   \* whose uncommitted insert holds each key
    stored,     \* committed rows of idempotency_keys
    decision,   \* what an attempt has decided and not yet committed
    minted,     \* history: attempts whose receipt was signed
    journaled,  \* RECEIPT_ISSUED events in the journal
    answer      \* what each client received

vars == <<phase, claimant, stored, decision, minted, journaled, answer>>

TypeOK ==
    /\ phase \in [Attempts -> {"unsent", "sent", "begun", "claimed", "reading",
                               "evaluating", "completing", "ended", "failed"}]
    /\ claimant \in [Keys -> Attempts \cup {None}]
    /\ stored \in [Keys -> Stored \cup {None}]
    /\ decision \in [Attempts -> Decision \cup {None}]
    /\ minted \subseteq Attempts
    /\ journaled \subseteq Attempts
    /\ answer \in [Attempts -> Decision \cup {Mismatch, None}]

Init ==
    /\ phase = [a \in Attempts |-> "unsent"]
    /\ claimant = [k \in Keys |-> None]
    /\ stored = [k \in Keys |-> None]
    /\ decision = [a \in Attempts |-> None]
    /\ minted = {}
    /\ journaled = {}
    /\ answer = [a \in Attempts |-> None]

-----------------------------------------------------------------------------

\* An attempt holds its transaction's connection from BEGIN on; withTransaction
\* releases it whatever happens.
InTransaction ==
    {a \in Attempts :
        phase[a] \in {"begun", "claimed", "reading", "evaluating", "completing"}}

\* loadEvidence has one more for its query.
Reading == {a \in Attempts : phase[a] = "reading"}

\* A pool without a timeout lets whoever asks wait until a connection is free.
ConnectionFree == Cardinality(InTransaction) + Cardinality(Reading) < PoolSize

Send(a) ==
    /\ phase[a] = "unsent"
    /\ phase' = [phase EXCEPT ![a] = "sent"]
    /\ UNCHANGED <<claimant, stored, decision, minted, journaled, answer>>

\* withTransaction: pool.connect and BEGIN.
Begin(a) ==
    /\ phase[a] = "sent"
    /\ ConnectionFree
    /\ phase' = [phase EXCEPT ![a] = "begun"]
    /\ UNCHANGED <<claimant, stored, decision, minted, journaled, answer>>

\* Mutant of KeyFree: an insert does not wait for one that is not committed.
NeverWaits(k) == TRUE

\* The insert waits while another transaction's insert of the key is open.
KeyFree(k) == claimant[k] = None

\* claimIdempotentCommand inserts the row.
Claim(a) ==
    /\ phase[a] = "begun"
    /\ KeyFree(Key[a])
    /\ stored[Key[a]] = None
    /\ claimant' = [claimant EXCEPT ![Key[a]] = a]
    /\ phase' = [phase EXCEPT ![a] = "claimed"]
    /\ UNCHANGED <<stored, decision, minted, journaled, answer>>

\* The key was used: its response for the same request, a conflict for another.
Replay(a) ==
    IF stored[Key[a]].hash = Hash[a] THEN stored[Key[a]].response ELSE Mismatch

\* The conflict branch of claimIdempotentCommand.  A row is committed only once
\* completed, so the IN_FLIGHT outcome does not arise.
AnswerStored(a) ==
    /\ phase[a] = "begun"
    /\ KeyFree(Key[a])
    /\ stored[Key[a]] # None
    /\ answer' = [answer EXCEPT ![a] = Replay(a)]
    /\ phase' = [phase EXCEPT ![a] = "ended"]
    /\ UNCHANGED <<claimant, stored, decision, minted, journaled>>

\* loadEvidence: a connection of its own, taken while the transaction's is held,
\* for each of its queries.
StartReading(a) ==
    /\ phase[a] = "claimed"
    /\ ConnectionFree
    /\ phase' = [phase EXCEPT ![a] = "reading"]
    /\ UNCHANGED <<claimant, stored, decision, minted, journaled, answer>>

EndReading(a) ==
    /\ phase[a] = "reading"
    /\ phase' = [phase EXCEPT ![a] = "evaluating"]
    /\ UNCHANGED <<claimant, stored, decision, minted, journaled, answer>>

\* runPreflight: an ALLOW is signed at once, before anything is durable.
Evaluate(a) ==
    /\ phase[a] = "evaluating"
    /\ \E kind \in {"ALLOW", "BLOCK"} :
          /\ decision' = [decision EXCEPT ![a] = [kind |-> kind, by |-> a]]
          /\ minted' = IF kind = "ALLOW" THEN minted \cup {a} ELSE minted
    /\ phase' = [phase EXCEPT ![a] = "completing"]
    /\ UNCHANGED <<claimant, stored, journaled, answer>>

\* Mutant of RowCompleted: the response is not stored with the claim.
RowForgotten(a) == stored

\* completeIdempotentCommand
RowCompleted(a) ==
    [stored EXCEPT ![Key[a]] = [hash |-> Hash[a], response |-> decision[a]]]

\* Journal, projection and stored response commit together.
Commit(a) ==
    /\ phase[a] = "completing"
    /\ stored' = RowCompleted(a)
    /\ claimant' = [claimant EXCEPT ![Key[a]] = None]
    /\ journaled' = IF decision[a].kind = "ALLOW" THEN journaled \cup {a} ELSE journaled
    /\ phase' = [phase EXCEPT ![a] = "ended"]
    /\ \/ answer' = [answer EXCEPT ![a] = decision[a]]
       \/ UNCHANGED answer      \* the response is lost on its way
    /\ UNCHANGED <<decision, minted>>

\* Mutant of ReleasedClaims: a rollback leaves the claim behind.
ClaimsKept(a) == claimant

\* A rollback frees the key for the next attempt.
ReleasedClaims(a) == [k \in Keys |-> IF claimant[k] = a THEN None ELSE claimant[k]]

\* A query, the signer or the process fails: ROLLBACK, or the connection closes.
Fail(a) ==
    /\ phase[a] = "sent" \/ a \in InTransaction
    /\ claimant' = ReleasedClaims(a)
    /\ phase' = [phase EXCEPT ![a] = "failed"]
    /\ UNCHANGED <<stored, decision, minted, journaled, answer>>

\* The server's side of an attempt: everything but sending and failing.
Serve(a) ==
    \/ Begin(a)
    \/ Claim(a)
    \/ AnswerStored(a)
    \/ StartReading(a)
    \/ EndReading(a)
    \/ Evaluate(a)
    \/ Commit(a)

\* Every attempt is over: nothing is left to do.
Done == (\A a \in Attempts : phase[a] \in {"ended", "failed"}) /\ UNCHANGED vars

Next == Done \/ \E a \in Attempts : Send(a) \/ Serve(a) \/ Fail(a)

Spec == Init /\ [][Next]_vars

\* The server goes on with every request it can go on with.
FairSpec == Spec /\ \A a \in Attempts : WF_vars(Serve(a))

-----------------------------------------------------------------------------

\* OneAnswerPerKey.  Clients that were answered under one key were told the same
\* decision, or that the key belongs to another request: a retry after a lost
\* response, a race of duplicates and a rolled-back first attempt included.
Answered(a) == answer[a] \notin {None, Mismatch}

OneAnswerPerKey ==
    \A a, b \in Attempts :
        Answered(a) /\ Answered(b) /\ Key[a] = Key[b] =>
            answer[a] = answer[b] /\ Hash[a] = Hash[b]

\* EveryReceiptJournaled.  A receipt a client holds is in the journal, and one
\* key put at most one receipt there; a receipt signed by an attempt that rolled
\* back reaches nobody.
EveryReceiptJournaled ==
    /\ \A a \in Attempts :
           Answered(a) /\ answer[a].kind = "ALLOW" => answer[a].by \in journaled
    /\ \A a, b \in journaled : Key[a] = Key[b] => a = b
    /\ journaled \subseteq minted

\* commands.ts: "A concurrent insert blocks on the primary key until the first
\* transaction commits. It then observes the completed response".  A request
\* that was sent is answered or fails.
EveryRequestEnds ==
    \A a \in Attempts : phase[a] = "sent" ~> phase[a] \in {"ended", "failed"}

\* Every key has one outcome: what is stored under it, what the journal has of it and what its
\* clients are told is one question, one decision and one receipt, whichever attempt made them
\* (packages/db/src/commands.ts).
Questions == [k \in Keys |-> IF stored[k] = None THEN {} ELSE {stored[k].hash}]
Rulings == [k \in Keys |-> IF stored[k] = None THEN {} ELSE {stored[k].response.kind}]
Receipts == [k \in Keys |-> {a \in journaled : Key[a] = k}]
Told == {Key[a] : a \in {b \in Attempts : Answered(b) /\ answer[b].kind = "ALLOW"}}

Outcome == INSTANCE OneOutcomePerKey WITH
    request <- Questions, decision <- Rulings, receipt <- Receipts, out <- Told, spent <- {}

ImplementsOneOutcome == Outcome!Spec

\* The inductive invariant behind them.

\* An open claim is its attempt's alone, and nothing is stored under it yet.
ClaimsAreExclusive ==
    \A a \in Attempts :
        phase[a] \in {"claimed", "reading", "evaluating", "completing"} =>
            claimant[Key[a]] = a /\ stored[Key[a]] = None

\* What an attempt is about to commit is its own decision, and is signed if it
\* allows.
DecisionsAreOwn ==
    \A a \in Attempts :
        phase[a] = "completing" =>
            /\ decision[a] # None
            /\ decision[a].by = a
            /\ decision[a].kind = "ALLOW" => a \in minted

\* A stored response was decided under the key it is stored under.
StoredIsOfItsKey ==
    \A k \in Keys : stored[k] # None => Key[stored[k].response.by] = k

AnswersAreStored ==
    \A a \in Attempts :
        Answered(a) => /\ stored[Key[a]] # None
                       /\ stored[Key[a]].response = answer[a]
                       /\ stored[Key[a]].hash = Hash[a]

\* The journal holds exactly the receipts that are stored.
StoredIsJournaled ==
    \A a \in Attempts :
        a \in journaled <=> /\ stored[Key[a]] # None
                            /\ stored[Key[a]].response = [kind |-> "ALLOW", by |-> a]

ClaimInv ==
    /\ ClaimsAreExclusive
    /\ DecisionsAreOwn
    /\ StoredIsOfItsKey
    /\ AnswersAreStored
    /\ StoredIsJournaled
    /\ journaled \subseteq minted

=============================================================================
