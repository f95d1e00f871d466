----------------------------- MODULE WorkLease ------------------------------
(***************************************************************************)
(* Row-backed work leases with fencing: workers take turns at one lease    *)
(* key, and every transaction a cycle writes in proves the lease first.    *)
(* packages/db/src/leases.ts, as apps/worker/src/index.ts uses it          *)
(*                                                                         *)
(* Expiry is kept as the time left, which is what each statement compares  *)
(* with the database's now().  That now() is when the statement began, so  *)
(* a renewal that waits for the row lock is judged by the time it was sent *)
(* and grants what is left of its TTL: it has a start and an end here.     *)
(***************************************************************************)
EXTENDS Naturals

CONSTANTS
    Workers,    \* worker processes: hostname and pid tell them apart
    TTL,        \* lease lifetime
    MaxGrants,  \* bound of the model: acquisitions
    Nothing     \* no lease row, no renewal under way

Row == [owner : Workers, token : Nat, left : 0..TTL]

Renewal == [token : Nat, session : Nat, left : 0..TTL, live : BOOLEAN]

ASSUME WorkLeaseAssumption ==
    /\ TTL \in Nat \ {0}
    /\ MaxGrants \in Nat
    /\ Nothing \notin Row /\ Nothing \notin Renewal

VARIABLES
    lease,      \* the row of work_leases
    stage,      \* where each worker's withLease is
    token,      \* the fencing token of its lease object
    lost,       \* renewalError of its withLease
    beat,       \* its renewal under way
    grants,     \* history: acquisitions so far
    session,    \* history: which acquisition each worker acts under
    written,    \* history: the acquisition of the last committed write
    completed   \* history: acquisitions whose cycle reported success

leaseVars == <<lease, stage, token, lost, beat, grants, session, written, completed>>

LeaseTypeOK ==
    /\ lease \in Row \cup {Nothing}
    /\ stage \in [Workers -> {"idle", "working", "writing", "leaving", "dead"}]
    /\ token \in [Workers -> Nat]
    /\ lost \in [Workers -> BOOLEAN]
    /\ beat \in [Workers -> Renewal \cup {Nothing}]
    /\ grants \in Nat
    /\ session \in [Workers -> Nat]
    /\ written \in Nat
    /\ completed \subseteq Nat

LeaseInit ==
    /\ lease = Nothing
    /\ stage = [w \in Workers |-> "idle"]
    /\ token = [w \in Workers |-> 0]
    /\ lost = [w \in Workers |-> FALSE]
    /\ beat = [w \in Workers |-> Nothing]
    /\ grants = 0
    /\ session = [w \in Workers |-> 0]
    /\ written = 0
    /\ completed = {}

-----------------------------------------------------------------------------

\* assertLeaseHeld with lock = TRUE keeps the row locked until its transaction
\* ends; other statements on the row wait.
Locked == \E w \in Workers : stage[w] = "writing"

Active(w) == stage[w] \in {"working", "writing", "leaving"}

\* Mutant of Matches: the fencing condition forgets who the owner is.
TokenMatches(w) == lease # Nothing /\ lease.token = token[w]

\* The row is the one this worker acquired.
Matches(w) == lease # Nothing /\ lease.owner = w /\ lease.token = token[w]

Held(w) == Matches(w) /\ lease.left > 0

\* Mutant of Takeable: an expired lease is not free.
NeverExpires(w) == lease # Nothing => lease.owner = w

Takeable(w) == lease # Nothing => lease.left = 0 \/ lease.owner = w

\* A fresh row takes the column's default.
NextToken == IF lease = Nothing THEN 1 ELSE lease.token + 1

\* acquireLease.  Bounded by MaxGrants.
Acquire(w) ==
    /\ stage[w] = "idle"
    /\ ~Locked
    /\ Takeable(w)
    /\ grants < MaxGrants
    /\ lease' = [owner |-> w, token |-> NextToken, left |-> TTL]
    /\ stage' = [stage EXCEPT ![w] = "working"]
    /\ token' = [token EXCEPT ![w] = NextToken]
    /\ grants' = grants + 1
    /\ session' = [session EXCEPT ![w] = grants + 1]
    /\ UNCHANGED <<beat, lost, written, completed>>

\* The heartbeat's timer fires and renewLease is sent.
StartRenewal(w) ==
    /\ Active(w)
    /\ beat[w] = Nothing
    /\ beat' = [beat EXCEPT ![w] = [token |-> token[w], session |-> session[w],
                                    left |-> TTL, live |-> Held(w)]]
    /\ UNCHANGED <<lease, stage, token, lost, grants, session, written, completed>>

RenewalAccepted(w) ==
    /\ beat[w].live
    /\ lease # Nothing
    /\ lease.owner = w
    /\ lease.token = beat[w].token

\* The timer's callback sets renewalError of the withLease that started it.
RenewalFailed(w) ==
    lost' = [lost EXCEPT ![w] = @ \/ (Active(w) /\ session[w] = beat[w].session)]

FinishRenewal(w) ==
    /\ beat[w] # Nothing
    /\ ~Locked
    /\ beat' = [beat EXCEPT ![w] = Nothing]
    /\ \/ /\ RenewalAccepted(w)
          /\ lease' = [lease EXCEPT !.left = beat[w].left]
          /\ UNCHANGED lost
       \/ /\ ~RenewalAccepted(w)
          /\ RenewalFailed(w)
          /\ UNCHANGED lease
    /\ UNCHANGED <<stage, token, grants, session, written, completed>>

\* The renewal's query fails.
RenewalError(w) ==
    /\ beat[w] # Nothing
    /\ beat' = [beat EXCEPT ![w] = Nothing]
    /\ RenewalFailed(w)
    /\ UNCHANGED <<lease, stage, token, grants, session, written, completed>>

-----------------------------------------------------------------------------
\* The work of a cycle: reads of other systems, then transactions that each
\* begin with assertLeaseHeld(client, lease, true).

Moves(w, to) ==
    /\ stage' = [stage EXCEPT ![w] = to]
    /\ UNCHANGED <<lease, token, lost, beat, grants, session>>

BeginWrite(w) ==
    /\ stage[w] = "working"
    /\ ~Locked
    /\ Held(w)
    /\ Moves(w, "writing")
    /\ UNCHANGED <<written, completed>>

CommitWrite(w) ==
    /\ stage[w] = "writing"
    /\ Moves(w, "working")
    /\ written' = session[w]
    /\ UNCHANGED completed

\* LeaseLostError, or the work or its transaction throws.
Throw(w) ==
    /\ stage[w] \in {"working", "writing"}
    /\ Moves(w, "leaving")
    /\ UNCHANGED <<written, completed>>

\* Mutant of MayComplete: the check after the work is left out.
AnyCompletion(w) == ~lost[w]

\* The work is done, and withLease returns its result only if no renewal failed
\* and the lease is still held.
MayComplete(w) == ~lost[w] /\ Held(w)

EndWork(w) ==
    /\ stage[w] = "working"
    /\ Moves(w, "leaving")
    /\ completed' = IF MayComplete(w) THEN completed \cup {session[w]} ELSE completed
    /\ UNCHANGED written

\* withLease is over, and its lease object and renewalError with it.
Forget(w, next) ==
    /\ stage' = [stage EXCEPT ![w] = next]
    /\ token' = [token EXCEPT ![w] = 0]
    /\ session' = [session EXCEPT ![w] = 0]
    /\ lost' = [lost EXCEPT ![w] = FALSE]
    /\ UNCHANGED <<grants, written, completed>>

\* releaseLease in the finally block deletes the row it acquired, if it still is.
Release(w) ==
    /\ stage[w] = "leaving"
    /\ ~Locked
    /\ lease' = IF Matches(w) THEN Nothing ELSE lease
    /\ Forget(w, "idle")
    /\ UNCHANGED beat

\* An error of releaseLease is swallowed.
ReleaseError(w) ==
    /\ stage[w] = "leaving"
    /\ Forget(w, "idle")
    /\ UNCHANGED <<lease, beat>>

\* The process dies; its connection closes and its transaction rolls back.
Crash(w) ==
    /\ stage[w] # "dead"
    /\ Forget(w, "dead")
    /\ beat' = [beat EXCEPT ![w] = Nothing]
    /\ UNCHANGED lease

\* The process is started again under the same identity: hostname and pid.
Restart(w) ==
    /\ stage[w] = "dead"
    /\ stage' = [stage EXCEPT ![w] = "idle"]
    /\ UNCHANGED <<lease, token, lost, beat, grants, session, written, completed>>

Less(n) == IF n = 0 THEN 0 ELSE n - 1

Tick ==
    /\ lease' = IF lease = Nothing THEN Nothing ELSE [lease EXCEPT !.left = Less(@)]
    /\ beat' = [w \in Workers |->
                   IF beat[w] = Nothing THEN Nothing ELSE [beat[w] EXCEPT !.left = Less(@)]]
    /\ UNCHANGED <<stage, token, lost, grants, session, written, completed>>

\* What a live worker keeps doing: cycle after cycle, each of which ends.
Cycle(w) ==
    \/ Acquire(w)
    \/ BeginWrite(w)
    \/ CommitWrite(w)
    \/ Throw(w)
    \/ EndWork(w)
    \/ Release(w)
    \/ ReleaseError(w)

LeaseNext ==
    \/ Tick
    \/ \E w \in Workers :
          \/ Cycle(w)
          \/ StartRenewal(w)
          \/ FinishRenewal(w)
          \/ RenewalError(w)
          \/ Crash(w)
          \/ Restart(w)

\* Time passes and the loop of apps/worker/src/index.ts does not stop; nothing
\* makes a renewal arrive in time.
Fairness == WF_leaseVars(Tick) /\ \A w \in Workers : WF_leaseVars(Cycle(w))

LeaseSpec == LeaseInit /\ [][LeaseNext]_leaseVars

LeaseFairSpec == LeaseSpec /\ Fairness

-----------------------------------------------------------------------------

\* OnlyNewestActs.  A worker that was superseded neither commits a write nor
\* reports its cycle complete, however long it stalled, however late a renewal
\* lands and whatever release deletes.
OnlyNewestActs ==
    [][/\ written' # written => written' = grants
       /\ completed' \subseteq completed \cup {grants}]_leaseVars

\* LeaseRecovers.  The lease of a dead worker does not stay with it while a
\* worker lives.  Bounded by MaxGrants.
HeldByTheDead == lease # Nothing /\ stage[lease.owner] = "dead"

LeaseRecovers ==
    HeldByTheDead ~>
        \/ ~HeldByTheDead
        \/ grants = MaxGrants
        \/ \A w \in Workers : stage[w] = "dead"

\* The inductive invariant behind OnlyNewestActs.

\* A row a session can prove it holds is the newest acquisition's.
ProvenIsNewest ==
    \A w \in Workers : Active(w) /\ Matches(w) => session[w] = grants

\* A transaction under way has proved it, and the row lock keeps it so.
WritersAreProven ==
    \A w \in Workers : stage[w] = "writing" => Matches(w)

FencingInv == ProvenIsNewest /\ WritersAreProven

=============================================================================
