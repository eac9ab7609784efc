----------------------- MODULE CloudIntegrationOutbox -----------------------
(***************************************************************************)
(* The outbox of the cloud towards external integrations                   *)
(* (packages/database/src/outbox/cloud-integration-outbox.ts): enqueue,    *)
(* claimBatch, completeEvent and handleFailure over the tables             *)
(* cloud_integration_outbox and cloud_integration_dlq, used by several     *)
(* worker processes that crash, stall past the two-minute lock and answer  *)
(* late.  Each operation is one transaction.                               *)
(*                                                                         *)
(* The worker loop is not in the repository.  A worker dispatches every    *)
(* event it has claimed, reports the result with its worker id as claim    *)
(* token, and claims again once it has nothing left to report.             *)
(***************************************************************************)
EXTENDS Integers, Sequences, SequencesExt, FiniteSets

CONSTANTS
    Events,         \* ids of outbox rows
    Workers,        \* worker ids
    BatchSize,      \* limit of claimBatch
    MaxRetries,     \* max_retries (CANONICAL_MAX_RETRIES)
    MaxFaults       \* bound: crashes of a worker and stalls past the lock

ASSUME OutboxNumbers == BatchSize \in Nat \ {0} /\ MaxRetries \in Nat /\ MaxFaults \in Nat

VARIABLES
    queue,       \* the enqueued ids, ORDER BY created_at
    row,         \* the row of each id
    dlq,         \* rows of cloud_integration_dlq: [id, code, retries]
    attempts,    \* claims a worker has not reported on yet: [worker, id, latest],
                 \* latest: nobody has claimed the id since (history)
    faults       \* crashes and stalls so far

vars == <<queue, row, dlq, attempts, faults>>

NoWorker == "none"

\* lockFresh: locked_at is set and less than two minutes old.
\* due: next_retry_at <= NOW().
Absent == [status |-> "ABSENT", lock_id |-> NoWorker, lockFresh |-> FALSE, due |-> FALSE,
           retry_count |-> 0, delivery_attempts |-> 0]

Init ==
    /\ queue = <<>>
    /\ row = [id \in Events |-> Absent]
    /\ dlq = {}
    /\ attempts = {}
    /\ faults = 0

-----------------------------------------------------------------------------
Enqueue(id) ==
    /\ row[id] = Absent
    /\ queue' = Append(queue, id)
    /\ row' = [row EXCEPT ![id] = [Absent EXCEPT !.status = "PENDING", !.due = TRUE]]
    /\ UNCHANGED <<dlq, attempts, faults>>

\* Mutant: claims of dead workers are never taken over.
Claimable_PendingOnly(id) == row[id].status = "PENDING" /\ row[id].due

Claimable(id) ==
    /\ row[id].status \in {"PENDING", "PROCESSING"}
    /\ row[id].due
    /\ ~row[id].lockFresh

\* The oldest claimable rows, at most BatchSize of them.
Candidates ==
    LET ready == SelectSeq(queue, Claimable) IN
    ToSet(SubSeq(ready, 1, IF Len(ready) < BatchSize THEN Len(ready) ELSE BatchSize))

ClaimBatch(w) ==
    /\ \A a \in attempts : a.worker # w
    /\ Candidates # {}
    /\ row' = [id \in Events |->
                 IF id \in Candidates
                 THEN [row[id] EXCEPT !.status = "PROCESSING", !.lock_id = w, !.lockFresh = TRUE]
                 ELSE row[id]]
    /\ attempts' =
         {[a EXCEPT !.latest = a.latest /\ a.id \notin Candidates] : a \in attempts}
         \cup [worker : {w}, id : Candidates, latest : {TRUE}]
    /\ UNCHANGED <<queue, dlq, faults>>

\* Mutant: the claim token is not compared.
OwnsClaim_NoToken(a) == row[a.id].status = "PROCESSING"

\* The compare-and-set of completeEvent and handleFailure.
OwnsClaim(a) == row[a.id].status = "PROCESSING" /\ row[a.id].lock_id = a.worker

CompleteEvent(a) ==
    /\ attempts' = attempts \ {a}
    /\ row' = IF OwnsClaim(a)
              THEN [row EXCEPT ![a.id].status = "PUBLISHED", ![a.id].lock_id = NoWorker]
              ELSE row                                              \* STALE_CLAIM
    /\ UNCHANGED <<queue, dlq, faults>>

NewAttempts(id) == row[id].delivery_attempts + 1
NewRetryCount(id) == NewAttempts(id) - 1
\* Mutant: one retry too few.
RoutesToDlq_Early(id, isNonRetryable) == isNonRetryable \/ NewAttempts(id) >= MaxRetries

RoutesToDlq(id, isNonRetryable) == isNonRetryable \/ NewAttempts(id) > MaxRetries

\* The row after a failed delivery: dead-lettered, or retried after a backoff.
Failed(id, isNonRetryable) ==
    IF RoutesToDlq(id, isNonRetryable)
    THEN [row[id] EXCEPT !.status = "DLQ", !.lock_id = NoWorker,
                         !.retry_count = NewRetryCount(id), !.delivery_attempts = NewAttempts(id)]
    ELSE [row[id] EXCEPT !.status = "PENDING", !.lock_id = NoWorker, !.lockFresh = FALSE,
                         !.due = FALSE,
                         !.retry_count = NewRetryCount(id), !.delivery_attempts = NewAttempts(id)]

HandleFailure(a, isNonRetryable) ==
    /\ attempts' = attempts \ {a}
    /\ \/ /\ ~OwnsClaim(a)                                          \* STALE_CLAIM
          /\ UNCHANGED <<row, dlq>>
       \/ /\ OwnsClaim(a)
          /\ row' = [row EXCEPT ![a.id] = Failed(a.id, isNonRetryable)]
          /\ dlq' = IF RoutesToDlq(a.id, isNonRetryable)
                    THEN dlq \cup {[id |-> a.id, retries |-> NewRetryCount(a.id),
                                    code |-> IF isNonRetryable THEN "NON_RETRYABLE_ERROR"
                                             ELSE "RETRY_EXHAUSTED"]}
                    ELSE dlq
    /\ UNCHANGED <<queue, faults>>

\* A worker dies with everything it was working on.
Crash(w) ==
    /\ faults < MaxFaults
    /\ \E a \in attempts : a.worker = w
    /\ attempts' = {a \in attempts : a.worker # w}
    /\ faults' = faults + 1
    /\ UNCHANGED <<queue, row, dlq>>

\* Time: the two minutes of a lock and the backoff delay run out.  When the
\* lock runs out under a live worker, that worker has stalled.
Stalled(id) == \E a \in attempts : a.id = id /\ a.latest

LockExpires(id) ==
    /\ row[id].lockFresh
    /\ Stalled(id) => faults < MaxFaults
    /\ faults' = IF Stalled(id) THEN faults + 1 ELSE faults
    /\ row' = [row EXCEPT ![id].lockFresh = FALSE]
    /\ UNCHANGED <<queue, dlq, attempts>>

BackoffElapses(id) ==
    /\ row[id].status = "PENDING" /\ ~row[id].due
    /\ row' = [row EXCEPT ![id].due = TRUE]
    /\ UNCHANGED <<queue, dlq, attempts, faults>>

-----------------------------------------------------------------------------
Next ==
    \/ \E id \in Events : Enqueue(id)
    \/ \E w \in Workers : ClaimBatch(w)
    \/ \E a \in attempts : CompleteEvent(a)
    \/ \E a \in attempts, nonRetryable \in BOOLEAN : HandleFailure(a, nonRetryable)
    \/ \E w \in Workers : Crash(w)
    \/ \E id \in Events : LockExpires(id)
    \/ \E id \in Events : BackoffElapses(id)

Spec == Init /\ [][Next]_vars

\* A worker that lives reports every attempt and claims again, and time passes.
Report(w) == \E a \in attempts : a.worker = w /\
                 (CompleteEvent(a) \/ HandleFailure(a, FALSE) \/ HandleFailure(a, TRUE))
Fairness ==
    /\ \A w \in Workers : WF_vars(Report(w))
    /\ WF_vars(\E w \in Workers : ClaimBatch(w))
    /\ \A id \in Events :
         /\ WF_vars(~Stalled(id) /\ LockExpires(id))
         /\ WF_vars(BackoffElapses(id))

FairSpec == Spec /\ Fairness

-----------------------------------------------------------------------------
(* Properties *)

\* The dead letter queue and the outbox agree: an id has a DLQ row exactly when
\* its outbox row is DLQ, it has one only, and RETRY_EXHAUSTED is recorded only
\* after the initial attempt and max_retries retries.
DlqMatchesOutbox ==
    /\ \A id \in Events : row[id].status = "DLQ" <=> \E d \in dlq : d.id = id
    /\ \A d, f \in dlq : d.id = f.id => d = f
    /\ \A d \in dlq : d.code = "RETRY_EXHAUSTED" => row[d.id].delivery_attempts = MaxRetries + 1

\* Claim ownership (QI-012-05): the row changes state only on the word of the
\* worker that claimed it last, never on a late answer for a claim that was
\* taken over after its lock expired.
OnlyLatestClaimReports ==
    [][\A a \in attempts :
         /\ \A b \in attempts' : b.worker # a.worker \/ b.id # a.id
         /\ row'[a.id] # row[a.id]
         => a.latest]_vars

\* Every enqueued event is eventually published or dead-lettered, once the
\* workers stop crashing and stalling: a claim whose worker died is taken over.
EveryEventResolved ==
    \A id \in Events :
        row[id].status = "PENDING" ~> row[id].status \in {"PUBLISHED", "DLQ"}
=============================================================================
