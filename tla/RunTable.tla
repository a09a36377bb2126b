------------------------------ MODULE RunTable ------------------------------
(***************************************************************************)
(* The `job_runs' table: one operator per statement of                     *)
(* internal/sqlite/runs_store.go.  Every operator is one SQL statement or  *)
(* one transaction, hence atomic between processes.                        *)
(*                                                                         *)
(* A row keeps job_id, status, whether runner_id is set, scheduled_for     *)
(* (NoTime for a manual run) and queued_at.  The statuses succeeded and    *)
(* failed are one status "finished": nothing the scheduler does depends on *)
(* which of the two a command earned.  Output, exit code and message are   *)
(* carried along by the code and left out.  "absent" is an id not handed   *)
(* out yet and "deleted" one whose row the cascade removed: ids are        *)
(* AUTOINCREMENT, so neither is ever confused with a later run.            *)
(***************************************************************************)
EXTENDS JobTable

CONSTANT MaxRuns    \* bound: the INSERT after the MaxRuns-th fails

ASSUME MaxRunsAssumption == MaxRuns \in Nat

RunIds == 1..MaxRuns

Terminal == {"finished", "canceled"}
Unfinished == {"pending", "running"}
RunStatus == {"absent", "deleted"} \cup Unfinished \cup Terminal

RunRow == [st : RunStatus, job : Jobs \cup {0}, claimed : BOOLEAN,
           slot : Time, queued : Nat]

AbsentRun == [st |-> "absent", job |-> 0, claimed |-> FALSE,
              slot |-> NoTime, queued |-> 0]

\* INSERT of EnqueueManual (slot = NoTime) and EnqueueScheduled.
InsertRun(table, r, j, slot, queued) ==
    [table EXCEPT ![r] = [st |-> "pending", job |-> j, claimed |-> FALSE,
                          slot |-> slot, queued |-> queued]]

\* Mutant: a run that has begun does not count.
PendingByJob(table, j) ==
    {r \in RunIds : table[r].job = j /\ table[r].st = "pending"}

\* status IN ('pending', 'running'), whether or not a runner has claimed it
UnfinishedByJob(table, j) ==
    {r \in RunIds : table[r].job = j /\ table[r].st \in Unfinished}

\* status = 'pending' AND runner_id IS NULL
Claimable(table) ==
    {r \in RunIds : table[r].st = "pending" /\ ~table[r].claimed}

\* ORDER BY queued_at ASC, id ASC
QueuedBefore(table, r, s) ==
    \/ table[r].queued < table[s].queued
    \/ table[r].queued = table[s].queued /\ r < s

\* LIMIT: at most `limit' rows, those queued first.
OldestPending(table, limit) ==
    {r \in Claimable(table) :
        Cardinality({s \in Claimable(table) : QueuedBefore(table, s, r)}) < limit}

PendingFirst(table, r, S) == \A s \in S \ {r} : QueuedBefore(table, r, s)

\* The compare-and-set of TryClaimPending, and its success.
CanClaim(table, r) == table[r].st = "pending" /\ ~table[r].claimed
ClaimRun(table, r) == [table EXCEPT ![r].claimed = TRUE]

\* MarkRunning's WHERE id = ? AND status = 'pending'
CanMarkRunning(table, r) == table[r].st = "pending"
MarkRunRunning(table, r) == [table EXCEPT ![r].st = "running"]

\* Mutant: the guard of MarkRunning.
FinishesPendingOnly(table, r) == table[r].st = "pending"

\* Mutant: a row that is gone is inserted again.
FinishesUpserting(table, r) == table[r].st # "absent"

\* MarkFinished has WHERE id = ? and no guard on the status.
CanMarkFinished(table, r) == table[r].st \notin {"absent", "deleted"}
MarkRunFinished(table, r, status) ==
    [table EXCEPT ![r].st = status, ![r].claimed = FALSE]

\* Mutant: status IN ('pending', 'running').
CancelUnfinishedByJob(table, j) ==
    [r \in RunIds |-> IF r \in UnfinishedByJob(table, j)
                      THEN [table[r] EXCEPT !.st = "canceled", !.claimed = FALSE]
                      ELSE table[r]]

\* UPDATE ... SET status = 'canceled', runner_id = NULL WHERE job_id = ? AND status = 'pending'
CancelPendingByJob(table, j) ==
    [r \in RunIds |-> IF table[r].job = j /\ table[r].st = "pending"
                      THEN [table[r] EXCEPT !.st = "canceled", !.claimed = FALSE]
                      ELSE table[r]]

\* Mutant: foreign keys are not enforced.
DeleteAlone(table, j) == table

\* ON DELETE CASCADE from jobs to job_runs
CascadeDelete(table, j) ==
    [r \in RunIds |-> IF table[r].job = j /\ table[r].st # "absent"
                      THEN [table[r] EXCEPT !.st = "deleted", !.claimed = FALSE]
                      ELSE table[r]]

=============================================================================
