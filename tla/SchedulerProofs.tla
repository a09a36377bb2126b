-------------------------- MODULE SchedulerProofs --------------------------
(***************************************************************************)
(* Proofs about Scheduler for every value of its constants.                *)
(***************************************************************************)
EXTENDS SchedulerInv, TLAPS

USE DEF vars, dbVars, loopVars, execVars, lifeVars

-----------------------------------------------------------------------------
(* Type correctness.                                                       *)

\* What ListDue returned was due at the tick being processed.
DueInTheirTime == \A c \in due : c.row.next \in 0..tick

\* A goroutine about to call MarkFinished has decided on a terminal status.
FinalIsDecided ==
    \A r \in RunIds : exec[r] = "persist" => final[r] \in Terminal

TypeInv == TypeOK /\ DueInTheirTime /\ FinalIsDecided

\* The next slot computeFutureNextRun finds is a time after the tick.
LEMMA FutureNextRunIsLater ==
    ASSUME NEW t \in Nat, NEW n \in 0..t
    PROVE  FutureNextRun(n, t) \in Nat /\ FutureNextRun(n, t) > t
<1> DEFINE q == (t - n) \div Period
<1>1. Period \in Nat /\ Period > 0
  BY PeriodAssumption
<1>2. q \in Nat /\ t - n < Period * (q + 1)
  BY <1>1
<1>3. Period * (q + 1) \in Nat
  BY <1>1, <1>2
<1> QED
  BY <1>2, <1>3 DEF FutureNextRun

\* The statements on jobs keep the table well-typed.
LEMMA JobTableTypes ==
    ASSUME NEW t \in [Jobs -> JobRow], NEW j \in Jobs
    PROVE  /\ \A row \in JobRow : JobUpdate(t, j, row) \in [Jobs -> JobRow]
           /\ \A n \in Time : UpdateNextRun(t, j, n) \in [Jobs -> JobRow]
           /\ DeleteByName(t, j) \in [Jobs -> JobRow]
  BY DEF JobUpdate, UpdateNextRun, DeleteByName, JobRow

\* What ListDue returns are copies of rows that are due.
LEMMA ListDueTypes ==
    ASSUME NEW t \in [Jobs -> JobRow], NEW n \in Nat, NEW c \in ListDue(t, n)
    PROVE  c \in JobCopy /\ c.row.next \in 0..n
<1>1. PICK j \in Jobs : c = [id |-> j, row |-> t[j]]
  BY DEF ListDue
<1>2. c.id = j /\ c.row = t[j] /\ c.row.next \in Time
  BY <1>1 DEF JobRow
<1>3. c.row.next # NoTime /\ c.row.next <= n
  BY DEF ListDue
<1>4. c.row.next \in 0..n
  BY <1>2, <1>3 DEF Time, NoTime
<1>5. c \in JobCopy
  BY <1>1, <1>2 DEF JobCopy
<1> QED
  BY <1>4, <1>5

\* So do the statements on job_runs.
LEMMA RunRowTypes ==
    ASSUME NEW t \in [RunIds -> RunRow], NEW r \in RunIds
    PROVE  /\ \A j \in Jobs, s \in Time, q \in Nat :
                  InsertRun(t, r, j, s, q) \in [RunIds -> RunRow]
           /\ ClaimRun(t, r) \in [RunIds -> RunRow]
           /\ MarkRunRunning(t, r) \in [RunIds -> RunRow]
           /\ \A s \in Terminal : MarkRunFinished(t, r, s) \in [RunIds -> RunRow]
  BY DEF InsertRun, ClaimRun, MarkRunRunning, MarkRunFinished, RunRow, RunStatus,
         Terminal, Unfinished

LEMMA RunTableTypes ==
    ASSUME NEW t \in [RunIds -> RunRow], NEW j \in Jobs
    PROVE  /\ CancelPendingByJob(t, j) \in [RunIds -> RunRow]
           /\ CascadeDelete(t, j) \in [RunIds -> RunRow]
  BY DEF CancelPendingByJob, CascadeDelete, RunRow, RunStatus, Terminal, Unfinished

\* A run the loop goes on from leaves the loop's variables well-typed.
LEMMA SkipRunTypes ==
    ASSUME TypeInv, NEW r, SkipRun(r)
    PROVE  /\ pend' \subseteq RunIds /\ cur' = 0 /\ victims' = {}
           /\ pc' \in LoopPcs
  BY DEF TypeInv, TypeOK, SkipRun, AfterRun, LoopPcs

LEMMA FaultsType ==
    ASSUME TypeInv,
           CallWorks \/ CallFails \/ DetachedCallWorks \/ DetachedCallFails
    PROVE  faults' \in Nat
  BY DEF TypeInv, TypeOK, CallWorks, CallFails, DetachedCallWorks, DetachedCallFails

LEMMA InsertTypes ==
    ASSUME TypeInv, NEW j \in Jobs, NEW s \in Time, NEW q \in Nat,
           CanInsert(j), Insert(j, s, q)
    PROVE  /\ runs' \in [RunIds -> RunRow]
           /\ nextRun' \in 1..(MaxRuns + 1)
<1>1. nextRun \in RunIds /\ nextRun' \in 1..(MaxRuns + 1)
  BY MaxRunsAssumption DEF TypeInv, TypeOK, CanInsert, Insert, RunIds
<1> QED
  BY <1>1, RunRowTypes DEF TypeInv, TypeOK, Insert

LEMMA TypeInit == Init => TypeInv
<1> SUFFICES ASSUME Init PROVE TypeInv
  OBVIOUS
<1>1. jobs \in [Jobs -> JobRow]
  BY InitialJobsAssumption DEF Init
<1>2. runs \in [RunIds -> RunRow]
  BY DEF Init, AbsentRun, RunRow, RunStatus, Time, NoTime
<1>3. nextRun \in 1..(MaxRuns + 1)
  BY MaxRunsAssumption DEF Init
<1>4. cli \in [Clis -> CliState]
  BY DEF Init, CliState
<1> QED
  BY <1>1, <1>2, <1>3, <1>4
  DEF Init, TypeInv, TypeOK, DueInTheirTime, FinalIsDecided, LoopPcs, ExecPcs, Reasons

\* The first half of a tick.
LEMMA TypeDueStep ==
    ASSUME TypeInv, NEW c \in due, DueStep(c)
    PROVE  TypeInv'
<1> USE DEF TypeInv, TypeOK, DueInTheirTime, FinalIsDecided
<1>0. c.id \in Jobs /\ c.row \in JobRow /\ c.row.next \in 0..tick /\ tick \in Nat
  BY DEF JobCopy
<1>1. CASE CheckUnfinished(c)
  BY <1>1, FaultsType DEF CheckUnfinished, SkipDue, LoopPcs
<1>2. CASE CancelPending(c)
  <2>1. runs' \in [RunIds -> RunRow]
    BY <1>0, <1>2, RunTableTypes DEF CancelPending
  <2> QED
    BY <1>2, <2>1, FaultsType DEF CancelPending, SkipDue, LoopPcs
<1>3. CASE EnqueueScheduled(c)
  <2>1. c.row.next \in Time
    BY <1>0 DEF Time
  <2>2. runs' \in [RunIds -> RunRow] /\ nextRun' \in 1..(MaxRuns + 1)
    BY <1>0, <1>3, <2>1, InsertTypes DEF EnqueueScheduled
  <2> QED
    BY <1>3, <2>2, FaultsType DEF EnqueueScheduled, SkipDue, LoopPcs
<1>4. CASE AdvanceSchedule(c)
  <2>1. FutureNextRun(c.row.next, tick) \in Time
    BY <1>0, FutureNextRunIsLater DEF Time
  <2>2. [c.row EXCEPT !.enabled = FALSE, !.next = NoTime] \in JobRow
    BY <1>0 DEF JobRow, Time
  <2>3. jobs' \in [Jobs -> JobRow]
    BY <1>0, <1>4, <2>1, <2>2, JobTableTypes DEF AdvanceSchedule
  <2> QED
    BY <1>4, <2>3, FaultsType DEF AdvanceSchedule, SkipDue, LoopPcs
<1> QED
  BY <1>1, <1>2, <1>3, <1>4 DEF DueStep
\* The second half of a tick, and the end of the loop.
LEMMA TypePendingStep ==
    ASSUME TypeInv,
           \/ ListDueJobs \/ ListPending
           \/ \E r \in pend : PrepareRunStart(r)
           \/ \E r \in victims : CancelVictim(r)
           \/ TryClaimPending \/ MarkRunning \/ StartRunExecution
           \/ SeeCancellation \/ LoopReturns
    PROVE  TypeInv'
<1> USE DEF TypeInv, TypeOK, DueInTheirTime, FinalIsDecided
<1>1. CASE ListDueJobs
  <2>1. due' \subseteq JobCopy /\ \A c \in due' : c.row.next \in 0..now
    BY <1>1, ListDueTypes DEF ListDueJobs
  <2> QED
    BY <1>1, <2>1, FaultsType DEF ListDueJobs, LoopPcs
<1>2. CASE ListPending
  <2>1. pend' \subseteq RunIds
    BY <1>2 DEF ListPending, OldestPending, Claimable
  <2> QED
    BY <1>2, <2>1, FaultsType DEF ListPending, AfterRun, LoopPcs
<1>3. ASSUME NEW r \in pend, PrepareRunStart(r)
      PROVE  TypeInv'
  <2>1. ActiveOf(runs[r].job) \subseteq RunIds
    BY DEF ActiveOf, Active
  <2> QED
    BY <1>3, <2>1, FaultsType, SkipRunTypes DEF PrepareRunStart, LoopPcs
<1>4. ASSUME NEW r \in victims, CancelVictim(r)
      PROVE  TypeInv'
  BY <1>4 DEF CancelVictim, Reasons
<1>5. CASE TryClaimPending
  <2>1. runs' \in [RunIds -> RunRow]
    <3>1. CASE CanClaim(runs, cur) /\ runs' = ClaimRun(runs, cur)
      BY <3>1, RunRowTypes DEF ClaimRun
    <3> QED
      BY <1>5, <3>1 DEF TryClaimPending
  <2> QED
    BY <1>5, <2>1, FaultsType, SkipRunTypes DEF TryClaimPending, LoopPcs
<1>6. CASE MarkRunning
  <2>1. runs' \in [RunIds -> RunRow]
    <3>1. CASE runs' = MarkRunRunning(runs, cur)
      BY <3>1, RunRowTypes DEF MarkRunRunning
    <3> QED
      BY <1>6, <3>1 DEF MarkRunning
  <2> QED
    BY <1>6, <2>1, FaultsType, SkipRunTypes DEF MarkRunning, LoopPcs
<1>7. CASE StartRunExecution
  BY <1>7, SkipRunTypes DEF StartRunExecution, ExecPcs, Reasons
<1>8. CASE SeeCancellation
  BY <1>8 DEF SeeCancellation, Active, LoopPcs
<1>9. CASE LoopReturns
  BY <1>9 DEF LoopReturns, LoopPcs
<1> QED
  BY <1>1, <1>2, <1>3, <1>4, <1>5, <1>6, <1>7, <1>8, <1>9

\* An executor goroutine.
LEMMA TypeExecutorStep ==
    ASSUME TypeInv, NEW r \in RunIds, ExecutorStep(r)
    PROVE  TypeInv'
<1> USE DEF TypeInv, TypeOK, DueInTheirTime, FinalIsDecided
<1>1. CASE ExecutionEnds(r)
  BY <1>1 DEF ExecutionEnds, RecordedStatus, ExecPcs, Terminal
<1>2. CASE MarkFinished(r)
  <2>1. runs' \in [RunIds -> RunRow]
    BY <1>2, RunRowTypes DEF MarkFinished
  <2> QED
    BY <1>2, <2>1, FaultsType DEF MarkFinished, ExecPcs
<1>3. CASE FinishActiveRun(r)
  BY <1>3 DEF FinishActiveRun, ExecPcs, Reasons
<1> QED
  BY <1>1, <1>2, <1>3 DEF ExecutorStep, PersistStep
LEMMA RecomputedTypes ==
    ASSUME TypeInv, NEW row \in JobRow
    PROVE  Recomputed(row) \in JobRow
<1>1. NextFromNow(now) \in Time /\ NoTime \in Time
  BY PeriodAssumption DEF TypeInv, TypeOK, NextFromNow, Time
<1> QED
  BY <1>1 DEF Recomputed, JobRow

LEMMA EditedRowTypes ==
    ASSUME TypeInv, NEW old \in JobRow, NEW row \in EditedRows(old)
    PROVE  row \in JobRow
<1>1. \A p \in Policies : [old EXCEPT !.policy = p] \in JobRow
  BY DEF JobRow
<1>2. \A k \in Kinds : [old EXCEPT !.kind = k] \in JobRow
  BY DEF JobRow
<1>3. \A e \in BOOLEAN : [old EXCEPT !.enabled = e] \in JobRow
  BY DEF JobRow
<1>4. \/ \E p \in Policies : row = [old EXCEPT !.policy = p]
      \/ \E k \in Kinds : row = Recomputed([old EXCEPT !.kind = k])
      \/ \E e \in BOOLEAN : row = Recomputed([old EXCEPT !.enabled = e])
  BY DEF EditedRows
<1> QED
  BY <1>1, <1>2, <1>3, <1>4, RecomputedTypes

\* The CLI processes.
LEMMA TypeCliStep ==
    ASSUME TypeInv, NEW c \in Clis, CliProcessStep(c)
    PROVE  TypeInv'
<1> USE DEF TypeInv, TypeOK, DueInTheirTime, FinalIsDecided
<1>1. ASSUME NEW step \in CliState, CliStep(c, step)
      PROVE  cli' \in [Clis -> CliState]
  BY <1>1 DEF CliStep
<1>2. IdleCli \in CliState
  BY DEF CliState
<1>3. ASSUME NEW j \in Jobs, RunReads(c, j)
      PROVE  TypeInv'
  <2>1. [pc |-> "run", id |-> j, policy |-> jobs[j].policy, at |-> now] \in CliState
    BY DEF CliState, JobRow
  <2> QED
    BY <1>1, <1>3, <2>1 DEF RunReads, CliStep
<1>4. ASSUME NEW j \in Jobs, EditReads(c, j)
      PROVE  TypeInv'
  <2>1. PICK row \in EditedRows(jobs[j]) : CliStep(c, [pc |-> "write", id |-> j, row |-> row])
    BY <1>4 DEF EditReads
  <2>2. row \in JobRow
    BY <2>1, EditedRowTypes
  <2>3. [pc |-> "write", id |-> j, row |-> row] \in CliState
    BY <2>2 DEF CliState
  <2> QED
    BY <1>1, <1>4, <2>1, <2>3 DEF EditReads, CliStep
<1>5. CASE RunChecks(c)
  <2>1. [pc |-> "insert", id |-> cli[c].id, at |-> cli[c].at] \in CliState
    BY <1>5 DEF RunChecks, CliState, IdleCli
  <2> QED
    BY <1>1, <1>2, <1>5, <2>1 DEF RunChecks, CliStep
<1>6. CASE RunCancelsPending(c)
  <2>1. /\ [pc |-> "insert", id |-> cli[c].id, at |-> cli[c].at] \in CliState
        /\ cli[c].id \in Jobs
    BY <1>6 DEF RunCancelsPending, CliState, IdleCli
  <2> QED
    BY <1>1, <1>6, <2>1, RunTableTypes DEF RunCancelsPending, CliStep
<1>7. CASE RunInserts(c)
  <2>1. cli[c].id \in Jobs /\ cli[c].at \in Nat /\ NoTime \in Time
    BY <1>7 DEF RunInserts, CliState, IdleCli, Time
  <2>2. runs' \in [RunIds -> RunRow] /\ nextRun' \in 1..(MaxRuns + 1)
    BY <1>7, <2>1, InsertTypes DEF RunInserts
  <2> QED
    BY <1>1, <1>2, <1>7, <2>2 DEF RunInserts, CliStep
<1>8. CASE EditWrites(c)
  <2>1. cli[c].id \in Jobs /\ cli[c].row \in JobRow
    BY <1>8 DEF EditWrites, CliState, IdleCli
  <2> QED
    BY <1>1, <1>2, <1>8, <2>1, JobTableTypes DEF EditWrites, CliStep
<1>9. CASE CliAborts(c)
  BY <1>1, <1>2, <1>9 DEF CliAborts, CliStep
<1> QED
  BY <1>3, <1>4, <1>5, <1>6, <1>7, <1>8, <1>9 DEF CliProcessStep

\* job add and job delete, the life of the daemon, and the clock.
LEMMA TypeOtherStep ==
    ASSUME TypeInv, JobRowStep \/ LifeStep \/ UNCHANGED vars
    PROVE  TypeInv'
<1> USE DEF TypeInv, TypeOK, DueInTheirTime, FinalIsDecided
<1>1. ASSUME NEW j \in Jobs, DeleteJob(j)
      PROVE  TypeInv'
  BY <1>1, JobTableTypes, RunTableTypes DEF DeleteJob
<1>2. ASSUME NEW j \in Jobs, NEW row \in AddableRows, AddJob(j, row)
      PROVE  TypeInv'
  <2>1. PICK p \in Policies, k \in Kinds, e \in BOOLEAN :
            row = Recomputed([state |-> "live", policy |-> p, kind |-> k,
                              enabled |-> e, next |-> NoTime])
    BY DEF AddableRows
  <2>2. [state |-> "live", policy |-> p, kind |-> k, enabled |-> e,
         next |-> NoTime] \in JobRow
    BY DEF JobRow, Time
  <2>3. row \in JobRow
    BY <2>1, <2>2, RecomputedTypes
  <2> QED
    BY <1>2, <2>3 DEF AddJob
<1>3. CASE StartDaemon
  BY <1>3 DEF StartDaemon, LoopPcs
<1>4. CASE CancelLoop
  BY <1>4 DEF CancelLoop
<1>5. CASE Crash
  <2>1. /\ exec' \in [RunIds -> ExecPcs] /\ reason' \in [RunIds -> Reasons]
        /\ final' \in [RunIds -> Terminal \cup {"none"}]
        /\ \A r \in RunIds : exec'[r] # "persist"
    BY <1>5 DEF Crash, Active, ExecPcs, Reasons
  <2> QED
    BY <1>5, <2>1 DEF Crash, LoopPcs
<1>6. CASE AdvanceClock
  BY <1>6 DEF AdvanceClock
<1>7. CASE UNCHANGED vars
  BY <1>7
<1> QED
  BY <1>1, <1>2, <1>3, <1>4, <1>5, <1>6, <1>7 DEF JobRowStep, LifeStep

LEMMA TypeStep == TypeInv /\ [Next]_vars => TypeInv'
<1> SUFFICES ASSUME TypeInv, [Next]_vars PROVE TypeInv'
  OBVIOUS
<1>1. CASE LoopStep
  BY <1>1, TypeDueStep, TypePendingStep DEF LoopStep
<1>2. ASSUME NEW r \in RunIds, ExecutorStep(r)
      PROVE  TypeInv'
  BY <1>2, TypeExecutorStep
<1>3. ASSUME NEW c \in Clis, CliProcessStep(c)
      PROVE  TypeInv'
  BY <1>3, TypeCliStep
<1>4. CASE JobRowStep \/ LifeStep \/ UNCHANGED vars
  BY <1>4, TypeOtherStep
<1> QED
  BY <1>1, <1>2, <1>3, <1>4 DEF Next

\* Every variable stays in its type, whatever the bounds.
THEOREM TypeCorrect == Spec => []TypeOK
<1>1. Spec => []TypeInv
  BY TypeInit, TypeStep, PTL DEF Spec
<1>2. TypeInv => TypeOK
  BY DEF TypeInv
<1> QED
  BY <1>1, <1>2, PTL
-----------------------------------------------------------------------------
(* The safety invariant.                                                   *)

Inv == TypeInv /\ SafetyInv

\* What each statement on job_runs does to a row.
LEMMA RunRowEffects ==
    ASSUME NEW t \in [RunIds -> RunRow], NEW r \in RunIds, NEW q \in RunIds
    PROVE  /\ ClaimRun(t, r)[q].st = t[q].st
           /\ ClaimRun(t, r)[q].job = t[q].job
           /\ MarkRunRunning(t, r)[q].st = (IF q = r THEN "running" ELSE t[q].st)
           /\ MarkRunRunning(t, r)[q].job = t[q].job
           /\ \A s : /\ MarkRunFinished(t, r, s)[q].st = (IF q = r THEN s ELSE t[q].st)
                     /\ MarkRunFinished(t, r, s)[q].job = t[q].job
           /\ \A j, s, n :
                 /\ InsertRun(t, r, j, s, n)[q].st = (IF q = r THEN "pending" ELSE t[q].st)
                 /\ InsertRun(t, r, j, s, n)[q].job = (IF q = r THEN j ELSE t[q].job)
  BY DEF ClaimRun, MarkRunRunning, MarkRunFinished, InsertRun, RunRow

LEMMA RunTableEffects ==
    ASSUME NEW t \in [RunIds -> RunRow], NEW j, NEW q \in RunIds
    PROVE  /\ CancelPendingByJob(t, j)[q].job = t[q].job
           /\ CancelPendingByJob(t, j)[q].st =
                (IF t[q].job = j /\ t[q].st = "pending" THEN "canceled" ELSE t[q].st)
           /\ CascadeDelete(t, j)[q].job = t[q].job
           /\ CascadeDelete(t, j)[q].st =
                (IF t[q].job = j /\ t[q].st # "absent" THEN "deleted" ELSE t[q].st)
  BY DEF CancelPendingByJob, CascadeDelete, RunRow

LEMMA SafetyInit == Init => SafetyInv
  BY MaxRunsAssumption
  DEF Init, SafetyInv, RowsFollowIds, StartedRows, LoopHoldsCur, BatchIsQueued,
      DownIsDown, SingleLive, Active, AbsentRun, RunIds
\* An INSERT gives its row to an absent id and leaves every other row alone.
RunsOnlyGrow ==
    \A r \in RunIds : runs[r].st # "absent" =>
        runs'[r].st = runs[r].st /\ runs'[r].job = runs[r].job

LEMMA InsertKeepsRows ==
    ASSUME Inv, NEW j \in Jobs, NEW s \in Time, NEW q \in Nat,
           CanInsert(j), Insert(j, s, q), UNCHANGED <<exec, reason>>
    PROVE  RowsFollowIds' /\ StartedRows' /\ SingleLive' /\ RunsOnlyGrow
<1> USE DEF Inv, TypeInv, TypeOK, SafetyInv, RowsFollowIds, StartedRows, SingleLive, Active
<1>1. nextRun \in RunIds
  BY DEF CanInsert, RunIds
<1>2. \A r \in RunIds : r < nextRun' <=> r < nextRun \/ r = nextRun
  BY DEF Insert, RunIds
<1>3. \A r \in RunIds :
         /\ runs'[r].st = IF r = nextRun THEN "pending" ELSE runs[r].st
         /\ runs'[r].job = IF r = nextRun THEN j ELSE runs[r].job
  BY <1>1, RunRowEffects DEF Insert
<1>4. runs[nextRun].st = "absent" /\ exec[nextRun] = "none"
  BY <1>1
<1>5. RowsFollowIds'
  BY <1>2, <1>3
<1>6. StartedRows'
  BY <1>3, <1>4
<1>7. SingleLive'
  BY <1>3, <1>4
<1>8. RunsOnlyGrow
  BY <1>3, <1>4 DEF RunsOnlyGrow
<1> QED
  BY <1>5, <1>6, <1>7, <1>8

\* Steps of a tick before the runs are started: they queue and cancel runs.
LEMMA SafetyDueStep ==
    ASSUME Inv, NEW c \in due, DueStep(c)
    PROVE  SafetyInv'
<1> USE DEF SafetyInv, RowsFollowIds, StartedRows, LoopHoldsCur, BatchIsQueued,
            DownIsDown, SingleLive, Active
<1>0. c.id \in Jobs /\ c.row \in JobRow /\ c.row.next \in Time /\ tick \in Nat
  BY DEF Inv, TypeInv, TypeOK, DueInTheirTime, JobCopy, Time
<1>1. CASE CheckUnfinished(c)
  BY <1>1 DEF Inv, CheckUnfinished, SkipDue
<1>2. CASE CancelPending(c)
  BY <1>0, <1>2, RunTableEffects DEF Inv, TypeInv, TypeOK, CancelPending, SkipDue
<1>3. CASE EnqueueScheduled(c)
  <2>1. CASE UNCHANGED <<runs, nextRun>>
    BY <1>3, <2>1 DEF Inv, EnqueueScheduled, SkipDue
  <2>2. CASE CanInsert(c.id) /\ Insert(c.id, c.row.next, tick)
    <3>1. UNCHANGED <<exec, reason>>
      BY <1>3 DEF EnqueueScheduled
    <3>2. RowsFollowIds' /\ StartedRows' /\ SingleLive' /\ RunsOnlyGrow
      BY <1>0, <2>2, <3>1, InsertKeepsRows
    <3>5. UNCHANGED <<exec, reason, cur, victims, pend, daemon>>
      BY <1>3 DEF EnqueueScheduled
    <3>6. pc' \in {"advance", "due"} /\ daemon # "down"
      BY <1>3 DEF Inv, EnqueueScheduled, SkipDue, CallWorks, CallFails
    <3>7. BatchIsQueued'
      BY <3>2, <3>5 DEF Inv, TypeInv, TypeOK, RunsOnlyGrow
    <3> QED
      BY <3>2, <3>5, <3>6, <3>7
  <2> QED
    BY <1>3, <2>1, <2>2 DEF EnqueueScheduled
<1>4. CASE AdvanceSchedule(c)
  BY <1>4 DEF Inv, AdvanceSchedule, SkipDue
<1> QED
  BY <1>1, <1>2, <1>3, <1>4 DEF DueStep

LEMMA SafetyPendingStep ==
    ASSUME Inv,
           \/ ListDueJobs \/ ListPending
           \/ \E r \in pend : PrepareRunStart(r)
           \/ \E r \in victims : CancelVictim(r)
           \/ TryClaimPending \/ MarkRunning \/ StartRunExecution
           \/ SeeCancellation \/ LoopReturns
    PROVE  SafetyInv'
<1> USE DEF Inv, TypeInv, TypeOK, SafetyInv, RowsFollowIds, StartedRows, LoopHoldsCur,
            BatchIsQueued, DownIsDown, SingleLive, Active
<1>1. CASE ListDueJobs
  BY <1>1 DEF ListDueJobs, CallWorks, CallFails
<1>2. CASE ListPending
  <2>1. pend' \subseteq Claimable(runs)
    BY <1>2 DEF ListPending, OldestPending
  <2>2. \A r \in pend' : runs[r].st # "absent"
    BY <2>1 DEF Claimable
  <2> QED
    BY <1>2, <2>2 DEF ListPending, AfterRun, CallWorks, CallFails
<1>3. ASSUME NEW r \in pend, PrepareRunStart(r)
      PROVE  SafetyInv'
  BY <1>3 DEF PrepareRunStart, SkipRun, AfterRun, ActiveOf, CallWorks, CallFails
<1>4. ASSUME NEW r \in victims, CancelVictim(r)
      PROVE  SafetyInv'
  BY <1>4 DEF CancelVictim
<1>5. CASE TryClaimPending
  <2>1. CASE runs' = ClaimRun(runs, cur) /\ CanClaim(runs, cur) /\ pc' = "mark"
               /\ UNCHANGED <<pend, cur, victims>>
    <3>1. cur \in RunIds /\ pc = "claim" /\ runs[cur].st = "pending" /\ victims = {}
      BY <1>5, <2>1 DEF TryClaimPending, CanClaim
    <3>2. \A q \in RunIds : runs'[q].st = runs[q].st
                            /\ runs'[q].job = runs[q].job
      BY <2>1, <3>1, RunRowEffects
    <3>3. UNCHANGED <<exec, reason, nextRun, daemon>> /\ daemon # "down"
      BY <1>5, <3>1 DEF TryClaimPending
    <3> QED
      BY <2>1, <3>1, <3>2, <3>3
  <2>2. CASE SkipRun(cur) /\ UNCHANGED runs
    BY <1>5, <2>2 DEF TryClaimPending, SkipRun, AfterRun
  <2> QED
    BY <1>5, <2>1, <2>2 DEF TryClaimPending
<1>6. CASE MarkRunning
  <2>1. CASE runs' = MarkRunRunning(runs, cur) /\ CanMarkRunning(runs, cur) /\ pc' = "launch"
               /\ UNCHANGED <<pend, cur, victims>>
    <3>1. cur \in RunIds /\ pc = "mark" /\ runs[cur].st = "pending" /\ victims = {}
      BY <1>6, <2>1 DEF MarkRunning, CanMarkRunning
    <3>2. runs \in [RunIds -> RunRow]
      OBVIOUS
    <3>3. \A q \in RunIds :
             /\ runs'[q].st = IF q = cur THEN "running" ELSE runs[q].st
             /\ runs'[q].job = runs[q].job
      BY ONLY <2>1, <3>1, <3>2, RunRowEffects
    <3>4. UNCHANGED <<exec, reason, nextRun, daemon>> /\ daemon # "down"
      BY <1>6, <3>1 DEF MarkRunning
    <3>5. RowsFollowIds' /\ StartedRows' /\ BatchIsQueued' /\ DownIsDown'
      BY <2>1, <3>1, <3>3, <3>4
    <3>6. SingleLive'
      BY <3>3, <3>4
    <3>7. exec[cur] = "none"
      BY <3>1
    <3>8. LoopHoldsCur'
      BY <2>1, <3>1, <3>3, <3>4, <3>7
    <3> QED
      BY <3>5, <3>6, <3>8
  <2>2. CASE SkipRun(cur) /\ UNCHANGED runs
    BY <1>6, <2>2 DEF MarkRunning, SkipRun, AfterRun
  <2> QED
    BY <1>6, <2>1, <2>2 DEF MarkRunning
<1>7. CASE StartRunExecution
  BY <1>7 DEF StartRunExecution, SkipRun, AfterRun
<1>8. CASE SeeCancellation
  BY <1>8 DEF SeeCancellation
<1>9. CASE LoopReturns
  BY <1>9 DEF LoopReturns
<1> QED
  BY <1>1, <1>2, <1>3, <1>4, <1>5, <1>6, <1>7, <1>8, <1>9
LEMMA SafetyExecutorStep ==
    ASSUME Inv, NEW r \in RunIds, ExecutorStep(r)
    PROVE  SafetyInv'
<1> USE DEF Inv, TypeInv, TypeOK, SafetyInv, RowsFollowIds, StartedRows, LoopHoldsCur,
            BatchIsQueued, DownIsDown, SingleLive, Active
<1>1. CASE ExecutionEnds(r)
  BY <1>1 DEF ExecutionEnds
<1>2. CASE MarkFinished(r)
  <2>1. CASE UNCHANGED runs
    BY <1>2, <2>1 DEF MarkFinished
  <2>2. CASE runs' = MarkRunFinished(runs, r, final[r])
    <3>1. final[r] \in Terminal
      BY <1>2 DEF MarkFinished, FinalIsDecided
    <3>2. \A q \in RunIds :
             /\ runs'[q].st = IF q = r THEN final[r] ELSE runs[q].st
             /\ runs'[q].job = runs[q].job
      BY <2>2, RunRowEffects
    <3>3. exec[r] = "persist" /\ exec' = [exec EXCEPT ![r] = "closing"]
      BY <1>2 DEF MarkFinished
    <3>4. UNCHANGED <<reason, nextRun, pc, cur, victims, pend, daemon>>
      BY <1>2 DEF MarkFinished
    <3> QED
      BY <3>1, <3>2, <3>3, <3>4 DEF Terminal
  <2> QED
    BY <1>2, <2>1, <2>2 DEF MarkFinished
<1>3. CASE FinishActiveRun(r)
  BY <1>3 DEF FinishActiveRun
<1> QED
  BY <1>1, <1>2, <1>3 DEF ExecutorStep, PersistStep
LEMMA SafetyCliStep ==
    ASSUME Inv, NEW c \in Clis, CliProcessStep(c)
    PROVE  SafetyInv'
<1> USE DEF SafetyInv, RowsFollowIds, StartedRows, LoopHoldsCur, BatchIsQueued,
            DownIsDown, SingleLive, Active
<1>0. UNCHANGED <<lifeVars, loopVars, execVars>>
  BY DEF CliProcessStep, RunReads, EditReads, RunChecks, RunCancelsPending, RunInserts,
         EditWrites, CliAborts, CliStep
<1>1. CASE UNCHANGED <<runs, nextRun>>
  BY <1>0, <1>1 DEF Inv
<1>2. CASE RunCancelsPending(c)
  <2>1. UNCHANGED nextRun /\ runs' = CancelPendingByJob(runs, cli[c].id)
    BY <1>2 DEF RunCancelsPending
  <2> QED
    BY <1>0, <2>1, RunTableEffects DEF Inv, TypeInv, TypeOK
<1>3. CASE CanInsert(cli[c].id) /\ Insert(cli[c].id, NoTime, cli[c].at) /\ RunInserts(c)
  <2>1. cli[c].id \in Jobs /\ cli[c].at \in Nat /\ NoTime \in Time
    BY <1>3 DEF RunInserts, CliState, IdleCli, Time, Inv, TypeInv, TypeOK
  <2>2. RowsFollowIds' /\ StartedRows' /\ SingleLive' /\ RunsOnlyGrow
    BY <1>0, <1>3, <2>1, InsertKeepsRows
  <2>3. BatchIsQueued' /\ LoopHoldsCur' /\ DownIsDown'
    BY <1>0, <2>2 DEF Inv, TypeInv, TypeOK, RunsOnlyGrow
  <2> QED
    BY <2>2, <2>3
<1> QED
  BY <1>1, <1>2, <1>3
  DEF CliProcessStep, RunReads, EditReads, RunChecks, RunInserts, EditWrites, CliAborts

LEMMA SafetyOtherStep ==
    ASSUME Inv, JobRowStep \/ LifeStep \/ UNCHANGED vars
    PROVE  SafetyInv'
<1> USE DEF Inv, TypeInv, TypeOK, SafetyInv, RowsFollowIds, StartedRows, LoopHoldsCur,
            BatchIsQueued, DownIsDown, SingleLive, Active
<1>1. ASSUME NEW j \in Jobs, DeleteJob(j)
      PROVE  SafetyInv'
  BY <1>1, RunTableEffects DEF DeleteJob
<1>2. ASSUME NEW j \in Jobs, NEW row \in AddableRows, AddJob(j, row)
      PROVE  SafetyInv'
  BY <1>2 DEF AddJob
<1>3. CASE StartDaemon
  BY <1>3 DEF StartDaemon
<1>4. CASE CancelLoop
  BY <1>4 DEF CancelLoop
<1>5. CASE Crash
  BY <1>5 DEF Crash
<1>6. CASE AdvanceClock
  BY <1>6 DEF AdvanceClock
<1>7. CASE UNCHANGED vars
  BY <1>7
<1> QED
  BY <1>1, <1>2, <1>3, <1>4, <1>5, <1>6, <1>7 DEF JobRowStep, LifeStep

LEMMA InvStep == Inv /\ [Next]_vars => Inv'
<1> SUFFICES ASSUME Inv, [Next]_vars PROVE Inv'
  OBVIOUS
<1>0. TypeInv'
  BY TypeStep DEF Inv
<1>1. CASE LoopStep
  BY <1>0, <1>1, SafetyDueStep, SafetyPendingStep DEF LoopStep, Inv
<1>2. ASSUME NEW r \in RunIds, ExecutorStep(r)
      PROVE  Inv'
  BY <1>0, <1>2, SafetyExecutorStep DEF Inv
<1>3. ASSUME NEW c \in Clis, CliProcessStep(c)
      PROVE  Inv'
  BY <1>0, <1>3, SafetyCliStep DEF Inv
<1>4. CASE JobRowStep \/ LifeStep \/ UNCHANGED vars
  BY <1>0, <1>4, SafetyOtherStep DEF Inv
<1> QED
  BY <1>1, <1>2, <1>3, <1>4 DEF Next

LEMMA InvHolds == Spec => []Inv
<1>1. Init => Inv
  BY TypeInit, SafetyInit DEF Inv
<1> QED
  BY <1>1, InvStep, PTL DEF Spec

\* What the loop, the executors and the tables rely on of each other holds between
\* any two steps, crashes, cancellations and failing calls included.
THEOREM SchedulerIsSafe == Spec => []SafetyInv
<1>1. Inv => SafetyInv
  BY DEF Inv
<1> QED
  BY <1>1, InvHolds, PTL

\* No two active runs of a job are both still to be told to stop, for any number
\* of jobs, runs, CLI processes, crashes, stops and failing calls.
THEOREM AtMostOneLiveRun == Spec => []SingleLive
<1>1. Inv => SingleLive
  BY DEF Inv, SafetyInv
<1> QED
  BY <1>1, InvHolds, PTL

-----------------------------------------------------------------------------
(***************************************************************************)
(* What holds of run rows over the steps of Scheduler: an end is an end, a *)
(* command is started once, who owns a row that says `running', no run     *)
(* outlives its job, a slot is queued once; and, of the whole, that the    *)
(* life of a run is that of RunLifecycle.                                  *)
(***************************************************************************)

\* No step takes a run out of a terminal status except to delete it.
EndsStay ==
    \A r \in RunIds : runs[r].st \in Terminal => runs'[r].st \in {runs[r].st, "deleted"}

LEMMA CancelEndsStay ==
    ASSUME Inv, NEW j, runs' = CancelPendingByJob(runs, j) \/ runs' = CascadeDelete(runs, j)
    PROVE  EndsStay
  BY RunTableEffects DEF EndsStay, Terminal, Inv, TypeInv, TypeOK

LEMMA InsertEndsStay ==
    ASSUME Inv, NEW j \in Jobs, NEW s \in Time, NEW q \in Nat,
           CanInsert(j), Insert(j, s, q), UNCHANGED <<exec, reason>>
    PROVE  EndsStay
  BY InsertKeepsRows DEF RunsOnlyGrow, EndsStay, Terminal

LEMMA StepEndsStay == Inv /\ [Next]_vars => EndsStay
<1> SUFFICES ASSUME Inv, [Next]_vars PROVE EndsStay
  OBVIOUS
<1> USE DEF Inv, TypeInv, TypeOK
<1>1. CASE UNCHANGED runs
  BY <1>1 DEF EndsStay
<1>2. ASSUME NEW c \in due, DueStep(c)
      PROVE  EndsStay
  <2>1. c.id \in Jobs /\ c.row.next \in Time /\ tick \in Nat /\ UNCHANGED <<exec, reason>>
    BY <1>2 DEF JobCopy, JobRow, Time, DueStep, CheckUnfinished, CancelPending,
                EnqueueScheduled, AdvanceSchedule
  <2> QED
    BY <1>1, <1>2, <2>1, CancelEndsStay, InsertEndsStay
    DEF DueStep, CheckUnfinished, CancelPending, EnqueueScheduled, AdvanceSchedule
<1>3. CASE TryClaimPending
  BY <1>1, <1>3, RunRowEffects DEF TryClaimPending, SafetyInv, LoopHoldsCur, EndsStay
<1>4. CASE MarkRunning
  BY <1>1, <1>4, RunRowEffects
  DEF MarkRunning, CanMarkRunning, SafetyInv, LoopHoldsCur, EndsStay, Terminal
<1>5. ASSUME NEW q \in RunIds, MarkFinished(q)
      PROVE  EndsStay
  <2>1. CASE CanMarkFinished(runs, q) /\ runs' = MarkRunFinished(runs, q, final[q])
    <3>1. runs[q].st \notin Terminal
      BY <1>5, <2>1 DEF MarkFinished, CanMarkFinished, SafetyInv, StartedRows, Terminal
    <3> QED
      BY <2>1, <3>1, RunRowEffects DEF EndsStay
  <2> QED
    BY <1>1, <1>5, <2>1 DEF MarkFinished
<1>6. ASSUME NEW c \in Clis, RunCancelsPending(c)
      PROVE  EndsStay
  BY <1>6, CancelEndsStay DEF RunCancelsPending
<1>7. ASSUME NEW c \in Clis, RunInserts(c)
      PROVE  EndsStay
  <2>1. cli[c].id \in Jobs /\ cli[c].at \in Nat /\ NoTime \in Time
    BY <1>7 DEF RunInserts, CliState, IdleCli, Time
  <2>2. UNCHANGED <<exec, reason>>
    BY <1>7 DEF RunInserts, CliStep
  <2> QED
    BY <1>1, <1>7, <2>1, <2>2, InsertEndsStay DEF RunInserts
<1>8. ASSUME NEW j \in Jobs, DeleteJob(j)
      PROVE  EndsStay
  BY <1>8, CancelEndsStay DEF DeleteJob
<1>9. CASE UNCHANGED vars
  BY <1>1, <1>9
<1>10. CASE LoopStep
  BY <1>1, <1>2, <1>3, <1>4, <1>10
  DEF LoopStep, ListDueJobs, ListPending, PrepareRunStart, CancelVictim, StartRunExecution,
      SeeCancellation, LoopReturns
<1>11. ASSUME NEW q \in RunIds, ExecutorStep(q)
       PROVE  EndsStay
  BY <1>1, <1>5, <1>11
  DEF ExecutorStep, PersistStep, ExecutionEnds, FinishActiveRun
<1>12. ASSUME NEW c \in Clis, CliProcessStep(c)
       PROVE  EndsStay
  BY <1>1, <1>6, <1>7, <1>12
  DEF CliProcessStep, RunReads, EditReads, RunChecks, EditWrites, CliAborts
<1>13. CASE JobRowStep \/ LifeStep
  BY <1>1, <1>8, <1>13
  DEF JobRowStep, LifeStep, AddJob, StartDaemon, CancelLoop, Crash, AdvanceClock
<1> QED
  BY <1>9, <1>10, <1>11, <1>12, <1>13 DEF Next

\* MarkFinished writes a status without looking at the one that is there; all the
\* same a run that has finished or was canceled keeps its status until deleted.
THEOREM EndsAreFinal == Spec => TerminalIsFinal
<1>1. Inv /\ [Next]_vars => [EndsStay]_vars
  BY StepEndsStay
<1> QED
  BY <1>1, InvHolds, PTL DEF Spec, TerminalIsFinal, EndsStay
-----------------------------------------------------------------------------
\* An executor goroutine starts on a run nobody has started, and that is running
\* or was deleted in the meantime.
FreshStart ==
    \A r \in RunIds : exec'[r] = "executing" /\ exec[r] # "executing" =>
        exec[r] = "none" /\ runs[r].st \in {"running", "deleted"}

LEMMA StepFreshStart == Inv /\ [Next]_vars => FreshStart
<1> SUFFICES ASSUME Inv, [Next]_vars PROVE FreshStart
  OBVIOUS
<1> USE DEF Inv, TypeInv, TypeOK, FreshStart
<1>1. CASE UNCHANGED exec
  BY <1>1
<1>2. CASE StartRunExecution
  BY <1>2 DEF StartRunExecution, SafetyInv, LoopHoldsCur
<1>3. ASSUME NEW q \in RunIds, ExecutorStep(q)
      PROVE  FreshStart
  BY <1>3 DEF ExecutorStep, PersistStep, ExecutionEnds, MarkFinished, FinishActiveRun
<1>4. CASE Crash
  BY <1>4 DEF Crash, Active
<1>5. CASE LoopStep
  BY <1>1, <1>2, <1>5
  DEF LoopStep, DueStep, CheckUnfinished, CancelPending, EnqueueScheduled, AdvanceSchedule,
      ListDueJobs, ListPending, PrepareRunStart, CancelVictim, TryClaimPending, MarkRunning,
      SeeCancellation, LoopReturns
<1>6. ASSUME NEW c \in Clis, CliProcessStep(c)
      PROVE  FreshStart
  BY <1>1, <1>6
  DEF CliProcessStep, RunReads, EditReads, RunChecks, RunCancelsPending, RunInserts, EditWrites,
      CliAborts, CliStep
<1>7. CASE JobRowStep \/ LifeStep
  BY <1>1, <1>4, <1>7
  DEF JobRowStep, LifeStep, AddJob, DeleteJob, StartDaemon, CancelLoop, AdvanceClock
<1>8. CASE UNCHANGED vars
  BY <1>1, <1>8
<1> QED
  BY <1>3, <1>5, <1>6, <1>7, <1>8 DEF Next

\* The command of a run is started at most once, whatever restarts and claims come
\* between, and never after the run was canceled.
THEOREM CommandsStartOnce == Spec => StartedAtMostOnce
<1>1. Inv /\ [Next]_vars => [FreshStart]_vars
  BY StepFreshStart
<1> QED
  BY <1>1, InvHolds, PTL DEF Spec, StartedAtMostOnce, FreshStart
-----------------------------------------------------------------------------
\* Whoever is at work on run r: its goroutine, or the loop about to start it.
Owned(r) == exec[r] \in {"executing", "persist"} \/ (pc = "launch" /\ cur = r)

\* A step without crash and fault makes only runs with an owner running, and no
\* owner leaves a run running.
OwnersStay ==
    crashes' = 0 /\ faults' = 0 =>
        /\ crashes = 0 /\ faults = 0
        /\ \A r \in RunIds : runs'[r].st = "running" =>
              Owned(r)' \/ (runs[r].st = "running" /\ ~Owned(r))

\* Steps that leave the owners where they are and make no run running.
LEMMA OwnersUntouched ==
    ASSUME Inv, crashes' = crashes, faults' = faults \/ faults' = faults + 1,
           pc # "launch", UNCHANGED exec,
           \A r \in RunIds : runs'[r].st = "running" => runs[r].st = "running"
    PROVE  OwnersStay
  BY DEF OwnersStay, Owned, Inv, TypeInv, TypeOK

LEMMA OwnersLoopStep == Inv /\ LoopStep => OwnersStay
<1> SUFFICES ASSUME Inv, LoopStep PROVE OwnersStay
  OBVIOUS
<1>1. ASSUME NEW c \in due, DueStep(c)
      PROVE  OwnersStay
  <2>1. c.id \in Jobs /\ c.row.next \in Time /\ tick \in Nat
    BY DEF JobCopy, JobRow, Time, Inv, TypeInv, TypeOK
  <2>2. UNCHANGED <<exec, reason, crashes>> /\ pc # "launch"
        /\ (faults' = faults \/ faults' = faults + 1)
    BY <1>1 DEF DueStep, CheckUnfinished, CancelPending, EnqueueScheduled, AdvanceSchedule,
                CallWorks, CallFails
  <2>3. CASE UNCHANGED runs
    BY <2>2, <2>3, OwnersUntouched
  <2>4. CASE runs' = CancelPendingByJob(runs, c.id)
    BY <2>2, <2>4, OwnersUntouched, RunTableEffects DEF Inv, TypeInv, TypeOK
  <2>5. CASE CanInsert(c.id) /\ Insert(c.id, c.row.next, tick)
    <3>1. nextRun \in RunIds
      BY <2>5 DEF CanInsert, RunIds, Inv, TypeInv, TypeOK
    <3>2. \A r \in RunIds : runs'[r].st = "running" => runs[r].st = "running"
      BY <2>5, <3>1, RunRowEffects DEF Insert, Inv, TypeInv, TypeOK
    <3> QED
      BY <2>2, <3>2, OwnersUntouched
  <2> QED
    BY <1>1, <2>3, <2>4, <2>5
    DEF DueStep, CheckUnfinished, CancelPending, EnqueueScheduled, AdvanceSchedule
<1>2. CASE \/ ListDueJobs \/ ListPending \/ SeeCancellation \/ LoopReturns
           \/ \E r \in pend : PrepareRunStart(r)
           \/ \E r \in victims : CancelVictim(r)
  <2>1. UNCHANGED <<exec, runs, crashes>> /\ pc # "launch"
        /\ (faults' = faults \/ faults' = faults + 1)
    BY <1>2 DEF ListDueJobs, ListPending, SeeCancellation, LoopReturns, PrepareRunStart,
                CancelVictim, CallWorks, CallFails
  <2> QED
    BY <2>1, OwnersUntouched
<1>3. CASE TryClaimPending
  <2>1. UNCHANGED <<exec, crashes>> /\ pc # "launch"
        /\ (faults' = faults \/ faults' = faults + 1)
    BY <1>3 DEF TryClaimPending, CallWorks, CallFails
  <2>2. \A r \in RunIds : runs'[r].st = "running" => runs[r].st = "running"
    BY <1>3, RunRowEffects DEF TryClaimPending, Inv, SafetyInv, LoopHoldsCur, TypeInv, TypeOK
  <2> QED
    BY <2>1, <2>2, OwnersUntouched
<1>4. CASE MarkRunning
  <2>1. UNCHANGED <<exec, crashes>> /\ pc # "launch"
        /\ (faults' = faults \/ faults' = faults + 1)
    BY <1>4 DEF MarkRunning, CallWorks, CallFails
  <2>2. CASE UNCHANGED runs
    BY <2>1, <2>2, OwnersUntouched
  <2>3. CASE runs' = MarkRunRunning(runs, cur) /\ pc' = "launch" /\ UNCHANGED cur
    <3>1. cur \in RunIds
      BY <1>4 DEF MarkRunning, Inv, SafetyInv, LoopHoldsCur
    <3>2. \A r \in RunIds : r # cur /\ runs'[r].st = "running" => runs[r].st = "running"
      BY <2>3, <3>1, RunRowEffects DEF Inv, TypeInv, TypeOK
    <3> QED
      BY <2>1, <2>3, <3>2 DEF OwnersStay, Owned, Inv, TypeInv, TypeOK
  <2> QED
    BY <1>4, <2>2, <2>3 DEF MarkRunning
<1>5. CASE StartRunExecution
  BY <1>5 DEF StartRunExecution, OwnersStay, Owned, Inv, SafetyInv, LoopHoldsCur, TypeInv, TypeOK
<1> QED
  BY <1>1, <1>2, <1>3, <1>4, <1>5 DEF LoopStep

LEMMA OwnersExecutorStep ==
    ASSUME Inv, NEW q \in RunIds, ExecutorStep(q)
    PROVE  OwnersStay
<1> USE DEF Inv, TypeInv, TypeOK, OwnersStay, Owned
<1>1. CASE ExecutionEnds(q)
  BY <1>1 DEF ExecutionEnds
<1>2. CASE MarkFinished(q)
  <2>0. faults \in Nat /\ (DetachedCallFails => faults' # 0)
    BY DEF DetachedCallFails
  <2>1. \/ faults' # 0
        \/ CanMarkFinished(runs, q) /\ runs' = MarkRunFinished(runs, q, final[q])
        \/ ~CanMarkFinished(runs, q) /\ UNCHANGED runs
    BY ONLY <1>2, <2>0 DEF MarkFinished
  <2>2. final[q] \in Terminal
    BY <1>2 DEF MarkFinished, FinalIsDecided
  <2>3. /\ exec' = [exec EXCEPT ![q] = "closing"]
        /\ UNCHANGED <<pc, cur, crashes>>
        /\ faults' = 0 => faults = 0
    BY <1>2 DEF MarkFinished, DetachedCallWorks, DetachedCallFails
  <2>4. CASE CanMarkFinished(runs, q) /\ runs' = MarkRunFinished(runs, q, final[q])
    <3>1. \A r \in RunIds : runs'[r].st = IF r = q THEN final[q] ELSE runs[r].st
      BY <2>4, RunRowEffects
    <3> QED
      BY <2>2, <2>3, <3>1 DEF Terminal
  <2>5. CASE ~CanMarkFinished(runs, q) /\ UNCHANGED runs
    BY <2>3, <2>5 DEF CanMarkFinished
  <2>6. CASE faults' # 0
    BY <2>6
  <2> QED
    BY <2>1, <2>4, <2>5, <2>6
<1>3. CASE FinishActiveRun(q)
  BY <1>3 DEF FinishActiveRun
<1> QED
  BY <1>1, <1>2, <1>3 DEF ExecutorStep, PersistStep

LEMMA OwnersOtherStep ==
    ASSUME Inv, (\E c \in Clis : CliProcessStep(c)) \/ JobRowStep \/ LifeStep \/ UNCHANGED vars
    PROVE  OwnersStay
<1> USE DEF OwnersStay, Owned
<1>1. ASSUME NEW c \in Clis, CliProcessStep(c)
      PROVE  OwnersStay
  <2>1. UNCHANGED <<exec, pc, cur, crashes, faults>>
    BY <1>1 DEF CliProcessStep, RunReads, EditReads, RunChecks, RunCancelsPending, RunInserts,
                EditWrites, CliAborts, CliStep
  <2>2. CASE UNCHANGED runs
    BY <2>1, <2>2
  <2>3. CASE RunCancelsPending(c)
    BY <2>1, <2>3, RunTableEffects DEF RunCancelsPending, Inv, TypeInv, TypeOK
  <2>4. CASE CanInsert(cli[c].id) /\ Insert(cli[c].id, NoTime, cli[c].at)
    <3>1. nextRun \in RunIds
      BY <2>4 DEF CanInsert, RunIds, Inv, TypeInv, TypeOK
    <3>2. \A r \in RunIds : runs'[r].st = "running" => runs[r].st = "running"
      BY <2>4, <3>1, RunRowEffects DEF Insert, Inv, TypeInv, TypeOK
    <3> QED
      BY <2>1, <3>2
  <2> QED
    BY <1>1, <2>2, <2>3, <2>4
    DEF CliProcessStep, RunReads, EditReads, RunChecks, RunInserts, EditWrites, CliAborts
<1>2. ASSUME NEW j \in Jobs, DeleteJob(j)
      PROVE  OwnersStay
  BY <1>2, RunTableEffects DEF DeleteJob, Inv, TypeInv, TypeOK
<1>3. CASE Crash
  BY <1>3 DEF Crash, Inv, TypeInv, TypeOK
<1>4. CASE StartDaemon
  BY <1>4 DEF StartDaemon, Inv, SafetyInv, DownIsDown
<1>5. CASE CancelLoop \/ AdvanceClock \/ UNCHANGED vars
  BY <1>5 DEF CancelLoop, AdvanceClock
<1>6. ASSUME NEW j \in Jobs, NEW row \in AddableRows, AddJob(j, row)
      PROVE  OwnersStay
  BY <1>6 DEF AddJob
<1> QED
  BY <1>1, <1>2, <1>3, <1>4, <1>5, <1>6 DEF JobRowStep, LifeStep

\* Without crash and failing call a row that says `running' always has someone who
\* will finish it, clean stops and restarts included.
THEOREM RunningMeansOwned == Spec => []RunningRowsAreOwned
<1>1. Init => RunningRowsAreOwned
  BY DEF Init, RunningRowsAreOwned, AbsentRun
<1>2. Inv /\ [Next]_vars => OwnersStay
  BY OwnersLoopStep, OwnersExecutorStep, OwnersOtherStep DEF Next
<1>3. RunningRowsAreOwned /\ OwnersStay => RunningRowsAreOwned'
  BY DEF RunningRowsAreOwned, OwnersStay, Owned
<1> QED
  BY <1>1, <1>2, <1>3, InvHolds, PTL DEF Spec

-----------------------------------------------------------------------------
(* Rows of job_runs belong to jobs that exist.  What the loop and the CLI  *)
(* hold of a job is a copy of a row that was there: writing it back never  *)
(* brings a deleted one back, and never takes a living one away.           *)

CopiesAreLive ==
    /\ \A c \in due : c.row.state = "live"
    /\ \A c \in Clis : cli[c].pc = "write" => cli[c].row.state = "live"

\* No job goes, and every run that is left was there before, with its job, or is
\* one that was just queued for a job that is there.
HomesStay ==
    /\ \A j \in Jobs : IsLive(jobs, j) => IsLive(jobs', j)
    /\ \A r \in RunIds : runs'[r].st \notin {"absent", "deleted"} =>
          \/ runs[r].st \notin {"absent", "deleted"} /\ runs'[r].job = runs[r].job
          \/ IsLive(jobs', runs'[r].job)

LEMMA HomesKept ==
    ASSUME Inv, NoRunOutlivesItsJob, HomesStay
    PROVE  NoRunOutlivesItsJob'
<1> SUFFICES ASSUME NEW r \in RunIds, runs'[r].st \notin {"absent", "deleted"}
             PROVE  IsLive(jobs', runs'[r].job)
  BY DEF NoRunOutlivesItsJob
<1>1. CASE runs[r].st \notin {"absent", "deleted"} /\ runs'[r].job = runs[r].job
  <2>1. runs[r].job \in Jobs
    BY <1>1 DEF Inv, SafetyInv, RowsFollowIds
  <2>2. IsLive(jobs, runs[r].job)
    BY <1>1 DEF NoRunOutlivesItsJob
  <2> QED
    BY <1>1, <2>1, <2>2 DEF HomesStay
<1> QED
  BY <1>1 DEF HomesStay

\* A run that is queued belongs to a job that is there.
LEMMA HomeOfQueued ==
    ASSUME Inv, NEW j \in Jobs, NEW s \in Time, NEW q \in Nat,
           CanInsert(j), Insert(j, s, q), UNCHANGED jobs
    PROVE  HomesStay
<1>1. nextRun \in RunIds /\ runs \in [RunIds -> RunRow]
  BY DEF CanInsert, RunIds, Inv, TypeInv, TypeOK
<1>2. \A r \in RunIds :
         /\ runs'[r].st = IF r = nextRun THEN "pending" ELSE runs[r].st
         /\ runs'[r].job = IF r = nextRun THEN j ELSE runs[r].job
  BY <1>1, RunRowEffects DEF Insert
<1> QED
  BY <1>2 DEF HomesStay, CanInsert, IsLive

\* Statements on one run, or on the runs of a job, that end or advance it.
LEMMA HomeOfAdvanced ==
    ASSUME Inv, UNCHANGED jobs,
           \/ UNCHANGED runs
           \/ \E j : runs' = CancelPendingByJob(runs, j)
           \/ \E r \in RunIds : runs' = ClaimRun(runs, r)
           \/ \E r \in RunIds : CanMarkRunning(runs, r) /\ runs' = MarkRunRunning(runs, r)
           \/ \E r \in RunIds, s \in Terminal :
                 CanMarkFinished(runs, r) /\ runs' = MarkRunFinished(runs, r, s)
    PROVE  HomesStay
<1> USE DEF HomesStay, Inv, TypeInv, TypeOK
<1>1. CASE UNCHANGED runs
  BY <1>1
<1>2. ASSUME NEW j, runs' = CancelPendingByJob(runs, j)
      PROVE  HomesStay
  BY <1>2, RunTableEffects
<1>3. ASSUME NEW r \in RunIds, runs' = ClaimRun(runs, r)
      PROVE  HomesStay
  BY <1>3, RunRowEffects
<1>4. ASSUME NEW r \in RunIds, CanMarkRunning(runs, r), runs' = MarkRunRunning(runs, r)
      PROVE  HomesStay
  BY <1>4, RunRowEffects DEF CanMarkRunning
<1>5. ASSUME NEW r \in RunIds, NEW s \in Terminal,
             CanMarkFinished(runs, r), runs' = MarkRunFinished(runs, r, s)
      PROVE  HomesStay
  BY <1>5, RunRowEffects DEF CanMarkFinished
<1> QED
  BY <1>1, <1>2, <1>3, <1>4, <1>5

\* Statements on one row of jobs that write back a row that was there.
LEMMA HomeOfEdited ==
    ASSUME Inv, UNCHANGED runs, NEW j \in Jobs,
           \/ \E row \in JobRow : row.state = "live" /\ jobs' = JobUpdate(jobs, j, row)
           \/ \E n : jobs' = UpdateNextRun(jobs, j, n)
    PROVE  HomesStay
  BY DEF HomesStay, JobUpdate, UpdateNextRun, IsLive, JobRow, Inv, TypeInv, TypeOK

LEMMA HomeDueStep ==
    ASSUME Inv, CopiesAreLive, NEW c \in due, DueStep(c)
    PROVE  HomesStay
<1>1. c.id \in Jobs /\ c.row \in JobRow /\ c.row.next \in Time /\ tick \in Nat
  BY DEF JobCopy, JobRow, Time, Inv, TypeInv, TypeOK
<1>2. CASE CheckUnfinished(c) \/ CancelPending(c)
  BY <1>2, HomeOfAdvanced DEF CheckUnfinished, CancelPending
<1>3. CASE EnqueueScheduled(c)
  BY <1>1, <1>3, HomeOfQueued, HomeOfAdvanced DEF EnqueueScheduled
<1>4. CASE AdvanceSchedule(c)
  <2>1. PICK row : row = [c.row EXCEPT !.enabled = FALSE, !.next = NoTime]
    OBVIOUS
  <2>2. row \in JobRow /\ row.state = "live"
    BY <1>1, <2>1 DEF CopiesAreLive, JobRow, Time
  <2>3. \/ jobs' = JobUpdate(jobs, c.id, row)
        \/ \E n : jobs' = UpdateNextRun(jobs, c.id, n)
        \/ UNCHANGED jobs
    BY <1>4, <2>1 DEF AdvanceSchedule
  <2>4. UNCHANGED runs
    BY <1>4 DEF AdvanceSchedule
  <2> QED
    BY <1>1, <2>2, <2>3, <2>4, HomeOfEdited, HomeOfAdvanced
<1> QED
  BY <1>2, <1>3, <1>4 DEF DueStep

LEMMA HomeLoopStep ==
    ASSUME Inv, CopiesAreLive, LoopStep
    PROVE  HomesStay
<1>1. ASSUME NEW c \in due, DueStep(c)
      PROVE  HomesStay
  BY <1>1, HomeDueStep
<1>2. CASE TryClaimPending \/ MarkRunning
  <2>1. cur \in RunIds /\ UNCHANGED jobs
    BY <1>2 DEF TryClaimPending, MarkRunning, Inv, SafetyInv, LoopHoldsCur
  <2> QED
    BY <1>2, <2>1, HomeOfAdvanced DEF TryClaimPending, MarkRunning
<1>3. CASE \/ ListDueJobs \/ ListPending \/ StartRunExecution \/ SeeCancellation \/ LoopReturns
           \/ \E r \in pend : PrepareRunStart(r)
           \/ \E r \in victims : CancelVictim(r)
  BY <1>3, HomeOfAdvanced
  DEF ListDueJobs, ListPending, StartRunExecution, SeeCancellation, LoopReturns, PrepareRunStart,
      CancelVictim
<1> QED
  BY <1>1, <1>2, <1>3 DEF LoopStep

LEMMA HomeExecutorStep ==
    ASSUME Inv, NEW r \in RunIds, ExecutorStep(r)
    PROVE  HomesStay
<1>1. CASE MarkFinished(r)
  <2>1. final[r] \in Terminal
    BY <1>1 DEF MarkFinished, FinalIsDecided, Inv, TypeInv
  <2> QED
    BY <1>1, <2>1, HomeOfAdvanced DEF MarkFinished
<1>2. CASE ExecutionEnds(r) \/ FinishActiveRun(r)
  BY <1>2, HomeOfAdvanced DEF ExecutionEnds, FinishActiveRun
<1> QED
  BY <1>1, <1>2 DEF ExecutorStep, PersistStep

LEMMA HomeCliStep ==
    ASSUME Inv, CopiesAreLive, NEW c \in Clis, CliProcessStep(c)
    PROVE  HomesStay
<1>1. CASE RunInserts(c)
  <2>1. cli[c].id \in Jobs /\ cli[c].at \in Nat /\ NoTime \in Time
    BY <1>1 DEF RunInserts, CliState, IdleCli, Time, Inv, TypeInv, TypeOK
  <2> QED
    BY <1>1, <2>1, HomeOfQueued, HomeOfAdvanced DEF RunInserts
<1>2. CASE EditWrites(c)
  <2>1. cli[c].id \in Jobs /\ cli[c].row \in JobRow /\ cli[c].row.state = "live"
    BY <1>2 DEF EditWrites, CliState, IdleCli, CopiesAreLive, Inv, TypeInv, TypeOK
  <2> QED
    BY <1>2, <2>1, HomeOfEdited DEF EditWrites
<1>3. CASE RunCancelsPending(c)
  BY <1>3, HomeOfAdvanced DEF RunCancelsPending
<1>4. CASE RunChecks(c) \/ CliAborts(c) \/ \E j \in Jobs : RunReads(c, j) \/ EditReads(c, j)
  BY <1>4, HomeOfAdvanced DEF RunChecks, CliAborts, RunReads, EditReads
<1> QED
  BY <1>1, <1>2, <1>3, <1>4 DEF CliProcessStep

\* A deleted job takes its runs along.
LEMMA HomeOfDeleted ==
    ASSUME Inv, NoRunOutlivesItsJob, NEW j \in Jobs, DeleteJob(j)
    PROVE  NoRunOutlivesItsJob'
<1> SUFFICES ASSUME NEW r \in RunIds, runs'[r].st \notin {"absent", "deleted"}
             PROVE  IsLive(jobs', runs'[r].job)
  BY DEF NoRunOutlivesItsJob
<1>1. runs[r].job # j /\ runs'[r].job = runs[r].job /\ runs[r].st \notin {"absent", "deleted"}
  BY RunTableEffects DEF DeleteJob, Inv, TypeInv, TypeOK
<1>2. IsLive(jobs, runs[r].job) /\ runs[r].job \in Jobs
  BY <1>1 DEF NoRunOutlivesItsJob, Inv, SafetyInv, RowsFollowIds
<1> QED
  BY <1>1, <1>2 DEF DeleteJob, DeleteByName, IsLive, Inv, TypeInv, TypeOK

LEMMA HomeNext == Inv /\ CopiesAreLive /\ NoRunOutlivesItsJob /\ [Next]_vars => NoRunOutlivesItsJob'
<1> SUFFICES ASSUME Inv, CopiesAreLive, NoRunOutlivesItsJob, [Next]_vars
             PROVE  NoRunOutlivesItsJob'
  OBVIOUS
<1>1. ASSUME NEW j \in Jobs, DeleteJob(j)
      PROVE  NoRunOutlivesItsJob'
  BY <1>1, HomeOfDeleted
<1>2. ASSUME NEW j \in Jobs, NEW row \in AddableRows, AddJob(j, row)
      PROVE  HomesStay
  BY <1>2 DEF AddJob, HomesStay, IsLive, Inv, TypeInv, TypeOK
<1>3. CASE LifeStep \/ UNCHANGED vars
  BY <1>3, HomeOfAdvanced, HomesKept DEF LifeStep, StartDaemon, CancelLoop, Crash, AdvanceClock
<1> QED
  BY <1>1, <1>2, <1>3, HomeLoopStep, HomeExecutorStep, HomeCliStep, HomesKept DEF Next, JobRowStep

LEMMA EditedRowsAreLive ==
    ASSUME Inv, NEW j \in Jobs, IsLive(jobs, j), NEW row \in EditedRows(jobs[j])
    PROVE  row.state = "live"
  BY DEF EditedRows, Recomputed, IsLive, JobRow, Inv, TypeInv, TypeOK

LEMMA CopiesNext == Inv /\ CopiesAreLive /\ [Next]_vars => CopiesAreLive'
<1> SUFFICES ASSUME Inv, CopiesAreLive, [Next]_vars PROVE CopiesAreLive'
  OBVIOUS
<1>1. \A d \in due' : d.row.state = "live"
  <2>1. CASE ListDueJobs
    BY <2>1 DEF ListDueJobs, ListDue
  <2>2. CASE due' \subseteq due
    BY <2>2 DEF CopiesAreLive
  <2>3. CASE LoopStep
    BY <2>1, <2>2, <2>3
    DEF LoopStep, DueStep, CheckUnfinished, CancelPending, EnqueueScheduled, AdvanceSchedule, SkipDue,
        ListPending, PrepareRunStart, CancelVictim, TryClaimPending, MarkRunning, StartRunExecution,
        SeeCancellation, LoopReturns
  <2>4. ASSUME NEW r \in RunIds, ExecutorStep(r)
        PROVE  UNCHANGED due
    BY <2>4 DEF ExecutorStep, PersistStep, ExecutionEnds, MarkFinished, FinishActiveRun
  <2>5. ASSUME NEW c \in Clis, CliProcessStep(c)
        PROVE  UNCHANGED due
    BY <2>5 DEF CliProcessStep, RunReads, EditReads, RunChecks, RunCancelsPending, RunInserts,
                EditWrites, CliAborts, CliStep
  <2>6. CASE JobRowStep \/ LifeStep \/ UNCHANGED vars
    BY <2>2, <2>6
    DEF JobRowStep, LifeStep, AddJob, DeleteJob, StartDaemon, CancelLoop, Crash, AdvanceClock
  <2> QED
    BY <2>2, <2>3, <2>4, <2>5, <2>6 DEF Next
<1>2. \A c \in Clis : cli'[c].pc = "write" => cli'[c].row.state = "live"
  <2>1. CASE UNCHANGED cli
    BY <2>1 DEF CopiesAreLive
  <2>2. ASSUME NEW c \in Clis, NEW step, step.pc = "write" => step.row.state = "live",
               CliStep(c, step)
        PROVE  \A d \in Clis : cli'[d].pc = "write" => cli'[d].row.state = "live"
    BY <2>2 DEF CliStep, CopiesAreLive, Inv, TypeInv, TypeOK
  <2>3. ASSUME NEW c \in Clis, NEW j \in Jobs, EditReads(c, j)
        PROVE  \A d \in Clis : cli'[d].pc = "write" => cli'[d].row.state = "live"
    <3>1. PICK row \in EditedRows(jobs[j]) : CliStep(c, [pc |-> "write", id |-> j, row |-> row])
      BY <2>3 DEF EditReads
    <3>2. row.state = "live"
      BY <2>3, EditedRowsAreLive DEF EditReads
    <3> QED
      BY <2>2, <3>1, <3>2
  <2>4. ASSUME NEW c \in Clis, CliProcessStep(c)
        PROVE  \A d \in Clis : cli'[d].pc = "write" => cli'[d].row.state = "live"
    <3>1. CASE \E j \in Jobs : EditReads(c, j)
      BY <2>3, <3>1
    <3>2. CASE \/ \E j \in Jobs : RunReads(c, j)
               \/ RunChecks(c) \/ RunCancelsPending(c) \/ RunInserts(c) \/ EditWrites(c) \/ CliAborts(c)
      <4>1. PICK step : step.pc # "write" /\ CliStep(c, step)
        BY <3>2 DEF RunReads, RunChecks, RunCancelsPending, RunInserts, EditWrites, CliAborts, IdleCli
      <4> QED
        BY <2>2, <4>1
    <3> QED
      BY <2>4, <3>1, <3>2 DEF CliProcessStep
  <2>5. CASE LoopStep
    BY <2>1, <2>5
    DEF LoopStep, DueStep, CheckUnfinished, CancelPending, EnqueueScheduled, AdvanceSchedule,
        ListDueJobs, ListPending, PrepareRunStart, CancelVictim, TryClaimPending, MarkRunning,
        StartRunExecution, SeeCancellation, LoopReturns
  <2>6. ASSUME NEW r \in RunIds, ExecutorStep(r)
        PROVE  UNCHANGED cli
    BY <2>6 DEF ExecutorStep, PersistStep, ExecutionEnds, MarkFinished, FinishActiveRun
  <2>7. CASE JobRowStep \/ LifeStep \/ UNCHANGED vars
    BY <2>1, <2>7
    DEF JobRowStep, LifeStep, AddJob, DeleteJob, StartDaemon, CancelLoop, Crash, AdvanceClock
  <2> QED
    BY <2>1, <2>4, <2>5, <2>6, <2>7 DEF Next
<1> QED
  BY <1>1, <1>2 DEF CopiesAreLive

\* A run row never survives its job, whatever queues, starts, ends or edits are
\* under way when the job is deleted, crashes and failing calls included.
THEOREM RunsDieWithTheirJob == Spec => []NoRunOutlivesItsJob
<1>1. Init => NoRunOutlivesItsJob /\ CopiesAreLive
  BY DEF Init, NoRunOutlivesItsJob, CopiesAreLive, AbsentRun, IdleCli
<1> QED
  BY <1>1, HomeNext, CopiesNext, InvHolds, PTL DEF Spec

-----------------------------------------------------------------------------
(* A slot is queued once.  The loop INSERTs the run of a due job and only  *)
(* then moves next_run_at on; in between the slot is still due, and the    *)
(* copy the loop works from may be older than a pause.  What keeps a slot  *)
(* from being queued again is that the runs of a job are behind both its   *)
(* row, as long as that may come due, and the copy of it the loop holds.   *)

\* No command writes a row that is enabled.
NothingRevived == CliOps \cap {"update", "reschedule", "resume"} = {}

WritesDisable == \A c \in Clis : cli[c].pc = "write" => ~cli[c].row.enabled

Undisturbed == stops = 0 /\ crashes = 0 /\ faults = 0

\* The job the loop is at, between the INSERT for its slot and the advance.
Advancing(c) == pc = "advance" /\ DueFirst(c, due)

OneCopyEach == \A c, d \in due : c.id = d.id => c = d

\* A slot that has been queued is behind the row of its job ...
BehindRow(j, slot) ==
    jobs[j].enabled /\ jobs[j].next # NoTime =>
        \/ slot < jobs[j].next
        \/ \E c \in due : c.id = j /\ Advancing(c) /\ slot = c.row.next

\* ... and behind the copy of it that the loop holds.
BehindCopy(j, slot) ==
    \A c \in due : c.id = j =>
        \/ slot < c.row.next
        \/ Advancing(c) /\ slot = c.row.next

Queued(j, slot) == \E r \in RunIds : runs[r].job = j /\ runs[r].slot = slot

SlotsArePast ==
    \A j \in Jobs, slot \in Nat : Queued(j, slot) =>
        /\ jobs[j].state = "gone" \/ (IsLive(jobs, j) /\ BehindRow(j, slot))
        /\ BehindCopy(j, slot)

\* SlotQueuedOnce without its premise.
SlotsDiffer ==
    \A r, s \in RunIds :
        /\ runs[r].job = runs[s].job /\ runs[r].job # 0
        /\ runs[r].slot = runs[s].slot /\ runs[r].slot # NoTime
        => r = s

SlotParts == daemon # "stopping" /\ OneCopyEach /\ SlotsArePast /\ SlotsDiffer

SlotInv == WritesDisable /\ (Undisturbed => SlotParts)

LEMMA SlotEffects ==
    ASSUME NEW t \in [RunIds -> RunRow], NEW r \in RunIds, NEW q \in RunIds
    PROVE  /\ ClaimRun(t, r)[q].slot = t[q].slot
           /\ MarkRunRunning(t, r)[q].slot = t[q].slot
           /\ \A s : MarkRunFinished(t, r, s)[q].slot = t[q].slot
           /\ \A j, s, n : InsertRun(t, r, j, s, n)[q].slot = (IF q = r THEN s ELSE t[q].slot)
           /\ \A j : CancelPendingByJob(t, j)[q].slot = t[q].slot
           /\ \A j : CascadeDelete(t, j)[q].slot = t[q].slot
  BY DEF ClaimRun, MarkRunRunning, MarkRunFinished, InsertRun, CancelPendingByJob, CascadeDelete,
         RunRow

\* A step that leaves what the loop is at, at most disables jobs, and queues no
\* slot.
Calm ==
    /\ due' = due /\ (pc = "advance" => pc' = "advance")
    /\ \A j \in Jobs : \/ jobs'[j] = jobs[j]
                       \/ jobs[j].state = "new"
                       \/ jobs'[j].state = "gone"
                       \/ IsLive(jobs', j) /\ ~jobs'[j].enabled
    /\ \A r \in RunIds : \/ runs'[r].slot = NoTime
                         \/ runs'[r].slot = runs[r].slot /\ runs'[r].job = runs[r].job

LEMMA CalmKeepsSlots ==
    ASSUME Inv, SlotParts, Calm
    PROVE  OneCopyEach' /\ SlotsArePast' /\ SlotsDiffer'
<1> USE DEF SlotParts, Calm
<1>1. OneCopyEach'
  BY DEF OneCopyEach
<1>2. SlotsArePast'
  <2> SUFFICES ASSUME NEW j \in Jobs, NEW t \in Nat, Queued(j, t)'
               PROVE  /\ jobs'[j].state = "gone" \/ (IsLive(jobs', j) /\ BehindRow(j, t)')
                      /\ BehindCopy(j, t)'
    BY DEF SlotsArePast
  <2>1. Queued(j, t)
    BY DEF Queued, NoTime
  <2>2. /\ jobs[j].state = "gone" \/ (IsLive(jobs, j) /\ BehindRow(j, t))
        /\ BehindCopy(j, t)
    BY <2>1 DEF SlotsArePast
  <2>3. \A c \in due : Advancing(c) => Advancing(c)'
    BY DEF Advancing
  <2>4. BehindCopy(j, t)'
    BY <2>2, <2>3 DEF BehindCopy
  <2>5. jobs[j].state # "new"
    BY <2>2 DEF IsLive
  <2>6. CASE jobs'[j] = jobs[j]
    <3>1. BehindRow(j, t) => BehindRow(j, t)'
      BY <2>3, <2>6 DEF BehindRow
    <3> QED
      BY <2>2, <2>4, <2>6, <3>1 DEF IsLive
  <2>7. CASE jobs'[j].state = "gone" \/ (IsLive(jobs', j) /\ ~jobs'[j].enabled)
    <3>1. ~jobs'[j].enabled => BehindRow(j, t)'
      BY DEF BehindRow
    <3> QED
      BY <2>4, <2>7, <3>1
  <2> QED
    BY <2>4, <2>5, <2>6, <2>7
<1>3. SlotsDiffer'
  BY DEF SlotsDiffer
<1> QED
  BY <1>1, <1>2, <1>3

\* An INSERT without a slot, and the statements that advance or end runs, are calm.
LEMMA CalmRuns ==
    ASSUME Inv,
           \/ UNCHANGED runs
           \/ \E j : runs' = CancelPendingByJob(runs, j) \/ runs' = CascadeDelete(runs, j)
           \/ \E r \in RunIds : runs' = ClaimRun(runs, r) \/ runs' = MarkRunRunning(runs, r)
           \/ \E r \in RunIds, s \in Terminal : runs' = MarkRunFinished(runs, r, s)
           \/ \E j \in Jobs, q \in Nat : CanInsert(j) /\ Insert(j, NoTime, q)
    PROVE  \A r \in RunIds : \/ runs'[r].slot = NoTime
                             \/ runs'[r].slot = runs[r].slot /\ runs'[r].job = runs[r].job
<1> USE DEF Inv, TypeInv, TypeOK
<1>1. CASE UNCHANGED runs
  BY <1>1
<1>2. ASSUME NEW j, runs' = CancelPendingByJob(runs, j) \/ runs' = CascadeDelete(runs, j)
      PROVE  \A r \in RunIds : runs'[r].slot = runs[r].slot /\ runs'[r].job = runs[r].job
  BY <1>2, RunTableEffects, SlotEffects
<1>3. ASSUME NEW r \in RunIds, runs' = ClaimRun(runs, r) \/ runs' = MarkRunRunning(runs, r)
      PROVE  \A q \in RunIds : runs'[q].slot = runs[q].slot /\ runs'[q].job = runs[q].job
  BY <1>3, RunRowEffects, SlotEffects
<1>4. ASSUME NEW r \in RunIds, NEW s \in Terminal, runs' = MarkRunFinished(runs, r, s)
      PROVE  \A q \in RunIds : runs'[q].slot = runs[q].slot /\ runs'[q].job = runs[q].job
  BY <1>4, RunRowEffects, SlotEffects
<1>5. ASSUME NEW j \in Jobs, NEW q \in Nat, CanInsert(j), Insert(j, NoTime, q)
      PROVE  \A r \in RunIds : \/ runs'[r].slot = NoTime
                               \/ runs'[r].slot = runs[r].slot /\ runs'[r].job = runs[r].job
  <2>1. nextRun \in RunIds
    BY <1>5 DEF CanInsert, RunIds
  <2> QED
    BY <1>5, <2>1, RunRowEffects, SlotEffects DEF Insert
<1> QED
  BY <1>1, <1>2, <1>3, <1>4, <1>5

\* The job the loop is at is the only one.
LEMMA OneFirst ==
    ASSUME Inv, NEW c \in due, NEW d \in due, DueFirst(c, due), DueFirst(d, due)
    PROVE  c = d
<1> SUFFICES ASSUME c # d PROVE FALSE
  OBVIOUS
<1>1. c.row.next \in Nat /\ d.row.next \in Nat
  BY DEF Inv, TypeInv, TypeOK, DueInTheirTime
<1>2. c.id \in Nat /\ d.id \in Nat
  BY JobsAssumption DEF Inv, TypeInv, TypeOK, JobCopy
<1> QED
  BY <1>1, <1>2 DEF DueFirst

\* The scheduled INSERT: all runs of the job are behind the copy's slot.
LEMMA SlotQueued ==
    ASSUME Inv, SlotParts, NEW c \in due, DueFirst(c, due), pc # "advance", pc' = "advance",
           UNCHANGED <<jobs, due>>, CanInsert(c.id), Insert(c.id, c.row.next, tick)
    PROVE  OneCopyEach' /\ SlotsArePast' /\ SlotsDiffer'
<1>1. /\ c.id \in Jobs /\ c.id # 0 /\ c.row.next \in Nat /\ tick \in Nat
      /\ nextRun \in RunIds /\ runs \in [RunIds -> RunRow]
  BY JobsAssumption
  DEF CanInsert, RunIds, Inv, TypeInv, TypeOK, JobCopy, JobRow, DueInTheirTime
<1>2. \A r \in RunIds :
         /\ runs'[r].slot = IF r = nextRun THEN c.row.next ELSE runs[r].slot
         /\ runs'[r].job = IF r = nextRun THEN c.id ELSE runs[r].job
  BY <1>1, RunRowEffects, SlotEffects DEF Insert
<1>3. \A r \in RunIds : runs[r].job = c.id /\ runs[r].slot # NoTime => runs[r].slot # c.row.next
  <2> SUFFICES ASSUME NEW r \in RunIds, runs[r].job = c.id, runs[r].slot # NoTime,
                      runs[r].slot = c.row.next
               PROVE  FALSE
    OBVIOUS
  <2>1. BehindCopy(c.id, c.row.next)
    BY <1>1 DEF SlotParts, SlotsArePast, Queued
  <2> QED
    BY <1>1, <2>1 DEF BehindCopy, Advancing
<1>4. OneCopyEach'
  BY DEF SlotParts, OneCopyEach
<1>5. SlotsDiffer'
  BY <1>2, <1>3 DEF SlotParts, SlotsDiffer
<1>6. Advancing(c)' /\ \A d \in due : ~Advancing(d)
  BY DEF Advancing
<1>7. SlotsArePast'
  <2> SUFFICES ASSUME NEW j \in Jobs, NEW t \in Nat, Queued(j, t)'
               PROVE  /\ jobs'[j].state = "gone" \/ (IsLive(jobs', j) /\ BehindRow(j, t)')
                      /\ BehindCopy(j, t)'
    BY DEF SlotsArePast
  <2>1. CASE j = c.id /\ t = c.row.next
    <3>1. BehindCopy(j, t)'
      BY <1>6, <2>1 DEF BehindCopy, SlotParts, OneCopyEach
    <3>2. IsLive(jobs', j) /\ BehindRow(j, t)'
      BY <1>6, <2>1 DEF BehindRow, CanInsert, IsLive
    <3> QED
      BY <3>1, <3>2
  <2>2. CASE ~(j = c.id /\ t = c.row.next)
    <3>1. Queued(j, t)
      BY <1>2, <2>2 DEF Queued
    <3>2. /\ jobs[j].state = "gone" \/ (IsLive(jobs, j) /\ BehindRow(j, t))
          /\ BehindCopy(j, t)
      BY <3>1 DEF SlotParts, SlotsArePast
    <3> QED
      BY <1>6, <3>2 DEF BehindRow, BehindCopy, IsLive
  <2> QED
    BY <2>1, <2>2
<1> QED
  BY <1>4, <1>5, <1>7

\* The advance: the job's next slot is after the tick, or it is disabled.
LEMMA SlotAdvanced ==
    ASSUME Inv, CopiesAreLive, SlotParts, NEW c \in due, AdvanceSchedule(c), ~CallFails
    PROVE  OneCopyEach' /\ SlotsArePast' /\ SlotsDiffer'
<1> DEFINE future == FutureNextRun(c.row.next, tick)
<1>1. /\ c.id \in Jobs /\ tick \in Nat /\ c.row \in JobRow /\ c.row.next \in 0..tick
      /\ jobs \in [Jobs -> JobRow] /\ runs \in [RunIds -> RunRow]
  BY DEF Inv, TypeInv, TypeOK, JobCopy, DueInTheirTime
<1>2. future \in Nat /\ future > tick
  BY <1>1, FutureNextRunIsLater
<1>3. /\ UNCHANGED runs /\ due' = due \ {c} /\ DueFirst(c, due) /\ pc = "advance"
      /\ \A d \in due' : ~Advancing(d)'
  BY DEF AdvanceSchedule, SkipDue, Advancing
<1> HIDE DEF future
<1>4. /\ \A j \in Jobs \ {c.id} : jobs'[j] = jobs[j]
      /\ ~IsLive(jobs, c.id) => jobs'[c.id] = jobs[c.id]
      /\ IsLive(jobs, c.id) => /\ IsLive(jobs', c.id)
                               /\ ~jobs'[c.id].enabled \/ jobs'[c.id].next = future
  <2>1. c.row.state = "live"
    BY DEF CopiesAreLive
  <2>2. CASE c.row.kind = "once"
    <3>1. jobs' = JobUpdate(jobs, c.id, [c.row EXCEPT !.enabled = FALSE, !.next = NoTime])
      BY <2>2 DEF AdvanceSchedule
    <3> QED
      BY <1>1, <2>1, <3>1 DEF JobUpdate, JobRow, IsLive
  <2>3. CASE c.row.kind # "once"
    <3>1. jobs' = UpdateNextRun(jobs, c.id, future)
      BY <2>3 DEF AdvanceSchedule, future
    <3> QED
      BY <1>1, <3>1 DEF UpdateNextRun, IsLive, JobRow
  <2> QED
    BY <2>2, <2>3
<1>5. OneCopyEach'
  BY <1>3 DEF SlotParts, OneCopyEach
<1>6. SlotsDiffer'
  BY <1>3 DEF SlotParts, SlotsDiffer
<1>7. SlotsArePast'
  <2> SUFFICES ASSUME NEW j \in Jobs, NEW t \in Nat, Queued(j, t)
               PROVE  /\ jobs'[j].state = "gone" \/ (IsLive(jobs', j) /\ BehindRow(j, t)')
                      /\ BehindCopy(j, t)'
    BY <1>3 DEF SlotsArePast, Queued
  <2>2. /\ jobs[j].state = "gone" \/ (IsLive(jobs, j) /\ BehindRow(j, t))
        /\ BehindCopy(j, t)
    BY DEF SlotParts, SlotsArePast
  <2>3. \A d \in due : d # c => d.id # c.id /\ ~Advancing(d)
    BY <1>3, OneFirst DEF SlotParts, OneCopyEach, Advancing
  <2>4. BehindCopy(j, t)'
    BY <1>3, <2>2, <2>3 DEF BehindCopy
  <2>5. CASE j # c.id
    <3>1. jobs'[j] = jobs[j]
      BY <1>4, <2>5
    <3>2. BehindRow(j, t) => BehindRow(j, t)'
      BY <1>3, <2>3, <2>5, <3>1 DEF BehindRow
    <3> QED
      BY <2>2, <2>4, <3>1, <3>2 DEF IsLive
  <2>6. CASE j = c.id
    <3>1. t <= c.row.next
      BY <1>1, <1>3, <2>2, <2>6 DEF BehindCopy
    <3>2. t < future
      BY <1>1, <1>2, <3>1
    <3>3. ~jobs'[j].enabled \/ jobs'[j].next = future => BehindRow(j, t)'
      BY <3>2 DEF BehindRow
    <3> QED
      BY <1>4, <2>2, <2>4, <2>6, <3>3 DEF IsLive
  <2> QED
    BY <2>4, <2>5, <2>6
<1> QED
  BY <1>5, <1>6, <1>7

LEMMA SlotDueStep ==
    ASSUME Inv, CopiesAreLive, SlotParts, NEW c \in due, DueStep(c), Undisturbed'
    PROVE  OneCopyEach' /\ SlotsArePast' /\ SlotsDiffer'
<1>1. ~CallFails
  BY DEF CallFails, Undisturbed, SlotParts, Inv, TypeInv, TypeOK
<1>2. CASE CheckUnfinished(c) \/ CancelPending(c)
  <2>1. Calm
    BY <1>1, <1>2, CalmRuns DEF CheckUnfinished, CancelPending, Calm
  <2> QED
    BY <2>1, CalmKeepsSlots
<1>3. CASE EnqueueScheduled(c)
  <2>1. CASE CanInsert(c.id) /\ Insert(c.id, c.row.next, tick) /\ pc' = "advance" /\ UNCHANGED due
    BY <1>3, <2>1, SlotQueued DEF EnqueueScheduled
  <2>2. CASE SkipDue(c) /\ UNCHANGED <<runs, nextRun>>
    <3>1. UNCHANGED jobs /\ due' = due \ {c} /\ pc # "advance"
      BY <1>3, <2>2 DEF EnqueueScheduled, SkipDue
    <3> QED
      BY <2>2, <3>1 DEF SlotParts, OneCopyEach, SlotsArePast, SlotsDiffer, BehindRow, BehindCopy,
                        Queued, Advancing, IsLive
  <2> QED
    BY <1>1, <1>3, <2>1, <2>2 DEF EnqueueScheduled
<1>4. CASE AdvanceSchedule(c)
  BY <1>1, <1>4, SlotAdvanced
<1> QED
  BY <1>2, <1>3, <1>4 DEF DueStep

LEMMA SlotLoopStep ==
    ASSUME Inv, CopiesAreLive, SlotParts, LoopStep, Undisturbed'
    PROVE  OneCopyEach' /\ SlotsArePast' /\ SlotsDiffer'
<1>1. CASE ListDueJobs
  <2>1. UNCHANGED <<jobs, runs>> /\ pc # "advance"
    BY <1>1 DEF ListDueJobs
  <2>2. \A d \in due' : /\ d.id \in Jobs /\ d = [id |-> d.id, row |-> jobs[d.id]]
                         /\ IsLive(jobs, d.id) /\ jobs[d.id].enabled /\ jobs[d.id].next # NoTime
    BY <1>1 DEF ListDueJobs, ListDue, IsLive
  <2>3. OneCopyEach'
    BY <2>2 DEF OneCopyEach
  <2>4. ASSUME NEW j \in Jobs, NEW t, IsLive(jobs, j), BehindRow(j, t)
        PROVE  BehindRow(j, t)' /\ BehindCopy(j, t)'
    BY <2>1, <2>2, <2>4 DEF BehindRow, BehindCopy, Advancing
  <2>5. ASSUME NEW j \in Jobs, NEW t, jobs[j].state = "gone"
        PROVE  BehindCopy(j, t)'
    BY <2>2, <2>5 DEF BehindCopy, IsLive
  <2>6. SlotsArePast'
    <3> SUFFICES ASSUME NEW j \in Jobs, NEW t \in Nat, Queued(j, t)'
                 PROVE  /\ jobs'[j].state = "gone" \/ (IsLive(jobs', j) /\ BehindRow(j, t)')
                        /\ BehindCopy(j, t)'
      BY DEF SlotsArePast
    <3>1. Queued(j, t)
      BY <2>1 DEF Queued
    <3>2. jobs[j].state = "gone" \/ (IsLive(jobs, j) /\ BehindRow(j, t))
      BY <3>1 DEF SlotParts, SlotsArePast
    <3> QED
      BY <2>1, <2>4, <2>5, <3>2 DEF IsLive
  <2> QED
    BY <2>1, <2>3, <2>6 DEF SlotParts, SlotsDiffer
<1>2. CASE TryClaimPending \/ MarkRunning
  <2>1. cur \in RunIds /\ UNCHANGED <<jobs, due>> /\ pc # "advance"
    BY <1>2 DEF TryClaimPending, MarkRunning, Inv, SafetyInv, LoopHoldsCur
  <2>2. Calm
    BY <1>2, <2>1, CalmRuns DEF TryClaimPending, MarkRunning, Calm
  <2> QED
    BY <2>2, CalmKeepsSlots
<1>3. CASE \/ ListPending \/ StartRunExecution \/ SeeCancellation \/ LoopReturns
           \/ \E r \in pend : PrepareRunStart(r)
           \/ \E r \in victims : CancelVictim(r)
  <2>1. Calm
    BY <1>3
    DEF ListPending, StartRunExecution, SeeCancellation, LoopReturns, PrepareRunStart, CancelVictim,
        Calm
  <2> QED
    BY <2>1, CalmKeepsSlots
<1> QED
  BY <1>1, <1>2, <1>3, SlotDueStep DEF LoopStep

\* Everybody but the loop is calm: all that a command writes is disabled rows.
LEMMA OthersAreCalm ==
    ASSUME Inv, CopiesAreLive, WritesDisable, Undisturbed',
           \/ \E r \in RunIds : ExecutorStep(r)
           \/ \E c \in Clis : CliProcessStep(c)
           \/ JobRowStep \/ LifeStep \/ UNCHANGED vars
    PROVE  Calm
<1>1. ASSUME NEW r \in RunIds, ExecutorStep(r)
      PROVE  Calm
  <2>1. UNCHANGED <<jobs, due, pc>>
    BY <1>1 DEF ExecutorStep, PersistStep, ExecutionEnds, MarkFinished, FinishActiveRun
  <2>2. CASE UNCHANGED runs
    BY <2>1, <2>2 DEF Calm
  <2>3. CASE MarkFinished(r)
    <3>1. final[r] \in Terminal
      BY <2>3 DEF MarkFinished, FinalIsDecided, Inv, TypeInv
    <3> QED
      BY <2>1, <2>3, <3>1, CalmRuns DEF MarkFinished, Calm
  <2> QED
    BY <1>1, <2>2, <2>3 DEF ExecutorStep, PersistStep, ExecutionEnds, FinishActiveRun
<1>2. ASSUME NEW c \in Clis, CliProcessStep(c)
      PROVE  Calm
  <2>1. UNCHANGED <<due, pc>>
    BY <1>2 DEF CliProcessStep, RunReads, EditReads, RunChecks, RunCancelsPending, RunInserts,
                EditWrites, CliAborts, CliStep
  <2>2. \A j \in Jobs : jobs'[j] = jobs[j] \/ (IsLive(jobs', j) /\ ~jobs'[j].enabled)
    <3>1. CASE UNCHANGED jobs
      BY <3>1
    <3>2. CASE EditWrites(c)
      <4>1. cli[c].row.state = "live" /\ ~cli[c].row.enabled
        BY <3>2 DEF EditWrites, CopiesAreLive, WritesDisable
      <4> QED
        BY <3>2, <4>1 DEF EditWrites, JobUpdate, IsLive, Inv, TypeInv, TypeOK
    <3> QED
      BY <1>2, <3>1, <3>2
      DEF CliProcessStep, RunReads, EditReads, RunChecks, RunCancelsPending, RunInserts, CliAborts
  <2>3. CASE UNCHANGED runs
    BY <2>1, <2>2, <2>3 DEF Calm
  <2>4. CASE RunCancelsPending(c)
    BY <2>1, <2>2, <2>4, CalmRuns DEF RunCancelsPending, Calm
  <2>5. CASE RunInserts(c) /\ CanInsert(cli[c].id) /\ Insert(cli[c].id, NoTime, cli[c].at)
    <3>1. cli[c].id \in Jobs /\ cli[c].at \in Nat
      BY <2>5 DEF RunInserts, CliState, IdleCli, Inv, TypeInv, TypeOK
    <3> QED
      BY <2>1, <2>2, <2>5, <3>1, CalmRuns DEF Calm
  <2> QED
    BY <1>2, <2>3, <2>4, <2>5
    DEF CliProcessStep, RunReads, EditReads, RunChecks, RunInserts, EditWrites, CliAborts
<1>3. ASSUME NEW j \in Jobs, DeleteJob(j)
      PROVE  Calm
  <2>1. \A k \in Jobs : jobs'[k] = jobs[k] \/ jobs'[k].state = "gone"
    BY <1>3 DEF DeleteJob, DeleteByName, Inv, TypeInv, TypeOK, JobRow
  <2> QED
    BY <1>3, <2>1, CalmRuns DEF DeleteJob, Calm
<1>4. ASSUME NEW j \in Jobs, NEW row \in AddableRows, AddJob(j, row)
      PROVE  Calm
  BY <1>4 DEF AddJob, Calm, Inv, TypeInv, TypeOK
<1>5. CASE LifeStep \/ UNCHANGED vars
  <2>1. ~Crash
    BY DEF Crash, Undisturbed, Inv, TypeInv, TypeOK
  <2>2. StartDaemon => pc # "advance"
    BY DEF StartDaemon, Inv, SafetyInv, DownIsDown
  <2> QED
    BY <1>5, <2>1, <2>2 DEF LifeStep, StartDaemon, CancelLoop, AdvanceClock, Calm
<1> QED
  BY <1>1, <1>2, <1>3, <1>4, <1>5 DEF JobRowStep

\* Disturbances are counted for ever.
LEMMA Disturbances == Inv /\ [Next]_vars /\ Undisturbed' => Undisturbed /\ (daemon' = "stopping" => daemon = "stopping")
<1> SUFFICES ASSUME Inv, [Next]_vars, Undisturbed'
             PROVE  Undisturbed /\ (daemon' = "stopping" => daemon = "stopping")
  OBVIOUS
<1>0. stops \in Nat /\ crashes \in Nat /\ faults \in Nat
  BY DEF Inv, TypeInv, TypeOK
<1> DEFINE Counted == /\ stops' \in {stops, stops + 1} /\ crashes' \in {crashes, crashes + 1}
                      /\ faults' \in {faults, faults + 1}
                      /\ daemon' = "stopping" => daemon = "stopping" \/ stops' = stops + 1
<1>1. CASE LoopStep
  <2>1. UNCHANGED <<stops, crashes>> /\ daemon' \in {daemon, "down"}
    BY <1>1
    DEF LoopStep, DueStep, CheckUnfinished, CancelPending, EnqueueScheduled, AdvanceSchedule,
        ListDueJobs, ListPending, PrepareRunStart, CancelVictim, TryClaimPending, MarkRunning,
        StartRunExecution, SeeCancellation, LoopReturns
  <2>2. faults' \in {faults, faults + 1}
    BY <1>1
    DEF LoopStep, DueStep, CheckUnfinished, CancelPending, EnqueueScheduled, AdvanceSchedule,
        ListDueJobs, ListPending, PrepareRunStart, CancelVictim, TryClaimPending, MarkRunning,
        StartRunExecution, SeeCancellation, LoopReturns, CallWorks, CallFails
  <2> QED
    BY <1>0, <2>1, <2>2 DEF Undisturbed
<1>2. ASSUME NEW r \in RunIds, ExecutorStep(r)
      PROVE  Undisturbed /\ (daemon' = "stopping" => daemon = "stopping")
  <2>1. UNCHANGED <<daemon, stops, crashes>> /\ faults' \in {faults, faults + 1}
    BY <1>2 DEF ExecutorStep, PersistStep, ExecutionEnds, MarkFinished, FinishActiveRun,
                DetachedCallWorks, DetachedCallFails
  <2> QED
    BY <1>0, <2>1 DEF Undisturbed
<1>3. ASSUME NEW c \in Clis, CliProcessStep(c)
      PROVE  UNCHANGED <<daemon, stops, crashes, faults>>
  BY <1>3 DEF CliProcessStep, RunReads, EditReads, RunChecks, RunCancelsPending, RunInserts,
              EditWrites, CliAborts, CliStep
<1>4. CASE JobRowStep \/ UNCHANGED vars
  BY <1>4 DEF JobRowStep, AddJob, DeleteJob, Undisturbed
<1>5. CASE LifeStep
  BY <1>0, <1>5 DEF LifeStep, StartDaemon, CancelLoop, Crash, AdvanceClock, Undisturbed
<1> QED
  BY <1>1, <1>2, <1>3, <1>4, <1>5 DEF Next, Undisturbed

\* Without update and resume no CLI process comes to hold an enabled row.
LEMMA OnlyPausesWrite ==
    ASSUME NothingRevived, Inv, WritesDisable, [Next]_vars
    PROVE  WritesDisable'
<1> USE DEF WritesDisable
<1>1. CASE UNCHANGED cli
  BY <1>1
<1>2. ASSUME NEW c \in Clis, CliProcessStep(c)
      PROVE  WritesDisable'
  <2>1. ASSUME NEW j \in Jobs, NEW row \in EditedRows(jobs[j])
        PROVE  ~row.enabled
    BY <2>1 DEF EditedRows, Recomputed, NothingRevived, JobRow, Inv, TypeInv, TypeOK
  <2>2. PICK step : (step.pc = "write" => ~step.row.enabled) /\ CliStep(c, step)
    BY <1>2, <2>1
    DEF CliProcessStep, RunReads, EditReads, RunChecks, RunCancelsPending, RunInserts, EditWrites,
        CliAborts, IdleCli
  <2> QED
    BY <2>2 DEF CliStep, Inv, TypeInv, TypeOK
<1>3. CASE LoopStep
  BY <1>1, <1>3
  DEF LoopStep, DueStep, CheckUnfinished, CancelPending, EnqueueScheduled, AdvanceSchedule,
      ListDueJobs, ListPending, PrepareRunStart, CancelVictim, TryClaimPending, MarkRunning,
      StartRunExecution, SeeCancellation, LoopReturns
<1>4. ASSUME NEW r \in RunIds, ExecutorStep(r)
      PROVE  UNCHANGED cli
  BY <1>4 DEF ExecutorStep, PersistStep, ExecutionEnds, MarkFinished, FinishActiveRun
<1>5. CASE JobRowStep \/ LifeStep \/ UNCHANGED vars
  BY <1>1, <1>5
  DEF JobRowStep, LifeStep, AddJob, DeleteJob, StartDaemon, CancelLoop, Crash, AdvanceClock
<1> QED
  BY <1>1, <1>2, <1>3, <1>4, <1>5 DEF Next

LEMMA SlotInvNext ==
    ASSUME NothingRevived
    PROVE  Inv /\ CopiesAreLive /\ SlotInv /\ [Next]_vars => SlotInv'
<1> SUFFICES ASSUME Inv, CopiesAreLive, SlotInv, [Next]_vars
             PROVE  SlotInv'
  OBVIOUS
<1>1. WritesDisable'
  BY OnlyPausesWrite DEF SlotInv
<1>2. ASSUME Undisturbed'
      PROVE  SlotParts'
  <2>1. SlotParts
    BY <1>2, Disturbances DEF SlotInv
  <2>2. daemon' # "stopping"
    BY <1>2, <2>1, Disturbances DEF SlotParts
  <2>3. OneCopyEach' /\ SlotsArePast' /\ SlotsDiffer'
    BY <1>2, <2>1, SlotLoopStep, OthersAreCalm, CalmKeepsSlots DEF Next, SlotInv
  <2> QED
    BY <2>2, <2>3 DEF SlotParts
<1> QED
  BY <1>1, <1>2 DEF SlotInv

\* A due slot is queued once although its INSERT and the advance of the schedule
\* are two calls, while the daemon is not stopped or killed, none of its calls
\* fails, and no command writes a row back that may come due.
THEOREM SlotsAreQueuedOnce == Spec => []SlotQueuedOnce
<1>1. CASE ~NothingRevived
  <2>1. SlotQueuedOnce
    BY <1>1 DEF SlotQueuedOnce, NothingRevived
  <2> QED
    BY <2>1, PTL
<1>2. CASE NothingRevived
  <2>1. Init => SlotInv /\ CopiesAreLive
    BY DEF Init, SlotInv, WritesDisable, SlotParts, OneCopyEach, SlotsArePast, SlotsDiffer,
           Queued, NoTime, CopiesAreLive, AbsentRun, IdleCli
  <2>2. Inv /\ CopiesAreLive /\ SlotInv /\ [Next]_vars => SlotInv'
    BY <1>2, SlotInvNext
  <2>3. SlotInv => SlotQueuedOnce
    BY DEF SlotInv, SlotParts, SlotsDiffer, SlotQueuedOnce, Undisturbed
  <2> QED
    BY <2>1, <2>2, <2>3, CopiesNext, InvHolds, PTL DEF Spec
<1> QED
  BY <1>1, <1>2

-----------------------------------------------------------------------------
(* Forbid.  The check and the INSERT of the loop are two calls; what holds *)
(* between them is that nobody else INSERTs, and that the policy the loop  *)
(* decides by is still the one the table has.                              *)

HandsOff == CliOps \cap {"run", "update"} = {}

\* Copies of a job's row have its policy, and no `job run' is under way.
PoliciesAgree ==
    /\ \A c \in due : jobs[c.id].state # "new" /\ c.row.policy = jobs[c.id].policy
    /\ \A c \in Clis : cli[c].pc \in {"idle", "write"}
    /\ \A c \in Clis : cli[c].pc = "write" =>
          jobs[cli[c].id].state # "new" /\ cli[c].row.policy = jobs[cli[c].id].policy

\* ForbidSingleUnfinished without its premise.
OneUnfinished ==
    \A r, s \in RunIds :
        /\ runs[r].st \in Unfinished /\ runs[s].st \in Unfinished
        /\ runs[r].job = runs[s].job /\ jobs[runs[r].job].policy = "forbid"
        => r = s

\* What CheckUnfinished has found is still so when the run is queued.
CheckHolds ==
    pc = "enqueue" =>
        \A c \in due : DueFirst(c, due) /\ c.row.policy = "forbid" =>
            UnfinishedByJob(runs, c.id) = {}

ForbidInv == PoliciesAgree /\ OneUnfinished /\ CheckHolds

PoliciesStay ==
    \A j \in Jobs : jobs[j].state # "new" =>
        jobs'[j].state # "new" /\ jobs'[j].policy = jobs[j].policy

\* No run becomes unfinished.
NothingQueued ==
    \A r \in RunIds : runs'[r].st \in Unfinished =>
        runs[r].st \in Unfinished /\ runs'[r].job = runs[r].job

LEMMA PoliciesStayNext == Inv /\ CopiesAreLive /\ PoliciesAgree /\ [Next]_vars => PoliciesStay
<1> SUFFICES ASSUME Inv, CopiesAreLive, PoliciesAgree, [Next]_vars PROVE PoliciesStay
  OBVIOUS
<1> USE DEF Inv, TypeInv, TypeOK
<1>1. CASE UNCHANGED jobs
  BY <1>1 DEF PoliciesStay
<1>2. ASSUME NEW j \in Jobs, NEW row \in JobRow, row.state = "live",
             row.policy = jobs[j].policy, jobs' = JobUpdate(jobs, j, row)
      PROVE  PoliciesStay
  BY <1>2 DEF PoliciesStay, JobUpdate
<1>3. ASSUME NEW c \in due, AdvanceSchedule(c) PROVE PoliciesStay
  <2>1. c.id \in Jobs /\ c.row \in JobRow /\ c.row.state = "live"
    BY DEF JobCopy, CopiesAreLive
  <2>2. [c.row EXCEPT !.enabled = FALSE, !.next = NoTime] \in JobRow
    BY <2>1 DEF JobRow, Time
  <2>3. CASE jobs' = JobUpdate(jobs, c.id, [c.row EXCEPT !.enabled = FALSE, !.next = NoTime])
    BY <1>2, <2>1, <2>2, <2>3 DEF PoliciesAgree, JobRow
  <2>4. ASSUME NEW n, jobs' = UpdateNextRun(jobs, c.id, n) PROVE PoliciesStay
    BY <2>1, <2>4 DEF PoliciesStay, UpdateNextRun, JobRow
  <2> QED
    BY <1>1, <1>3, <2>3, <2>4 DEF AdvanceSchedule
<1>4. ASSUME NEW c \in Clis, EditWrites(c) PROVE PoliciesStay
  <2>1. cli[c].id \in Jobs /\ cli[c].row \in JobRow /\ cli[c].row.state = "live"
    BY <1>4 DEF EditWrites, CliState, IdleCli, CopiesAreLive
  <2> QED
    BY <1>2, <1>4, <2>1 DEF EditWrites, PoliciesAgree
<1>5. CASE JobRowStep
  BY <1>5 DEF JobRowStep, AddJob, DeleteJob, DeleteByName, PoliciesStay, JobRow
<1>6. CASE LoopStep
  BY <1>1, <1>3, <1>6
  DEF LoopStep, DueStep, CheckUnfinished, CancelPending, EnqueueScheduled, ListDueJobs, ListPending,
      PrepareRunStart, CancelVictim, TryClaimPending, MarkRunning, StartRunExecution,
      SeeCancellation, LoopReturns
<1>7. ASSUME NEW r \in RunIds, ExecutorStep(r) PROVE PoliciesStay
  BY <1>1, <1>7 DEF ExecutorStep, PersistStep, ExecutionEnds, MarkFinished, FinishActiveRun
<1>8. ASSUME NEW c \in Clis, CliProcessStep(c) PROVE PoliciesStay
  BY <1>1, <1>4, <1>8
  DEF CliProcessStep, RunReads, EditReads, RunChecks, RunCancelsPending, RunInserts, CliAborts
<1>9. CASE LifeStep \/ UNCHANGED vars
  BY <1>1, <1>9 DEF LifeStep, StartDaemon, CancelLoop, Crash, AdvanceClock
<1> QED
  BY <1>5, <1>6, <1>7, <1>8, <1>9 DEF Next

\* Pausing, resuming and rescheduling a job leave its policy alone.
LEMMA EditedRowsAgree ==
    ASSUME HandsOff, Inv, NEW j \in Jobs, NEW row \in EditedRows(jobs[j])
    PROVE  row.policy = jobs[j].policy
<1>1. "update" \notin CliOps
  BY DEF HandsOff
<1>2. jobs[j] \in JobRow
  BY DEF Inv, TypeInv, TypeOK
<1>3. ASSUME NEW r \in JobRow PROVE Recomputed(r).policy = r.policy
  BY DEF Recomputed, JobRow
<1>4. /\ \A k \in Kinds : [jobs[j] EXCEPT !.kind = k] \in JobRow
      /\ \A e \in BOOLEAN : [jobs[j] EXCEPT !.enabled = e] \in JobRow
  BY <1>2 DEF JobRow
<1>5. \/ \E k \in Kinds : row = Recomputed([jobs[j] EXCEPT !.kind = k])
      \/ \E e \in BOOLEAN : row = Recomputed([jobs[j] EXCEPT !.enabled = e])
  BY <1>1 DEF EditedRows
<1>6. CASE \E k \in Kinds : row = Recomputed([jobs[j] EXCEPT !.kind = k])
  <2>1. PICK k \in Kinds : row = Recomputed([jobs[j] EXCEPT !.kind = k])
    BY <1>6
  <2>2. row.policy = [jobs[j] EXCEPT !.kind = k].policy
    BY <1>3, <1>4, <2>1
  <2> QED
    BY <1>2, <2>2 DEF JobRow
<1>7. CASE \E e \in BOOLEAN : row = Recomputed([jobs[j] EXCEPT !.enabled = e])
  <2>1. PICK e \in BOOLEAN : row = Recomputed([jobs[j] EXCEPT !.enabled = e])
    BY <1>7
  <2>2. row.policy = [jobs[j] EXCEPT !.enabled = e].policy
    BY <1>3, <1>4, <2>1
  <2> QED
    BY <1>2, <2>2 DEF JobRow
<1> QED
  BY <1>5, <1>6, <1>7

LEMMA PoliciesAgreeNext ==
    ASSUME HandsOff
    PROVE  Inv /\ CopiesAreLive /\ PoliciesAgree /\ [Next]_vars => PoliciesAgree'
<1> SUFFICES ASSUME Inv, CopiesAreLive, PoliciesAgree, [Next]_vars PROVE PoliciesAgree'
  OBVIOUS
<1> USE DEF Inv, TypeInv, TypeOK
<1>1. PoliciesStay
  BY PoliciesStayNext
<1>2. \A c \in Clis : cli[c].pc = "write" => cli[c].id \in Jobs
  BY DEF CliState, IdleCli
<1>3. \A c \in due : c.id \in Jobs
  BY DEF JobCopy
<1>4. \A c \in due' : jobs'[c.id].state # "new" /\ c.row.policy = jobs'[c.id].policy
  <2>1. CASE due' \subseteq due
    BY <1>1, <1>3, <2>1 DEF PoliciesAgree, PoliciesStay
  <2>2. CASE ListDueJobs
    <3>1. UNCHANGED jobs /\ (due' = {} \/ due' = ListDue(jobs, now))
      BY <2>2 DEF ListDueJobs
    <3> QED
      BY <3>1 DEF ListDue
  <2>3. CASE LoopStep
    BY <2>1, <2>2, <2>3
    DEF LoopStep, DueStep, CheckUnfinished, CancelPending, EnqueueScheduled, AdvanceSchedule, SkipDue,
        ListPending, PrepareRunStart, CancelVictim, TryClaimPending, MarkRunning, StartRunExecution,
        SeeCancellation, LoopReturns
  <2>4. ASSUME NEW r \in RunIds, ExecutorStep(r) PROVE UNCHANGED due
    BY <2>4 DEF ExecutorStep, PersistStep, ExecutionEnds, MarkFinished, FinishActiveRun
  <2>5. ASSUME NEW c \in Clis, CliProcessStep(c) PROVE UNCHANGED due
    BY <2>5 DEF CliProcessStep, RunReads, EditReads, RunChecks, RunCancelsPending, RunInserts,
                EditWrites, CliAborts, CliStep
  <2>6. CASE JobRowStep \/ LifeStep \/ UNCHANGED vars
    BY <2>1, <2>6
    DEF JobRowStep, LifeStep, AddJob, DeleteJob, StartDaemon, CancelLoop, Crash, AdvanceClock
  <2> QED
    BY <2>1, <2>3, <2>4, <2>5, <2>6 DEF Next
<1> DEFINE Agrees(c) == /\ cli'[c].pc \in {"idle", "write"}
                        /\ cli'[c].pc = "write" =>
                              /\ jobs'[cli'[c].id].state # "new"
                              /\ cli'[c].row.policy = jobs'[cli'[c].id].policy
<1>5. ASSUME NEW c \in Clis, cli'[c] = cli[c] PROVE Agrees(c)
  BY <1>1, <1>2, <1>5 DEF PoliciesAgree, PoliciesStay
<1>6. ASSUME NEW c \in Clis, CliProcessStep(c) PROVE \A d \in Clis : Agrees(d)
  <2>1. \A d \in Clis \ {c} : cli'[d] = cli[d]
    BY <1>6 DEF CliProcessStep, RunReads, EditReads, RunChecks, RunCancelsPending, RunInserts,
                EditWrites, CliAborts, CliStep
  <2>2. ASSUME NEW j \in Jobs, EditReads(c, j) PROVE Agrees(c)
    <3>1. PICK row \in EditedRows(jobs[j]) : CliStep(c, [pc |-> "write", id |-> j, row |-> row])
      BY <2>2 DEF EditReads
    <3>2. cli'[c] = [pc |-> "write", id |-> j, row |-> row]
      BY <3>1 DEF CliStep
    <3>3. row.policy = jobs[j].policy /\ jobs[j].state # "new" /\ jobs' = jobs
      BY <2>2, EditedRowsAgree DEF EditReads, IsLive, dbVars
    <3> QED
      BY <3>2, <3>3
  <2>3. ASSUME EditWrites(c) \/ CliAborts(c) PROVE Agrees(c)
    <3>1. cli'[c] = [pc |-> "idle"]
      BY <2>3 DEF EditWrites, CliAborts, CliStep, IdleCli
    <3> QED
      BY <3>1
  <2>4. ~RunChecks(c) /\ ~RunCancelsPending(c) /\ ~RunInserts(c) /\ \A j \in Jobs : ~RunReads(c, j)
    BY DEF RunChecks, RunCancelsPending, RunInserts, RunReads, HandsOff, PoliciesAgree
  <2>5. Agrees(c)
    <3> HIDE DEF Agrees
    <3> QED
      BY <1>6, <2>2, <2>3, <2>4 DEF CliProcessStep
  <2> QED
    BY <1>5, <2>1, <2>5
<1>7. ASSUME LoopStep \/ \E r \in RunIds : ExecutorStep(r)
      PROVE  \A c \in Clis : Agrees(c)
  <2>1. UNCHANGED cli
    BY <1>7
    DEF LoopStep, DueStep, CheckUnfinished, CancelPending, EnqueueScheduled, AdvanceSchedule,
        ListDueJobs, ListPending, PrepareRunStart, CancelVictim, TryClaimPending, MarkRunning,
        StartRunExecution, SeeCancellation, LoopReturns, ExecutorStep, PersistStep, ExecutionEnds,
        MarkFinished, FinishActiveRun
  <2> QED
    BY <1>5, <2>1
<1>8. ASSUME JobRowStep \/ LifeStep \/ UNCHANGED vars
      PROVE  \A c \in Clis : Agrees(c)
  <2>1. UNCHANGED cli
    BY <1>8
    DEF JobRowStep, LifeStep, AddJob, DeleteJob, StartDaemon, CancelLoop, Crash, AdvanceClock
  <2> QED
    BY <1>5, <2>1
<1>9. \A c \in Clis : Agrees(c)
  <2> HIDE DEF Agrees
  <2> QED
    BY <1>6, <1>7, <1>8, <1>5 DEF Next
<1> QED
  BY <1>4, <1>9 DEF PoliciesAgree

\* The statements that advance, cancel, end or delete runs queue nothing.
LEMMA StatementsQueueNothing ==
    ASSUME Inv,
           \/ UNCHANGED runs
           \/ \E j : runs' = CancelPendingByJob(runs, j) \/ runs' = CascadeDelete(runs, j)
           \/ \E r \in RunIds : runs' = ClaimRun(runs, r)
           \/ \E r \in RunIds : CanMarkRunning(runs, r) /\ runs' = MarkRunRunning(runs, r)
           \/ \E r \in RunIds, s \in Terminal : runs' = MarkRunFinished(runs, r, s)
    PROVE  NothingQueued
<1> USE DEF NothingQueued, Inv, TypeInv, TypeOK, Unfinished, Terminal
<1>1. CASE UNCHANGED runs
  BY <1>1
<1>2. ASSUME NEW j, runs' = CancelPendingByJob(runs, j) \/ runs' = CascadeDelete(runs, j)
      PROVE  NothingQueued
  BY <1>2, RunTableEffects
<1>3. ASSUME NEW r \in RunIds, runs' = ClaimRun(runs, r) PROVE NothingQueued
  BY <1>3, RunRowEffects
<1>4. ASSUME NEW r \in RunIds, CanMarkRunning(runs, r), runs' = MarkRunRunning(runs, r)
      PROVE  NothingQueued
  BY <1>4, RunRowEffects DEF CanMarkRunning
<1>5. ASSUME NEW r \in RunIds, NEW s \in Terminal, runs' = MarkRunFinished(runs, r, s)
      PROVE  NothingQueued
  BY <1>5, RunRowEffects
<1> QED
  BY <1>1, <1>2, <1>3, <1>4, <1>5

\* A step that queues nothing keeps forbid, if the loop does not go on to queue.
LEMMA ForbidKept ==
    ASSUME Inv, NoRunOutlivesItsJob, ForbidInv, PoliciesStay, NothingQueued,
           pc' # "enqueue" \/ UNCHANGED <<pc, due>>
    PROVE  OneUnfinished' /\ CheckHolds'
<1>1. OneUnfinished'
  <2>1. ASSUME NEW r \in RunIds, runs[r].st \in Unfinished
        PROVE  runs[r].job \in Jobs /\ jobs[runs[r].job].state # "new"
    BY <2>1 DEF NoRunOutlivesItsJob, IsLive, Inv, SafetyInv, RowsFollowIds, Unfinished
  <2> QED
    BY <2>1 DEF ForbidInv, OneUnfinished, NothingQueued, PoliciesStay
<1>2. CheckHolds'
  <2>1. \A j : UnfinishedByJob(runs, j)' \subseteq UnfinishedByJob(runs, j)
    BY DEF UnfinishedByJob, NothingQueued
  <2> QED
    BY <2>1 DEF ForbidInv, CheckHolds
<1> QED
  BY <1>1, <1>2

\* The scheduled INSERT under forbid comes after a check that still holds.
LEMMA ForbidQueued ==
    ASSUME Inv, ForbidInv, NEW c \in due, DueFirst(c, due), UNCHANGED jobs, pc' # "enqueue",
           pc = "enqueue" \/ c.row.policy = "queue",
           CanInsert(c.id), Insert(c.id, c.row.next, tick)
    PROVE  OneUnfinished' /\ CheckHolds'
<1>1. c.id \in Jobs /\ nextRun \in RunIds /\ runs \in [RunIds -> RunRow]
  BY DEF CanInsert, RunIds, Inv, TypeInv, TypeOK, JobCopy
<1>2. \A r \in RunIds :
         /\ runs'[r].st = IF r = nextRun THEN "pending" ELSE runs[r].st
         /\ runs'[r].job = IF r = nextRun THEN c.id ELSE runs[r].job
  BY <1>1, RunRowEffects DEF Insert
<1>3. jobs[c.id].policy = "forbid" => UnfinishedByJob(runs, c.id) = {}
  BY DEF ForbidInv, PoliciesAgree, CheckHolds
<1>4. OneUnfinished'
  BY <1>2, <1>3 DEF OneUnfinished, UnfinishedByJob, ForbidInv
<1> QED
  BY <1>4 DEF CheckHolds

LEMMA ForbidDueStep ==
    ASSUME Inv, NoRunOutlivesItsJob, ForbidInv, PoliciesStay, NEW c \in due, DueStep(c)
    PROVE  OneUnfinished' /\ CheckHolds'
<1>1. CASE CheckUnfinished(c)
  <2>1. NothingQueued /\ due' \subseteq due
    BY <1>1, StatementsQueueNothing DEF CheckUnfinished, SkipDue
  <2>2. CASE pc' # "enqueue"
    BY <2>1, <2>2, ForbidKept
  <2>3. CASE pc' = "enqueue"
    <3>1. /\ UNCHANGED <<runs, jobs, due>> /\ DueFirst(c, due)
          /\ UnfinishedByJob(runs, c.id) = {}
      BY <1>1, <2>3 DEF CheckUnfinished, SkipDue
    <3>2. \A d \in due : DueFirst(d, due) => d = c
      BY <3>1, OneFirst
    <3> QED
      BY <2>3, <3>1, <3>2 DEF ForbidInv, OneUnfinished, CheckHolds, UnfinishedByJob
  <2> QED
    BY <2>2, <2>3
<1>2. CASE CancelPending(c)
  <2>1. NothingQueued
    BY <1>2, StatementsQueueNothing DEF CancelPending
  <2>2. CASE pc' # "enqueue"
    BY <2>1, <2>2, ForbidKept
  <2>3. CASE pc' = "enqueue"
    <3>1. UNCHANGED <<jobs, due>> /\ DueFirst(c, due) /\ c.row.policy = "replace"
      BY <1>2, <2>3 DEF CancelPending, SkipDue
    <3>2. \A d \in due : DueFirst(d, due) => d = c
      BY <3>1, OneFirst
    <3>3. CheckHolds'
      BY <3>1, <3>2 DEF CheckHolds
    <3>4. OneUnfinished'
      BY <2>1, <3>1 DEF ForbidInv, OneUnfinished, NothingQueued
    <3> QED
      BY <3>3, <3>4
  <2> QED
    BY <2>2, <2>3
<1>3. CASE EnqueueScheduled(c)
  <2>1. /\ DueFirst(c, due) /\ UNCHANGED jobs /\ pc' # "enqueue"
        /\ pc = "enqueue" \/ c.row.policy = "queue"
    BY <1>3 DEF EnqueueScheduled, SkipDue
  <2>2. CASE CanInsert(c.id) /\ Insert(c.id, c.row.next, tick)
    BY <2>1, <2>2, ForbidQueued
  <2>3. CASE UNCHANGED runs
    BY <2>1, <2>3, ForbidKept, StatementsQueueNothing
  <2> QED
    BY <1>3, <2>2, <2>3 DEF EnqueueScheduled
<1>4. CASE AdvanceSchedule(c)
  BY <1>4, ForbidKept, StatementsQueueNothing DEF AdvanceSchedule, SkipDue
<1> QED
  BY <1>1, <1>2, <1>3, <1>4 DEF DueStep

LEMMA ForbidNext ==
    ASSUME HandsOff
    PROVE  Inv /\ CopiesAreLive /\ NoRunOutlivesItsJob /\ ForbidInv /\ [Next]_vars => ForbidInv'
<1> SUFFICES ASSUME Inv, CopiesAreLive, NoRunOutlivesItsJob, ForbidInv, [Next]_vars
             PROVE  OneUnfinished' /\ CheckHolds'
  BY PoliciesAgreeNext DEF ForbidInv
<1>1. PoliciesStay
  BY PoliciesStayNext DEF ForbidInv
<1>2. CASE LoopStep
  <2>1. CASE TryClaimPending \/ MarkRunning
    <3>1. cur \in RunIds /\ pc' # "enqueue"
      BY <2>1 DEF TryClaimPending, MarkRunning, SkipRun, AfterRun, Inv, SafetyInv, LoopHoldsCur
    <3>2. NothingQueued
      BY <2>1, <3>1, StatementsQueueNothing DEF TryClaimPending, MarkRunning
    <3> QED
      BY <1>1, <3>1, <3>2, ForbidKept
  <2>2. CASE \/ ListDueJobs \/ ListPending \/ StartRunExecution \/ SeeCancellation \/ LoopReturns
             \/ \E r \in pend : PrepareRunStart(r)
             \/ \E r \in victims : CancelVictim(r)
    <3>1. UNCHANGED runs /\ (pc' # "enqueue" \/ UNCHANGED <<pc, due>>)
      BY <2>2
      DEF ListDueJobs, ListPending, StartRunExecution, SeeCancellation, LoopReturns, PrepareRunStart,
          CancelVictim, SkipRun, AfterRun
    <3> QED
      BY <1>1, <3>1, ForbidKept, StatementsQueueNothing
  <2> QED
    BY <1>1, <1>2, <2>1, <2>2, ForbidDueStep DEF LoopStep
<1>3. ASSUME NEW r \in RunIds, ExecutorStep(r) PROVE NothingQueued /\ UNCHANGED <<pc, due>>
  <2>1. final[r] \in Terminal \/ ~MarkFinished(r)
    BY DEF MarkFinished, FinalIsDecided, Inv, TypeInv
  <2> QED
    BY <1>3, <2>1, StatementsQueueNothing
    DEF ExecutorStep, PersistStep, ExecutionEnds, MarkFinished, FinishActiveRun
<1>4. ASSUME NEW c \in Clis, CliProcessStep(c) PROVE UNCHANGED <<runs, pc, due>>
  BY <1>4
  DEF CliProcessStep, RunReads, EditReads, RunChecks, RunCancelsPending, RunInserts, EditWrites,
      CliAborts, CliStep, ForbidInv, PoliciesAgree
<1>5. CASE JobRowStep \/ LifeStep \/ UNCHANGED vars
  <2>1. pc' # "enqueue" \/ UNCHANGED <<pc, due>>
    BY <1>5
    DEF JobRowStep, LifeStep, AddJob, DeleteJob, StartDaemon, CancelLoop, Crash, AdvanceClock
  <2>2. NothingQueued
    BY <1>5, StatementsQueueNothing
    DEF JobRowStep, LifeStep, AddJob, DeleteJob, StartDaemon, CancelLoop, Crash, AdvanceClock
  <2> QED
    BY <1>1, <2>1, <2>2, ForbidKept
<1> QED
  BY <1>1, <1>2, <1>3, <1>4, <1>5, ForbidKept, StatementsQueueNothing DEF Next

\* While nobody runs a job by hand or changes its policy, the loop alone never queues
\* a run of a forbid job beside an unfinished one: stops, kills, failing calls, jobs that
\* are added, deleted, paused, resumed and rescheduled included.
THEOREM ForbidIsKept == Spec => []ForbidSingleUnfinished
<1>1. CASE ~HandsOff
  <2>1. ForbidSingleUnfinished
    BY <1>1 DEF ForbidSingleUnfinished, HandsOff
  <2> QED
    BY <2>1, PTL
<1>2. CASE HandsOff
  <2>1. Init => ForbidInv /\ CopiesAreLive /\ NoRunOutlivesItsJob
    BY DEF Init, ForbidInv, PoliciesAgree, OneUnfinished, CheckHolds, CopiesAreLive,
           NoRunOutlivesItsJob, AbsentRun, IdleCli, Unfinished
  <2>2. Inv /\ CopiesAreLive /\ NoRunOutlivesItsJob /\ ForbidInv /\ [Next]_vars => ForbidInv'
    BY <1>2, ForbidNext
  <2>3. ForbidInv => ForbidSingleUnfinished
    BY DEF ForbidInv, OneUnfinished, ForbidSingleUnfinished
  <2> QED
    BY <2>1, <2>2, <2>3, HomeNext, CopiesNext, InvHolds, PTL DEF Spec
<1> QED
  BY <1>1, <1>2

-----------------------------------------------------------------------------
(* Scheduler implements RunLifecycle: the initial states map to initial    *)
(* states and every step of the loop, an executor goroutine, a CLI process *)
(* or the daemon's life maps to one step of RunLifecycle or to none.       *)

\* The state functions the refinement mapping puts for RunLifecycle's variables.
Status == [r \in RunIds |-> runs[r].st]
Owner == [r \in RunIds |-> runs[r].job]
Begun == {r \in RunIds : exec[r] # "none"}
Live == {r \in Active : reason[r] = "none"}

AbstractStep == [Lifecycle!Next]_(Lifecycle!vars)

LEMMA AbstractInit == Init => Lifecycle!Init
  BY DEF Init, Lifecycle!Init, Lifecycle!RunIds, RunIds, Active, AbsentRun

\* A step that changes no status, owner, goroutine or reason is no step at all.
LEMMA Unseen ==
    ASSUME \A r \in RunIds : runs'[r].st = runs[r].st /\ runs'[r].job = runs[r].job,
           UNCHANGED <<exec, reason>>
    PROVE  AbstractStep
<1>1. UNCHANGED <<Status, Owner, Begun, Live>>
  BY DEF Status, Owner, Begun, Live, Active
<1> QED
  BY <1>1 DEF AbstractStep, Lifecycle!vars, Status, Owner, Begun, Live

LEMMA AbstractQueue ==
    ASSUME Inv, NEW j \in Jobs, NEW s \in Time, NEW q \in Nat,
           CanInsert(j), Insert(j, s, q), UNCHANGED <<exec, reason>>
    PROVE  AbstractStep
<1>1. nextRun \in RunIds /\ runs \in [RunIds -> RunRow]
  BY DEF CanInsert, RunIds, Inv, TypeInv, TypeOK
<1>2. PICK k \in RunIds : k = nextRun
  BY <1>1
<1>3. \A r \in RunIds :
         /\ runs'[r].st = IF r = k THEN "pending" ELSE runs[r].st
         /\ runs'[r].job = IF r = k THEN j ELSE runs[r].job
  BY <1>1, <1>2, RunRowEffects DEF Insert
<1>4. runs[k].st = "absent" /\ exec[k] = "none"
  BY <1>2 DEF Inv, SafetyInv, RowsFollowIds, StartedRows, TypeInv, TypeOK
<1>5. UNCHANGED <<Begun, Live>>
  BY DEF Begun, Live, Active
<1>6. Status' = [r \in RunIds |-> IF r \in {k} THEN "pending" ELSE Status[r]]
  BY <1>3 DEF Status
<1>7. Owner' = [Owner EXCEPT ![k] = j]
  BY <1>3 DEF Owner
<1>8. Lifecycle!Queue(k, j)
  BY <1>4, <1>5, <1>6, <1>7
  DEF Lifecycle!Queue, Lifecycle!SetStatus, Lifecycle!RunIds, RunIds, Status, Owner, Begun, Live
<1> QED
  BY <1>8 DEF AbstractStep, Lifecycle!Next, Lifecycle!RunIds, RunIds

LEMMA AbstractCallOff ==
    ASSUME Inv, NEW j \in Jobs, runs' = CancelPendingByJob(runs, j),
           UNCHANGED <<exec, reason>>
    PROVE  AbstractStep
<1>1. \A r \in RunIds :
         /\ runs'[r].job = runs[r].job
         /\ runs'[r].st = IF runs[r].job = j /\ runs[r].st = "pending" THEN "canceled"
                          ELSE runs[r].st
  BY RunTableEffects DEF Inv, TypeInv, TypeOK
<1>2. UNCHANGED <<Begun, Live, Owner>>
  BY <1>1 DEF Begun, Live, Active, Owner
<1>3. Status' = [r \in RunIds |->
                    IF r \in {q \in RunIds : Owner[q] = j /\ Status[q] = "pending"}
                    THEN "canceled" ELSE Status[r]]
  BY <1>1 DEF Status, Owner
<1>4. Lifecycle!CallOff(j)
  BY <1>2, <1>3
  DEF Lifecycle!CallOff, Lifecycle!SetStatus, Lifecycle!RunIds, RunIds, Status, Owner, Begun, Live
<1> QED
  BY <1>4 DEF AbstractStep, Lifecycle!Next

LEMMA AbstractDelete ==
    ASSUME Inv, NEW j \in Jobs, DeleteJob(j)
    PROVE  AbstractStep
<1>1. \A r \in RunIds :
         /\ runs'[r].job = runs[r].job
         /\ runs'[r].st = IF runs[r].job = j /\ runs[r].st # "absent" THEN "deleted"
                          ELSE runs[r].st
  BY RunTableEffects DEF DeleteJob, Inv, TypeInv, TypeOK
<1>2. \A r \in RunIds : runs[r].job = j => runs[r].st # "absent"
  BY JobsAssumption DEF Inv, SafetyInv, RowsFollowIds
<1>3. UNCHANGED <<exec, reason>>
  BY DEF DeleteJob
<1>4. UNCHANGED <<Begun, Live, Owner>>
  BY <1>1, <1>3 DEF Begun, Live, Active, Owner
<1>5. Status' = [r \in RunIds |->
                    IF r \in {q \in RunIds : Owner[q] = j} THEN "deleted" ELSE Status[r]]
  BY <1>1, <1>2 DEF Status, Owner
<1>6. Lifecycle!Delete(j)
  BY <1>4, <1>5
  DEF Lifecycle!Delete, Lifecycle!SetStatus, Lifecycle!RunIds, RunIds, Status, Owner, Begun, Live
<1> QED
  BY <1>6 DEF AbstractStep, Lifecycle!Next

\* The half of a tick that queues runs.
LEMMA AbstractDueStep ==
    ASSUME Inv, NEW c \in due, DueStep(c)
    PROVE  AbstractStep
<1>0. c.id \in Jobs /\ c.row.next \in Time /\ tick \in Nat
  BY DEF Inv, TypeInv, TypeOK, JobCopy, JobRow, Time
<1>1. UNCHANGED <<exec, reason>>
  BY DEF DueStep, CheckUnfinished, CancelPending, EnqueueScheduled, AdvanceSchedule
<1>2. CASE UNCHANGED runs
  BY <1>1, <1>2, Unseen
<1>3. CASE runs' = CancelPendingByJob(runs, c.id)
  BY <1>0, <1>1, <1>3, AbstractCallOff
<1>4. CASE CanInsert(c.id) /\ Insert(c.id, c.row.next, tick)
  BY <1>0, <1>1, <1>4, AbstractQueue
<1> QED
  BY <1>2, <1>3, <1>4
  DEF DueStep, CheckUnfinished, CancelPending, EnqueueScheduled, AdvanceSchedule

\* The half that starts runs.  A victim that gets its reason here retires; the
\* run in hand is begun when no live run of its job is left.
LEMMA AbstractCancelVictim ==
    ASSUME Inv, NEW q \in victims, CancelVictim(q)
    PROVE  AbstractStep
<1>0. q \in RunIds /\ reason \in [RunIds -> Reasons]
  BY DEF Inv, TypeInv, TypeOK
<1>1. UNCHANGED <<Status, Owner, Begun>>
  BY DEF CancelVictim, Status, Owner, Begun
<1>2. CASE q \in Live
  <2>1. reason' = [reason EXCEPT ![q] = reason'[q]] /\ reason'[q] # "none"
    BY <1>0, <1>2 DEF CancelVictim, Live
  <2>2. Live' = Live \ {q}
    BY <1>0, <2>1 DEF CancelVictim, Live, Active
  <2>3. Lifecycle!Retire(q)
    BY <1>1, <1>2, <2>2 DEF Lifecycle!Retire, Status, Owner, Begun, Live
  <2> QED
    BY <1>0, <2>3 DEF AbstractStep, Lifecycle!Next, Lifecycle!RunIds, RunIds
<1>3. CASE q \notin Live
  <2>1. UNCHANGED <<runs, exec, reason>>
    BY <1>0, <1>3 DEF CancelVictim, Live
  <2> QED
    BY <2>1, Unseen
<1> QED
  BY <1>2, <1>3

LEMMA AbstractMarkRunning ==
    ASSUME Inv, MarkRunning
    PROVE  AbstractStep
<1>1. UNCHANGED <<exec, reason>>
  BY DEF MarkRunning
<1>2. CASE UNCHANGED runs
  BY <1>1, <1>2, Unseen
<1>3. CASE CanMarkRunning(runs, cur) /\ runs' = MarkRunRunning(runs, cur)
  <2>1. PICK k \in RunIds : k = cur
    BY DEF Inv, SafetyInv, LoopHoldsCur, MarkRunning
  <2>2. \A r \in RunIds :
           /\ runs'[r].st = IF r = k THEN "running" ELSE runs[r].st
           /\ runs'[r].job = runs[r].job
    BY <1>3, <2>1, RunRowEffects DEF Inv, TypeInv, TypeOK
  <2>3. UNCHANGED <<Begun, Live, Owner>>
    BY <1>1, <2>2 DEF Begun, Live, Active, Owner
  <2>4. Status' = [r \in RunIds |-> IF r \in {k} THEN "running" ELSE Status[r]]
    BY <2>2 DEF Status
  <2>5. Status[k] = "pending"
    BY <1>3, <2>1 DEF CanMarkRunning, Status
  <2>6. Lifecycle!TakeUp(k)
    BY <2>3, <2>4, <2>5
    DEF Lifecycle!TakeUp, Lifecycle!SetStatus, Lifecycle!RunIds, RunIds, Status, Owner, Begun, Live
  <2> QED
    BY <2>6 DEF AbstractStep, Lifecycle!Next, Lifecycle!RunIds, RunIds
<1> QED
  BY <1>2, <1>3 DEF MarkRunning

LEMMA AbstractStart ==
    ASSUME Inv, StartRunExecution
    PROVE  AbstractStep
<1>1. PICK k \in RunIds : k = cur
  BY DEF Inv, SafetyInv, LoopHoldsCur, StartRunExecution
<1>2. /\ k \notin Begun
      /\ Status[k] \in {"running", "deleted"}
      /\ \A s \in Live : Owner[s] # Owner[k]
  BY <1>1 DEF Inv, SafetyInv, LoopHoldsCur, StartRunExecution, Live, Active, Begun, Status, Owner
<1>3. /\ exec' = [exec EXCEPT ![k] = "executing"]
      /\ reason' = [reason EXCEPT ![k] = "none"]
      /\ UNCHANGED runs
  BY <1>1 DEF StartRunExecution
<1>4. Begun' = Begun \cup {k} /\ Live' = Live \cup {k}
  BY <1>3 DEF Begun, Live, Active, Inv, TypeInv, TypeOK
<1>5. UNCHANGED <<Status, Owner>>
  BY <1>3 DEF Status, Owner
<1>6. Lifecycle!Begin(k)
  BY <1>2, <1>4, <1>5 DEF Lifecycle!Begin, Status, Owner, Begun, Live
<1> QED
  BY <1>6 DEF AbstractStep, Lifecycle!Next, Lifecycle!RunIds, RunIds

LEMMA AbstractLoopStep ==
    ASSUME Inv, LoopStep
    PROVE  AbstractStep
<1>1. ASSUME NEW c \in due, DueStep(c)
      PROVE  AbstractStep
  BY <1>1, AbstractDueStep
<1>2. ASSUME NEW q \in victims, CancelVictim(q)
      PROVE  AbstractStep
  BY <1>2, AbstractCancelVictim
<1>3. CASE TryClaimPending
  <2>1. UNCHANGED <<exec, reason>>
    BY <1>3 DEF TryClaimPending
  <2>2. \A r \in RunIds : runs'[r].st = runs[r].st /\ runs'[r].job = runs[r].job
    BY <1>3, RunRowEffects DEF TryClaimPending, Inv, TypeInv, TypeOK, SafetyInv, LoopHoldsCur
  <2> QED
    BY <2>1, <2>2, Unseen
<1>4. CASE \/ ListDueJobs \/ ListPending \/ SeeCancellation \/ LoopReturns
           \/ \E r \in pend : PrepareRunStart(r)
  <2>1. UNCHANGED <<runs, exec, reason>>
    BY <1>4 DEF ListDueJobs, ListPending, SeeCancellation, LoopReturns, PrepareRunStart
  <2> QED
    BY <2>1, Unseen
<1> QED
  BY <1>1, <1>2, <1>3, <1>4, AbstractMarkRunning, AbstractStart DEF LoopStep

LEMMA AbstractExecutorStep ==
    ASSUME Inv, NEW q \in RunIds, ExecutorStep(q)
    PROVE  AbstractStep
<1>1. CASE ExecutionEnds(q)
  <2>1. UNCHANGED <<Status, Owner, Begun, Live>>
    BY <1>1 DEF ExecutionEnds, Status, Owner, Begun, Live, Active, Inv, TypeInv, TypeOK
  <2> QED
    BY <2>1 DEF AbstractStep, Lifecycle!vars, Status, Owner, Begun, Live
<1>2. CASE MarkFinished(q)
  <2>1. UNCHANGED <<Begun, Live>>
    BY <1>2 DEF MarkFinished, Begun, Live, Active, Inv, TypeInv, TypeOK
  <2>2. CASE UNCHANGED runs
    BY <2>1, <2>2 DEF AbstractStep, Lifecycle!vars, Status, Owner, Begun, Live
  <2>3. CASE CanMarkFinished(runs, q) /\ runs' = MarkRunFinished(runs, q, final[q])
    <3>1. exec[q] = "persist"
      BY <1>2 DEF MarkFinished
    <3>2. Status[q] = "running" /\ q \in Begun
      BY <2>3, <3>1 DEF CanMarkFinished, Inv, SafetyInv, StartedRows, Status, Begun
    <3>3. final[q] \in {"finished", "canceled"}
      BY <3>1 DEF Inv, TypeInv, FinalIsDecided, Terminal
    <3>4. \A r \in RunIds :
             /\ runs'[r].st = IF r = q THEN final[q] ELSE runs[r].st
             /\ runs'[r].job = runs[r].job
      BY <2>3, RunRowEffects DEF Inv, TypeInv, TypeOK
    <3>5. PICK s \in {"finished", "canceled"} : s = final[q]
      BY <3>3
    <3>6. Status' = [r \in RunIds |-> IF r \in {q} THEN s ELSE Status[r]]
      BY <3>4, <3>5 DEF Status
    <3>7. UNCHANGED Owner
      BY <3>4 DEF Owner
    <3>8. Lifecycle!Conclude(q, s)
      BY <2>1, <3>2, <3>6, <3>7
      DEF Lifecycle!Conclude, Lifecycle!SetStatus, Lifecycle!RunIds, RunIds, Status, Owner, Begun, Live
    <3> QED
      BY <3>8 DEF AbstractStep, Lifecycle!Next, Lifecycle!RunIds, RunIds
  <2> QED
    BY <1>2, <2>2, <2>3 DEF MarkFinished
<1>3. CASE FinishActiveRun(q)
  <2>1. UNCHANGED <<Status, Owner, Begun>> /\ Live' = Live \ {q}
    BY <1>3 DEF FinishActiveRun, Status, Owner, Begun, Live, Active, Inv, TypeInv, TypeOK
  <2>2. CASE q \in Live
    <3>1. Lifecycle!Retire(q)
      BY <2>1, <2>2 DEF Lifecycle!Retire, Status, Owner, Begun, Live
    <3> QED
      BY <3>1 DEF AbstractStep, Lifecycle!Next, Lifecycle!RunIds, RunIds
  <2>3. CASE q \notin Live
    <3>1. UNCHANGED Live
      BY <2>1, <2>3
    <3> QED
      BY <2>1, <3>1 DEF AbstractStep, Lifecycle!vars, Status, Owner, Begun, Live
  <2> QED
    BY <2>2, <2>3
<1> QED
  BY <1>1, <1>2, <1>3 DEF ExecutorStep, PersistStep

LEMMA AbstractCliStep ==
    ASSUME Inv, NEW c \in Clis, CliProcessStep(c)
    PROVE  AbstractStep
<1>1. UNCHANGED <<exec, reason>>
  BY DEF CliProcessStep, RunReads, EditReads, RunChecks, RunCancelsPending, RunInserts,
         EditWrites, CliAborts, CliStep
<1>2. CASE UNCHANGED runs
  BY <1>1, <1>2, Unseen
<1>3. CASE RunCancelsPending(c)
  <2>1. cli[c].id \in Jobs
    BY <1>3 DEF RunCancelsPending, CliState, IdleCli, Inv, TypeInv, TypeOK
  <2>2. runs' = CancelPendingByJob(runs, cli[c].id)
    BY <1>3 DEF RunCancelsPending
  <2> QED
    BY <1>1, <2>1, <2>2, AbstractCallOff
<1>4. CASE CanInsert(cli[c].id) /\ Insert(cli[c].id, NoTime, cli[c].at) /\ RunInserts(c)
  <2>1. cli[c].id \in Jobs /\ cli[c].at \in Nat /\ NoTime \in Time
    BY <1>4 DEF RunInserts, CliState, IdleCli, Time, Inv, TypeInv, TypeOK
  <2> QED
    BY <1>1, <1>4, <2>1, AbstractQueue
<1> QED
  BY <1>2, <1>3, <1>4
  DEF CliProcessStep, RunReads, EditReads, RunChecks, RunInserts, EditWrites, CliAborts

LEMMA AbstractOtherStep ==
    ASSUME Inv, JobRowStep \/ LifeStep \/ UNCHANGED vars
    PROVE  AbstractStep
<1>1. ASSUME NEW j \in Jobs, DeleteJob(j)
      PROVE  AbstractStep
  BY <1>1, AbstractDelete
<1>2. CASE Crash
  <2>1. UNCHANGED <<Status, Owner, Begun>> /\ Live' = {}
    BY <1>2 DEF Crash, Status, Owner, Begun, Live, Active, Inv, TypeInv, TypeOK
  <2>2. Lifecycle!Abandon
    BY <2>1 DEF Lifecycle!Abandon, Status, Owner, Begun, Live
  <2> QED
    BY <2>2 DEF AbstractStep, Lifecycle!Next
<1>3. ASSUME NEW j \in Jobs, NEW row \in AddableRows, AddJob(j, row)
      PROVE  AbstractStep
  BY <1>3, Unseen DEF AddJob
<1>4. CASE StartDaemon \/ CancelLoop \/ AdvanceClock \/ UNCHANGED vars
  BY <1>4, Unseen DEF StartDaemon, CancelLoop, AdvanceClock
<1> QED
  BY <1>1, <1>2, <1>3, <1>4 DEF JobRowStep, LifeStep

LEMMA NextIsAbstract == Inv /\ [Next]_vars => AbstractStep
<1> SUFFICES ASSUME Inv, [Next]_vars PROVE AbstractStep
  OBVIOUS
<1> QED
  BY AbstractLoopStep, AbstractExecutorStep, AbstractCliStep, AbstractOtherStep DEF Next

\* The scheduler, with its loop, goroutines, CLI processes, crashes and failing
\* calls, implements RunLifecycle: every run of the table is queued, called off or
\* taken up, begun at most once and never beside a live run of its job.
THEOREM SchedulerImplementsRunLifecycle == Spec => ImplementsRunLifecycle
  BY AbstractInit, NextIsAbstract, InvHolds, PTL
  DEF Spec, ImplementsRunLifecycle, Lifecycle!Spec, AbstractStep
-----------------------------------------------------------------------------
(* The daemon of Scheduler is the one that Service provides.               *)

Daemon == INSTANCE OneDaemon

DrainIsStopping == pc = "drain" => daemon = "stopping"

LEMMA DrainNext == Inv /\ DrainIsStopping /\ [Next]_vars => DrainIsStopping' /\ [Daemon!Next]_daemon
<1> SUFFICES ASSUME Inv, DrainIsStopping, [Next]_vars
             PROVE  DrainIsStopping' /\ [Daemon!Next]_daemon
  OBVIOUS
<1> USE DEF DrainIsStopping
<1>1. CASE LoopStep
  <2>1. CASE LoopReturns
    BY <2>1 DEF LoopReturns, Daemon!Next, Daemon!Return
  <2>2. CASE SeeCancellation
    BY <2>2 DEF SeeCancellation, lifeVars
  <2>3. ASSUME NEW c \in due, DueStep(c)
        PROVE  daemon' = daemon /\ (pc' = "drain" => pc = "drain")
    BY <2>3 DEF DueStep, CheckUnfinished, CancelPending, EnqueueScheduled, AdvanceSchedule, SkipDue,
                lifeVars
  <2>4. ASSUME ListDueJobs \/ ListPending \/ (\E r \in pend : PrepareRunStart(r))
        PROVE  daemon' = daemon /\ (pc' = "drain" => pc = "drain")
    BY <2>4 DEF ListDueJobs, ListPending, PrepareRunStart, SkipRun, AfterRun, lifeVars
  <2>5. ASSUME (\E r \in victims : CancelVictim(r)) \/ TryClaimPending
        PROVE  daemon' = daemon /\ (pc' = "drain" => pc = "drain")
    BY <2>5 DEF CancelVictim, TryClaimPending, SkipRun, AfterRun, lifeVars
  <2>6. ASSUME MarkRunning \/ StartRunExecution
        PROVE  daemon' = daemon /\ (pc' = "drain" => pc = "drain")
    BY <2>6 DEF MarkRunning, StartRunExecution, SkipRun, AfterRun, lifeVars
  <2> QED
    BY <1>1, <2>1, <2>2, <2>3, <2>4, <2>5, <2>6 DEF LoopStep
<1>2. CASE UNCHANGED <<daemon, pc>>
  BY <1>2
<1>3. ASSUME NEW r \in RunIds, ExecutorStep(r) PROVE UNCHANGED <<daemon, pc>>
  BY <1>3 DEF ExecutorStep, PersistStep, ExecutionEnds, MarkFinished, FinishActiveRun, lifeVars,
              loopVars
<1>4. ASSUME NEW c \in Clis, CliProcessStep(c) PROVE UNCHANGED <<daemon, pc>>
  BY <1>4 DEF CliProcessStep, CliStep, RunReads, RunChecks, RunCancelsPending, RunInserts, EditReads,
              EditWrites, CliAborts, lifeVars, loopVars
<1>5. ASSUME JobRowStep \/ AdvanceClock \/ UNCHANGED vars PROVE UNCHANGED <<daemon, pc>>
  BY <1>5 DEF JobRowStep, AddJob, DeleteJob, AdvanceClock, lifeVars, loopVars, vars
<1>6. CASE StartDaemon
  BY <1>6 DEF StartDaemon, Daemon!Next, Daemon!Start
<1>7. CASE CancelLoop
  BY <1>7 DEF CancelLoop, Daemon!Next, Daemon!Cancel, loopVars
<1>8. CASE Crash
  BY <1>8 DEF Crash, Daemon!Next, Daemon!Kill
<1> QED
  BY <1>1, <1>2, <1>3, <1>4, <1>5, <1>6, <1>7, <1>8 DEF Next, LifeStep

\* The loop comes and goes as OneDaemon says (StartDaemon, CancelLoop, LoopReturns,
\* Crash), which is what the daemons of Service are when taken together.
THEOREM SchedulerHasOneDaemon == Spec => Daemon!Spec
<1>1. Init => DrainIsStopping /\ Daemon!Init
  BY DEF Init, DrainIsStopping, Daemon!Init
<1> QED
  BY <1>1, DrainNext, InvHolds, PTL DEF Spec, Daemon!Spec

=============================================================================
