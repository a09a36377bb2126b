----------------------------- MODULE Scheduler -----------------------------
(***************************************************************************)
(* One jobsd instance at run time: the scheduler loop goroutine            *)
(* (internal/daemon/loop.go, policy.go), the executor goroutine of every   *)
(* run it started, and any number of CLI processes (internal/app/job.go)   *)
(* that share the SQLite database with it.                                 *)
(*                                                                         *)
(* The loop and the CLI are cut at every database call: between two calls  *)
(* another process may change the rows they have read.  What the loop does *)
(* in memory between two calls is part of the step of the call before it,  *)
(* except the marking of the handles it cancels, one step each, because    *)
(* the executor goroutines read those marks.                               *)
(***************************************************************************)
EXTENDS RunTable

CONSTANTS
    Clis,           \* CLI processes that may be open at the same time
    CliOps,         \* the CLI commands they run
    InitialJobs,    \* the rows the jobs may have at the start
    ClaimLimit,     \* Loop.ClaimLimit, 64 by default
    MaxNow,         \* bound: the clock stops there
    MaxStarts,      \* bound: number of times the daemon is started
    MaxStops,       \* bound: number of times it is asked to stop
    MaxCrashes,     \* bound: number of times it is killed
    MaxFaults       \* bound: database calls of the daemon that fail

ASSUME InitialJobsAssumption == InitialJobs \subseteq [Jobs -> JobRow]
ASSUME BoundsAssumption ==
    /\ {ClaimLimit, MaxNow, MaxStarts, MaxStops, MaxCrashes, MaxFaults}
          \subseteq Nat

VARIABLES
    jobs, runs,     \* the two tables
    nextRun,        \* the next AUTOINCREMENT id of job_runs
    now,            \* the wall clock
    daemon,         \* "down", "up", or "stopping" once the loop's ctx is cancelled
    pc,             \* where the loop goroutine stands
    tick,           \* the time of the tick being processed
    due, pend,      \* what is left of the ListDue and ListPending results
    cur,            \* the run being started
    victims,        \* handles the loop has collected and not yet cancelled
    exec,           \* where the executor goroutine of each run stands
    reason,         \* activeRun.Reason
    final,          \* the status persistRunCompletion has decided on
    cli,            \* where each CLI process stands
    starts, stops, crashes, faults

dbVars   == <<jobs, runs, nextRun>>
loopVars == <<pc, tick, due, pend, cur, victims>>
execVars == <<exec, reason, final>>
lifeVars == <<daemon, starts, stops, crashes>>
vars     == <<dbVars, now, lifeVars, loopVars, execVars, cli, faults>>

LoopPcs == {"down", "idle", "due", "enqueue", "advance", "pick", "claim",
            "mark", "launch", "drain"}
ExecPcs == {"none", "executing", "persist", "closing", "done", "lost"}
Reasons == {"none", "replace", "shutdown"}

IdleCli == [pc |-> "idle"]
CliState ==
    {IdleCli}
    \cup [pc : {"run"}, id : Jobs, policy : Policies, at : Nat]
    \cup [pc : {"insert"}, id : Jobs, at : Nat]
    \cup [pc : {"write"}, id : Jobs, row : JobRow]

\* The runs with an entry in activeByRunID: the entry is made when the
\* execution starts and removed by the deferred finishActiveRun.
Active == {r \in RunIds : exec[r] \in {"executing", "persist", "closing"}}

\* Mutant: a handle is gone as soon as its command has ended.
ExecutingOf(j) == {r \in RunIds : exec[r] = "executing" /\ runs[r].job = j}

\* hasActiveRun and the collection loop of cancelJobRuns
ActiveOf(j) == {r \in Active : runs[r].job = j}

-----------------------------------------------------------------------------
(***************************************************************************)
(* Database calls of the loop carry its ctx: once that is cancelled they   *)
(* fail, and before that they may fail for reasons of their own.           *)
(***************************************************************************)
CallWorks == daemon = "up" /\ UNCHANGED faults

CallFails ==
    \/ daemon = "stopping" /\ UNCHANGED faults
    \/ daemon = "up" /\ faults < MaxFaults /\ faults' = faults + 1

\* Calls made with context.Background() fail only for reasons of their own.
DetachedCallWorks == UNCHANGED faults
DetachedCallFails == faults < MaxFaults /\ faults' = faults + 1

\* An INSERT fails without its parent row, or when the table is full.
CanInsert(j) == IsLive(jobs, j) /\ nextRun <= MaxRuns

Insert(j, slot, queued) ==
    /\ runs' = InsertRun(runs, nextRun, j, slot, queued)
    /\ nextRun' = nextRun + 1

-----------------------------------------------------------------------------
(* The first half of a tick: processDueJobs.                               *)

\* A tick arrives and ListDue reads the due rows at that time.
ListDueJobs ==
    /\ pc = "idle"
    /\ \/ CallWorks /\ due' = ListDue(jobs, now)
       \/ CallFails /\ due' = {}
    /\ tick' = now
    /\ pc' = "due"
    /\ UNCHANGED <<dbVars, now, lifeVars, pend, cur, victims, execVars,
                   cli>>

\* EnqueueScheduledWithPolicy gives up on c; the loop goes on with the rest.
SkipDue(c) == due' = due \ {c} /\ pc' = "due"

\* Mutant: the conflict returns before the schedule is advanced.
CheckUnfinishedAndReturn(c) ==
    /\ pc = "due" /\ c \in due /\ DueFirst(c, due)
    /\ c.row.policy = "forbid"
    /\ CallWorks
    /\ IF UnfinishedByJob(runs, c.id) = {} THEN pc' = "enqueue" /\ UNCHANGED due
                                          ELSE SkipDue(c)
    /\ UNCHANGED <<dbVars, now, lifeVars, tick, pend, cur, victims, execVars,
                   cli>>

\* forbid: a run that is still pending or running means no new one, but the
\* schedule advances all the same.
CheckUnfinished(c) ==
    /\ pc = "due" /\ c \in due /\ DueFirst(c, due)
    /\ c.row.policy = "forbid"
    /\ \/ /\ CallWorks
          /\ pc' = IF UnfinishedByJob(runs, c.id) = {} THEN "enqueue" ELSE "advance"
          /\ UNCHANGED due
       \/ CallFails /\ SkipDue(c)
    /\ UNCHANGED <<dbVars, now, lifeVars, tick, pend, cur, victims, execVars,
                   cli>>

\* replace: pending runs of the job are canceled, claimed ones too.
CancelPending(c) ==
    /\ pc = "due" /\ c \in due /\ DueFirst(c, due)
    /\ c.row.policy = "replace"
    /\ \/ /\ CallWorks
          /\ runs' = CancelPendingByJob(runs, c.id)
          /\ pc' = "enqueue"
          /\ UNCHANGED due
       \/ CallFails /\ SkipDue(c) /\ UNCHANGED runs
    /\ UNCHANGED <<jobs, nextRun, now, lifeVars, tick, pend, cur, victims,
                   execVars, cli>>

\* EnqueueScheduled INSERTs the run and then SELECTs it back: the second call
\* may fail when the first has taken effect.
EnqueueScheduled(c) ==
    /\ c \in due /\ DueFirst(c, due)
    /\ \/ pc = "enqueue"
       \/ pc = "due" /\ c.row.policy = "queue"
    /\ \/ /\ CallWorks /\ CanInsert(c.id)
          /\ Insert(c.id, c.row.next, tick)
          /\ pc' = "advance"
          /\ UNCHANGED due
       \/ /\ CallFails /\ daemon = "up" /\ CanInsert(c.id)
          /\ Insert(c.id, c.row.next, tick)
          /\ SkipDue(c)
       \/ /\ CallFails \/ (CallWorks /\ ~CanInsert(c.id))
          /\ SkipDue(c)
          /\ UNCHANGED <<runs, nextRun>>
    /\ UNCHANGED <<jobs, now, lifeVars, tick, pend, cur, victims, execVars,
                   cli>>

\* advanceScheduleState: a one-time job is switched off by writing the whole
\* row back from the copy ListDue returned; any other only moves next_run_at.
AdvanceSchedule(c) ==
    /\ pc = "advance" /\ c \in due /\ DueFirst(c, due)
    /\ \/ /\ CallWorks
          /\ jobs' = IF c.row.kind = "once"
                     THEN JobUpdate(jobs, c.id,
                              [c.row EXCEPT !.enabled = FALSE, !.next = NoTime])
                     ELSE UpdateNextRun(jobs, c.id, FutureNextRun(c.row.next, tick))
       \/ CallFails /\ UNCHANGED jobs
    /\ SkipDue(c)
    /\ UNCHANGED <<runs, nextRun, now, lifeVars, tick, pend, cur, victims,
                   execVars, cli>>

-----------------------------------------------------------------------------
(* The second half of a tick: processPendingRuns.                          *)

AfterRun(rest) == IF rest = {} THEN "idle" ELSE "pick"

ListPending ==
    /\ pc = "due" /\ due = {}
    /\ \/ CallWorks /\ pend' = OldestPending(runs, ClaimLimit)
       \/ CallFails /\ pend' = {}
    /\ pc' = AfterRun(pend')
    /\ tick' = 0
    /\ UNCHANGED <<dbVars, now, lifeVars, due, cur, victims, execVars,
                   cli>>

\* On to the next run of the batch; the locals go out of scope.
SkipRun(r) ==
    /\ pend' = pend \ {r}
    /\ pc' = AfterRun(pend')
    /\ cur' = 0
    /\ victims' = {}

\* GetByID reads the job as it is now; prepareRunStart then decides on it.
\* forbid and queue wait for the active run, replace collects it.
PrepareRunStart(r) ==
    LET j == runs[r].job IN
    /\ pc = "pick" /\ r \in pend /\ PendingFirst(runs, r, pend)
    /\ \/ /\ CallWorks /\ IsLive(jobs, j)
          /\ jobs[j].policy = "replace" \/ ActiveOf(j) = {}
          /\ pc' = "claim" /\ cur' = r
          /\ victims' = ActiveOf(j)
          /\ UNCHANGED pend
       \/ /\ CallWorks /\ IsLive(jobs, j)
          /\ jobs[j].policy # "replace" /\ ActiveOf(j) # {}
          /\ SkipRun(r)
       \/ /\ CallFails \/ (CallWorks /\ ~IsLive(jobs, j))
          /\ SkipRun(r)
    /\ UNCHANGED <<dbVars, now, lifeVars, tick, due, execVars, cli>>

\* Mutant: a shutdown does not cancel the runs that are active.
CancelVictimOnReplace(r) ==
    /\ pc \in {"claim", "drain"} /\ r \in victims
    /\ victims' = victims \ {r}
    /\ reason' = IF r \in Active /\ reason[r] = "none" /\ pc = "claim"
                 THEN [reason EXCEPT ![r] = "replace"]
                 ELSE reason
    /\ UNCHANGED <<dbVars, now, lifeVars, pc, tick, due, pend, cur, exec,
                   final, cli, faults>>

\* setReason keeps the first reason; on a handle whose goroutine is gone it
\* has no effect anyone could see.
CancelVictim(r) ==
    /\ pc \in {"claim", "drain"} /\ r \in victims
    /\ victims' = victims \ {r}
    /\ reason' = IF r \in Active /\ reason[r] = "none"
                 THEN [reason EXCEPT ![r] = IF pc = "drain" THEN "shutdown"
                                                            ELSE "replace"]
                 ELSE reason
    /\ UNCHANGED <<dbVars, now, lifeVars, pc, tick, due, pend, cur, exec,
                   final, cli, faults>>

TryClaimPending ==
    /\ pc = "claim" /\ victims = {}
    /\ \/ /\ CallWorks /\ CanClaim(runs, cur)
          /\ runs' = ClaimRun(runs, cur)
          /\ pc' = "mark"
          /\ UNCHANGED <<pend, cur, victims>>
       \/ /\ CallFails \/ (CallWorks /\ ~CanClaim(runs, cur))
          /\ SkipRun(cur)
          /\ UNCHANGED runs
    /\ UNCHANGED <<jobs, nextRun, now, lifeVars, tick, due, execVars, cli>>

\* Mutant: an error is logged and the command started all the same.
MarkRunningOrNot ==
    /\ pc = "mark"
    /\ \/ CallWorks /\ CanMarkRunning(runs, cur) /\ runs' = MarkRunRunning(runs, cur)
       \/ /\ CallFails \/ (CallWorks /\ ~CanMarkRunning(runs, cur))
          /\ UNCHANGED runs
    /\ pc' = "launch"
    /\ UNCHANGED <<jobs, nextRun, now, lifeVars, tick, due, pend, cur, victims, execVars,
                   cli>>

\* When MarkRunning fails the loop goes on; nothing undoes the claim.
MarkRunning ==
    /\ pc = "mark"
    /\ \/ /\ CallWorks /\ CanMarkRunning(runs, cur)
          /\ runs' = MarkRunRunning(runs, cur)
          /\ pc' = "launch"
          /\ UNCHANGED <<pend, cur, victims>>
       \/ /\ CallFails \/ (CallWorks /\ ~CanMarkRunning(runs, cur))
          /\ SkipRun(cur)
          /\ UNCHANGED runs
    /\ UNCHANGED <<jobs, nextRun, now, lifeVars, tick, due, execVars, cli>>

\* startRunExecution: the handle enters activeByRunID and the command starts.
StartRunExecution ==
    /\ pc = "launch"
    /\ exec' = [exec EXCEPT ![cur] = "executing"]
    /\ reason' = [reason EXCEPT ![cur] = "none"]
    /\ SkipRun(cur)
    /\ UNCHANGED <<dbVars, now, lifeVars, tick, due, final, cli, faults>>

-----------------------------------------------------------------------------
(* The executor goroutine of a run: Execute, then persistRunCompletion.    *)

\* The status to record follows the reason, whatever the command returned.
RecordedStatus(why) == IF why = "none" THEN "finished" ELSE "canceled"

\* Execute returns: the command has ended, by itself or killed, and its pipes
\* are closed.  persistRunCompletion reads the reason; a cancellation between
\* the two is one that came just before the command ended.
ExecutionEnds(r) ==
    /\ exec[r] = "executing"
    /\ exec' = [exec EXCEPT ![r] = "persist"]
    /\ final' = [final EXCEPT ![r] = RecordedStatus(reason[r])]
    /\ UNCHANGED <<dbVars, now, lifeVars, loopVars, reason, cli, faults>>

\* On an error the goroutine returns: no summary, no hook.  Otherwise it
\* writes the job's last_run columns and calls the hook, while the handle is
\* still in the map.
MarkFinished(r) ==
    /\ exec[r] = "persist"
    /\ \/ /\ DetachedCallWorks /\ CanMarkFinished(runs, r)
          /\ runs' = MarkRunFinished(runs, r, final[r])
       \/ /\ DetachedCallFails \/ (DetachedCallWorks /\ ~CanMarkFinished(runs, r))
          /\ UNCHANGED runs
    /\ exec' = [exec EXCEPT ![r] = "closing"]
    /\ UNCHANGED <<jobs, nextRun, now, lifeVars, loopVars, reason, final,
                   cli>>

\* Mutant: the handle stays in the map.
FinishKeepingHandle(r) ==
    /\ exec[r] = "closing"
    /\ UNCHANGED vars

\* The deferred finishActiveRun, after the hook has returned.
FinishActiveRun(r) ==
    /\ exec[r] = "closing"
    /\ exec' = [exec EXCEPT ![r] = "done"]
    /\ reason' = [reason EXCEPT ![r] = "none"]
    /\ final' = [final EXCEPT ![r] = "none"]
    /\ UNCHANGED <<dbVars, now, lifeVars, loopVars, cli, faults>>

-----------------------------------------------------------------------------
(* The life of the daemon.                                                 *)

StartDaemon ==
    /\ daemon = "down" /\ starts < MaxStarts
    /\ daemon' = "up" /\ starts' = starts + 1
    /\ pc' = "idle"
    /\ UNCHANGED <<dbVars, now, stops, crashes, tick, due, pend, cur, victims,
                   execVars, cli, faults>>

\* A signal or the shutdown request cancels the loop's ctx, wherever it stands.
CancelLoop ==
    /\ daemon = "up" /\ stops < MaxStops
    /\ daemon' = "stopping" /\ stops' = stops + 1
    /\ UNCHANGED <<dbVars, now, starts, crashes, loopVars, execVars, cli,
                   faults>>

\* Back at the select of Run, the loop collects every handle to cancel it.
SeeCancellation ==
    /\ daemon = "stopping" /\ pc = "idle"
    /\ victims' = Active
    /\ pc' = "drain"
    /\ UNCHANGED <<dbVars, now, lifeVars, tick, due, pend, cur, execVars,
                   cli, faults>>

\* wg.Wait returns when no executor goroutine is left; then the process exits.
LoopReturns ==
    /\ pc = "drain" /\ victims = {} /\ Active = {}
    /\ daemon' = "down" /\ pc' = "down"
    /\ UNCHANGED <<dbVars, now, starts, stops, crashes, tick, due, pend, cur,
                   victims, execVars, cli, faults>>

\* The process is killed.  Its goroutines and its memory are gone, the rows
\* stay as they are, and the commands it had started go on by themselves.
Crash ==
    /\ daemon # "down" /\ crashes < MaxCrashes
    /\ daemon' = "down" /\ crashes' = crashes + 1
    /\ pc' = "down" /\ tick' = 0 /\ due' = {} /\ pend' = {} /\ cur' = 0
    /\ victims' = {}
    /\ exec' = [r \in RunIds |-> IF r \in Active THEN "lost" ELSE exec[r]]
    /\ reason' = [r \in RunIds |-> "none"]
    /\ final' = [r \in RunIds |-> "none"]
    /\ UNCHANGED <<dbVars, now, starts, stops, cli, faults>>

AdvanceClock ==
    /\ now < MaxNow
    /\ now' = now + 1
    /\ UNCHANGED <<dbVars, lifeVars, loopVars, execVars, cli, faults>>

-----------------------------------------------------------------------------
(***************************************************************************)
(* The CLI.  Each command opens the database, reads the row by name and    *)
(* only then writes; it may die, or fail, before any of its steps.         *)
(***************************************************************************)
CliStep(c, step) ==
    /\ cli' = [cli EXCEPT ![c] = step]
    /\ UNCHANGED <<now, lifeVars, loopVars, execVars, faults>>

\* job run: GetByName, then the current time.
RunReads(c, j) ==
    /\ "run" \in CliOps /\ cli[c].pc = "idle" /\ IsLive(jobs, j)
    /\ CliStep(c, [pc |-> "run", id |-> j, policy |-> jobs[j].policy, at |-> now])
    /\ UNCHANGED dbVars

\* job run under forbid: ListUnfinishedByJob, ErrRunConflict if there is one.
RunChecks(c) ==
    /\ cli[c].pc = "run" /\ cli[c].policy = "forbid"
    /\ CliStep(c, IF UnfinishedByJob(runs, cli[c].id) = {}
                  THEN [pc |-> "insert", id |-> cli[c].id, at |-> cli[c].at]
                  ELSE IdleCli)
    /\ UNCHANGED dbVars

\* job run under replace
RunCancelsPending(c) ==
    /\ cli[c].pc = "run" /\ cli[c].policy = "replace"
    /\ runs' = CancelPendingByJob(runs, cli[c].id)
    /\ CliStep(c, [pc |-> "insert", id |-> cli[c].id, at |-> cli[c].at])
    /\ UNCHANGED <<jobs, nextRun>>

\* EnqueueManual; under queue nothing comes before it.
RunInserts(c) ==
    /\ \/ cli[c].pc = "insert"
       \/ cli[c].pc = "run" /\ cli[c].policy = "queue"
    /\ \/ CanInsert(cli[c].id) /\ Insert(cli[c].id, NoTime, cli[c].at)
       \/ ~CanInsert(cli[c].id) /\ UNCHANGED <<runs, nextRun>>
    /\ CliStep(c, IdleCli)
    /\ UNCHANGED jobs

(***************************************************************************)
(* What job update, pause and resume make of the row they read.  An update *)
(* that touches neither schedule nor enabled (a new command or policy)     *)
(* carries next_run_at along; one that does recomputes it from the         *)
(* present, or clears it for a disabled job.  Pausing a paused job and     *)
(* resuming an enabled one write nothing.                                  *)
(***************************************************************************)
Recomputed(row) == [row EXCEPT !.next = IF row.enabled THEN NextFromNow(now) ELSE NoTime]

EditedRows(row) ==
    (IF "update" \in CliOps
        THEN {[row EXCEPT !.policy = p] : p \in Policies} ELSE {})
    \cup (IF "reschedule" \in CliOps
        THEN {Recomputed([row EXCEPT !.kind = k]) : k \in Kinds} ELSE {})
    \cup (IF "pause" \in CliOps /\ row.enabled
        THEN {Recomputed([row EXCEPT !.enabled = FALSE])} ELSE {})
    \cup (IF "resume" \in CliOps /\ ~row.enabled
        THEN {Recomputed([row EXCEPT !.enabled = TRUE])} ELSE {})

EditReads(c, j) ==
    /\ cli[c].pc = "idle" /\ IsLive(jobs, j)
    /\ \E row \in EditedRows(jobs[j]) :
          CliStep(c, [pc |-> "write", id |-> j, row |-> row])
    /\ UNCHANGED dbVars

EditWrites(c) ==
    /\ cli[c].pc = "write"
    /\ jobs' = JobUpdate(jobs, cli[c].id, cli[c].row)
    /\ CliStep(c, IdleCli)
    /\ UNCHANGED <<runs, nextRun>>

\* job add: one INSERT of a row whose next_run_at was computed just before.
AddJob(j, row) ==
    /\ "add" \in CliOps /\ jobs[j].state = "new"
    /\ jobs' = [jobs EXCEPT ![j] = row]
    /\ UNCHANGED <<runs, nextRun, now, lifeVars, loopVars, execVars, cli,
                   faults>>

AddableRows ==
    {Recomputed([state |-> "live", policy |-> p, kind |-> k, enabled |-> e,
                 next |-> NoTime]) :
        p \in Policies, k \in Kinds, e \in BOOLEAN}

\* job delete: one DELETE, and the cascade.
DeleteJob(j) ==
    /\ "delete" \in CliOps /\ IsLive(jobs, j)
    /\ jobs' = DeleteByName(jobs, j)
    /\ runs' = CascadeDelete(runs, j)
    /\ UNCHANGED <<nextRun, now, lifeVars, loopVars, execVars, cli, faults>>

CliAborts(c) ==
    /\ cli[c].pc # "idle"
    /\ CliStep(c, IdleCli)
    /\ UNCHANGED dbVars

-----------------------------------------------------------------------------
Init ==
    /\ jobs \in InitialJobs
    /\ runs = [r \in RunIds |-> AbsentRun]
    /\ nextRun = 1
    /\ now = 0
    /\ daemon = "down" /\ pc = "down"
    /\ tick = 0 /\ due = {} /\ pend = {} /\ cur = 0 /\ victims = {}
    /\ exec = [r \in RunIds |-> "none"]
    /\ reason = [r \in RunIds |-> "none"]
    /\ final = [r \in RunIds |-> "none"]
    /\ cli = [c \in Clis |-> IdleCli]
    /\ starts = 0 /\ stops = 0 /\ crashes = 0 /\ faults = 0

DueStep(c) ==
    CheckUnfinished(c) \/ CancelPending(c) \/ EnqueueScheduled(c) \/ AdvanceSchedule(c)

LoopStep ==
    \/ ListDueJobs
    \/ \E c \in due : DueStep(c)
    \/ ListPending
    \/ \E r \in pend : PrepareRunStart(r)
    \/ \E r \in victims : CancelVictim(r)
    \/ TryClaimPending
    \/ MarkRunning
    \/ StartRunExecution
    \/ SeeCancellation
    \/ LoopReturns

PersistStep(r) == MarkFinished(r) \/ FinishActiveRun(r)

ExecutorStep(r) == ExecutionEnds(r) \/ PersistStep(r)

CliProcessStep(c) ==
    \/ \E j \in Jobs : RunReads(c, j) \/ EditReads(c, j)
    \/ RunChecks(c)
    \/ RunCancelsPending(c)
    \/ RunInserts(c)
    \/ EditWrites(c)
    \/ CliAborts(c)

JobRowStep == \E j \in Jobs : DeleteJob(j) \/ \E row \in AddableRows : AddJob(j, row)

LifeStep == StartDaemon \/ CancelLoop \/ Crash \/ AdvanceClock

Next ==
    \/ LoopStep
    \/ \E r \in RunIds : ExecutorStep(r)
    \/ \E c \in Clis : CliProcessStep(c)
    \/ JobRowStep
    \/ LifeStep

Spec == Init /\ [][Next]_vars

-----------------------------------------------------------------------------
(***************************************************************************)
(* Fairness.  The loop is one goroutine that never blocks for ever, and    *)
(* so is an executor once its command has ended.  SeeCancellation is       *)
(* disabled while a tick is processed, but Go's select chooses at random   *)
(* among its ready cases, so it cannot be passed over for ever.  A command *)
(* that was not canceled may run for ever; one that was is killed, and     *)
(* Execute returns once no child of it holds its output open: that such    *)
(* children end is an assumption about the commands.                       *)
(***************************************************************************)
Fairness ==
    /\ WF_vars(LoopStep)
    /\ SF_vars(SeeCancellation)
    /\ \A r \in RunIds : WF_vars(PersistStep(r))
    /\ \A r \in RunIds : WF_vars(reason[r] # "none" /\ ExecutionEnds(r))

FairSpec == Spec /\ Fairness

-----------------------------------------------------------------------------
(* Properties.                                                             *)

\* Every variable stays in its type: in particular run rows only ever carry a
\* status of the schema's CHECK constraint, whatever reason they ended for.
TypeOK ==
    /\ jobs \in [Jobs -> JobRow]
    /\ runs \in [RunIds -> RunRow]
    /\ nextRun \in 1..(MaxRuns + 1)
    /\ now \in Nat
    /\ daemon \in {"down", "up", "stopping"}
    /\ pc \in LoopPcs
    /\ tick \in Nat
    /\ due \subseteq JobCopy
    /\ pend \subseteq RunIds
    /\ cur \in RunIds \cup {0}
    /\ victims \subseteq RunIds
    /\ exec \in [RunIds -> ExecPcs]
    /\ reason \in [RunIds -> Reasons]
    /\ final \in [RunIds -> Terminal \cup {"none"}]
    /\ cli \in [Clis -> CliState]
    /\ starts \in Nat /\ stops \in Nat /\ crashes \in Nat /\ faults \in Nat

\* However policies are edited while runs are active, a job never has two
\* active runs of which neither has been told to stop (prepareRunStart).
SingleLive ==
    \A r, s \in Active :
        /\ reason[r] = "none" /\ reason[s] = "none"
        /\ runs[r].job = runs[s].job
        => r = s

\* While no call of the daemon fails and it is not killed, a row that says
\* `running' has a goroutine that will finish it: clean stops included.
RunningRowsAreOwned ==
    crashes = 0 /\ faults = 0 =>
        \A r \in RunIds : runs[r].st = "running" =>
            \/ exec[r] \in {"executing", "persist"}
            \/ pc = "launch" /\ cur = r

\* MarkFinished has no guard on the status; still no run that has finished or
\* was canceled ever gets another status (its row may be deleted).
TerminalIsFinal ==
    [][\A r \in RunIds : runs[r].st \in Terminal =>
            runs'[r].st \in {runs[r].st, "deleted"}]_vars

\* A command is started at most once for a run, over restarts and races of the
\* claim, and never for a run that was canceled before.
StartedAtMostOnce ==
    [][\A r \in RunIds : exec'[r] = "executing" /\ exec[r] # "executing" =>
            exec[r] = "none" /\ runs[r].st \in {"running", "deleted"}]_vars

\* The scheduler implements RunLifecycle: pending, running and ended runs as in
\* the table, begun once startRunExecution was reached, live while in the map
\* with no reason to stop.
Lifecycle == INSTANCE RunLifecycle WITH
    status <- [r \in RunIds |-> runs[r].st],
    owner  <- [r \in RunIds |-> runs[r].job],
    begun  <- {r \in RunIds : exec[r] # "none"},
    live   <- {r \in Active : reason[r] = "none"}

ImplementsRunLifecycle == Lifecycle!Spec

\* No run row survives its job, whatever was under way when it was deleted.
NoRunOutlivesItsJob ==
    \A r \in RunIds : runs[r].st \notin {"absent", "deleted"} =>
        IsLive(jobs, runs[r].job)

\* Unless the daemon is told to stop, a run does not stay pending when no command
\* is running: it is taken up, or someone cancels or deletes it, also when the
\* batch limit is smaller than the backlog.
PendingSettles ==
    \A r \in RunIds :
        runs[r].st = "pending" /\ daemon = "up"
            ~> \/ runs[r].st # "pending" \/ daemon # "up"
               \/ \E s \in RunIds : exec[s] = "executing"

\* A cancelled loop comes to its end, wherever the cancellation finds it.
StopCompletes == daemon = "stopping" ~> daemon = "down"

\* A slot that has come due passes, even for a job under forbid whose run never
\* ends, or the job is switched off, edited or deleted.
DueSlotsPass ==
    \A j \in Jobs, t \in 0..MaxNow :
        jobs[j].next = t /\ now >= t /\ daemon = "up"
            ~> jobs[j].next # t \/ ~jobs[j].enabled \/ ~IsLive(jobs, j) \/ daemon # "up"

\* While nobody runs a job by hand or changes its policy, forbid never leaves two unfinished
\* runs of it, over restarts and failing calls: the check and the INSERT are two
\* calls.  `job run' beside the loop may (README, section 6).
ForbidSingleUnfinished ==
    CliOps \cap {"run", "update"} = {} =>
        \A r, s \in RunIds :
            /\ runs[r].st \in Unfinished /\ runs[s].st \in Unfinished
            /\ runs[r].job = runs[s].job /\ jobs[runs[r].job].policy = "forbid"
            => r = s

\* While the daemon is not stopped or killed and none of its calls fails, a due
\* slot is queued once, whatever is added, deleted, run by hand and paused
\* meanwhile: its INSERT and the advance of the schedule are two calls.  (An
\* update or a resume may write an old next_run_at back: README, section 6.)
SlotQueuedOnce ==
    /\ stops = 0 /\ crashes = 0 /\ faults = 0
    /\ CliOps \cap {"update", "reschedule", "resume"} = {}
    => \A r, s \in RunIds :
            /\ runs[r].job = runs[s].job /\ runs[r].job # 0
            /\ runs[r].slot = runs[s].slot /\ runs[r].slot # NoTime
            => r = s

=============================================================================
