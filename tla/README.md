# A TLA+ development of jobsd

jobsd is a local job scheduler: a CLI, one daemon per *instance*, and one SQLite
database per instance that the daemon and every CLI process open side by side.
This directory holds TLA+ models of it, the TLC configurations that check them,
and proofs for TLAPS. Source paths below are relative to the repository.

Contents: 1 the system; 2 the modules and how they correspond to the code; 3 the
runs; 4 fairness; 5 the proofs; 6 disagreements between code and documents; 7 what
is not modelled; 8 what comes next; 9 how to run it.

## 1. The system

### Components, their state and operations

| Component | Source (`internal/...`) | State | Operations |
|---|---|---|---|
| Scheduler loop | `daemon/loop.go`, `daemon/policy.go` | `activeByRunID` (handles of the runs under way, with a cancel function and a reason), the locals of a tick | a tick: queue what is due and advance its schedule, then claim and start what is pending; cancel all on shutdown |
| Executor goroutines | `daemon/executor.go`, `loop.go` | one per started run, with two that capture its output | run the shell command, capture and cut its output, kill it, record its end, the job's last-run summary, the hook; then drop the handle |
| Run store | `sqlite/runs_store.go` | table `job_runs` | enqueue, list pending, claim, mark running, mark finished, cancel pending |
| Job store | `sqlite/jobs_store.go` | table `jobs` | insert, full-row update, next-run update, last-run update, list due, delete |
| CLI job commands | `app/job.go` | a row read some calls ago | add, update, pause, resume, delete, run |
| On-finish dispatcher | `daemon/on_finish.go`, `sqlite/run_hook_deliveries_store.go` | table `run_hook_deliveries`, the attempts of a call | choose the hook, attempt, record, retry |
| Daemon service | `daemon/server.go`, `control.go`, `state.go` | lock file, `state.json`, control port, the loop goroutine | `Serve`: take the lock, migrate, announce, serve, shut down, with deferred calls on every error path |
| Instance lock | `lock/` | flock on the lock file | acquire without waiting, release |
| CLI scheduler commands | `app/scheduler.go`, `scheduler_client.go` | what they last read | start, stop, on-finish set and clear, and reads |
| Instance metadata | `sqlite/metadata_store.go` | table `instance_metadata` | read all, write all |
| Migrations | `sqlite/migrate.go` | table `schema_migrations`, the schema | apply what is missing |
| Schedule arithmetic | `schedule/`, `daemon/policy.go`, `app/job_support.go` | `next_run_at` | parse, next time, the search for the slot after a tick, recomputation by the CLI |
| Hook configuration | `domain/on_finish.go`, `app/on_finish_support.go`, `app/job.go` | two columns of `jobs`, one metadata row | validate, fill in defaults, combine flags, resolve |
| State file | `daemon/state.go`, `state_retry_*.go` | `state.json`, temporary files beside it | write by renaming, remove with retries, read |
| Run commands, printers, paths, version, platform shims | the rest | none | read and format |

### How they interact

* The daemon and the CLI share nothing but the database, the state file and the
  control port. Every database call is atomic (a statement or a transaction);
  nothing spans two calls. A CLI command reads a row by name and acts on it one or
  two calls later.
* Inside the daemon, the loop goroutine and one executor goroutine per run share
  the map of handles under a mutex. The loop marks handles (*replace*, *shutdown*)
  and the executors read the marks.
* The loop's database calls carry its ctx and fail once it is cancelled; the
  executors' use `context.Background()` and do not.
* `scheduler stop` posts to the control API, whose handler puts a token in a
  channel of capacity one that `Serve` selects on. `start` spawns a detached
  process and polls the state file and the port.

### What is hard

* **Interleaving at call granularity**: checks and writes are separate calls, rows
  are written back whole from old copies, policies change under active runs, rows
  are deleted under everyone.
* **Stopping**: the cancellation may find the loop at any call of a tick; from then
  on its calls fail, while the executors' go on working.
* **Crashes**: rows say `running` or are claimed by a process that is gone.
* **Failure of one step of several**: each database call may fail alone.
* **Things that wait for each other**: a command for room in a pipe, the captures for
  the end of a stream that a child of the command holds open, `Execute` for the captures,
  the job's next run for `Execute`; a Windows daemon for a reader to close the state file.
* **Searches without a bound**: the loop computes the next slot with no exit but success.
* **Order**: `MarkFinished` and `RemoveState` have no guard; only the order of
  steps around them keeps them from destroying what they should not.

### What makes each component correct

| Component | Properties |
|---|---|
| loop, executors, run store | `SingleLive`, `StartedAtMostOnce`, `TerminalIsFinal`, `RunningRowsAreOwned`, `ForbidSingleUnfinished`, `ImplementsRunLifecycle`, `PendingSettles`, `StopCompletes` |
| job store, CLI job commands | `SlotQueuedOnce`, `DueSlotsPass`, `NoRunOutlivesItsJob` |
| executor | `CaptureIsPrefix`, `SucceededIsComplete`, `NoCommandOutlivesExecute`, `CancelEndsExecute`, `ExecuteReturns` |
| schedule arithmetic | `NextIsLeast`, `SlotsKeepTheInterval`, `StaleSlotsRunOut`, `AdvanceEnds`; `SlotsKeepTheInterval` and `AdvanceEnds` are refuted by some expressions that `Parse` accepts (section 6) |
| on-finish | `NoAttemptAfterSettled`, `RecordsAreTrue`, `LastRunHasEnded`, `OwnHookIsCalled`, `HookLetsGo` |
| hook configuration | `StoredHooksParse` (what is stored can be read back), `LegalFlagsSucceed`, `HookIsAsAsked`, `RewritesChangeNothing` |
| service, lock, control client | `ImplementsInstanceLife`, `OneLoopOnDatabase`, `ServingIsAnnounced`, `StoppedMeansEnded`, `RequestIsHonoured` |
| state file | `ImplementsRegister`, `LitterNeedsTwoFaults`, `RemoveEnds` |
| migrations | `NeverWedged`, `ReadyMeansMigrated`, `MigrateEnds` |

Each is stated in words above its definition. `PROJECT.json` lists the hazards of
the code, line by line, with the properties that watch them.

## 2. The modules

    JobTable  <-- RunTable  <-- Scheduler  <-- SchedulerInv  <-- MCScheduler
                                   |               ^
                     RunLifecycle -+               +-- SchedulerProofs
    Execution   <-- MCExecution     Execution  <-- ExecutionProofs
    Schedule    <-- MCSchedule      Schedule   <-- ScheduleProofs   -- JobTable
    OnFinish    <-- MCOnFinish      OnFinish   <-- OnFinishProofs
    HookConfig  <-- MCHookConfig    HookConfig <-- HookConfigProofs
    Service     <-- MCService       Service    <-- ServiceProofs    -- OneDaemon
        |                                          SchedulerProofs  -- OneDaemon
        +- InstanceLife
    StateFile   <-- MCStateFile     StateFile  <-- StateFileProofs
        |
        +- StateRegister
    Migrations  <-- MCMigrations    Migrations <-- MigrationProofs

An arrow is EXTENDS, a line INSTANCE ... WITH: `Scheduler` takes `RunLifecycle`, `Service`
takes `InstanceLife` and `StateFile` takes `StateRegister` as what they implement. The models meet where one takes for a single
step what another takes apart, and the second shows the first right to do so:

| One step of | is taken apart by | which shows |
|---|---|---|
| `Scheduler`'s `ExecutionEnds`, fair once the run has a reason to stop | `Execution` | `CancelEndsExecute`, `NoCommandOutlivesExecute` |
| `Scheduler`'s `AdvanceSchedule` with `FutureNextRun` of `JobTable` | `Schedule` | `NextIsLeast`, `AdvanceEnds`, the theorem `SearchIsClosedForm` |
| `Scheduler`'s `FinishActiveRun`, after record, summary and hook | `OnFinish` | `HookLetsGo` |
| the hook that `OnFinish` reads from a row | `HookConfig` | `StoredHooksParse`, `HookIsAsAsked` |
| `Service`'s `WriteState`, `RemoveState` and reads | `StateFile` | `ImplementsRegister`, `RemoveEnds` |
| `Scheduler`'s single daemon | `Service` | `OneLoopOnDatabase`, `ImplementsInstanceLife`, the theorem `ServeIsOneDaemon` |
| `Service`'s loop that ends when it is cancelled | `Scheduler` | `StopCompletes` |
| everybody's tables | `Migrations` | `ReadyMeansMigrated` |

Definitions headed `Mutant:` in a comment are wrong on purpose. They are not used by any
specification: each is a plausible bug in the definition below it, and putting it in
that definition's place breaks a property. They show that the properties can tell.

### `JobTable`, `RunTable`: the two tables

One operator per SQL statement, from a table to a table. Rows keep the columns that
decisions rest on. `Time` counts ticks, NULL is `NoTime`. A run's `succeeded` and
`failed` are one status `finished`: the scheduler treats them alike. Ids are
AUTOINCREMENT, so a deleted row is kept as `deleted` and its id never comes back.
Intervals and cron expressions are one kind here, `interval`: the next time of either
depends on nothing but the reference time. `Schedule` tells them apart.

### `Scheduler`: an instance at run time

| Code | Model |
|---|---|
| `Loop.Run`, `processDueJobs`, `EnqueueScheduledWithPolicy` | `ListDueJobs`, `CheckUnfinished`, `CancelPending`, `EnqueueScheduled`, `AdvanceSchedule`; `pc`, `tick`, `due` |
| `processPendingRuns`, `prepareRunStart` | `ListPending`, `PrepareRunStart`, `CancelVictim`, `TryClaimPending`, `MarkRunning`, `StartRunExecution`; `pend`, `cur`, `victims` |
| the executor goroutine | `ExecutionEnds`, `MarkFinished`, `FinishActiveRun`; `exec`, `reason`, `final` |
| the ctx of the loop, a kill, a start | `CancelLoop`, `SeeCancellation`, `LoopReturns`, `Crash`, `StartDaemon`; `daemon` |
| `job run` | `RunReads`, `RunChecks`, `RunCancelsPending`, `RunInserts` |
| `job update`, `pause`, `resume` | `EditReads`, `EditWrites` |
| `job add`, `job delete` | `AddJob`, `DeleteJob` |
| an interrupted CLI process | `CliAborts` |

A step is one database call with the memory work after it, since nobody else can see
that work; the marking of a handle is a step of its own because an executor can. A
call fails once the ctx is cancelled, and up to `MaxFaults` times before
(`CallFails`). An INSERT that took effect and whose SELECT failed is among the
outcomes.

### `RunLifecycle`: what the scheduler promises of runs

No loop, no database, no policies: runs are queued, called off or taken up, begun
once, and end once; at most one run per job is live (begun and not told to stop).
`ImplementsRunLifecycle` maps the run table and the handles to it.

### `Execution`: one shell command

`ShellExecutor.Execute` and the two goroutines of `captureStreamAsync`, with the operating
system around them: the command, one child that it may fork and that inherits its
streams, a pipe of bounded size per stream. `Start`, `Receive` (one capture after the
other), `Wait`, `Decide` are the steps of `Execute`; `Read`, `ReadEOF`, `ReadFails` those
of a capture, `Keep` what `readCapturedStream` does with a chunk; `Kill` is what `exec.CommandContext`
does when the ctx is cancelled. `Fork`, `BeginWrite`, `Write`, `CloseStream` and `Exit`
are the command's and belong to the environment. Byte *n* of a stream is the number *n*, so that a
gap, a repetition or a wrong cut would show.

### `Schedule`: when a job is due

One job, with time in units finer than a second: the clock has them, the RFC 3339 texts of
`next_run_at` do not (`Stored`). A schedule is a duration or a calendar; a calendar is
the set of times that match the cron fields, and `CronNext` is the library's search in it, which
gives up after `Horizon` (five years) and returns the zero time. Every turn of
`computeFutureNextRun`'s loop is a step (`Search`), so that its end is a question, and the
CLI may pause, resume and reschedule the job in between (`EditReads`, `EditWrites`). Two
variables are history, which no action reads: `written` is the row as the last command
wrote it, `queued` the runs since.

### `OnFinish`: the end of a run

The steps of `persistRunCompletion` for several runs of one job: `MarkFinished`,
`UpdateLastRunSummary`, `ResolveConfig`, `DeliverAttempt` and `RecordAttempt` in turn,
`FinishActiveRun`. Around them full-row edits from old copies (`EditReads`,
`EditWrites`), the default hook (`SetDefault`), `DeleteJob` with both cascades, `Crash`.
`failed` stands for `timed_out` as well, which is retried alike; an HTTP answer that is
neither 2xx nor 5xx is `rejected`, which is not retried and recorded as `failed`.
When runs may start is left to `Scheduler`; here they may start at any time, so
whatever holds here holds under every policy.

### `HookConfig`: which hook a job has

`NormalizeOnFinishConfig` as `IsValid` and `Normalize`, `JobAdd` and `JobUpdate` with
every combination of their four flags, in the code's order: conflicts, parsing, the new
columns (`Asked`), whether there is anything to write (`Changed`), and the store's own
refusal (`Refused`). `JobRewrite` and `DefaultRewrite` are all the commands that read the
columns and write them back unchanged. `ResolvedHook` is what the dispatcher makes of it.

### `Service`: the processes around an instance

`Serve`, one action per call others can see, and the deferred calls in their order
(`Unwind`). `scheduler start`, `stop` and `on-finish`, cut at each read of the state
file, each request and each write. The lock is who holds it; the state file is whose
state it has; a request made with the state of a daemon is answered by that daemon
or not at all, because the token differs. The error of a deferred `RemoveState` is
thrown away, so that the file may stay behind unnoticed (`Unwind`).

### `InstanceLife`, `OneDaemon`: what the service promises of the instance

`InstanceLife` has no files, ports or requests: an owner, who is announced, and a loop per
daemon that is `none` yet, `up`, `stopping` or `ended`. A daemon begins its loop only as the
owner and once announced, takes back only its own announcement, and gives the
instance up only when its loop has ended. `ImplementsInstanceLife` maps the lock to the owner, the
state file to the announcement, and the place in `Serve` to the loop (`LoopOf`).
`OneDaemon` is all that the database sees of these loops: one daemon that is down, up or
stopping. It is the joint between two models: `Service` provides it (`ServeIsOneDaemon`)
and `Scheduler`'s `daemon` lives by it (`SchedulerHasOneDaemon`). A `Serve` that fails and closes
the database under its cancelled loop is a `Crash` to `Scheduler`, whose tick it cuts short.

### `StateFile`, `StateRegister`: the state file, call by call

`WriteState` is `CreateTemp`, `Fill`, `Rename` and the deferred `CleanTemp`; `RemoveState` is
`BeginRemove` and `RemoveFile`, tried again until the deadline has passed `MaxTries` sleeps;
`ReadState` is `OpenFile` and `ReadFile`, between which the file may be renamed over,
removed, or be left by a killed daemon. A file is what was written of it: nothing or half
(`partial`), or a state. `windows` says whether an open file can be neither replaced nor
removed. `StateRegister` is a variable that is replaced and removed at once, and whose
readers see a value it had while they read.

### `Migrations`: processes opening one database

`Migrate` reads the applied versions, then applies what is missing, one transaction
each. BEGIN takes no lock; the first statement that writes does, and waits for it. A
version is *repeatable* if all of its statements say IF NOT EXISTS, as those of 0001 do;
0002 has ALTER TABLE ADD COLUMN and is not.

## 3. The runs

Deadlock is checked in `hook_config`, where a command can always be given. Every other
system here really may stop (all daemons down, all runs done, all edits made); that it does
not stop too early is what the liveness properties say. State counts are of distinct states.

| Run | Checks | States | What it shows, and its bounds |
|---|---|---|---|
| `sched_safe` | `SingleLive`, `NoRunOutlivesItsJob`, `TerminalIsFinal`, `StartedAtMostOnce`, `ImplementsRunLifecycle` | 1.54 M | one job id, which `job add` may still have to hand out, and two runs; `add`, `delete`, `run`, `update`, `pause` from stale copies against the loop, with one crash, one restart and one failing call anywhere. Two runs are enough for a run that starts beside one that ends. |
| `sched_live` | `RunningRowsAreOwned`, `ForbidSingleUnfinished`, `SlotQueuedOnce`, `PendingSettles`, `StopCompletes`, `DueSlotsPass` | 50 k | a one-time job beside one of each policy, three runs and a batch limit of one, so that the backlog is larger than the batch; a pause and a stop anywhere; commands that may never end |
| `execution` | `CaptureIsPrefix`, `SucceededIsComplete`, `NoCommandOutlivesExecute`, `CancelEndsExecute`, `ExecuteReturns` | 124 k | up to three bytes on each stream, a limit, a buffer and a pipe of two: output below, at and above the limit, reads that end before, at and across it, pipes that fill; one failing call |
| `schedule` | `NextIsLeast`, `SlotsKeepTheInterval`, `StaleSlotsRunOut`, `AdvanceEnds` | 1.31 M | two units in a second; intervals of one and two seconds, a one-time job, a calendar with uneven gaps, durations `Parse` refuses; the clock jumps by any amount up to eleven, two edits, one failing call |
| `hooks` | `NoAttemptAfterSettled`, `RecordsAreTrue`, `LastRunHasEnded`, `HookLetsGo`, `OwnHookIsCalled` | 0.70 M | two runs, an HTTP and a command hook, the job's own or the instance's, one edit, one crash, one failing call |
| `hook_config` | `StoredHooksParse`, `LegalFlagsSucceed`, `HookIsAsAsked`, `RewritesChangeNothing` | 8 k | every combination of flags against every row that any sequence of commands can leave, with two good kinds of hook, each number at, below and above its default, and every way to be bad; no bound but the configurations |
| `service` | `OneLoopOnDatabase`, `ServingIsAnnounced`, `StoppedMeansEnded`, `ImplementsInstanceLife`, `RequestIsHonoured` | 0.46 M | two daemons, three CLI processes, one kill, one failing call: two starts race, two stops race, a start follows a stop |
| `state_file` | `LitterNeedsTwoFaults`, `ImplementsRegister`, `RemoveEnds` | 0.63 M | three writes, two readers, one kill, two failing calls, with and without the protection of open files |
| `migrate` | `NeverWedged`, `ReadyMeansMigrated`, `MigrateEnds` | 14 k | three processes, the two migrations there are, one failure or kill, each may open twice |
| `bad_pickup`, `bad_calendar`, `bad_subsecond` | one property each | | violated; see section 6 |

Why these bounds are enough: the interesting cases need two runs of one job (one
active, one being started), at most one of each kind of disturbance, and one CLI
process besides the loop; each is present, and for every safety property of section 5
the proofs remove the bound. The bounds are
constants of the specifications (`MaxRuns`, `MaxNow`, `MaxStarts`, `MaxStops`,
`MaxCrashes`, `MaxFaults`, `MaxEdits`, `MaxOpens`, `MaxWrites`, `MaxQueued`, `MaxOutput`): the
first makes the INSERT after the last id fail, which the code treats as any failing
INSERT, and the others stop the environment, never the program. `MaxTries` is the code's own
deadline, counted in sleeps. `sched_live` has no failing calls, for that reason: a run
that failed to be queued for want of an id would be taken for a slot that never passes.

`SlotQueuedOnce` has its limits in its premise: a stop, a kill or a failing call between
the INSERT and the advance leaves the slot due, and the next tick or daemon queues it again, as
the code means it to. `sched_live` checks it with a pause that races the loop; the theorem has add,
delete, run and pause, by any number of processes. Policies edited while a *stop* is under way are in no run, but
within the theorems on `SafetyInv`.

## 4. Fairness

* `WF_vars(LoopStep)`: the loop is one goroutine; its calls return.
* `SF_vars(SeeCancellation)`: disabled while a tick is under way and in competition
  with the next tick, but Go's `select` chooses at random among ready cases and cannot
  pass one over for ever.
* `WF_vars(PersistStep(r))`: once a command has ended, its goroutine goes on. That the
  hook returns is `HookLetsGo` of `OnFinish`, with the exception named there.
* `WF_vars(reason[r] # "none" /\ ExecutionEnds(r))`: a command that was canceled is killed.
  `Execute` reads its pipes to the end, so this assumes that no child of the command
  holds them open for ever; with that, it is `CancelEndsExecute` of `Execution`. Nothing
  makes a command end that was not canceled: a `queue` job whose run never ends keeps the next
  one waiting by design, and `PendingSettles` asks nothing while some command is running.
* No fairness for ticks as opposed to the loop, CLI processes, stops, starts, the clock.
* `Service`: weak fairness of each daemon's own steps, none for signals, kills and the CLI.
  That the cancelled loop ends is `StopCompletes`.
* `OnFinish`: weak fairness of the persisting steps and of HTTP attempts, which a timeout
  ends. None for command hooks, none for commands.
* `Execution`: weak fairness of `Execute`, of each capture, of a write for which there is
  room, of the kill, and of the child's end; none for the command's own end. `ExecuteReturns`
  therefore reads: *if* the command exits whenever it can, `Execute` returns.
* `Schedule`: weak fairness of the loop, which never waits during a tick.
* `StateFile`: weak fairness of `RemoveFile`, whose sleeps end; none for readers, who may keep
  the file open for ever.
* `Migrations`: weak fairness of each process's statements; SQLite lets a process wait five seconds
  for the write lock, and giving up is among its failures.

## 5. The proofs

All of them hold for all constants that satisfy the named assumptions of the modules
(ids are positive, bounds are numbers, `NoOne` and `NoProc` are nobody, the
initial rows are rows).

| Theorem | Module | States |
|---|---|---|
| `TypeCorrect`, `SchedulerIsSafe` | `SchedulerProofs` | `TypeOK` of `Scheduler`; the inductive `SafetyInv` |
| `AtMostOneLiveRun` | `SchedulerProofs` | `SingleLive` |
| `EndsAreFinal` | `SchedulerProofs` | `TerminalIsFinal` |
| `CommandsStartOnce` | `SchedulerProofs` | `StartedAtMostOnce` |
| `RunningMeansOwned` | `SchedulerProofs` | `RunningRowsAreOwned` |
| `RunsDieWithTheirJob` | `SchedulerProofs` | `NoRunOutlivesItsJob` |
| `ForbidIsKept` | `SchedulerProofs` | `ForbidSingleUnfinished` |
| `SlotsAreQueuedOnce` | `SchedulerProofs` | `SlotQueuedOnce` |
| `SchedulerImplementsRunLifecycle` | `SchedulerProofs` | `ImplementsRunLifecycle` |
| `SchedulerHasOneDaemon` | `SchedulerProofs` | `daemon` implements `OneDaemon` |
| `ExecutionTypeCorrect`, `CapturesArePrefixes`, `SuccessIsComplete`, `CommandIsReaped` | `ExecutionProofs` | `TypeOK`, `CaptureIsPrefix`, `SucceededIsComplete`, `NoCommandOutlivesExecute` |
| `ScheduleTypes`, `NextSlotIsLeast`, `StaleSlotsAlwaysRunOut`, `SlotsNeverComeTwice` | `ScheduleProofs` | `TypeOK`, `NextIsLeast`, `StaleSlotsRunOut`, `SlotsKeepTheInterval` for durations of whole seconds |
| `SearchIsClosedForm` | `ScheduleProofs` | the search ends at `FutureNextRun` of `JobTable` |
| `OnFinishTypes`, `SettledHooksAreLeftAlone`, `RecordsStayTrue`, `LastRunIsOnRecord` | `OnFinishProofs` | `TypeOK`, `NoAttemptAfterSettled`, `RecordsAreTrue`, `LastRunHasEnded` |
| `OwnHooksAreNotSkipped` | `OnFinishProofs` | `DebtsAreKept`, the safety half of `OwnHookIsCalled` |
| `HooksCanBeReadBack`, `FlagsAreEnough`, `HooksAreAsAsked`, `RewritesAreHarmless` | `HookConfigProofs` | `StoredHooksParse`, `LegalFlagsSucceed`, `HookIsAsAsked`, `RewritesChangeNothing` |
| `ServeIsInstanceLife` | `ServiceProofs` | `ImplementsInstanceLife` |
| `ServeIsOneDaemon` | `ServiceProofs` | the loops together implement `OneDaemon` |
| `ServiceTypes`, `DatabaseIsExclusive`, `ServingDaemonIsAnnounced`, `StoppedIsEnded` | `ServiceProofs` | `TypeOK`, `OneLoopOnDatabase`, `ServingIsAnnounced`, `StoppedMeansEnded` |
| `StateFileTypes`, `StateFileIsARegister`, `LitterIsRare` | `StateFileProofs` | `TypeOK`, `ImplementsRegister`, `LitterNeedsTwoFaults` |
| `MigrationTypes`, `DatabaseIsNeverWedged`, `ReadyIsMigrated`, `VersionsAreInOrder` | `MigrationProofs` | `TypeOK`, `NeverWedged`, `ReadyMeansMigrated`, `AppliedInOrder` |

**Scheduler.** `SingleLive` is not inductive: nothing in it says why, when a command
starts, the job's other runs have been told to stop. They were collected at
`PrepareRunStart`, several steps before, and runs may have ended, been edited or
deleted since. `SafetyInv` (module `SchedulerInv`) says what holds in between:
`LoopHoldsCur` (from `prepareRunStart` to the start, every run of the same job that is
still to be told to stop is among the victims, and the run to be started is fresh),
`StartedRows` (a started run is past `pending` and nobody but its goroutine ends it),
`RowsFollowIds`, `BatchIsQueued`, `DownIsDown`. `TypeInv` adds to `TypeOK` what types need: due rows
have a time in the past of the tick, and a decided final status. `Inv` is both. The
proof that a step keeps it has one lemma per group of actions, and `RunTableEffects`
says once for all what each statement does to a row. The action properties
follow from `Inv` and a walk over `Next`; `RunningMeansOwned` is inductive on top of it. For
the refinement, `AbstractStep` is proved for every action: a step of `RunLifecycle` or a
stutter. `Crash` maps to `Abandon`, `CancelVictim` to `Retire`, a replacing `job run` to
`CallOff`.

**Runs and slots.** `RunsDieWithTheirJob` needs, besides the run rows, that every copy of a
job's row that is still to be written back (`CopiesAreLive`) is of a job that was there: a
full-row UPDATE of a deleted job changes nothing. `ForbidIsKept` is inductive with three
facts: copies agree with the table on the policy (`PoliciesAgree`), a job has one unfinished run,
and what `CheckUnfinished` found empty stays so until the INSERT (`CheckHolds`), which is where it uses that
nobody else INSERTs. `SlotsAreQueuedOnce` rests on `SlotInv`. A slot that has a run is past: it is
behind `next_run_at` as long as that may come due at all (`BehindRow`), and behind the copy of
the row that the loop holds (`BehindCopy`), save between INSERT and advance. A pause writes a whole row
back from an old copy, and with it an old `next_run_at`; what saves the slot is that
the commands of the premise only ever write rows that are disabled
(`WritesDisable`). An update or a resume does not, which is why it is outside the premise (section 6).

**Execution.** `CapturesArePrefixes` needs that what was read and what is in the pipe add up to
what was written, and splits `Keep` into below, across and above the limit.
`SuccessIsComplete` needs that an end of file means that nobody holds the stream open, and
that nobody gets it open again.

**Schedule.** `NextSlotIsLeast`: while the search goes on, `ref` is a slot and no slot lies
between it and the tick. `SlotsNeverComeTwice` follows, and needs that `Stored` changes
nothing, which is where durations of whole seconds come in; calendars name no others.
`StaleSlotsAlwaysRunOut` rests on `StaleInv`: an enabled row has the schedule that was
written, whatever its `next_run_at`; once a run has been queued since, any copy the loop
takes is of that row, and any slot it finds is of the schedule of that run or of the row. `SearchIsClosedForm` says that the
slot at which the search ends is the one that `FutureNextRun` computes by division: both are
the least slot after the tick, and that is unique.

**End of a run.** The conjuncts say what each place of the goroutine implies: an attempt
that is not the last has failed, a record is of an attempt sent, and the copies in edits show
a run that has ended. `OwnHooksAreNotSkipped` says that a run whose end is on record *owes* the
hook its job had (`Owes`), and that no step but a call of that hook or a kill ends the debt; with the fairness
of the dispatcher's steps that is `OwnHookIsCalled`, which is left to TLC.

**Hook configuration.** Good configurations stay good: normalising a normal one changes nothing,
nor does writing it to the columns and reading it back (`NormalStays`, `MarshalStays`). With the four flags this
gives what the new columns are (`AskedIsGood`), that the store accepts them, and, through
`ResolvedFromColumns`, what the dispatcher makes of them, for any set of configurations.

**Service.** Two facts about one daemon at a time, `HoldersHaveLock` and
`AnnouncedInFile`, are inductive together with where a loop may run; `Moves` says what
any daemon step may do to the shared files, and each action is shown to be one. The
mutual exclusion of loops then follows from that of the lock, *because* the deferred
`db.Close` comes before the deferred `Release`. `StoppedIsEnded` follows a CLI process: a
daemon whose state file it no longer finds has removed it after its loop, or failed. For `ServeIsInstanceLife`, every step of a
daemon moves nobody else (`MovesAlone`) and is a step of `InstanceLife` or a stutter (`LifeStep`); it needs two more
conjuncts, that the deferred removal finds the daemon's own file (`UnwindTakesOwn`) and that no
daemon is announced before it writes (`FreshIsUnknown`). `ServeIsOneDaemon` adds that at
most one loop is up or stopping (`Alone`), so that a step of one loop is a step of all of them together.

**State file.** The file that a `WriteState` is filling has neither the name of the state file
nor a reader; that carries both the refinement and the count of what is left behind, where
one kill or two failures pay for a file.

**Migrations.** `MigrationInv`: the schema is what the table says, what a process has
read stays true, and a process at version *v* knows all earlier ones applied.

**Only model-checked**: liveness (`PendingSettles`, `StopCompletes`, `DueSlotsPass`,
`CancelEndsExecute`, `ExecuteReturns`, `AdvanceEnds`, `OwnHookIsCalled`, `HookLetsGo`, `RequestIsHonoured`, `RemoveEnds`,
`MigrateEnds`), which is out of reach of these backends. The violations are TLC's. Type
invariants that the proofs establish for all constants are not checked again by the
runs.

## 6. Where code and documents disagree

Shown by a run:

* `bad_pickup`: a manual run is claimed, then the daemon is stopped; `MarkRunning` fails with
  the cancelled ctx and nothing undoes the claim. The row is pending and claimed for
  ever. `docs/v1/SCHEMA.md:326` says the loop "then picks it up".
* `bad_calendar`: `cron 0 0 30 2 *` passes `Parse`, and never matches. The library returns the
  zero time, which is not after the tick, and `computeFutureNextRun` asks again, for ever and
  without a look at its ctx: no job is scheduled any more and the daemon cannot be stopped.
* `bad_subsecond`: `every 1500ms` passes `Parse`; `next_run_at` loses the fraction and the next slot
  is counted from what is left, so that the job runs every second.

Met while modelling, in the models as behaviour, and in no run: no property claims the contrary.

* `job update` reads a one-time job, the loop queues and disables it, the update writes the old
  `enabled` and `next_run_at` back, and the job is queued again (`EditWrites`); the same after a
  stop between the INSERT and `AdvanceSchedule`. `docs/MANUAL_E2E_CHECKLIST.md:99` expects one
  scheduled run.
* `job update --schedule` recomputes `next_run_at` (`internal/app/job.go:418`); the loop, in the
  middle of a tick, then stores the slot it has found for the old schedule over it
  (`internal/daemon/policy.go:118`, `UpdateNextRun`). The job waits for that slot, which may come long after
  the first one of its new schedule. `docs/v1/SCHEMA.md:82` calls the column the "next calculated
  execution time". Nothing prevents it; `StaleSlotsRunOut` bounds what comes of it to one run at such a slot.
  A job that was paused in that moment gets a `next_run_at` too, which no tick looks at and resume recomputes.
* Under forbid the check for an unfinished run and the INSERT are two calls, and the loop and
  `job run` may both pass the check. `internal/app/job_test.go:511` expects a conflict.
  `ForbidSingleUnfinished` says what holds without `job run`.
* `scheduler on-finish set` reads the metadata, a daemon starts and stores its port, the command
  writes the old port back (`OnFinishReads`, `OnFinishWrites`). `docs/v1/SCHEMA.md:196` calls it the most recent port.
* A `retry_count` of the largest int wraps to no attempt at all (`daemon/on_finish.go:87`), and a
  configured `Content-Type` is overwritten (`on_finish.go:223`), where `README.md:199` has custom
  headers applied afterwards.
* The summaries of two runs that end together may be written in the other order than their
  ends; that the job shows *an* end is `LastRunHasEnded`.
* On Windows a reader of a stale state file makes the `Rename` of a starting daemon fail, which
  unlike `Remove` is not tried again.

## 7. What is not modelled, and why

* The `run` commands, `job list` and `get`, `scheduler status`, `ping` and `on-finish get`: they
  change nothing.
* Printing, flags other than those about hooks, paths, the version, the payload and headers of
  hooks: wording and layout.
* The matching of cron fields: the library's.
* The Windows and other-platform files except `state_retry_windows.go`: shims of what the Unix files do.
* The Serve that finds its loop or ticker gone by itself: `Run` returns only when cancelled.
* What the metadata rows of `Service` are for: its `scheduler on-finish` and the daemon's write of
  them are there for the lost update of section 6, and no property is about them.
* A restart of the daemon knows nothing of commands that a killed one left behind; they go on beside
  its own. This is in `Scheduler` (`exec` is `lost`) and listed as a hazard; nothing in the code controls it.

## 8. Plan

The order was: tables and scheduler first, since every other part serves them; its
inductive invariant, its abstract specification and their proofs; then the service,
which justifies the single daemon, the end of a run, the migrations; then what those had taken
for one step: the execution of a command, the schedule arithmetic, the state file, the
configuration of hooks, each with its proofs; then the joints between the models. What is left:

1. The premise of `SlotQueuedOnce`: which updates and resumes cannot bring a slot back, and
   what holds of slots across a stop or a kill.
2. The joint between `OnFinish` and `Scheduler`: the steps of `persistRunCompletion` as a refinement
   of `MarkFinished` and `FinishActiveRun`.
3. The safety halves of the remaining liveness properties, as for `OwnHookIsCalled`.
4. The paths of an instance (`config/paths.go`): two names, two directories.

## 9. Running it

    tlc -workers 2 -config sched_safe.cfg MCScheduler.tla
    tlapm SchedulerProofs.tla

`PROJECT.json` gives the module and properties of each run, the mutant of each property, the
source lines behind each definition, the findings, hazards and theorems.
