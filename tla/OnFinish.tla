------------------------------ MODULE OnFinish ------------------------------
(***************************************************************************)
(* The end of a run: persistRunCompletion (internal/daemon/loop.go), the   *)
(* on_finish dispatcher it calls (on_finish.go) and the delivery records   *)
(* (internal/sqlite/run_hook_deliveries_store.go).  One executor goroutine *)
(* per run; all runs here are runs of one job, which `job update' edits    *)
(* and `job delete' may take away meanwhile.  When a run may start is the  *)
(* subject of Scheduler: here it may start at any time.                    *)
(***************************************************************************)
EXTENDS Naturals, Sequences, FiniteSets

CONSTANTS
    Runs,
    Configs,        \* hooks, as [sink, retries]
    None,           \* no hook; no run
    InitialJobs,    \* the rows the job may have at the start
    MaxEdits,       \* bound: edits of the job and of the instance hook
    MaxCrashes,     \* bound: times the daemon is killed
    MaxFaults       \* bound: database calls of the daemon that fail

ASSUME ConfigsAssumption == Configs \subseteq [sink : {"command", "http"}, retries : Nat]
ASSUME InitialJobAssumption ==
    InitialJobs \subseteq
        [live : {TRUE}, hook : Configs \cup {None}, inherit : BOOLEAN, last : {None}]
ASSUME NoneAssumption == None \notin Configs \cup Runs
ASSUME OnFinishBoundsAssumption ==
    MaxEdits \in Nat /\ MaxCrashes \in Nat /\ MaxFaults \in Nat

VARIABLES
    job,            \* the row: live, hook, inherit, and last, whose end is in
                    \* last_run_at and last_run_status
    default,        \* the on_finish of the instance metadata
    run,            \* the status of each run row
    rows,           \* run_hook_deliveries, by run
    exec,           \* where the executor goroutine of each run stands
    held,           \* the job as the loop read it when it started the run, until
                    \* the hook is resolved
    config,         \* the hook Notify has resolved
    sent,           \* what came of each attempt so far
    edit,           \* the job row a `job update' has read and changed, or None
    edits, crashes, faults

tables == <<job, default, run, rows>>
vars   == <<tables, exec, held, config, sent, edit, edits, crashes, faults>>

Hook == Configs \cup {None}
JobRow == [live : BOOLEAN, hook : Hook, inherit : BOOLEAN, last : Runs \cup {None}]
\* "failed" stands for timed_out too: Notify treats them alike.
Status == {"succeeded", "failed"}
ExecPcs == {"none", "executing", "persist", "summary", "resolve", "deliver", "record",
            "closing", "done", "lost"}

Works == UNCHANGED faults
Fails == faults < MaxFaults /\ faults' = faults + 1

Goto(r, place) == exec' = [exec EXCEPT ![r] = place]

-----------------------------------------------------------------------------
(* The executor goroutine.                                                 *)

\* The loop has read the job, inserted, claimed and marked the run.
StartRunExecution(r) ==
    /\ exec[r] = "none" /\ job.live
    /\ run' = [run EXCEPT ![r] = "running"]
    /\ held' = [held EXCEPT ![r] = job]
    /\ Goto(r, "executing")
    /\ UNCHANGED <<job, default, rows, config, sent, edit, edits, crashes, faults>>

ExecutionEnds(r) ==
    /\ exec[r] = "executing"
    /\ Goto(r, "persist")
    /\ UNCHANGED <<tables, held, config, sent, edit, edits, crashes, faults>>

\* Mutant: the end goes to the job's columns first.
SummaryFirst(r) ==
    /\ exec[r] = "persist"
    /\ job' = IF job.live THEN [job EXCEPT !.last = r] ELSE job
    /\ Goto(r, "summary")
    /\ UNCHANGED <<default, run, rows, held, config, sent, edit, edits, crashes, faults>>

\* Mutant: it tries until it succeeds.
MarkFinishedAtLast(r) ==
    /\ exec[r] = "persist" /\ Works
    /\ run[r] # "deleted"
    /\ run' = [run EXCEPT ![r] = "ended"]
    /\ Goto(r, "summary")
    /\ UNCHANGED <<job, default, rows, held, config, sent, edit, edits, crashes>>

\* Without the row, or on an error, that is the end of it: no hook.
MarkFinished(r) ==
    /\ exec[r] = "persist"
    /\ \/ /\ Works /\ run[r] # "deleted"
          /\ run' = [run EXCEPT ![r] = "ended"]
          /\ Goto(r, "summary")
       \/ /\ Fails \/ (Works /\ run[r] = "deleted")
          /\ UNCHANGED run
          /\ Goto(r, "closing")
    /\ UNCHANGED <<job, default, rows, held, config, sent, edit, edits, crashes>>

\* Mutant: without the summary there is no hook.
SummaryOrNothing(r) ==
    /\ exec[r] = "summary"
    /\ \/ Works /\ job' = (IF job.live THEN [job EXCEPT !.last = r] ELSE job) /\ Goto(r, "resolve")
       \/ Fails /\ UNCHANGED job /\ Goto(r, "closing")
    /\ UNCHANGED <<default, run, rows, held, config, sent, edit, edits, crashes>>

\* The job's last_run columns, whichever run they show so far.  An error is logged and the hook comes next.
UpdateLastRunSummary(r) ==
    /\ exec[r] = "summary"
    /\ \/ Works /\ job' = IF job.live THEN [job EXCEPT !.last = r] ELSE job
       \/ Fails /\ UNCHANGED job
    /\ Goto(r, "resolve")
    /\ UNCHANGED <<default, run, rows, held, config, sent, edit, edits, crashes>>

\* resolveConfig: the hook of the job as it was at the start; the default of
\* the instance as it is now.
ResolveConfig(r) ==
    /\ exec[r] = "resolve"
    /\ \/ /\ held[r].hook # None
          /\ Works
          /\ config' = [config EXCEPT ![r] = held[r].hook]
       \/ /\ held[r].hook = None /\ ~held[r].inherit
          /\ Works /\ UNCHANGED config
       \/ /\ held[r].hook = None /\ held[r].inherit
          /\ \/ Works /\ config' = [config EXCEPT ![r] = default]
             \/ Fails /\ UNCHANGED config
    /\ held' = [held EXCEPT ![r] = None]
    /\ Goto(r, IF config'[r] = None THEN "closing" ELSE "deliver")
    /\ UNCHANGED <<tables, sent, edit, edits, crashes>>

\* What may come of an attempt.  An HTTP status that is neither 2xx nor 5xx is
\* the only failure that is not tried again.
Results(sink) == Status \cup IF sink = "http" THEN {"rejected"} ELSE {}

DeliverAttempt(r) ==
    /\ exec[r] = "deliver"
    /\ \E result \in Results(config[r].sink) : sent' = [sent EXCEPT ![r] = Append(@, result)]
    /\ Goto(r, "record")
    /\ UNCHANGED <<tables, held, config, edit, edits, crashes, faults>>

\* RetryCount + 1 of Notify, after NormalizeOnFinishConfig has made 0 a 1.
Attempts(c) == (IF c.retries = 0 THEN 1 ELSE c.retries) + 1

\* Mutant: a failure that is not to be tried again ends nothing.
TriesRejectedAgain(r) ==
    \/ sent[r][Len(sent[r])] = "succeeded"
    \/ Len(sent[r]) = Attempts(config[r])

\* Notify returns after a success, a refusal or the last attempt.
IsSettled(r) ==
    \/ sent[r][Len(sent[r])] \in {"succeeded", "rejected"}
    \/ Len(sent[r]) = Attempts(config[r])

\* The row that run_hook_deliveries gets for the last attempt.
Delivery(r) ==
    LET result == sent[r][Len(sent[r])] IN
    [attempt |-> Len(sent[r]),
     status  |-> IF result = "rejected" THEN "failed" ELSE result]

\* The INSERT fails when the run is gone; the attempts go on as if it had not.
RecordAttempt(r) ==
    /\ exec[r] = "record"
    /\ \/ /\ Works /\ run[r] # "deleted"
          /\ rows' = [rows EXCEPT ![r] = @ \cup {Delivery(r)}]
       \/ /\ Fails \/ (Works /\ run[r] = "deleted")
          /\ UNCHANGED rows
    /\ Goto(r, IF IsSettled(r) THEN "closing" ELSE "deliver")
    /\ UNCHANGED <<job, default, run, held, config, sent, edit, edits, crashes>>

FinishActiveRun(r) ==
    /\ exec[r] = "closing"
    /\ Goto(r, "done")
    /\ UNCHANGED <<tables, held, config, sent, edit, edits, crashes, faults>>

-----------------------------------------------------------------------------
(* Around it.                                                              *)

\* A killed daemon takes its goroutines along, hooks under way included.
Crash ==
    /\ crashes < MaxCrashes /\ crashes' = crashes + 1
    /\ exec' = [r \in Runs |-> IF exec[r] \in {"none", "done"} THEN exec[r] ELSE "lost"]
    /\ held' = [r \in Runs |-> None]
    /\ UNCHANGED <<tables, config, sent, edit, edits, faults>>

\* What the --on-finish flags of `job update' make of a row.
EditedRows(row) ==
    {[row EXCEPT !.hook = c, !.inherit = TRUE] : c \in Configs}
    \cup {[row EXCEPT !.hook = None], [row EXCEPT !.hook = None, !.inherit = FALSE],
          [row EXCEPT !.inherit = TRUE], [row EXCEPT !.hook = None, !.inherit = TRUE]}

\* An edit of another column, and the loop when it disables a one-time job,
\* carry the row along as they read it.
EditReads ==
    /\ edit = None /\ job.live /\ edits < MaxEdits
    /\ edit' \in EditedRows(job) \cup {job}
    /\ edits' = edits + 1
    /\ UNCHANGED <<tables, exec, held, config, sent, crashes, faults>>

\* JobStore.Update writes every column, last_run_at and last_run_status too.
EditWrites ==
    /\ edit # None
    /\ job' = IF job.live THEN edit ELSE job
    /\ edit' = None
    /\ UNCHANGED <<default, run, rows, exec, held, config, sent, edits, crashes, faults>>

\* scheduler on-finish set and clear, whose own races Service has.
SetDefault(hook) ==
    /\ hook # default /\ edits < MaxEdits
    /\ default' = hook /\ edits' = edits + 1
    /\ UNCHANGED <<job, run, rows, exec, held, config, sent, edit, crashes, faults>>

\* Mutant: the delivery records are left behind.
DeleteKeepingRecords ==
    /\ job.live
    /\ job' = [job EXCEPT !.live = FALSE, !.last = None]
    /\ run' = [r \in Runs |-> IF run[r] = "absent" THEN "absent" ELSE "deleted"]
    /\ UNCHANGED <<default, rows, exec, held, config, sent, edit, edits, crashes, faults>>

\* job delete, and the two cascades: runs, and their delivery records.
DeleteJob ==
    /\ job.live
    /\ job' = [job EXCEPT !.live = FALSE, !.last = None]
    /\ run' = [r \in Runs |-> IF run[r] = "absent" THEN "absent" ELSE "deleted"]
    /\ rows' = [r \in Runs |-> {}]
    /\ UNCHANGED <<default, exec, held, config, sent, edit, edits, crashes, faults>>

-----------------------------------------------------------------------------
Init ==
    /\ job \in InitialJobs
    /\ default \in Hook
    /\ run = [r \in Runs |-> "absent"]
    /\ rows = [r \in Runs |-> {}]
    /\ exec = [r \in Runs |-> "none"]
    /\ held = [r \in Runs |-> None]
    /\ config = [r \in Runs |-> None]
    /\ sent = [r \in Runs |-> <<>>]
    /\ edit = None
    /\ edits = 0 /\ crashes = 0 /\ faults = 0

PersistStep(r) ==
    MarkFinished(r) \/ UpdateLastRunSummary(r) \/ ResolveConfig(r) \/ RecordAttempt(r)
    \/ FinishActiveRun(r)

ExecutorStep(r) ==
    StartRunExecution(r) \/ ExecutionEnds(r) \/ DeliverAttempt(r) \/ PersistStep(r)

EditStep ==
    EditReads \/ EditWrites \/ DeleteJob \/ \E hook \in Hook : SetDefault(hook)

Next == (\E r \in Runs : ExecutorStep(r)) \/ Crash \/ EditStep

Spec == Init /\ [][Next]_vars

\* The timeout ends an HTTP attempt.  A command hook may outlast its own: the
\* pipes of its output stay open for as long as a child of the command lives.
FairSpec ==
    /\ Spec
    /\ \A r \in Runs :
          /\ WF_vars(PersistStep(r))
          /\ WF_vars(config[r] # None /\ config[r].sink = "http" /\ DeliverAttempt(r))

-----------------------------------------------------------------------------
(* Properties.                                                             *)

\* Every variable stays in its type.
TypeOK ==
    /\ job \in JobRow /\ default \in Hook
    /\ run \in [Runs -> {"absent", "running", "ended", "deleted"}]
    /\ \A r \in Runs :
          /\ \A d \in rows[r] : d.status \in Status /\ d.attempt \in Nat \ {0}
          /\ \A i \in DOMAIN sent[r] : sent[r][i] \in Status \cup {"rejected"}
    /\ exec \in [Runs -> ExecPcs]
    /\ held \in [Runs -> JobRow \cup {None}]
    /\ config \in [Runs -> Hook]
    /\ edit \in JobRow \cup {None}

\* A sink that has accepted the event, or refused it, is not called again, and
\* none is called more often than its retries allow (Notify).
NoAttemptAfterSettled ==
    \A r \in Runs :
        /\ config[r] # None => Len(sent[r]) <= Attempts(config[r])
        /\ \A i \in 1..(Len(sent[r]) - 1) : sent[r][i] = "failed"

\* Records are of attempts that were made, with what came of them, and none is
\* left of a run that is deleted while its hook is under way.
RecordsAreTrue ==
    \A r \in Runs : \A d \in rows[r] :
        /\ run[r] = "ended"
        /\ d.attempt <= Len(sent[r])
        /\ d.status = LET result == sent[r][d.attempt] IN
                      IF result = "rejected" THEN "failed" ELSE result

\* The job's last_run columns are the end of a run that has ended, also after an
\* edit has written them back from an older copy.
LastRunHasEnded == job.last # None => run[job.last] = "ended"

\* The hook a job has of its own is called at the end of every run that began
\* with it, though the job may be edited or deleted meanwhile and its summary be
\* lost: only a killed daemon forgets it.
OwnHookIsCalled ==
    \A r \in Runs :
        exec[r] = "summary" /\ held[r].hook # None /\ held[r].hook.sink = "http" ~>
            sent[r] # <<>> \/ exec[r] = "lost"

\* A run whose command has ended leaves the active runs, and with it the job is
\* free again, unless a command hook hangs or the daemon is killed.
HookLetsGo ==
    \A r \in Runs :
        exec[r] = "persist" ~>
            \/ exec[r] \in {"done", "lost"}
            \/ exec[r] = "deliver" /\ config[r].sink = "command"

=============================================================================
