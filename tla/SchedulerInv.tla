---------------------------- MODULE SchedulerInv ----------------------------
(***************************************************************************)
(* The inductive invariant behind the safety properties of Scheduler: what *)
(* the tables, the loop and the executor goroutines may rely on of each    *)
(* other between any two steps.  TLC checks it, SchedulerProofs proves it. *)
(***************************************************************************)
EXTENDS Scheduler

\* The ids below nextRun, and only those, have been given to a run of a job.
RowsFollowIds ==
    \A r \in RunIds :
        IF r < nextRun THEN runs[r].st # "absent" /\ runs[r].job \in Jobs
                       ELSE runs[r].st = "absent" /\ runs[r].job = 0

\* A run whose command was started is past pending, and until its goroutine
\* has called MarkFinished nobody else ends it.
StartedRows ==
    \A r \in RunIds :
        /\ exec[r] # "none" => runs[r].st \notin {"absent", "pending"}
        /\ exec[r] \in {"executing", "persist"} => runs[r].st \in {"running", "deleted"}

\* From prepareRunStart to startRunExecution every run of the same job that is
\* still to be told to stop is among the loop's victims, and the run being
\* started has not been started before.
LoopHoldsCur ==
    /\ pc \in {"claim", "mark", "launch"} =>
          /\ cur \in RunIds /\ runs[cur].st # "absent"
          /\ \A s \in Active :
                reason[s] = "none" /\ runs[s].job = runs[cur].job => s \in victims
    /\ pc \in {"mark", "launch"} => victims = {}
    /\ pc = "launch" => exec[cur] = "none" /\ runs[cur].st \in {"running", "deleted"}

BatchIsQueued == \A r \in pend : runs[r].st # "absent"

DownIsDown == daemon = "down" => pc = "down"

SafetyInv ==
    /\ RowsFollowIds
    /\ StartedRows
    /\ LoopHoldsCur
    /\ BatchIsQueued
    /\ DownIsDown
    /\ SingleLive

=============================================================================
