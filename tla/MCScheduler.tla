---------------------------- MODULE MCScheduler ----------------------------
(* Small instances of Scheduler for TLC. *)
EXTENDS SchedulerInv

\* A job that is due from the start.
Row(policy, kind) ==
    [state |-> "live", policy |-> policy, kind |-> kind, enabled |-> TRUE,
     next |-> 0]

IntervalJobs == [Jobs -> {Row(p, "interval") : p \in Policies}]

\* A forbid job, or an id that `job add' has yet to hand out.
DueOrNew ==
    [Jobs -> {[Row("forbid", "interval") EXCEPT !.state = s] : s \in {"live", "new"}}]

\* A one-time job beside one of each policy.
OnceBeside ==
    {[j \in Jobs |-> IF j = 1 THEN Row(p, "interval") ELSE Row("forbid", "once")] :
        p \in Policies}

=============================================================================
