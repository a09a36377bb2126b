----------------------------- MODULE MCSchedule -----------------------------
(* Small instances of Schedule for TLC. *)
EXTENDS Schedule

Every(n) == [kind |-> "interval", every |-> n]
After(n) == [kind |-> "once", every |-> n]
Cron(S) == [kind |-> "cron", fires |-> S]

\* Two units in a second: intervals of one and two seconds, a one-time job,
\* a calendar with uneven gaps, and durations Parse refuses.
WholeSeconds ==
    {Every(2), Every(4), After(2), Cron({4, 6, 12} \cup {2 * i : i \in 8..20}),
     Every(0), After(0)}

\* cron 0 0 30 2 *
ThirtiethOfFebruary == {Cron({})}

\* every 1500ms
OneAndAHalfSeconds == {Every(3)}

=============================================================================
