------------------------------ MODULE Schedule ------------------------------
(***************************************************************************)
(* When a job is due: internal/schedule (Parse, Next), the computation of  *)
(* the following slot by the loop (internal/daemon/policy.go) and by the   *)
(* CLI (internal/app/job_support.go), and what the `next_run_at' column    *)
(* keeps of it.                                                            *)
(*                                                                         *)
(* JobTable takes all durations to be one whole number of ticks and the    *)
(* computation to be one step.  Here time has fractions of a second, which *)
(* the clock shows and RFC 3339 texts do not, schedules are durations and  *)
(* calendars, and every turn of computeFutureNextRun's loop is a step, so  *)
(* that it is a question whether there is a last one.  One job and one CLI *)
(* command at a time are enough: no statement reads two rows.              *)
(***************************************************************************)
EXTENDS Integers, Sequences

CONSTANTS
    Second,         \* units of time in a second
    Exprs,          \* the schedule expressions users type
    Horizon,        \* how far the cron library looks for the next time
    MaxNow,         \* bound: the clock stops there
    MaxEdits,       \* bound: CLI commands that write the row
    MaxQueued,      \* bound: scheduled runs between two such commands
    MaxFaults       \* bound: database calls of the loop that fail

\* A duration, or a calendar: the times that match the five cron fields, none
\* of which is finer than a minute.
DurationExpr == [kind : {"interval", "once"}, every : Int]
CronExpr == [kind : {"cron"}, fires : SUBSET {t \in Nat : t % Second = 0}]

ASSUME SecondAssumption == Second \in Nat \ {0} /\ Horizon \in Nat
ASSUME ExprsAssumption == Exprs \subseteq DurationExpr \cup CronExpr
ASSUME ScheduleBoundsAssumption == {MaxNow, MaxEdits, MaxQueued, MaxFaults} \subseteq Nat

VARIABLES
    now,            \* the wall clock
    row,            \* the job's schedule, enabled and next_run_at columns
    pc,             \* where the loop goroutine stands
    tick,           \* the time of the tick being processed
    job,            \* the loop's copy of the row
    ref,            \* `ref', and at last `nextRunAt', of computeFutureNextRun
    cli,            \* the row a CLI command is about to write
    written,        \* history: the row as the CLI wrote it last
    queued,         \* the scheduled runs since then
    edits, faults

loopVars == <<pc, tick, job, ref>>
asked == <<cli, written, edits>>
vars == <<now, row, loopVars, asked, queued, faults>>

NoTime == -1                    \* SQL NULL
ZeroTime == 0                   \* Go's zero time, the first of January of year 1
Time == Nat \cup {NoTime}

Row == [expr : Exprs, enabled : BOOLEAN, next : Time]
Queued == [slot : Time, expr : Exprs]

\* formatTime: RFC 3339 has no fractions of a second.
Stored(t) == t - (t % Second)

\* Mutant: a duration need only parse.
AnyDuration(e) == TRUE

\* Parse: durations must be positive; five fields in their ranges are a
\* calendar, whether or not any day has them all.
Accepted(e) == e.kind \in {"interval", "once"} => e.every > 0

(***************************************************************************)
(* robfig/cron: the first matching time after a reference, whole seconds   *)
(* all of them, or the zero time if there is none in the next five years.  *)
(***************************************************************************)
CronNext(fires, from) ==
    LET ahead == {t \in fires : from < t /\ t <= from + Horizon} IN
    IF ahead = {} THEN {ZeroTime}
                  ELSE {t \in ahead : \A u \in ahead : t <= u}

\* schedule.Next, as the set of its one result.
Next(e, from) == IF e.kind = "cron" THEN CronNext(e.fires, from) ELSE {from + e.every}

-----------------------------------------------------------------------------
(* The loop: processDueJobs for this job.                                  *)

CallWorks == UNCHANGED faults
CallFails == faults < MaxFaults /\ faults' = faults + 1

\* ListDue compares texts: the fraction of the present is cut off.
ListDue ==
    /\ pc = "idle"
    /\ row.enabled /\ row.next # NoTime /\ row.next <= Stored(now)
    /\ pc' = "due" /\ tick' = now /\ job' = row
    /\ UNCHANGED <<now, row, ref, asked, queued, faults>>

Finish == pc' = "idle" /\ UNCHANGED <<tick, job, ref>>

\* advanceScheduleState
Advance ==
    /\ pc' = IF job.expr.kind = "once" THEN "disable" ELSE "search"
    /\ ref' = IF job.expr.kind = "once" THEN ref ELSE job.next
    /\ UNCHANGED <<tick, job>>

\* The policy queues a run for the slot, or forbids it; on an error the
\* schedule stays where it is.
Enqueue ==
    /\ pc = "due"
    /\ \/ /\ CallWorks /\ Len(queued) < MaxQueued
          /\ queued' = Append(queued, [slot |-> job.next, expr |-> job.expr])
          /\ Advance
       \/ CallWorks /\ UNCHANGED queued /\ Advance
       \/ CallFails /\ UNCHANGED queued /\ Finish
    /\ UNCHANGED <<now, row, asked>>

\* Mutant: a slot at the very tick is taken for a future one.
SearchToTick ==
    /\ pc = "search"
    /\ \E t \in Next(job.expr, ref) :
          /\ ref' = t
          /\ pc' = IF t >= tick THEN "store" ELSE "search"
    /\ UNCHANGED <<now, row, tick, job, asked, queued, faults>>

\* Mutant: the reference is returned instead of the slot after it.
SearchReturningRef ==
    /\ pc = "search"
    /\ \E t \in Next(job.expr, ref) :
          IF t > tick THEN pc' = "store" /\ UNCHANGED ref
                      ELSE ref' = t /\ UNCHANGED pc
    /\ UNCHANGED <<now, row, tick, job, asked, queued, faults>>

\* One turn of computeFutureNextRun.  Nothing in it looks at the loop's ctx.  (An
\* error of loadJobLocation or Next, which no stored schedule causes, would
\* leave the row as a failing UpdateNextRun does.)
Search ==
    /\ pc = "search"
    /\ \E t \in Next(job.expr, ref) :
          /\ ref' = t
          /\ pc' = IF t > tick THEN "store" ELSE "search"
    /\ UNCHANGED <<now, row, tick, job, asked, queued, faults>>

\* Mutant: the full row is written back.
UpdateAll ==
    /\ pc = "store"
    /\ CallWorks /\ row' = [job EXCEPT !.next = Stored(ref)]
    /\ Finish
    /\ UNCHANGED <<now, asked, queued>>

\* UpdateNextRun writes that column alone.
UpdateNextRun ==
    /\ pc = "store"
    /\ \/ CallWorks /\ row' = [row EXCEPT !.next = Stored(ref)]
       \/ CallFails /\ UNCHANGED row
    /\ Finish
    /\ UNCHANGED <<now, asked, queued>>

\* A one-time job is disabled, and its whole row written back.
DisableOnce ==
    /\ pc = "disable"
    /\ \/ CallWorks /\ row' = [job EXCEPT !.enabled = FALSE, !.next = NoTime]
       \/ CallFails /\ UNCHANGED row
    /\ Finish
    /\ UNCHANGED <<now, asked, queued>>

-----------------------------------------------------------------------------
(* The CLI.                                                                *)

\* computeNextRun from the present; a disabled job has no next run.
Recomputed(r) ==
    IF ~r.enabled THEN {[r EXCEPT !.next = NoTime]}
    ELSE {[r EXCEPT !.next = Stored(t)] : t \in Next(r.expr, now)}

(***************************************************************************)
(* update with another schedule; pause, resume and their update flags; and *)
(* an update of something else, which writes the copy back as it is.       *)
(***************************************************************************)
Edited(r) ==
    {r}
    \cup Recomputed([r EXCEPT !.enabled = ~r.enabled])
    \cup UNION {Recomputed([r EXCEPT !.expr = e]) : e \in {x \in Exprs : Accepted(x)} \ {r.expr}}

EditReads ==
    /\ cli = {} /\ edits < MaxEdits
    /\ \E r \in Edited(row) : cli' = {r}
    /\ edits' = edits + 1
    /\ UNCHANGED <<now, row, loopVars, written, queued, faults>>

EditWrites ==
    /\ \E r \in cli : row' = r
    /\ written' = row'
    /\ cli' = {} /\ queued' = <<>>
    /\ UNCHANGED <<now, loopVars, edits, faults>>

\* Time passes, any amount of it: while the daemon is down, for instance.
AdvanceClock ==
    /\ now < MaxNow
    /\ now' \in (now + 1)..MaxNow
    /\ UNCHANGED <<row, loopVars, asked, queued, faults>>

-----------------------------------------------------------------------------
\* The job as `job add' leaves it, and an idle daemon.
Init ==
    /\ now \in Second..(2 * Second - 1)
    /\ \E e \in {x \in Exprs : Accepted(x)}, b \in BOOLEAN :
          row \in Recomputed([expr |-> e, enabled |-> b, next |-> NoTime])
    /\ pc = "idle" /\ tick = 0 /\ job = row /\ ref = 0
    /\ cli = {} /\ written = row /\ queued = <<>>
    /\ edits = 0 /\ faults = 0

LoopStep == ListDue \/ Enqueue \/ Search \/ UpdateNextRun \/ DisableOnce

CliStep == EditReads \/ EditWrites

ScheduleNext == LoopStep \/ CliStep \/ AdvanceClock

Spec == Init /\ [][ScheduleNext]_vars

\* The loop is one goroutine, and never waits while it processes a tick.
FairSpec == Spec /\ WF_vars(LoopStep)

-----------------------------------------------------------------------------
(* Properties.                                                             *)

\* Every variable stays in its type; times that are stored are whole seconds.
TypeOK ==
    /\ now \in Nat /\ tick \in Nat /\ ref \in Nat
    /\ row \in Row /\ job \in Row /\ written \in Row
    /\ \A r \in {row, job} \cup cli : r.next # NoTime => r.next % Second = 0
    /\ pc \in {"idle", "due", "search", "store", "disable"}
    /\ cli \subseteq Row
    /\ queued \in Seq(Queued)
    /\ edits \in Nat /\ faults \in Nat

\* The slots of a recurring schedule of which `from' is one.
IsSlot(e, from, t) ==
    IF e.kind = "cron" THEN t \in e.fires
                       ELSE t > from /\ (t - from) % e.every = 0

\* Whatever time has passed since the slot that is due, the loop ends its
\* search at the first slot after the tick: missed ones are skipped, and the
\* phase is kept.
NextIsLeast ==
    pc = "store" =>
        /\ ref > tick
        /\ IsSlot(job.expr, job.next, ref)
        /\ \A t \in tick + 1..ref - 1 : ~IsSlot(job.expr, job.next, t)

\* While no call of the loop fails and nobody edits the job, no slot is queued
\* twice, and the runs of an interval job are whole intervals apart.
SlotsKeepTheInterval ==
    faults = 0 =>
        \A i \in 1..Len(queued) - 1 :
            LET p == queued[i] q == queued[i + 1] IN
            /\ p.slot < q.slot
            /\ p.expr = q.expr /\ p.expr.kind = "interval"
                  => (q.slot - p.slot) % p.expr.every = 0

\* However a command's write meets the loop in the middle of a tick, little
\* comes of what the loop knew before it.  After a pause, and of a schedule that
\* was replaced, the tick in progress queues one run at most, and no later one
\* does.  The next_run_at that update has recomputed may be overwritten with a
\* slot of the old schedule, but only the first run of a new calendar can be at
\* such a slot.  (A failing call may have that slot queued again, so that the
\* last clause is about none.  DisableOnce may undo the edit itself.)
StaleSlotsRunOut ==
    /\ ~written.enabled => Len(queued) <= 1
    /\ \A i \in 2..Len(queued) :
          /\ queued[i].expr = written.expr
          /\ faults = 0 /\ written.expr.kind = "cron" /\ queued[i - 1].expr = written.expr
                => queued[i].slot \in written.expr.fires

\* A loop that has begun to look for the next slot finds one.
AdvanceEnds == pc = "search" ~> pc # "search"

=============================================================================
