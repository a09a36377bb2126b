------------------------------ MODULE JobTable ------------------------------
(***************************************************************************)
(* The `jobs' table of an instance database: one operator per statement of *)
(* internal/sqlite/jobs_store.go.  Each statement is one SQLite statement, *)
(* hence atomic; what is NOT atomic is the pair (read a row, write it      *)
(* back), which the modules that use this one keep as two steps.           *)
(*                                                                         *)
(* A row keeps the columns the scheduler decides with.  Name, command,     *)
(* timezone and the hook configuration are left out: they are only ever    *)
(* carried along; last_run_at and last_run_status, which the loop never    *)
(* reads, are the subject of OnFinish.  Time is a number of ticks; a       *)
(* schedule is "once" (after D) or "interval" (every D, and cron, whose    *)
(* next fire time also only depends on the reference time), with one       *)
(* period D for all.                                                       *)
(*                                                                         *)
(* Definitions marked `Mutant' are wrong on purpose: they show that the    *)
(* properties tell them from the definition that follows them.             *)
(***************************************************************************)
EXTENDS Integers, FiniteSets

CONSTANTS
    Jobs,       \* the AUTOINCREMENT ids jobs may ever get
    Period      \* the duration in a schedule expression

ASSUME JobsAssumption == Jobs \subseteq Nat \ {0}
ASSUME PeriodAssumption == Period \in Nat \ {0}

Policies == {"forbid", "queue", "replace"}
Kinds == {"once", "interval"}

NoTime == -1                    \* SQL NULL in a time column
Time == Nat \cup {NoTime}

\* "new" is an id not handed out yet; ids of deleted jobs are never reused.
JobRow ==
    [state : {"new", "live", "gone"}, policy : Policies, kind : Kinds,
     enabled : BOOLEAN, next : Time]

\* A row as a process holds it in memory after SELECT.
JobCopy == [id : Jobs, row : JobRow]

IsLive(table, j) == table[j].state = "live"

(***************************************************************************)
(* JobStore.Update writes EVERY column from the caller's copy, next_run_at *)
(* included; UpdateNextRun writes that column alone.  A missing row is     *)
(* ErrJobNotFound: nothing changes.                                        *)
(***************************************************************************)
JobUpdate(table, j, row) ==
    IF IsLive(table, j) THEN [table EXCEPT ![j] = row] ELSE table

UpdateNextRun(table, j, next) ==
    IF IsLive(table, j) THEN [table EXCEPT ![j].next = next] ELSE table

DeleteByName(table, j) == [table EXCEPT ![j].state = "gone"]

\* SELECT ... WHERE enabled = 1 AND next_run_at IS NOT NULL AND next_run_at <= now
ListDue(table, now) ==
    {c \in {[id |-> j, row |-> table[j]] : j \in Jobs} :
        /\ c.row.state = "live"
        /\ c.row.enabled
        /\ c.row.next # NoTime
        /\ c.row.next <= now}

\* ORDER BY next_run_at ASC, id ASC
DueFirst(c, S) ==
    \A d \in S \ {c} : \/ c.row.next < d.row.next
                       \/ c.row.next = d.row.next /\ c.id < d.id

(***************************************************************************)
(* schedule.Next adds the duration to a reference time.  The CLI takes the *)
(* present as the reference; the loop starts from the due time and adds    *)
(* until the result is after the tick (computeFutureNextRun), so missed    *)
(* slots are skipped and the phase is kept.                                *)
(***************************************************************************)
NextFromNow(now) == now + Period

\* Mutant: stops at the last slot that is not after now.
LastSlotRun(next, now) == next + Period * ((now - next) \div Period)

FutureNextRun(next, now) == next + Period * ((now - next) \div Period + 1)

=============================================================================
