--------------------------- MODULE OnFinishProofs ---------------------------
(***************************************************************************)
(* What the end of a run guarantees for any numbers of runs, hooks,        *)
(* retries, edits, kills and failing calls.  The invariant says for every  *)
(* place an executor goroutine may stand in what the tables and its own    *)
(* variables hold.                                                         *)
(***************************************************************************)
EXTENDS OnFinish, TLAPS

USE DEF tables, vars

Result == Status \cup {"rejected"}
DeliveryRow == [attempt : Nat \ {0}, status : Status]

TypeInv ==
    /\ job \in JobRow
    /\ default \in Hook
    /\ run \in [Runs -> {"absent", "running", "ended", "deleted"}]
    /\ rows \in [Runs -> SUBSET DeliveryRow]
    /\ exec \in [Runs -> ExecPcs]
    /\ held \in [Runs -> JobRow \cup {None}]
    /\ config \in [Runs -> Hook]
    /\ sent \in [Runs -> Seq(Result)]
    /\ edit \in JobRow \cup {None}

Fresh(r) == config[r] = None /\ sent[r] = <<>> /\ rows[r] = {}

\* Where a goroutine stands, and what it has done by then.
PlaceInv(r) ==
    /\ exec[r] = "none" => run[r] = "absent" /\ Fresh(r)
    /\ exec[r] \in {"executing", "persist"} => run[r] \in {"running", "deleted"}
    /\ exec[r] \in {"summary", "resolve", "deliver", "record"} => run[r] \in {"ended", "deleted"}
    /\ exec[r] \in {"executing", "persist", "summary", "resolve"} => held[r] \in JobRow /\ Fresh(r)
    /\ exec[r] \in {"deliver", "record"} => config[r] # None
    /\ exec[r] = "deliver" =>
          /\ Len(sent[r]) < Attempts(config[r])
          /\ \A i \in 1..Len(sent[r]) : sent[r][i] = "failed"
    /\ exec[r] = "record" => sent[r] # <<>>

\* No run of a job that is there has been deleted, and a copy of its row that is
\* about to be written back names a run whose end is on record.
JobInv ==
    /\ job.live => \A r \in Runs : run[r] # "deleted"
    /\ edit # None => edit.live
    /\ edit # None /\ job.live /\ edit.last # None => run[edit.last] = "ended"

\* What the properties say of one run.
SettledOf(r) ==
    /\ config[r] # None => Len(sent[r]) <= Attempts(config[r])
    /\ \A i \in 1..(Len(sent[r]) - 1) : sent[r][i] = "failed"

TrueRecordsOf(r) ==
    \A d \in rows[r] :
        /\ run[r] = "ended"
        /\ d.attempt <= Len(sent[r])
        /\ d.status = LET result == sent[r][d.attempt] IN
                      IF result = "rejected" THEN "failed" ELSE result

RunInv(r) == PlaceInv(r) /\ SettledOf(r) /\ TrueRecordsOf(r)

OnFinishInv ==
    /\ TypeInv
    /\ \A r \in Runs : RunInv(r)
    /\ JobInv
    /\ LastRunHasEnded

-----------------------------------------------------------------------------
LEMMA AttemptsAreMany ==
    ASSUME NEW c \in Configs PROVE Attempts(c) \in Nat /\ Attempts(c) >= 2
  BY ConfigsAssumption DEF Attempts

\* A step that touches nothing of a run keeps what is known of it.
LEMMA RunUntouched ==
    ASSUME NEW r \in Runs, RunInv(r), run'[r] = run[r], rows'[r] = rows[r], exec'[r] = exec[r],
           held'[r] = held[r], config'[r] = config[r], sent'[r] = sent[r]
    PROVE  RunInv(r)'
  BY DEF RunInv, PlaceInv, Fresh, SettledOf, TrueRecordsOf

LEMMA OnFinishInvInit == Init => OnFinishInv
<1> SUFFICES ASSUME Init PROVE OnFinishInv
  OBVIOUS
<1>1. job \in JobRow /\ job.last = None /\ job.live
  BY InitialJobAssumption DEF Init, JobRow, Hook
<1>2. TypeInv
  BY <1>1 DEF Init, TypeInv, ExecPcs, Hook
<1>3. \A r \in Runs : RunInv(r)
  BY DEF Init, RunInv, PlaceInv, Fresh, SettledOf, TrueRecordsOf
<1>4. JobInv /\ LastRunHasEnded
  BY <1>1 DEF Init, JobInv, LastRunHasEnded
<1> QED
  BY <1>2, <1>3, <1>4 DEF OnFinishInv

-----------------------------------------------------------------------------
(* The executor goroutine.  A step of r leaves the other runs alone.       *)

LEMMA StartStep ==
    ASSUME OnFinishInv, NEW r \in Runs, StartRunExecution(r)
    PROVE  OnFinishInv'
<1> USE DEF OnFinishInv
<1>1. TypeInv'
  BY DEF TypeInv, StartRunExecution, Goto, ExecPcs
<1>2. RunInv(r)'
  BY DEF StartRunExecution, Goto, TypeInv, RunInv, PlaceInv, Fresh, SettledOf, TrueRecordsOf
<1>3. ASSUME NEW q \in Runs, q # r PROVE RunInv(q)'
  BY <1>3, RunUntouched DEF StartRunExecution, Goto, TypeInv
<1>4. run[r] = "absent"
  BY DEF StartRunExecution, RunInv, PlaceInv
<1>5. JobInv' /\ LastRunHasEnded'
  BY <1>4, NoneAssumption DEF StartRunExecution, TypeInv, JobInv, LastRunHasEnded, JobRow
<1> QED
  BY <1>1, <1>2, <1>3, <1>5

LEMMA ExecutionEndsStep ==
    ASSUME OnFinishInv, NEW r \in Runs, ExecutionEnds(r)
    PROVE  OnFinishInv'
<1> USE DEF OnFinishInv
<1>1. TypeInv'
  BY DEF TypeInv, ExecutionEnds, Goto, ExecPcs
<1>2. RunInv(r)'
  BY DEF ExecutionEnds, Goto, TypeInv, RunInv, PlaceInv, Fresh, SettledOf, TrueRecordsOf
<1>3. ASSUME NEW q \in Runs, q # r PROVE RunInv(q)'
  BY <1>3, RunUntouched DEF ExecutionEnds, Goto, TypeInv
<1>4. JobInv' /\ LastRunHasEnded'
  BY DEF ExecutionEnds, JobInv, LastRunHasEnded
<1> QED
  BY <1>1, <1>2, <1>3, <1>4

LEMMA MarkFinishedStep ==
    ASSUME OnFinishInv, NEW r \in Runs, MarkFinished(r)
    PROVE  OnFinishInv'
<1> USE DEF OnFinishInv
<1>1. TypeInv'
  BY DEF TypeInv, MarkFinished, Goto, ExecPcs
<1>2. RunInv(r)'
  BY DEF MarkFinished, Goto, TypeInv, RunInv, PlaceInv, Fresh, SettledOf, TrueRecordsOf
<1>3. ASSUME NEW q \in Runs, q # r PROVE RunInv(q)'
  BY <1>3, RunUntouched DEF MarkFinished, Goto, TypeInv
<1>4. \A q \in Runs : run'[q] = run[q] \/ run'[q] = "ended"
  BY DEF MarkFinished, TypeInv
<1>5. JobInv' /\ LastRunHasEnded'
  BY <1>4, NoneAssumption DEF MarkFinished, TypeInv, JobInv, LastRunHasEnded, JobRow
<1> QED
  BY <1>1, <1>2, <1>3, <1>5

LEMMA SummaryStep ==
    ASSUME OnFinishInv, NEW r \in Runs, UpdateLastRunSummary(r)
    PROVE  OnFinishInv'
<1> USE DEF OnFinishInv
<1>1. TypeInv'
  BY DEF TypeInv, UpdateLastRunSummary, Goto, ExecPcs, JobRow
<1>2. RunInv(r)'
  BY DEF UpdateLastRunSummary, Goto, TypeInv, RunInv, PlaceInv, Fresh, SettledOf, TrueRecordsOf
<1>3. ASSUME NEW q \in Runs, q # r PROVE RunInv(q)'
  BY <1>3, RunUntouched DEF UpdateLastRunSummary, Goto, TypeInv
<1>4. job.live => run[r] = "ended"
  BY DEF UpdateLastRunSummary, RunInv, PlaceInv, JobInv
<1>5. job'.live = job.live /\ (job' = job \/ (job.live /\ job'.last = r))
  BY DEF UpdateLastRunSummary, TypeInv, JobRow
<1>6. JobInv' /\ LastRunHasEnded'
  BY <1>4, <1>5 DEF UpdateLastRunSummary, JobInv, LastRunHasEnded
<1> QED
  BY <1>1, <1>2, <1>3, <1>6

LEMMA ResolveStep ==
    ASSUME OnFinishInv, NEW r \in Runs, ResolveConfig(r)
    PROVE  OnFinishInv'
<1> USE DEF OnFinishInv
<1>1. held[r] \in JobRow /\ Fresh(r) /\ run[r] \in {"ended", "deleted"}
  BY DEF ResolveConfig, RunInv, PlaceInv
<1>2. /\ config' \in [Runs -> Hook]
      /\ config'[r] \in Hook
      /\ \A q \in Runs : q # r => config'[q] = config[q]
  BY <1>1 DEF ResolveConfig, TypeInv, JobRow
<1>3. TypeInv'
  BY <1>2 DEF TypeInv, ResolveConfig, Goto, ExecPcs
<1>4. exec'[r] = IF config'[r] = None THEN "closing" ELSE "deliver"
  BY DEF ResolveConfig, Goto, TypeInv
<1>5. config'[r] # None => Attempts(config'[r]) \in Nat /\ Attempts(config'[r]) >= 2
  BY <1>2, AttemptsAreMany DEF Hook
<1>6. RunInv(r)'
  BY <1>1, <1>2, <1>4, <1>5 DEF ResolveConfig, RunInv, PlaceInv, Fresh, SettledOf, TrueRecordsOf
<1>7. ASSUME NEW q \in Runs, q # r PROVE RunInv(q)'
  BY <1>2, <1>7, RunUntouched DEF ResolveConfig, Goto, TypeInv
<1>8. JobInv' /\ LastRunHasEnded'
  BY DEF ResolveConfig, JobInv, LastRunHasEnded
<1> QED
  BY <1>3, <1>6, <1>7, <1>8

LEMMA DeliverStep ==
    ASSUME OnFinishInv, NEW r \in Runs, DeliverAttempt(r)
    PROVE  OnFinishInv'
<1> USE DEF OnFinishInv
<1>1. PICK result \in Result : sent' = [sent EXCEPT ![r] = Append(@, result)]
  BY DEF DeliverAttempt, Results, Result, Status
<1>2. sent[r] \in Seq(Result) /\ sent'[r] = Append(sent[r], result)
  BY <1>1 DEF TypeInv
<1>3. sent' \in [Runs -> Seq(Result)] /\ \A q \in Runs : q # r => sent'[q] = sent[q]
  BY <1>1, <1>2 DEF TypeInv
<1>4. TypeInv'
  BY <1>3 DEF TypeInv, DeliverAttempt, Goto, ExecPcs
<1>5. /\ Len(sent'[r]) = Len(sent[r]) + 1
      /\ \A i \in 1..Len(sent[r]) : sent'[r][i] = sent[r][i]
      /\ sent'[r] # <<>> /\ Len(sent[r]) \in Nat
  BY <1>2
<1>6. /\ config[r] # None /\ run[r] \in {"ended", "deleted"}
      /\ Len(sent[r]) < Attempts(config[r])
      /\ \A i \in 1..Len(sent[r]) : sent[r][i] = "failed"
  BY DEF DeliverAttempt, RunInv, PlaceInv
<1>7. Attempts(config[r]) \in Nat
  BY <1>6, AttemptsAreMany DEF TypeInv, Hook
<1>8. exec'[r] = "record" /\ config' = config /\ run' = run /\ rows' = rows
  BY DEF DeliverAttempt, Goto, TypeInv
<1>9. PlaceInv(r)'
  BY <1>5, <1>6, <1>8 DEF PlaceInv
<1>10. SettledOf(r)'
  BY <1>5, <1>6, <1>7, <1>8 DEF SettledOf
<1>11. TrueRecordsOf(r)'
  <2> SUFFICES ASSUME NEW d \in rows[r]
               PROVE  /\ run[r] = "ended"
                      /\ d.attempt <= Len(sent'[r])
                      /\ d.status = LET was == sent'[r][d.attempt] IN
                                    IF was = "rejected" THEN "failed" ELSE was
    BY <1>8 DEF TrueRecordsOf
  <2>1. d.attempt \in Nat \ {0}
    BY DEF TypeInv, DeliveryRow
  <2>2. /\ run[r] = "ended" /\ d.attempt <= Len(sent[r])
        /\ d.status = LET was == sent[r][d.attempt] IN
                      IF was = "rejected" THEN "failed" ELSE was
    BY DEF RunInv, TrueRecordsOf
  <2>3. sent'[r][d.attempt] = sent[r][d.attempt]
    BY <1>5, <2>1, <2>2
  <2> QED
    BY <1>5, <2>1, <2>2, <2>3
<1>12. ASSUME NEW q \in Runs, q # r PROVE RunInv(q)'
  BY <1>3, <1>12, RunUntouched DEF DeliverAttempt, Goto, TypeInv
<1>13. JobInv' /\ LastRunHasEnded'
  BY DEF DeliverAttempt, JobInv, LastRunHasEnded
<1> QED
  BY <1>4, <1>9, <1>10, <1>11, <1>12, <1>13 DEF RunInv

LEMMA RecordStep ==
    ASSUME OnFinishInv, NEW r \in Runs, RecordAttempt(r)
    PROVE  OnFinishInv'
<1> USE DEF OnFinishInv
<1>1. /\ config[r] # None /\ run[r] \in {"ended", "deleted"}
      /\ sent[r] \in Seq(Result) /\ sent[r] # <<>>
  BY DEF RecordAttempt, RunInv, PlaceInv, TypeInv
<1>2. Len(sent[r]) \in Nat \ {0} /\ sent[r][Len(sent[r])] \in Result
  BY <1>1
<1>3. Delivery(r) \in DeliveryRow
  BY <1>2 DEF Delivery, DeliveryRow, Result, Status
<1>4. /\ rows' \in [Runs -> SUBSET DeliveryRow]
      /\ \A q \in Runs : q # r => rows'[q] = rows[q]
      /\ rows'[r] = rows[r] \/ (rows'[r] = rows[r] \cup {Delivery(r)} /\ run[r] # "deleted")
  BY <1>3 DEF RecordAttempt, TypeInv
<1>5. exec'[r] = (IF IsSettled(r) THEN "closing" ELSE "deliver")
  BY DEF RecordAttempt, Goto, TypeInv
<1>6. TypeInv'
  BY <1>4 DEF TypeInv, RecordAttempt, Goto, ExecPcs
<1>7. config' = config /\ run' = run /\ sent' = sent
  BY DEF RecordAttempt
<1>8. SettledOf(r)
  BY DEF RunInv
<1>9. Attempts(config[r]) \in Nat
  BY <1>1, AttemptsAreMany DEF TypeInv, Hook
<1>10. ~IsSettled(r) => /\ Len(sent[r]) < Attempts(config[r])
                        /\ \A i \in 1..Len(sent[r]) : sent[r][i] = "failed"
  BY <1>1, <1>2, <1>8, <1>9 DEF IsSettled, SettledOf, Result, Status
<1>11. PlaceInv(r)'
  BY <1>1, <1>5, <1>7, <1>10 DEF PlaceInv
<1>12. SettledOf(r)'
  BY <1>7, <1>8 DEF SettledOf
<1>13. TrueRecordsOf(r)'
  <2> SUFFICES ASSUME NEW d \in rows'[r]
               PROVE  /\ run[r] = "ended"
                      /\ d.attempt <= Len(sent[r])
                      /\ d.status = LET was == sent[r][d.attempt] IN
                                    IF was = "rejected" THEN "failed" ELSE was
    BY <1>7 DEF TrueRecordsOf
  <2>1. CASE d \in rows[r]
    BY <2>1 DEF RunInv, TrueRecordsOf
  <2>2. CASE d = Delivery(r) /\ run[r] # "deleted"
    BY <1>1, <1>2, <2>2 DEF Delivery
  <2> QED
    BY <1>4, <2>1, <2>2
<1>14. ASSUME NEW q \in Runs, q # r PROVE RunInv(q)'
  BY <1>4, <1>14, RunUntouched DEF RecordAttempt, Goto, TypeInv
<1>15. JobInv' /\ LastRunHasEnded'
  BY DEF RecordAttempt, JobInv, LastRunHasEnded
<1> QED
  BY <1>6, <1>11, <1>12, <1>13, <1>14, <1>15 DEF RunInv

LEMMA FinishStep ==
    ASSUME OnFinishInv, NEW r \in Runs, FinishActiveRun(r)
    PROVE  OnFinishInv'
<1> USE DEF OnFinishInv
<1>1. TypeInv'
  BY DEF TypeInv, FinishActiveRun, Goto, ExecPcs
<1>2. RunInv(r)'
  BY DEF FinishActiveRun, Goto, TypeInv, RunInv, PlaceInv, Fresh, SettledOf, TrueRecordsOf
<1>3. ASSUME NEW q \in Runs, q # r PROVE RunInv(q)'
  BY <1>3, RunUntouched DEF FinishActiveRun, Goto, TypeInv
<1>4. JobInv' /\ LastRunHasEnded'
  BY DEF FinishActiveRun, JobInv, LastRunHasEnded
<1> QED
  BY <1>1, <1>2, <1>3, <1>4

-----------------------------------------------------------------------------
(* Kills, edits and the deletion of the job.                               *)

LEMMA CrashStep == ASSUME OnFinishInv, Crash PROVE OnFinishInv'
<1> USE DEF OnFinishInv
<1>1. TypeInv'
  BY DEF TypeInv, Crash, ExecPcs
<1>2. ASSUME NEW q \in Runs PROVE RunInv(q)'
  <2>1. RunInv(q) /\ exec'[q] = IF exec[q] \in {"none", "done"} THEN exec[q] ELSE "lost"
    BY DEF Crash
  <2> QED
    BY <2>1 DEF Crash, RunInv, PlaceInv, Fresh, SettledOf, TrueRecordsOf
<1>3. JobInv' /\ LastRunHasEnded'
  BY DEF Crash, JobInv, LastRunHasEnded
<1> QED
  BY <1>1, <1>2, <1>3

LEMMA EditStepKeeps == ASSUME OnFinishInv, EditStep PROVE OnFinishInv'
<1> USE DEF OnFinishInv
<1>1. CASE EditReads
  <2>1. edit' \in JobRow /\ edit'.last = job.last /\ edit'.live
    <3>1. job \in JobRow /\ job.live
      BY <1>1 DEF EditReads, TypeInv
    <3>2. edit' \in EditedRows(job) \cup {job}
      BY <1>1 DEF EditReads
    <3> QED
      BY <3>1, <3>2 DEF EditedRows, JobRow, Hook
  <2>2. TypeInv'
    BY <1>1, <2>1 DEF TypeInv, EditReads
  <2>3. ASSUME NEW q \in Runs PROVE RunInv(q)'
    BY <1>1, <2>3, RunUntouched DEF EditReads
  <2>4. JobInv' /\ LastRunHasEnded'
    BY <1>1, <2>1 DEF EditReads, JobInv, LastRunHasEnded
  <2> QED
    BY <2>2, <2>3, <2>4
<1>2. CASE EditWrites
  <2>1. edit \in JobRow /\ edit.live
    BY <1>2 DEF EditWrites, TypeInv, JobInv
  <2>2. TypeInv'
    BY <1>2, <2>1 DEF TypeInv, EditWrites
  <2>3. ASSUME NEW q \in Runs PROVE RunInv(q)'
    BY <1>2, <2>3, RunUntouched DEF EditWrites
  <2>4. JobInv' /\ LastRunHasEnded'
    BY <1>2, <2>1 DEF EditWrites, JobInv, LastRunHasEnded
  <2> QED
    BY <2>2, <2>3, <2>4
<1>3. CASE DeleteJob
  <2>1. job' \in JobRow /\ ~job'.live /\ job'.last = None
    BY <1>3 DEF DeleteJob, TypeInv, JobRow
  <2>2. TypeInv'
    BY <1>3, <2>1 DEF TypeInv, DeleteJob
  <2>3. ASSUME NEW q \in Runs PROVE RunInv(q)'
    <3>1. RunInv(q) /\ rows'[q] = {} /\ run'[q] = IF run[q] = "absent" THEN "absent" ELSE "deleted"
      BY <1>3 DEF DeleteJob
    <3> QED
      BY <1>3, <3>1 DEF DeleteJob, RunInv, PlaceInv, Fresh, SettledOf, TrueRecordsOf
  <2>4. JobInv' /\ LastRunHasEnded'
    BY <1>3, <2>1 DEF DeleteJob, JobInv, LastRunHasEnded
  <2> QED
    BY <2>2, <2>3, <2>4
<1>4. ASSUME NEW hook \in Hook, SetDefault(hook) PROVE OnFinishInv'
  <2>1. TypeInv'
    BY <1>4 DEF TypeInv, SetDefault
  <2>2. ASSUME NEW q \in Runs PROVE RunInv(q)'
    BY <1>4, <2>2, RunUntouched DEF SetDefault
  <2>3. JobInv' /\ LastRunHasEnded'
    BY <1>4 DEF SetDefault, JobInv, LastRunHasEnded
  <2> QED
    BY <2>1, <2>2, <2>3
<1> QED
  BY <1>1, <1>2, <1>3, <1>4 DEF EditStep

LEMMA OnFinishInvNext == OnFinishInv /\ [Next]_vars => OnFinishInv'
<1> SUFFICES ASSUME OnFinishInv, [Next]_vars PROVE OnFinishInv'
  OBVIOUS
<1>1. ASSUME NEW r \in Runs, ExecutorStep(r) PROVE OnFinishInv'
  BY <1>1, StartStep, ExecutionEndsStep, MarkFinishedStep, SummaryStep, ResolveStep,
     DeliverStep, RecordStep, FinishStep DEF ExecutorStep, PersistStep
<1>2. CASE UNCHANGED vars
  BY <1>2 DEF OnFinishInv, TypeInv, RunInv, PlaceInv, Fresh, SettledOf, TrueRecordsOf, JobInv,
              LastRunHasEnded
<1> QED
  BY <1>1, <1>2, CrashStep, EditStepKeeps DEF Next

-----------------------------------------------------------------------------
LEMMA OnFinishSafe == Spec => []OnFinishInv
<1> QED
  BY OnFinishInvInit, OnFinishInvNext, PTL DEF Spec

\* Every variable stays in its type (the whole end of a run, on_finish.go and
\* loop.go), for all constants.
THEOREM OnFinishTypes == Spec => []TypeOK
<1>1. OnFinishInv => TypeOK
  BY DEF OnFinishInv, TypeInv, TypeOK, DeliveryRow, Result
<1> QED
  BY <1>1, OnFinishSafe, PTL

\* A sink that has answered is left alone, and no hook is called more often than
\* its retries allow (Notify), for any retries and any number of runs.
THEOREM SettledHooksAreLeftAlone == Spec => []NoAttemptAfterSettled
<1>1. OnFinishInv => NoAttemptAfterSettled
  BY DEF OnFinishInv, RunInv, SettledOf, NoAttemptAfterSettled
<1> QED
  BY <1>1, OnFinishSafe, PTL

\* The delivery records tell what came of attempts that were made, and none
\* outlives its run (recordAttempt and the cascade of job delete).
THEOREM RecordsStayTrue == Spec => []RecordsAreTrue
<1>1. OnFinishInv => RecordsAreTrue
  BY DEF OnFinishInv, RunInv, TrueRecordsOf, RecordsAreTrue
<1> QED
  BY <1>1, OnFinishSafe, PTL

\* The last_run columns of a job show a run whose end is on record, whoever wrote
\* them last (UpdateLastRunSummary, JobStore.Update, job delete).
THEOREM LastRunIsOnRecord == Spec => []LastRunHasEnded
<1>1. OnFinishInv => LastRunHasEnded
  BY DEF OnFinishInv
<1> QED
  BY <1>1, OnFinishSafe, PTL
-----------------------------------------------------------------------------
(* The safety half of OwnHookIsCalled: what the goroutine owes stays owed.  *)

\* The run has ended, and its job had the hook c of its own when it began.
Owes(r, c) ==
    \/ exec[r] \in {"summary", "resolve"} /\ held[r].hook = c
    \/ exec[r] = "deliver" /\ config[r] = c

\* A debt ends with a call of that hook, of whatever sink, or with the daemon.
DebtsAreKept ==
    [][\A r \in Runs, c \in Configs :
          Owes(r, c) =>
              \/ Owes(r, c)'
              \/ sent'[r] # <<>> /\ config'[r] = c
              \/ exec'[r] = "lost"]_vars

LEMMA AppendIsNotEmpty ==
    ASSUME NEW results \in Seq(Result), NEW result \in Result
    PROVE  Append(results, result) # <<>>
<1>1. Len(Append(results, result)) = Len(results) + 1 /\ Len(results) \in Nat
  OBVIOUS
<1>2. Len(<<>>) = 0
  OBVIOUS
<1> QED
  BY <1>1, <1>2

LEMMA RunStepKeepsDebts ==
    ASSUME OnFinishInv, NEW q \in Runs, ExecutorStep(q), NEW r \in Runs, NEW c \in Configs,
           Owes(r, c)
    PROVE  Owes(r, c)' \/ (sent'[r] # <<>> /\ config'[r] = c)
<1> USE DEF OnFinishInv, TypeInv
<1>1. CASE q # r
  BY <1>1 DEF Owes, ExecutorStep, PersistStep, StartRunExecution, ExecutionEnds, MarkFinished,
              UpdateLastRunSummary, ResolveConfig, DeliverAttempt, RecordAttempt,
              FinishActiveRun, Goto
<1>2. CASE q = r /\ UpdateLastRunSummary(r)
  BY <1>2 DEF Owes, UpdateLastRunSummary, Goto
<1>3. CASE q = r /\ ResolveConfig(r)
  <2>1. exec[r] = "resolve" /\ held[r].hook = c /\ c # None
    BY <1>3, NoneAssumption DEF Owes, ResolveConfig
  <2>2. config' = [config EXCEPT ![r] = c]
    BY <1>3, <2>1 DEF ResolveConfig
  <2>3. config'[r] = c /\ exec'[r] = "deliver"
    BY <1>3, <2>1, <2>2 DEF ResolveConfig, Goto
  <2> QED
    BY <2>3 DEF Owes
<1>4. CASE q = r /\ DeliverAttempt(r)
  <2>1. config'[r] = c
    BY <1>4 DEF Owes, DeliverAttempt
  <2>2. PICK result \in Result : sent' = [sent EXCEPT ![r] = Append(@, result)]
    BY <1>4 DEF DeliverAttempt, Results, Result, Status
  <2>3. sent'[r] = Append(sent[r], result) /\ sent[r] \in Seq(Result)
    BY <2>2
  <2>4. sent'[r] # <<>>
    BY <2>3, AppendIsNotEmpty
  <2> QED
    BY <2>1, <2>4
<1>5. CASE q = r /\ exec[r] \notin {"summary", "resolve", "deliver"}
  BY <1>5 DEF Owes
<1> QED
  BY <1>1, <1>2, <1>3, <1>4, <1>5
  DEF ExecutorStep, PersistStep, StartRunExecution, ExecutionEnds, MarkFinished, RecordAttempt,
      FinishActiveRun, UpdateLastRunSummary, ResolveConfig, DeliverAttempt

\* The hook a run's job had of its own when the run began is called once the run
\* has ended, before its goroutine can finish in any other way: no failing call,
\* edit or delete makes persistRunCompletion skip it, only a killed daemon does.
\* With the fairness of FairSpec this is OwnHookIsCalled.
THEOREM OwnHooksAreNotSkipped == Spec => DebtsAreKept
<1>1. ASSUME OnFinishInv, [Next]_vars, NEW r \in Runs, NEW c \in Configs, Owes(r, c)
      PROVE  Owes(r, c)' \/ (sent'[r] # <<>> /\ config'[r] = c) \/ exec'[r] = "lost"
  <2>1. CASE \E q \in Runs : ExecutorStep(q)
    BY <1>1, <2>1, RunStepKeepsDebts
  <2>2. CASE Crash
    BY <1>1, <2>2 DEF Crash, Owes
  <2>3. CASE EditStep \/ UNCHANGED vars
    BY <1>1, <2>3 DEF EditStep, EditReads, EditWrites, DeleteJob, SetDefault, Owes
  <2> QED
    BY <1>1, <2>1, <2>2, <2>3 DEF Next
<1>2. OnFinishInv /\ [Next]_vars
      => [\A r \in Runs, c \in Configs :
             Owes(r, c) =>
                 \/ Owes(r, c)'
                 \/ sent'[r] # <<>> /\ config'[r] = c
                 \/ exec'[r] = "lost"]_vars
  BY <1>1
<1> QED
  BY <1>2, OnFinishSafe, PTL DEF Spec, DebtsAreKept

=============================================================================
