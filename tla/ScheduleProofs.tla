--------------------------- MODULE ScheduleProofs ---------------------------
(* Proofs about Schedule: the next slot is the first one after the tick, for *)
(* any schedules and any clock; little comes of a copy of the row that a     *)
(* command has replaced; and with durations of whole seconds no slot comes   *)
(* twice.  The first part is arithmetic of multiples.                        *)
EXTENDS Schedule, TLAPS

LEMMA MultiplesGrow ==
    ASSUME NEW n \in Nat \ {0}, NEW p \in Int, NEW q \in Int, p <= q
    PROVE  n * p <= n * q
<1>1. n * (q - p) >= 0
  OBVIOUS
<1> QED BY <1>1

LEMMA MultipleLeavesNothing ==
    ASSUME NEW n \in Nat \ {0}, NEW q \in Int
    PROVE  (n * q) % n = 0
<1> DEFINE d == (n * q) \div n
           r == (n * q) % n
<1>1. n * q \in Int /\ d \in Int /\ r \in 0..n - 1 /\ n * q = n * d + r
  OBVIOUS
<1>2. CASE q >= d + 1
  <2>1. n * (d + 1) <= n * q
    BY <1>1, <1>2, MultiplesGrow
  <2> QED BY <2>1, <1>1
<1>3. CASE q + 1 <= d
  <2>1. n * (q + 1) <= n * d
    BY <1>1, <1>3, MultiplesGrow
  <2> QED BY <2>1, <1>1
<1>4. CASE q = d
  BY <1>4, <1>1
<1> QED BY <1>1, <1>2, <1>3, <1>4

LEMMA Quotient ==
    ASSUME NEW n \in Nat \ {0}, NEW a \in Int, a % n = 0
    PROVE  \E q \in Int : a = n * q
<1> WITNESS a \div n \in Int
<1> QED OBVIOUS

\* Sums and differences of multiples are multiples.
LEMMA SumsOfMultiples ==
    ASSUME NEW n \in Nat \ {0}, NEW a \in Int, NEW b \in Int, a % n = 0, b % n = 0
    PROVE  (a + b) % n = 0 /\ (a - b) % n = 0
<1>1. PICK p \in Int : a = n * p
  BY Quotient
<1>2. PICK q \in Int : b = n * q
  BY Quotient
<1>3. (n * (p + q)) % n = 0 /\ (n * (p - q)) % n = 0
  BY MultipleLeavesNothing
<1>4. a + b = n * (p + q) /\ a - b = n * (p - q)
  BY <1>1, <1>2
<1> QED BY <1>3, <1>4

\* Different multiples are at least n apart.
LEMMA MultiplesAreApart ==
    ASSUME NEW n \in Nat \ {0}, NEW a \in Int, NEW b \in Int, a % n = 0, b % n = 0, a < b
    PROVE  a + n <= b
<1>1. PICK p \in Int : a = n * p
  BY Quotient
<1>2. PICK q \in Int : b = n * q
  BY Quotient
<1>3. p + 1 <= q
  <2> SUFFICES ASSUME q <= p PROVE FALSE
    OBVIOUS
  <2> QED BY <1>1, <1>2, MultiplesGrow
<1>4. n * (p + 1) <= n * q
  BY <1>3, MultiplesGrow
<1> QED BY <1>1, <1>2, <1>4

\* What formatTime keeps of a time.
LEMMA StoredIsWhole ==
    ASSUME NEW t \in Nat
    PROVE  Stored(t) \in Nat /\ Stored(t) <= t /\ Stored(t) % Second = 0
<1> DEFINE d == t \div Second
<1>1. d \in Int /\ t % Second \in 0..Second - 1 /\ t = Second * d + (t % Second) /\ d >= 0
  BY SecondAssumption
<1>2. Stored(t) = Second * d
  BY <1>1, SecondAssumption DEF Stored
<1>3. (Second * d) % Second = 0
  BY <1>1, SecondAssumption, MultipleLeavesNothing
<1>4. Second * d >= 0
  BY <1>1, SecondAssumption
<1> QED BY <1>1, <1>2, <1>3, <1>4, SecondAssumption

\* The zero time is none that the clock shows.
LEMMA ZeroIsWhole == ZeroTime \in Nat /\ ZeroTime % Second = 0
BY SecondAssumption DEF ZeroTime

-----------------------------------------------------------------------------
(* Types, and what the loop knows while it looks for the next slot.          *)

Whole(r) == r.next # NoTime => r.next % Second = 0

\* A search has a slot to start from, and an expression that has slots; only
\* one-time jobs are disabled.
Searching ==
    /\ pc # "idle" => job.next \in Nat /\ job.next <= tick
    /\ pc \in {"search", "store"} => job.expr.kind # "once"
    /\ pc = "disable" => job.expr.kind = "once"

\* The search has passed no slot after the tick, and keeps the phase.
OnTheWay ==
    pc = "search" =>
        /\ ref <= tick
        /\ job.expr.kind = "interval" => ref >= job.next /\ (ref - job.next) % job.expr.every = 0

ScheduleInv ==
    /\ TypeOK
    /\ \A r \in {row, job} \cup cli : Accepted(r.expr)
    /\ Searching
    /\ OnTheWay
    /\ NextIsLeast

USE SecondAssumption, ExprsAssumption, ScheduleBoundsAssumption
USE DEF asked

\* Durations are positive once they are accepted, calendars sets of whole seconds.
LEMMA ExprFields ==
    ASSUME NEW e \in Exprs
    PROVE  /\ e.kind \in {"interval", "once", "cron"}
           /\ e.kind = "cron" => e.fires \subseteq Nat /\ \A t \in e.fires : t % Second = 0
           /\ e.kind # "cron" /\ Accepted(e) => e.every \in Nat \ {0}
BY DEF DurationExpr, CronExpr, Accepted

LEMMA NextIsATime ==
    ASSUME NEW e \in Exprs, Accepted(e), NEW from \in Nat, NEW t \in Next(e, from)
    PROVE  t \in Nat
<1>1. CASE e.kind = "cron"
  BY <1>1, ExprFields DEF Next, CronNext, ZeroTime
<1>2. CASE e.kind # "cron"
  BY <1>2, ExprFields DEF Next
<1> QED BY <1>1, <1>2

LEMMA RowFields ==
    ASSUME NEW r \in Row
    PROVE  r.expr \in Exprs /\ r.enabled \in BOOLEAN /\ r.next \in Time
BY DEF Row

\* What the CLI writes is a row again.
LEMMA RecomputedRows ==
    ASSUME NEW r \in Row, Accepted(r.expr), now \in Nat, NEW x \in Recomputed(r)
    PROVE  x \in Row /\ Accepted(x.expr) /\ Whole(x)
<1>1. CASE ~r.enabled
  <2>1. x = [r EXCEPT !.next = NoTime]
    BY <1>1 DEF Recomputed
  <2> QED BY <2>1 DEF Row, Time, Whole
<1>2. CASE r.enabled
  <2>1. PICK t \in Next(r.expr, now) : x = [r EXCEPT !.next = Stored(t)]
    BY <1>2 DEF Recomputed
  <2>2. t \in Nat
    BY NextIsATime, RowFields
  <2>3. Stored(t) \in Nat /\ Stored(t) % Second = 0
    BY <2>2, StoredIsWhole
  <2>4. x.next = Stored(t) /\ x.expr = r.expr
    BY <2>1 DEF Row
  <2>5. x \in Row
    BY <2>1, <2>3 DEF Row, Time
  <2> QED BY <2>3, <2>4, <2>5 DEF Whole
<1> QED BY <1>1, <1>2

LEMMA EditedRows ==
    ASSUME NEW r \in Row, Accepted(r.expr), Whole(r), now \in Nat, NEW x \in Edited(r)
    PROVE  x \in Row /\ Accepted(x.expr) /\ Whole(x)
<1>1. CASE x = r
  BY <1>1
<1>2. CASE x \in Recomputed([r EXCEPT !.enabled = ~r.enabled])
  <2>1. [r EXCEPT !.enabled = ~r.enabled] \in Row /\ Accepted([r EXCEPT !.enabled = ~r.enabled].expr)
    BY DEF Row
  <2> QED BY <1>2, <2>1, RecomputedRows
<1>3. CASE \E e \in Exprs : Accepted(e) /\ x \in Recomputed([r EXCEPT !.expr = e])
  <2>1. PICK e \in Exprs : Accepted(e) /\ x \in Recomputed([r EXCEPT !.expr = e])
    BY <1>3
  <2>2. [r EXCEPT !.expr = e] \in Row /\ Accepted([r EXCEPT !.expr = e].expr)
    BY <2>1 DEF Row
  <2> QED BY <2>1, <2>2, RecomputedRows
<1> QED BY <1>1, <1>2, <1>3 DEF Edited

-----------------------------------------------------------------------------
(* The loop of computeFutureNextRun.                                         *)

\* A turn that has not passed the tick keeps the phase.
LEMMA TurnKeepsPhase ==
    ASSUME ScheduleInv, Search, pc' = "search"
    PROVE  OnTheWay'
<1>1. PICK t \in Next(job.expr, ref) : ref' = t /\ pc' = IF t > tick THEN "store" ELSE "search"
  BY DEF Search
<1>2. UNCHANGED <<tick, job>> /\ pc = "search"
  BY DEF Search
<1>3. job.expr \in Exprs /\ Accepted(job.expr) /\ ref \in Nat /\ tick \in Nat /\ job.next \in Nat
  BY <1>2, RowFields DEF ScheduleInv, TypeOK, Searching
<1>4. t \in Nat
  BY <1>3, NextIsATime
<1>5. ref' <= tick'
  BY <1>1, <1>2, <1>3, <1>4
<1>6. ASSUME job.expr.kind = "interval"
      PROVE  ref' >= job.next /\ (ref' - job.next) % job.expr.every = 0
  <2> DEFINE n == job.expr.every
             a == ref - job.next
  <2>1. n \in Nat \ {0}
    BY <1>3, <1>6, ExprFields
  <2>2. ref >= job.next /\ a \in Int /\ a % n = 0
    BY <1>2, <1>3, <1>6 DEF ScheduleInv, OnTheWay
  <2>3. t = ref + n
    BY <1>6 DEF Next
  <2>4. n % n = 0
    BY <2>1
  <2>5. (a + n) % n = 0
    <3> HIDE DEF a, n
    <3> QED BY <2>1, <2>2, <2>4, SumsOfMultiples
  <2>6. a + n = ref' - job.next
    BY <1>1, <1>3, <2>1, <2>3
  <2>7. ref' >= job.next
    BY <1>1, <1>3, <2>1, <2>2, <2>3
  <2> QED BY <2>5, <2>6, <2>7
<1> QED BY <1>2, <1>5, <1>6 DEF OnTheWay

\* A turn that has passed the tick has found the first slot after it.
LEMMA TurnFindsLeast ==
    ASSUME ScheduleInv, Search, pc' = "store"
    PROVE  NextIsLeast'
<1>1. PICK t \in Next(job.expr, ref) : ref' = t /\ pc' = IF t > tick THEN "store" ELSE "search"
  BY DEF Search
<1>2. UNCHANGED <<tick, job>> /\ pc = "search"
  BY DEF Search
<1>3. job.expr \in Exprs /\ Accepted(job.expr) /\ ref \in Nat /\ tick \in Nat /\ job.next \in Nat
  BY <1>2, RowFields DEF ScheduleInv, TypeOK, Searching
<1>4. t \in Nat /\ t > tick /\ ref <= tick
  BY <1>1, <1>2, <1>3, NextIsATime DEF ScheduleInv, OnTheWay
<1>5. ASSUME job.expr.kind = "cron"
      PROVE  /\ IsSlot(job.expr, job.next, t)
             /\ \A u \in tick + 1..t - 1 : ~IsSlot(job.expr, job.next, u)
  <2> DEFINE ahead == {u \in job.expr.fires : ref < u /\ u <= ref + Horizon}
  <2>1. job.expr.fires \subseteq Nat
    BY <1>3, <1>5, ExprFields
  <2>2. t \in ahead /\ \A u \in ahead : t <= u
    BY <1>3, <1>4, <1>5 DEF Next, CronNext, ZeroTime
  <2>3. ASSUME NEW u \in tick + 1..t - 1, u \in job.expr.fires
        PROVE  FALSE
    <3>1. u \in ahead
      BY <1>3, <1>4, <2>1, <2>2, <2>3
    <3> QED BY <2>2, <3>1, <1>3, <1>4
  <2> QED BY <1>5, <2>2, <2>3 DEF IsSlot
<1>6. ASSUME job.expr.kind = "interval"
      PROVE  /\ IsSlot(job.expr, job.next, t)
             /\ \A u \in tick + 1..t - 1 : ~IsSlot(job.expr, job.next, u)
  <2> DEFINE n == job.expr.every
             a == ref - job.next
  <2>1. n \in Nat \ {0}
    BY <1>3, <1>6, ExprFields
  <2>2. a \in Nat /\ a % n = 0
    BY <1>2, <1>3, <1>6 DEF ScheduleInv, OnTheWay
  <2>3. t = ref + n
    BY <1>6 DEF Next
  <2>4. n % n = 0
    BY <2>1
  <2>5. (a + n) % n = 0
    BY <2>1, <2>2, <2>4, SumsOfMultiples
  <2>6. t - job.next = a + n
    BY <1>3, <2>1, <2>3
  <2>7. ASSUME NEW u \in tick + 1..t - 1, (u - job.next) % n = 0
        PROVE  FALSE
    <3>1. u - job.next \in Int /\ a < u - job.next
      BY <1>3, <1>4
    <3>2. a + n <= u - job.next
      BY <3>1, <2>1, <2>2, <2>7, MultiplesAreApart
    <3> QED BY <3>2, <2>6, <1>3, <1>4, <2>1
  <2>8. t > job.next
    BY <2>1, <2>2, <2>3, <1>3
  <2> QED BY <1>6, <2>5, <2>6, <2>7, <2>8 DEF IsSlot
<1>7. job.expr.kind \in {"cron", "interval"}
  BY <1>2, <1>3, ExprFields DEF ScheduleInv, Searching
<1> QED BY <1>1, <1>2, <1>4, <1>5, <1>6, <1>7 DEF NextIsLeast

-----------------------------------------------------------------------------
LEMMA ScheduleInvInit == Init => ScheduleInv
<1> SUFFICES ASSUME Init PROVE ScheduleInv
  OBVIOUS
<1>1. PICK e \in Exprs, b \in BOOLEAN :
        Accepted(e) /\ row \in Recomputed([expr |-> e, enabled |-> b, next |-> NoTime])
  BY DEF Init
<1>2. now \in Nat
  BY DEF Init
<1>3. [expr |-> e, enabled |-> b, next |-> NoTime] \in Row
  BY DEF Row, Time
<1>4. row \in Row /\ Accepted(row.expr) /\ Whole(row)
  BY <1>1, <1>2, <1>3, RecomputedRows
<1>5. TypeOK
  BY <1>2, <1>4 DEF Init, TypeOK, Whole
<1>6. \A r \in {row, job} \cup cli : Accepted(r.expr)
  BY <1>4 DEF Init
<1> QED BY <1>5, <1>6 DEF Init, ScheduleInv, Searching, OnTheWay, NextIsLeast

LEMMA ScheduleInvNext == ScheduleInv /\ [ScheduleNext]_vars => ScheduleInv'
<1> SUFFICES ASSUME ScheduleInv, [ScheduleNext]_vars PROVE ScheduleInv'
  OBVIOUS
<1> USE DEF Whole
<1>0. /\ row \in Row /\ job \in Row /\ written \in Row /\ cli \subseteq Row
      /\ \A r \in {row, job} \cup cli : Whole(r) /\ Accepted(r.expr)
      /\ now \in Nat /\ tick \in Nat /\ ref \in Nat
  BY DEF ScheduleInv, TypeOK
<1>1. CASE ListDue
  <2>1. job' = row /\ tick' = now /\ row.next \in Nat /\ pc' = "due"
    BY <1>0, <1>1, RowFields DEF ListDue, Time, NoTime
  <2>2. row.next <= now
    BY <1>0, <1>1, <2>1, StoredIsWhole DEF ListDue
  <2>3. TypeOK'
    BY <1>1, <1>0, <2>1 DEF ListDue, ScheduleInv, TypeOK
  <2> QED BY <1>0, <1>1, <2>1, <2>2, <2>3 DEF ListDue, ScheduleInv, Searching, OnTheWay, NextIsLeast
<1>2. CASE Enqueue
  <2>1. UNCHANGED <<now, row, asked, tick, job>> /\ pc = "due"
    BY <1>2 DEF Enqueue, Advance, Finish
  <2>2. job.next \in Nat /\ job.next <= tick
    BY <2>1 DEF ScheduleInv, Searching
  <2>3. ref' \in {ref, job.next} /\ pc' \in {"idle", "search", "disable"}
    BY <1>2 DEF Enqueue, Advance, Finish
  <2>4. queued' \in Seq(Queued)
    <3>1. [slot |-> job.next, expr |-> job.expr] \in Queued
      BY <1>0, RowFields DEF Queued
    <3>2. queued \in Seq(Queued)
      BY DEF ScheduleInv, TypeOK
    <3> QED BY <1>2, <3>1, <3>2 DEF Enqueue
  <2>5. faults' \in Nat /\ edits' \in Nat
    BY <1>2 DEF Enqueue, CallWorks, CallFails, ScheduleInv, TypeOK
  <2>6. TypeOK'
    BY <1>0, <2>1, <2>2, <2>3, <2>4, <2>5 DEF TypeOK
  <2>7. /\ pc' = "search" => ref' = job.next /\ job.expr.kind # "once"
        /\ pc' = "disable" => job.expr.kind = "once"
    BY <1>2 DEF Enqueue, Advance, Finish
  <2>8. ASSUME job.expr.kind = "interval" PROVE (job.next - job.next) % job.expr.every = 0
    <3>1. job.expr.every \in Nat \ {0}
      BY <1>0, <2>8, ExprFields, RowFields
    <3>2. job.next - job.next = 0
      BY <2>2
    <3> QED BY <3>1, <3>2
  <2>9. OnTheWay'
    BY <2>1, <2>2, <2>7, <2>8 DEF OnTheWay
  <2>10. Searching'
    BY <2>1, <2>2, <2>3, <2>7 DEF Searching
  <2>11. NextIsLeast'
    BY <2>3 DEF NextIsLeast
  <2> QED BY <1>0, <2>1, <2>6, <2>9, <2>10, <2>11 DEF ScheduleInv
<1>3. CASE Search
  <2>1. UNCHANGED <<now, row, tick, job, asked, queued, faults>> /\ pc = "search"
    BY <1>3 DEF Search
  <2>2. ref' \in Nat /\ pc' \in {"search", "store"}
    BY <1>3, <1>0, NextIsATime, RowFields DEF Search
  <2>3. TypeOK'
    BY <1>0, <2>1, <2>2 DEF ScheduleInv, TypeOK
  <2>4. Searching'
    BY <2>1, <2>2 DEF ScheduleInv, Searching
  <2>5. CASE pc' = "search"
    BY <1>0, <1>3, <2>1, <2>3, <2>4, <2>5, TurnKeepsPhase DEF ScheduleInv, NextIsLeast
  <2>6. CASE pc' = "store"
    BY <1>0, <1>3, <2>1, <2>3, <2>4, <2>6, TurnFindsLeast DEF ScheduleInv, OnTheWay
  <2> QED BY <2>2, <2>5, <2>6
<1>4. CASE UpdateNextRun \/ DisableOnce
  <2>1. UNCHANGED <<now, tick, job, ref, asked, queued>> /\ pc' = "idle"
    BY <1>4 DEF UpdateNextRun, DisableOnce, Finish
  <2>2. \/ row' = [row EXCEPT !.next = Stored(ref)]
        \/ row' = [job EXCEPT !.enabled = FALSE, !.next = NoTime]
        \/ row' = row
    BY <1>4 DEF UpdateNextRun, DisableOnce
  <2>3. Stored(ref) \in Nat /\ Stored(ref) % Second = 0
    BY <1>0, StoredIsWhole
  <2>4. row' \in Row /\ Accepted(row'.expr) /\ Whole(row')
    <3>1. CASE row' = [row EXCEPT !.next = Stored(ref)]
      BY <1>0, <2>3, <3>1 DEF Row, Time
    <3>2. CASE row' = [job EXCEPT !.enabled = FALSE, !.next = NoTime]
      BY <1>0, <3>2 DEF Row, Time
    <3>3. CASE row' = row
      BY <1>0, <3>3
    <3> QED BY <2>2, <3>1, <3>2, <3>3
  <2>5. faults' \in Nat
    BY <1>4 DEF UpdateNextRun, DisableOnce, CallWorks, CallFails, ScheduleInv, TypeOK
  <2>6. TypeOK'
    BY <1>0, <2>1, <2>4, <2>5 DEF ScheduleInv, TypeOK
  <2> QED BY <1>0, <2>1, <2>4, <2>6 DEF ScheduleInv, Searching, OnTheWay, NextIsLeast
<1>5. CASE EditReads
  <2>1. PICK r \in Edited(row) : cli' = {r}
    BY <1>5 DEF EditReads
  <2>2. r \in Row /\ Accepted(r.expr) /\ Whole(r)
    BY <1>0, EditedRows
  <2>3. UNCHANGED <<now, row, loopVars, written, queued, faults>> /\ edits' \in Nat
    BY <1>5 DEF EditReads, ScheduleInv, TypeOK
  <2>4. TypeOK'
    BY <1>0, <2>1, <2>2, <2>3 DEF ScheduleInv, TypeOK, loopVars
  <2> QED BY <1>0, <2>1, <2>2, <2>3, <2>4
        DEF ScheduleInv, Searching, OnTheWay, NextIsLeast, loopVars
<1>6. CASE EditWrites
  <2>1. row' \in cli /\ written' = row' /\ cli' = {} /\ queued' = <<>>
    BY <1>6 DEF EditWrites
  <2>2. UNCHANGED <<now, loopVars, edits, faults>>
    BY <1>6 DEF EditWrites
  <2>3. TypeOK'
    BY <1>0, <2>1, <2>2 DEF ScheduleInv, TypeOK, loopVars
  <2> QED BY <1>0, <2>1, <2>2, <2>3
        DEF ScheduleInv, Searching, OnTheWay, NextIsLeast, loopVars
<1>7. CASE AdvanceClock
  <2>1. now' \in Nat
    BY <1>0, <1>7 DEF AdvanceClock
  <2> QED BY <1>0, <1>7, <2>1
        DEF AdvanceClock, ScheduleInv, TypeOK, Searching, OnTheWay, NextIsLeast, loopVars
<1>8. CASE UNCHANGED vars
  BY <1>0, <1>8 DEF vars, ScheduleInv, TypeOK, Searching, OnTheWay, NextIsLeast, loopVars
<1> QED BY <1>1, <1>2, <1>3, <1>4, <1>5, <1>6, <1>7, <1>8 DEF ScheduleNext, LoopStep, CliStep

LEMMA ScheduleSafe == Spec => []ScheduleInv
BY ScheduleInvInit, ScheduleInvNext, PTL DEF Spec

\* Rows, copies and references keep their types, and every stored time is a
\* whole second, for all expressions, edits, faults and clocks.
THEOREM ScheduleTypes == Spec => []TypeOK
BY ScheduleSafe, PTL DEF ScheduleInv

\* When computeFutureNextRun ends it has found the first slot after the tick,
\* for any duration and any calendar, however much time has passed.
THEOREM NextSlotIsLeast == Spec => []NextIsLeast
BY ScheduleSafe, PTL DEF ScheduleInv

\* The closed form that stands for the search where a tick is one step.
Table(n) == INSTANCE JobTable WITH Jobs <- {}, Period <- n

LEMMA LeastIsClosedForm ==
    ASSUME NEW n \in Nat \ {0}, NEW from \in Nat, NEW to \in Nat, from <= to,
           NEW t \in Nat, to < t, (t - from) % n = 0,
           \A u \in to + 1..t - 1 : ~(u > from /\ (u - from) % n = 0)
    PROVE  t = from + n * ((to - from) \div n + 1)
<1> DEFINE d == (to - from) \div n
           f == from + n * (d + 1)
<1>1. d \in Nat /\ n * d <= to - from /\ to - from < n * d + n
  OBVIOUS
<1>2. (n * d) % n = 0 /\ (n * (d + 1)) % n = 0
  BY <1>1, MultipleLeavesNothing
<1> HIDE DEF d
<1>3. n * (d + 1) = n * d + n /\ n * d \in Nat
  BY <1>1
<1>4. f \in Nat /\ to < f /\ f - from = n * (d + 1)
  BY <1>1, <1>3
<1>5. n * d + n <= t - from
  <2>1. t - from \in Int /\ n * d < t - from
    BY <1>1, <1>3
  <2> QED BY <1>2, <1>3, <2>1, MultiplesAreApart
<1>6. f <= t
  BY <1>3, <1>5
<1>7. ~(f < t)
  <2> HIDE DEF f
  <2> SUFFICES ASSUME f < t PROVE FALSE
    OBVIOUS
  <2>1. f \in to + 1..t - 1 /\ f > from /\ (f - from) % n = 0
    BY <1>2, <1>4
  <2> QED BY <2>1
<1> QED BY <1>4, <1>6, <1>7 DEF d

\* For a duration, what the turns of computeFutureNextRun find is what
\* JobTable computes in one step, whatever the duration and the delay.
THEOREM SearchIsClosedForm ==
    Spec => [](pc = "store" /\ job.expr.kind = "interval" =>
                   ref = Table(job.expr.every)!FutureNextRun(job.next, tick))
<1>1. ScheduleInv /\ pc = "store" /\ job.expr.kind = "interval" =>
          ref = Table(job.expr.every)!FutureNextRun(job.next, tick)
  <2> SUFFICES ASSUME ScheduleInv, pc = "store", job.expr.kind = "interval"
               PROVE  ref = Table(job.expr.every)!FutureNextRun(job.next, tick)
    OBVIOUS
  <2> DEFINE n == job.expr.every
             from == job.next
  <2>1. /\ n \in Nat \ {0} /\ from \in Nat /\ tick \in Nat /\ ref \in Nat
        /\ from <= tick
    BY RowFields, ExprFields DEF ScheduleInv, TypeOK, Searching
  <2>2. /\ tick < ref /\ (ref - from) % n = 0
        /\ \A u \in tick + 1..ref - 1 : ~(u > from /\ (u - from) % n = 0)
    BY DEF ScheduleInv, NextIsLeast, IsSlot
  <2>3. ref = from + n * ((tick - from) \div n + 1)
    <3> HIDE DEF n, from
    <3> QED BY <2>1, <2>2, LeastIsClosedForm
  <2> QED BY <2>3 DEF Table!FutureNextRun
<1> QED BY <1>1, ScheduleSafe, PTL

-----------------------------------------------------------------------------
(* What comes of a copy of the row that a command has replaced.              *)

\* After the run z, a slot of the calendar the CLI wrote last, if z was one of
\* its runs.
InCalendar(z, t) ==
    faults = 0 /\ written.expr.kind = "cron" /\ z.expr = written.expr
        => t \in written.expr.fires

\* An enabled row has the schedule that was written.  Once a run has been queued
\* since, the loop may still be looking for the slot after it with the copy it
\* was queued from, and after that has no other copy than of that row.
StaleInv ==
    /\ row.enabled => written.enabled /\ row.expr = written.expr
    /\ queued # <<>> =>
          LET z == queued[Len(queued)] IN
          /\ pc = "idle" /\ row.enabled /\ row.next # NoTime => InCalendar(z, row.next)
          /\ pc = "due" => written.enabled /\ job.expr = written.expr /\ InCalendar(z, job.next)
          /\ pc \in {"search", "store"} => job.expr \in {z.expr, written.expr}
    /\ StaleSlotsRunOut

\* What the run queued in the middle of a tick adds to them.
LEMMA EnqueueKeepsStaleInv ==
    ASSUME ScheduleInv, StaleInv, pc = "due", pc' # "due", pc' # "idle",
           UNCHANGED <<row, job, written, faults>>,
           queued' = Append(queued, [slot |-> job.next, expr |-> job.expr])
    PROVE  StaleInv'
<1> DEFINE q == [slot |-> job.next, expr |-> job.expr]
           z == queued[Len(queued)]
<1>0. queued \in Seq(Queued) /\ Len(queued) \in Nat
  BY DEF ScheduleInv, TypeOK
<1>1. q \in Queued
  BY RowFields DEF ScheduleInv, TypeOK, Queued
<1>2. /\ Len(queued') = Len(queued) + 1 /\ queued'[Len(queued')] = q
      /\ \A i \in 1..Len(queued) : queued'[i] = queued[i]
  BY <1>0, <1>1
<1>3. q.slot = job.next /\ q.expr = job.expr
  OBVIOUS
<1> HIDE DEF q
<1>4. queued # <<>> => written.enabled /\ job.expr = written.expr /\ InCalendar(z, job.next)
  BY DEF StaleInv
<1>5. ~written'.enabled => Len(queued') <= 1
  <2>1. ~written.enabled => queued = <<>>
    BY <1>4
  <2>2. queued = <<>> => Len(queued') = 1
    BY <1>2
  <2> QED BY <2>1, <2>2
<1>6. ASSUME NEW i \in 2..Len(queued')
      PROVE  /\ queued'[i].expr = written'.expr
             /\ faults' = 0 /\ written'.expr.kind = "cron" /\ queued'[i - 1].expr = written'.expr
                   => queued'[i].slot \in written'.expr.fires
  <2>1. CASE i <= Len(queued)
    <3>1. i \in 2..Len(queued) /\ i \in 1..Len(queued) /\ i - 1 \in 1..Len(queued)
      BY <1>0, <2>1
    <3>2. queued'[i] = queued[i] /\ queued'[i - 1] = queued[i - 1]
      BY <1>2, <3>1
    <3> QED BY <3>1, <3>2 DEF StaleInv, StaleSlotsRunOut
  <2>2. CASE i = Len(queued')
    <3>1. queued # <<>> /\ i - 1 = Len(queued) /\ i - 1 \in 1..Len(queued)
      BY <1>0, <1>2, <2>2
    <3>2. queued'[i] = q /\ queued'[i - 1] = z
      BY <1>2, <2>2, <3>1
    <3> HIDE DEF z
    <3> QED BY <1>3, <1>4, <3>1, <3>2 DEF InCalendar
  <2> QED BY <1>0, <1>2, <2>1, <2>2
<1>7. StaleSlotsRunOut'
  BY <1>5, <1>6 DEF StaleSlotsRunOut
<1>8. queued'[Len(queued')].expr = job'.expr
  BY <1>2, <1>3
<1>9. row'.enabled => written'.enabled /\ row'.expr = written'.expr
  BY DEF StaleInv
<1> QED BY <1>7, <1>8, <1>9 DEF StaleInv

\* The slot a search has found is one of the calendar it was given, and is
\* stored as it is.
LEMMA FoundIsStored ==
    ASSUME ScheduleInv, pc = "store", job.expr.kind = "cron"
    PROVE  Stored(ref) = ref /\ ref \in job.expr.fires
<1>1. ref \in Nat /\ ref \in job.expr.fires
  BY DEF ScheduleInv, TypeOK, NextIsLeast, IsSlot
<1>2. ref % Second = 0
  BY <1>1, ExprFields, RowFields DEF ScheduleInv, TypeOK
<1> QED BY <1>1, <1>2 DEF Stored

LEMMA StaleInvNext ==
    ASSUME ScheduleInv, StaleInv, [ScheduleNext]_vars
    PROVE  StaleInv'
<1> DEFINE z == queued[Len(queued)]
<1>0. row \in Row /\ job \in Row /\ faults \in Nat
  BY DEF ScheduleInv, TypeOK
<1>1. CASE ListDue
  <2>1. /\ UNCHANGED <<row, written, queued, faults>>
        /\ pc = "idle" /\ pc' = "due" /\ job' = row /\ row.enabled /\ row.next # NoTime
    BY <1>1 DEF ListDue
  <2> QED BY <2>1 DEF StaleInv, InCalendar, StaleSlotsRunOut
<1>2. CASE Enqueue
  <2>1. UNCHANGED <<row, written, job>> /\ pc = "due"
    BY <1>2 DEF Enqueue, Advance, Finish
  <2>2. CASE CallFails /\ UNCHANGED queued /\ Finish
    <3>1. faults' # 0
      BY <1>0, <2>2 DEF CallFails
    <3> QED BY <2>1, <2>2, <3>1 DEF Finish, StaleInv, InCalendar, StaleSlotsRunOut
  <2>3. CASE CallWorks /\ UNCHANGED queued /\ Advance
    <3>1. UNCHANGED <<queued, faults>> /\ pc' \in {"search", "disable"}
      BY <2>3 DEF CallWorks, Advance
    <3> QED BY <2>1, <3>1 DEF StaleInv, InCalendar, StaleSlotsRunOut
  <2>4. CASE CallWorks /\ queued' = Append(queued, [slot |-> job.next, expr |-> job.expr]) /\ Advance
    <3>1. UNCHANGED faults /\ pc' \in {"search", "disable"}
      BY <2>4 DEF CallWorks, Advance
    <3> QED BY <2>1, <2>4, <3>1, EnqueueKeepsStaleInv
  <2> QED BY <1>2, <2>2, <2>3, <2>4 DEF Enqueue
<1>3. CASE Search
  <2>1. UNCHANGED <<row, job, written, queued, faults>> /\ pc = "search" /\ pc' \in {"search", "store"}
    BY <1>3 DEF Search
  <2> QED BY <2>1 DEF StaleInv, InCalendar, StaleSlotsRunOut
<1>4. CASE UpdateNextRun
  <2>1. UNCHANGED <<job, written, queued>> /\ pc = "store" /\ pc' = "idle"
    BY <1>4 DEF UpdateNextRun, Finish
  <2>2. CASE CallFails /\ UNCHANGED row
    <3>1. faults' # 0
      BY <1>0, <2>2 DEF CallFails
    <3> QED BY <2>1, <2>2, <3>1 DEF StaleInv, InCalendar, StaleSlotsRunOut
  <2>3. CASE CallWorks /\ row' = [row EXCEPT !.next = Stored(ref)]
    <3>1. /\ UNCHANGED faults
          /\ row'.next = Stored(ref) /\ row'.expr = row.expr /\ row'.enabled = row.enabled
      BY <1>0, <2>3 DEF CallWorks, Row
    <3>2. ASSUME queued # <<>> PROVE InCalendar(z, Stored(ref))
      <4>1. job.expr \in {z.expr, written.expr}
        BY <2>1, <3>2 DEF StaleInv
      <4> HIDE DEF z
      <4> QED BY <2>1, <4>1, FoundIsStored DEF InCalendar
    <3> QED BY <2>1, <3>1, <3>2 DEF StaleInv, InCalendar, StaleSlotsRunOut
  <2> QED BY <1>4, <2>2, <2>3 DEF UpdateNextRun
<1>5. CASE DisableOnce
  <2>1. UNCHANGED <<job, written, queued>> /\ pc' = "idle"
    BY <1>5 DEF DisableOnce, Finish
  <2>2. CASE CallFails /\ UNCHANGED row
    <3>1. faults' # 0
      BY <1>0, <2>2 DEF CallFails
    <3> QED BY <2>1, <2>2, <3>1 DEF StaleInv, InCalendar, StaleSlotsRunOut
  <2>3. CASE CallWorks /\ row' = [job EXCEPT !.enabled = FALSE, !.next = NoTime]
    <3>1. UNCHANGED faults /\ ~row'.enabled
      BY <1>0, <2>3 DEF CallWorks, Row
    <3> QED BY <2>1, <3>1 DEF StaleInv, StaleSlotsRunOut
  <2> QED BY <1>5, <2>2, <2>3 DEF DisableOnce
<1>6. CASE EditWrites
  <2>1. queued' = <<>> /\ written' = row'
    BY <1>6 DEF EditWrites
  <2> QED BY <2>1 DEF StaleInv, StaleSlotsRunOut
<1>7. CASE EditReads \/ AdvanceClock \/ UNCHANGED vars
  <2>1. UNCHANGED <<row, loopVars, written, queued, faults>>
    BY <1>7 DEF EditReads, AdvanceClock, vars
  <2> QED BY <2>1 DEF StaleInv, InCalendar, StaleSlotsRunOut, loopVars
<1> QED BY <1>1, <1>2, <1>3, <1>4, <1>5, <1>6, <1>7 DEF ScheduleNext, LoopStep, CliStep

\* For any expressions, however long the loop looks for the next slot with a copy
\* of the row that a command replaces meanwhile: one run at most comes of the old
\* schedule or of a job that is paused, and a new calendar has one run at most at
\* a slot that is not its own.
THEOREM StaleSlotsAlwaysRunOut == Spec => []StaleSlotsRunOut
<1>1. Init => StaleInv
  BY DEF Init, StaleInv, StaleSlotsRunOut
<1>2. ScheduleInv /\ StaleInv /\ [ScheduleNext]_vars => StaleInv'
  BY StaleInvNext
<1>3. StaleInv => StaleSlotsRunOut
  BY DEF StaleInv
<1> QED BY <1>1, <1>2, <1>3, ScheduleSafe, PTL DEF Spec

-----------------------------------------------------------------------------
(* No slot comes twice, when durations are whole seconds.                    *)

WholeDurations == \A e \in Exprs : e.kind # "cron" => e.every % Second = 0

\* A slot that may come after the run z.
Follows(z, t, e) ==
    /\ z.slot < t
    /\ z.expr = e /\ e.kind = "interval" => (t - z.slot) % e.every = 0

WholeRef == pc \in {"search", "store"} => ref % Second = 0

\* The slot in the row comes after the last run, wherever the loop stands.  A
\* row written by the CLI has no run yet, but the loop may queue its old copy.
SlotInv ==
    faults = 0 /\ queued # <<>> =>
        LET z == queued[Len(queued)] IN
        /\ pc = "idle" /\ row.next # NoTime => Follows(z, row.next, row.expr)
        /\ pc = "due" => row = job /\ Follows(z, job.next, job.expr)
        /\ pc \in {"search", "store"} =>
              \/ z.slot = job.next /\ z.expr = job.expr
              \/ row.expr = job.expr /\ Follows(z, job.next, job.expr)

QueueInv == WholeRef /\ SlotInv /\ SlotsKeepTheInterval

\* A turn of the search keeps to whole seconds.
LEMMA TurnStaysWhole ==
    ASSUME WholeDurations, ScheduleInv, WholeRef, Search
    PROVE  WholeRef'
<1>1. PICK t \in Next(job.expr, ref) : ref' = t
  BY DEF Search
<1>2. pc = "search" /\ ref \in Nat /\ ref % Second = 0
  BY DEF Search, ScheduleInv, TypeOK, WholeRef
<1>3. job.expr \in Exprs /\ Accepted(job.expr)
  BY RowFields DEF ScheduleInv, TypeOK
<1>4. CASE job.expr.kind = "cron"
  <2>1. t = ZeroTime \/ t \in job.expr.fires
    BY <1>4 DEF Next, CronNext
  <2> QED BY <1>1, <1>3, <1>4, <2>1, ExprFields, ZeroIsWhole DEF WholeRef
<1>5. CASE job.expr.kind # "cron"
  <2> DEFINE n == job.expr.every
  <2>1. n \in Nat /\ n % Second = 0
    BY <1>3, <1>5, ExprFields DEF WholeDurations
  <2>2. t = ref + n
    BY <1>5 DEF Next
  <2>3. (ref + n) % Second = 0
    <3> HIDE DEF n
    <3> QED BY <1>2, <2>1, SumsOfMultiples
  <2> QED BY <1>1, <2>2, <2>3 DEF WholeRef
<1> QED BY <1>4, <1>5

\* The slot the search has found comes after the last run, whether that is the
\* run of the slot it began with or an earlier one.
LEMMA FoundFollows ==
    ASSUME ScheduleInv, pc = "store", NEW z \in Queued,
           \/ z.slot = job.next /\ z.expr = job.expr
           \/ row.expr = job.expr /\ Follows(z, job.next, job.expr)
    PROVE  Follows(z, ref, row.expr)
<1>1. /\ job.next \in Nat /\ job.next <= tick /\ ref > tick /\ tick \in Nat /\ ref \in Nat
      /\ IsSlot(job.expr, job.next, ref)
      /\ job.expr \in Exprs /\ Accepted(job.expr)
  BY RowFields DEF ScheduleInv, TypeOK, Searching, NextIsLeast
<1>2. z.slot \in Int
  BY DEF Queued, Time, NoTime
<1>3. z.slot < ref
  BY <1>1, <1>2 DEF Follows
<1>4. ASSUME z.expr = row.expr, row.expr.kind = "interval"
      PROVE  (ref - z.slot) % row.expr.every = 0
  <2> DEFINE n == job.expr.every
  <2>1. job.expr = row.expr
    BY <1>4
  <2>2. n \in Nat \ {0}
    BY <1>1, <1>4, <2>1, ExprFields
  <2>3. (ref - job.next) % n = 0
    BY <1>1, <1>4, <2>1 DEF IsSlot
  <2>4. CASE z.slot = job.next
    BY <2>1, <2>3, <2>4
  <2>5. CASE Follows(z, job.next, job.expr)
    <3> DEFINE a == ref - job.next
               b == job.next - z.slot
    <3>1. a \in Int /\ b \in Int /\ a % n = 0 /\ b % n = 0
      BY <1>1, <1>2, <1>4, <2>1, <2>3, <2>5 DEF Follows
    <3>2. (a + b) % n = 0
      <4> HIDE DEF a, b, n
      <4> QED BY <2>2, <3>1, SumsOfMultiples
    <3>3. a + b = ref - z.slot
      BY <1>1, <1>2
    <3> QED BY <2>1, <3>2, <3>3
  <2> QED BY <2>4, <2>5
<1> QED BY <1>3, <1>4 DEF Follows

LEMMA QueueInvNext ==
    ASSUME WholeDurations, ScheduleInv, ScheduleInv', QueueInv, [ScheduleNext]_vars
    PROVE  QueueInv'
<1> DEFINE z == queued[Len(queued)]
<1>0. /\ queued \in Seq(Queued) /\ Len(queued) \in Nat
      /\ row \in Row /\ job \in Row /\ faults \in Nat /\ edits \in Nat /\ ref \in Nat
      /\ row' \in Row /\ faults' \in Nat
      /\ queued # <<>> => z \in Queued
  BY DEF ScheduleInv, TypeOK
<1>1. CASE ListDue
  <2>1. UNCHANGED <<row, queued, faults>> /\ pc = "idle" /\ pc' = "due" /\ job' = row /\ row.next # NoTime
    BY <1>1 DEF ListDue
  <2>2. WholeRef'
    BY <2>1 DEF WholeRef
  <2>3. SlotInv'
    BY <2>1 DEF QueueInv, SlotInv
  <2>4. SlotsKeepTheInterval'
    BY <2>1 DEF QueueInv, SlotsKeepTheInterval
  <2> QED BY <2>2, <2>3, <2>4 DEF QueueInv
<1>2. CASE Enqueue
  <2>1. UNCHANGED <<now, row, asked, tick, job>> /\ pc = "due"
    BY <1>2 DEF Enqueue, Advance, Finish
  <2>2. job.next \in Nat /\ job.next % Second = 0 /\ job.expr \in Exprs
    BY <2>1, RowFields DEF ScheduleInv, TypeOK, Searching, NoTime
  <2>3. WholeRef'
    BY <1>2, <2>2 DEF Enqueue, Advance, Finish, WholeRef
  <2>4. CASE CallFails
    <3>1. faults' # 0
      BY <1>0, <2>4 DEF CallFails
    <3> QED BY <2>3, <3>1 DEF QueueInv, SlotInv, SlotsKeepTheInterval
  <2>5. CASE CallWorks /\ UNCHANGED queued /\ Advance
    <3>1. UNCHANGED <<queued, faults>> /\ pc' \in {"search", "disable"}
      BY <2>5 DEF CallWorks, Advance
    <3>2. SlotInv'
      BY <2>1, <3>1 DEF QueueInv, SlotInv
    <3>3. SlotsKeepTheInterval'
      BY <3>1 DEF QueueInv, SlotsKeepTheInterval
    <3> QED BY <2>3, <3>2, <3>3 DEF QueueInv
  <2>6. CASE CallWorks /\ queued' = Append(queued, [slot |-> job.next, expr |-> job.expr]) /\ Advance
    <3> DEFINE q == [slot |-> job.next, expr |-> job.expr]
    <3>1. faults' = faults /\ pc' \in {"search", "disable"} /\ queued' = Append(queued, q)
      BY <2>6 DEF CallWorks, Advance
    <3>2. q \in Queued
      BY <2>2 DEF Queued, Time
    <3>3. /\ Len(queued') = Len(queued) + 1 /\ queued'[Len(queued')] = q
          /\ \A i \in 1..Len(queued) : queued'[i] = queued[i]
      BY <1>0, <3>1, <3>2
    <3>4. SlotInv'
      BY <2>1, <3>1, <3>3 DEF SlotInv
    <3>5. ASSUME faults' = 0, NEW i \in 1..Len(queued') - 1
          PROVE  LET p == queued'[i] r == queued'[i + 1] IN
                 /\ p.slot < r.slot
                 /\ p.expr = r.expr /\ p.expr.kind = "interval"
                       => (r.slot - p.slot) % p.expr.every = 0
      <4>1. CASE i < Len(queued)
        <5>1. i \in 1..Len(queued) - 1 /\ i + 1 \in 1..Len(queued) /\ i \in 1..Len(queued)
          BY <1>0, <4>1
        <5>2. queued'[i] = queued[i] /\ queued'[i + 1] = queued[i + 1]
          BY <3>3, <5>1
        <5> QED BY <3>1, <3>5, <5>1, <5>2 DEF QueueInv, SlotsKeepTheInterval
      <4>2. CASE i = Len(queued)
        <5>1. queued # <<>> /\ queued'[i] = z /\ queued'[i + 1] = q
          BY <1>0, <3>3, <4>2
        <5>2. Follows(z, job.next, job.expr)
          BY <2>1, <3>1, <3>5, <5>1 DEF QueueInv, SlotInv
        <5>3. q.slot = job.next /\ q.expr = job.expr
          OBVIOUS
        <5> QED BY <5>1, <5>2, <5>3 DEF Follows
      <4> QED BY <1>0, <3>3, <4>1, <4>2
    <3>6. SlotsKeepTheInterval'
      BY <3>5 DEF SlotsKeepTheInterval
    <3> QED BY <2>3, <3>4, <3>6 DEF QueueInv
  <2> QED BY <1>2, <2>4, <2>5, <2>6 DEF Enqueue
<1>3. CASE Search
  <2>1. UNCHANGED <<now, row, tick, job, asked, queued, faults>> /\ pc = "search"
    BY <1>3 DEF Search
  <2>2. pc' \in {"search", "store"}
    BY <1>3 DEF Search
  <2>3. WholeRef'
    BY <1>3, TurnStaysWhole DEF QueueInv
  <2>4. SlotInv'
    BY <2>1, <2>2 DEF QueueInv, SlotInv
  <2>5. SlotsKeepTheInterval'
    BY <2>1 DEF QueueInv, SlotsKeepTheInterval
  <2> QED BY <2>3, <2>4, <2>5 DEF QueueInv
<1>4. CASE UpdateNextRun
  <2>1. UNCHANGED <<job, ref, queued>> /\ pc = "store" /\ pc' = "idle"
    BY <1>4 DEF UpdateNextRun, Finish
  <2>2. WholeRef'
    BY <2>1 DEF WholeRef
  <2>3. CASE CallFails
    <3>1. faults' # 0
      BY <1>0, <2>3 DEF CallFails
    <3> QED BY <2>2, <3>1 DEF QueueInv, SlotInv, SlotsKeepTheInterval
  <2>4. CASE CallWorks /\ row' = [row EXCEPT !.next = Stored(ref)]
    <3>1. faults' = faults
      BY <2>4 DEF CallWorks
    <3>2. Stored(ref) = ref
      BY <1>0, <2>1 DEF QueueInv, WholeRef, Stored
    <3>3. row'.next = ref /\ row'.expr = row.expr
      BY <1>0, <2>4, <3>2 DEF Row
    <3>4. ASSUME faults = 0, queued # <<>> PROVE Follows(z, ref, row.expr)
      <4>1. \/ z.slot = job.next /\ z.expr = job.expr
            \/ row.expr = job.expr /\ Follows(z, job.next, job.expr)
        BY <2>1, <3>4 DEF QueueInv, SlotInv
      <4>2. z \in Queued
        BY <1>0, <3>4
      <4> HIDE DEF z
      <4> QED BY <2>1, <4>1, <4>2, FoundFollows
    <3>5. SlotInv'
      BY <2>1, <3>1, <3>3, <3>4 DEF SlotInv
    <3>6. SlotsKeepTheInterval'
      BY <2>1, <3>1 DEF QueueInv, SlotsKeepTheInterval
    <3> QED BY <2>2, <3>5, <3>6 DEF QueueInv
  <2> QED BY <1>4, <2>3, <2>4 DEF UpdateNextRun
<1>5. CASE DisableOnce
  <2>1. UNCHANGED <<job, ref, queued>> /\ pc' = "idle"
    BY <1>5 DEF DisableOnce, Finish
  <2>2. faults' = 0 => faults = 0 /\ row'.next = NoTime
    <3>1. CASE CallWorks /\ row' = [job EXCEPT !.enabled = FALSE, !.next = NoTime]
      <4>1. row'.next = NoTime
        BY <1>0, <3>1 DEF Row
      <4> QED BY <3>1, <4>1 DEF CallWorks
    <3>2. CASE CallFails
      BY <1>0, <3>2 DEF CallFails
    <3> QED BY <1>5, <3>1, <3>2 DEF DisableOnce
  <2> QED BY <2>1, <2>2 DEF QueueInv, WholeRef, SlotInv, SlotsKeepTheInterval
<1>6. CASE EditWrites
  <2>1. queued' = <<>> /\ UNCHANGED loopVars
    BY <1>6 DEF EditWrites
  <2>2. SlotsKeepTheInterval'
    BY <2>1 DEF SlotsKeepTheInterval
  <2> QED BY <2>1, <2>2 DEF QueueInv, WholeRef, SlotInv, loopVars
<1>7. CASE EditReads \/ AdvanceClock \/ UNCHANGED vars
  <2>1. UNCHANGED <<row, loopVars, queued, faults>>
    BY <1>7 DEF EditReads, AdvanceClock, vars
  <2> QED BY <2>1 DEF QueueInv, WholeRef, SlotInv, SlotsKeepTheInterval, loopVars
<1> QED BY <1>1, <1>2, <1>3, <1>4, <1>5, <1>6, <1>7 DEF ScheduleNext, LoopStep, CliStep

\* When all durations are whole seconds, as calendars always are, no slot is
\* queued twice between two edits and interval runs keep their phase,
\* if no call of the loop fails.
THEOREM SlotsNeverComeTwice ==
    ASSUME WholeDurations
    PROVE  Spec => []SlotsKeepTheInterval
<1>1. Init => QueueInv
  BY DEF Init, QueueInv, WholeRef, SlotInv, SlotsKeepTheInterval
<1>2. ScheduleInv /\ ScheduleInv' /\ QueueInv /\ [ScheduleNext]_vars => QueueInv'
  BY QueueInvNext
<1>3. QueueInv => SlotsKeepTheInterval
  BY DEF QueueInv
<1> QED BY <1>1, <1>2, <1>3, ScheduleSafe, PTL DEF Spec

=============================================================================
