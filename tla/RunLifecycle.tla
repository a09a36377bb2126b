---------------------------- MODULE RunLifecycle ----------------------------
(***************************************************************************)
(* What the scheduler promises of runs, without saying how: a run is       *)
(* queued for a job, is either called off or taken up, and ends once; its  *)
(* command is begun at most once; and among the runs of one job at most    *)
(* one is live, that is, begun and not told to stop.                       *)
(*                                                                         *)
(* There is no loop, database, policy or process here.  Scheduler is shown *)
(* to implement this specification.                                        *)
(***************************************************************************)
EXTENDS Naturals

CONSTANTS Jobs, MaxRuns

RunIds == 1..MaxRuns

VARIABLES
    status,     \* of every run
    owner,      \* the job a run belongs to, 0 before it is queued
    begun,      \* the runs whose command has been started
    live        \* the runs being executed and not told to stop

vars == <<status, owner, begun, live>>

Init ==
    /\ status = [r \in RunIds |-> "absent"]
    /\ owner = [r \in RunIds |-> 0]
    /\ begun = {} /\ live = {}

SetStatus(S, s) == status' = [r \in RunIds |-> IF r \in S THEN s ELSE status[r]]

Queue(r, j) ==
    /\ status[r] = "absent"
    /\ SetStatus({r}, "pending")
    /\ owner' = [owner EXCEPT ![r] = j]
    /\ UNCHANGED <<begun, live>>

\* Pending runs of a job are called off together.
CallOff(j) ==
    /\ SetStatus({r \in RunIds : owner[r] = j /\ status[r] = "pending"}, "canceled")
    /\ UNCHANGED <<owner, begun, live>>

TakeUp(r) ==
    /\ status[r] = "pending"
    /\ SetStatus({r}, "running")
    /\ UNCHANGED <<owner, begun, live>>

\* The run may have been deleted since it was taken up, never called off.
Begin(r) ==
    /\ r \notin begun
    /\ status[r] \in {"running", "deleted"}
    /\ \A s \in live : owner[s] # owner[r]
    /\ begun' = begun \cup {r}
    /\ live' = live \cup {r}
    /\ UNCHANGED <<status, owner>>

\* A live run is told to stop, or has been dealt with completely.
Retire(r) ==
    /\ r \in live
    /\ live' = live \ {r}
    /\ UNCHANGED <<status, owner, begun>>

Conclude(r, s) ==
    /\ r \in begun /\ status[r] = "running"
    /\ s \in {"finished", "canceled"}
    /\ SetStatus({r}, s)
    /\ UNCHANGED <<owner, begun, live>>

Delete(j) ==
    /\ SetStatus({r \in RunIds : owner[r] = j}, "deleted")
    /\ UNCHANGED <<owner, begun, live>>

\* The daemon is killed and everything it watched over is left to itself.
Abandon == live' = {} /\ UNCHANGED <<status, owner, begun>>

Next ==
    \/ \E r \in RunIds :
          \/ \E j \in Jobs : Queue(r, j)
          \/ TakeUp(r)
          \/ Begin(r)
          \/ Retire(r)
          \/ \E s \in {"finished", "canceled"} : Conclude(r, s)
    \/ \E j \in Jobs : CallOff(j) \/ Delete(j)
    \/ Abandon

Spec == Init /\ [][Next]_vars

=============================================================================
