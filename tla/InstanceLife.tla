---------------------------- MODULE InstanceLife ----------------------------
(***************************************************************************)
(* What the daemons of an instance promise together, whoever spawns and    *)
(* stops them: a daemon works on the database only as the owner of the     *)
(* instance, and after it could be found; it is found until it has been    *)
(* told to end; and it gives the instance up only when its loop has ended. *)
(* Seen from the database this is the one daemon of Scheduler: down, up,   *)
(* stopping, or killed.                                                    *)
(*                                                                         *)
(* There is no file, port, request or metadata here.  Service is shown to  *)
(* implement this specification.                                           *)
(***************************************************************************)
CONSTANTS Daemons, NoOne

VARIABLES
    owner,          \* the daemon that owns the instance, or NoOne
    announced,      \* the daemon that is found, dead or alive, or NoOne
    loop            \* of every daemon: "none" yet, "up", "stopping" or "ended"

vars == <<owner, announced, loop>>

Becomes(p, phase) == loop' = [loop EXCEPT ![p] = phase]

Acquire(p) ==
    /\ owner = NoOne /\ loop[p] = "none"
    /\ owner' = p
    /\ UNCHANGED <<announced, loop>>

\* Refused, failed or killed, before it was announced.
GiveUp(p) ==
    /\ loop[p] = "none" /\ announced # p
    /\ Becomes(p, "ended")
    /\ UNCHANGED <<owner, announced>>

\* Over whatever an earlier owner left.
Announce(p) ==
    /\ owner = p /\ loop[p] = "none"
    /\ announced' = p
    /\ UNCHANGED <<owner, loop>>

Begin(p) ==
    /\ owner = p /\ announced = p /\ loop[p] = "none"
    /\ Becomes(p, "up")
    /\ UNCHANGED <<owner, announced>>

Cancel(p) ==
    /\ loop[p] = "up"
    /\ Becomes(p, "stopping")
    /\ UNCHANGED <<owner, announced>>

End(p) ==
    /\ loop[p] = "stopping"
    /\ Becomes(p, "ended")
    /\ UNCHANGED <<owner, announced>>

\* It takes back its own announcement, never another's.
Withdraw(p) ==
    /\ owner = p /\ announced = p /\ loop[p] \in {"stopping", "ended"}
    /\ announced' = NoOne
    /\ UNCHANGED <<owner, loop>>

Release(p) ==
    /\ owner = p /\ loop[p] = "ended"
    /\ owner' = NoOne
    /\ UNCHANGED <<announced, loop>>

\* Killed: what it announced stays.
Die(p) ==
    /\ owner = p
    /\ owner' = NoOne /\ Becomes(p, "ended")
    /\ UNCHANGED announced

Init ==
    /\ owner = NoOne /\ announced = NoOne
    /\ loop = [p \in Daemons |-> "none"]

Next ==
    \E p \in Daemons :
        \/ Acquire(p) \/ GiveUp(p) \/ Announce(p) \/ Begin(p)
        \/ Cancel(p) \/ End(p) \/ Withdraw(p) \/ Release(p) \/ Die(p)

Spec == Init /\ [][Next]_vars

=============================================================================
