------------------------------ MODULE OneDaemon ------------------------------
(***************************************************************************)
(* The daemons of an instance as its database sees them: one loop at a     *)
(* time, which is up, is stopping once its ctx is cancelled, and is down   *)
(* between one daemon and the next.  Scheduler is written for this, and    *)
(* Service is shown to provide it.                                         *)
(***************************************************************************)
VARIABLE daemon

Start  == daemon = "down" /\ daemon' = "up"
Cancel == daemon = "up" /\ daemon' = "stopping"
Return == daemon = "stopping" /\ daemon' = "down"
Kill   == daemon # "down" /\ daemon' = "down"

Init == daemon = "down"
Next == Start \/ Cancel \/ Return \/ Kill
Spec == Init /\ [][Next]_daemon

=============================================================================
