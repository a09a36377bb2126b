------------------------------ MODULE Service ------------------------------
(***************************************************************************)
(* The processes around one jobsd instance: the daemons that               *)
(* `scheduler serve' runs (internal/daemon/server.go, control.go,          *)
(* state.go, internal/lock) and the CLI processes that start them, stop    *)
(* them and edit the instance metadata (internal/app/scheduler.go,         *)
(* scheduler_client.go).  They share a lock file, a state file, the        *)
(* metadata rows and the control port.                                     *)
(*                                                                         *)
(* A daemon stands for one process, with its pid, port and token: a        *)
(* request made with the state of a daemon is answered by it or not at     *)
(* all, since another one on the same port has another token.  What the    *)
(* loop does meanwhile is the subject of Scheduler.                        *)
(***************************************************************************)
EXTENDS Naturals

CONSTANTS
    Daemons,        \* the serve processes that may ever be spawned
    Clis,           \* the CLI processes, one command each
    Hooks,          \* on_finish configurations
    NoOne,          \* no daemon; no hook
    CliOps,         \* the commands they may run, of "start", "stop" and "on-finish"
    MaxCrashes,     \* bound: daemons killed
    MaxFaults       \* bound: calls of a daemon that fail

ASSUME NoOneAssumption == NoOne \notin Daemons \cup Hooks
ASSUME ServiceBoundsAssumption == MaxCrashes \in Nat /\ MaxFaults \in Nat

VARIABLES
    lock,           \* who holds the lock file
    stateFile,      \* whose state is in state.json
    meta,           \* the instance_metadata rows
    pc,             \* where each serve process stands
    wrote,          \* stateWritten of Serve
    control,        \* whether its control API answers
    looping,        \* whether its loop goroutine runs
    asked,          \* whether shutdownRequested holds a request
    copy,           \* the metadata a daemon has read and will write
    cli,            \* where each CLI process stands
    crashes, faults

files == <<lock, stateFile, meta>>
serve == <<pc, wrote, control, looping, asked, copy>>
vars  == <<files, serve, cli, crashes, faults>>

NoMeta == [port |-> NoOne, hook |-> NoOne]
Meta   == [port : Daemons \cup {NoOne}, hook : Hooks \cup {NoOne}]

Unwinding == {"unwind", "unwindDb", "unwindLock", "exiting"}
ServePcs ==
    {"none", "spawned", "open", "meta", "upsert", "state", "control", "loop",
     "serving", "closing", "waiting", "remove", "release", "exited"}
    \cup Unwinding

\* Where a command stands; "done" is every end but a `stopped' of stop.
CliState ==
    [at : {"idle", "spawn", "await", "done"}]
    \cup [at : {"startPing", "awaitPing", "stopPing", "ask", "leave", "leavePing",
                "stopped"}, seen : Daemons]
    \cup [at : {"hook"}, row : Meta]

Works == UNCHANGED faults
Fails == faults < MaxFaults /\ faults' = faults + 1

Goto(p, place) == pc' = [pc EXCEPT ![p] = place]

-----------------------------------------------------------------------------
(* Serve, up to its select.                                                *)

\* Mutant: the lock is taken whoever has it.
LockAnyway(p) ==
    /\ pc[p] = "spawned"
    /\ lock' = p /\ Goto(p, "open")
    /\ UNCHANGED <<stateFile, meta, wrote, control, looping, asked, copy, cli,
                   crashes, faults>>

\* flock with LOCK_NB: taken at once or refused.
AcquireLock(p) ==
    /\ pc[p] = "spawned"
    /\ \/ Works /\ lock = NoOne /\ lock' = p /\ Goto(p, "open")
       \/ Works /\ lock # NoOne /\ UNCHANGED lock /\ Goto(p, "exited")
       \/ Fails /\ UNCHANGED lock /\ Goto(p, "exited")
    /\ UNCHANGED <<stateFile, meta, wrote, control, looping, asked, copy, cli,
                   crashes>>

\* Open, Migrate, the token and the listener: nothing others can see.
OpenDatabase(p) ==
    /\ pc[p] = "open"
    /\ \/ Works /\ Goto(p, "meta")
       \/ Fails /\ Goto(p, "unwind")
    /\ UNCHANGED <<files, wrote, control, looping, asked, copy, cli, crashes>>

\* upsertInstanceMetadata reads the metadata and then writes all of it back.
ReadMetadata(p) ==
    /\ pc[p] = "meta"
    /\ \/ Works /\ copy' = [copy EXCEPT ![p] = [meta EXCEPT !.port = p]] /\ Goto(p, "upsert")
       \/ Fails /\ UNCHANGED copy /\ Goto(p, "unwind")
    /\ UNCHANGED <<files, wrote, control, looping, asked, cli, crashes>>

UpsertMetadata(p) ==
    /\ pc[p] = "upsert"
    /\ \/ Works /\ meta' = copy[p] /\ Goto(p, "state")
       \/ Fails /\ UNCHANGED meta /\ Goto(p, "unwind")
    /\ copy' = [copy EXCEPT ![p] = NoMeta]
    /\ UNCHANGED <<lock, stateFile, wrote, control, looping, asked, cli, crashes>>

\* A temporary file renamed over state.json, whatever a dead daemon left there.
WriteState(p) ==
    /\ pc[p] = "state"
    /\ \/ /\ Works /\ stateFile' = p /\ Goto(p, "control")
          /\ wrote' = [wrote EXCEPT ![p] = TRUE]
       \/ Fails /\ UNCHANGED <<stateFile, wrote>> /\ Goto(p, "unwind")
    /\ UNCHANGED <<lock, meta, control, looping, asked, copy, cli, crashes>>

StartControlServer(p) ==
    /\ pc[p] = "control"
    /\ control' = [control EXCEPT ![p] = TRUE]
    /\ Goto(p, "loop")
    /\ UNCHANGED <<files, wrote, looping, asked, copy, cli, crashes, faults>>

\* The loop goroutine, and only then the signal handlers.
StartLoop(p) ==
    /\ pc[p] = "loop"
    /\ looping' = [looping EXCEPT ![p] = TRUE]
    /\ Goto(p, "serving")
    /\ UNCHANGED <<files, wrote, control, asked, copy, cli, crashes, faults>>

-----------------------------------------------------------------------------
(* Serve, from its select on.                                              *)

SeeRequest(p) ==
    /\ pc[p] = "serving" /\ asked[p]
    /\ Goto(p, "closing")
    /\ UNCHANGED <<files, wrote, control, looping, asked, copy, cli, crashes, faults>>

SeeSignal(p) ==
    /\ pc[p] = "serving"
    /\ Goto(p, "closing")
    /\ UNCHANGED <<files, wrote, control, looping, asked, copy, cli, crashes, faults>>

\* The control server stops by itself: Serve returns its error.
ControlFails(p) ==
    /\ pc[p] = "serving" /\ Fails
    /\ control' = [control EXCEPT ![p] = FALSE]
    /\ Goto(p, "unwind")
    /\ UNCHANGED <<files, wrote, looping, asked, copy, cli, crashes>>

\* Shutdown closes the listener and waits at most five seconds for the open
\* connections; only when they are gone is the loop cancelled.
CloseControl(p) ==
    /\ pc[p] = "closing"
    /\ control' = [control EXCEPT ![p] = FALSE]
    /\ \/ Works /\ Goto(p, "waiting")
       \/ Fails /\ Goto(p, "unwind")
    /\ UNCHANGED <<files, wrote, looping, asked, copy, cli, crashes>>

\* Mutant: Serve does not wait for the loop.
LeaveLoop(p) ==
    /\ pc[p] = "waiting" /\ Goto(p, "remove")
    /\ UNCHANGED <<files, wrote, control, looping, asked, copy, cli, crashes, faults>>

\* <-loopErrCh.  While Serve unwinds the loop may end as well: its ctx was
\* cancelled first.
LoopEnds(p) ==
    /\ looping[p] /\ pc[p] \in {"waiting"} \cup Unwinding
    /\ looping' = [looping EXCEPT ![p] = FALSE]
    /\ IF pc[p] = "waiting" THEN Goto(p, "remove") ELSE UNCHANGED pc
    /\ UNCHANGED <<files, wrote, control, asked, copy, cli, crashes, faults>>

\* Mutant: the lock is released before the state file is removed.
ReleaseEarly(p) ==
    /\ pc[p] \in {"remove", "release"}
    /\ IF pc[p] = "remove"
       THEN lock' = NoOne /\ UNCHANGED stateFile /\ Goto(p, "release")
       ELSE stateFile' = NoOne /\ UNCHANGED lock /\ Goto(p, "exited")
    /\ UNCHANGED <<meta, wrote, control, looping, asked, copy, cli, crashes, faults>>

\* Remove deletes the file whoever wrote it.
RemoveState(p) ==
    /\ pc[p] = "remove"
    /\ \/ /\ Works /\ stateFile' = NoOne /\ Goto(p, "release")
          /\ wrote' = [wrote EXCEPT ![p] = FALSE]
       \/ Fails /\ UNCHANGED <<stateFile, wrote>> /\ Goto(p, "unwind")
    /\ UNCHANGED <<lock, meta, control, looping, asked, copy, cli, crashes>>

ReleaseLock(p) ==
    /\ pc[p] = "release"
    /\ lock' = NoOne /\ Goto(p, "exited")
    /\ UNCHANGED <<stateFile, meta, wrote, control, looping, asked, copy, cli, crashes,
                   faults>>

\* Mutant: the lock is released before the database is closed.
UnwindLockFirst(p) ==
    /\ \/ /\ pc[p] = "unwind" /\ Goto(p, "unwindDb")
          /\ lock' = NoOne
          /\ stateFile' = IF wrote[p] THEN NoOne ELSE stateFile
          /\ wrote' = [wrote EXCEPT ![p] = FALSE]
          /\ UNCHANGED looping
       \/ /\ pc[p] = "unwindDb" /\ Goto(p, "exiting")
          /\ UNCHANGED <<lock, stateFile, wrote, looping>>
       \/ /\ pc[p] = "exiting" /\ Goto(p, "exited")
          /\ looping' = [looping EXCEPT ![p] = FALSE]
          /\ UNCHANGED <<lock, stateFile, wrote>>
    /\ UNCHANGED <<meta, control, asked, copy, cli, crashes, faults>>

\* The deferred calls of Serve after an error, last registered first.  That the
\* state file cannot be removed is an error nobody looks at.
Unwind(p) ==
    /\ \/ /\ pc[p] = "unwind" /\ Goto(p, "unwindDb")
          /\ stateFile' \in IF wrote[p] THEN {NoOne, stateFile} ELSE {stateFile}
          /\ wrote' = [wrote EXCEPT ![p] = FALSE]
          /\ UNCHANGED <<lock, looping>>
       \/ /\ pc[p] = "unwindDb" /\ Goto(p, "unwindLock")
          /\ UNCHANGED <<lock, stateFile, wrote, looping>>
       \/ /\ pc[p] = "unwindLock" /\ Goto(p, "exiting")
          /\ lock' = NoOne
          /\ UNCHANGED <<stateFile, wrote, looping>>
       \/ /\ pc[p] = "exiting" /\ Goto(p, "exited")
          /\ looping' = [looping EXCEPT ![p] = FALSE]
          /\ UNCHANGED <<lock, stateFile, wrote>>
    /\ UNCHANGED <<meta, control, asked, copy, cli, crashes, faults>>

\* A kill, or any signal before the handlers are set: the kernel drops the lock,
\* the state file stays.
Crash(p) ==
    /\ pc[p] \notin {"none", "exited"} /\ crashes < MaxCrashes
    /\ crashes' = crashes + 1
    /\ Goto(p, "exited")
    /\ lock' = IF lock = p THEN NoOne ELSE lock
    /\ control' = [control EXCEPT ![p] = FALSE]
    /\ looping' = [looping EXCEPT ![p] = FALSE]
    /\ copy' = [copy EXCEPT ![p] = NoMeta]
    /\ UNCHANGED <<stateFile, meta, wrote, asked, cli, faults>>

-----------------------------------------------------------------------------
(* The CLI.  Between two reads of the state file, two requests, or a read  *)
(* and a request, the daemons go on.                                       *)

CliGoes(c, to) ==
    /\ cli' = [cli EXCEPT ![c] = to]
    /\ UNCHANGED <<pc, wrote, control, looping, copy, crashes, faults>>

At(place) == [at |-> place]
Seeing(place, p) == [at |-> place, seen |-> p]

\* getScheduler and ping: an answer may come too late for the client.
Answers(p) == {FALSE} \cup {control[p]}

\* inspectScheduler of `scheduler start': no state file means stopped.
StartReads(c) ==
    /\ "start" \in CliOps /\ cli[c].at = "idle"
    /\ CliGoes(c, IF stateFile = NoOne THEN At("spawn") ELSE Seeing("startPing", stateFile))
    /\ UNCHANGED <<files, asked>>

\* A state file whose daemon does not answer is stale, and start goes ahead.
StartPings(c) ==
    /\ cli[c].at = "startPing"
    /\ \E ok \in Answers(cli[c].seen) : CliGoes(c, At(IF ok THEN "done" ELSE "spawn"))
    /\ UNCHANGED <<files, asked>>

StartSpawns(c, p) ==
    /\ cli[c].at = "spawn" /\ pc[p] = "none"
    /\ cli' = [cli EXCEPT ![c] = At("await")]
    /\ Goto(p, "spawned")
    /\ UNCHANGED <<files, wrote, control, looping, asked, copy, crashes, faults>>

\* waitForSchedulerStart: any daemon that answers will do.
AwaitReads(c) ==
    /\ cli[c].at = "await" /\ stateFile # NoOne
    /\ CliGoes(c, Seeing("awaitPing", stateFile))
    /\ UNCHANGED <<files, asked>>

AwaitPings(c) ==
    /\ cli[c].at = "awaitPing"
    /\ \E ok \in Answers(cli[c].seen) : CliGoes(c, At(IF ok THEN "done" ELSE "await"))
    /\ UNCHANGED <<files, asked>>

StopReads(c) ==
    /\ "stop" \in CliOps /\ cli[c].at = "idle" /\ stateFile # NoOne
    /\ CliGoes(c, Seeing("stopPing", stateFile))
    /\ UNCHANGED <<files, asked>>

StopPings(c) ==
    /\ cli[c].at = "stopPing"
    /\ \E ok \in Answers(cli[c].seen) :
          CliGoes(c, IF ok THEN Seeing("ask", cli[c].seen) ELSE At("done"))
    /\ UNCHANGED <<files, asked>>

\* Mutant: a request that comes before Serve reaches its select is dropped.
DropEarlyRequest(c) ==
    /\ cli[c].at = "ask" /\ control[cli[c].seen]
    /\ asked' = [asked EXCEPT ![cli[c].seen] = pc[cli[c].seen] = "serving"]
    /\ CliGoes(c, Seeing("leave", cli[c].seen))
    /\ UNCHANGED files

\* POST /v1/scheduler/shutdown.  The answer may be lost on its way.
StopAsks(c) ==
    /\ cli[c].at = "ask"
    /\ \/ /\ control[cli[c].seen]
          /\ asked' = [asked EXCEPT ![cli[c].seen] = TRUE]
          /\ CliGoes(c, Seeing("leave", cli[c].seen)) \/ CliGoes(c, At("done"))
       \/ /\ ~control[cli[c].seen]
          /\ UNCHANGED asked
          /\ CliGoes(c, At("done"))
    /\ UNCHANGED files

\* waitForSchedulerStop: no state file, and then no answer.
LeaveReads(c) ==
    /\ cli[c].at = "leave" /\ stateFile = NoOne
    /\ CliGoes(c, Seeing("leavePing", cli[c].seen))
    /\ UNCHANGED <<files, asked>>

LeavePings(c) ==
    /\ cli[c].at = "leavePing"
    /\ \E ok \in Answers(cli[c].seen) :
          CliGoes(c, Seeing(IF ok THEN "leave" ELSE "stopped", cli[c].seen))
    /\ UNCHANGED <<files, asked>>

\* scheduler on-finish set and clear: read the metadata, write all of it back.
OnFinishReads(c, hook) ==
    /\ "on-finish" \in CliOps /\ cli[c].at = "idle"
    /\ CliGoes(c, [at |-> "hook", row |-> [meta EXCEPT !.hook = hook]])
    /\ UNCHANGED <<files, asked>>

OnFinishWrites(c) ==
    /\ cli[c].at = "hook"
    /\ meta' = cli[c].row
    /\ CliGoes(c, At("done"))
    /\ UNCHANGED <<lock, stateFile, asked>>

\* An interrupt, an error, or the deadline of a poll.
GiveUp(c) ==
    /\ cli[c].at \notin {"idle", "stopped", "done"}
    /\ CliGoes(c, At("done"))
    /\ UNCHANGED <<files, asked>>

-----------------------------------------------------------------------------
Init ==
    /\ lock = NoOne /\ stateFile = NoOne /\ meta = NoMeta
    /\ pc = [p \in Daemons |-> "none"]
    /\ wrote = [p \in Daemons |-> FALSE]
    /\ control = [p \in Daemons |-> FALSE]
    /\ looping = [p \in Daemons |-> FALSE]
    /\ asked = [p \in Daemons |-> FALSE]
    /\ copy = [p \in Daemons |-> NoMeta]
    /\ cli = [c \in Clis |-> At("idle")]
    /\ crashes = 0 /\ faults = 0

ServeStep(p) ==
    \/ AcquireLock(p) \/ OpenDatabase(p) \/ ReadMetadata(p) \/ UpsertMetadata(p)
    \/ WriteState(p) \/ StartControlServer(p) \/ StartLoop(p) \/ SeeRequest(p)
    \/ CloseControl(p) \/ LoopEnds(p) \/ RemoveState(p) \/ ReleaseLock(p)
    \/ Unwind(p)

DisturbServe(p) == SeeSignal(p) \/ ControlFails(p) \/ Crash(p)

CliStep(c) ==
    \/ StartReads(c) \/ StartPings(c) \/ (\E p \in Daemons : StartSpawns(c, p))
    \/ AwaitReads(c) \/ AwaitPings(c)
    \/ StopReads(c) \/ StopPings(c) \/ StopAsks(c) \/ LeaveReads(c) \/ LeavePings(c)
    \/ (\E hook \in Hooks \cup {NoOne} : OnFinishReads(c, hook)) \/ OnFinishWrites(c)
    \/ GiveUp(c)

Next ==
    \/ \E p \in Daemons : ServeStep(p) \/ DisturbServe(p)
    \/ \E c \in Clis : CliStep(c)

Spec == Init /\ [][Next]_vars

\* A daemon is not stopped in its tracks: each of its calls returns, the loop
\* included once it is cancelled (StopCompletes of Scheduler).
FairSpec == Spec /\ \A p \in Daemons : WF_vars(ServeStep(p))

-----------------------------------------------------------------------------
(* Properties.                                                             *)

\* Every variable stays in its type.
TypeOK ==
    /\ lock \in Daemons \cup {NoOne} /\ stateFile \in Daemons \cup {NoOne}
    /\ meta \in Meta
    /\ pc \in [Daemons -> ServePcs]
    /\ wrote \in [Daemons -> BOOLEAN]
    /\ control \in [Daemons -> BOOLEAN]
    /\ looping \in [Daemons -> BOOLEAN]
    /\ asked \in [Daemons -> BOOLEAN]
    /\ copy \in [Daemons -> Meta]
    /\ cli \in [Clis -> CliState]
    /\ crashes \in Nat /\ faults \in Nat

\* The loop of a daemon works on the database until it has returned or the
\* deferred db.Close has run.
UsesDatabase(p) == looping[p] /\ pc[p] \notin {"unwindLock", "exiting"}

\* Never do two loops of an instance work on its database, on any error path:
\* the assumption Scheduler makes about its one daemon (Serve, its defers).
OneLoopOnDatabase ==
    \A p, q \in Daemons : UsesDatabase(p) /\ UsesDatabase(q) => p = q

\* What the loop of a daemon is to the database.
LoopOf(p) ==
    IF pc[p] \in {"none", "spawned", "open", "meta", "upsert", "state", "control", "loop"}
    THEN "none"
    ELSE IF ~UsesDatabase(p) THEN "ended"
    ELSE IF pc[p] \in {"serving", "closing"} THEN "up" ELSE "stopping"

\* A daemon's loop works on the database only between the times the daemon has
\* written its state and has closed the database or seen the loop return, all
\* of it under the lock; nobody takes the state of another away, and the lock
\* is never given up before the database is, on any path of Serve.
Life == INSTANCE InstanceLife
    WITH owner <- lock, announced <- stateFile, loop <- [p \in Daemons |-> LoopOf(p)]

ImplementsInstanceLife == Life!Spec

\* A daemon that serves can be found: no other daemon that fails to start,
\* stops or is unwound meanwhile takes its state file away or replaces it.
ServingIsAnnounced == \A p \in Daemons : pc[p] = "serving" => stateFile = p

\* When `scheduler stop' reports `stopped', the loop of the daemon it asked has
\* returned, so the ends of its runs are in the database; save that Serve gave
\* up on an error.
StoppedMeansEnded ==
    \A c \in Clis : cli[c].at = "stopped" =>
        \/ faults > 0
        \/ ~looping[cli[c].seen]

\* A shutdown request that was accepted is carried out, even one that comes
\* before Serve has reached its select, and two at a time.
RequestIsHonoured ==
    \A p \in Daemons :
        (\E c \in Clis : cli[c] = Seeing("leave", p)) ~> pc[p] = "exited"

=============================================================================
