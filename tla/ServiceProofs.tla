--------------------------- MODULE ServiceProofs ---------------------------
(* Proofs about Service: what the lock file guarantees on every path of Serve, *)
(* for any numbers of daemons, CLI processes, crashes and failing calls.       *)
EXTENDS Service, TLAPS

ServeType ==
    /\ pc \in [Daemons -> ServePcs]
    /\ looping \in [Daemons -> BOOLEAN]
    /\ wrote \in [Daemons -> BOOLEAN]

\* The places of Serve between Acquire and Release.
Holding ==
    {"open", "meta", "upsert", "state", "control", "loop", "serving", "closing",
     "waiting", "remove", "release", "unwind", "unwindDb", "unwindLock"}

HoldersHaveLock == \A p \in Daemons : pc[p] \in Holding => lock = p

\* Between WriteState and RemoveState.
Announced == {"control", "loop", "serving", "closing", "waiting", "remove"}

AnnouncedInFile == \A p \in Daemons : pc[p] \in Announced => stateFile = p

\* What a deferred call removes is the daemon's own.
UnwindTakesOwn == \A p \in Daemons : pc[p] = "unwind" /\ wrote[p] => stateFile = p

\* Before WriteState has returned.
Fresh == {"none", "spawned", "open", "meta", "upsert", "state"}

FreshIsUnknown == \A p \in Daemons : pc[p] \in Fresh => stateFile # p /\ ~wrote[p]

LoopsHaveServe ==
    \A p \in Daemons :
        looping[p] => pc[p] \in {"serving", "closing", "waiting"} \cup Unwinding

ServiceInv ==
    /\ ServeType /\ HoldersHaveLock /\ AnnouncedInFile
    /\ UnwindTakesOwn /\ FreshIsUnknown /\ LoopsHaveServe

USE DEF files, serve, vars

-----------------------------------------------------------------------------
\* What a CLI step may do to a daemon: spawn it.
LEMMA CliOnlySpawns ==
    ASSUME NEW c \in Clis, CliStep(c)
    PROVE  /\ UNCHANGED <<lock, stateFile, looping, wrote>>
           /\ \/ UNCHANGED pc
              \/ \E p \in Daemons : pc[p] = "none" /\ pc' = [pc EXCEPT ![p] = "spawned"]
<1>1. CASE \E p \in Daemons : StartSpawns(c, p)
  BY <1>1 DEF StartSpawns, Goto
<1>2. CASE StartReads(c) \/ StartPings(c) \/ AwaitReads(c) \/ AwaitPings(c)
  BY <1>2 DEF StartReads, StartPings, AwaitReads, AwaitPings, CliGoes
<1>3. CASE StopReads(c) \/ StopPings(c) \/ LeaveReads(c) \/ LeavePings(c)
  BY <1>3 DEF StopReads, StopPings, LeaveReads, LeavePings, CliGoes
<1>4. CASE StopAsks(c) \/ OnFinishWrites(c) \/ GiveUp(c)
  BY <1>4 DEF StopAsks, OnFinishWrites, GiveUp, CliGoes
<1>5. CASE \E hook \in Hooks \cup {NoOne} : OnFinishReads(c, hook)
  BY <1>5 DEF OnFinishReads, CliGoes
<1> QED BY <1>1, <1>2, <1>3, <1>4, <1>5 DEF CliStep

-----------------------------------------------------------------------------
(* Every step of a daemon p moves p alone; the lock and the state file only *)
(* change hands when p has the lock or nobody has it.                       *)
MovesAlone(p) ==
    /\ \E place \in ServePcs \ {"none"} : pc' = [pc EXCEPT ![p] = place]
    /\ \E b \in BOOLEAN : wrote' = [wrote EXCEPT ![p] = b]
    /\ \E b \in BOOLEAN : looping' = [looping EXCEPT ![p] = b]

Moves(p) ==
    /\ MovesAlone(p)
    /\ lock' = lock \/ (lock = NoOne /\ lock' = p) \/ (lock = p /\ lock' = NoOne)
    /\ stateFile' = stateFile \/ (lock = p /\ stateFile' \in {p, NoOne})
    /\ pc'[p] \in Holding => lock' = p
    /\ pc'[p] \in Announced => stateFile' = p
    /\ pc'[p] = "unwind" /\ wrote'[p] => stateFile' = p
    /\ pc'[p] \in Fresh => stateFile' # p /\ ~wrote'[p]
    /\ looping'[p] => pc'[p] \in {"serving", "closing", "waiting"} \cup Unwinding

LEMMA StepsMoveAlone ==
    ASSUME ServeType, NEW p \in Daemons, ServeStep(p) \/ DisturbServe(p)
    PROVE  MovesAlone(p)
<1> USE DEF ServeType, Goto, ServePcs, Unwinding
<1>1. \E place \in ServePcs \ {"none"} : pc' = [pc EXCEPT ![p] = place]
  <2>1. CASE LoopEnds(p)
    BY <2>1 DEF LoopEnds
  <2>2. CASE Unwind(p)
    BY <2>2 DEF Unwind
  <2> QED
    BY <2>1, <2>2
    DEF ServeStep, DisturbServe, AcquireLock, OpenDatabase, ReadMetadata, UpsertMetadata, WriteState,
        StartControlServer, StartLoop, SeeRequest, SeeSignal, ControlFails, CloseControl,
        RemoveState, ReleaseLock, Crash
<1>2. \E b \in BOOLEAN : wrote' = [wrote EXCEPT ![p] = b]
  <2>1. UNCHANGED wrote \/ wrote' = [wrote EXCEPT ![p] = TRUE] \/ wrote' = [wrote EXCEPT ![p] = FALSE]
    BY DEF ServeStep, DisturbServe, AcquireLock, OpenDatabase, ReadMetadata, UpsertMetadata, WriteState,
           StartControlServer, StartLoop, SeeRequest, SeeSignal, ControlFails, CloseControl, LoopEnds,
           RemoveState, ReleaseLock, Unwind, Crash
  <2>2. wrote = [wrote EXCEPT ![p] = wrote[p]] /\ wrote[p] \in BOOLEAN
    OBVIOUS
  <2> QED BY <2>1, <2>2
<1>3. \E b \in BOOLEAN : looping' = [looping EXCEPT ![p] = b]
  <2>1. \/ UNCHANGED looping
        \/ looping' = [looping EXCEPT ![p] = TRUE]
        \/ looping' = [looping EXCEPT ![p] = FALSE]
    BY DEF ServeStep, DisturbServe, AcquireLock, OpenDatabase, ReadMetadata, UpsertMetadata, WriteState,
           StartControlServer, StartLoop, SeeRequest, SeeSignal, ControlFails, CloseControl, LoopEnds,
           RemoveState, ReleaseLock, Unwind, Crash
  <2>2. looping = [looping EXCEPT ![p] = looping[p]] /\ looping[p] \in BOOLEAN
    OBVIOUS
  <2> QED BY <2>1, <2>2
<1> QED BY <1>1, <1>2, <1>3 DEF MovesAlone

LEMMA StartingMoves ==
    ASSUME ServiceInv, NEW p \in Daemons,
           \/ AcquireLock(p) \/ OpenDatabase(p) \/ ReadMetadata(p)
           \/ UpsertMetadata(p) \/ WriteState(p) \/ StartControlServer(p)
           \/ StartLoop(p)
    PROVE  Moves(p)
<1> USE NoOneAssumption
    DEF ServiceInv, ServeType, HoldersHaveLock, AnnouncedInFile, UnwindTakesOwn, FreshIsUnknown,
        LoopsHaveServe, Moves, Goto, ServePcs, Unwinding, Holding, Announced, Fresh
<1>0. MovesAlone(p)
  BY StepsMoveAlone DEF ServeStep, DisturbServe
<1>1. CASE AcquireLock(p)
  BY <1>0, <1>1 DEF AcquireLock
<1>2. CASE OpenDatabase(p)
  BY <1>0, <1>2 DEF OpenDatabase
<1>3. CASE ReadMetadata(p)
  BY <1>0, <1>3 DEF ReadMetadata
<1>4. CASE UpsertMetadata(p)
  BY <1>0, <1>4 DEF UpsertMetadata
<1>5. CASE WriteState(p)
  BY <1>0, <1>5 DEF WriteState
<1>6. CASE StartControlServer(p)
  BY <1>0, <1>6 DEF StartControlServer
<1>7. CASE StartLoop(p)
  BY <1>0, <1>7 DEF StartLoop
<1> QED BY <1>1, <1>2, <1>3, <1>4, <1>5, <1>6, <1>7

LEMMA StoppingMoves ==
    ASSUME ServiceInv, NEW p \in Daemons,
           \/ SeeRequest(p) \/ SeeSignal(p) \/ ControlFails(p) \/ CloseControl(p)
           \/ LoopEnds(p) \/ RemoveState(p) \/ ReleaseLock(p) \/ Unwind(p)
           \/ Crash(p)
    PROVE  Moves(p)
<1> USE NoOneAssumption
    DEF ServiceInv, ServeType, HoldersHaveLock, AnnouncedInFile, UnwindTakesOwn, FreshIsUnknown,
        LoopsHaveServe, Moves, Goto, ServePcs, Unwinding, Holding, Announced, Fresh
<1>0. MovesAlone(p)
  BY StepsMoveAlone DEF ServeStep, DisturbServe
<1>1. CASE SeeRequest(p) \/ SeeSignal(p)
  BY <1>0, <1>1 DEF SeeRequest, SeeSignal
<1>2. CASE ControlFails(p)
  BY <1>0, <1>2 DEF ControlFails
<1>3. CASE CloseControl(p)
  BY <1>0, <1>3 DEF CloseControl
<1>4. CASE LoopEnds(p)
  BY <1>0, <1>4 DEF LoopEnds
<1>5. CASE RemoveState(p)
  BY <1>0, <1>5 DEF RemoveState
<1>6. CASE ReleaseLock(p)
  BY <1>0, <1>6 DEF ReleaseLock
<1>7. CASE Unwind(p)
  <2>1. CASE pc[p] = "unwind"
    BY <1>0, <1>7, <2>1 DEF Unwind
  <2>2. CASE pc[p] = "unwindDb"
    BY <1>0, <1>7, <2>2 DEF Unwind
  <2>3. CASE pc[p] = "unwindLock"
    BY <1>0, <1>7, <2>3 DEF Unwind
  <2>4. CASE pc[p] = "exiting"
    BY <1>0, <1>7, <2>4 DEF Unwind
  <2> QED BY <1>7, <2>1, <2>2, <2>3, <2>4 DEF Unwind
<1>8. CASE Crash(p)
  BY <1>0, <1>8 DEF Crash
<1> QED BY <1>1, <1>2, <1>3, <1>4, <1>5, <1>6, <1>7, <1>8

-----------------------------------------------------------------------------
LEMMA ServiceInvInit == Init => ServiceInv
BY NoOneAssumption
   DEF Init, ServiceInv, ServeType, HoldersHaveLock, AnnouncedInFile, UnwindTakesOwn,
       FreshIsUnknown, LoopsHaveServe, ServePcs, Holding, Announced, Fresh

\* A step of one daemon keeps what holds of the others: none of them has the
\* lock while it takes, keeps or gives it back.
LEMMA MovesKeepInv ==
    ASSUME ServiceInv, NEW p \in Daemons, Moves(p)
    PROVE  ServiceInv'
<1> USE DEF ServiceInv
<1>1. ServeType'
  BY DEF ServeType, Moves, MovesAlone
<1>2. \A q \in Daemons : q # p => /\ pc'[q] = pc[q] /\ looping'[q] = looping[q]
                                  /\ wrote'[q] = wrote[q]
  BY DEF ServeType, Moves, MovesAlone
<1>3. \A q \in Daemons : q # p /\ pc[q] \in Holding => lock' = q /\ stateFile' = stateFile
  BY NoOneAssumption DEF HoldersHaveLock, Moves
<1>4. HoldersHaveLock'
  BY <1>2, <1>3 DEF HoldersHaveLock, Moves
<1>5. AnnouncedInFile'
  BY <1>2, <1>3 DEF AnnouncedInFile, Moves, Announced, Holding
<1>6. LoopsHaveServe'
  BY <1>2 DEF LoopsHaveServe, Moves
<1>7. UnwindTakesOwn'
  BY <1>2, <1>3 DEF UnwindTakesOwn, Moves, Holding
<1>8. FreshIsUnknown'
  BY <1>2, NoOneAssumption DEF FreshIsUnknown, Moves
<1> QED BY <1>1, <1>4, <1>5, <1>6, <1>7, <1>8

LEMMA ServiceInvNext == ServiceInv /\ [Next]_vars => ServiceInv'
<1> SUFFICES ASSUME ServiceInv, [Next]_vars PROVE ServiceInv'
  OBVIOUS
<1>1. CASE UNCHANGED vars
  BY <1>1 DEF ServiceInv, ServeType, HoldersHaveLock, AnnouncedInFile, UnwindTakesOwn,
              FreshIsUnknown, LoopsHaveServe
<1>2. ASSUME NEW p \in Daemons, ServeStep(p) \/ DisturbServe(p) PROVE ServiceInv'
  <2>1. Moves(p)
    BY <1>2, StartingMoves, StoppingMoves DEF ServeStep, DisturbServe
  <2> QED BY <2>1, MovesKeepInv
<1>3. ASSUME NEW c \in Clis, CliStep(c) PROVE ServiceInv'
  BY <1>3, CliOnlySpawns
     DEF ServiceInv, ServeType, HoldersHaveLock, AnnouncedInFile, UnwindTakesOwn, FreshIsUnknown,
         LoopsHaveServe, ServePcs, Holding, Announced, Fresh, Unwinding
<1> QED BY <1>1, <1>2, <1>3 DEF Next

THEOREM ServiceInvHolds == Spec => []ServiceInv
BY ServiceInvInit, ServiceInvNext, PTL DEF Spec

(* The loops of two daemons never work on the database of the instance at the *)
(* same time, whatever fails: Serve's defers close it before the lock goes.   *)
THEOREM DatabaseIsExclusive == Spec => []OneLoopOnDatabase
<1>1. ServiceInv => OneLoopOnDatabase
  BY DEF ServiceInv, HoldersHaveLock, LoopsHaveServe, OneLoopOnDatabase, UsesDatabase,
         Holding, Unwinding
<1> QED BY <1>1, ServiceInvHolds, PTL

(* The state file names the daemon that serves, however many others are being  *)
(* started, refused, stopped or unwound beside it.                             *)
THEOREM ServingDaemonIsAnnounced == Spec => []ServingIsAnnounced
<1>1. ServiceInv => ServingIsAnnounced
  BY DEF ServiceInv, AnnouncedInFile, ServingIsAnnounced, Announced
<1> QED BY <1>1, ServiceInvHolds, PTL

-----------------------------------------------------------------------------
(* The refinement of InstanceLife.                                         *)

Loops == [p \in Daemons |-> LoopOf(p)]

\* What the daemon p does to the abstract state; everything else is a stutter.
LifeStep(p) ==
    \/ Life!Acquire(p) \/ Life!GiveUp(p) \/ Life!Announce(p) \/ Life!Begin(p)
    \/ Life!Cancel(p) \/ Life!End(p) \/ Life!Withdraw(p) \/ Life!Release(p) \/ Life!Die(p)
    \/ UNCHANGED <<lock, stateFile, Loops>>

\* Only the loop of the daemon that moves may change.
LEMMA OthersLoopOn ==
    ASSUME ServiceInv, NEW p \in Daemons, MovesAlone(p)
    PROVE  /\ Loops' = [Loops EXCEPT ![p] = LoopOf(p)']
           /\ LoopOf(p)' = LoopOf(p) => Loops' = Loops
           /\ Loops[p] = LoopOf(p)
<1>1. ASSUME NEW q \in Daemons, q # p PROVE LoopOf(q)' = LoopOf(q)
  <2>1. pc'[q] = pc[q] /\ looping'[q] = looping[q]
    BY <1>1 DEF ServiceInv, ServeType, MovesAlone
  <2> QED BY <2>1 DEF LoopOf, UsesDatabase
<1> QED BY <1>1 DEF Loops

LEMMA StartingIsLife ==
    ASSUME ServiceInv, NEW p \in Daemons,
           \/ AcquireLock(p) \/ OpenDatabase(p) \/ ReadMetadata(p)
           \/ UpsertMetadata(p) \/ WriteState(p) \/ StartControlServer(p)
           \/ StartLoop(p)
    PROVE  LifeStep(p)
<1> USE DEF ServiceInv, ServeType, LifeStep, Goto
<1>0. /\ Loops' = [Loops EXCEPT ![p] = LoopOf(p)']
      /\ LoopOf(p)' = LoopOf(p) => Loops' = Loops
      /\ Loops[p] = LoopOf(p)
  BY StepsMoveAlone, OthersLoopOn DEF ServeStep
<1>1. LoopOf(p) = "none"
  BY DEF LoopOf, AcquireLock, OpenDatabase, ReadMetadata, UpsertMetadata, WriteState,
         StartControlServer, StartLoop
<1>2. ~looping[p]
  BY DEF LoopsHaveServe, Unwinding, AcquireLock, OpenDatabase, ReadMetadata, UpsertMetadata, WriteState,
         StartControlServer, StartLoop
<1>3. CASE pc[p] \in Fresh /\ UNCHANGED <<lock, stateFile, looping>> /\ pc'[p] \in {"unwind", "exited"}
  <2>1. LoopOf(p)' = "ended"
    BY <1>2, <1>3 DEF LoopOf, UsesDatabase
  <2>2. stateFile # p
    BY <1>3 DEF FreshIsUnknown
  <2> QED BY <1>0, <1>1, <1>3, <2>1, <2>2 DEF Life!GiveUp, Life!Becomes, Loops
<1>4. CASE pc'[p] \in {"open", "meta", "upsert", "state", "control", "loop"}
  <2>1. LoopOf(p)' = LoopOf(p)
    BY <1>1, <1>4 DEF LoopOf
  <2>2. CASE AcquireLock(p)
    BY <1>0, <1>1, <1>4, <2>1, <2>2 DEF AcquireLock, Life!Acquire, Loops
  <2>3. CASE WriteState(p)
    BY <1>0, <1>1, <1>4, <2>1, <2>3 DEF WriteState, Life!Announce, Loops, HoldersHaveLock, Holding
  <2> QED
    BY <1>0, <1>4, <2>1, <2>2, <2>3
    DEF OpenDatabase, ReadMetadata, UpsertMetadata, StartControlServer, StartLoop, files
<1>5. CASE StartLoop(p)
  <2>1. LoopOf(p)' = "up"
    BY <1>5 DEF StartLoop, LoopOf, UsesDatabase
  <2>2. lock = p /\ stateFile = p
    BY <1>5 DEF StartLoop, HoldersHaveLock, Holding, AnnouncedInFile, Announced
  <2> QED BY <1>0, <1>1, <1>5, <2>1, <2>2 DEF StartLoop, Life!Begin, Life!Becomes, Loops, files
<1> QED
  BY <1>3, <1>4, <1>5
  DEF AcquireLock, OpenDatabase, ReadMetadata, UpsertMetadata, WriteState, StartControlServer, Fresh, files

LEMMA StoppingIsLife ==
    ASSUME ServiceInv, NEW p \in Daemons,
           \/ SeeRequest(p) \/ SeeSignal(p) \/ ControlFails(p) \/ CloseControl(p)
           \/ LoopEnds(p) \/ RemoveState(p) \/ ReleaseLock(p)
    PROVE  LifeStep(p)
<1> USE DEF ServiceInv, ServeType, LifeStep, Goto
<1>0. /\ Loops' = [Loops EXCEPT ![p] = LoopOf(p)']
      /\ LoopOf(p)' = LoopOf(p) => Loops' = Loops
      /\ Loops[p] = LoopOf(p)
  BY StepsMoveAlone, OthersLoopOn DEF ServeStep, DisturbServe
<1>1. CASE SeeRequest(p) \/ SeeSignal(p)
  <2>1. LoopOf(p)' = LoopOf(p)
    BY <1>1 DEF SeeRequest, SeeSignal, LoopOf, UsesDatabase
  <2> QED BY <1>0, <1>1, <2>1 DEF SeeRequest, SeeSignal
<1>2. CASE ControlFails(p) \/ CloseControl(p)
  <2>1. IF looping[p] THEN LoopOf(p) = "up" /\ LoopOf(p)' = "stopping"
                      ELSE LoopOf(p)' = LoopOf(p)
    BY <1>2 DEF ControlFails, CloseControl, LoopOf, UsesDatabase
  <2> QED BY <1>0, <1>2, <2>1 DEF ControlFails, CloseControl, Life!Cancel, Life!Becomes, Loops
<1>3. CASE LoopEnds(p)
  <2>1. \/ LoopOf(p) = "stopping" /\ LoopOf(p)' = "ended"
        \/ LoopOf(p)' = LoopOf(p)
    BY <1>3 DEF LoopEnds, LoopOf, UsesDatabase, Unwinding
  <2> QED BY <1>0, <1>3, <2>1 DEF LoopEnds, Life!End, Life!Becomes, Loops
<1>4. CASE RemoveState(p)
  <2>1. LoopOf(p) = "ended" /\ LoopOf(p)' = "ended"
    BY <1>4 DEF RemoveState, LoopsHaveServe, Unwinding, LoopOf, UsesDatabase
  <2>2. lock = p /\ stateFile = p
    BY <1>4 DEF RemoveState, HoldersHaveLock, Holding, AnnouncedInFile, Announced
  <2> QED BY <1>0, <1>4, <2>1, <2>2 DEF RemoveState, Life!Withdraw, Loops
<1>5. CASE ReleaseLock(p)
  <2>1. LoopOf(p) = "ended" /\ LoopOf(p)' = "ended"
    BY <1>5 DEF ReleaseLock, LoopsHaveServe, Unwinding, LoopOf, UsesDatabase
  <2>2. lock = p
    BY <1>5 DEF ReleaseLock, HoldersHaveLock, Holding
  <2> QED BY <1>0, <1>5, <2>1, <2>2 DEF ReleaseLock, Life!Release, Loops
<1> QED BY <1>1, <1>2, <1>3, <1>4, <1>5

LEMMA UnwindIsLife ==
    ASSUME ServiceInv, NEW p \in Daemons, Unwind(p)
    PROVE  LifeStep(p)
<1> USE DEF ServiceInv, ServeType, LifeStep, Goto
<1>0. /\ Loops' = [Loops EXCEPT ![p] = LoopOf(p)']
      /\ LoopOf(p)' = LoopOf(p) => Loops' = Loops
      /\ Loops[p] = LoopOf(p)
  BY StepsMoveAlone, OthersLoopOn DEF ServeStep
<1>1. CASE pc[p] = "unwind"
  <2>1. LoopOf(p) \in {"stopping", "ended"} /\ LoopOf(p)' = LoopOf(p)
    BY <1>1 DEF Unwind, LoopOf, UsesDatabase
  <2>2. lock' = lock /\ stateFile' \in (IF wrote[p] THEN {NoOne, stateFile} ELSE {stateFile})
    BY <1>1 DEF Unwind
  <2>3. lock = p /\ (wrote[p] => stateFile = p)
    BY <1>1 DEF HoldersHaveLock, Holding, UnwindTakesOwn
  <2> QED BY <1>0, <2>1, <2>2, <2>3 DEF Life!Withdraw, Loops
<1>2. CASE pc[p] = "unwindDb"
  <2>1. LoopOf(p) \in {"stopping", "ended"} /\ LoopOf(p)' = "ended"
    BY <1>2 DEF Unwind, LoopOf, UsesDatabase
  <2> QED BY <1>0, <1>2, <2>1 DEF Unwind, Life!End, Life!Becomes, Loops
<1>3. CASE pc[p] = "unwindLock"
  <2>1. LoopOf(p) = "ended" /\ LoopOf(p)' = "ended"
    BY <1>3 DEF Unwind, LoopOf, UsesDatabase
  <2>2. lock = p
    BY <1>3 DEF HoldersHaveLock, Holding
  <2> QED BY <1>0, <1>3, <2>1, <2>2 DEF Unwind, Life!Release, Loops
<1>4. CASE pc[p] = "exiting"
  <2>1. LoopOf(p)' = LoopOf(p)
    BY <1>4 DEF Unwind, LoopOf, UsesDatabase
  <2> QED BY <1>0, <1>4, <2>1 DEF Unwind
<1> QED BY <1>1, <1>2, <1>3, <1>4 DEF Unwind

\* The lock of a process that is killed is nobody's; if it had none, it had not
\* begun or had given the instance up.
LEMMA CrashIsLife ==
    ASSUME ServiceInv, NEW p \in Daemons, Crash(p)
    PROVE  LifeStep(p)
<1> USE DEF ServiceInv, ServeType, LifeStep, Goto
<1>0. /\ Loops' = [Loops EXCEPT ![p] = LoopOf(p)']
      /\ LoopOf(p)' = LoopOf(p) => Loops' = Loops
      /\ Loops[p] = LoopOf(p)
  BY StepsMoveAlone, OthersLoopOn DEF DisturbServe
<1>1. LoopOf(p)' = "ended" /\ UNCHANGED stateFile
  BY DEF Crash, LoopOf, UsesDatabase
<1>2. CASE lock = p
  BY <1>0, <1>1, <1>2 DEF Crash, Life!Die, Life!Becomes, Loops
<1>3. CASE lock # p
  <2>1. pc[p] \in {"spawned", "exiting"}
    BY <1>3 DEF Crash, HoldersHaveLock, Holding, ServePcs, Unwinding
  <2>2. lock' = lock
    BY <1>3 DEF Crash
  <2>3. CASE pc[p] = "spawned"
    <3>1. LoopOf(p) = "none" /\ stateFile # p
      BY <2>3 DEF LoopOf, FreshIsUnknown, Fresh
    <3> QED BY <1>0, <1>1, <2>2, <3>1 DEF Life!GiveUp, Life!Becomes, Loops
  <2>4. CASE pc[p] = "exiting"
    <3>1. LoopOf(p) = "ended"
      BY <2>4 DEF LoopOf, UsesDatabase
    <3> QED BY <1>0, <1>1, <2>2, <3>1
  <2> QED BY <2>1, <2>3, <2>4
<1> QED BY <1>2, <1>3

\* A CLI process only spawns, which is no step of a daemon yet.
LEMMA CliIsStutter ==
    ASSUME ServiceInv, NEW c \in Clis, CliStep(c)
    PROVE  UNCHANGED <<lock, stateFile, Loops>>
<1>1. ASSUME NEW q \in Daemons PROVE LoopOf(q)' = LoopOf(q)
  <2>1. looping' = looping /\ (pc'[q] = pc[q] \/ (pc[q] = "none" /\ pc'[q] = "spawned"))
    BY CliOnlySpawns DEF ServiceInv, ServeType
  <2> QED BY <2>1 DEF LoopOf, UsesDatabase
<1> QED BY <1>1, CliOnlySpawns DEF Loops

LEMMA LifeInit == Init => Life!Init
<1> SUFFICES ASSUME Init PROVE Life!Init
  OBVIOUS
<1>1. \A p \in Daemons : LoopOf(p) = "none"
  BY DEF Init, LoopOf
<1> QED BY <1>1 DEF Init, Life!Init

LEMMA LifeNext == ServiceInv /\ [Next]_vars => [Life!Next]_(Life!vars)
<1> SUFFICES ASSUME ServiceInv, [Next]_vars PROVE [Life!Next]_(Life!vars)
  OBVIOUS
<1>1. ASSUME NEW p \in Daemons, LifeStep(p) PROVE [Life!Next]_(Life!vars)
  BY <1>1 DEF LifeStep, Life!Next, Life!vars, Loops
<1>2. ASSUME NEW p \in Daemons, ServeStep(p) \/ DisturbServe(p) PROVE LifeStep(p)
  BY <1>2, StartingIsLife, StoppingIsLife, UnwindIsLife, CrashIsLife DEF ServeStep, DisturbServe
<1>3. CASE UNCHANGED vars
  <2>1. UNCHANGED <<lock, stateFile, Loops>>
    BY <1>3 DEF Loops, LoopOf, UsesDatabase
  <2> QED BY <2>1 DEF Life!vars, Loops
<1>4. ASSUME NEW c \in Clis, CliStep(c) PROVE [Life!Next]_(Life!vars)
  BY <1>4, CliIsStutter DEF Life!vars, Loops
<1> QED BY <1>1, <1>2, <1>3, <1>4 DEF Next

(* The processes around an instance, whoever spawns, stops or kills them and   *)
(* whatever fails, are the one daemon after the other of InstanceLife: the     *)
(* order of Serve's steps and of its deferred calls is right on every path.    *)
THEOREM ServeIsInstanceLife == Spec => ImplementsInstanceLife
<1> QED BY LifeInit, LifeNext, ServiceInvHolds, PTL DEF Spec, ImplementsInstanceLife, Life!Spec

-----------------------------------------------------------------------------
(* The daemons of InstanceLife, taken together, are one daemon.            *)

\* At most one loop is up or stopping.
Alone(loops) ==
    \A p, q \in Daemons : loops[p] \in {"up", "stopping"} /\ loops[q] \in {"up", "stopping"} => p = q

\* What the database sees of them.
SeenOf(loops) ==
    IF \E p \in Daemons : loops[p] = "up" THEN "up"
    ELSE IF \E p \in Daemons : loops[p] = "stopping" THEN "stopping" ELSE "down"

Seen == SeenOf(Loops)

Together == INSTANCE OneDaemon WITH daemon <- Seen

LEMMA OneIsSeen ==
    ASSUME NEW loops \in [Daemons -> {"none", "up", "stopping", "ended"}], Alone(loops),
           NEW p \in Daemons, NEW now \in {"none", "up", "stopping", "ended"},
           NEW after, after = [loops EXCEPT ![p] = now], Alone(after)
    PROVE  /\ loops[p] \in {"up", "stopping"} => SeenOf(loops) = loops[p]
           /\ now \in {"up", "stopping"} => SeenOf(after) = now
           /\ loops[p] \in {"up", "stopping"} /\ now \in {"none", "ended"} => SeenOf(after) = "down"
           /\ loops[p] \in {"none", "ended"} /\ now \in {"up", "stopping"} => SeenOf(loops) = "down"
           /\ loops[p] \in {"none", "ended"} /\ now \in {"none", "ended"} => SeenOf(after) = SeenOf(loops)
  BY DEF Alone, SeenOf

LEMMA LoopsAreAlone == ServiceInv => Alone(Loops)
  BY DEF ServiceInv, HoldersHaveLock, LoopsHaveServe, Alone, Loops, LoopOf, UsesDatabase, Holding,
         Unwinding

LEMMA LoopsAreAloneNext == ServiceInv' => Alone(Loops)'
<1> QED BY LoopsAreAlone, PTL

LEMMA LifeIsOneDaemon ==
    ASSUME Alone(Loops), Alone(Loops)', [Life!Next]_(Life!vars)
    PROVE  [Together!Next]_Seen
<1> DEFINE Phases == {"none", "up", "stopping", "ended"}
<1>1. Loops \in [Daemons -> Phases]
  BY DEF Loops, LoopOf
<1>2. CASE UNCHANGED Loops
  BY <1>2 DEF Seen
<1>3. ASSUME NEW p \in Daemons, NEW was \in Phases, NEW now \in Phases,
             Loops[p] = was, Loops' = [Loops EXCEPT ![p] = now],
             \/ was = "none" /\ now \in {"up", "ended"}
             \/ was = "up" /\ now \in {"stopping", "ended"}
             \/ was \in {"stopping", "ended"} /\ now = "ended"
      PROVE  [Together!Next]_Seen
  <2>1. /\ was \in {"up", "stopping"} => Seen = was
        /\ now \in {"up", "stopping"} => Seen' = now
        /\ was \in {"up", "stopping"} /\ now \in {"none", "ended"} => Seen' = "down"
        /\ was \in {"none", "ended"} /\ now \in {"up", "stopping"} => Seen = "down"
        /\ was \in {"none", "ended"} /\ now \in {"none", "ended"} => Seen' = Seen
    BY <1>1, <1>3, OneIsSeen DEF Seen
  <2> QED
    BY <1>3, <2>1 DEF Together!Next, Together!Start, Together!Cancel, Together!Return, Together!Kill
<1>4. CASE Life!Next
  <2>1. PICK p \in Daemons :
            \/ UNCHANGED Loops
            \/ Loops[p] = "none" /\ Loops' = [Loops EXCEPT ![p] = "ended"]
            \/ Loops[p] = "none" /\ Loops' = [Loops EXCEPT ![p] = "up"]
            \/ Loops[p] = "up" /\ Loops' = [Loops EXCEPT ![p] = "stopping"]
            \/ Loops[p] \in Phases /\ Loops' = [Loops EXCEPT ![p] = "ended"]
    BY <1>1, <1>4
       DEF Life!Next, Life!Acquire, Life!GiveUp, Life!Announce, Life!Begin, Life!Cancel, Life!End,
           Life!Withdraw, Life!Release, Life!Die, Life!Becomes, Loops
  <2> QED
    BY <1>2, <1>3, <2>1
<1> QED
  BY <1>2, <1>4 DEF Life!vars, Loops

\* The daemons of an instance, whoever starts, stops and kills them, are to the
\* database the single daemon that Scheduler is written for: down, up, stopping
\* and down again, never two at once (Serve, the lock and the deferred calls).
THEOREM ServeIsOneDaemon == Spec => Together!Spec
<1>1. Init => Together!Init
  BY DEF Init, Seen, SeenOf, Loops, LoopOf, Together!Init
<1>2. ServiceInv /\ ServiceInv' /\ [Next]_vars => [Together!Next]_Seen
  BY LifeNext, LoopsAreAlone, LoopsAreAloneNext, LifeIsOneDaemon
<1> QED
  BY <1>1, <1>2, ServiceInvHolds, PTL DEF Spec, Together!Spec

-----------------------------------------------------------------------------
(* What a daemon goes through on its way to a `stopped'.                   *)

Released == {"release", "exited"}
PastControl == {"loop", "serving", "closing", "waiting", "remove"} \cup Released

\* Only a failing call makes Serve unwind.
FaultsUnwind == faults = 0 => \A p \in Daemons : pc[p] \notin Unwinding

ControlIsUp == \A p \in Daemons : control[p] => pc[p] \in {"loop", "serving", "closing"}

\* Where the daemon is that a `scheduler stop' has asked.
StopFollows ==
    \A c \in Clis : faults = 0 =>
        /\ cli[c].at = "leave" => pc[cli[c].seen] \in PastControl
        /\ cli[c].at \in {"leavePing", "stopped"} => pc[cli[c].seen] \in Released

StopInv == TypeOK /\ FaultsUnwind /\ ControlIsUp /\ StopFollows

\* A step of Serve, as those see it who have asked it to stop.
Passes(p) ==
    /\ \E place \in ServePcs \ {"none"} : pc' = [pc EXCEPT ![p] = place]
    /\ faults' \in {faults, faults + 1}
    /\ pc'[p] \in Unwinding => pc[p] \in Unwinding \/ faults' = faults + 1
    /\ pc[p] \in PastControl => pc'[p] \in PastControl \cup Unwinding
    /\ pc[p] \in Released => pc'[p] \in Released
    /\ \E b \in BOOLEAN : control' = [control EXCEPT ![p] = b]
    /\ control'[p] => pc'[p] \in {"loop", "serving", "closing"}

LEMMA ServePasses ==
    ASSUME StopInv, NEW p \in Daemons, ServeStep(p) \/ DisturbServe(p)
    PROVE  Passes(p)
<1> USE DEF StopInv, TypeOK, ControlIsUp, Passes, PastControl, Released, Unwinding, ServePcs,
            Goto, Works, Fails
<1>1. CASE AcquireLock(p) \/ OpenDatabase(p) \/ ReadMetadata(p) \/ UpsertMetadata(p)
  BY <1>1 DEF AcquireLock, OpenDatabase, ReadMetadata, UpsertMetadata
<1>2. CASE WriteState(p) \/ StartControlServer(p) \/ StartLoop(p) \/ SeeRequest(p) \/ SeeSignal(p)
  BY <1>2 DEF WriteState, StartControlServer, StartLoop, SeeRequest, SeeSignal
<1>3. CASE ControlFails(p) \/ CloseControl(p)
  BY <1>3 DEF ControlFails, CloseControl
<1>4. CASE LoopEnds(p)
  BY <1>4 DEF LoopEnds
<1>5. CASE RemoveState(p) \/ ReleaseLock(p)
  BY <1>5 DEF RemoveState, ReleaseLock
<1>6. CASE Unwind(p)
  BY <1>6 DEF Unwind
<1>7. CASE Crash(p)
  BY <1>7 DEF Crash
<1> QED BY <1>1, <1>2, <1>3, <1>4, <1>5, <1>6, <1>7 DEF ServeStep, DisturbServe

LEMMA ServeKeepsTypes ==
    ASSUME TypeOK, NEW p \in Daemons, ServeStep(p) \/ DisturbServe(p)
    PROVE  TypeOK'
<1> USE DEF TypeOK, ServePcs, Unwinding, Goto, Works, Fails
<1>1. CASE AcquireLock(p)
  BY <1>1 DEF AcquireLock
<1>2. CASE OpenDatabase(p)
  BY <1>2 DEF OpenDatabase
<1>3. CASE ReadMetadata(p)
  BY <1>3 DEF ReadMetadata, Meta, NoMeta
<1>4. CASE UpsertMetadata(p)
  <2>1. meta' \in Meta /\ copy' \in [Daemons -> Meta]
    BY <1>4 DEF UpsertMetadata, Meta, NoMeta
  <2>2. pc' \in [Daemons -> ServePcs] /\ faults' \in Nat
    BY <1>4 DEF UpsertMetadata
  <2> QED BY <1>4, <2>1, <2>2 DEF UpsertMetadata
<1>5. CASE WriteState(p)
  <2>1. wrote' \in [Daemons -> BOOLEAN] /\ stateFile' \in Daemons \cup {NoOne}
    BY <1>5 DEF WriteState
  <2>2. pc' \in [Daemons -> ServePcs] /\ faults' \in Nat
    BY <1>5 DEF WriteState
  <2> QED BY <1>5, <2>1, <2>2 DEF WriteState
<1>6. CASE StartControlServer(p)
  BY <1>6 DEF StartControlServer
<1>7. CASE StartLoop(p)
  BY <1>7 DEF StartLoop
<1>8. CASE SeeRequest(p)
  BY <1>8 DEF SeeRequest
<1>9. CASE SeeSignal(p)
  BY <1>9 DEF SeeSignal
<1>10. CASE ControlFails(p)
  BY <1>10 DEF ControlFails
<1>11. CASE CloseControl(p)
  BY <1>11 DEF CloseControl
<1>12. CASE LoopEnds(p)
  BY <1>12 DEF LoopEnds
<1>13. CASE RemoveState(p)
  <2>1. wrote' \in [Daemons -> BOOLEAN] /\ stateFile' \in Daemons \cup {NoOne}
    BY <1>13 DEF RemoveState
  <2>2. pc' \in [Daemons -> ServePcs] /\ faults' \in Nat
    BY <1>13 DEF RemoveState
  <2> QED BY <1>13, <2>1, <2>2 DEF RemoveState
<1>14. CASE ReleaseLock(p)
  BY <1>14 DEF ReleaseLock
<1>15. CASE Unwind(p)
  BY <1>15 DEF Unwind
<1>16. CASE Crash(p)
  BY <1>16 DEF Crash, Meta, NoMeta
<1> QED BY <1>1, <1>2, <1>3, <1>4, <1>5, <1>6, <1>7, <1>8, <1>9, <1>10, <1>11, <1>12, <1>13, <1>14, <1>15, <1>16 DEF ServeStep, DisturbServe

\* Those who wait for one daemon learn nothing from the steps of another.
LEMMA ServeKeepsStopInv ==
    ASSUME StopInv, NEW p \in Daemons, ServeStep(p) \/ DisturbServe(p)
    PROVE  StopInv'
<1>1. Passes(p) /\ TypeOK'
  BY ServePasses, ServeKeepsTypes DEF StopInv
<1>2. cli' = cli
  BY DEF ServeStep, DisturbServe, AcquireLock, OpenDatabase, ReadMetadata, UpsertMetadata, WriteState,
         StartControlServer, StartLoop, SeeRequest, SeeSignal, ControlFails, CloseControl, LoopEnds,
         RemoveState, ReleaseLock, Unwind, Crash
<1>3. faults \in Nat /\ (faults' = 0 => faults = 0)
  BY <1>1 DEF StopInv, TypeOK, Passes
<1>4. \A q \in Daemons : q # p => pc'[q] = pc[q] /\ control'[q] = control[q]
  BY <1>1 DEF StopInv, TypeOK, Passes
<1>5. FaultsUnwind' /\ ControlIsUp'
  BY <1>1, <1>3, <1>4 DEF StopInv, Passes, FaultsUnwind, ControlIsUp
<1>6. faults' = 0 => /\ pc[p] \in PastControl => pc'[p] \in PastControl
                     /\ pc[p] \in Released => pc'[p] \in Released
  BY <1>1, <1>5 DEF Passes, FaultsUnwind
<1>7. ASSUME NEW c \in Clis, faults' = 0
      PROVE  /\ cli[c].at = "leave" => pc'[cli[c].seen] \in PastControl
             /\ cli[c].at \in {"leavePing", "stopped"} => pc'[cli[c].seen] \in Released
  <2>1. cli[c].at \in {"leave", "leavePing", "stopped"} => cli[c].seen \in Daemons
    BY DEF StopInv, TypeOK, CliState
  <2>2. /\ cli[c].at = "leave" => pc[cli[c].seen] \in PastControl
        /\ cli[c].at \in {"leavePing", "stopped"} => pc[cli[c].seen] \in Released
    BY <1>3, <1>7 DEF StopInv, StopFollows
  <2> QED BY <1>4, <1>6, <1>7, <2>1, <2>2
<1> QED BY <1>1, <1>2, <1>5, <1>7 DEF StopInv, StopFollows

LEMMA Places ==
    /\ \A at \in {"spawn", "await", "done"} : At(at) \in CliState /\ At(at).at = at
    /\ \A at \in {"startPing", "awaitPing", "stopPing", "ask", "leave", "leavePing", "stopped"} :
          \A p \in Daemons :
              Seeing(at, p) \in CliState /\ Seeing(at, p).at = at /\ Seeing(at, p).seen = p
    /\ \A s \in CliState :
          /\ s.at \in {"startPing", "awaitPing", "stopPing", "ask", "leave", "leavePing", "stopped"} =>
                s.seen \in Daemons
          /\ s.at = "hook" => s.row \in Meta
<1>1. \A s \in CliState :
          /\ s.at \in {"startPing", "awaitPing", "stopPing", "ask", "leave", "leavePing", "stopped"} =>
                s.seen \in Daemons
          /\ s.at = "hook" => s.row \in Meta
  BY DEF CliState
<1> QED BY <1>1 DEF At, Seeing, CliState

\* What a CLI step does to the process c that takes it: where it stands now, and
\* what it knows of the daemon it has in sight.
LEMMA CliMoves ==
    ASSUME StopInv, ServiceInv, NEW c \in Clis, CliStep(c)
    PROVE  /\ \E to \in CliState :
                 /\ cli' = [cli EXCEPT ![c] = to]
                 /\ faults = 0 /\ to.at = "leave" => pc[to.seen] \in PastControl
                 /\ faults = 0 /\ to.at \in {"leavePing", "stopped"} => pc[to.seen] \in Released
           /\ UNCHANGED <<lock, stateFile, wrote, control, looping, copy, crashes, faults>>
<1> DEFINE Knows(to) ==
        /\ faults = 0 /\ to.at = "leave" => pc[to.seen] \in PastControl
        /\ faults = 0 /\ to.at \in {"leavePing", "stopped"} => pc[to.seen] \in Released
<1>a. cli[c] \in CliState /\ stateFile \in Daemons \cup {NoOne} /\ meta \in Meta
  BY DEF StopInv, TypeOK
<1>1. CASE StartReads(c) \/ StartPings(c) \/ AwaitReads(c) \/ AwaitPings(c)
  <2>1. PICK to \in CliState : /\ cli' = [cli EXCEPT ![c] = to]
                               /\ to.at \in {"spawn", "startPing", "await", "awaitPing", "done"}
    <3>1. CASE StartReads(c)
      <4>1. \/ cli' = [cli EXCEPT ![c] = At("spawn")]
            \/ stateFile # NoOne /\ cli' = [cli EXCEPT ![c] = Seeing("startPing", stateFile)]
        BY <3>1 DEF StartReads, CliGoes
      <4> QED BY <1>a, <4>1, Places
    <3>2. CASE StartPings(c)
      <4>1. cli' = [cli EXCEPT ![c] = At("done")] \/ cli' = [cli EXCEPT ![c] = At("spawn")]
        BY <3>2 DEF StartPings, CliGoes
      <4> QED BY <4>1, Places
    <3>3. CASE AwaitReads(c)
      <4>1. stateFile \in Daemons /\ cli' = [cli EXCEPT ![c] = Seeing("awaitPing", stateFile)]
        BY <1>a, <3>3 DEF AwaitReads, CliGoes
      <4>2. Seeing("awaitPing", stateFile) \in CliState /\ Seeing("awaitPing", stateFile).at = "awaitPing"
        BY <4>1, Places
      <4> QED BY <4>1, <4>2
    <3>4. CASE AwaitPings(c)
      <4>1. cli' = [cli EXCEPT ![c] = At("done")] \/ cli' = [cli EXCEPT ![c] = At("await")]
        BY <3>4 DEF AwaitPings, CliGoes
      <4> QED BY <4>1, Places
    <3> QED BY <1>1, <3>1, <3>2, <3>3, <3>4
  <2> QED BY <1>1, <2>1 DEF StartReads, StartPings, AwaitReads, AwaitPings, CliGoes, files
<1>2. CASE \E p \in Daemons : StartSpawns(c, p)
  BY <1>2, Places DEF StartSpawns, files
<1>3. CASE StopReads(c) \/ StopPings(c) \/ GiveUp(c)
  <2>1. PICK to \in CliState : /\ cli' = [cli EXCEPT ![c] = to]
                               /\ to.at \in {"stopPing", "ask", "done"}
    <3>1. CASE StopReads(c)
      <4>1. stateFile \in Daemons /\ cli' = [cli EXCEPT ![c] = Seeing("stopPing", stateFile)]
        BY <1>a, <3>1 DEF StopReads, CliGoes
      <4>2. Seeing("stopPing", stateFile) \in CliState /\ Seeing("stopPing", stateFile).at = "stopPing"
        BY <4>1, Places
      <4> QED BY <4>1, <4>2
    <3>2. CASE StopPings(c)
      <4>1. cli[c].seen \in Daemons
        BY <1>a, <3>2, Places DEF StopPings
      <4>2. \/ cli' = [cli EXCEPT ![c] = Seeing("ask", cli[c].seen)]
            \/ cli' = [cli EXCEPT ![c] = At("done")]
        BY <3>2 DEF StopPings, CliGoes
      <4> QED BY <4>1, <4>2, Places
    <3>3. CASE GiveUp(c)
      BY <3>3, Places DEF GiveUp, CliGoes
    <3> QED BY <1>3, <3>1, <3>2, <3>3
  <2> QED BY <1>3, <2>1 DEF StopReads, StopPings, GiveUp, CliGoes, files
<1>4. CASE StopAsks(c)
  <2>1. cli[c].seen \in Daemons
    BY <1>a, <1>4, Places DEF StopAsks
  <2>2. PICK to \in CliState : /\ cli' = [cli EXCEPT ![c] = to]
                               /\ \/ to.at = "done"
                                  \/ /\ to.at = "leave" /\ to.seen = cli[c].seen
                                     /\ control[to.seen]
    <3>1. \/ cli' = [cli EXCEPT ![c] = At("done")]
          \/ cli' = [cli EXCEPT ![c] = Seeing("leave", cli[c].seen)] /\ control[cli[c].seen]
      BY <1>4 DEF StopAsks, CliGoes
    <3> QED BY <2>1, <3>1, Places
  <2>3. Knows(to)
    BY <2>1, <2>2 DEF StopInv, ControlIsUp, PastControl
  <2> QED BY <1>4, <2>2, <2>3 DEF StopAsks, CliGoes, files
<1>5. CASE LeaveReads(c)
  <2>1. /\ cli[c].seen \in Daemons /\ cli[c].at = "leave" /\ stateFile = NoOne
        /\ cli' = [cli EXCEPT ![c] = Seeing("leavePing", cli[c].seen)]
    BY <1>a, <1>5 DEF LeaveReads, CliGoes, CliState
  <2>2. pc[cli[c].seen] \notin Announced
    BY <2>1, NoOneAssumption DEF ServiceInv, AnnouncedInFile
  <2>3. faults = 0 => pc[cli[c].seen] \in Released
    BY <2>1, <2>2 DEF StopInv, StopFollows, PastControl, Announced, Released
  <2>4. Seeing("leavePing", cli[c].seen) \in CliState /\ Knows(Seeing("leavePing", cli[c].seen))
    BY <2>1, <2>3 DEF Seeing, CliState
  <2> QED BY <1>5, <2>1, <2>4 DEF LeaveReads, CliGoes, files
<1>6. CASE LeavePings(c)
  <2>1. cli[c].seen \in Daemons /\ cli[c].at = "leavePing"
    BY <1>a, <1>6 DEF LeavePings, CliState
  <2>2. faults = 0 => pc[cli[c].seen] \in Released
    BY <2>1 DEF StopInv, StopFollows
  <2>3. PICK to \in CliState : /\ cli' = [cli EXCEPT ![c] = to]
                               /\ to.at \in {"leave", "stopped"} /\ to.seen = cli[c].seen
    BY <1>6, <2>1 DEF LeavePings, CliGoes, Seeing, CliState
  <2>4. Knows(to)
    BY <2>2, <2>3 DEF PastControl
  <2> QED BY <1>6, <2>3, <2>4 DEF LeavePings, CliGoes, files
<1>7. CASE OnFinishWrites(c)
  BY <1>7, Places DEF OnFinishWrites, CliGoes, files
<1>8. ASSUME NEW hook \in Hooks \cup {NoOne}, OnFinishReads(c, hook)
      PROVE  /\ \E to \in CliState : cli' = [cli EXCEPT ![c] = to] /\ Knows(to)
             /\ UNCHANGED <<lock, stateFile, wrote, control, looping, copy, crashes, faults>>
  <2> DEFINE to == [at |-> "hook", row |-> [meta EXCEPT !.hook = hook]]
  <2>1. [meta EXCEPT !.hook = hook] \in Meta
    BY <1>a, <1>8 DEF Meta
  <2>2. to \in CliState /\ to.at = "hook"
    BY <2>1 DEF CliState
  <2>3. cli' = [cli EXCEPT ![c] = to]
    BY <1>8 DEF OnFinishReads, CliGoes
  <2> HIDE DEF to
  <2> QED BY <1>8, <2>2, <2>3 DEF OnFinishReads, CliGoes, files
<1> QED BY <1>1, <1>2, <1>3, <1>4, <1>5, <1>6, <1>7, <1>8 DEF CliStep

LEMMA CliKeepsStopInv ==
    ASSUME StopInv, ServiceInv, NEW c \in Clis, CliStep(c)
    PROVE  StopInv'
<1>1. PICK to \in CliState :
          /\ cli' = [cli EXCEPT ![c] = to]
          /\ faults = 0 /\ to.at = "leave" => pc[to.seen] \in PastControl
          /\ faults = 0 /\ to.at \in {"leavePing", "stopped"} => pc[to.seen] \in Released
  BY CliMoves
<1>2. UNCHANGED <<lock, stateFile, wrote, control, looping, copy, crashes, faults>>
  BY CliMoves
<1>3. /\ pc' \in [Daemons -> ServePcs]
      /\ \A p \in Daemons : pc'[p] = pc[p] \/ (pc[p] = "none" /\ pc'[p] = "spawned")
  BY CliOnlySpawns DEF StopInv, TypeOK, ServePcs
<1>4. meta' \in Meta
  <2>1. CASE OnFinishWrites(c)
    BY <2>1, Places DEF OnFinishWrites, StopInv, TypeOK
  <2>2. CASE UNCHANGED meta
    BY <2>2 DEF StopInv, TypeOK
  <2> QED
    BY <2>1, <2>2
       DEF CliStep, StartReads, StartPings, StartSpawns, AwaitReads, AwaitPings, StopReads, StopPings,
           StopAsks, LeaveReads, LeavePings, OnFinishReads, GiveUp, files
<1>5. asked' \in [Daemons -> BOOLEAN]
  BY DEF CliStep, StartReads, StartPings, StartSpawns, AwaitReads, AwaitPings, StopReads, StopPings,
         StopAsks, LeaveReads, LeavePings, OnFinishReads, OnFinishWrites, GiveUp, StopInv, TypeOK
<1>6. TypeOK'
  BY <1>1, <1>2, <1>3, <1>4, <1>5 DEF StopInv, TypeOK
<1>7. FaultsUnwind' /\ ControlIsUp'
  BY <1>2, <1>3 DEF StopInv, FaultsUnwind, ControlIsUp, Unwinding
<1>8. \A p \in Daemons : /\ pc[p] \in PastControl => pc'[p] \in PastControl
                         /\ pc[p] \in Released => pc'[p] \in Released
  BY <1>3 DEF PastControl, Released
<1>9. ASSUME NEW d \in Clis, faults' = 0
      PROVE  /\ cli'[d].at = "leave" => pc'[cli'[d].seen] \in PastControl
             /\ cli'[d].at \in {"leavePing", "stopped"} => pc'[cli'[d].seen] \in Released
  <2>1. /\ cli'[d].at = "leave" => pc[cli'[d].seen] \in PastControl
        /\ cli'[d].at \in {"leavePing", "stopped"} => pc[cli'[d].seen] \in Released
    BY <1>1, <1>2, <1>9 DEF StopInv, StopFollows, TypeOK
  <2>2. cli'[d].at \in {"leave", "leavePing", "stopped"} => cli'[d].seen \in Daemons
    BY <1>6, Places DEF TypeOK
  <2>3. CASE cli'[d].at \in {"leave", "leavePing", "stopped"}
    <3>1. PICK p \in Daemons : p = cli'[d].seen
      BY <2>2, <2>3
    <3>2. cli'[d].at = "leave" => pc[p] \in PastControl
      BY <2>1, <3>1
    <3>3. cli'[d].at \in {"leavePing", "stopped"} => pc[p] \in Released
      BY <2>1, <3>1
    <3>4. pc[p] \in PastControl => pc'[p] \in PastControl
      BY <1>8, <3>1
    <3>5. pc[p] \in Released => pc'[p] \in Released
      BY <1>8, <3>1
    <3> QED BY <3>1, <3>2, <3>3, <3>4, <3>5
  <2> QED BY <2>3
<1> QED BY <1>6, <1>7, <1>9 DEF StopInv, StopFollows

LEMMA StopInvNext == StopInv /\ ServiceInv /\ [Next]_vars => StopInv'
<1> SUFFICES ASSUME StopInv, ServiceInv, [Next]_vars PROVE StopInv'
  OBVIOUS
<1>1. CASE UNCHANGED vars
  BY <1>1 DEF StopInv, TypeOK, FaultsUnwind, ControlIsUp, StopFollows
<1> QED BY <1>1, ServeKeepsStopInv, CliKeepsStopInv DEF Next

LEMMA StopInvInit == Init => StopInv
<1> SUFFICES ASSUME Init PROVE StopInv
  OBVIOUS
<1>1. /\ meta \in Meta /\ copy \in [Daemons -> Meta] /\ cli \in [Clis -> CliState]
      /\ pc \in [Daemons -> ServePcs]
  BY DEF Init, Meta, NoMeta, At, CliState, ServePcs
<1>2. /\ wrote \in [Daemons -> BOOLEAN] /\ control \in [Daemons -> BOOLEAN]
      /\ looping \in [Daemons -> BOOLEAN] /\ asked \in [Daemons -> BOOLEAN]
  BY DEF Init
<1>3. TypeOK
  BY <1>1, <1>2 DEF Init, TypeOK
<1>4. FaultsUnwind /\ ControlIsUp /\ StopFollows
  BY DEF Init, FaultsUnwind, ControlIsUp, StopFollows, Unwinding, At
<1> QED BY <1>3, <1>4 DEF StopInv

LEMMA StopInvHolds == Spec => []StopInv
<1> QED BY StopInvInit, StopInvNext, ServiceInvHolds, PTL DEF Spec

(* Every variable of the processes around an instance stays in its type.       *)
THEOREM ServiceTypes == Spec => []TypeOK
<1>1. StopInv => TypeOK
  BY DEF StopInv
<1> QED BY <1>1, StopInvHolds, PTL

(* When `scheduler stop' prints `stopped', the loop of the daemon it asked has *)
(* returned, or some call of a daemon has failed, whoever else starts, stops   *)
(* or is killed meanwhile (waitForSchedulerStop, Serve).                       *)
THEOREM StoppedIsEnded == Spec => []StoppedMeansEnded
<1>1. StopInv /\ ServiceInv => StoppedMeansEnded
  <2> SUFFICES ASSUME StopInv, ServiceInv, NEW c \in Clis, cli[c].at = "stopped", faults = 0
               PROVE  ~looping[cli[c].seen]
    BY DEF StoppedMeansEnded, StopInv, TypeOK
  <2>1. pc[cli[c].seen] \in Released /\ cli[c].seen \in Daemons
    BY DEF StopInv, StopFollows, TypeOK, CliState
  <2> QED BY <2>1 DEF ServiceInv, LoopsHaveServe, Released, Unwinding
<1> QED BY <1>1, StopInvHolds, ServiceInvHolds, PTL

=============================================================================
