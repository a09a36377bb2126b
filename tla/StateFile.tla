----------------------------- MODULE StateFile -----------------------------
(***************************************************************************)
(* The state file of an instance (internal/daemon/state.go): WriteState    *)
(* and RemoveState, system call by system call, of the daemon that holds   *)
(* the lock or of the next one after it was killed, and ReadState of the   *)
(* CLI processes that poll it meanwhile.  Service takes each of the three  *)
(* for one step.  An open file is read as it is, whatever becomes of its   *)
(* name; on Windows an open file can be neither replaced nor removed.      *)
(***************************************************************************)
EXTENDS Naturals, Sequences, FiniteSets

CONSTANTS
    States,         \* scheduler states, encoded
    Readers,        \* ReadState calls under way at a time
    None, Idle,     \* no state, no file; no read under way
    MaxTries,       \* how often removeRetryInterval fits in removeRetryDeadline
    MaxWrites,      \* bound: temporary files
    MaxCrashes,     \* bound: daemons killed
    MaxFaults       \* bound: system calls of the daemon that fail

ASSUME ValuesAssumption == {None, Idle, "partial", "corrupt"} \cap States = {} /\ None # Idle
ASSUME NamesAssumption == {None, Idle} \cap (Nat \cup {"corrupt"}) = {}
ASSUME StateFileBoundsAssumption == {MaxTries, MaxWrites, MaxCrashes, MaxFaults} \subseteq Nat

VARIABLES
    windows,        \* whether open files are protected: fixed from the start
    content,        \* of every file there ever was: file i is the i-th
    path,           \* the file that state.json names, or None
    temps,          \* the files that have a temporary name
    call,           \* where the daemon stands in WriteState or RemoveState
    state,          \* what it writes
    tries,          \* how often RemoveState has slept
    opened,         \* the file each reader has open, None when there was none, or
                    \* Idle
    answer,         \* what the last ReadState of each reader returned
    crashes, faults

daemon == <<windows, content, path, temps, call, state, tries, crashes, faults>>
vars   == <<daemon, opened, answer>>

Works == UNCHANGED faults
Fails == faults < MaxFaults /\ faults' = faults + 1

Temp == Len(content)

Blocked == windows /\ path # None /\ \E r \in Readers : opened[r] = path

-----------------------------------------------------------------------------
(* WriteState.                                                             *)

\* A fresh name in the directory of the state file.
CreateTemp(s) ==
    /\ call = "idle" /\ Temp < MaxWrites
    /\ \/ /\ Works
          /\ content' = Append(content, "partial") /\ temps' = temps \cup {Temp + 1}
          /\ call' = "fill" /\ state' = s
       \/ Fails /\ UNCHANGED <<content, temps, call, state>>
    /\ UNCHANGED <<path, tries, crashes, opened, answer, windows>>

\* Mutant: an error leaves the temporary file where it is.
FillOrLeave ==
    /\ call = "fill"
    /\ \/ /\ Works /\ content' = [content EXCEPT ![Temp] = state] /\ call' = "rename"
       \/ /\ Fails /\ content' \in {content, [content EXCEPT ![Temp] = state]} /\ call' = "idle"
    /\ UNCHANGED <<path, temps, state, tries, crashes, opened, answer, windows>>

\* Chmod, Write and Close; one of them may fail with less than all written.
Fill ==
    /\ call = "fill"
    /\ \/ /\ Works /\ content' = [content EXCEPT ![Temp] = state] /\ call' = "rename"
       \/ /\ Fails /\ content' \in {content, [content EXCEPT ![Temp] = state]} /\ call' = "clean"
    /\ UNCHANGED <<path, temps, state, tries, crashes, opened, answer, windows>>

Rename ==
    /\ call = "rename"
    /\ \/ /\ Works /\ ~Blocked
          /\ path' = Temp /\ temps' = temps \ {Temp}
       \/ /\ Fails \/ (Works /\ Blocked)
          /\ UNCHANGED <<path, temps>>
    /\ call' = "clean"
    /\ UNCHANGED <<content, state, tries, crashes, opened, answer, windows>>

\* The deferred Remove; its error is not looked at.
CleanTemp ==
    /\ call = "clean"
    /\ \/ Works /\ temps' = temps \ {Temp}
       \/ Fails /\ UNCHANGED temps
    /\ call' = "idle"
    /\ UNCHANGED <<content, path, state, tries, crashes, opened, answer, windows>>

-----------------------------------------------------------------------------
(* RemoveState.                                                            *)

BeginRemove ==
    /\ call = "idle"
    /\ call' = "remove" /\ tries' = 0
    /\ UNCHANGED <<content, path, temps, state, crashes, faults, opened, answer, windows>>

\* Mutant: no deadline.
RemoveWithoutDeadline ==
    /\ call = "remove"
    /\ \/ Works /\ ~Blocked /\ path' = None /\ call' = "idle"
       \/ Fails /\ UNCHANGED path /\ call' = "idle"
       \/ Works /\ Blocked /\ UNCHANGED <<path, call>>
    /\ UNCHANGED <<content, temps, state, tries, crashes, opened, answer, windows>>

\* A file that is not there is as good as removed; an open one is tried again
\* until the deadline (shouldRetryStateRemove).
RemoveFile ==
    /\ call = "remove"
    /\ \/ Works /\ ~Blocked /\ path' = None /\ call' = "idle" /\ UNCHANGED tries
       \/ Fails /\ UNCHANGED <<path, tries>> /\ call' = "idle"
       \/ /\ Works /\ Blocked /\ UNCHANGED path
          /\ \/ tries < MaxTries /\ tries' = tries + 1 /\ UNCHANGED call
             \/ tries = MaxTries /\ UNCHANGED tries /\ call' = "idle"
    /\ UNCHANGED <<content, temps, state, crashes, opened, answer, windows>>

\* The daemon is killed; another one will call.
Crash ==
    /\ call # "idle" /\ crashes < MaxCrashes /\ crashes' = crashes + 1
    /\ call' = "idle"
    /\ UNCHANGED <<content, path, temps, state, tries, faults, opened, answer, windows>>

-----------------------------------------------------------------------------
(* ReadState.                                                              *)

\* The json decoder and decodeSchedulerState.
Decode(file) ==
    CASE file = None                             -> None
      [] file # None /\ content[file] \in States -> content[file]
      [] OTHER                                   -> "corrupt"

OpenFile(r) ==
    /\ opened[r] = Idle
    /\ opened' = [opened EXCEPT ![r] = path]
    /\ UNCHANGED <<daemon, answer>>

\* Mutant: the name is looked up again.
ReadByName(r) ==
    /\ opened[r] # Idle
    /\ answer' = [answer EXCEPT ![r] = Decode(path)]
    /\ opened' = [opened EXCEPT ![r] = Idle]
    /\ UNCHANGED daemon

ReadFile(r) ==
    /\ opened[r] # Idle
    /\ answer' = [answer EXCEPT ![r] = Decode(opened[r])]
    /\ opened' = [opened EXCEPT ![r] = Idle]
    /\ UNCHANGED daemon

-----------------------------------------------------------------------------
Init ==
    /\ windows \in BOOLEAN
    /\ content = <<>> /\ path = None /\ temps = {}
    /\ call = "idle" /\ state \in States /\ tries = 0
    /\ opened = [r \in Readers |-> Idle]
    /\ answer = [r \in Readers |-> None]
    /\ crashes = 0 /\ faults = 0

WriteStep == (\E s \in States : CreateTemp(s)) \/ Fill \/ Rename \/ CleanTemp

RemoveStep == BeginRemove \/ RemoveFile

ReadStep(r) == OpenFile(r) \/ ReadFile(r)

Next == WriteStep \/ RemoveStep \/ Crash \/ \E r \in Readers : ReadStep(r)

Spec == Init /\ [][Next]_vars

\* System calls return; a reader may take as long as it likes.
FairSpec == Spec /\ WF_vars(RemoveFile)

-----------------------------------------------------------------------------
(* Properties.                                                             *)

\* Every variable stays in its type; RemoveState sleeps no longer than its
\* deadline lets it.
TypeOK ==
    /\ windows \in BOOLEAN
    /\ content \in Seq(States \cup {"partial"})
    /\ path \in DOMAIN content \cup {None}
    /\ temps \subseteq DOMAIN content
    /\ call \in {"idle", "fill", "rename", "clean", "remove"}
    /\ state \in States
    /\ tries \in 0..MaxTries
    /\ opened \in [Readers -> DOMAIN content \cup {None, Idle}]
    /\ answer \in [Readers -> States \cup {None}]
    /\ crashes \in Nat /\ faults \in Nat

\* The temporary files that no call is going to rename or to remove.
Litter == temps \ (IF call \in {"fill", "rename", "clean"} THEN {Temp} ELSE {})

\* No error path of WriteState leaves its temporary file: it takes a kill, or a
\* second failure, of the deferred Remove itself.  On Windows a reader may be
\* the first.
LitterNeedsTwoFaults == ~windows => 2 * Cardinality(Litter) <= 2 * crashes + faults

\* The state file is the register StateRegister: no reader ever finds half a
\* state, whatever the daemon does, or is killed in, while it reads.
Register == INSTANCE StateRegister
    WITH value <- Decode(path),
         seen  <- [r \in Readers |-> IF opened[r] = Idle THEN Idle ELSE Decode(opened[r])]

ImplementsRegister == Register!Spec

\* RemoveState returns even if a reader never closes the file.
RemoveEnds == call = "remove" ~> call # "remove"

=============================================================================
