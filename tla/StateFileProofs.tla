-------------------------- MODULE StateFileProofs --------------------------
(***************************************************************************)
(* StateFile implements StateRegister, and cleans up after itself, for any *)
(* numbers of readers, writes, kills and failing calls, with and without   *)
(* the protection of open files.  What carries both: the file that a       *)
(* WriteState is still filling has neither the name of the state file nor  *)
(* a reader.                                                               *)
(***************************************************************************)
EXTENDS StateFile, FiniteSetTheorems, TLAPS

USE DEF vars, daemon

Files == 1..Len(content)

TypeInv ==
    /\ content \in Seq(States \cup {"partial"})
    /\ path \in Files \cup {None}
    /\ temps \in SUBSET Files
    /\ call \in {"idle", "fill", "rename", "clean", "remove"}
    /\ state \in States
    /\ tries \in 0..MaxTries
    /\ opened \in [Readers -> Files \cup {None, Idle}]
    /\ crashes \in Nat /\ faults \in Nat

\* A file that can be read, now or later, is whole.
Whole(file) == file = None \/ content[file] \in States

WholeInv ==
    /\ Whole(path)
    /\ \A r \in Readers : opened[r] = Idle \/ Whole(opened[r])

\* The file of a WriteState under way.
TempInv ==
    /\ call \in {"fill", "rename", "clean"} => Temp \in Files
    /\ call \in {"fill", "rename"} => path # Temp /\ \A r \in Readers : opened[r] # Temp
    /\ call = "rename" => content[Temp] \in States

StateInv == TypeInv /\ WholeInv /\ TempInv

\* What is seen of the files.
Seen == [r \in Readers |-> IF opened[r] = Idle THEN Idle ELSE Decode(opened[r])]
RegisterStep == [Register!Next]_<<Decode(path), Seen, answer>>

-----------------------------------------------------------------------------
LEMMA FilesAreNumbers == TypeInv => None \notin Files /\ Idle \notin Files /\ Len(content) \in Nat
  BY NamesAssumption DEF TypeInv, Files

LEMMA DecodeWhole ==
    ASSUME NEW file, Whole(file)
    PROVE  Decode(file) \in States \cup {None} /\ Decode(file) # Idle
  BY ValuesAssumption DEF Whole, Decode

LEMMA StateInvInit == Init => StateInv
  BY StateFileBoundsAssumption DEF Init, StateInv, TypeInv, WholeInv, TempInv, Whole, Files

\* A new file changes nothing of the others.
LEMMA CreateStep ==
    ASSUME StateInv, NEW s \in States, CreateTemp(s)
    PROVE  StateInv' /\ UNCHANGED <<Decode(path), Seen, answer>>
<1> USE DEF StateInv
<1>1. CASE UNCHANGED <<content, temps, call, state>>
  <2>1. StateInv'
    BY <1>1 DEF CreateTemp, Works, Fails, TypeInv, WholeInv, TempInv, Whole, Files, Temp
  <2> QED
    BY <1>1, <2>1 DEF CreateTemp, Decode, Seen
<1>2. CASE /\ content' = Append(content, "partial") /\ temps' = temps \cup {Temp + 1}
           /\ call' = "fill" /\ state' = s /\ Works
  <2>1. /\ Len(content') = Len(content) + 1 /\ Len(content) \in Nat
        /\ \A file \in Files : content'[file] = content[file]
        /\ content' \in Seq(States \cup {"partial"})
    BY <1>2 DEF TypeInv, Files
  <2>2. Files' = Files \cup {Len(content) + 1} /\ Len(content) + 1 \notin Files
    BY <2>1 DEF Files
  <2>3. path' = path /\ opened' = opened /\ answer' = answer /\ tries' = tries /\ crashes' = crashes
    BY DEF CreateTemp
  <2>4. TypeInv'
    BY <1>2, <2>1, <2>2, <2>3 DEF TypeInv, Works, Temp
  <2>5. \A file \in Files \cup {None} : Whole(file)' <=> Whole(file)
    BY <2>1, <2>3 DEF Whole
  <2>6. \A r \in Readers : opened[r] \in Files \cup {None, Idle}
    BY DEF TypeInv
  <2>7. WholeInv'
    <3>1. Whole(path)'
      BY <2>3, <2>5 DEF WholeInv, TypeInv, Whole
    <3>2. ASSUME NEW r \in Readers PROVE opened'[r] = Idle \/ Whole(opened[r])'
      BY <2>3, <2>5, <2>6, <3>2 DEF WholeInv, Whole
    <3> QED
      BY <2>3, <3>1, <3>2 DEF WholeInv, Whole
  <2>8. TempInv'
    BY <1>2, <2>1, <2>2, <2>3, <2>6, FilesAreNumbers, NamesAssumption DEF TempInv, Temp, TypeInv
  <2>9. \A file \in Files \cup {None} : Decode(file)' = Decode(file)
    BY <2>1 DEF Decode
  <2> QED
    BY <2>3, <2>4, <2>6, <2>7, <2>8, <2>9 DEF Seen, TypeInv
<1> QED
  BY <1>1, <1>2 DEF CreateTemp

\* What is written goes to a file that nobody reads.
LEMMA FillStep == ASSUME StateInv, Fill PROVE StateInv' /\ UNCHANGED <<Decode(path), Seen, answer>>
<1> USE DEF StateInv
<1>1. /\ Temp \in Files /\ path # Temp /\ \A r \in Readers : opened[r] # Temp
      /\ path' = path /\ opened' = opened /\ answer' = answer /\ temps' = temps
      /\ tries' = tries /\ crashes' = crashes /\ state' = state
  BY DEF Fill, TempInv
<1>2. content' = content \/ content' = [content EXCEPT ![Temp] = state]
  BY DEF Fill
<1>3. /\ content' \in Seq(States \cup {"partial"}) /\ Len(content') = Len(content)
      /\ Files' = Files /\ Temp' = Temp
      /\ \A file \in Files : file # Temp => content'[file] = content[file]
  BY <1>1, <1>2 DEF TypeInv, Files, Temp
<1>4. TypeInv'
  BY <1>1, <1>3 DEF TypeInv, Fill, Works, Fails
<1>5. \A file \in Files \cup {None} : file # Temp => (Whole(file)' <=> Whole(file))
  BY <1>3 DEF Whole
<1>6. \A file \in Files \cup {None} : file # Temp => Decode(file)' = Decode(file)
  BY <1>3 DEF Decode
<1>7. \A r \in Readers : opened[r] \in Files \cup {None, Idle}
  BY DEF TypeInv
<1>8. WholeInv'
  <2>1. Whole(path)'
    BY <1>1, <1>5 DEF WholeInv, TypeInv, Whole
  <2>2. ASSUME NEW r \in Readers PROVE opened'[r] = Idle \/ Whole(opened[r])'
    BY <1>1, <1>5, <1>7, <2>2 DEF WholeInv, Whole
  <2> QED
    BY <1>1, <2>1, <2>2 DEF WholeInv, Whole
<1>9. TempInv'
  <2>1. call' = "rename" => content'[Temp] \in States
    BY <1>1, <1>3 DEF Fill, TypeInv, Files
  <2> QED
    BY <1>1, <1>3, <2>1 DEF TempInv
<1> QED
  BY <1>1, <1>4, <1>6, <1>7, <1>8, <1>9 DEF Seen, TypeInv

\* The one step of WriteState that readers may notice.
LEMMA RenameStep == ASSUME StateInv, Rename PROVE StateInv' /\ RegisterStep
<1> USE DEF StateInv
<1>1. /\ Temp \in Files /\ content[Temp] \in States
      /\ content' = content /\ opened' = opened /\ answer' = answer /\ call' = "clean"
      /\ tries' = tries /\ crashes' = crashes /\ state' = state
  BY DEF Rename, TempInv
<1>2. TypeInv'
  <2>1. path' \in Files \cup {None} /\ temps' \in SUBSET Files
    BY <1>1 DEF Rename, TypeInv
  <2>2. faults' \in Nat
    BY DEF Rename, TypeInv, Works, Fails
  <2> QED
    BY <1>1, <2>1, <2>2 DEF TypeInv, Files
<1>3. WholeInv' /\ TempInv'
  BY <1>1 DEF Rename, WholeInv, TempInv, Whole, Files, Temp
<1>4. Seen' = Seen
  BY <1>1 DEF Seen, Decode
<1>5. CASE path' = Temp
  <2>1. Decode(path)' \in States
    BY <1>1, <1>5, FilesAreNumbers DEF Decode
  <2> QED
    BY <1>1, <1>2, <1>3, <1>4, <2>1 DEF RegisterStep, Register!Next, Register!Replace, Seen
<1>6. CASE path' = path
  BY <1>1, <1>2, <1>3, <1>4, <1>6 DEF RegisterStep, Decode
<1> QED
  BY <1>5, <1>6 DEF Rename

LEMMA CleanStep ==
    ASSUME StateInv, CleanTemp \/ BeginRemove \/ Crash
    PROVE  StateInv' /\ UNCHANGED <<Decode(path), Seen, answer>>
<1> USE DEF StateInv
<1>1. /\ content' = content /\ path' = path /\ opened' = opened /\ answer' = answer
      /\ state' = state /\ call' \in {"idle", "remove"}
  BY DEF CleanTemp, BeginRemove, Crash
<1>2. TypeInv'
  <2>1. temps' \in SUBSET Files
    BY <1>1 DEF TypeInv, CleanTemp, BeginRemove, Crash
  <2>2. tries' \in 0..MaxTries /\ crashes' \in Nat /\ faults' \in Nat
    BY StateFileBoundsAssumption DEF TypeInv, CleanTemp, BeginRemove, Crash, Works, Fails
  <2> QED
    BY <1>1, <2>1, <2>2 DEF TypeInv, Files
<1>3. WholeInv' /\ TempInv'
  BY <1>1 DEF WholeInv, TempInv, Whole
<1> QED
  BY <1>1, <1>2, <1>3 DEF Seen, Decode

LEMMA RemoveFileStep == ASSUME StateInv, RemoveFile PROVE StateInv' /\ RegisterStep
<1> USE DEF StateInv
<1>1. /\ content' = content /\ opened' = opened /\ answer' = answer /\ temps' = temps
      /\ crashes' = crashes /\ state' = state /\ call' \in {"idle", "remove"}
      /\ path' \in {path, None}
  BY DEF RemoveFile
<1>2. tries' \in 0..MaxTries /\ faults' \in Nat
  BY StateFileBoundsAssumption DEF RemoveFile, TypeInv, Works, Fails
<1>3. TypeInv'
  BY <1>1, <1>2 DEF TypeInv, Files
<1>4. WholeInv' /\ TempInv'
  BY <1>1 DEF WholeInv, TempInv, Whole
<1>5. Seen' = Seen
  BY <1>1 DEF Seen, Decode
<1>6. Decode(path)' = Decode(path) \/ Decode(path)' = None
  BY <1>1 DEF Decode
<1> QED
  BY <1>1, <1>3, <1>4, <1>5, <1>6 DEF RegisterStep, Register!Next, Register!Remove, Seen

LEMMA ReaderStep ==
    ASSUME StateInv, NEW r \in Readers, ReadStep(r)
    PROVE  StateInv' /\ RegisterStep
<1> USE DEF StateInv
<1>1. /\ content' = content /\ path' = path /\ call' = call /\ temps' = temps
      /\ UNCHANGED <<state, tries, crashes, faults>>
  BY DEF ReadStep, OpenFile, ReadFile
<1>2. /\ opened' \in [Readers -> Files \cup {None, Idle}]
      /\ \A q \in Readers : opened'[q] \in {opened[q], path, Idle}
  BY DEF ReadStep, OpenFile, ReadFile, TypeInv
<1>3. TypeInv'
  BY <1>1, <1>2 DEF TypeInv, Files
<1>4. WholeInv'
  BY <1>1, <1>2 DEF WholeInv, Whole
<1>5. TempInv'
  BY <1>1, <1>2, FilesAreNumbers DEF TempInv, Temp, Files
<1>6. \A file : Decode(file)' = Decode(file)
  BY <1>1 DEF Decode
<1>7. CASE OpenFile(r)
  <2>1. Seen[r] = Idle
    BY <1>7 DEF OpenFile, Seen
  <2>2. path # Idle
    BY NamesAssumption, FilesAreNumbers, ValuesAssumption DEF TypeInv
  <2>3. Seen' = [Seen EXCEPT ![r] = Decode(path)]
    BY <1>1, <1>6, <1>7, <2>2 DEF OpenFile, Seen, TypeInv
  <2> QED
    BY <1>1, <1>3, <1>4, <1>5, <1>6, <1>7, <2>1, <2>3
       DEF OpenFile, RegisterStep, Register!Next, Register!See, Seen
<1>8. CASE ReadFile(r)
  <2>1. Seen[r] = Decode(opened[r]) /\ Seen[r] # Idle
    BY <1>8, DecodeWhole DEF ReadFile, Seen, WholeInv
  <2>2. Seen' = [Seen EXCEPT ![r] = Idle]
    BY <1>1, <1>6, <1>8 DEF ReadFile, Seen, TypeInv
  <2> QED
    BY <1>1, <1>3, <1>4, <1>5, <1>6, <1>8, <2>1, <2>2
       DEF ReadFile, RegisterStep, Register!Next, Register!Answer, Seen
<1> QED
  BY <1>7, <1>8 DEF ReadStep

LEMMA StateInvNext == StateInv /\ [Next]_vars => StateInv' /\ RegisterStep
<1> SUFFICES ASSUME StateInv, [Next]_vars PROVE StateInv' /\ RegisterStep
  OBVIOUS
<1>1. CASE UNCHANGED vars
  BY <1>1 DEF StateInv, TypeInv, WholeInv, TempInv, Whole, Files, Temp, RegisterStep, Decode, Seen
<1>2. UNCHANGED <<Decode(path), Seen, answer>> => RegisterStep
  BY DEF RegisterStep
<1> QED
  BY <1>1, <1>2, CreateStep, FillStep, RenameStep, CleanStep, RemoveFileStep, ReaderStep
     DEF Next, WriteStep, RemoveStep

LEMMA StateSafe == Spec => []StateInv
<1> QED
  BY StateInvInit, StateInvNext, PTL DEF Spec

\* The state file is a register: whatever the daemon does, or is killed in, a
\* read finds a whole state or none (WriteState, RemoveState, ReadState).
THEOREM StateFileIsARegister == Spec => ImplementsRegister
<1>1. Init => Register!Init
  BY DEF Init, Register!Init, Decode
<1>2. StateInv /\ [Next]_vars => [Register!Next]_<<Decode(path), Seen, answer>>
  BY StateInvNext DEF RegisterStep
<1> QED
  BY <1>1, <1>2, StateSafe, PTL DEF Spec, ImplementsRegister, Register!Spec, Seen

-----------------------------------------------------------------------------
(* Litter.                                                                 *)

\* A temporary file that CleanTemp is going to remove has had its failure.
Owed == IF call = "clean" /\ Temp \in temps THEN 1 ELSE 0

LitterInv == 2 * Cardinality(Litter) + Owed <= 2 * crashes + faults

LEMMA LitterIsFinite ==
    ASSUME TypeInv
    PROVE  IsFiniteSet(temps) /\ IsFiniteSet(Litter) /\ Cardinality(Litter) \in Nat
<1>1. IsFiniteSet(Files)
  BY FS_Interval DEF Files, TypeInv
<1>2. IsFiniteSet(temps)
  BY <1>1, FS_Subset DEF TypeInv
<1>3. IsFiniteSet(Litter)
  BY <1>2, FS_Subset DEF Litter
<1> QED
  BY <1>2, <1>3, FS_CardinalityType

\* All of temps is litter once its owner is gone: at most one file more.
LEMMA LitterGrowsByOne ==
    ASSUME TypeInv
    PROVE  /\ Cardinality(temps) \in Nat
           /\ Cardinality(temps) <= Cardinality(Litter) + 1
           /\ Temp \notin temps => temps = Litter
<1>1. temps = Litter \/ temps = Litter \cup {Temp}
  BY DEF Litter
<1>2. Cardinality(Litter \cup {Temp}) \in {Cardinality(Litter), Cardinality(Litter) + 1}
  BY LitterIsFinite, FS_AddElement, Zenon
<1> QED
  BY <1>1, <1>2, LitterIsFinite DEF Litter

LEMMA LitterNext ==
    ASSUME StateInv, LitterInv, [Next]_vars, ~windows
    PROVE  LitterInv'
<1> USE DEF StateInv
<1>1. /\ Cardinality(Litter) \in Nat /\ Cardinality(temps) \in Nat
      /\ Cardinality(temps) <= Cardinality(Litter) + 1
      /\ Temp \notin temps => temps = Litter
      /\ crashes \in Nat /\ faults \in Nat
  BY LitterIsFinite, LitterGrowsByOne DEF TypeInv
<1>2. Len(content) \in Nat /\ Len(content) + 1 \notin temps
  BY DEF TypeInv, Files
<1>3. faults' = faults \/ faults' = faults + 1
  BY DEF Next, WriteStep, RemoveStep, ReadStep, CreateTemp, Fill, Rename, CleanTemp, BeginRemove,
         RemoveFile, Crash, OpenFile, ReadFile, Works, Fails
<1>4. ASSUME Litter' = Litter, Owed' <= Owed, crashes' = crashes PROVE LitterInv'
  BY <1>1, <1>3, <1>4 DEF LitterInv, Owed
<1>5. CASE UNCHANGED <<content, temps, call, crashes, faults>>
  BY <1>4, <1>5 DEF Litter, Owed, Temp
<1>6. ASSUME NEW s \in States, CreateTemp(s) PROVE LitterInv'
  <2>1. CASE UNCHANGED <<content, temps, call, state>>
    BY <1>4, <1>6, <2>1 DEF CreateTemp, Litter, Owed, Temp
  <2>2. CASE /\ content' = Append(content, "partial") /\ temps' = temps \cup {Temp + 1}
             /\ call' = "fill"
    <3>1. Temp' = Temp + 1
      BY <1>2, <2>2 DEF Temp, TypeInv
    <3>2. Litter' = temps /\ Litter = temps
      BY <1>2, <1>6, <2>2, <3>1 DEF CreateTemp, Litter, Temp
    <3> QED
      BY <1>4, <1>6, <2>2, <3>2 DEF CreateTemp, Owed
  <2> QED
    BY <1>6, <2>1, <2>2 DEF CreateTemp
<1>7. CASE Fill
  <2>1. Temp' = Temp
    BY <1>7 DEF Fill, Temp, TypeInv
  <2>2. Litter' = Litter /\ crashes' = crashes
    BY <1>7, <2>1 DEF Fill, Litter
  <2>3. Owed = 0 /\ Owed' \in {0, 1} /\ (faults' = faults => Owed' = 0)
    BY <1>1, <1>7 DEF Fill, Owed, Works, Fails
  <2> QED
    BY <1>1, <1>3, <2>2, <2>3 DEF LitterInv
<1>8. CASE Rename
  <2>1. Temp' = Temp
    BY <1>8 DEF Rename, Temp
  <2>2. Litter' = Litter /\ crashes' = crashes
    BY <1>8, <2>1 DEF Rename, Litter
  <2>3. Owed = 0 /\ Owed' \in {0, 1} /\ (faults' = faults => Owed' = 0)
    BY <1>1, <1>8, <2>1 DEF Rename, Owed, Works, Fails, Blocked
  <2> QED
    BY <1>1, <1>3, <2>2, <2>3 DEF LitterInv
<1>9. CASE CleanTemp
  <2>1. Owed' = 0 /\ crashes' = crashes /\ Litter = temps \ {Temp} /\ Litter' = temps'
    BY <1>9 DEF CleanTemp, Owed, Litter
  <2>2. CASE temps' = temps \ {Temp}
    BY <1>4, <2>1, <2>2 DEF Owed
  <2>3. CASE temps' = temps /\ faults' = faults + 1
    <3>1. CASE Temp \in temps
      <4>1. Owed = 1
        BY <1>9, <3>1 DEF CleanTemp, Owed
      <4> QED
        BY <1>1, <2>1, <2>3, <4>1 DEF LitterInv
    <3>2. CASE Temp \notin temps
      BY <1>1, <1>4, <2>1, <2>3, <3>2 DEF Owed
    <3> QED
      BY <3>1, <3>2
  <2> QED
    BY <1>9, <2>2, <2>3 DEF CleanTemp, Works, Fails
<1>10. CASE BeginRemove \/ RemoveFile
  <2>1. /\ content' = content /\ temps' = temps /\ crashes' = crashes
        /\ call \in {"idle", "remove"} /\ call' \in {"idle", "remove"}
    BY <1>10 DEF BeginRemove, RemoveFile
  <2>2. Litter' = Litter /\ Owed' <= Owed
    BY <2>1 DEF Litter, Owed
  <2> QED
    BY <1>4, <2>1, <2>2
<1>11. CASE Crash
  <2>1. Owed' = 0 /\ Litter' = temps /\ crashes' = crashes + 1 /\ faults' = faults
    BY <1>11 DEF Crash, Owed, Litter
  <2>2. Owed \in {0, 1}
    BY DEF Owed
  <2> QED
    BY <1>1, <2>1, <2>2 DEF LitterInv
<1>12. ASSUME NEW r \in Readers, ReadStep(r) PROVE LitterInv'
  BY <1>5, <1>12 DEF ReadStep, OpenFile, ReadFile
<1> QED
  BY <1>5, <1>6, <1>7, <1>8, <1>9, <1>10, <1>11, <1>12 DEF Next, WriteStep, RemoveStep

LEMMA PlatformIsFixed == [Next]_vars => windows' = windows
  BY DEF Next, WriteStep, RemoveStep, ReadStep, CreateTemp, Fill, Rename, CleanTemp, BeginRemove,
         RemoveFile, Crash, OpenFile, ReadFile

\* Where open files can be replaced, a temporary file stays behind only after a
\* kill or two failures (WriteState and its deferred Remove).
THEOREM LitterIsRare == Spec => []LitterNeedsTwoFaults
<1>1. Init => (~windows => LitterInv)
  BY FS_EmptySet DEF Init, LitterInv, Litter, Owed
<1>2. StateInv /\ (~windows => LitterInv) /\ [Next]_vars => (~windows => LitterInv)'
  <2> SUFFICES ASSUME StateInv, ~windows => LitterInv, [Next]_vars, ~windows'
               PROVE  LitterInv'
    OBVIOUS
  <2>1. windows' = windows
    BY PlatformIsFixed
  <2> QED
    BY <2>1, LitterNext
<1>3. StateInv /\ (~windows => LitterInv) => LitterNeedsTwoFaults
  BY LitterIsFinite DEF StateInv, TypeInv, LitterInv, Owed, LitterNeedsTwoFaults
<1> QED
  BY <1>1, <1>2, <1>3, StateSafe, PTL DEF Spec

\* Every variable stays in its type; a read answers a whole state or none, and
\* RemoveState keeps its deadline, for all constants.
THEOREM StateFileTypes == Spec => []TypeOK
<1> DEFINE AnswerInv == answer \in [Readers -> States \cup {None}]
<1> DEFINE PlatformInv == windows \in BOOLEAN
<1>1. Init => AnswerInv /\ PlatformInv
  BY DEF Init
<1>2. StateInv /\ AnswerInv /\ [Next]_vars => AnswerInv'
  <2> SUFFICES ASSUME StateInv, AnswerInv, [Next]_vars PROVE AnswerInv'
    OBVIOUS
  <2>1. ASSUME NEW r \in Readers, ReadFile(r) PROVE AnswerInv'
    BY <2>1, DecodeWhole DEF ReadFile, StateInv, WholeInv
  <2>2. CASE UNCHANGED answer
    BY <2>2
  <2> QED
    BY <2>1, <2>2
       DEF Next, WriteStep, RemoveStep, ReadStep, CreateTemp, Fill, Rename, CleanTemp, BeginRemove,
           RemoveFile, Crash, OpenFile
<1>3. PlatformInv /\ [Next]_vars => PlatformInv'
  BY PlatformIsFixed
<1>4. StateInv /\ AnswerInv /\ PlatformInv => TypeOK
  BY DEF StateInv, TypeInv, TypeOK, Files
<1> QED
  BY <1>1, <1>2, <1>3, <1>4, StateSafe, PTL DEF Spec
=============================================================================
