-------------------------- MODULE MigrationProofs --------------------------
(* Proofs about Migrations: what a database looks like, for any number of    *)
(* processes, migrations, failing statements and kills.                      *)
EXTENDS Migrations, TLAPS

MigrateType ==
    /\ applied \subseteq All
    /\ pc \in [Procs -> MigratePcs]
    /\ known \in [Procs -> SUBSET All]
    /\ next \in [Procs -> Nat]

\* What a process has read stays true: versions are only added.
KnownIsApplied == \A p \in Procs : known[p] \subseteq applied

Migrating(p) == pc[p] \in {"apply", "record", "commit"}

\* A process at some version has seen, or applied, all the earlier ones.
EarlierAreApplied ==
    \A p \in Procs : Migrating(p) =>
        /\ next[p] \in All
        /\ \A w \in All : w < next[p] => w \in applied

ReadyHasAll == \A p \in Procs : pc[p] = "ready" => applied = All

MigrationInv ==
    /\ MigrateType
    /\ schema = applied
    /\ KnownIsApplied
    /\ EarlierAreApplied
    /\ AppliedInOrder
    /\ ReadyHasAll

USE VersionsAssumption DEF db, vars, All

-----------------------------------------------------------------------------
\* Where Advance takes a process from version n, given that it has seen `seen'
\* and that every version below n is in the table.
LEMMA AdvanceGoesOn ==
    ASSUME NEW p \in Procs, NEW seen \in SUBSET All, NEW n \in Nat, NEW table \in SUBSET All,
           pc \in [Procs -> MigratePcs], next \in [Procs -> Nat],
           seen \subseteq table, \A w \in All : w < n => w \in table,
           Advance(p, seen, n)
    PROVE  /\ \E place \in {"apply", "ready"} : pc' = [pc EXCEPT ![p] = place]
           /\ \E v \in Nat : next' = [next EXCEPT ![p] = v]
           /\ pc'[p] = "ready" => table = All
           /\ pc'[p] = "apply" => /\ next'[p] \in All
                                  /\ \A w \in All : w < next'[p] => w \in table
<1> DEFINE todo == Unknown(seen, n)
<1>0. IF todo = {} THEN Goto(p, "ready") /\ next' = [next EXCEPT ![p] = 0]
                  ELSE Goto(p, "apply") /\ \E v \in todo : /\ \A w \in todo : v <= w
                                                           /\ next' = [next EXCEPT ![p] = v]
  BY Zenon DEF Advance
<1>1. CASE todo = {}
  <2>1. pc' = [pc EXCEPT ![p] = "ready"] /\ next' = [next EXCEPT ![p] = 0]
    BY <1>0, <1>1 DEF Goto
  <2>2. \A w \in All : w \in table
    BY <1>1 DEF Unknown
  <2> QED BY <2>1, <2>2 DEF MigratePcs
<1>2. CASE todo # {}
  <2>1. PICK v \in todo : /\ \A w \in todo : v <= w
                          /\ next' = [next EXCEPT ![p] = v]
    BY <1>0, <1>2, Zenon
  <2>2. pc' = [pc EXCEPT ![p] = "apply"]
    BY <1>0, <1>2 DEF Goto
  <2>3. v \in All
    BY DEF Unknown
  <2>4. \A w \in All : w < v => w \in table
    BY <2>1, <2>3 DEF Unknown
  <2>5. v \in Nat /\ next' = [next EXCEPT ![p] = v]
    BY <2>1, <2>3
  <2>6. pc'[p] = "apply" /\ next'[p] = v
    BY <2>2, <2>5
  <2> QED BY <2>2, <2>3, <2>4, <2>5, <2>6
<1> QED BY <1>1, <1>2

-----------------------------------------------------------------------------
LEMMA MigrationInvInit == Init => MigrationInv
BY DEF Init, MigrationInv, MigrateType, KnownIsApplied, EarlierAreApplied, Migrating,
       AppliedInOrder, ReadyHasAll, MigratePcs

\* A process that leaves, or moves without touching the tables, disturbs nobody.
LEMMA OtherStepsKeepInv ==
    ASSUME MigrationInv, NEW p \in Procs, UNCHANGED <<applied, schema>>,
           \/ Leave(p)
           \/ /\ UNCHANGED <<known, next>>
              /\ \/ \E place \in {"ensure", "load"} : pc' = [pc EXCEPT ![p] = place]
                 \/ /\ pc[p] \in {"apply", "record"}
                    /\ \E place \in {"record", "commit"} : pc' = [pc EXCEPT ![p] = place]
    PROVE  MigrationInv'
<1> USE DEF MigrationInv
<1>1. PICK place \in {"closed", "ensure", "load", "record", "commit"} :
          /\ pc' = [pc EXCEPT ![p] = place]
          /\ place \in {"record", "commit"} => Migrating(p) /\ next' = next
  BY DEF Leave, Goto, Migrating
<1>2. /\ \A q \in Procs : q # p => /\ pc'[q] = pc[q]
                                 /\ next'[q] = next[q]
      /\ \A q \in Procs : known'[q] \subseteq known[q]
      /\ known' \in [Procs -> SUBSET All] /\ next' \in [Procs -> Nat]
  BY <1>1 DEF Leave, MigrateType
<1>3. MigrateType' /\ KnownIsApplied' /\ AppliedInOrder' /\ schema' = applied'
  BY <1>1, <1>2 DEF MigrateType, KnownIsApplied, AppliedInOrder, MigratePcs
<1>4. EarlierAreApplied'
  BY <1>1, <1>2 DEF EarlierAreApplied, Migrating, MigrateType
<1>5. ReadyHasAll'
  BY <1>1, <1>2 DEF ReadyHasAll, MigrateType
<1> QED BY <1>3, <1>4, <1>5

LEMMA LoadKeepsInv ==
    ASSUME MigrationInv, NEW p \in Procs, UNCHANGED <<applied, schema>>,
           known' = [known EXCEPT ![p] = applied], Advance(p, applied, 1)
    PROVE  MigrationInv'
<1> USE DEF MigrationInv
<1>1. \A w \in All : w < 1 => w \in applied
  OBVIOUS
<1>2. /\ \E place \in {"apply", "ready"} : pc' = [pc EXCEPT ![p] = place]
      /\ \E v \in Nat : next' = [next EXCEPT ![p] = v]
      /\ pc'[p] = "ready" => applied = All
      /\ pc'[p] = "apply" => /\ next'[p] \in All
                             /\ \A w \in All : w < next'[p] => w \in applied
  <2> DEFINE table == applied
  <2>1. /\ table \in SUBSET All /\ applied \subseteq table
        /\ \A w \in All : w < 1 => w \in table
    BY DEF MigrateType
  <2> HIDE DEF table
  <2>2. pc'[p] = "ready" => table = All
    BY <2>1, AdvanceGoesOn DEF MigrateType
  <2> QED BY <2>1, <2>2, AdvanceGoesOn DEF MigrateType, table
<1> QED
  BY <1>2 DEF MigrateType, KnownIsApplied, EarlierAreApplied, Migrating, AppliedInOrder,
              ReadyHasAll, MigratePcs

LEMMA CommitKeepsInv ==
    ASSUME MigrationInv, NEW p \in Procs, pc[p] = "commit",
           schema' = schema \cup {next[p]}, applied' = applied \cup {next[p]},
           Advance(p, known[p], next[p] + 1), UNCHANGED known
    PROVE  MigrationInv'
<1> USE DEF MigrationInv
<1>1. /\ next[p] \in All
      /\ \A w \in All : w < next[p] => w \in applied
  BY DEF EarlierAreApplied, Migrating
<1>2. /\ applied' \subseteq All /\ applied \subseteq applied'
      /\ \A w \in All : w < next[p] + 1 => w \in applied'
  <2>1. applied' \subseteq All /\ applied \subseteq applied'
    BY <1>1 DEF MigrateType
  <2>2. ASSUME NEW w \in All, w < next[p] + 1 PROVE w \in applied'
    <3>1. w < next[p] \/ w = next[p]
      BY <1>1, <2>2
    <3> QED BY <1>1, <3>1
  <2> QED BY <2>1, <2>2
<1>3. /\ \E place \in {"apply", "ready"} : pc' = [pc EXCEPT ![p] = place]
      /\ \E v \in Nat : next' = [next EXCEPT ![p] = v]
      /\ pc'[p] = "ready" => applied' = All
      /\ pc'[p] = "apply" => /\ next'[p] \in All
                             /\ \A w \in All : w < next'[p] => w \in applied'
  <2> DEFINE n == next[p] + 1  seen == known[p]  table == applied \cup {next[p]}
  <2>1. /\ n \in Nat /\ seen \in SUBSET All /\ table \in SUBSET All
        /\ seen \subseteq table /\ \A w \in All : w < n => w \in table
        /\ table = applied'
    BY <1>1, <1>2 DEF MigrateType, KnownIsApplied
  <2>2. Advance(p, seen, n) /\ pc \in [Procs -> MigratePcs] /\ next \in [Procs -> Nat]
    BY DEF MigrateType
  <2> HIDE DEF n, seen, table
  <2>3. /\ \E place \in {"apply", "ready"} : pc' = [pc EXCEPT ![p] = place]
        /\ \E v \in Nat : next' = [next EXCEPT ![p] = v]
        /\ pc'[p] = "ready" => table = All
        /\ pc'[p] = "apply" => /\ next'[p] \in All
                               /\ \A w \in All : w < next'[p] => w \in table
    BY <2>1, <2>2, AdvanceGoesOn
  <2> QED BY <2>1, <2>3
<1>4. AppliedInOrder'
  BY <1>1 DEF AppliedInOrder, MigrateType
<1>5. MigrateType' /\ KnownIsApplied' /\ schema' = applied'
  BY <1>2, <1>3 DEF MigrateType, KnownIsApplied, MigratePcs
<1>6. EarlierAreApplied'
  BY <1>2, <1>3 DEF EarlierAreApplied, Migrating, MigrateType
<1>7. ReadyHasAll'
  BY <1>2, <1>3 DEF ReadyHasAll, MigrateType
<1> QED BY <1>4, <1>5, <1>6, <1>7

LEMMA MigrationInvNext == MigrationInv /\ [Next]_vars => MigrationInv'
<1> SUFFICES ASSUME MigrationInv, [Next]_vars PROVE MigrationInv'
  OBVIOUS
<1>1. CASE UNCHANGED vars
  BY <1>1 DEF MigrationInv, MigrateType, KnownIsApplied, EarlierAreApplied, Migrating,
              AppliedInOrder, ReadyHasAll
<1>2. ASSUME NEW p \in Procs, Open(p) \/ EnsureTable(p) \/ Close(p) \/ Kill(p)
      PROVE  MigrationInv'
  BY <1>2, OtherStepsKeepInv DEF Open, EnsureTable, Close, Kill, Goto
<1>3. ASSUME NEW p \in Procs, LoadApplied(p) PROVE MigrationInv'
  BY <1>3, OtherStepsKeepInv, LoadKeepsInv DEF LoadApplied
<1>4. ASSUME NEW p \in Procs, ApplyMigration(p) \/ RecordMigration(p) PROVE MigrationInv'
  BY <1>4, OtherStepsKeepInv DEF ApplyMigration, RecordMigration, Goto
<1>5. ASSUME NEW p \in Procs, CommitMigration(p) PROVE MigrationInv'
  BY <1>5, OtherStepsKeepInv, CommitKeepsInv DEF CommitMigration
<1> QED BY <1>1, <1>2, <1>3, <1>4, <1>5 DEF Next, MigrateStep

THEOREM MigrationInvHolds == Spec => []MigrationInv
BY MigrationInvInit, MigrationInvNext, PTL DEF Spec

(* Whatever other processes migrate, fail or die meanwhile, a process that gets *)
(* past Migrate works on a database with every migration in effect.             *)
THEOREM ReadyIsMigrated == Spec => []ReadyMeansMigrated
<1>1. MigrationInv => ReadyMeansMigrated
  BY DEF MigrationInv, ReadyHasAll, ReadyMeansMigrated
<1> QED BY <1>1, MigrationInvHolds, PTL

(* The versions in schema_migrations are always an initial segment.          *)
THEOREM VersionsAreInOrder == Spec => []AppliedInOrder
<1>1. MigrationInv => AppliedInOrder
  BY DEF MigrationInv
<1> QED BY <1>1, MigrationInvHolds, PTL

(* A version whose statements cannot be repeated is in effect only when it is  *)
(* recorded: applyMigration leaves no database that every later one fails on.  *)
THEOREM DatabaseIsNeverWedged == Spec => []NeverWedged
<1>1. MigrationInv => NeverWedged
  BY DEF MigrationInv, NeverWedged
<1> QED BY <1>1, MigrationInvHolds, PTL

-----------------------------------------------------------------------------
LEMMA AdvanceStaysInRange ==
    ASSUME NEW p \in Procs, NEW seen, NEW n, TypeOK, Advance(p, seen, n)
    PROVE  pc' \in [Procs -> MigratePcs] /\ next' \in [Procs -> 0..Versions]
<1> DEFINE todo == Unknown(seen, n)
<1>1. \/ Goto(p, "ready") /\ next' = [next EXCEPT ![p] = 0]
      \/ Goto(p, "apply") /\ \E v \in todo : next' = [next EXCEPT ![p] = v]
  BY Zenon DEF Advance
<1>2. todo \subseteq 0..Versions
  BY DEF Unknown
<1> HIDE DEF todo
<1> QED BY <1>1, <1>2 DEF TypeOK, Goto, MigratePcs

LEMMA TypeNext == MigrationInv /\ TypeOK /\ [Next]_vars => TypeOK'
<1> SUFFICES ASSUME MigrationInv, TypeOK, [Next]_vars PROVE TypeOK'
  OBVIOUS
<1>1. schema' = applied' => (applied' \subseteq All => schema' \subseteq All)
  OBVIOUS
<1>2. applied' \subseteq All /\ schema' \subseteq All
  BY <1>1, MigrationInvNext DEF MigrationInv, MigrateType
<1>3. CASE UNCHANGED vars
  BY <1>3 DEF TypeOK
<1>4. ASSUME NEW p \in Procs, MigrateStep(p) \/ Open(p) \/ Close(p) \/ Kill(p) PROVE TypeOK'
  <2>1. faults' \in Nat /\ opens' \in [Procs -> Nat] /\ hasTable' \in BOOLEAN
    <3>1. faults' \in Nat
      BY <1>4 DEF MigrateStep, EnsureTable, LoadApplied, ApplyMigration, RecordMigration,
                  CommitMigration, Open, Close, Kill, TypeOK, Works, Fails
    <3>2. opens' = opens \/ opens' = [opens EXCEPT ![p] = @ + 1]
      BY <1>4 DEF MigrateStep, EnsureTable, LoadApplied, ApplyMigration, RecordMigration,
                  CommitMigration, Open, Close, Kill
    <3>3. hasTable' \in BOOLEAN
      <4>1. CASE EnsureTable(p)
        <5>1. hasTable' = TRUE \/ hasTable' = hasTable
          BY <4>1, Zenon DEF EnsureTable
        <5> QED BY <5>1 DEF TypeOK
      <4>2. CASE UNCHANGED hasTable
        BY <4>2 DEF TypeOK
      <4> QED
        BY <1>4, <4>1, <4>2, Zenon DEF MigrateStep, LoadApplied, ApplyMigration, RecordMigration,
                                       CommitMigration, Open, Close, Kill
    <3> QED BY <3>1, <3>2, <3>3 DEF TypeOK
  <2>2. writer' \in Procs \cup {NoProc}
    BY <1>4 DEF MigrateStep, EnsureTable, LoadApplied, ApplyMigration, RecordMigration,
                CommitMigration, Open, Close, Kill, TypeOK
  <2>3. known' \in [Procs -> SUBSET All]
    BY <1>4 DEF MigrateStep, EnsureTable, LoadApplied, ApplyMigration, RecordMigration,
                CommitMigration, Open, Close, Kill, Leave, TypeOK
  <2>4. pc' \in [Procs -> MigratePcs] /\ next' \in [Procs -> 0..Versions]
    <3>1. CASE LoadApplied(p) \/ CommitMigration(p)
      BY <3>1, AdvanceStaysInRange DEF LoadApplied, CommitMigration, Leave, Goto, TypeOK, MigratePcs
    <3>2. CASE EnsureTable(p) \/ ApplyMigration(p) \/ RecordMigration(p)
      BY <3>2 DEF EnsureTable, ApplyMigration, RecordMigration, Leave, Goto, TypeOK, MigratePcs
    <3>3. CASE Open(p) \/ Close(p) \/ Kill(p)
      BY <3>3 DEF Open, Close, Kill, Leave, Goto, TypeOK, MigratePcs
    <3> QED BY <1>4, <3>1, <3>2, <3>3 DEF MigrateStep
  <2> QED BY <1>2, <2>1, <2>2, <2>3, <2>4 DEF TypeOK
<1> QED BY <1>3, <1>4 DEF Next

(* Every variable stays in its type, and no Migrate goes past the last version. *)
THEOREM MigrationTypes == Spec => []TypeOK
<1>1. Init => TypeOK
  <2> SUFFICES ASSUME Init PROVE TypeOK
    OBVIOUS
  <2>1. hasTable \in BOOLEAN /\ writer \in Procs \cup {NoProc}
    BY DEF Init
  <2>2. /\ pc \in [Procs -> MigratePcs] /\ known \in [Procs -> SUBSET All]
        /\ next \in [Procs -> 0..Versions] /\ opens \in [Procs -> Nat] /\ faults \in Nat
    BY DEF Init, MigratePcs
  <2> QED BY <2>1, <2>2 DEF Init, TypeOK
<1> QED BY <1>1, TypeNext, MigrationInvHolds, PTL DEF Spec

=============================================================================
