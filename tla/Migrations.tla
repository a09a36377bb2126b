----------------------------- MODULE Migrations -----------------------------
(***************************************************************************)
(* Every jobsd process, daemon or CLI, migrates the database it opens      *)
(* (internal/sqlite/migrate.go, internal/app/instance_db.go).  Nothing but *)
(* SQLite's transactions keeps them apart: a process decides what is       *)
(* missing in one of them and adds it in others.                           *)
(***************************************************************************)
EXTENDS Naturals

CONSTANTS
    Procs,
    Versions,       \* the number of embedded migrations, numbered from 1
    Repeatable,     \* those whose statements all say IF NOT EXISTS
    NoProc,
    MaxOpens,       \* bound: times each process opens the database
    MaxFaults       \* bound: statements that fail and processes that are killed

ASSUME VersionsAssumption == Versions \in Nat \ {0} /\ Repeatable \subseteq 1..Versions
ASSUME NoProcAssumption == NoProc \notin Procs
ASSUME MigrationBoundsAssumption == MaxOpens \in Nat /\ MaxFaults \in Nat

VARIABLES
    hasTable,       \* whether schema_migrations exists
    applied,        \* the versions in it
    schema,         \* the migrations whose statements are in effect
    writer,         \* whose transaction has SQLite's write lock
    pc,             \* where each process stands
    known,          \* appliedVersions of Migrate
    next,           \* the migration Migrate is at, or 0
    opens, faults

db   == <<hasTable, applied, schema, writer>>
vars == <<db, pc, known, next, opens, faults>>

All == 1..Versions
MigratePcs == {"closed", "ensure", "load", "apply", "record", "commit", "ready"}

Works == UNCHANGED faults
Fails == faults < MaxFaults /\ faults' = faults + 1

Goto(p, place) == pc' = [pc EXCEPT ![p] = place]

\* Mutant: the loop of Migrate begins one too late.
UnknownAbove(seen, n) == {v \in All : v > n /\ v \notin seen}

\* What Migrate has still to apply, from version n on.
Unknown(seen, n) == {v \in All : v >= n /\ v \notin seen}

Advance(p, seen, n) ==
    LET todo == Unknown(seen, n) IN
    IF todo = {}
    THEN Goto(p, "ready") /\ next' = [next EXCEPT ![p] = 0]
    ELSE Goto(p, "apply") /\ \E v \in todo : /\ \A w \in todo : v <= w
                                             /\ next' = [next EXCEPT ![p] = v]

\* Migrate returns an error and the process closes the database.
Leave(p) ==
    /\ Goto(p, "closed")
    /\ known' = [known EXCEPT ![p] = {}]
    /\ next' = [next EXCEPT ![p] = 0]

-----------------------------------------------------------------------------
Open(p) ==
    /\ pc[p] = "closed" /\ opens[p] < MaxOpens
    /\ opens' = [opens EXCEPT ![p] = @ + 1]
    /\ Goto(p, "ensure")
    /\ UNCHANGED <<db, known, next, faults>>

\* CREATE TABLE IF NOT EXISTS.  Like every statement that writes, it waits for
\* the write lock, at most for the five seconds of busy_timeout.
EnsureTable(p) ==
    /\ pc[p] = "ensure"
    /\ \/ /\ Works /\ writer = NoProc
          /\ hasTable' = TRUE /\ Goto(p, "load")
          /\ UNCHANGED <<known, next>>
       \/ Fails /\ UNCHANGED hasTable /\ Leave(p)
    /\ UNCHANGED <<applied, schema, writer, opens>>

\* SELECT version: what is committed at this moment.
LoadApplied(p) ==
    /\ pc[p] = "load"
    /\ \/ Works /\ known' = [known EXCEPT ![p] = applied] /\ Advance(p, applied, 1)
       \/ Fails /\ Leave(p)
    /\ UNCHANGED <<db, opens>>

\* Mutant: the statements are not part of the transaction.
ApplyAtOnce(p) ==
    /\ pc[p] = "apply" /\ writer = NoProc /\ next[p] \notin schema \ Repeatable
    /\ writer' = p
    /\ schema' = schema \cup {next[p]}
    /\ Goto(p, "record")
    /\ Works
    /\ UNCHANGED <<hasTable, applied, known, next, opens>>

\* BEGIN takes no lock.  The first statement waits for the write lock and then
\* sees what is committed: ALTER TABLE ADD COLUMN fails if someone was faster.
ApplyMigration(p) ==
    /\ pc[p] = "apply"
    /\ \/ /\ Works /\ writer = NoProc /\ next[p] \notin schema \ Repeatable
          /\ writer' = p
          /\ Goto(p, "record")
          /\ UNCHANGED <<known, next>>
       \/ /\ Fails \/ (Works /\ writer = NoProc /\ next[p] \in schema \ Repeatable)
          /\ UNCHANGED writer
          /\ Leave(p)
    /\ UNCHANGED <<hasTable, applied, schema, opens>>

\* Mutant: no rollback when the version is there already.
RecordKeepingLock(p) ==
    /\ pc[p] = "record" /\ Works
    /\ IF next[p] \in applied THEN Leave(p)
                              ELSE Goto(p, "commit") /\ UNCHANGED <<known, next>>
    /\ UNCHANGED <<hasTable, applied, schema, writer, opens>>

\* INSERT INTO schema_migrations, whose primary key is the version; on an error
\* the transaction is rolled back.
RecordMigration(p) ==
    /\ pc[p] = "record"
    /\ \/ /\ Works /\ next[p] \notin applied
          /\ Goto(p, "commit")
          /\ UNCHANGED <<writer, known, next>>
       \/ /\ Fails \/ (Works /\ next[p] \in applied)
          /\ writer' = NoProc
          /\ Leave(p)
    /\ UNCHANGED <<hasTable, applied, schema, opens>>

CommitMigration(p) ==
    /\ pc[p] = "commit"
    /\ \/ /\ Works
          /\ schema' = schema \cup {next[p]}
          /\ applied' = applied \cup {next[p]}
          /\ Advance(p, known[p], next[p] + 1)
          /\ UNCHANGED known
       \/ Fails /\ UNCHANGED <<schema, applied>> /\ Leave(p)
    /\ writer' = NoProc
    /\ UNCHANGED <<hasTable, opens>>

\* The command is over, and the database closed.
Close(p) ==
    /\ pc[p] = "ready"
    /\ Leave(p)
    /\ UNCHANGED <<db, opens, faults>>

\* A killed process: SQLite rolls its transaction back.
Kill(p) ==
    /\ pc[p] # "closed" /\ Fails
    /\ writer' = IF writer = p THEN NoProc ELSE writer
    /\ Leave(p)
    /\ UNCHANGED <<hasTable, applied, schema, opens>>

-----------------------------------------------------------------------------
Init ==
    /\ hasTable = FALSE /\ applied = {} /\ schema = {} /\ writer = NoProc
    /\ pc = [p \in Procs |-> "closed"]
    /\ known = [p \in Procs |-> {}]
    /\ next = [p \in Procs |-> 0]
    /\ opens = [p \in Procs |-> 0] /\ faults = 0

MigrateStep(p) ==
    EnsureTable(p) \/ LoadApplied(p) \/ ApplyMigration(p) \/ RecordMigration(p)
    \/ CommitMigration(p)

Next == \E p \in Procs : MigrateStep(p) \/ Open(p) \/ Close(p) \/ Kill(p)

Spec == Init /\ [][Next]_vars

\* Statements return, and a lock that stays free is taken.
FairSpec == Spec /\ \A p \in Procs : WF_vars(MigrateStep(p))

-----------------------------------------------------------------------------
(* Properties.                                                             *)

\* Every variable stays in its type; nobody migrates past the last version.
TypeOK ==
    /\ hasTable \in BOOLEAN
    /\ applied \subseteq All /\ schema \subseteq All
    /\ writer \in Procs \cup {NoProc}
    /\ pc \in [Procs -> MigratePcs]
    /\ known \in [Procs -> SUBSET All]
    /\ next \in [Procs -> 0..Versions]
    /\ opens \in [Procs -> Nat] /\ faults \in Nat

\* No process that fails, is refused or is killed in the middle of a migration
\* leaves a database that every later Migrate fails on (applyMigration).
NeverWedged == \A v \in All \ applied : v \notin schema \ Repeatable

\* A process that goes on after Migrate has every migration in its database,
\* also when it had read the versions before another one applied some.
ReadyMeansMigrated == \A p \in Procs : pc[p] = "ready" => schema = All

\* No version is applied while an earlier one is missing.
AppliedInOrder == \A v \in applied, w \in All : w < v => w \in applied

\* Every Migrate comes to an end: none waits for a lock that nobody gives back.
MigrateEnds == \A p \in Procs : pc[p] = "ensure" ~> pc[p] \in {"ready", "closed"}

=============================================================================
