----------------------------- MODULE Migrations -----------------------------
(***************************************************************************)
(* Opening a Database (quantize/persistence/database.py, migrations.py):   *)
(* every open reads the version once and applies the missing migrations,   *)
(* each in a transaction of its own, while other opens do the same.        *)
(*                                                                         *)
(* The file holds tables and, in schema_migrations, the versions applied.  *)
(* SQLite is modelled as in module Persistence: queries see the committed  *)
(* file, one connection is the writer, a transaction is all or nothing.    *)
(***************************************************************************)
EXTENDS Integers, Sequences, FiniteSets, FiniteSetsExt, Functions

CONSTANTS Openers,
          FirstVersions,  \* the versions a file may be at
          MaxOpens,       \* bound: the opens in all
          Nobody

ASSUME MigrationsAssumption ==
    /\ FirstVersions \subseteq Nat /\ MaxOpens \in Nat /\ Nobody \notin Openers

\* DATABASE_MIGRATIONS: the tables each version creates, schema_migrations first.
DATABASE_MIGRATIONS ==
    <<<<"schema_migrations", "strategies", "components", "runs", "trace_events">>,
      <<"datasets">>>>

CURRENT_DATABASE_VERSION == Len(DATABASE_MIGRATIONS)

Supported == 1 .. CURRENT_DATABASE_VERSION

TablesOf(m) == Range(DATABASE_MIGRATIONS[m])

VARIABLES
    tables, applied,  \* the committed file: its tables, the rows of schema_migrations
    writer,           \* the opener that holds the write lock, or Nobody
    pc,
    version,          \* opener -> what _current_version answered
    next,             \* opener -> the migration its loop has come to
    created,          \* opener -> the tables its open transaction created
    outcome,          \* opener -> how its last open ended
    opens

file == <<tables, applied>>
own  == <<pc, version, next, created, outcome>>
vars == <<file, writer, own, opens>>

\* A file some release left at a version; a later release may have tables of
\* its own, of which this one knows nothing.
Init ==
    /\ \E v \in FirstVersions :
          /\ applied = 1 .. v
          /\ tables = UNION {TablesOf(m) : m \in (1 .. v) \cap Supported}
    /\ writer = Nobody
    /\ pc = [o \in Openers |-> "closed"]
    /\ version = [o \in Openers |-> 0]
    /\ next = [o \in Openers |-> 1]
    /\ created = [o \in Openers |-> 0]
    /\ outcome = [o \in Openers |-> "none"]
    /\ opens = 0

-----------------------------------------------------------------------------
Ended(o, result) ==
    /\ pc' = [pc EXCEPT ![o] = "closed"]
    /\ outcome' = [outcome EXCEPT ![o] = result]

\* A Database is constructed anew for every request.
Open(o) ==
    /\ pc[o] \in {"closed", "ready"} /\ opens < MaxOpens
    /\ pc' = [pc EXCEPT ![o] = "journal"]
    /\ outcome' = [outcome EXCEPT ![o] = "opening"]
    /\ opens' = opens + 1
    /\ UNCHANGED <<file, writer, version, next, created>>

\* PRAGMA journal_mode = WAL, which another connection's write can keep busy.
SetJournal(o) ==
    /\ pc[o] = "journal"
    /\ \/ pc' = [pc EXCEPT ![o] = "version"] /\ UNCHANGED outcome
       \/ writer # Nobody /\ Ended(o, "database_locked")
    /\ UNCHANGED <<file, writer, version, next, created, opens>>

\* _current_version, and the refusal of a file ahead of the code.
ReadVersion(o) ==
    LET found == IF "schema_migrations" \notin tables THEN 0 ELSE Max(applied)
    IN  /\ pc[o] = "version"
        /\ version' = [version EXCEPT ![o] = found]
        /\ next' = [next EXCEPT ![o] = 1]
        /\ IF found > CURRENT_DATABASE_VERSION
           THEN Ended(o, "unsupported_database_version")
           ELSE pc' = [pc EXCEPT ![o] = "loop"] /\ UNCHANGED outcome
        /\ UNCHANGED <<file, writer, created, opens>>

\* The loop over DATABASE_MIGRATIONS: applied versions are skipped.
Skip(o) ==
    /\ pc[o] = "loop"
    /\ next[o] <= version[o]
    /\ next' = [next EXCEPT ![o] = @ + 1]
    /\ UNCHANGED <<file, writer, pc, version, created, outcome, opens>>

Begin(o) ==
    /\ pc[o] = "loop"
    /\ next[o] \in Supported /\ next[o] > version[o] /\ writer = Nobody
    /\ writer' = o
    /\ pc' = [pc EXCEPT ![o] = "migrating"]
    /\ UNCHANGED <<file, version, next, created, outcome, opens>>

BeginTimesOut(o) ==
    /\ pc[o] = "loop"
    /\ next[o] \in Supported /\ next[o] > version[o] /\ writer \notin {o, Nobody}
    /\ Ended(o, "database_locked")
    /\ UNCHANGED <<file, writer, version, next, created, opens>>

\* Mutant: the loop stops one migration short.
ReadyEarly(o) ==
    /\ pc[o] = "loop"
    /\ next[o] >= CURRENT_DATABASE_VERSION /\ next[o] > version[o]
    /\ pc' = [pc EXCEPT ![o] = "ready"]
    /\ outcome' = [outcome EXCEPT ![o] = "opened"]
    /\ UNCHANGED <<file, writer, version, next, created, opens>>

Ready(o) ==
    /\ pc[o] = "loop"
    /\ next[o] \notin Supported
    /\ pc' = [pc EXCEPT ![o] = "ready"]
    /\ outcome' = [outcome EXCEPT ![o] = "opened"]
    /\ UNCHANGED <<file, writer, version, next, created, opens>>

-----------------------------------------------------------------------------
\* Mutant: DDL commits what it creates at once.
CreateTableAtOnce(o) ==
    LET names == DATABASE_MIGRATIONS[next[o]]
    IN  /\ pc[o] = "migrating" /\ created[o] < Len(names)
        /\ names[created[o] + 1] \notin tables
        /\ created' = [created EXCEPT ![o] = @ + 1]
        /\ tables' = tables \cup {names[created[o] + 1]}
        /\ UNCHANGED <<applied, writer, pc, version, next, outcome, opens>>

\* CREATE TABLE, one statement at a time.
CreateTable(o) ==
    LET names == DATABASE_MIGRATIONS[next[o]]
    IN  /\ pc[o] = "migrating" /\ created[o] < Len(names)
        /\ names[created[o] + 1] \notin tables
        /\ created' = [created EXCEPT ![o] = @ + 1]
        /\ UNCHANGED <<file, writer, pc, version, next, outcome, opens>>

\* Mutant: the failed transaction is left open.
LeaveForgotten(o) == created' = [created EXCEPT ![o] = 0] /\ UNCHANGED writer

Leave(o) == created' = [created EXCEPT ![o] = 0] /\ writer' = Nobody

\* The table is there already, which is no lock error and no constraint: the
\* transaction rolls back and the sqlite3 exception leaves the constructor.
TableExists(o) ==
    LET names == DATABASE_MIGRATIONS[next[o]]
    IN  /\ pc[o] = "migrating" /\ created[o] < Len(names)
        /\ names[created[o] + 1] \in tables
        /\ Leave(o)
        /\ Ended(o, "OperationalError")
        /\ UNCHANGED <<file, version, next, opens>>

\* A statement or the COMMIT finds the file locked.
Aborted(o) ==
    /\ pc[o] = "migrating"
    /\ Leave(o)
    /\ Ended(o, "database_locked")
    /\ UNCHANGED <<file, version, next, opens>>

\* The bookkeeping INSERT and the COMMIT.
Commit(o) ==
    /\ pc[o] = "migrating"
    /\ created[o] = Len(DATABASE_MIGRATIONS[next[o]])
    /\ tables' = tables \cup TablesOf(next[o])
    /\ applied' = applied \cup {next[o]}
    /\ Leave(o)
    /\ next' = [next EXCEPT ![o] = @ + 1]
    /\ pc' = [pc EXCEPT ![o] = "loop"]
    /\ UNCHANGED <<version, outcome, opens>>

\* The process dies during the open.
Crash(o) ==
    /\ pc[o] \notin {"closed", "ready"}
    /\ created' = [created EXCEPT ![o] = 0]
    /\ writer' = IF writer = o THEN Nobody ELSE writer
    /\ Ended(o, "crashed")
    /\ UNCHANGED <<file, version, next, opens>>

-----------------------------------------------------------------------------
Step(o) ==
    \/ SetJournal(o) \/ ReadVersion(o) \/ Skip(o) \/ Begin(o) \/ BeginTimesOut(o)
    \/ CreateTable(o) \/ TableExists(o) \/ Commit(o) \/ Ready(o)

Next == \E o \in Openers : Open(o) \/ Step(o) \/ Aborted(o) \/ Crash(o)

\* A thread that has started to open the database goes on with it.
Spec == Init /\ [][Next]_vars /\ \A o \in Openers : WF_vars(Step(o))

-----------------------------------------------------------------------------
\* A crash leaves the previous version: the file has the tables of the versions
\* it records, all of them and no others, and no version without those before.
FileIsAtAVersion ==
    /\ applied = 1 .. Cardinality(applied)
    /\ tables = UNION {TablesOf(m) : m \in applied \cap Supported}

\* A handle that opened works on a file of the code's own version, also when
\* another open migrated it, or the file's version changed after it was read.
OpenedIsCurrent ==
    \A o \in Openers : outcome[o] = "opened" => Max(applied) = CURRENT_DATABASE_VERSION

\* Every open ends: no failed migration keeps the lock and shuts out the rest.
OpensEnd == \A o \in Openers : outcome[o] = "opening" ~> outcome[o] # "opening"

\* errors.py:3-5, "Every failure surfaces as a PersistenceError with a stable
\* machine-readable code - never a bare sqlite3/json exception".
FailuresAreStructured == \A o \in Openers : outcome[o] # "OperationalError"
=============================================================================
