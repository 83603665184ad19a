--------------------------- MODULE SchemaMigration ---------------------------
(***************************************************************************)
(* pkg/store/store.go, New and migrate: how a process opens the SQLite     *)
(* file.  The server and the export commands of cmd/server are processes   *)
(* of their own that may open one file at the same time; a statement is a  *)
(* transaction, the migration is not, and a process may die or be refused  *)
(* (disk full, file locked) between any two statements.                    *)
(***************************************************************************)
EXTENDS Integers, Sequences

CONSTANTS
  Procs,          \* processes that open the file
  LegacyFile,     \* the file may come from a version without schema_migrations
  AlterMayFail,   \* ALTER TABLE may fail for another reason than "duplicate column"
  MaxFaults       \* bound on the crashes and refused statements of one behaviour

ASSUME SchemaAssumption ==
  /\ LegacyFile \in BOOLEAN
  /\ AlterMayFail \in BOOLEAN
  /\ MaxFaults \in Nat

TableOrder == <<"users", "channels", "tokens", "bans">>
ColumnOrder == <<"parent_id", "is_temp", "allow_sub_channels">>
Elements(q) == {q[i] : i \in DOMAIN q}
Tables == Elements(TableOrder)
Columns == Elements(ColumnOrder)

\* migrations in migrate: what each adds, one statement after the other
migrations ==
  <<[adds |-> TableOrder, ignoreErrors |-> FALSE],
    [adds |-> ColumnOrder, ignoreErrors |-> TRUE]>>
Latest == 2

VARIABLES
  \* the file
  migTable,       \* table schema_migrations exists
  versions,       \* its rows, in the order of insertion
  tables,         \* the other tables
  columns,        \* the columns of table channels that came with version 2
  \* the processes
  pc,             \* process -> the statement it executes next
  ver,            \* process -> currentVersion
  mig, stmt,      \* process -> migration and statement it is at
  faults          \* crashes and refused statements left, bounded by MaxFaults

fileVars == <<migTable, versions, tables, columns>>
procVars == <<pc, ver, mig, stmt>>
schemaVars == <<migTable, versions, tables, columns, pc, ver, mig, stmt, faults>>

MigrateSteps == {"mig_table", "mig_count", "mig_insert", "mig_version", "mig_exec",
                 "mig_set"}

SchemaInit ==
  /\ migTable = FALSE
  /\ versions = <<>>
  /\ columns = {}
  /\ tables \in {{}} \cup {t \in {Tables} : LegacyFile}
  /\ pc = [p \in Procs |-> "off"]
  /\ ver = [p \in Procs |-> 0]
  /\ mig = [p \in Procs |-> 1]
  /\ stmt = [p \in Procs |-> 1]
  /\ faults = MaxFaults

Goto(p, label) == pc' = [pc EXCEPT ![p] = label]

At(p, label) == pc[p] = label /\ UNCHANGED faults

\* The process is gone: what it had in memory with it
Gone(p) ==
  /\ Goto(p, "off")
  /\ ver' = [ver EXCEPT ![p] = 0]
  /\ mig' = [mig EXCEPT ![p] = 1]
  /\ stmt' = [stmt EXCEPT ![p] = 1]

Fault == faults > 0 /\ faults' = faults - 1

-----------------------------------------------------------------------------
(* store.New *)

\* sql.Open and the pragmas, which say nothing of the tables
Open(p) ==
  /\ At(p, "off")
  /\ Goto(p, "mig_table")
  /\ UNCHANGED <<fileVars, ver, mig, stmt>>

\* A statement is refused: New closes the file and the process exits
Refused(p) ==
  /\ pc[p] \in MigrateSteps
  /\ pc[p] = "mig_exec" => ~migrations[mig[p]].ignoreErrors
  /\ Fault
  /\ Gone(p)
  /\ UNCHANGED fileVars

\* A CREATE TABLE without IF NOT EXISTS: New fails on a table that is there.
CreateMigTableOnce(p) ==
  /\ At(p, "mig_table")
  /\ migTable' = TRUE
  /\ IF migTable THEN Gone(p) ELSE Goto(p, "mig_count") /\ UNCHANGED <<ver, mig, stmt>>
  /\ UNCHANGED <<versions, tables, columns>>

\* ensureSchemaMigrations
CreateMigTable(p) ==
  /\ At(p, "mig_table")
  /\ migTable' = TRUE
  /\ Goto(p, "mig_count")
  /\ UNCHANGED <<versions, tables, columns, ver, mig, stmt>>

CountVersions(p) ==
  /\ At(p, "mig_count")
  /\ Goto(p, IF versions = <<>> THEN "mig_insert" ELSE "mig_version")
  /\ UNCHANGED <<fileVars, ver, mig, stmt>>

InsertVersion(p) ==
  /\ At(p, "mig_insert")
  /\ versions' = Append(versions, 0)
  /\ Goto(p, "mig_version")
  /\ UNCHANGED <<migTable, tables, columns, ver, mig, stmt>>

\* The last migration is skipped.
BeginOneShort(p, v) ==
  /\ mig' = [mig EXCEPT ![p] = v + 1]
  /\ stmt' = [stmt EXCEPT ![p] = 1]
  /\ Goto(p, IF v + 1 < Latest THEN "mig_exec" ELSE "opened")

\* The next migration whose version is above currentVersion, or none
Begin(p, v) ==
  /\ mig' = [mig EXCEPT ![p] = v + 1]
  /\ stmt' = [stmt EXCEPT ![p] = 1]
  /\ Goto(p, IF v < Latest THEN "mig_exec" ELSE "opened")

\* getSchemaVersion: the first row, whatever else there is
getSchemaVersion(p) ==
  /\ At(p, "mig_version")
  /\ ver' = [ver EXCEPT ![p] = versions[1]]
  /\ Begin(p, versions[1])
  /\ UNCHANGED fileVars

Adding(p) == migrations[mig[p]].adds[stmt[p]]

\* CREATE TABLE IF NOT EXISTS; a new table channels has all columns.
\* ALTER TABLE fails on a column that is there, which is ignored.
Execute(p) ==
  /\ IF Adding(p) \in Tables
       THEN /\ tables' = tables \cup {Adding(p)}
            /\ columns' = IF Adding(p) = "channels" /\ "channels" \notin tables
                            THEN Columns ELSE columns
       ELSE columns' = columns \cup {Adding(p)} /\ UNCHANGED tables
  /\ UNCHANGED faults

\* Any other error of an ALTER TABLE is ignored as well
IgnoredError(p) ==
  /\ AlterMayFail
  /\ migrations[mig[p]].ignoreErrors
  /\ Fault
  /\ UNCHANGED <<tables, columns>>

execMigration(p) ==
  /\ pc[p] = "mig_exec"
  /\ Execute(p) \/ IgnoredError(p)
  /\ stmt' = [stmt EXCEPT ![p] = @ + 1]
  /\ Goto(p, IF stmt[p] = Len(migrations[mig[p]].adds) THEN "mig_set" ELSE "mig_exec")
  /\ UNCHANGED <<migTable, versions, ver, mig>>

\* The version after the one that was reached is stored.
setNextVersion(p) ==
  /\ At(p, "mig_set")
  /\ versions' = [i \in DOMAIN versions |-> mig[p] + 1]
  /\ Begin(p, mig[p])
  /\ UNCHANGED <<migTable, tables, columns, ver>>

\* UPDATE schema_migrations SET version = ?: every row
setSchemaVersion(p) ==
  /\ At(p, "mig_set")
  /\ versions' = [i \in DOMAIN versions |-> mig[p]]
  /\ Begin(p, mig[p])
  /\ UNCHANGED <<migTable, tables, columns, ver>>

Migrate(p) ==
  \/ CreateMigTable(p) \/ CountVersions(p) \/ InsertVersion(p)
  \/ getSchemaVersion(p) \/ execMigration(p) \/ setSchemaVersion(p)

\* The process is killed, at any point
Crash(p) ==
  /\ pc[p] # "off"
  /\ Fault
  /\ Gone(p)
  /\ UNCHANGED fileVars

\* An export command has opened the file, read it, and ends
Exit(p) ==
  /\ At(p, "opened")
  /\ Gone(p)
  /\ UNCHANGED fileVars

SchemaStep(p) == Open(p) \/ Migrate(p) \/ Refused(p) \/ Crash(p) \/ Exit(p)
SchemaNext == \E p \in Procs : SchemaStep(p)
SchemaSpec == SchemaInit /\ [][SchemaNext]_schemaVars

-----------------------------------------------------------------------------
(* Properties *)

SchemaTypeOK ==
  /\ migTable \in BOOLEAN
  /\ versions \in Seq(0 .. Latest)
  /\ tables \subseteq Tables
  /\ columns \subseteq Columns
  /\ ver \in [Procs -> 0 .. Latest]
  /\ mig \in [Procs -> 1 .. Latest + 1]
  /\ stmt \in [Procs -> 1 .. Len(TableOrder) + 1]
  /\ faults \in Nat

(***************************************************************************)
(* The version of a file is earned: no crash, refused statement or second  *)
(* process migrating the same file lets schema_migrations tell of tables   *)
(* or columns that are not there, which no later start would add.          *)
(***************************************************************************)
VersionEarned ==
  \A i \in DOMAIN versions :
    /\ versions[i] >= 1 => tables = Tables
    /\ versions[i] >= 2 => columns = Columns

(***************************************************************************)
(* A process that got through store.New finds the whole schema.            *)
(***************************************************************************)
OpenedComplete ==
  \A p \in Procs :
    pc[p] \notin MigrateSteps \cup {"off"} => tables = Tables /\ columns = Columns
=============================================================================
