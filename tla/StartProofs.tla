----------------------------- MODULE StartProofs -----------------------------
(***************************************************************************)
(* Theorems about ServerStart for any number of processes, importers and   *)
(* faults and any channels file: what a database says of its version is    *)
(* true, a running server has the whole schema, makes one administrator    *)
(* token and keeps its certificate, imports put every channel of the file  *)
(* in its place, once, and what is exported is a file that imports as the  *)
(* same tree.                                                              *)
(***************************************************************************)
EXTENDS ServerStart, WellFoundedInduction, TLAPS

Points == {"off", "running"} \cup MigrateSteps \cup StartSteps

Complete == tables = Tables /\ columns = Columns

\* The first n statements of migration v have been executed
Executed(v, n) ==
  /\ v = 1 => \A i \in 1 .. n : TableOrder[i] \in tables
  /\ v = 2 => tables = Tables /\ \A i \in 1 .. n : ColumnOrder[i] \in columns

Earned(v) == (v >= 1 => tables = Tables) /\ (v >= 2 => columns = Columns)

FileOK ==
  /\ versions \in Seq(0 .. Latest)
  /\ tables \subseteq Tables /\ columns \subseteq Columns
  /\ \A i \in DOMAIN versions : Earned(versions[i])

\* What a process may rely on at the statement it executes next.  getSchemaVersion
\* finds a row; a migration is begun when the one before it is complete.
PlaceOK(p) ==
  /\ pc[p] = "mig_version" => versions # <<>>
  /\ pc[p] = "mig_exec" => /\ mig[p] \in 1 .. 2
                           /\ stmt[p] \in 1 .. Len(migrations[mig[p]].adds)
                           /\ Executed(mig[p], stmt[p] - 1)
  /\ pc[p] = "mig_set" => mig[p] \in 1 .. 2 /\ Earned(mig[p])
  /\ pc[p] \notin MigrateSteps \cup {"off"} => Complete

PlacesTypeOK ==
  /\ pc \in [Procs -> Points]
  /\ mig \in [Procs -> Nat]
  /\ stmt \in [Procs -> Nat]

SchemaInv == FileOK /\ PlacesTypeOK /\ \A p \in Procs : PlaceOK(p)

-----------------------------------------------------------------------------
(* The migrations *)

LEMMA MigrationsAre ==
  /\ Len(migrations[1].adds) = 4 /\ Len(migrations[2].adds) = 3
  /\ \A i \in 1 .. 4 : migrations[1].adds[i] = TableOrder[i]
  /\ \A i \in 1 .. 3 : migrations[2].adds[i] = ColumnOrder[i]
  /\ ~migrations[1].ignoreErrors /\ migrations[2].ignoreErrors
BY DEF migrations, TableOrder, ColumnOrder

LEMMA NamesAre ==
  /\ Tables = {TableOrder[i] : i \in 1 .. 4}
  /\ Columns = {ColumnOrder[i] : i \in 1 .. 3}
  /\ "channels" \in Tables
  /\ \A i \in 1 .. 4 : TableOrder[i] \in Tables
  /\ \A i \in 1 .. 3 : ColumnOrder[i] \in Columns /\ ColumnOrder[i] \notin Tables
BY DEF Tables, Columns, Elements, TableOrder, ColumnOrder

\* A migration whose statements have all been executed has been earned
LEMMA ExecutedEarns ==
  ASSUME tables \subseteq Tables, columns \subseteq Columns,
         NEW v \in 1 .. 2, Executed(v, Len(migrations[v].adds))
  PROVE  Earned(v)
PROOF
  <1>1. CASE v = 1
    BY <1>1, MigrationsAre, NamesAre DEF Executed, Earned
  <1>2. CASE v = 2
    BY <1>2, MigrationsAre, NamesAre DEF Executed, Earned
  <1> QED BY <1>1, <1>2

-----------------------------------------------------------------------------
(* Steps *)

\* What the file holds is never taken back
FileGrows ==
  /\ FileOK'
  /\ tables \subseteq tables' /\ columns \subseteq columns'
  /\ versions # <<>> => versions' # <<>>

LEMMA FileKept ==
  ASSUME FileOK, UNCHANGED fileVars
  PROVE  FileGrows
BY DEF FileOK, FileGrows, Earned, fileVars

\* What a process relies on stays true while the others write
LEMMA OthersStand ==
  ASSUME FileGrows, NEW p, PlaceOK(p),
         pc'[p] = pc[p], mig'[p] = mig[p], stmt'[p] = stmt[p]
  PROVE  PlaceOK(p)'
PROOF
  <1>1. tables' \subseteq Tables /\ columns' \subseteq Columns
    BY DEF FileGrows, FileOK
  <1>2. Complete => Complete'
    BY <1>1 DEF Complete, FileGrows
  <1>3. ASSUME NEW v, NEW n, Executed(v, n) PROVE Executed(v, n)'
    BY <1>1, <1>3 DEF Executed, FileGrows
  <1>4. ASSUME NEW v, Earned(v) PROVE Earned(v)'
    BY <1>1, <1>4 DEF Earned, FileGrows
  <1>5. versions # <<>> => versions' # <<>>
    BY DEF FileGrows
  <1>6. PICK v, n : v = mig[p] /\ n = stmt[p]
    OBVIOUS
  <1>7. Executed(v, n - 1) => Executed(v, n - 1)'
    BY <1>3
  <1>8. Earned(v) => Earned(v)'
    BY <1>4
  <1> QED BY <1>2, <1>5, <1>6, <1>7, <1>8 DEF PlaceOK

\* A step after which one process is somewhere else
LEMMA OneMoves ==
  ASSUME SchemaInv, FileGrows, NEW p \in Procs, NEW l \in Points,
         pc' = [pc EXCEPT ![p] = l],
         NEW m \in Nat, NEW n \in Nat,
         mig' = [mig EXCEPT ![p] = m], stmt' = [stmt EXCEPT ![p] = n],
         PlaceOK(p)'
  PROVE  SchemaInv'
PROOF
  <1>1. PlacesTypeOK'
    BY DEF SchemaInv, PlacesTypeOK
  <1>2. ASSUME NEW q \in Procs PROVE PlaceOK(q)'
    <2>1. CASE q = p
      BY <2>1
    <2>2. CASE q # p
      <3>1. pc'[q] = pc[q] /\ mig'[q] = mig[q] /\ stmt'[q] = stmt[q]
        BY <2>2 DEF SchemaInv, PlacesTypeOK
      <3> QED BY <3>1, OthersStand DEF SchemaInv
    <2> QED BY <2>1, <2>2
  <1> QED BY <1>1, <1>2 DEF SchemaInv, FileGrows

LEMMA GoneKeeps ==
  ASSUME SchemaInv, UNCHANGED fileVars, NEW p \in Procs, Gone(p)
  PROVE  SchemaInv'
PROOF
  <1>1. pc' = [pc EXCEPT ![p] = "off"] /\ mig' = [mig EXCEPT ![p] = 1]
        /\ stmt' = [stmt EXCEPT ![p] = 1] /\ "off" \in Points
    BY DEF Gone, Goto, Points
  <1>2. pc'[p] = "off"
    BY <1>1 DEF SchemaInv, PlacesTypeOK
  <1>3. PlaceOK(p)'
    BY <1>2 DEF PlaceOK
  <1>4. FileGrows
    BY FileKept DEF SchemaInv
  <1> QED BY <1>1, <1>3, <1>4, OneMoves

LEMMA StoodStill ==
  ASSUME SchemaInv, UNCHANGED <<fileVars, pc, mig, stmt>>
  PROVE  SchemaInv'
BY DEF SchemaInv, FileOK, PlacesTypeOK, PlaceOK, Executed, Earned, Complete, fileVars

\* The first migration above version v: what came before it is complete
LEMMA BeginKeeps ==
  ASSUME SchemaInv, FileGrows, NEW p \in Procs, NEW v \in 0 .. 2,
         Earned(v)', Begin(p, v)
  PROVE  SchemaInv'
PROOF
  <1> DEFINE l == IF v < Latest THEN "mig_exec" ELSE "opened"
  <1>1. pc' = [pc EXCEPT ![p] = l] /\ mig' = [mig EXCEPT ![p] = v + 1]
        /\ stmt' = [stmt EXCEPT ![p] = 1]
    BY DEF Begin, Goto
  <1>2. l \in Points /\ v + 1 \in Nat
    BY DEF Points, MigrateSteps, StartSteps
  <1>3. pc'[p] = l /\ mig'[p] = v + 1 /\ stmt'[p] = 1
    BY <1>1 DEF SchemaInv, PlacesTypeOK
  <1>5. PlaceOK(p)'
    <2>1. CASE v < Latest
      <3>1. v + 1 \in 1 .. 2 /\ pc'[p] = "mig_exec"
        BY <1>3, <2>1 DEF Latest
      <3>2. Executed(v + 1, 0)'
        BY <3>1 DEF Executed, Earned
      <3>3. 1 \in 1 .. Len(migrations[v + 1].adds)
        BY <3>1, MigrationsAre
      <3> QED BY <1>3, <3>1, <3>2, <3>3 DEF PlaceOK, MigrateSteps
    <2>2. CASE ~(v < Latest)
      <3>1. v = 2 /\ pc'[p] = "opened"
        BY <1>3, <2>2 DEF Latest
      <3> QED BY <3>1 DEF PlaceOK, Complete, Earned
    <2> QED BY <2>1, <2>2
  <1> HIDE DEF l
  <1> QED BY <1>1, <1>2, <1>5, OneMoves

LEMMA CreateMigTableKeeps ==
  ASSUME SchemaInv, NEW p \in Procs, CreateMigTable(p)
  PROVE  SchemaInv'
PROOF
  <1>1. FileGrows
    BY DEF SchemaInv, FileOK, FileGrows, Earned, CreateMigTable
  <1>2. pc' = [pc EXCEPT ![p] = "mig_count"] /\ "mig_count" \in Points
    BY DEF CreateMigTable, Goto, Points, MigrateSteps
  <1>3. mig' = [mig EXCEPT ![p] = mig[p]] /\ stmt' = [stmt EXCEPT ![p] = stmt[p]]
        /\ mig[p] \in Nat /\ stmt[p] \in Nat
    BY DEF CreateMigTable, SchemaInv, PlacesTypeOK
  <1>4. PlaceOK(p)'
    BY <1>2 DEF PlaceOK, SchemaInv, PlacesTypeOK, MigrateSteps
  <1> QED BY <1>1, <1>2, <1>3, <1>4, OneMoves

LEMMA CountVersionsKeeps ==
  ASSUME SchemaInv, NEW p \in Procs, CountVersions(p)
  PROVE  SchemaInv'
PROOF
  <1> DEFINE l == IF versions = <<>> THEN "mig_insert" ELSE "mig_version"
  <1>1. FileGrows /\ versions' = versions
    BY FileKept DEF SchemaInv, CountVersions, fileVars
  <1>2. pc' = [pc EXCEPT ![p] = l] /\ l \in Points
    BY DEF CountVersions, Goto, Points, MigrateSteps
  <1>3. mig' = [mig EXCEPT ![p] = mig[p]] /\ stmt' = [stmt EXCEPT ![p] = stmt[p]]
        /\ mig[p] \in Nat /\ stmt[p] \in Nat
    BY DEF CountVersions, SchemaInv, PlacesTypeOK
  <1>4. PlaceOK(p)'
    BY <1>1, <1>2 DEF PlaceOK, SchemaInv, PlacesTypeOK, MigrateSteps
  <1> HIDE DEF l
  <1> QED BY <1>1, <1>2, <1>3, <1>4, OneMoves

LEMMA InsertVersionKeeps ==
  ASSUME SchemaInv, NEW p \in Procs, InsertVersion(p)
  PROVE  SchemaInv'
PROOF
  <1>1. versions' = Append(versions, 0) /\ versions \in Seq(0 .. 2)
        /\ tables' = tables /\ columns' = columns
    BY DEF InsertVersion, SchemaInv, FileOK, Latest
  <1>2. versions' \in Seq(0 .. 2) /\ versions' # <<>>
    BY <1>1
  <1>3. \A i \in DOMAIN versions' : versions'[i] = 0 \/ (i \in DOMAIN versions /\ versions'[i] = versions[i])
    BY <1>1
  <1>4. FileOK'
    BY <1>1, <1>2, <1>3 DEF SchemaInv, FileOK, Earned, Latest
  <1>5. FileGrows
    BY <1>1, <1>2, <1>4 DEF FileGrows
  <1>6. pc' = [pc EXCEPT ![p] = "mig_version"] /\ "mig_version" \in Points
    BY DEF InsertVersion, Goto, Points, MigrateSteps
  <1>7. mig' = [mig EXCEPT ![p] = mig[p]] /\ stmt' = [stmt EXCEPT ![p] = stmt[p]]
        /\ mig[p] \in Nat /\ stmt[p] \in Nat
    BY DEF InsertVersion, SchemaInv, PlacesTypeOK
  <1>8. PlaceOK(p)'
    BY <1>2, <1>6 DEF PlaceOK, SchemaInv, PlacesTypeOK, MigrateSteps
  <1> QED BY <1>5, <1>6, <1>7, <1>8, OneMoves

LEMMA getSchemaVersionKeeps ==
  ASSUME SchemaInv, NEW p \in Procs, getSchemaVersion(p)
  PROVE  SchemaInv'
PROOF
  <1>1. versions # <<>> /\ versions \in Seq(0 .. 2)
    BY DEF getSchemaVersion, At, SchemaInv, PlaceOK, FileOK, Latest
  <1>2. 1 \in DOMAIN versions /\ versions[1] \in 0 .. 2
    BY <1>1
  <1>3. FileGrows
    BY FileKept DEF SchemaInv, getSchemaVersion
  <1>4. Earned(versions[1])'
    BY <1>2 DEF SchemaInv, FileOK, Earned, getSchemaVersion, fileVars
  <1>5. Earned(versions[1])
    BY <1>2 DEF SchemaInv, FileOK
  <1>6. versions' = versions /\ tables' = tables /\ columns' = columns
    BY DEF getSchemaVersion, fileVars
  <1>7. PICK v \in 0 .. 2 : v = versions[1] /\ Begin(p, v)
    BY <1>2 DEF getSchemaVersion
  <1>8. Earned(v)'
    BY <1>5, <1>6, <1>7 DEF Earned
  <1> QED BY <1>3, <1>7, <1>8, BeginKeeps

LEMMA setSchemaVersionKeeps ==
  ASSUME SchemaInv, NEW p \in Procs, setSchemaVersion(p)
  PROVE  SchemaInv'
PROOF
  <1>1. mig[p] \in 1 .. 2 /\ Earned(mig[p])
    BY DEF setSchemaVersion, At, SchemaInv, PlaceOK
  <1>2. tables' = tables /\ columns' = columns
        /\ versions' = [i \in DOMAIN versions |-> mig[p]]
    BY DEF setSchemaVersion
  <1>3. versions \in Seq(0 .. 2)
    BY DEF SchemaInv, FileOK, Latest
  <1>4. versions' \in Seq(0 .. 2) /\ (versions # <<>> => versions' # <<>>)
    <2>1. DOMAIN versions = 1 .. Len(versions) /\ Len(versions) \in Nat
      BY <1>3
    <2>2. versions' \in [1 .. Len(versions) -> 0 .. 2]
      BY <1>1, <1>2, <2>1
    <2>3. versions' \in Seq(0 .. 2) /\ Len(versions') = Len(versions)
      BY <2>1, <2>2
    <2>4. versions # <<>> => Len(versions) # 0
      BY <1>3
    <2> QED BY <2>3, <2>4
  <1>5. FileOK' /\ FileGrows
    BY <1>1, <1>2, <1>4 DEF SchemaInv, FileOK, FileGrows, Earned, Latest
  <1>6. PICK v \in 0 .. 2 : v = mig[p] /\ Begin(p, v)
    BY <1>1 DEF setSchemaVersion
  <1>7. Earned(v)'
    BY <1>1, <1>2, <1>6 DEF Earned
  <1> QED BY <1>5, <1>6, <1>7, BeginKeeps

\* With no ALTER TABLE failing but on a column that is there
LEMMA execMigrationKeeps ==
  ASSUME SchemaInv, NEW p \in Procs, execMigration(p), ~AlterMayFail
  PROVE  SchemaInv'
PROOF
  <1>0. PICK v, n : v = mig[p] /\ n = stmt[p]
    OBVIOUS
  <1> DEFINE last == Len(migrations[v].adds)
             l == IF n = last THEN "mig_set" ELSE "mig_exec"
  <1>1. v \in 1 .. 2 /\ n \in 1 .. last /\ Executed(v, n - 1) /\ Execute(p)
    BY <1>0 DEF execMigration, SchemaInv, PlaceOK, IgnoredError
  <1>2. last \in 3 .. 4 /\ n \in Nat
    BY <1>1, MigrationsAre
  <1>3. tables \subseteq tables' /\ columns \subseteq columns'
        /\ tables' \subseteq Tables /\ columns' \subseteq Columns
        /\ Executed(v, n)'
    <2>1. tables \subseteq Tables /\ columns \subseteq Columns
      BY DEF SchemaInv, FileOK
    <2>2. CASE v = 1
      <3>1. n \in 1 .. 4 /\ Adding(p) = TableOrder[n]
        BY <1>0, <1>1, <2>2, MigrationsAre DEF Adding
      <3>2. Adding(p) \in Tables
        BY <3>1, NamesAre
      <3>3. tables' = tables \cup {TableOrder[n]} /\ columns' \in {columns, Columns}
        BY <1>1, <3>1, <3>2 DEF Execute
      <3>4. \A i \in 1 .. n : i \in 1 .. n - 1 \/ i = n
        BY <3>1
      <3> QED BY <1>1, <2>1, <2>2, <3>1, <3>2, <3>3, <3>4 DEF Executed
    <2>3. CASE v = 2
      <3>1. n \in 1 .. 3 /\ Adding(p) = ColumnOrder[n]
        BY <1>0, <1>1, <2>3, MigrationsAre DEF Adding
      <3>2. Adding(p) \in Columns /\ Adding(p) \notin Tables
        BY <3>1, NamesAre
      <3>3. columns' = columns \cup {ColumnOrder[n]} /\ tables' = tables
        BY <1>1, <3>1, <3>2 DEF Execute
      <3>4. \A i \in 1 .. n : i \in 1 .. n - 1 \/ i = n
        BY <3>1
      <3> QED BY <1>1, <2>1, <2>3, <3>1, <3>2, <3>3, <3>4 DEF Executed
    <2> QED BY <1>1, <2>2, <2>3
  <1>4. versions' = versions
    BY DEF execMigration
  <1>5. FileGrows
    BY <1>3, <1>4 DEF SchemaInv, FileOK, FileGrows, Earned
  <1>6. pc' = [pc EXCEPT ![p] = l] /\ l \in Points
        /\ stmt' = [stmt EXCEPT ![p] = n + 1] /\ mig' = [mig EXCEPT ![p] = v]
    BY <1>0 DEF execMigration, Goto, Points, MigrateSteps, SchemaInv, PlacesTypeOK
  <1>7. pc'[p] = l /\ mig'[p] = v /\ stmt'[p] = n + 1
    BY <1>6 DEF SchemaInv, PlacesTypeOK
  <1>8. PlaceOK(p)'
    <2>1. CASE n = last
      <3>1. pc'[p] = "mig_set" /\ Executed(v, last)'
        BY <1>3, <1>7, <2>1
      <3>2. Earned(v)'
        BY <1>1, <1>3, <3>1, ExecutedEarns, MigrationsAre, NamesAre DEF Executed, Earned
      <3> QED BY <1>1, <1>7, <3>1, <3>2 DEF PlaceOK, MigrateSteps
    <2>2. CASE n # last
      <3>1. pc'[p] = "mig_exec" /\ n + 1 \in 1 .. last
        BY <1>1, <1>2, <1>7, <2>2
      <3>2. (n + 1) - 1 = n
        BY <1>2
      <3> QED BY <1>1, <1>3, <1>7, <3>1, <3>2 DEF PlaceOK, MigrateSteps
    <2> QED BY <2>1, <2>2
  <1>9. v \in Nat /\ n + 1 \in Nat
    BY <1>1, <1>2
  <1> HIDE DEF last, l
  <1> QED BY <1>5, <1>6, <1>8, <1>9, OneMoves

LEMMA OpenKeeps ==
  ASSUME SchemaInv, NEW p \in Procs, Open(p)
  PROVE  SchemaInv'
PROOF
  <1>1. FileGrows
    BY FileKept DEF SchemaInv, Open
  <1>2. pc' = [pc EXCEPT ![p] = "mig_table"] /\ "mig_table" \in Points
    BY DEF Open, Goto, Points, MigrateSteps
  <1>3. mig' = [mig EXCEPT ![p] = mig[p]] /\ stmt' = [stmt EXCEPT ![p] = stmt[p]]
        /\ mig[p] \in Nat /\ stmt[p] \in Nat
    BY DEF Open, SchemaInv, PlacesTypeOK
  <1>4. PlaceOK(p)'
    BY <1>2 DEF PlaceOK, SchemaInv, PlacesTypeOK, MigrateSteps
  <1> QED BY <1>1, <1>2, <1>3, <1>4, OneMoves

LEMMA MigrateKeeps ==
  ASSUME SchemaInv, NEW p \in Procs, Migrate(p), ~AlterMayFail
  PROVE  SchemaInv'
BY CreateMigTableKeeps, CountVersionsKeeps, InsertVersionKeeps, getSchemaVersionKeeps,
   execMigrationKeeps, setSchemaVersionKeeps DEF Migrate

-----------------------------------------------------------------------------
(* The server's own steps *)

Up == {"listen_control", "listen_voice", "running"}
Making == {"crt_create", "crt_write", "key_create", "key_write", "tls_reload"}
Beyond == StartSteps \cup {"running"}

LEMMA PointsAre ==
  /\ Beyond \subseteq Points /\ Beyond \cap (MigrateSteps \cup {"off"}) = {}
  /\ Points = {"off"} \cup MigrateSteps \cup Beyond
  /\ Up \subseteq Beyond /\ Making \subseteq Beyond
BY DEF Points, Beyond, StartSteps, MigrateSteps, Up, Making

\* From store.New on the server leaves the schema alone
Walks(l, m) == pc[Server] = l /\ Goto(Server, m) /\ UNCHANGED <<fileVars, InMemory>>

LEMMA WalksKeeps ==
  ASSUME SchemaInv, NEW l \in Beyond, NEW m \in Beyond, Walks(l, m)
  PROVE  SchemaInv'
PROOF
  <1>1. Server \in Procs
    BY StartAssumption
  <1>2. FileGrows
    BY FileKept DEF SchemaInv, Walks
  <1>3. pc' = [pc EXCEPT ![Server] = m] /\ m \in Points
    BY PointsAre DEF Walks, Goto
  <1>4. mig' = [mig EXCEPT ![Server] = mig[Server]] /\ mig[Server] \in Nat
        /\ stmt' = [stmt EXCEPT ![Server] = stmt[Server]] /\ stmt[Server] \in Nat
    BY <1>1 DEF Walks, InMemory, SchemaInv, PlacesTypeOK
  <1>5. pc'[Server] = m
    BY <1>1, <1>3 DEF SchemaInv, PlacesTypeOK
  <1>6. Complete
    BY <1>1, PointsAre DEF Walks, SchemaInv, PlaceOK
  <1>7. PlaceOK(Server)'
    BY <1>5, <1>6, PointsAre DEF PlaceOK, Complete, Walks, fileVars, MigrateSteps, Beyond, StartSteps
  <1> QED BY <1>1, <1>2, <1>3, <1>4, <1>7, OneMoves

\* Every step of Run behind store.New walks on, or waits for an import
LEMMA RunWalks ==
  ASSUME Run, ~NewStore, ~ImportStep(Server)
  PROVE  \E l \in Beyond, m \in Beyond : Walks(l, m)
BY DEF Run, ListChannels, CreateLobby, LoadChannels, BadChannelsFile, ChannelsLoaded,
       HasTokens, StoreAdminToken, LogAdminToken, LoadPair, CreateCert, WriteCert,
       CreateKey, WriteKey, ReloadPair, StartControl, StartVoice, RunStep, At, Walks,
       Beyond, StartSteps

LEMMA NextKeepsSchema ==
  ASSUME SchemaInv, [Next]_vars, ~AlterMayFail
  PROVE  SchemaInv'
PROOF
  <1>1. Server \in Procs
    BY StartAssumption
  <1>2. CASE NewStore
    BY <1>1, <1>2, OpenKeeps, MigrateKeeps DEF NewStore
  <1>3. CASE Run /\ ~NewStore /\ ~ImportStep(Server)
    BY <1>3, RunWalks, WalksKeeps
  <1>4. CASE Serve \/ \E a \in Importers : ImportStep(a) \/ ImportError(a)
    BY <1>4, StoodStill DEF Serve, ImportStep, ImportError, schemaVars, fileVars, procVars
  <1>5. CASE ServerFails \/ Shutdown
    BY <1>1, <1>5, GoneKeeps DEF ServerFails, Shutdown, Ended
  <1>6. CASE \E p \in Procs : ExportCommand(p)
    BY <1>6, OpenKeeps, MigrateKeeps, GoneKeeps DEF ExportCommand, Exit
  <1>7. CASE UNCHANGED vars
    BY <1>7, StoodStill DEF vars, fileVars
  <1> QED BY <1>2, <1>3, <1>4, <1>5, <1>6, <1>7, StartAssumption DEF Next, Run, Admins

LEMMA SchemaStarts == Init => SchemaInv
PROOF
  <1> SUFFICES ASSUME Init PROVE SchemaInv
    OBVIOUS
  <1>1. versions = <<>> /\ tables \in {{}, Tables} /\ columns = {}
    BY DEF Init, SchemaInit
  <1>2. pc = [p \in Procs |-> "off"] /\ mig = [p \in Procs |-> 1] /\ stmt = [p \in Procs |-> 1]
    BY DEF Init, SchemaInit
  <1>3. FileOK
    BY <1>1 DEF FileOK, Latest
  <1>4. PlacesTypeOK
    BY <1>2 DEF PlacesTypeOK, Points
  <1> QED BY <1>2, <1>3, <1>4 DEF SchemaInv, PlaceOK

LEMMA SchemaInvariant ==
  ASSUME ~AlterMayFail
  PROVE  Spec => []SchemaInv
PROOF
  <1>1. SchemaInv /\ [Next]_vars => SchemaInv'
    BY NextKeepsSchema
  <1> QED BY <1>1, SchemaStarts, PTL DEF Spec

(***************************************************************************)
(* As long as no ALTER TABLE fails but on a column that is there, the      *)
(* version in the database is true whichever processes migrate it at once  *)
(* and wherever they die.                                                  *)
(***************************************************************************)
THEOREM VersionsEarned ==
  ASSUME ~AlterMayFail
  PROVE  Spec => []VersionEarned
PROOF
  <1>1. SchemaInv => VersionEarned
    BY DEF SchemaInv, FileOK, Earned, VersionEarned
  <1> QED BY <1>1, SchemaInvariant, PTL

(***************************************************************************)
(* Under the same assumption no server runs, and no export reads, with     *)
(* half a schema.                                                          *)
(***************************************************************************)
THEOREM OpenedWhole ==
  ASSUME ~AlterMayFail
  PROVE  Spec => []OpenedComplete
PROOF
  <1>1. SchemaInv => OpenedComplete
    BY DEF SchemaInv, PlaceOK, Complete, OpenedComplete
  <1> QED BY <1>1, SchemaInvariant, PTL

-----------------------------------------------------------------------------
(* The administrator token and the certificate *)

PcOK == pc \in [Procs -> Points]

TokenOK == adminTokens \in 0 .. 1 /\ (pc[Server] = "store_token" => adminTokens = 0)

\* Where the server is in writing a pair it has made, and that it has not made
\* one while it serves another
PairOK ==
  /\ pair \in Nat /\ cert \in 0 .. pair /\ key \in 0 .. pair /\ serving \in Nat
  /\ serving # 0 => cert = serving /\ key = serving /\ pc[Server] \in Up
  /\ pc[Server] \in Making => pair > 0
  /\ pc[Server] = "crt_create" => ~Loadable /\ key < pair
  /\ pc[Server] = "crt_write" => cert = 0 /\ key < pair
  /\ pc[Server] = "key_create" => cert = pair /\ key < pair
  /\ pc[Server] = "key_write" => cert = pair /\ key = 0
  /\ pc[Server] = "tls_reload" => cert = pair /\ key = pair

FirstInv == PcOK /\ TokenOK /\ PairOK

LEMMA GotoIs ==
  ASSUME PcOK, NEW p \in Procs, NEW l \in Points, Goto(p, l)
  PROVE  PcOK' /\ pc'[p] = l /\ \A q \in Procs : q # p => pc'[q] = pc[q]
BY DEF PcOK, Goto

LEMMA OpenGoes ==
  ASSUME NEW p \in Procs, Open(p) \/ Migrate(p)
  PROVE  \E l \in MigrateSteps \cup {"opened"} : Goto(p, l)
BY DEF Open, Migrate, CreateMigTable, CountVersions, InsertVersion, getSchemaVersion,
       execMigration, setSchemaVersion, Begin, Goto, MigrateSteps

\* A step that makes no token and no pair, and does not set out to
LEMMA Aside ==
  ASSUME FirstInv, UNCHANGED <<tokenVars, cert, key, pair>>, PcOK',
         \/ pc'[Server] = pc[Server] /\ serving' = serving
         \/ /\ pc'[Server] \notin Making \cup {"store_token"}
            /\ serving' = 0 \/ (serving' = serving /\ pc'[Server] \in Up)
  PROVE  FirstInv'
PROOF
  <1>1. TokenOK'
    BY DEF FirstInv, TokenOK, tokenVars
  <1>2. PairOK'
    BY DEF FirstInv, PairOK, Loadable, Making, Up
  <1> QED BY <1>1, <1>2 DEF FirstInv

LEMMA RunKeepsFirst ==
  ASSUME FirstInv, Run
  PROVE  FirstInv'
PROOF
  <1> USE StartAssumption
  <1>0. /\ {"lobby", "channels", "importing", "has_tokens", "store_token", "log_token",
            "tls_load", "listen_control", "listen_voice", "running", "opened"} \subseteq Points
        /\ Making \subseteq Points /\ MigrateSteps \subseteq Points
    BY DEF Points, StartSteps, MigrateSteps, Making
  <1>1. CASE NewStore
    <2>1. PICK l \in MigrateSteps \cup {"opened"} : Goto(Server, l)
      BY <1>1, OpenGoes DEF NewStore
    <2>2. PcOK' /\ pc'[Server] = l
      BY <1>0, <2>1, GotoIs DEF FirstInv
    <2>3. l \notin Making \cup {"store_token"} /\ UNCHANGED <<tokenVars, tlsVars>>
      BY <1>1 DEF NewStore, Elsewhere, Making, MigrateSteps
    <2>4. serving' = serving /\ (serving # 0 => pc[Server] \in Up)
      BY <1>1 DEF NewStore, Elsewhere, tlsVars, FirstInv, PairOK
    <2>5. pc[Server] \notin Up
      BY <1>1 DEF NewStore, Open, Migrate, CreateMigTable, CountVersions, InsertVersion,
                  getSchemaVersion, execMigration, setSchemaVersion, At, Up
    <2> QED BY <2>2, <2>3, <2>4, <2>5, Aside DEF tlsVars
  <1>2. CASE \/ ListChannels \/ CreateLobby \/ LoadChannels \/ BadChannelsFile
            \/ ChannelsLoaded
    <2>1. PICK l \in {"lobby", "channels", "importing", "has_tokens"} : Goto(Server, l)
      BY <1>2 DEF ListChannels, CreateLobby, LoadChannels, BadChannelsFile, ChannelsLoaded,
                  RunStep
    <2>2. PcOK' /\ pc'[Server] = l
      BY <1>0, <2>1, GotoIs DEF FirstInv
    <2>3. pc[Server] \notin Up /\ UNCHANGED <<tokenVars, tlsVars>>
      BY <1>2 DEF ListChannels, CreateLobby, LoadChannels, BadChannelsFile, ChannelsLoaded,
                  RunStep, At, Up
    <2>4. serving' = 0
      BY <2>3 DEF tlsVars, FirstInv, PairOK
    <2> QED BY <2>2, <2>3, <2>4, Aside DEF tlsVars, Making
  <1>3. CASE ImportStep(Server)
    BY <1>3, Aside DEF ImportStep, schemaVars, tlsVars, FirstInv, PcOK
  <1>4. CASE HasTokens
    <2> DEFINE l == IF adminTokens > 0 THEN "tls_load" ELSE "store_token"
    <2>1. Goto(Server, l) /\ l \in Points /\ pc[Server] = "has_tokens"
          /\ UNCHANGED <<tokenVars, tlsVars>>
      BY <1>0, <1>4 DEF HasTokens, RunStep, At
    <2>2. PcOK' /\ pc'[Server] = l
      BY <2>1, GotoIs DEF FirstInv
    <2>3. TokenOK'
      BY <2>1, <2>2 DEF FirstInv, TokenOK, tokenVars
    <2>4. PairOK'
      BY <2>1, <2>2 DEF FirstInv, PairOK, Loadable, Making, Up, tlsVars
    <2> QED BY <2>2, <2>3, <2>4 DEF FirstInv
  <1>5. CASE StoreAdminToken
    <2>1. PcOK' /\ pc'[Server] = "log_token" /\ pc[Server] = "store_token"
      BY <1>0, <1>5, GotoIs DEF StoreAdminToken, RunStep, At, FirstInv
    <2>2. TokenOK'
      BY <1>5, <2>1 DEF StoreAdminToken, FirstInv, TokenOK
    <2>3. PairOK'
      BY <1>5, <2>1 DEF StoreAdminToken, FirstInv, PairOK, Loadable, Making, Up, tlsVars
    <2> QED BY <2>1, <2>2, <2>3 DEF FirstInv
  <1>6. CASE LogAdminToken
    <2>1. PcOK' /\ pc'[Server] = "tls_load" /\ pc[Server] = "log_token"
      BY <1>0, <1>6, GotoIs DEF LogAdminToken, RunStep, At, FirstInv
    <2>2. TokenOK'
      BY <1>6, <2>1 DEF LogAdminToken, FirstInv, TokenOK
    <2>3. PairOK'
      BY <1>6, <2>1 DEF LogAdminToken, FirstInv, PairOK, Loadable, Making, Up, tlsVars
    <2> QED BY <2>1, <2>2, <2>3 DEF FirstInv
  <1>7. CASE LoadPair
    <2> DEFINE l == IF Loadable THEN "listen_control" ELSE "crt_create"
    <2>1. Goto(Server, l) /\ l \in Points /\ pc[Server] = "tls_load"
      BY <1>0, <1>7 DEF LoadPair, RunStep, At, Making
    <2>2. PcOK' /\ pc'[Server] = l
      BY <2>1, GotoIs DEF FirstInv
    <2>3. TokenOK'
      BY <1>7, <2>2 DEF LoadPair, FirstInv, TokenOK, tokenVars
    <2>4. PairOK'
      BY <1>7, <2>1, <2>2 DEF LoadPair, FirstInv, PairOK, Loadable, Making, Up
    <2> QED BY <2>2, <2>3, <2>4 DEF FirstInv
  <1>8. CASE CreateCert \/ WriteCert \/ CreateKey \/ WriteKey \/ ReloadPair
    <2>1. PICK l \in Making \cup {"listen_control"} : Goto(Server, l)
      BY <1>8 DEF CreateCert, WriteCert, CreateKey, WriteKey, ReloadPair, RunStep, Making
    <2>2. PcOK' /\ pc'[Server] = l
      BY <1>0, <2>1, GotoIs DEF FirstInv
    <2>3. TokenOK'
      BY <1>8, <2>2 DEF CreateCert, WriteCert, CreateKey, WriteKey, ReloadPair, FirstInv,
                        TokenOK, tokenVars, Making
    <2>4. PairOK'
      <3>1. PcOK /\ PcOK' /\ PairOK
        BY <2>2 DEF FirstInv
      <3>2. CASE CreateCert
        <4>1. pc'[Server] = "crt_write"
          BY <1>0, <3>1, <3>2, GotoIs DEF CreateCert, RunStep, Making
        <4> QED BY <3>1, <3>2, <4>1 DEF CreateCert, RunStep, At, PairOK, Making, Up
      <3>3. CASE WriteCert
        <4>1. pc'[Server] = "key_create"
          BY <1>0, <3>1, <3>3, GotoIs DEF WriteCert, RunStep, Making
        <4> QED BY <3>1, <3>3, <4>1 DEF WriteCert, RunStep, At, PairOK, Making, Up
      <3>4. CASE CreateKey
        <4>1. pc'[Server] = "key_write"
          BY <1>0, <3>1, <3>4, GotoIs DEF CreateKey, RunStep, Making
        <4> QED BY <3>1, <3>4, <4>1 DEF CreateKey, RunStep, At, PairOK, Making, Up
      <3>5. CASE WriteKey
        <4>1. pc'[Server] = "tls_reload"
          BY <1>0, <3>1, <3>5, GotoIs DEF WriteKey, RunStep, Making
        <4> QED BY <3>1, <3>5, <4>1 DEF WriteKey, RunStep, At, PairOK, Making, Up
      <3>6. CASE ReloadPair
        <4>1. pc'[Server] = "listen_control"
          BY <1>0, <3>1, <3>6, GotoIs DEF ReloadPair, RunStep
        <4> QED BY <3>1, <3>6, <4>1 DEF ReloadPair, RunStep, At, PairOK, Making, Up
      <3> QED BY <1>8, <3>2, <3>3, <3>4, <3>5, <3>6
    <2> QED BY <2>2, <2>3, <2>4 DEF FirstInv
  <1>9. CASE StartControl \/ StartVoice
    <2>1. PICK l \in {"listen_voice", "running"} : Goto(Server, l)
      BY <1>9 DEF StartControl, StartVoice, RunStep
    <2>2. PcOK' /\ pc'[Server] = l
      BY <1>0, <2>1, GotoIs DEF FirstInv
    <2> QED BY <1>9, <2>2, Aside DEF StartControl, StartVoice, tlsVars, Making, Up
  <1> QED BY <1>1, <1>2, <1>3, <1>4, <1>5, <1>6, <1>7, <1>8, <1>9 DEF Run

LEMMA NextKeepsFirst ==
  ASSUME FirstInv, [Next]_vars
  PROVE  FirstInv'
PROOF
  <1> USE StartAssumption
  <1>1. CASE Run
    BY <1>1, RunKeepsFirst
  <1>2. CASE Serve \/ \E a \in Importers : ImportStep(a) \/ ImportError(a)
    <2>1. UNCHANGED <<pc, tokenVars, tlsVars>>
      BY <1>2 DEF Serve, ImportStep, ImportError, schemaVars, procVars
    <2> QED BY <2>1, Aside DEF FirstInv, PcOK, tlsVars
  <1>3. CASE ServerFails \/ Shutdown
    <2>1. Goto(Server, "off") /\ "off" \in Points /\ serving' = 0
          /\ UNCHANGED <<tokenVars, cert, key, pair>>
      BY <1>3 DEF ServerFails, Shutdown, Ended, Gone, Points
    <2>2. PcOK' /\ pc'[Server] = "off"
      BY <2>1, GotoIs DEF FirstInv
    <2> QED BY <2>1, <2>2, Aside DEF Making
  <1>4. ASSUME NEW p \in Procs, ExportCommand(p) PROVE FirstInv'
    <2>1. PICK l \in MigrateSteps \cup {"opened", "off"} : Goto(p, l)
      BY <1>4, OpenGoes DEF ExportCommand, Exit, Gone
    <2>2. l \in Points
      BY DEF Points, StartSteps
    <2>3. PcOK' /\ pc'[Server] = pc[Server]
      BY <1>4, <2>1, <2>2, GotoIs DEF FirstInv, ExportCommand
    <2> QED BY <1>4, <2>3, Aside DEF ExportCommand, Elsewhere, tlsVars
  <1>5. CASE UNCHANGED vars
    BY <1>5, Aside DEF vars, FirstInv, PcOK, tokenVars
  <1> QED BY <1>1, <1>2, <1>3, <1>4, <1>5 DEF Next, Admins

LEMMA FirstInvariant == Spec => []FirstInv
PROOF
  <1>1. Init => FirstInv
    <2> SUFFICES ASSUME Init PROVE FirstInv
      OBVIOUS
    <2>1. pc = [p \in Procs |-> "off"] /\ "off" \in Points
      BY DEF Init, SchemaInit, Points
    <2>2. pc[Server] = "off"
      BY <2>1, StartAssumption
    <2> QED BY <2>1, <2>2 DEF Init, FirstInv, PcOK, TokenOK, PairOK, Making
  <1>2. FirstInv /\ [Next]_vars => FirstInv'
    BY NextKeepsFirst
  <1> QED BY <1>1, <1>2, PTL DEF Spec

(***************************************************************************)
(* However often starts are cut short or repeated, the server makes one    *)
(* administrator token of its own accord.                                  *)
(***************************************************************************)
THEOREM OneTokenMade == Spec => []OneAdminToken
PROOF
  <1>1. FirstInv => OneAdminToken
    BY DEF FirstInv, TokenOK, OneAdminToken
  <1> QED BY <1>1, FirstInvariant, PTL

(***************************************************************************)
(* A certificate and key that fit are never replaced, and what the server  *)
(* uses is what the files hold, wherever earlier starts died in writing    *)
(* them.                                                                   *)
(***************************************************************************)
THEOREM CertificateStays == Spec => CertStays
PROOF
  <1> DEFINE Stays ==
        /\ serving # 0 => cert = serving /\ key = serving /\ cert' = cert /\ key' = key
        /\ Loadable => cert' = cert /\ key' = key
  <1>1. FirstInv /\ [Next]_vars => [Stays]_vars
    <2> SUFFICES ASSUME FirstInv, Next PROVE Stays
      BY DEF vars
    <2>1. CASE CreateCert \/ WriteCert \/ CreateKey \/ WriteKey
      BY <2>1 DEF CreateCert, WriteCert, CreateKey, WriteKey, RunStep, At, FirstInv, PairOK,
                  Loadable, Up, Making
    <2>2. CASE ~(CreateCert \/ WriteCert \/ CreateKey \/ WriteKey)
      <3>1. cert' = cert /\ key' = key
        BY <2>2 DEF Next, Run, NewStore, Elsewhere, ListChannels, CreateLobby, LoadChannels,
             BadChannelsFile, ChannelsLoaded, HasTokens, StoreAdminToken, LogAdminToken,
             LoadPair, ReloadPair, StartControl, StartVoice, ImportStep, ImportError, Serve,
             ServerFails, Shutdown, Ended, ExportCommand, tlsVars
      <3> QED BY <3>1 DEF FirstInv, PairOK
    <2> QED BY <2>1, <2>2
  <1> QED BY <1>1, FirstInvariant, PTL DEF Spec, CertStays

-----------------------------------------------------------------------------
(* The types *)

\* What the indices of the migrations' statements need
MigrateTypes ==
  /\ SchemaTypeOK
  /\ PcOK
  /\ \A p \in Procs :
       /\ pc[p] = "mig_version" => versions # <<>>
       /\ pc[p] = "mig_exec" => /\ mig[p] \in 1 .. 2
                                /\ stmt[p] \in 1 .. Len(migrations[mig[p]].adds)
       /\ pc[p] = "mig_set" => mig[p] \in 1 .. 2

\* The first migration has four statements
LEMMA FourTables == Len(TableOrder) = 4
BY DEF TableOrder

\* Steps behind store.New
LEMMA FileTypes ==
  ASSUME MigrateTypes, UNCHANGED schemaVars
  PROVE  MigrateTypes'
BY DEF MigrateTypes, SchemaTypeOK, PcOK, schemaVars

\* A process moves to a place that asks for nothing
LEMMA MovesTyped ==
  ASSUME MigrateTypes, NEW p \in Procs, NEW l \in Points, Goto(p, l),
         l \notin {"mig_version", "mig_exec", "mig_set"}, UNCHANGED fileVars, faults' \in Nat,
         \/ UNCHANGED InMemory
         \/ /\ ver' = [ver EXCEPT ![p] = 0]
            /\ mig' = [mig EXCEPT ![p] = 1]
            /\ stmt' = [stmt EXCEPT ![p] = 1]
  PROVE  MigrateTypes'
PROOF
  <1>1. PcOK' /\ pc'[p] = l /\ \A q \in Procs : q # p => pc'[q] = pc[q]
    BY GotoIs DEF MigrateTypes
  <1>2. SchemaTypeOK'
    BY DEF MigrateTypes, SchemaTypeOK, fileVars, InMemory, Latest, TableOrder
  <1>3. \A q \in Procs : q # p => mig'[q] = mig[q] /\ stmt'[q] = stmt[q]
    BY DEF MigrateTypes, SchemaTypeOK, InMemory
  <1> QED BY <1>1, <1>2, <1>3 DEF MigrateTypes, fileVars

\* The migration after version v, or none
LEMMA BeginTyped ==
  ASSUME MigrateTypes, NEW p \in Procs, NEW v \in 0 .. 2, Begin(p, v),
         versions' \in Seq(0 .. 2), versions # <<>> => versions' # <<>>,
         ver' \in [Procs -> 0 .. 2], UNCHANGED <<migTable, tables, columns, faults>>
  PROVE  MigrateTypes'
PROOF
  <1> DEFINE l == IF v < Latest THEN "mig_exec" ELSE "opened"
  <1>1. Goto(p, l) /\ l \in Points /\ (v < 2 => l = "mig_exec") /\ (v = 2 => l = "opened")
    BY DEF Begin, Points, MigrateSteps, StartSteps, Latest
  <1> HIDE DEF l
  <1>2. PcOK' /\ pc'[p] = l /\ \A q \in Procs : q # p => pc'[q] = pc[q]
    BY <1>1, GotoIs DEF MigrateTypes
  <1>3. mig' = [mig EXCEPT ![p] = v + 1] /\ stmt' = [stmt EXCEPT ![p] = 1]
    BY DEF Begin
  <1>4. /\ mig'[p] = v + 1 /\ stmt'[p] = 1
        /\ \A q \in Procs : q # p => mig'[q] = mig[q] /\ stmt'[q] = stmt[q]
    BY <1>3 DEF MigrateTypes, SchemaTypeOK
  <1>5. SchemaTypeOK'
    BY <1>3 DEF MigrateTypes, SchemaTypeOK, Latest, TableOrder
  <1>6. v < 2 => v + 1 \in 1 .. 2 /\ 1 \in 1 .. Len(migrations[v + 1].adds)
    BY MigrationsAre
  <1> QED BY <1>1, <1>2, <1>4, <1>5, <1>6 DEF MigrateTypes

\* store.New keeps the types
LEMMA MigrateTyped ==
  ASSUME MigrateTypes, NEW p \in Procs, Open(p) \/ Migrate(p)
  PROVE  MigrateTypes'
PROOF
  <1> USE DEF At
  <1>0. {"mig_table", "mig_count", "mig_insert", "mig_version", "mig_exec", "mig_set"}
          \subseteq Points
    BY DEF Points, MigrateSteps
  <1>1. CASE Open(p)
    BY <1>0, <1>1, MovesTyped DEF Open, InMemory, MigrateTypes, SchemaTypeOK
  <1>2. CASE CreateMigTable(p)
    <2>1. PcOK' /\ pc'[p] = "mig_count" /\ \A q \in Procs : q # p => pc'[q] = pc[q]
      BY <1>0, <1>2, GotoIs DEF CreateMigTable, MigrateTypes
    <2> QED BY <1>2, <2>1 DEF CreateMigTable, MigrateTypes, SchemaTypeOK
  <1>3. CASE CountVersions(p)
    <2> DEFINE l == IF versions = <<>> THEN "mig_insert" ELSE "mig_version"
    <2>1. Goto(p, l) /\ l \in Points /\ (l = "mig_version" => versions # <<>>)
          /\ l \in {"mig_insert", "mig_version"}
      BY <1>0, <1>3 DEF CountVersions
    <2> HIDE DEF l
    <2>2. PcOK' /\ pc'[p] = l /\ \A q \in Procs : q # p => pc'[q] = pc[q]
      BY <2>1, GotoIs DEF MigrateTypes
    <2> QED BY <1>3, <2>1, <2>2 DEF CountVersions, MigrateTypes, SchemaTypeOK, fileVars
  <1>4. CASE InsertVersion(p)
    <2>1. PcOK' /\ pc'[p] = "mig_version" /\ \A q \in Procs : q # p => pc'[q] = pc[q]
      BY <1>0, <1>4, GotoIs DEF InsertVersion, MigrateTypes
    <2>2. versions \in Seq(0 .. Latest) /\ 0 \in 0 .. Latest /\ versions' = Append(versions, 0)
      BY <1>4 DEF InsertVersion, MigrateTypes, SchemaTypeOK, Latest
    <2>3. versions' \in Seq(0 .. Latest) /\ versions' # <<>>
      BY <2>2
    <2> QED BY <1>4, <2>1, <2>3 DEF InsertVersion, MigrateTypes, SchemaTypeOK
  <1>5. CASE getSchemaVersion(p)
    <2>1. versions # <<>> /\ versions \in Seq(0 .. 2) /\ ver \in [Procs -> 0 .. 2]
      BY <1>5 DEF getSchemaVersion, MigrateTypes, SchemaTypeOK, Latest
    <2>2. versions[1] \in 0 .. 2
      BY <2>1
    <2>3. ver' \in [Procs -> 0 .. 2] /\ UNCHANGED <<migTable, versions, tables, columns, faults>>
      BY <1>5, <2>1, <2>2 DEF getSchemaVersion, fileVars
    <2> QED BY <1>5, <2>1, <2>2, <2>3, BeginTyped DEF getSchemaVersion
  <1>6. CASE setSchemaVersion(p)
    <2>1. mig[p] \in 1 .. 2 /\ versions \in Seq(0 .. 2) /\ ver \in [Procs -> 0 .. 2]
      BY <1>6 DEF setSchemaVersion, MigrateTypes, SchemaTypeOK, Latest
    <2>2. versions' \in Seq(0 .. 2) /\ (versions # <<>> => versions' # <<>>)
      BY <1>6, <2>1 DEF setSchemaVersion
    <2> QED BY <1>6, <2>1, <2>2, BeginTyped DEF setSchemaVersion
  <1>7. CASE execMigration(p)
    <2> DEFINE l == IF stmt[p] = Len(migrations[mig[p]].adds) THEN "mig_set" ELSE "mig_exec"
    <2>1. /\ Goto(p, l) /\ stmt' = [stmt EXCEPT ![p] = @ + 1]
          /\ UNCHANGED <<migTable, versions, ver, mig>> /\ pc[p] = "mig_exec"
      BY <1>7 DEF execMigration
    <2>2. /\ mig[p] \in 1 .. 2 /\ stmt[p] \in 1 .. Len(migrations[mig[p]].adds)
          /\ Len(migrations[mig[p]].adds) \in 3 .. 4
      BY <2>1, MigrationsAre DEF MigrateTypes
    <2>3. l \in {"mig_set", "mig_exec"} /\ l \in Points
          /\ (l = "mig_exec" => stmt[p] + 1 \in 1 .. Len(migrations[mig[p]].adds))
      BY <1>0, <2>2
    <2> HIDE DEF l
    <2>4. PcOK' /\ pc'[p] = l /\ \A q \in Procs : q # p => pc'[q] = pc[q]
      BY <2>1, <2>3, GotoIs DEF MigrateTypes
    <2>5. stmt'[p] = stmt[p] + 1 /\ \A q \in Procs : q # p => stmt'[q] = stmt[q]
      BY <2>1 DEF MigrateTypes, SchemaTypeOK
    <2>6. Adding(p) \in Tables \cup Columns
      <3>1. CASE mig[p] = 1
        BY <2>2, <3>1, MigrationsAre, NamesAre DEF Adding
      <3>2. CASE mig[p] = 2
        BY <2>2, <3>2, MigrationsAre, NamesAre DEF Adding
      <3> QED BY <2>2, <3>1, <3>2
    <2>7. tables' \subseteq Tables /\ columns' \subseteq Columns /\ faults' \in Nat
      BY <1>7, <2>6 DEF execMigration, Execute, IgnoredError, Fault, MigrateTypes, SchemaTypeOK
    <2>8. stmt' \in [Procs -> 1 .. 5]
      <3>1. stmt \in [Procs -> 1 .. 5]
        BY FourTables DEF MigrateTypes, SchemaTypeOK
      <3>2. stmt[p] \in 1 .. 4
        <4> DEFINE n == Len(migrations[mig[p]].adds)
        <4>1. n \in 3 .. 4 /\ stmt[p] \in 1 .. n
          BY <2>2
        <4> HIDE DEF n
        <4> QED BY <4>1
      <3> QED BY <2>1, <3>1, <3>2
    <2>9. stmt' \in [Procs -> 1 .. Len(TableOrder) + 1]
      BY <2>8, FourTables
    <2>10. SchemaTypeOK'
      <3>1. UNCHANGED <<migTable, versions, ver, mig>>
        BY <2>1
      <3> QED BY <3>1, <2>7, <2>9 DEF MigrateTypes, SchemaTypeOK
    <2> QED BY <2>1, <2>2, <2>3, <2>4, <2>5, <2>10 DEF MigrateTypes
  <1> QED BY <1>1, <1>2, <1>3, <1>4, <1>5, <1>6, <1>7 DEF Migrate

\* Every step keeps them
LEMMA NextTyped ==
  ASSUME MigrateTypes, [Next]_vars
  PROVE  MigrateTypes'
PROOF
  <1>1. Server \in Procs /\ {"off", "running"} \subseteq Points
    BY StartAssumption DEF Points
  <1>2. CASE NewStore
    BY <1>1, <1>2, MigrateTyped DEF NewStore
  <1>3. CASE Run /\ ~NewStore /\ ~ImportStep(Server)
    <2>1. PICK l \in Beyond, m \in Beyond : Walks(l, m)
      BY <1>3, RunWalks
    <2>2. m \in Points /\ m \notin {"mig_version", "mig_exec", "mig_set"}
      BY PointsAre DEF MigrateSteps
    <2>3. UNCHANGED faults \/ Fault
      BY <1>3 DEF Run, ListChannels, CreateLobby, LoadChannels, BadChannelsFile, ChannelsLoaded,
       HasTokens, StoreAdminToken, LogAdminToken, LoadPair, CreateCert, WriteCert,
       CreateKey, WriteKey, ReloadPair, StartControl, StartVoice, RunStep, At
    <2>4. faults' \in Nat
      BY <2>3 DEF Fault, MigrateTypes, SchemaTypeOK
    <2> QED BY <1>1, <2>1, <2>2, <2>4, MovesTyped DEF Walks
  <1>4. CASE Serve \/ (\E a \in Importers : ImportStep(a)) \/ UNCHANGED vars
    BY <1>4, FileTypes DEF Serve, ImportStep, schemaVars, vars
  <1>5. CASE \E a \in Importers : ImportError(a)
    BY <1>5 DEF ImportError, Fault, fileVars, procVars, MigrateTypes, SchemaTypeOK, PcOK
  <1>6. CASE ServerFails \/ Shutdown
    <2>1. Gone(Server) /\ UNCHANGED fileVars /\ faults' \in Nat
      BY <1>6 DEF ServerFails, Shutdown, Ended, Fault, At, MigrateTypes, SchemaTypeOK
    <2> QED BY <1>1, <2>1, MovesTyped DEF Gone
  <1>7. ASSUME NEW p \in Procs, ExportCommand(p) PROVE MigrateTypes'
    <2>1. CASE Exit(p)
      BY <1>1, <2>1, MovesTyped DEF Exit, Gone, At, MigrateTypes, SchemaTypeOK
    <2> QED BY <1>7, <2>1, MigrateTyped DEF ExportCommand
  <1> QED BY <1>2, <1>3, <1>4, <1>5, <1>6, <1>7, StartAssumption DEF Next, Run, Admins

\* They hold at the start
LEMMA InitTyped == Init => MigrateTypes
PROOF
  <1> SUFFICES ASSUME Init PROVE MigrateTypes
    OBVIOUS
  <1>1. PcOK /\ \A p \in Procs : pc[p] = "off"
    BY DEF Init, SchemaInit, PcOK, Points
  <1>2. tables \subseteq Tables /\ versions \in Seq(0 .. Latest) /\ columns \subseteq Columns
    BY DEF Init, SchemaInit, Latest
  <1>3. faults \in Nat /\ migTable \in BOOLEAN
    BY SchemaAssumption DEF Init, SchemaInit
  <1>4. ver \in [Procs -> 0 .. Latest] /\ mig \in [Procs -> 1 .. Latest + 1]
        /\ stmt \in [Procs -> 1 .. Len(TableOrder) + 1]
    BY FourTables DEF Init, SchemaInit, Latest
  <1> QED BY <1>1, <1>2, <1>3, <1>4 DEF MigrateTypes, SchemaTypeOK

-----------------------------------------------------------------------------
(* The channels file *)

\* The least-number principle, from the well-foundedness of < on Nat
LEMMA HasLeast ==
  ASSUME NEW T \in SUBSET Nat, T # {}
  PROVE  \E x \in T : \A y \in T : x =< y
PROOF
  <1> DEFINE Less == OpToRel(<, Nat)
  <1>1. \A x, y \in Nat : <<y, x>> \in Less <=> y < x
    BY DEF OpToRel
  <1>2. IsWellFoundedOn(Less, Nat)
    BY NatLessThanWellFounded
  <1> HIDE DEF Less
  <1>3. \E x \in T : \A y \in T : ~(<<y, x>> \in Less)
    BY <1>2, WFMin
  <1>4. \E x \in T : \A y \in T : ~(y < x)
    BY <1>1, <1>3
  <1> QED BY <1>4

\* The least element of a set that is not empty
LEMMA MinIs ==
  ASSUME NEW T \in SUBSET Nat, T # {}
  PROVE  Min(T) \in T /\ \A y \in T : Min(T) =< y
BY HasLeast DEF Min

\* The greatest element of a bounded set that is not empty
LEMMA MaxIs ==
  ASSUME NEW T \in SUBSET Nat, T # {}, NEW n \in Nat, \A x \in T : x =< n
  PROVE  Max(T) \in T /\ \A y \in T : y =< Max(T)
PROOF
  <1> DEFINE Below == {n - x : x \in T}
  <1>1. Below \in SUBSET Nat
    OBVIOUS
  <1>2. PICK t \in T : TRUE
    OBVIOUS
  <1>3. n - t \in Below
    BY <1>2
  <1>4. \E m \in Below : \A y \in Below : m =< y
    <2> HIDE DEF Below
    <2> QED BY <1>1, <1>3, HasLeast
  <1>5. PICK x \in T : \A y \in Below : n - x =< y
    BY <1>4
  <1>6. \A y \in T : y =< x
    <2> TAKE y \in T
    <2>1. n - y \in Below
      OBVIOUS
    <2> QED BY <2>1, <1>5
  <1>7. \E m \in T : \A y \in T : m >= y
    BY <1>6
  <1> QED BY <1>7 DEF Max

\* A channels file: every channel comes after the one it is nested in
LEMMA FileIs ==
  /\ Len(Config) \in Nat /\ Entries = 1 .. Len(Config)
  /\ \A i \in Entries : Config[i].up \in Nat /\ Config[i].up < i
PROOF
  <1> DEFINE S == [name : STRING, up : Nat, valid : BOOLEAN]
  <1>1. Config \in Seq(S) /\ \A i \in DOMAIN Config : Config[i].up < i
    BY TreeAssumption
  <1>2. \A e \in S : e.up \in Nat
    OBVIOUS
  <1> HIDE DEF S
  <1>3. Len(Config) \in Nat /\ Entries = 1 .. Len(Config) /\ \A i \in Entries : Config[i] \in S
    BY <1>1 DEF Entries
  <1> QED BY <1>1, <1>2, <1>3 DEF Entries

\* A channel of the file is below a root, which comes before it or is it
LEMMA RootIs ==
  ASSUME NEW i \in Entries
  PROVE  /\ RootOf(i) \in Entries /\ RootOf(i) =< i
         /\ \A j \in Entries :
              i < j /\ (\A k \in i + 1 .. j : Config[k].up # 0) => RootOf(j) = RootOf(i)
PROOF
  <1> DEFINE Roots(j) == {k \in 1 .. j : Config[k].up = 0}
  <1>1. ASSUME NEW j \in Entries
        PROVE  RootOf(j) = Max(Roots(j)) /\ Roots(j) \in SUBSET Nat /\ 1 \in Roots(j)
               /\ Roots(j) \subseteq 1 .. j /\ \A x \in Roots(j) : x =< j
    <2>1. 1 \in Entries /\ Config[1].up = 0
      BY FileIs
    <2> QED BY <2>1, FileIs DEF RootOf
  <1>2. ASSUME NEW j \in Entries, i < j, \A k \in i + 1 .. j : Config[k].up # 0
        PROVE  Roots(j) = Roots(i)
    BY <1>2, FileIs
  <1> HIDE DEF Roots
  <1>3. RootOf(i) \in Roots(i)
    <2>1. i \in Nat
      BY FileIs
    <2>2. RootOf(i) = Max(Roots(i)) /\ Roots(i) \in SUBSET Nat /\ Roots(i) # {}
          /\ \A x \in Roots(i) : x =< i
      BY <1>1
    <2> QED BY <2>1, <2>2, MaxIs
  <1> QED BY <1>1, <1>2, <1>3, FileIs

\* Where NextRoot goes on
LEMMA NextRootIs ==
  ASSUME NEW i \in Entries
  PROVE  LET n == Min({k \in Entries : k > i /\ Config[k].up = 0} \cup {Len(Config) + 1})
         IN /\ n \in i + 1 .. Len(Config) + 1
            /\ \A k \in Entries : i =< k /\ k < n => RootOf(k) = RootOf(i)
PROOF
  <1> DEFINE R == {k \in Entries : k > i /\ Config[k].up = 0} \cup {Len(Config) + 1}
             n == Min(R)
  <1>1. R \in SUBSET Nat /\ R # {} /\ R \subseteq i + 1 .. Len(Config) + 1
    BY FileIs
  <1>2. n \in R /\ \A y \in R : n =< y
    <2> HIDE DEF R
    <2> QED BY <1>1, MinIs
  <1>3. ASSUME NEW k \in Entries, i < k, k < n PROVE \A j \in i + 1 .. k : Config[j].up # 0
    <2> SUFFICES ASSUME NEW j \in i + 1 .. k, Config[j].up = 0 PROVE FALSE
      OBVIOUS
    <2>1. j \in R /\ j < n
      BY <1>1, <1>2, <1>3, FileIs
    <2> QED BY <1>1, <1>2, <2>1
  <1>4. n \in i + 1 .. Len(Config) + 1
    BY <1>1, <1>2
  <1>5. ASSUME NEW k \in Entries, i =< k, k < n PROVE RootOf(k) = RootOf(i)
    <2> HIDE DEF n
    <2> QED BY <1>3, <1>5, RootIs, FileIs
  <1> QED BY <1>4, <1>5

-----------------------------------------------------------------------------
(* Imports *)

\* The channel that importer a has for entry i of the file
HasPlace(a, i) ==
  /\ ids[a][i] \in 1 .. lastID
  /\ ids[a][i] \in DOMAIN rows => /\ rows[ids[a][i]].name = Config[i].name
                                  /\ rows[ids[a][i]].parent = ParentID(a, i)

\* What is behind an importer is in its place, or an error was logged for its root
PlacedInv ==
  \A a \in Importers : \A i \in Entries :
    i < at[a] => RootOf(i) \in logged[a] \/ HasPlace(a, i)

\* The rows there were are as they were, or gone
RowsKept ==
  /\ lastID' \in Nat /\ lastID =< lastID'
  /\ \A c \in DOMAIN rows' : c =< lastID => c \in DOMAIN rows /\ rows'[c] = rows[c]

\* A row is added and the others are kept
LEMMA CreatedIs ==
  ASSUME TreeTypeOK, NEW row, CreateChannel(row)
  PROVE  /\ RowsKept /\ lastID' = lastID + 1 /\ lastID + 1 \notin DOMAIN rows
         /\ DOMAIN rows' = DOMAIN rows \cup {lastID + 1}
         /\ rows'[lastID + 1] = row /\ \A c \in DOMAIN rows : rows'[c] = rows[c]
PROOF
  <1>1. lastID \in Nat /\ DOMAIN rows \subseteq 1 .. lastID
    BY DEF TreeTypeOK
  <1>2. lastID' = lastID + 1 /\ DOMAIN rows' = DOMAIN rows \cup {lastID + 1}
        /\ \A c \in DOMAIN rows \cup {lastID + 1} :
             rows'[c] = IF c = lastID + 1 THEN row ELSE rows[c]
    BY DEF CreateChannel
  <1> QED BY <1>1, <1>2 DEF RowsKept

\* A row is taken away and the others are kept
LEMMA DeletedIs ==
  ASSUME TreeTypeOK, NEW c \in DOMAIN rows, DeleteChannel(c)
  PROVE  /\ RowsKept /\ lastID' = lastID /\ DOMAIN rows' \subseteq DOMAIN rows
         /\ \A d \in DOMAIN rows' : rows'[d] = rows[d]
BY DEF TreeTypeOK, DeleteChannel, RowsKept

\* A new row that comes after its parent keeps the types
LEMMA CreatedTyped ==
  ASSUME TreeTypeOK, NEW row, CreateChannel(row), row.parent \in 0 .. lastID, row.temp \in BOOLEAN,
         at' \in [Importers -> 0 .. Len(Config) + 1], missing' \in [Importers -> BOOLEAN],
         ids' \in [Importers -> [Entries -> 0 .. lastID + 1]], UNCHANGED logged
  PROVE  TreeTypeOK'
PROOF
  <1>1. /\ lastID' = lastID + 1 /\ DOMAIN rows' = DOMAIN rows \cup {lastID + 1}
        /\ rows'[lastID + 1] = row /\ \A c \in DOMAIN rows : rows'[c] = rows[c]
    BY CreatedIs
  <1>2. lastID \in Nat /\ DOMAIN rows \subseteq 1 .. lastID
        /\ \A c \in DOMAIN rows : rows[c].parent \in 0 .. c - 1 /\ rows[c].temp \in BOOLEAN
    BY DEF TreeTypeOK
  <1>3. \A c \in DOMAIN rows' : rows'[c].parent \in 0 .. c - 1 /\ rows'[c].temp \in BOOLEAN
    BY <1>1, <1>2
  <1>4. lastID' \in Nat /\ DOMAIN rows' \subseteq 1 .. lastID'
    BY <1>1, <1>2
  <1>5. ids' \in [Importers -> [Entries -> 0 .. lastID']]
    BY <1>1
  <1> QED BY <1>3, <1>4, <1>5 DEF TreeTypeOK

\* IDs only grow
LEMMA IdsWiden ==
  ASSUME TreeTypeOK
  PROVE  ids \in [Importers -> [Entries -> 0 .. lastID + 1]]
PROOF
  <1>1. \A a \in Importers : ids[a] \in [Entries -> 0 .. lastID]
    BY DEF TreeTypeOK
  <1>2. \A a \in Importers : ids[a] \in [Entries -> 0 .. lastID + 1]
    BY <1>1 DEF TreeTypeOK
  <1> QED BY <1>2 DEF TreeTypeOK

\* An import only nests channels under IDs that were given out
LEMMA ParentsAre ==
  ASSUME TreeTypeOK, NEW a \in Importers, NEW i \in Entries
  PROVE  ParentID(a, i) \in 0 .. lastID
PROOF
  <1>1. Config[i].up = 0 \/ Config[i].up \in Entries
    BY FileIs
  <1> QED BY <1>1 DEF ParentID, Root, TreeTypeOK

\* What an importer has for the entries behind it stays in its place
LEMMA PlacesKept ==
  ASSUME TreeTypeOK, RowsKept, NEW a \in Importers, NEW i \in Entries, HasPlace(a, i),
         ids'[a][i] = ids[a][i], ParentID(a, i)' = ParentID(a, i)
  PROVE  HasPlace(a, i)'
BY DEF HasPlace, RowsKept, TreeTypeOK

\* Steps that write rows and leave the importers alone
LEMMA PlacedAside ==
  ASSUME TreeTypeOK, PlacedInv, RowsKept, UNCHANGED <<at, ids, logged>>
  PROVE  PlacedInv'
PROOF
  <1>1. \A a \in Importers : \A i \in Entries : HasPlace(a, i) => HasPlace(a, i)'
    BY PlacesKept DEF ParentID
  <1> QED BY <1>1 DEF PlacedInv

\* The entry an importer is at gets its channel
LEMMA PlacedMoves ==
  ASSUME TreeTypeOK, PlacedInv, RowsKept, NEW a \in Importers, Importing(a),
         NEW id \in 1 .. lastID', Placed(a, id), UNCHANGED logged,
         id \in DOMAIN rows' => /\ rows'[id].name = Config[at[a]].name
                                /\ rows'[id].parent = ParentID(a, at[a])
  PROVE  PlacedInv'
PROOF
  <1>1. PICK i \in Entries : i = at[a] /\ i \in Nat
    BY FileIs DEF Importing
  <1>2. /\ at' = [at EXCEPT ![a] = i + 1]
        /\ ids' = [ids EXCEPT ![a] = [ids[a] EXCEPT ![i] = id]]
    BY <1>1 DEF Placed
  <1>3. /\ at'[a] = i + 1 /\ \A b \in Importers : b # a => at'[b] = at[b] /\ ids'[b] = ids[b]
        /\ ids'[a][i] = id /\ \A j \in Entries : j # i => ids'[a][j] = ids[a][j]
    BY <1>1, <1>2 DEF TreeTypeOK
  <1>4. \A j \in Entries : j =< i => ParentID(a, j)' = ParentID(a, j)
    <2> TAKE j \in Entries
    <2>1. CASE Config[j].up = 0
      BY <2>1 DEF ParentID
    <2>2. CASE Config[j].up # 0
      <3>1. Config[j].up \in Entries /\ Config[j].up < j /\ j \in Nat
        BY <2>2, FileIs
      <3>2. j =< i => ids'[a][Config[j].up] = ids[a][Config[j].up]
        BY <1>1, <1>3, <3>1, FileIs
      <3> QED BY <2>2, <3>2 DEF ParentID
    <2> QED BY <2>1, <2>2
  <1>5. HasPlace(a, i)'
    BY <1>1, <1>3, <1>4 DEF HasPlace
  <1>6. ASSUME NEW b \in Importers, NEW j \in Entries, j < at'[b]
        PROVE  RootOf(j) \in logged'[b] \/ HasPlace(b, j)'
    <2>1. CASE b = a /\ j = i
      BY <1>5, <2>1
    <2>2. CASE b = a /\ j # i
      <3>1. j < i /\ ids'[a][j] = ids[a][j] /\ ParentID(a, j)' = ParentID(a, j)
        BY <1>1, <1>3, <1>4, <1>6, <2>2, FileIs
      <3> QED BY <1>1, <2>2, <3>1, PlacesKept DEF PlacedInv
    <2>3. CASE b # a
      <3>1. at'[b] = at[b] /\ ids'[b][j] = ids[b][j] /\ ParentID(b, j)' = ParentID(b, j)
        BY <1>3, <2>3 DEF ParentID
      <3> QED BY <1>6, <3>1, PlacesKept DEF PlacedInv
    <2> QED BY <2>1, <2>2, <2>3
  <1> QED BY <1>6 DEF PlacedInv

\* ensureChannel finds the channel, or not
LEMMA LookUpPlaces ==
  ASSUME TreeTypeOK, PlacedInv, NEW a \in Importers, LookUp(a)
  PROVE  TreeTypeOK' /\ PlacedInv'
PROOF
  <1> DEFINE hits == GetChannelByNameAndParent(Config[at[a]].name, ParentID(a, at[a]))
  <1>1. RowsKept /\ Importing(a) /\ UNCHANGED <<rows, lastID, logged>>
    BY DEF LookUp, RowsKept, TreeTypeOK
  <1>2. CASE hits = {}
    <2>1. missing' = [missing EXCEPT ![a] = TRUE] /\ UNCHANGED <<at, ids>>
      BY <1>2 DEF LookUp
    <2>2. TreeTypeOK'
      BY <1>1, <2>1 DEF TreeTypeOK
    <2> QED BY <1>1, <2>1, <2>2, PlacedAside
  <1>3. CASE hits # {}
    <2>1. Placed(a, Min(hits))
      BY <1>3 DEF LookUp
    <2>2. hits \subseteq DOMAIN rows
          /\ \A c \in hits : /\ rows[c].name = Config[at[a]].name
                             /\ rows[c].parent = ParentID(a, at[a])
      BY DEF GetChannelByNameAndParent
    <2> HIDE DEF hits
    <2>3. Min(hits) \in hits
      <3>1. hits \in SUBSET Nat
        BY <2>2 DEF TreeTypeOK
      <3> QED BY <1>3, <3>1, MinIs
    <2> DEFINE id == Min(hits)
    <2>4. id \in 1 .. lastID /\ id \in DOMAIN rows /\ rows[id].name = Config[at[a]].name
          /\ rows[id].parent = ParentID(a, at[a])
      BY <2>2, <2>3 DEF TreeTypeOK
    <2>5. Placed(a, id)
      BY <2>1
    <2> HIDE DEF id
    <2>6. PlacedInv'
      BY <1>1, <2>4, <2>5, PlacedMoves
    <2>7. /\ at' \in [Importers -> 0 .. Len(Config) + 1] /\ missing' \in [Importers -> BOOLEAN]
          /\ ids' \in [Importers -> [Entries -> 0 .. lastID]]
      BY <1>1, <2>4, <2>5, FileIs DEF Placed, TreeTypeOK, Importing
    <2> QED BY <1>1, <2>6, <2>7 DEF TreeTypeOK
  <1> QED BY <1>2, <1>3

\* ensureChannel creates the channel
LEMMA InsertPlaces ==
  ASSUME TreeTypeOK, PlacedInv, NEW a \in Importers, Insert(a)
  PROVE  TreeTypeOK' /\ PlacedInv'
PROOF
  <1> DEFINE row == Row(Config[at[a]].name, ParentID(a, at[a]), FALSE)
             id == lastID + 1
  <1>1. Importing(a) /\ CreateChannel(row) /\ Placed(a, id) /\ UNCHANGED logged
    BY DEF Insert
  <1>2. /\ row.name = Config[at[a]].name /\ row.parent = ParentID(a, at[a]) /\ row.temp = FALSE
        /\ row.parent \in 0 .. lastID
    BY <1>1, ParentsAre DEF Row, Importing
  <1>3. lastID \in Nat /\ at[a] \in Entries
    BY <1>1 DEF TreeTypeOK, Importing
  <1> HIDE DEF row
  <1>4. RowsKept /\ lastID' = id /\ rows'[id] = row
    BY <1>1, CreatedIs
  <1>5. PlacedInv'
    BY <1>1, <1>2, <1>3, <1>4, PlacedMoves
  <1>6. at' \in [Importers -> 0 .. Len(Config) + 1] /\ missing' \in [Importers -> BOOLEAN]
    BY <1>1, <1>3, FileIs DEF Placed, TreeTypeOK
  <1>7. ids' \in [Importers -> [Entries -> 0 .. lastID + 1]]
    BY <1>1, <1>3, IdsWiden DEF Placed
  <1> QED BY <1>1, <1>2, <1>5, <1>6, <1>7, CreatedTyped

\* An error: what is left of the root is skipped, and logged
LEMMA NextRootPlaces ==
  ASSUME TreeTypeOK, PlacedInv, NEW a \in Importers, Importing(a), NextRoot(a)
  PROVE  TreeTypeOK' /\ PlacedInv'
PROOF
  <1> DEFINE i == at[a]
             n == Min({k \in Entries : k > at[a] /\ Config[k].up = 0} \cup {Len(Config) + 1})
  <1>1. /\ at' = [at EXCEPT ![a] = n] /\ missing' = [missing EXCEPT ![a] = FALSE]
        /\ logged' = [logged EXCEPT ![a] = @ \cup {RootOf(i)}]
        /\ UNCHANGED <<rows, lastID, ids>>
    BY DEF NextRoot
  <1>2. i \in Entries /\ RootOf(i) \in Entries
    BY RootIs DEF Importing
  <1>3. /\ n \in i + 1 .. Len(Config) + 1
        /\ \A k \in Entries : i =< k /\ k < n => RootOf(k) = RootOf(i)
    BY <1>2, NextRootIs
  <1> HIDE DEF n, i
  <1>4. TreeTypeOK'
    BY <1>1, <1>2, <1>3, FileIs DEF TreeTypeOK
  <1>5. ASSUME NEW b \in Importers, NEW j \in Entries, j < at'[b]
        PROVE  RootOf(j) \in logged'[b] \/ HasPlace(b, j)'
    <2>1. HasPlace(b, j) => HasPlace(b, j)'
      BY <1>1 DEF HasPlace, ParentID
    <2>2. CASE b = a /\ i =< j
      BY <1>1, <1>3, <1>5, <2>2 DEF TreeTypeOK
    <2>3. CASE b # a \/ j < i
      BY <1>1, <1>5, <2>1, <2>3 DEF TreeTypeOK, PlacedInv, i
    <2> QED BY <1>2, <2>2, <2>3, FileIs
  <1> QED BY <1>4, <1>5 DEF PlacedInv

\* An importer starts, or is forgotten: there is nothing behind it
Afresh(imps, n) ==
  /\ at' = [a \in Importers |-> IF a \in imps THEN n ELSE at[a]]
  /\ missing' = [a \in Importers |-> IF a \in imps THEN FALSE ELSE missing[a]]
  /\ ids' = [a \in Importers |-> IF a \in imps THEN NoIDs ELSE ids[a]]
  /\ logged' = [a \in Importers |-> IF a \in imps THEN {} ELSE logged[a]]
  /\ UNCHANGED <<rows, lastID>>

\* It has nothing to answer for
LEMMA AfreshPlaces ==
  ASSUME TreeTypeOK, PlacedInv, NEW imps, NEW n \in 0 .. 1, Afresh(imps, n)
  PROVE  TreeTypeOK' /\ PlacedInv'
PROOF
  <1>1. NoIDs \in [Entries -> 0 .. lastID]
    BY DEF NoIDs, Root, TreeTypeOK
  <1>2. ids' \in [Importers -> [Entries -> 0 .. lastID]]
    BY <1>1 DEF Afresh, TreeTypeOK
  <1>3. /\ at' \in [Importers -> 0 .. Len(Config) + 1] /\ missing' \in [Importers -> BOOLEAN]
        /\ logged' \in [Importers -> SUBSET Entries]
    <2>1. n \in 0 .. Len(Config) + 1
      BY FileIs
    <2> QED BY <2>1 DEF Afresh, TreeTypeOK
  <1>4. TreeTypeOK'
    BY <1>2, <1>3 DEF Afresh, TreeTypeOK
  <1>5. ASSUME NEW b \in Importers, NEW j \in Entries, j < at'[b]
        PROVE  RootOf(j) \in logged'[b] \/ HasPlace(b, j)'
    <2>1. b \notin imps
      BY <1>5, FileIs DEF Afresh
    <2>2. at'[b] = at[b] /\ ids'[b] = ids[b] /\ logged'[b] = logged[b]
      BY <2>1 DEF Afresh
    <2>3. HasPlace(b, j) => HasPlace(b, j)'
      BY <2>2 DEF HasPlace, ParentID, Afresh
    <2> QED BY <1>5, <2>2, <2>3 DEF PlacedInv
  <1> QED BY <1>4, <1>5 DEF PlacedInv

\* ImportChannelsFromYAML starts with the first channel of the file
LEMMA StartedIs ==
  ASSUME TreeTypeOK, NEW a \in Importers, StartImport(a)
  PROVE  Afresh({a}, 1)
BY DEF StartImport, TreeTypeOK, Afresh

\* What a step of the system does to the tree
TreeStep ==
  \/ UNCHANGED treeVars
  \/ CreateLobby
  \/ \E a \in Importers :
       StartImport(a) \/ LookUp(a) \/ Insert(a) \/ (Importing(a) /\ NextRoot(a))
  \/ \E imps : Forget(imps)
  \/ MakeTemp \/ Delete

\* No other step touches the tree
LEMMA NextTree == ASSUME [Next]_vars PROVE TreeStep
PROOF
  <1>1. CASE Run \/ UNCHANGED vars
    BY <1>1, StartAssumption DEF TreeStep, Run, NewStore, Elsewhere, ListChannels, LoadChannels,
       BadChannelsFile, ImportStep, Import, Invalid, ChannelsLoaded, Imported, HasTokens,
       StoreAdminToken, LogAdminToken, LoadPair, CreateCert, WriteCert, CreateKey, WriteKey,
       ReloadPair, StartControl, StartVoice, treeVars, vars
  <1>2. CASE Serve \/ \E a \in Importers : ImportStep(a) \/ ImportError(a)
    BY <1>2 DEF TreeStep, Serve, ImportStep, Import, Invalid, ImportError, StoreError,
       ImportRequest, Imported, Admins
  <1>3. CASE ServerFails \/ Shutdown \/ \E p \in Procs : ExportCommand(p)
    BY <1>3 DEF TreeStep, ServerFails, Shutdown, Ended, ExportCommand, Elsewhere
  <1> QED BY <1>1, <1>2, <1>3 DEF Next, Admins

\* Every step keeps the types of the tree and what imports have placed
LEMMA NextPlaces ==
  ASSUME TreeTypeOK, PlacedInv, [Next]_vars
  PROVE  TreeTypeOK' /\ PlacedInv'
PROOF
  <1>1. TreeStep
    BY NextTree
  <1>2. CASE UNCHANGED treeVars
    BY <1>2 DEF treeVars, TreeTypeOK, PlacedInv, HasPlace, ParentID
  <1>3. CASE CreateLobby \/ MakeTemp
    <2>1. PICK row : /\ CreateChannel(row) /\ UNCHANGED importVars
                     /\ row.parent \in 0 .. lastID /\ row.temp \in BOOLEAN
      <3>1. CASE CreateLobby
        <4>1. LET row == Row(LobbyName, Root, FALSE)
              IN row.parent \in 0 .. lastID /\ row.temp \in BOOLEAN
          BY DEF Row, Root, TreeTypeOK
        <4> QED BY <3>1, <4>1 DEF CreateLobby
      <3>2. CASE MakeTemp
        <4>1. PICK name \in TempNames, c \in DOMAIN rows : CreateChannel(Row(name, c, TRUE))
          BY <3>2 DEF MakeTemp
        <4>2. Row(name, c, TRUE).parent \in 0 .. lastID /\ Row(name, c, TRUE).temp \in BOOLEAN
          BY DEF Row, TreeTypeOK
        <4> QED BY <3>2, <4>1, <4>2 DEF MakeTemp
      <3> QED BY <1>3, <3>1, <3>2
    <2>2. RowsKept
      BY <2>1, CreatedIs
    <2>3. UNCHANGED <<at, missing, ids, logged>>
      BY <2>1 DEF importVars
    <2>4. at \in [Importers -> 0 .. Len(Config) + 1] /\ missing \in [Importers -> BOOLEAN]
      BY DEF TreeTypeOK
    <2> QED BY <2>1, <2>2, <2>3, <2>4, IdsWiden, CreatedTyped, PlacedAside
  <1>4. CASE Delete
    <2>1. PICK c \in DOMAIN rows : DeleteChannel(c)
      BY <1>4 DEF Delete
    <2>2. UNCHANGED <<at, missing, ids, logged>>
      BY <1>4 DEF Delete, importVars
    <2>3. /\ RowsKept /\ lastID' = lastID /\ DOMAIN rows' \subseteq DOMAIN rows
          /\ \A d \in DOMAIN rows' : rows'[d] = rows[d]
      BY <2>1, DeletedIs
    <2>4. TreeTypeOK'
      BY <2>2, <2>3 DEF TreeTypeOK
    <2> QED BY <2>2, <2>3, <2>4, PlacedAside
  <1>5. CASE \E imps : Forget(imps)
    <2>1. PICK imps : Forget(imps)
      BY <1>5
    <2>2. Afresh(imps, 0)
      BY <2>1 DEF Forget, Afresh
    <2> QED BY <2>2, AfreshPlaces
  <1>6. CASE \E a \in Importers : StartImport(a)
    <2>1. PICK a \in Importers : Afresh({a}, 1)
      BY <1>6, StartedIs
    <2> DEFINE imps == {a}
    <2>2. Afresh(imps, 1)
      BY <2>1
    <2> HIDE DEF imps
    <2> QED BY <2>2, AfreshPlaces
  <1> QED BY <1>1, <1>2, <1>3, <1>4, <1>5, <1>6, LookUpPlaces, InsertPlaces,
             NextRootPlaces DEF TreeStep

\* The server imports its file before it runs, administrators while it runs
Resting(a) == at[a] = 0 /\ ~missing[a]

WhoImports ==
  \A a \in Importers :
    Resting(a) \/ pc[Server] = (IF a = Server THEN "importing" ELSE "running")

\* Steps that leave the server and the importers where they are
LEMMA WhoAside ==
  ASSUME WhoImports, pc'[Server] = pc[Server], UNCHANGED <<at, missing>>
  PROVE  WhoImports'
BY DEF WhoImports, Resting

\* The process goes from one step of its start to another, or ends
LEMMA WhoWalks ==
  ASSUME WhoImports, \A a \in Importers : Resting(a)'
  PROVE  WhoImports'
BY DEF WhoImports

\* Every step keeps to that
LEMMA NextWho ==
  ASSUME WhoImports, MigrateTypes, TreeTypeOK, [Next]_vars
  PROVE  WhoImports'
PROOF
  <1> USE StartAssumption
  <1>1. CASE Run /\ ~ImportStep(Server) /\ ~LoadChannels /\ ~ChannelsLoaded
    <2>1. pc[Server] \notin {"importing", "running"}
      BY <1>1 DEF Run, NewStore, Open, Migrate, CreateMigTable, CountVersions, InsertVersion,
         getSchemaVersion, execMigration, setSchemaVersion, ListChannels, CreateLobby,
         BadChannelsFile, HasTokens, StoreAdminToken, LogAdminToken, LoadPair, CreateCert,
         WriteCert, CreateKey, WriteKey, ReloadPair, StartControl, StartVoice, RunStep, At
    <2>2. UNCHANGED <<at, missing>>
      BY <1>1 DEF Run, NewStore, Elsewhere, ListChannels, CreateLobby, BadChannelsFile,
         HasTokens, StoreAdminToken, LogAdminToken, LoadPair, CreateCert, WriteCert, CreateKey,
         WriteKey, ReloadPair, StartControl, StartVoice, treeVars, importVars
    <2> QED BY <2>1, <2>2, WhoWalks DEF WhoImports, Resting
  <1>2. CASE LoadChannels
    <2>1. pc[Server] = "channels" /\ Goto(Server, "importing") /\ StartImport(Server)
      BY <1>2 DEF LoadChannels, RunStep, At
    <2>2. pc'[Server] = "importing"
      BY <2>1 DEF Goto, MigrateTypes, PcOK
    <2>3. \A a \in Importers : a # Server => at'[a] = at[a] /\ missing'[a] = missing[a]
      BY <2>1 DEF StartImport, TreeTypeOK
    <2> QED BY <2>1, <2>2, <2>3 DEF WhoImports, Resting
  <1>3. CASE ChannelsLoaded
    <2>1. pc[Server] = "importing" /\ Forget({Server})
      BY <1>3 DEF ChannelsLoaded, RunStep, At, Imported
    <2>2. \A a \in Importers : IF a = Server THEN Resting(a)'
                               ELSE at'[a] = at[a] /\ missing'[a] = missing[a]
      BY <2>1 DEF Forget, Resting
    <2> QED BY <2>1, <2>2, WhoWalks DEF WhoImports, Resting
  <1>4. ASSUME NEW a \in Importers, ImportStep(a) \/ ImportError(a) PROVE WhoImports'
    <2>1. pc' = pc
      BY <1>4 DEF ImportStep, ImportError, schemaVars, procVars
    <2>2. pc[Server] = (IF a = Server THEN "importing" ELSE "running")
      BY <1>4, FileIs DEF ImportStep, ImportError, WhoImports, Resting, Importing
    <2>3. \A b \in Importers : b # a => at'[b] = at[b] /\ missing'[b] = missing[b]
      BY <1>4 DEF ImportStep, Import, LookUp, Insert, Invalid, ImportError, StoreError, Placed,
                  NextRoot, TreeTypeOK
    <2> QED BY <2>1, <2>2, <2>3 DEF WhoImports, Resting
  <1>5. CASE Serve
    <2>1. pc[Server] = "running" /\ pc' = pc
      BY <1>5 DEF Serve, schemaVars
    <2>2. CASE MakeTemp \/ Delete
      BY <2>1, <2>2, WhoAside DEF MakeTemp, Delete, importVars
    <2>3. ASSUME NEW a \in Admins, ImportRequest(a) \/ Imported(a) PROVE WhoImports'
      <3>1. \A b \in Importers : b # a => at'[b] = at[b] /\ missing'[b] = missing[b]
        BY <2>3 DEF ImportRequest, StartImport, Imported, Forget, TreeTypeOK
      <3> QED BY <2>1, <3>1 DEF WhoImports, Resting, Admins
    <2> QED BY <1>5, <2>2, <2>3 DEF Serve
  <1>6. CASE ServerFails \/ Shutdown
    <2>1. Forget(Importers)
      BY <1>6 DEF ServerFails, Shutdown, Ended
    <2> QED BY <2>1, WhoWalks DEF Forget, Resting
  <1>7. ASSUME NEW p \in Procs, ExportCommand(p) PROVE WhoImports'
    <2>1. PICK l \in MigrateSteps \cup {"opened", "off"} : Goto(p, l)
      BY <1>7, OpenGoes DEF ExportCommand, Exit, Gone
    <2>2. pc'[Server] = pc[Server]
      BY <1>7, <2>1 DEF Goto, ExportCommand, MigrateTypes, PcOK
    <2> QED BY <1>7, <2>2, WhoAside DEF ExportCommand, Elsewhere, treeVars
  <1>8. CASE UNCHANGED vars
    BY <1>8, WhoAside DEF vars
  <1> QED BY <1>1, <1>2, <1>3, <1>4, <1>5, <1>6, <1>7, <1>8 DEF Next, Admins

-----------------------------------------------------------------------------
(* Twins *)

\* An importer that is to create a channel will make no twin of it
MissedOK(a) ==
  missing[a] =>
    /\ Importing(a)
    /\ \A c \in Permanent :
         rows[c].name = Config[at[a]].name /\ rows[c].parent = ParentID(a, at[a])
           => rows[c].name = LobbyName

TwinsInv == NoTwins /\ \A a \in Importers : MissedOK(a)

\* A step that makes no permanent channel, and no importer miss one
LEMMA TwinsAside ==
  ASSUME TwinsInv, DOMAIN rows' \subseteq DOMAIN rows \cup {lastID + 1},
         \A c \in DOMAIN rows' : IF c \in DOMAIN rows THEN rows'[c] = rows[c] ELSE rows'[c].temp,
         NEW imps,
         \A a \in Importers : IF a \in imps THEN ~missing'[a] ELSE
           missing'[a] = missing[a] /\ at'[a] = at[a] /\ ids'[a] = ids[a]
  PROVE  TwinsInv'
PROOF
  <1>1. \A c \in Permanent' : c \in Permanent /\ rows'[c] = rows[c]
    BY DEF Permanent
  <1>2. NoTwins'
    BY <1>1 DEF TwinsInv, NoTwins, Twins
  <1>3. ASSUME NEW a \in Importers PROVE MissedOK(a)'
    <2>1. CASE a \in imps
      BY <2>1 DEF MissedOK
    <2>2. CASE a \notin imps
      <3>1. missing'[a] = missing[a] /\ at'[a] = at[a] /\ ids'[a] = ids[a] /\ MissedOK(a)
        BY <2>2 DEF TwinsInv
      <3> QED BY <1>1, <3>1 DEF MissedOK, Importing, ParentID
    <2> QED BY <2>1, <2>2
  <1> QED BY <1>2, <1>3 DEF TwinsInv

\* Every step keeps the channels of one parent apart
LEMMA NextTwins ==
  ASSUME TwinsInv, TreeTypeOK, WhoImports, \A a, b \in Admins : a = b, [Next]_vars
  PROVE  TwinsInv'
PROOF
  <1>1. TreeStep
    BY NextTree
  <1>2. CASE UNCHANGED treeVars
    <2>1. TwinsInv' = TwinsInv
      BY <1>2 DEF treeVars, TwinsInv, NoTwins, Twins, Permanent, MissedOK, Importing, ParentID
    <2> QED BY <2>1
  <1>3. CASE CreateLobby
    <2> DEFINE row == Row(LobbyName, Root, FALSE)
    <2>1. CreateChannel(row) /\ UNCHANGED <<at, missing, ids>>
      BY <1>3 DEF CreateLobby, importVars
    <2>2. row.name = LobbyName
      BY DEF Row
    <2> HIDE DEF row
    <2>3. /\ DOMAIN rows' = DOMAIN rows \cup {lastID + 1} /\ rows'[lastID + 1] = row
          /\ \A c \in DOMAIN rows : rows'[c] = rows[c]
      BY <2>1, CreatedIs
    <2>4. \A c \in Permanent' : rows'[c].name = LobbyName \/ (c \in Permanent /\ rows'[c] = rows[c])
      BY <2>2, <2>3 DEF Permanent
    <2>5. NoTwins'
      BY <2>4 DEF TwinsInv, NoTwins, Twins
    <2>6. \A a \in Importers : MissedOK(a)'
      <3> TAKE a \in Importers
      <3>1. MissedOK(a)
        BY DEF TwinsInv
      <3>2. ASSUME NEW c \in Permanent', rows'[c].name = Config[at[a]].name,
                   rows'[c].parent = ParentID(a, at[a]), missing[a]
            PROVE  rows'[c].name = LobbyName
        BY <2>4, <3>1, <3>2 DEF MissedOK
      <3> QED BY <2>1, <3>1, <3>2 DEF MissedOK, Importing, ParentID
    <2> QED BY <2>5, <2>6 DEF TwinsInv
  <1>4. CASE MakeTemp
    <2>1. PICK name \in TempNames, c \in DOMAIN rows : CreateChannel(Row(name, c, TRUE))
      BY <1>4 DEF MakeTemp
    <2>2. Row(name, c, TRUE).temp = TRUE
      BY DEF Row
    <2>3. /\ DOMAIN rows' = DOMAIN rows \cup {lastID + 1}
          /\ rows'[lastID + 1] = Row(name, c, TRUE) /\ \A d \in DOMAIN rows : rows'[d] = rows[d]
      BY <2>1, CreatedIs
    <2>4. \A a \in Importers : missing'[a] = missing[a] /\ at'[a] = at[a] /\ ids'[a] = ids[a]
      BY <1>4 DEF MakeTemp, importVars
    <2> DEFINE imps == {}
    <2>5. \A a \in Importers : IF a \in imps THEN ~missing'[a] ELSE
            missing'[a] = missing[a] /\ at'[a] = at[a] /\ ids'[a] = ids[a]
      BY <2>4
    <2> HIDE DEF imps
    <2> QED BY <2>2, <2>3, <2>5, TwinsAside
  <1>5. CASE Delete
    <2>1. PICK c \in DOMAIN rows : DeleteChannel(c)
      BY <1>5 DEF Delete
    <2>2. DOMAIN rows' \subseteq DOMAIN rows /\ \A d \in DOMAIN rows' : rows'[d] = rows[d]
      BY <2>1, DeletedIs
    <2> DEFINE imps == {}
    <2>3. \A a \in Importers : IF a \in imps THEN ~missing'[a] ELSE
            missing'[a] = missing[a] /\ at'[a] = at[a] /\ ids'[a] = ids[a]
      BY <1>5 DEF Delete, importVars
    <2> HIDE DEF imps
    <2> QED BY <2>2, <2>3, TwinsAside
  <1>6. CASE \E imps : Forget(imps)
    <2>1. PICK imps : Forget(imps)
      BY <1>6
    <2>2. \A a \in Importers : IF a \in imps THEN ~missing'[a] ELSE
            missing'[a] = missing[a] /\ at'[a] = at[a] /\ ids'[a] = ids[a]
      BY <2>1 DEF Forget
    <2> QED BY <2>1, <2>2, TwinsAside DEF Forget
  <1>7. ASSUME NEW a \in Importers,
               \/ StartImport(a) \/ NextRoot(a)
               \/ LookUp(a) /\ ~missing'[a]
        PROVE  TwinsInv'
    <2> DEFINE imps == {a}
    <2>1. \A b \in Importers : IF b \in imps THEN ~missing'[b] ELSE
            missing'[b] = missing[b] /\ at'[b] = at[b] /\ ids'[b] = ids[b]
      BY <1>7 DEF StartImport, NextRoot, LookUp, Placed, TreeTypeOK
    <2>2. UNCHANGED rows
      BY <1>7 DEF StartImport, NextRoot, LookUp
    <2> HIDE DEF imps
    <2> QED BY <2>1, <2>2, TwinsAside
  <1>8. ASSUME NEW a \in Importers, LookUp(a), missing'[a] PROVE TwinsInv'
    <2>1. /\ Importing(a) /\ missing' = [missing EXCEPT ![a] = TRUE]
          /\ UNCHANGED <<at, ids, rows>>
          /\ GetChannelByNameAndParent(Config[at[a]].name, ParentID(a, at[a])) = {}
      BY <1>8 DEF LookUp, Placed, TreeTypeOK
    <2>2. \A b \in Importers : b # a => missing'[b] = missing[b]
      BY <2>1 DEF TreeTypeOK
    <2>3. NoTwins'
      BY <2>1 DEF TwinsInv, NoTwins, Twins, Permanent
    <2>4. \A c \in DOMAIN rows :
            ~(rows[c].name = Config[at[a]].name /\ rows[c].parent = ParentID(a, at[a]))
      BY <2>1 DEF GetChannelByNameAndParent
    <2>5. ASSUME NEW b \in Importers PROVE MissedOK(b)'
      <3>1. MissedOK(b) /\ Permanent' = Permanent /\ Permanent \subseteq DOMAIN rows
        BY <2>1 DEF TwinsInv, Permanent
      <3>2. ParentID(b, at[b])' = ParentID(b, at[b]) /\ Importing(b)' = Importing(b)
        BY <2>1 DEF ParentID, Importing
      <3>3. CASE b = a
        BY <2>1, <2>4, <3>1, <3>3 DEF MissedOK, Importing, ParentID
      <3>4. CASE b # a
        BY <2>1, <2>2, <3>1, <3>2, <3>4 DEF MissedOK
      <3> QED BY <3>3, <3>4
    <2> QED BY <2>3, <2>5 DEF TwinsInv
  <1>9. ASSUME NEW a \in Importers, Insert(a) PROVE TwinsInv'
    <2> DEFINE row == Row(Config[at[a]].name, ParentID(a, at[a]), FALSE)
    <2>1. /\ Importing(a) /\ missing[a] /\ CreateChannel(row) /\ Placed(a, lastID + 1)
      BY <1>9 DEF Insert
    <2>2. row.name = Config[at[a]].name /\ row.parent = ParentID(a, at[a])
      BY DEF Row
    <2> HIDE DEF row
    <2>3. /\ DOMAIN rows' = DOMAIN rows \cup {lastID + 1} /\ rows'[lastID + 1] = row
          /\ \A c \in DOMAIN rows : rows'[c] = rows[c]
      BY <2>1, CreatedIs
    <2>4. \A c \in Permanent : rows[c].name = row.name /\ rows[c].parent = row.parent
                                 => rows[c].name = LobbyName
      BY <2>1, <2>2 DEF TwinsInv, MissedOK
    <2>5. \A c \in Permanent' : c = lastID + 1 \/ (c \in Permanent /\ rows'[c] = rows[c])
      BY <2>3 DEF Permanent
    <2>6. NoTwins'
      BY <2>3, <2>4, <2>5 DEF TwinsInv, NoTwins, Twins
    <2>7. \A b \in Importers : ~missing'[b]
      <3>1. \A b \in Importers : b # a => ~missing[b]
        BY <2>1 DEF WhoImports, Resting, Admins
      <3> QED BY <2>1, <3>1 DEF Placed, TreeTypeOK
    <2> QED BY <2>6, <2>7 DEF TwinsInv, MissedOK
  <1> QED BY <1>1, <1>2, <1>3, <1>4, <1>5, <1>6, <1>7, <1>8, <1>9 DEF TreeStep

-----------------------------------------------------------------------------
\* Whether a token has been shown
ShownOK == shown \in BOOLEAN

\* ... is a truth value in every step
LEMMA NextShown ==
  ASSUME ShownOK, [Next]_vars
  PROVE  ShownOK'
PROOF
  <1> USE DEF ShownOK
  <1>1. CASE LogAdminToken
    BY <1>1, StartAssumption DEF LogAdminToken
  <1>2. CASE ~LogAdminToken
    BY <1>2 DEF Next, Run, NewStore, Elsewhere, ListChannels, CreateLobby, LoadChannels,
       BadChannelsFile, ChannelsLoaded, HasTokens, StoreAdminToken, LoadPair, CreateCert, WriteCert,
       CreateKey, WriteKey, ReloadPair, StartControl, StartVoice, ImportStep, ImportError, Serve,
       ServerFails, Shutdown, Ended, ExportCommand, tokenVars, vars
  <1> QED BY <1>1, <1>2

\* The parts together
StartInv == ShownOK /\ MigrateTypes /\ FirstInv /\ TreeTypeOK /\ PlacedInv /\ WhoImports

\* All of it holds always
LEMMA StartInvariant == Spec => []StartInv
PROOF
  <1>1. Init => ShownOK /\ MigrateTypes /\ TreeTypeOK /\ PlacedInv /\ WhoImports
    <2> SUFFICES ASSUME Init PROVE ShownOK /\ TreeTypeOK /\ PlacedInv /\ WhoImports
      BY InitTyped
    <2>1. TreeInit /\ ShownOK
      BY DEF Init, ShownOK
    <2>2. NoIDs \in [Entries -> 0 .. lastID] /\ lastID = 0
      BY <2>1 DEF TreeInit, NoIDs, Root
    <2>3. TreeTypeOK
      BY <2>1, <2>2, FileIs DEF TreeInit, TreeTypeOK
    <2>4. PlacedInv /\ WhoImports
      BY <2>1, FileIs DEF TreeInit, PlacedInv, WhoImports, Resting
    <2> QED BY <2>1, <2>3, <2>4
  <1>2. StartInv /\ [Next]_vars =>
          ShownOK' /\ MigrateTypes' /\ TreeTypeOK' /\ PlacedInv' /\ WhoImports'
    BY NextShown, NextTyped, NextPlaces, NextWho DEF StartInv
  <1>3. ShownOK /\ MigrateTypes /\ FirstInv /\ TreeTypeOK /\ PlacedInv /\ WhoImports <=> StartInv
    BY DEF StartInv
  <1> QED BY <1>1, <1>2, <1>3, FirstInvariant, PTL DEF Spec

(***************************************************************************)
(* The types, with what they say of the tree: IDs are given out in order,  *)
(* a channel comes after its parent, no importer holds an ID that was not  *)
(* given out, and no file holds half of a pair that was never generated.   *)
(***************************************************************************)
THEOREM StartTypes == Spec => []StartTypeOK
PROOF
  <1>1. StartInv => StartTypeOK
    <2> SUFFICES ASSUME StartInv PROVE StartTypeOK
      OBVIOUS
    <2>1. {cert, key, serving} \subseteq 0 .. pair /\ adminTokens \in Nat
      BY DEF StartInv, FirstInv, TokenOK, PairOK
    <2>2. pc \in [Procs -> {"off"} \cup MigrateSteps \cup StartSteps \cup {"running"}]
      BY DEF StartInv, FirstInv, PcOK, Points
    <2> QED BY <2>1, <2>2 DEF StartInv, MigrateTypes, ShownOK, StartTypeOK
  <1> QED BY <1>1, StartInvariant, PTL

(***************************************************************************)
(* An import that has got to the end of its file has put every channel     *)
(* under its parent but those below a root it logged an error for, for     *)
(* any file, any number of imports at once and any deletions meanwhile     *)
(* (ensureChannel, config.go).                                             *)
(***************************************************************************)
THEOREM ImportsPlace == Spec => []ImportPlaces
PROOF
  <1>1. StartInv => ImportPlaces
    BY FileIs DEF StartInv, PlacedInv, HasPlace, ImportPlaces
  <1> QED BY <1>1, StartInvariant, PTL

(***************************************************************************)
(* When one administrator at a time imports, no import makes a channel     *)
(* twice under one parent, wherever earlier imports were cut short.        *)
(***************************************************************************)
THEOREM TwinsNever ==
  ASSUME \A a, b \in Admins : a = b
  PROVE  Spec => []NoTwins
PROOF
  <1>1. Init => TwinsInv
    BY DEF Init, TreeInit, TwinsInv, NoTwins, Permanent, MissedOK
  <1>2. TwinsInv /\ StartInv /\ [Next]_vars => TwinsInv'
    BY NextTwins DEF StartInv
  <1>3. TwinsInv => NoTwins
    BY DEF TwinsInv
  <1> QED BY <1>1, <1>2, <1>3, StartInvariant, PTL DEF Spec

-----------------------------------------------------------------------------
(* Export and import of a whole tree *)

\* Induction up to n, from the least number that is not in T
LEMMA Climb ==
  ASSUME NEW n \in Nat, NEW T, 0 \in T, \A i \in 0 .. n - 1 : i \in T => i + 1 \in T
  PROVE  0 .. n \subseteq T
PROOF
  <1> DEFINE Out == {i \in 0 .. n : i \notin T}
  <1>1. Out \in SUBSET Nat
    OBVIOUS
  <1>2. ASSUME Out # {}
        PROVE  FALSE
    <2>1. PICK x \in Out : \A y \in Out : x =< y
      <3> HIDE DEF Out
      <3> QED BY <1>1, <1>2, HasLeast
    <2>2. x - 1 \in 0 .. n - 1 /\ x - 1 \notin Out
      BY <2>1
    <2> QED BY <2>1, <2>2
  <1> QED BY <1>2

\* A table of channels whose IDs end at last
Table(chs, last) ==
  /\ last \in Nat
  /\ DOMAIN chs \subseteq 1 .. last
  /\ \A c \in DOMAIN chs : chs[c].parent \in 0 .. c - 1 /\ chs[c].temp \in BOOLEAN

Kept(chs) == {c \in DOMAIN chs : ~chs[c].temp}

EntriesOf(chs) == [name : {chs[c].name : c \in DOMAIN chs}, up : Nat, valid : {TRUE}]

\* The file lists what is below p, of the channels c and above, ord[i] as its i-th
\* entry: everything once, what is below an entry right behind it, siblings by ID.
Lists(chs, c, p, file, ord) ==
  /\ file \in Seq(EntriesOf(chs))
  /\ ord \in [DOMAIN file -> {x \in Kept(chs) : x >= c /\ x > p}]
  /\ \A i \in DOMAIN file :
       /\ file[i].name = chs[ord[i]].name
       /\ file[i].up < i
       /\ chs[ord[i]].parent = IF file[i].up = 0 THEN p ELSE ord[file[i].up]
  /\ \A i, j \in DOMAIN file : ord[i] = ord[j] => i = j
  /\ \A i, j \in DOMAIN file : file[j].up < i /\ i < j => file[i].up >= file[j].up
  /\ \A i, j \in DOMAIN file : i < j /\ file[i].up = file[j].up => ord[i] < ord[j]
  /\ \A x \in Kept(chs) :
       x >= c /\ (chs[x].parent = p \/ \E i \in DOMAIN file : ord[i] = chs[x].parent)
         => \E i \in DOMAIN file : ord[i] = x

\* What a listing is made of.
LEMMA ListIs ==
  ASSUME NEW chs, NEW last, Table(chs, last), NEW c, NEW p \in Nat,
         NEW f, NEW o, Lists(chs, c, p, f, o)
  PROVE  /\ DOMAIN f = 1 .. Len(f) /\ Len(f) \in Nat
         /\ \A i \in DOMAIN f : f[i] \in EntriesOf(chs) /\ f[i].up \in Nat /\ f[i].valid = TRUE
         /\ \A i \in DOMAIN f : o[i] \in Kept(chs) /\ o[i] \in Nat /\ o[i] > p /\ o[i] >= c
PROOF
  <1>1. f \in Seq(EntriesOf(chs))
    BY DEF Lists
  <1>2. DOMAIN f = 1 .. Len(f) /\ Len(f) \in Nat /\ \A i \in DOMAIN f : f[i] \in EntriesOf(chs)
    BY <1>1
  <1>3. \A e \in EntriesOf(chs) : e.up \in Nat /\ e.valid = TRUE
    BY DEF EntriesOf
  <1>4. o \in [DOMAIN f -> {x \in Kept(chs) : x >= c /\ x > p}]
    BY DEF Lists
  <1>5. \A x \in Kept(chs) : x \in Nat
    BY DEF Kept, Table
  <1>6. \A i \in DOMAIN f : o[i] \in {x \in Kept(chs) : x >= c /\ x > p}
    BY <1>4
  <1> QED BY <1>2, <1>3, <1>5, <1>6

\* Where two listings part, the first one goes on no higher up the tree, and with a
\* channel of lower ID if it goes on at the same place.
LEMMA Parting ==
  ASSUME NEW chs, NEW last, Table(chs, last), NEW p \in Nat,
         NEW f1, NEW o1, Lists(chs, 1, p, f1, o1),
         NEW f2, NEW o2, Lists(chs, 1, p, f2, o2),
         NEW i \in DOMAIN f1, i \in DOMAIN f2, o1[i] # o2[i],
         \A k \in 1 .. i - 1 : o1[k] = o2[k]
  PROVE  /\ f1[i].up >= f2[i].up
         /\ f1[i].up = f2[i].up => o1[i] < o2[i]
PROOF
  <1> DEFINE y == o2[i]
             b == f2[i].up
  <1>1. /\ DOMAIN f1 = 1 .. Len(f1) /\ Len(f1) \in Nat
        /\ DOMAIN f2 = 1 .. Len(f2) /\ Len(f2) \in Nat
        /\ \A k \in DOMAIN f1 : f1[k].up \in Nat
        /\ \A k \in DOMAIN f2 : f2[k].up \in Nat
    BY ListIs
  <1>2. /\ \A k \in DOMAIN f1 : o1[k] \in Kept(chs) /\ o1[k] \in Nat /\ o1[k] > p
        /\ \A k \in DOMAIN f2 : o2[k] \in Kept(chs) /\ o2[k] \in Nat /\ o2[k] > p
    BY ListIs
  <1>4. b \in Nat /\ b < i /\ i \in Nat
    BY <1>1 DEF Lists
  <1>3. chs[y].parent = IF b = 0 THEN p ELSE o1[b]
    <2>1. chs[y].parent = IF b = 0 THEN p ELSE o2[b]
      BY DEF Lists
    <2>2. b # 0 => b \in 1 .. i - 1
      BY <1>4
    <2> QED BY <2>1, <2>2
  <1>5. PICK j \in DOMAIN f1 : o1[j] = y
    <2>1. chs[y].parent = p \/ \E k \in DOMAIN f1 : o1[k] = chs[y].parent
      BY <1>1, <1>3, <1>4
    <2>2. y \in Kept(chs) /\ y >= 1
      BY <1>2 DEF Lists
    <2> QED BY <2>1, <2>2 DEF Lists
  <1>6. i < j
    <2>1. j \notin 1 .. i - 1
      <3> SUFFICES ASSUME j \in 1 .. i - 1
                   PROVE  FALSE
        OBVIOUS
      <3>1. j \in DOMAIN f2 /\ o2[j] = o2[i] /\ j # i
        BY <1>1, <1>5
      <3> QED BY <3>1 DEF Lists
    <2> QED BY <1>1, <1>5, <2>1
  <1>7. f1[j].up = b
    <2>1. chs[y].parent = IF f1[j].up = 0 THEN p ELSE o1[f1[j].up]
      BY <1>5 DEF Lists
    <2>2. f1[j].up \in Nat /\ f1[j].up < j
      BY <1>1 DEF Lists
    <2>3. /\ b # 0 => b \in DOMAIN f1 /\ o1[b] > p /\ o1[b] \in Nat
          /\ f1[j].up # 0 => f1[j].up \in DOMAIN f1 /\ o1[f1[j].up] > p /\ o1[f1[j].up] \in Nat
      <3>1. (b # 0 => b \in DOMAIN f1) /\ (f1[j].up # 0 => f1[j].up \in DOMAIN f1)
        BY <1>1, <1>4, <2>2
      <3> QED BY <1>2, <3>1
    <2>4. b # 0 /\ f1[j].up # 0 => f1[j].up = b
      BY <1>3, <2>1, <2>3 DEF Lists
    <2> QED BY <1>3, <1>4, <2>1, <2>2, <2>3, <2>4
  <1>8. f1[i].up >= f1[j].up
    BY <1>4, <1>6, <1>7 DEF Lists
  <1>9. f1[i].up = f1[j].up => o1[i] < o1[j]
    BY <1>6 DEF Lists
  <1> QED BY <1>5, <1>7, <1>8, <1>9

\* A listing is no longer than another one it begins with.
LEMMA NotLonger ==
  ASSUME NEW chs, NEW last, Table(chs, last), NEW p \in Nat,
         NEW f1, NEW o1, Lists(chs, 1, p, f1, o1),
         NEW f2, NEW o2, Lists(chs, 1, p, f2, o2),
         \A k \in DOMAIN f1 \cap DOMAIN f2 : o1[k] = o2[k]
  PROVE  Len(f2) =< Len(f1)
PROOF
  <1>1. /\ DOMAIN f1 = 1 .. Len(f1) /\ Len(f1) \in Nat
        /\ DOMAIN f2 = 1 .. Len(f2) /\ Len(f2) \in Nat
        /\ \A k \in DOMAIN f2 : f2[k].up \in Nat
    BY ListIs
  <1> SUFFICES ASSUME Len(f1) < Len(f2)
               PROVE  FALSE
    BY <1>1
  <1>2. PICK i \in DOMAIN f2 : i = Len(f1) + 1
    BY <1>1
  <1>3. f2[i].up \in Nat /\ f2[i].up < i
    BY <1>1 DEF Lists
  <1>4. chs[o2[i]].parent = IF f2[i].up = 0 THEN p ELSE o2[f2[i].up]
    BY DEF Lists
  <1>5. f2[i].up # 0 => f2[i].up \in DOMAIN f1 /\ o1[f2[i].up] = o2[f2[i].up]
    BY <1>1, <1>2, <1>3
  <1>6. o2[i] \in Kept(chs) /\ o2[i] >= 1
    BY DEF Lists
  <1>7. PICK j \in DOMAIN f1 : o1[j] = o2[i]
    BY <1>4, <1>5, <1>6 DEF Lists
  <1>8. j \in DOMAIN f2 /\ o2[j] = o2[i] /\ j # i
    BY <1>1, <1>2, <1>7
  <1> QED BY <1>8 DEF Lists

\* Sequences with the same elements are equal.
LEMMA SeqEqual ==
  ASSUME NEW S, NEW s \in Seq(S), NEW t \in Seq(S), Len(s) = Len(t),
         \A i \in DOMAIN s : s[i] = t[i]
  PROVE  s = t
OBVIOUS

\* Entries with the same fields are equal.
LEMMA EntryEqual ==
  ASSUME NEW chs, NEW d \in EntriesOf(chs), NEW e \in EntriesOf(chs),
         d.name = e.name, d.up = e.up, d.valid = e.valid
  PROVE  d = e
BY DEF EntriesOf

\* There is only one listing.
LEMMA OneListing ==
  ASSUME NEW chs, NEW last, Table(chs, last), NEW p \in Nat,
         NEW f1, NEW o1, Lists(chs, 1, p, f1, o1),
         NEW f2, NEW o2, Lists(chs, 1, p, f2, o2)
  PROVE  f1 = f2
PROOF
  <1>1. /\ DOMAIN f1 = 1 .. Len(f1) /\ Len(f1) \in Nat 
        /\ DOMAIN f2 = 1 .. Len(f2) /\ Len(f2) \in Nat 
        /\ \A k \in DOMAIN f1 : f1[k].up \in Nat
        /\ \A k \in DOMAIN f2 : f2[k].up \in Nat
    BY ListIs
  <1>2. \A i \in DOMAIN f1 \cap DOMAIN f2 : o1[i] = o2[i]
    <2> DEFINE Differ == {i \in DOMAIN f1 \cap DOMAIN f2 : o1[i] # o2[i]}
    <2> SUFFICES ASSUME Differ # {}
                 PROVE  FALSE
      OBVIOUS
    <2>1. Differ \in SUBSET Nat
      BY <1>1
    <2>2. PICK i \in Differ : \A k \in Differ : i =< k
      <3> HIDE DEF Differ
      <3> QED BY <2>1, HasLeast
    <2>3. i \in DOMAIN f1 /\ i \in DOMAIN f2 /\ o1[i] # o2[i] /\ i \in Nat
      BY <1>1
    <2>4. \A k \in 1 .. i - 1 : o1[k] = o2[k]
      <3> TAKE k \in 1 .. i - 1
      <3>1. k \in DOMAIN f1 \cap DOMAIN f2 /\ ~(i =< k)
        BY <1>1, <2>3
      <3> QED BY <2>2, <3>1
    <2>5. /\ f1[i].up >= f2[i].up
          /\ f1[i].up = f2[i].up => o1[i] < o2[i]
      <3> HIDE DEF Differ
      <3> QED BY <2>3, <2>4, Parting
    <2>6. /\ f2[i].up >= f1[i].up
          /\ f2[i].up = f1[i].up => o2[i] < o1[i]
      <3> HIDE DEF Differ
      <3> QED BY <2>3, <2>4, Parting
    <2>7. o1[i] \in Nat /\ o2[i] \in Nat
      BY <2>3, ListIs
    <2> QED BY <1>1, <2>3, <2>5, <2>6, <2>7
  <1>3. Len(f1) = Len(f2)
    <2>1. Len(f2) =< Len(f1)
      BY <1>2, NotLonger
    <2>2. \A k \in DOMAIN f2 \cap DOMAIN f1 : o2[k] = o1[k]
      BY <1>2
    <2>3. Len(f1) =< Len(f2)
      BY <2>2, NotLonger
    <2>4. Len(f1) \in Nat /\ Len(f2) \in Nat
      BY <1>1
    <2> QED BY <2>1, <2>3, <2>4
  <1>4. ASSUME NEW i \in DOMAIN f1
        PROVE  f1[i] = f2[i]
    <2> DEFINE a == f1[i].up
               b == f2[i].up
    <2>1. i \in DOMAIN f2 /\ o1[i] = o2[i] /\ i \in Nat
      BY <1>1, <1>2, <1>3
    <2>2. f1[i] \in EntriesOf(chs) /\ f2[i] \in EntriesOf(chs)
      BY <2>1, ListIs
    <2>3. f1[i].name = f2[i].name
      BY <2>1 DEF Lists
    <2>4. a \in Nat /\ b \in Nat /\ a < i /\ b < i
      BY <1>1, <2>1 DEF Lists
    <2>5. (IF a = 0 THEN p ELSE o1[a]) = (IF b = 0 THEN p ELSE o2[b])
      BY <2>1 DEF Lists
    <2>6. /\ a # 0 => a \in DOMAIN f1 /\ o1[a] \in Nat /\ o1[a] > p
          /\ b # 0 => b \in DOMAIN f1 /\ o1[b] = o2[b] /\ o1[b] \in Nat /\ o1[b] > p
      <3>1. \A k \in DOMAIN f1 : o1[k] \in Nat /\ o1[k] > p
        BY ListIs
      <3>2. \A k \in Nat : k # 0 /\ k < i => k \in DOMAIN f1 /\ k \in DOMAIN f2
        BY <1>1, <1>3, <2>1
      <3> QED BY <1>2, <2>4, <3>1, <3>2
    <2>7. a # 0 /\ b # 0 => a = b
      BY <2>5, <2>6 DEF Lists
    <2>8. a = b
      BY <2>4, <2>5, <2>6, <2>7
    <2>9. f1[i].valid = f2[i].valid
      BY <2>1, ListIs
    <2> QED BY <2>2, <2>3, <2>8, <2>9, EntryEqual
  <1>5. f1 \in Seq(EntriesOf(chs)) /\ f2 \in Seq(EntriesOf(chs))
    BY DEF Lists
  <1> QED BY <1>3, <1>4, <1>5, SeqEqual

\* A function on 1 .. n is a sequence of length n.
LEMMA FunSeq ==
  ASSUME NEW S, NEW n \in Nat, NEW f \in [1 .. n -> S]
  PROVE  f \in Seq(S) /\ Len(f) = n
OBVIOUS

\* What stands where in s \o t.
LEMMA Joined ==
  ASSUME NEW S, NEW s \in Seq(S), NEW t \in Seq(S), NEW r, r = s \o t
  PROVE  /\ r \in Seq(S)
         /\ Len(r) = Len(s) + Len(t)
         /\ \A k \in 1 .. Len(s) : r[k] = s[k]
         /\ \A k \in 1 .. Len(t) : r[Len(s) + k] = t[k]
PROOF
  <1>1. Len(s) \in Nat /\ Len(t) \in Nat
    OBVIOUS
  <1>2. r \in Seq(S) /\ Len(r) = Len(s) + Len(t)
    OBVIOUS
  <1>3. ASSUME NEW k \in 1 .. Len(s)
        PROVE  r[k] = s[k]
    BY <1>1
  <1>4. ASSUME NEW k \in 1 .. Len(t)
        PROVE  r[Len(s) + k] = t[k]
    BY <1>1
  <1> QED BY <1>2, <1>3, <1>4

\* An entry that is nested elsewhere.
LEMMA Moved ==
  ASSUME NEW N, NEW e \in [name : N, up : Nat, valid : {TRUE}], NEW u \in Nat
  PROVE  LET d == [e EXCEPT !.up = u]
         IN d \in [name : N, up : Nat, valid : {TRUE}] /\ d.name = e.name /\ d.up = u
OBVIOUS

\* A channel in front of what is below it.
LEMMA AboveIs ==
  ASSUME NEW chs, NEW c \in DOMAIN chs, NEW below \in Seq(EntriesOf(chs))
  PROVE  LET f == Above(chs[c].name, below)
         IN /\ f \in Seq(EntriesOf(chs))
            /\ Len(f) = 1 + Len(below)
            /\ f[1].name = chs[c].name /\ f[1].up = 0
            /\ \A k \in 1 .. Len(below) :
                 f[1 + k].name = below[k].name /\ f[1 + k].up = below[k].up + 1
PROOF
  <1> DEFINE head == [name |-> chs[c].name, up |-> 0, valid |-> TRUE]
             tail == [i \in DOMAIN below |-> [below[i] EXCEPT !.up = @ + 1]]
             f == Above(chs[c].name, below)
  <1>1. head \in EntriesOf(chs)
    BY DEF EntriesOf
  <1>2. \A i \in DOMAIN below : below[i] \in EntriesOf(chs)
    OBVIOUS
  <1>3. ASSUME NEW e \in EntriesOf(chs)
        PROVE  LET d == [e EXCEPT !.up = @ + 1]
               IN d \in EntriesOf(chs) /\ d.name = e.name /\ d.up = e.up + 1
    <2>1. e.up + 1 \in Nat
      BY DEF EntriesOf
    <2> QED BY <2>1, Moved DEF EntriesOf
  <1>4. \A i \in DOMAIN below : tail[i] \in EntriesOf(chs)
                                /\ tail[i].name = below[i].name /\ tail[i].up = below[i].up + 1
    BY <1>2, <1>3
  <1>5. /\ Len(below) \in Nat /\ DOMAIN below = 1 .. Len(below)
        /\ tail \in [1 .. Len(below) -> EntriesOf(chs)]
    <2>1. Len(below) \in Nat /\ DOMAIN below = 1 .. Len(below)
      OBVIOUS
    <2> QED BY <1>4, <2>1
  <1>6. tail \in Seq(EntriesOf(chs)) /\ Len(tail) = Len(below)
    <2> HIDE DEF tail
    <2> QED BY <1>5, FunSeq
  <1>7. f = <<head>> \o tail
    BY DEF Above
  <1> HIDE DEF head, tail, f
  <1>8. /\ f \in Seq(EntriesOf(chs)) /\ Len(f) = 1 + Len(below)
        /\ f[1] = head /\ \A k \in 1 .. Len(below) : f[1 + k] = tail[k]
    BY <1>1, <1>5, <1>6, <1>7
  <1>9. head.name = chs[c].name /\ head.up = 0
    BY DEF head
  <1> QED BY <1>4, <1>5, <1>8, <1>9 DEF f

\* f is left and then right, one level of which stays where it is.
Spliced(left, right, f) ==
  /\ Len(f) = Len(left) + Len(right)
  /\ \A k \in 1 .. Len(left) : f[k] = left[k]
  /\ \A k \in 1 .. Len(right) :
       /\ f[Len(left) + k].name = right[k].name
       /\ right[k].up = 0 => f[Len(left) + k].up = 0
       /\ right[k].up # 0 => f[Len(left) + k].up = right[k].up + Len(left)

\* What stands behind a subtree.
LEMMA BesideIs ==
  ASSUME NEW chs, NEW left \in Seq(EntriesOf(chs)), NEW right \in Seq(EntriesOf(chs)),
         NEW f, f = Beside(left, right)
  PROVE  f \in Seq(EntriesOf(chs)) /\ Spliced(left, right, f)
PROOF
  <1> DEFINE n == Len(left)
             tail == [i \in DOMAIN right |-> [right[i] EXCEPT !.up = IF @ = 0 THEN 0 ELSE @ + n]]
  <1>0. n \in Nat /\ Len(right) \in Nat /\ DOMAIN right = 1 .. Len(right)
    OBVIOUS
  <1>1. f = left \o tail
    BY DEF Beside
  <1> HIDE DEF n
  <1>2. \A i \in DOMAIN right : right[i] \in EntriesOf(chs)
    OBVIOUS
  <1>3. ASSUME NEW e \in EntriesOf(chs)
        PROVE  LET d == [e EXCEPT !.up = IF @ = 0 THEN 0 ELSE @ + n]
               IN /\ d \in EntriesOf(chs) /\ d.name = e.name
                  /\ d.up = IF e.up = 0 THEN 0 ELSE e.up + n
    <2>1. e.up \in Nat
      BY DEF EntriesOf
    <2>2. (IF e.up = 0 THEN 0 ELSE e.up + n) \in Nat
      BY <1>0, <2>1
    <2> QED BY <2>2, Moved DEF EntriesOf
  <1>4. \A i \in DOMAIN right :
          /\ tail[i] \in EntriesOf(chs) /\ tail[i].name = right[i].name
          /\ tail[i].up = IF right[i].up = 0 THEN 0 ELSE right[i].up + n
    BY <1>2, <1>3
  <1>5. tail \in [1 .. Len(right) -> EntriesOf(chs)]
    BY <1>0, <1>4
  <1>6. tail \in Seq(EntriesOf(chs)) /\ Len(tail) = Len(right)
    <2> HIDE DEF tail
    <2> QED BY <1>0, <1>5, FunSeq
  <1> HIDE DEF tail
  <1>8. /\ f \in Seq(EntriesOf(chs)) /\ Len(f) = n + Len(right)
        /\ \A k \in 1 .. n : f[k] = left[k]
        /\ \A k \in 1 .. Len(right) : f[n + k] = tail[k]
    <2>1. n = Len(left)
      BY DEF n
    <2>2. PICK t \in Seq(EntriesOf(chs)) : t = tail /\ Len(t) = Len(right)
      BY <1>6
    <2>3. f = left \o t
      BY <1>1, <2>2
    <2>4. /\ f \in Seq(EntriesOf(chs)) /\ Len(f) = Len(left) + Len(t)
          /\ \A k \in 1 .. Len(left) : f[k] = left[k]
          /\ \A k \in 1 .. Len(t) : f[Len(left) + k] = t[k]
      BY <2>3, Joined
    <2> QED BY <2>1, <2>2, <2>4
  <1> QED BY <1>0, <1>4, <1>8 DEF n, Spliced

\* The parent of an entry is the channel the file lists for it.
LEMMA ParentIs ==
  ASSUME NEW chs, NEW last, Table(chs, last), NEW c, NEW p \in Nat,
         NEW f, NEW o, Lists(chs, c, p, f, o), NEW i \in DOMAIN f
  PROVE  \/ chs[o[i]].parent = p
         \/ \E k \in DOMAIN f : k < i /\ chs[o[i]].parent = o[k] /\ o[k] < o[i]
PROOF
  <1>1. /\ DOMAIN f = 1 .. Len(f) /\ Len(f) \in Nat /\ f[i].up \in Nat
        /\ o[i] \in Kept(chs) /\ o[i] \in Nat
    BY ListIs
  <1>2. f[i].up < i /\ chs[o[i]].parent = IF f[i].up = 0 THEN p ELSE o[f[i].up]
    BY DEF Lists
  <1>3. f[i].up # 0 => f[i].up \in DOMAIN f
    BY <1>1, <1>2
  <1>4. chs[o[i]].parent < o[i]
    BY <1>1 DEF Kept, Table
  <1> QED BY <1>1, <1>2, <1>3, <1>4

\* What is below a channel and what is below its parent, of the channels above it,
\* have nothing in common.
LEMMA Apart ==
  ASSUME NEW chs, NEW last, Table(chs, last), NEW c \in Kept(chs), NEW q \in Nat, q < c,
         NEW f, NEW o, Lists(chs, c + 1, c, f, o),
         NEW g, NEW w, Lists(chs, c + 1, q, g, w),
         NEW i \in DOMAIN f, NEW j \in DOMAIN g
  PROVE  o[i] # w[j]
PROOF
  <1> DEFINE Both == {x \in Kept(chs) : (\E k \in DOMAIN f : o[k] = x)
                                        /\ \E k \in DOMAIN g : w[k] = x}
  <1>0. c \in Nat /\ Both \in SUBSET Nat
    BY DEF Kept, Table
  <1>1. \A k \in DOMAIN f : o[k] \in Kept(chs) /\ o[k] \in Nat /\ o[k] >= c + 1
    BY <1>0, ListIs
  <1>2. \A k \in DOMAIN g : w[k] \in Kept(chs) /\ w[k] \in Nat /\ w[k] >= c + 1
    BY ListIs
  <1>3. ASSUME NEW x \in Both
        PROVE  \E z \in Both : z < x
    <2>1. PICK k \in DOMAIN f, l \in DOMAIN g : o[k] = x /\ w[l] = x
      OBVIOUS
    <2>2. \/ chs[x].parent = c
          \/ \E m \in DOMAIN f : m < k /\ chs[x].parent = o[m] /\ o[m] < x
      BY <1>0, <2>1, ParentIs
    <2>3. \/ chs[x].parent = q
          \/ \E m \in DOMAIN g : m < l /\ chs[x].parent = w[m] /\ w[m] < x
      BY <2>1, ParentIs
    <2>4. chs[x].parent # q
      BY <1>0, <1>1, <2>2
    <2>5. PICK m \in DOMAIN g : chs[x].parent = w[m] /\ w[m] < x
      BY <2>3, <2>4
    <2>6. chs[x].parent # c
      BY <1>0, <1>2, <2>5
    <2> QED BY <1>2, <2>2, <2>5, <2>6
  <1>4. Both = {}
    <2> SUFFICES ASSUME Both # {}
                 PROVE  FALSE
      OBVIOUS
    <2> HIDE DEF Both
    <2>1. PICK x \in Both : \A z \in Both : x =< z
      BY <1>0, HasLeast
    <2>2. PICK z \in Both : z < x
      BY <1>3
    <2> QED BY <1>0, <2>1, <2>2
  <1> QED BY <1>1, <1>4

\* With no channel of that ID to list below p, the listing stays the same.
LEMMA Stays ==
  ASSUME NEW chs, NEW last, Table(chs, last), NEW c \in Nat, NEW p \in Nat,
         NEW f, NEW o, Lists(chs, c + 1, p, f, o),
         c \in Kept(chs) => chs[c].parent # p
  PROVE  Lists(chs, c, p, f, o)
PROOF
  <1>1. \A i \in DOMAIN f : o[i] \in Kept(chs) /\ o[i] \in Nat /\ o[i] > p /\ o[i] >= c + 1
    BY ListIs
  <1>2. o \in [DOMAIN f -> {x \in Kept(chs) : x >= c /\ x > p}]
    <2>1. \A i \in DOMAIN f : o[i] >= c
      BY <1>1
    <2>2. o \in [DOMAIN f -> {x \in Kept(chs) : x >= c + 1 /\ x > p}]
      BY DEF Lists
    <2> QED BY <1>1, <2>1, <2>2
  <1>3. ASSUME NEW x \in Kept(chs), x >= c,
               chs[x].parent = p \/ \E i \in DOMAIN f : o[i] = chs[x].parent
        PROVE  \E i \in DOMAIN f : o[i] = x
    <2>1. x \in Nat /\ chs[x].parent < x /\ chs[x].parent \in Nat
      BY DEF Kept, Table
    <2>2. x # c
      BY <1>1, <1>3, <2>1
    <2>3. x >= c + 1
      BY <1>3, <2>1, <2>2
    <2> QED BY <1>3, <2>3 DEF Lists
  <1> QED BY <1>2, <1>3 DEF Lists

\* What stands behind the first 1 + n of 1 + n + m.
LEMMA Behind ==
  ASSUME NEW n \in Nat, NEW m \in Nat, NEW i \in 1 .. 1 + n + m, i > 1 + n
  PROVE  \E k \in 1 .. m : i = 1 + n + k
PROOF
  <1>1. i - (1 + n) \in 1 .. m
    OBVIOUS
  <1>2. i = 1 + n + (i - (1 + n))
    OBVIOUS
  <1> QED BY <1>1, <1>2

\* A channel, what is below it and then its younger siblings make one listing.
LEMMA Grows ==
  ASSUME NEW chs, NEW last, Table(chs, last), NEW c \in Kept(chs), NEW q, q = chs[c].parent,
         NEW f, NEW o, Lists(chs, c + 1, c, f, o),
         NEW g, NEW w, Lists(chs, c + 1, q, g, w)
  PROVE  \E ord : Lists(chs, c, q, Beside(Above(chs[c].name, f), g), ord)
PROOF
  <1> DEFINE n == Len(f)
             m == Len(g)
             E == EntriesOf(chs)
  <1>1. PICK file : file = Beside(Above(chs[c].name, f), g)
    OBVIOUS
  <1>2. PICK ord : ord = [i \in 1 .. 1 + n + m |->
                            IF i = 1 THEN c ELSE IF i =< 1 + n THEN o[i - 1] ELSE w[i - 1 - n]]
    OBVIOUS
  <1>3. c \in Nat /\ q \in Nat /\ q < c /\ c \in DOMAIN chs
    BY DEF Kept, Table
  <1>4. /\ n \in Nat /\ DOMAIN f = 1 .. n
        /\ \A k \in 1 .. n : f[k].up \in Nat /\ o[k] \in Kept(chs) /\ o[k] \in Nat /\ o[k] > c
    BY <1>3, ListIs
  <1>5. /\ m \in Nat /\ DOMAIN g = 1 .. m
        /\ \A k \in 1 .. m : g[k].up \in Nat /\ w[k] \in Kept(chs) /\ w[k] \in Nat /\ w[k] > c
    <2>1. \A k \in DOMAIN g : w[k] >= c + 1 /\ w[k] \in Nat
      BY <1>3, ListIs
    <2>2. /\ m \in Nat /\ DOMAIN g = 1 .. m
          /\ \A k \in 1 .. m : g[k].up \in Nat /\ w[k] \in Kept(chs) /\ w[k] \in Nat
      BY <1>3, ListIs
    <2>3. ASSUME NEW k \in 1 .. m
          PROVE  w[k] > c
      <3>1. w[k] >= c + 1 /\ w[k] \in Nat
        BY <2>1, <2>2
      <3> QED BY <1>3, <3>1
    <2> QED BY <2>2, <2>3
  <1>0. n \in Nat /\ m \in Nat
    BY <1>4, <1>5
  <1>6. /\ file \in Seq(E) /\ Len(file) = 1 + n + m
        /\ file[1].name = chs[c].name /\ file[1].up = 0
        /\ \A k \in 1 .. n : file[1 + k].name = f[k].name /\ file[1 + k].up = f[k].up + 1
        /\ \A k \in 1 .. m :
             /\ file[1 + n + k].name = g[k].name
             /\ g[k].up = 0 => file[1 + n + k].up = 0
             /\ g[k].up # 0 => file[1 + n + k].up = g[k].up + (1 + n)
    <2>1. f \in Seq(E) /\ g \in Seq(E)
      BY DEF Lists
    <2>2. PICK s \in Seq(E) :
            /\ s = Above(chs[c].name, f) /\ Len(s) = 1 + n
            /\ s[1].name = chs[c].name /\ s[1].up = 0
            /\ \A k \in 1 .. n : s[1 + k].name = f[k].name /\ s[1 + k].up = f[k].up + 1
      BY <1>3, <2>1, AboveIs
    <2>5. file = Beside(s, g)
      BY <1>1, <2>2
    <2>3. file \in Seq(E) /\ Spliced(s, g, file)
      BY <2>1, <2>5, BesideIs
    <2>4. file[1] = s[1] /\ \A k \in 1 .. n : file[1 + k] = s[1 + k]
      <3>1. 1 \in 1 .. Len(s) /\ \A k \in 1 .. n : 1 + k \in 1 .. Len(s)
        BY <1>4, <2>2
      <3> QED BY <2>3, <3>1 DEF Spliced
    <2>6. Len(file) = 1 + n + m
      BY <2>2, <2>3 DEF Spliced
    <2>7. ASSUME NEW k \in 1 .. m
          PROVE  /\ file[1 + n + k].name = g[k].name
                 /\ g[k].up = 0 => file[1 + n + k].up = 0
                 /\ g[k].up # 0 => file[1 + n + k].up = g[k].up + (1 + n)
      BY <2>2, <2>3 DEF Spliced
    <2> QED BY <2>2, <2>3, <2>4, <2>6, <2>7
  <1> HIDE DEF n, m, E
  <1>7. DOMAIN file = 1 .. 1 + n + m
    BY <1>4, <1>5, <1>6
  <1>8. /\ DOMAIN ord = DOMAIN file
        /\ ord[1] = c
        /\ \A k \in 1 .. n : ord[1 + k] = o[k]
        /\ \A k \in 1 .. m : ord[1 + n + k] = w[k]
    <2>1. DOMAIN ord = DOMAIN file /\ ord[1] = c
      BY <1>2, <1>4, <1>5, <1>7
    <2>2. ASSUME NEW k \in 1 .. n
          PROVE  ord[1 + k] = o[k]
      <3>1. 1 + k \in 1 .. 1 + n + m /\ 1 + k # 1 /\ 1 + k =< 1 + n /\ (1 + k) - 1 = k
        BY <1>4, <1>5
      <3> QED BY <1>2, <3>1
    <2>3. ASSUME NEW k \in 1 .. m
          PROVE  ord[1 + n + k] = w[k]
      <3>1. /\ 1 + n + k \in 1 .. 1 + n + m /\ 1 + n + k # 1 /\ ~(1 + n + k =< 1 + n)
            /\ (1 + n + k) - 1 - n = k
        BY <1>4, <1>5
      <3> QED BY <1>2, <3>1
    <2> QED BY <2>1, <2>2, <2>3
  <1>9. \A i \in DOMAIN file :
          i = 1 \/ (\E k \in 1 .. n : i = 1 + k) \/ \E k \in 1 .. m : i = 1 + n + k
    <2> TAKE i \in DOMAIN file
    <2>1. CASE i = 1
      BY <2>1
    <2>2. CASE i # 1 /\ i =< 1 + n
      <3>1. i - 1 \in 1 .. n /\ i = 1 + (i - 1)
        BY <1>4, <1>5, <1>7, <2>2
      <3> QED BY <3>1
    <2>3. CASE i # 1 /\ i > 1 + n
      <3>1. i \in 1 .. 1 + n + m
        BY <1>7
      <3>2. \E k \in 1 .. m : i = 1 + n + k
        BY <1>4, <1>5, <2>3, <3>1, Behind
      <3> QED BY <3>2
    <2> QED BY <1>4, <1>5, <1>7, <2>1, <2>2, <2>3
  <1>10. /\ 1 \in DOMAIN file
         /\ \A k \in 1 .. n : 1 + k \in DOMAIN file
         /\ \A k \in 1 .. m : 1 + n + k \in DOMAIN file
    BY <1>4, <1>5, <1>7
  <1>11. ord \in [DOMAIN file -> {x \in Kept(chs) : x >= c /\ x > q}]
    <2>1. ASSUME NEW i \in DOMAIN file
          PROVE  ord[i] \in {x \in Kept(chs) : x >= c /\ x > q}
      <3>1. CASE i = 1
        BY <1>3, <1>8, <3>1
      <3>2. CASE \E k \in 1 .. n : i = 1 + k
        <4>1. PICK k \in 1 .. n : i = 1 + k
          BY <3>2
        <4>2. o[k] >= c /\ o[k] > q /\ o[k] \in Kept(chs)
          BY <1>3, <1>4
        <4> QED BY <1>8, <4>1, <4>2
      <3>3. CASE \E k \in 1 .. m : i = 1 + n + k
        <4>1. PICK k \in 1 .. m : i = 1 + n + k
          BY <3>3
        <4>2. w[k] >= c /\ w[k] > q /\ w[k] \in Kept(chs)
          BY <1>3, <1>5
        <4> QED BY <1>8, <4>1, <4>2
      <3> QED BY <1>9, <3>1, <3>2, <3>3
    <2>2. ord = [i \in DOMAIN file |-> ord[i]]
      BY <1>2, <1>8
    <2> QED BY <2>1, <2>2
  <1>12. ASSUME NEW i \in DOMAIN file
         PROVE  /\ file[i].name = chs[ord[i]].name
                /\ file[i].up < i
                /\ chs[ord[i]].parent = IF file[i].up = 0 THEN q ELSE ord[file[i].up]
    <2>1. CASE i = 1
      BY <1>6, <1>8, <2>1
    <2>2. CASE \E k \in 1 .. n : i = 1 + k
      <3>1. PICK k \in 1 .. n : i = 1 + k
        BY <2>2
      <3>2. /\ f[k].name = chs[o[k]].name /\ f[k].up < k
            /\ chs[o[k]].parent = IF f[k].up = 0 THEN c ELSE o[f[k].up]
        BY <1>4 DEF Lists
      <3>3. file[i].name = f[k].name /\ file[i].up = f[k].up + 1 /\ ord[i] = o[k]
        BY <1>6, <1>8, <3>1
      <3>4. f[k].up \in Nat /\ k \in Nat /\ (f[k].up # 0 => f[k].up \in 1 .. n)
        BY <1>4, <3>2
      <3>5. file[i].up < i /\ file[i].up # 0
        BY <3>1, <3>2, <3>3, <3>4
      <3>6. ord[file[i].up] = IF f[k].up = 0 THEN c ELSE o[f[k].up]
        <4>1. CASE f[k].up = 0
          BY <1>8, <3>3, <4>1
        <4>2. CASE f[k].up # 0
          <5>1. file[i].up = 1 + f[k].up
            BY <3>3, <3>4
          <5> QED BY <1>8, <3>4, <4>2, <5>1
        <4> QED BY <4>1, <4>2
      <3> QED BY <3>2, <3>3, <3>5, <3>6
    <2>3. CASE \E k \in 1 .. m : i = 1 + n + k
      <3>1. PICK k \in 1 .. m : i = 1 + n + k
        BY <2>3
      <3>2. /\ g[k].name = chs[w[k]].name /\ g[k].up < k
            /\ chs[w[k]].parent = IF g[k].up = 0 THEN q ELSE w[g[k].up]
        BY <1>5 DEF Lists
      <3>3. /\ file[i].name = g[k].name /\ ord[i] = w[k]
            /\ file[i].up = IF g[k].up = 0 THEN 0 ELSE g[k].up + (1 + n)
        BY <1>6, <1>8, <3>1
      <3>4. g[k].up \in Nat /\ k \in Nat /\ (g[k].up # 0 => g[k].up \in 1 .. m)
        BY <1>5, <3>2
      <3>5. file[i].up < i /\ (g[k].up # 0 => file[i].up # 0)
        BY <1>0, <3>1, <3>2, <3>3, <3>4
      <3>6. g[k].up # 0 => ord[file[i].up] = w[g[k].up]
        <4>1. g[k].up # 0 => file[i].up = 1 + n + g[k].up
          BY <1>0, <3>3, <3>4
        <4> QED BY <1>8, <3>4, <4>1
      <3> QED BY <3>2, <3>3, <3>5, <3>6
    <2> QED BY <1>9, <2>1, <2>2, <2>3
  <1>13. \A i, j \in DOMAIN file : ord[i] = ord[j] => i = j
    <2> SUFFICES ASSUME NEW i \in DOMAIN file, NEW j \in DOMAIN file, ord[i] = ord[j], i < j
                 PROVE  FALSE
      BY <1>0, <1>7
    <2>1. CASE i = 1
      <3>1. (\E k \in 1 .. n : ord[j] = o[k]) \/ \E k \in 1 .. m : ord[j] = w[k]
        BY <1>8, <1>9, <2>1
      <3> QED BY <1>3, <1>4, <1>5, <1>8, <2>1, <3>1
    <2>2. CASE \E k \in 1 .. n : i = 1 + k
      <3>1. PICK k \in 1 .. n : i = 1 + k /\ ord[i] = o[k]
        BY <1>8, <2>2
      <3>2. CASE \E l \in 1 .. n : j = 1 + l
        <4>1. PICK l \in 1 .. n : j = 1 + l /\ ord[j] = o[l]
          BY <1>8, <3>2
        <4>2. k = l
          <5>1. k \in DOMAIN f /\ l \in DOMAIN f /\ o[k] = o[l]
            BY <1>4, <3>1, <4>1
          <5> QED BY <5>1 DEF Lists
        <4> QED BY <1>4, <3>1, <4>1, <4>2
      <3>3. CASE \E l \in 1 .. m : j = 1 + n + l
        <4>1. PICK l \in 1 .. m : ord[j] = w[l]
          BY <1>8, <3>3
        <4>2. k \in DOMAIN f /\ l \in DOMAIN g
          BY <1>4, <1>5
        <4>3. o[k] # w[l]
          BY <1>3, <4>2, Apart
        <4> QED BY <3>1, <4>1, <4>3
      <3> QED BY <1>4, <1>9, <3>1, <3>2, <3>3
    <2>3. CASE \E k \in 1 .. m : i = 1 + n + k
      <3>1. PICK k \in 1 .. m : i = 1 + n + k /\ ord[i] = w[k]
        BY <1>8, <2>3
      <3>2. PICK l \in 1 .. m : j = 1 + n + l /\ ord[j] = w[l]
        <4>1. j # 1 /\ \A l \in 1 .. n : j # 1 + l
          BY <1>4, <1>5, <3>1
        <4> QED BY <1>8, <1>9, <4>1
      <3>3. k = l
        <4>1. k \in DOMAIN g /\ l \in DOMAIN g /\ w[k] = w[l]
          BY <1>5, <3>1, <3>2
        <4> QED BY <4>1 DEF Lists
      <3> QED BY <1>4, <1>5, <3>1, <3>2, <3>3
    <2> QED BY <1>9, <2>1, <2>2, <2>3
  <1>14. \A i, j \in DOMAIN file :
           /\ file[j].up < i /\ i < j => file[i].up >= file[j].up
           /\ i < j /\ file[i].up = file[j].up => ord[i] < ord[j]
    <2> SUFFICES ASSUME NEW i \in DOMAIN file, NEW j \in DOMAIN file, i < j
                 PROVE  /\ file[j].up < i => file[i].up >= file[j].up
                        /\ file[i].up = file[j].up => ord[i] < ord[j]
      OBVIOUS
    <2>1. CASE i = 1
      <3>1. CASE \E l \in 1 .. n : j = 1 + l
        <4>1. PICK l \in 1 .. n : file[j].up = f[l].up + 1
          BY <1>6, <3>1
        <4>2. f[l].up \in Nat
          BY <1>4
        <4> QED BY <1>6, <2>1, <4>1, <4>2
      <3>2. CASE \E l \in 1 .. m : j = 1 + n + l
        <4>1. PICK l \in 1 .. m : /\ file[j].up = IF g[l].up = 0 THEN 0 ELSE g[l].up + (1 + n)
                                  /\ ord[j] = w[l]
          BY <1>6, <1>8, <3>2
        <4>2. g[l].up \in Nat /\ w[l] > c /\ w[l] \in Nat
          BY <1>5
        <4>3. file[i].up = 0 /\ ord[i] = c
          BY <1>6, <1>8, <2>1
        <4>4. file[j].up < i => file[j].up = 0
          BY <1>4, <2>1, <4>1, <4>2
        <4>5. c < w[l]
          BY <1>3, <4>2
        <4> QED BY <4>1, <4>3, <4>4, <4>5
      <3> QED BY <1>9, <2>1, <3>1, <3>2
    <2>2. CASE \E k \in 1 .. n : i = 1 + k
      <3>1. PICK k \in 1 .. n : i = 1 + k /\ ord[i] = o[k] /\ file[i].up = f[k].up + 1
        BY <1>6, <1>8, <2>2
      <3>2. k \in Nat /\ f[k].up \in Nat /\ f[k].up < k
        <4>1. k \in DOMAIN f /\ k \in Nat /\ f[k].up \in Nat
          BY <1>4
        <4>2. f[k].up < k
          BY <4>1 DEF Lists
        <4> QED BY <4>1, <4>2
      <3>3. CASE \E l \in 1 .. n : j = 1 + l
        <4>1. PICK l \in 1 .. n : j = 1 + l /\ ord[j] = o[l] /\ file[j].up = f[l].up + 1
          BY <1>6, <1>8, <3>3
        <4>2. l \in Nat /\ f[l].up \in Nat /\ k < l
          BY <1>4, <3>1, <3>2, <4>1
        <4>3. f[l].up < k => f[k].up >= f[l].up
          BY <1>4, <4>2 DEF Lists
        <4>4. f[k].up = f[l].up => o[k] < o[l]
          BY <1>4, <4>2 DEF Lists
        <4>5. file[j].up < i => f[l].up < k
          BY <3>1, <3>2, <4>1, <4>2
        <4>6. f[k].up >= f[l].up => file[i].up >= file[j].up
          BY <3>1, <3>2, <4>1, <4>2
        <4>7. file[i].up = file[j].up => f[k].up = f[l].up
          BY <3>1, <3>2, <4>1, <4>2
        <4> QED BY <3>1, <4>1, <4>3, <4>4, <4>5, <4>6, <4>7
      <3>4. CASE \E l \in 1 .. m : j = 1 + n + l
        <4>1. PICK l \in 1 .. m : file[j].up = IF g[l].up = 0 THEN 0 ELSE g[l].up + (1 + n)
          BY <1>6, <3>4
        <4>2. g[l].up \in Nat /\ k =< n
          BY <1>4, <1>5
        <4>3. file[j].up = 0 \/ file[j].up > 1 + n
          BY <1>4, <4>1, <4>2
        <4>4. file[j].up < i => file[j].up = 0
          BY <1>0, <3>1, <3>2, <4>1, <4>2, <4>3
        <4>5. file[i].up # file[j].up /\ file[i].up >= 0
          BY <1>0, <3>1, <3>2, <4>2, <4>3
        <4> QED BY <4>4, <4>5
      <3> QED BY <1>4, <1>9, <3>1, <3>2, <3>3, <3>4
    <2>3. CASE \E k \in 1 .. m : i = 1 + n + k
      <3>1. PICK k \in 1 .. m : /\ i = 1 + n + k /\ ord[i] = w[k]
                                /\ file[i].up = IF g[k].up = 0 THEN 0 ELSE g[k].up + (1 + n)
        BY <1>6, <1>8, <2>3
      <3>2. PICK l \in 1 .. m : /\ j = 1 + n + l /\ ord[j] = w[l]
                                /\ file[j].up = IF g[l].up = 0 THEN 0 ELSE g[l].up + (1 + n)
        <4>1. j # 1 /\ \A l \in 1 .. n : j # 1 + l
          BY <1>4, <1>5, <3>1
        <4>2. PICK l \in 1 .. m : j = 1 + n + l
          BY <1>9, <4>1
        <4>3. file[j].up = IF g[l].up = 0 THEN 0 ELSE g[l].up + (1 + n)
          BY <1>6, <4>2
        <4> QED BY <1>8, <4>2, <4>3
      <3>3. k \in Nat /\ l \in Nat /\ k < l /\ g[k].up \in Nat /\ g[l].up \in Nat
        BY <1>4, <1>5, <3>1, <3>2
      <3>4. g[l].up < k => g[k].up >= g[l].up
        BY <1>5, <3>3 DEF Lists
      <3>5. g[k].up = g[l].up => w[k] < w[l]
        BY <1>5, <3>3 DEF Lists
      <3>6. file[j].up < i => g[l].up = 0 \/ g[l].up < k
        BY <1>0, <3>1, <3>2, <3>3
      <3>7. g[k].up >= g[l].up => file[i].up >= file[j].up
        BY <1>0, <3>1, <3>2, <3>3
      <3>8. file[i].up = file[j].up => g[k].up = g[l].up
        BY <1>0, <3>1, <3>2, <3>3
      <3>9. g[l].up = 0 => g[k].up >= g[l].up
        BY <3>3
      <3> QED BY <3>1, <3>2, <3>4, <3>5, <3>6, <3>7, <3>8, <3>9
    <2> QED BY <1>9, <2>1, <2>2, <2>3
  <1>15. ASSUME NEW x \in Kept(chs), x >= c,
                chs[x].parent = q \/ \E i \in DOMAIN file : ord[i] = chs[x].parent
         PROVE  \E i \in DOMAIN file : ord[i] = x
    <2>0. x \in Nat
      BY DEF Kept, Table
    <2>1. CASE x = c
      BY <1>8, <1>10, <2>1
    <2>2. CASE x # c
      <3>0. x >= c + 1
        BY <1>3, <1>15, <2>0, <2>2
      <3>1. CASE chs[x].parent = c \/ \E k \in 1 .. n : o[k] = chs[x].parent
        <4>1. PICK k \in 1 .. n : o[k] = x
          BY <1>4, <3>0, <3>1 DEF Lists
        <4> QED BY <1>8, <1>10, <4>1
      <3>2. CASE chs[x].parent = q \/ \E k \in 1 .. m : w[k] = chs[x].parent
        <4>1. PICK k \in 1 .. m : w[k] = x
          BY <1>5, <3>0, <3>2 DEF Lists
        <4> QED BY <1>8, <1>10, <4>1
      <3> QED BY <1>8, <1>9, <1>15, <3>1, <3>2
    <2> QED BY <2>1, <2>2
  <1>16. file \in Seq(EntriesOf(chs))
    BY <1>6 DEF E
  <1>17. Lists(chs, c, q, file, ord)
    BY <1>11, <1>12, <1>13, <1>14, <1>15, <1>16 DEF Lists
  <1> QED BY <1>1, <1>17

\* The subtrees from the last channel down.
LEMMA SubtreesAre ==
  ASSUME NEW chs, NEW last \in Nat
  PROVE  /\ Subtrees(chs, last)[last + 1] = [p \in 0 .. last |-> <<>>]
         /\ \A c \in 1 .. last :
              Subtrees(chs, last)[c] = WithChannel(chs, c, Subtrees(chs, last)[c + 1])
PROOF
  <1> DEFINE none == [p \in 0 .. last |-> <<>>]
             Defined(k) ==
               \E g : g = [c \in last + 1 - k .. last + 1 |->
                             IF c = last + 1 THEN none ELSE WithChannel(chs, c, g[c + 1])]
             T == {k \in 0 .. last : Defined(k)}
             u == CHOOSE g : g = [c \in 1 .. last + 1 |->
                                    IF c = last + 1 THEN none ELSE WithChannel(chs, c, g[c + 1])]
  <1>1. Subtrees(chs, last) = u
    BY DEF Subtrees
  <1> HIDE DEF none
  <1>2. 0 \in T
    <2> DEFINE g == [c \in last + 1 - 0 .. last + 1 |-> none]
    <2>1. \A c \in last + 1 - 0 .. last + 1 : c = last + 1
      OBVIOUS
    <2>2. g = [c \in last + 1 - 0 .. last + 1 |->
                 IF c = last + 1 THEN none ELSE WithChannel(chs, c, g[c + 1])]
      BY <2>1
    <2>3. Defined(0)
      <3> HIDE DEF g
      <3> QED BY <2>2
    <2> QED BY <2>3
  <1>3. ASSUME NEW k \in 0 .. last - 1, k \in T
        PROVE  k + 1 \in T
    <2>1. PICK g : g = [c \in last + 1 - k .. last + 1 |->
                          IF c = last + 1 THEN none ELSE WithChannel(chs, c, g[c + 1])]
      BY <1>3
    <2>2. PICK d \in 1 .. last : d = last - k
      OBVIOUS
    <2>3. last + 1 - k = d + 1 /\ last + 1 - (k + 1) = d
      BY <2>2
    <2>4. PICK h : h = [c \in d .. last + 1 |-> IF c = d THEN WithChannel(chs, d, g[d + 1]) ELSE g[c]]
      OBVIOUS
    <2>5. ASSUME NEW c \in d .. last + 1
          PROVE  h[c] = IF c = last + 1 THEN none ELSE WithChannel(chs, c, h[c + 1])
      <3>1. d # last + 1 /\ d \in Nat
        BY <2>2
      <3>2. CASE c = d
        <4>1. d + 1 \in d .. last + 1 /\ d + 1 # d
          BY <2>2
        <4>2. h[d + 1] = g[d + 1] /\ h[d] = WithChannel(chs, d, g[d + 1])
          BY <2>4, <4>1
        <4> QED BY <3>1, <3>2, <4>2
      <3>3. CASE c # d
        <4>1. c \in d + 1 .. last + 1
          BY <2>2, <3>3
        <4>2. h[c] = g[c]
          BY <2>4, <3>3
        <4>3. g[c] = IF c = last + 1 THEN none ELSE WithChannel(chs, c, g[c + 1])
          BY <2>1, <2>3, <4>1
        <4>4. c # last + 1 => c + 1 \in d .. last + 1 /\ c + 1 # d
          BY <2>2, <4>1
        <4>5. c # last + 1 => h[c + 1] = g[c + 1]
          BY <2>4, <4>4
        <4> QED BY <4>2, <4>3, <4>5
      <3> QED BY <3>2, <3>3
    <2>6. h = [c \in d .. last + 1 |->
                 IF c = last + 1 THEN none ELSE WithChannel(chs, c, h[c + 1])]
      <3>1. h = [c \in d .. last + 1 |-> h[c]]
        BY <2>4
      <3> QED BY <2>5, <3>1
    <2>7. Defined(k + 1)
      BY <2>3, <2>6
    <2>8. k + 1 \in 0 .. last
      OBVIOUS
    <2> QED BY <2>7, <2>8
  <1>4. last \in T
    <2> HIDE DEF T
    <2>1. 0 .. last \subseteq T
      BY <1>2, <1>3, Climb
    <2> QED BY <2>1
  <1>5. PICK g : g = [c \in 1 .. last + 1 |->
                        IF c = last + 1 THEN none ELSE WithChannel(chs, c, g[c + 1])]
    <2>1. last + 1 - last = 1
      OBVIOUS
    <2> QED BY <1>4, <2>1
  <1>6. u = [c \in 1 .. last + 1 |->
               IF c = last + 1 THEN none ELSE WithChannel(chs, c, u[c + 1])]
    BY <1>5, Zenon
  <1> HIDE DEF u
  <1>7. \A c \in 1 .. last : c \in 1 .. last + 1 /\ c # last + 1
    OBVIOUS
  <1>8. last + 1 \in 1 .. last + 1
    OBVIOUS
  <1> QED BY <1>1, <1>6, <1>7, <1>8 DEF none

\* What is below a channel comes after it: the loop for c appends nothing up to c.
LEMMA NothingBefore ==
  ASSUME NEW chs, NEW last, Table(chs, last), NEW c \in 1 .. last
  PROVE  Subtrees(chs, last)[c + 1][c] = Subtrees(chs, last)[1][c]
PROOF
  <1>1. PICK s : s = Subtrees(chs, last)
    OBVIOUS
  <1>2. last \in Nat /\ c \in Nat /\ \A d \in 1 .. last : s[d] = WithChannel(chs, d, s[d + 1])
    <2>1. last \in Nat
      BY DEF Table
    <2>2. /\ Subtrees(chs, last)[last + 1] = [p \in 0 .. last |-> <<>>]
          /\ \A d \in 1 .. last :
               Subtrees(chs, last)[d] = WithChannel(chs, d, Subtrees(chs, last)[d + 1])
      BY <2>1, SubtreesAre
    <2> QED BY <1>1, <2>1, <2>2
  <1> DEFINE T == {k \in 0 .. c : s[c + 1 - k][c] = s[c + 1][c]}
  <1>3. 0 \in T
    <2>1. c + 1 - 0 = c + 1
      BY <1>2
    <2> QED BY <1>2, <2>1
  <1>4. ASSUME NEW k \in 0 .. c - 1, k \in T
        PROVE  k + 1 \in T
    <2>1. PICK d \in 1 .. last : d = c - k
      BY <1>2
    <2>2. c + 1 - k = d + 1 /\ c + 1 - (k + 1) = d /\ k + 1 \in 0 .. c /\ d =< c
      BY <1>2, <2>1
    <2>3. s[d][c] = s[d + 1][c]
      <3>1. CASE d \in DOMAIN chs /\ ~chs[d].temp
        <4>1. PICK q : q = chs[d].parent
          OBVIOUS
        <4>2. q # c
          BY <1>2, <2>1, <2>2, <3>1, <4>1 DEF Table
        <4>3. PICK b : b = s[d + 1]
          OBVIOUS
        <4>4. s[d] = [b EXCEPT ![q] = Beside(Above(chs[d].name, b[d]), b[q])]
          BY <1>2, <3>1, <4>1, <4>3 DEF WithChannel
        <4> QED BY <4>2, <4>3, <4>4
      <3>2. CASE ~(d \in DOMAIN chs /\ ~chs[d].temp)
        BY <1>2, <3>2 DEF WithChannel
      <3> QED BY <3>1, <3>2
    <2> QED BY <1>4, <2>2, <2>3
  <1>5. c \in T
    <2> HIDE DEF T
    <2>1. 0 .. c \subseteq T
      BY <1>2, <1>3, <1>4, Climb
    <2> QED BY <1>2, <2>1
  <1>6. c + 1 - c = 1
    BY <1>2
  <1> QED BY <1>1, <1>5, <1>6

(***************************************************************************)
(* Running the loops of all calls of buildChannelTree at once computes the *)
(* recursion in config.go: the loop of the call for parent p goes over the *)
(* channels in order, and for one that is permanent and below p appends an *)
(* entry with what the whole call for that channel returns.                *)
(***************************************************************************)
THEOREM BuildsChannelTree ==
  ASSUME NEW chs, NEW last, Table(chs, last), NEW p \in 0 .. last
  PROVE  /\ Subtrees(chs, last)[last + 1][p] = <<>>
         /\ \A c \in 1 .. last :
              Subtrees(chs, last)[c][p] =
                IF c \in Kept(chs) /\ chs[c].parent = p
                THEN Beside(Above(chs[c].name, Subtrees(chs, last)[1][c]),
                            Subtrees(chs, last)[c + 1][p])
                ELSE Subtrees(chs, last)[c + 1][p]
PROOF
  <1>1. PICK s : s = Subtrees(chs, last)
    OBVIOUS
  <1>2. /\ last \in Nat
        /\ s[last + 1] = [x \in 0 .. last |-> <<>>]
        /\ \A c \in 1 .. last : s[c] = WithChannel(chs, c, s[c + 1])
    <2>1. last \in Nat
      BY DEF Table
    <2>2. /\ Subtrees(chs, last)[last + 1] = [x \in 0 .. last |-> <<>>]
          /\ \A c \in 1 .. last :
               Subtrees(chs, last)[c] = WithChannel(chs, c, Subtrees(chs, last)[c + 1])
      BY <2>1, SubtreesAre
    <2> QED BY <1>1, <2>1, <2>2
  <1> DEFINE T == {k \in 0 .. last : DOMAIN s[last + 1 - k] = 0 .. last}
  <1>3. 0 .. last \subseteq T
    <2>1. 0 \in T
      <3>1. last + 1 - 0 = last + 1
        BY <1>2
      <3> QED BY <1>2, <3>1
    <2>2. ASSUME NEW k \in 0 .. last - 1, k \in T
          PROVE  k + 1 \in T
      <3>1. PICK c \in 1 .. last : c = last - k
        BY <1>2
      <3>2. last + 1 - k = c + 1 /\ last + 1 - (k + 1) = c /\ k + 1 \in 0 .. last
        BY <1>2, <3>1
      <3>3. DOMAIN s[c] = DOMAIN s[c + 1]
        BY <1>2 DEF WithChannel
      <3> QED BY <2>2, <3>2, <3>3
    <2> HIDE DEF T
    <2> QED BY <1>2, <2>1, <2>2, Climb
  <1>4. ASSUME NEW c \in 1 .. last
        PROVE  s[c][p] = IF c \in Kept(chs) /\ chs[c].parent = p
                         THEN Beside(Above(chs[c].name, s[1][c]), s[c + 1][p])
                         ELSE s[c + 1][p]
    <2>1. PICK b : b = s[c + 1]
      OBVIOUS
    <2>2. DOMAIN b = 0 .. last
      <3>1. PICK k \in 0 .. last : k = last - c
        BY <1>2
      <3>2. last + 1 - k = c + 1
        BY <1>2, <3>1
      <3> QED BY <1>3, <2>1, <3>2
    <2>3. b[c] = s[1][c]
      BY <1>1, <2>1, NothingBefore
    <2>4. CASE c \in Kept(chs)
      <3>1. PICK q : q = chs[c].parent
        OBVIOUS
      <3>2. s[c] = [b EXCEPT ![q] = Beside(Above(chs[c].name, b[c]), b[q])]
        BY <1>2, <2>1, <2>4, <3>1 DEF WithChannel, Kept
      <3> QED BY <2>1, <2>2, <2>3, <2>4, <3>1, <3>2
    <2>5. CASE c \notin Kept(chs)
      BY <1>2, <2>1, <2>5 DEF WithChannel, Kept
    <2> QED BY <2>4, <2>5
  <1> QED BY <1>1, <1>2, <1>4

\* A listing of nothing.
LEMMA ListsNothing ==
  ASSUME NEW chs, NEW last, Table(chs, last), NEW p
  PROVE  Lists(chs, last + 1, p, <<>>, <<>>)
PROOF
  <1>1. \A x \in Kept(chs) : ~(x >= last + 1)
    BY DEF Kept, Table
  <1>2. DOMAIN (<< >>) = {} /\ << >> \in Seq(EntriesOf(chs))
    OBVIOUS
  <1>3. << >> \in [{} -> {x \in Kept(chs) : x >= last + 1 /\ x > p}]
    OBVIOUS
  <1> QED BY <1>1, <1>2, <1>3 DEF Lists

\* Every subtree is a listing.
LEMMA SubtreesList ==
  ASSUME NEW chs, NEW last, Table(chs, last), NEW p \in 0 .. last
  PROVE  \E ord : Lists(chs, 1, p, Subtrees(chs, last)[1][p], ord)
PROOF
  <1> DEFINE Listing(c, b) ==
               /\ b = [x \in 0 .. last |-> b[x]]
               /\ \A x \in 0 .. last : \E ord : Lists(chs, c, x, b[x], ord)
             T == {k \in 0 .. last : Listing(last + 1 - k, Subtrees(chs, last)[last + 1 - k])}
  <1>0. last \in Nat
    BY DEF Table
  <1>5. /\ Subtrees(chs, last)[last + 1] = [x \in 0 .. last |-> <<>>]
        /\ \A c \in 1 .. last :
             Subtrees(chs, last)[c] = WithChannel(chs, c, Subtrees(chs, last)[c + 1])
    BY <1>0, SubtreesAre
  <1>1. 0 \in T
    <2>1. last + 1 - 0 = last + 1
      BY <1>0
    <2>2. Listing(last + 1, [x \in 0 .. last |-> <<>>])
      BY ListsNothing
    <2>3. Listing(last + 1, Subtrees(chs, last)[last + 1])
      BY <1>5, <2>2
    <2> HIDE DEF Listing
    <2> QED BY <1>0, <2>1, <2>3
  <1>2. ASSUME NEW k \in 0 .. last - 1, k \in T
        PROVE  k + 1 \in T
    <2>1. PICK c \in 1 .. last : c = last - k
      BY <1>0
    <2>2. last + 1 - k = c + 1 /\ last + 1 - (k + 1) = c /\ k + 1 \in 0 .. last
      BY <1>0, <2>1
    <2>3. PICK b : b = Subtrees(chs, last)[c + 1]
      OBVIOUS
    <2>4. /\ b = [x \in 0 .. last |-> b[x]]
          /\ \A x \in 0 .. last : \E ord : Lists(chs, c + 1, x, b[x], ord)
      BY <1>2, <2>2, <2>3
    <2>9. Subtrees(chs, last)[c] = WithChannel(chs, c, Subtrees(chs, last)[c + 1])
      BY <1>5
    <2>5. PICK d : d = WithChannel(chs, c, b) /\ d = Subtrees(chs, last)[c]
      BY <2>3, <2>9
    <2>6. c \in Nat
      BY <1>0
    <2>7. CASE c \in Kept(chs)
      <3>1. PICK q : q = chs[c].parent
        OBVIOUS
      <3>2. q \in 0 .. last /\ c \in 0 .. last
        BY <1>0, <2>7, <3>1 DEF Kept, Table
      <3>3. d = [b EXCEPT ![q] = Beside(Above(chs[c].name, b[c]), b[q])]
        BY <2>5, <2>7, <3>1 DEF WithChannel, Kept
      <3>4. /\ d = [x \in 0 .. last |-> d[x]]
            /\ d[q] = Beside(Above(chs[c].name, b[c]), b[q])
            /\ \A x \in 0 .. last : x # q => d[x] = b[x]
        BY <2>4, <3>2, <3>3
      <3>5. ASSUME NEW x \in 0 .. last
            PROVE  \E ord : Lists(chs, c, x, d[x], ord)
        <4>1. CASE x = q
          <5>1. PICK o : Lists(chs, c + 1, c, b[c], o)
            BY <2>4, <3>2
          <5>2. PICK w : Lists(chs, c + 1, q, b[q], w)
            BY <2>4, <3>2
          <5>3. \E ord : Lists(chs, c, q, Beside(Above(chs[c].name, b[c]), b[q]), ord)
            BY <2>7, <3>1, <5>1, <5>2, Grows
          <5> QED BY <3>4, <4>1, <5>3
        <4>2. CASE x # q
          <5>1. PICK o : Lists(chs, c + 1, x, b[x], o)
            BY <2>4
          <5>2. Lists(chs, c, x, b[x], o)
            <6>1. x \in Nat /\ chs[c].parent # x
              BY <1>0, <3>1, <4>2
            <6> QED BY <2>6, <5>1, <6>1, Stays
          <5> QED BY <3>4, <4>2, <5>2
        <4> QED BY <4>1, <4>2
      <3>6. Listing(c, d)
        BY <3>4, <3>5
      <3> HIDE DEF Listing
      <3> QED BY <2>2, <2>5, <3>6
    <2>8. CASE c \notin Kept(chs)
      <3>1. d = b
        BY <2>5, <2>8 DEF WithChannel, Kept
      <3>2. ASSUME NEW x \in 0 .. last
            PROVE  \E ord : Lists(chs, c, x, d[x], ord)
        <4>1. PICK o : Lists(chs, c + 1, x, b[x], o)
          BY <2>4
        <4>2. Lists(chs, c, x, b[x], o)
          BY <2>6, <2>8, <4>1, Stays
        <4> QED BY <3>1, <4>2
      <3>3. Listing(c, d)
        BY <2>4, <3>1, <3>2
      <3> HIDE DEF Listing
      <3> QED BY <2>2, <2>5, <3>3
    <2> QED BY <2>7, <2>8
  <1>3. last \in T
    <2> HIDE DEF T
    <2>1. 0 .. last \subseteq T
      BY <1>0, <1>1, <1>2, Climb
    <2> QED BY <1>0, <2>1
  <1>4. last + 1 - last = 1
    BY <1>0
  <1> QED BY <1>3, <1>4

\* The imports from the first entry on.
LEMMA ImportsAre ==
  ASSUME NEW file, NEW n \in Nat, n = Len(file), NEW store
  PROVE  /\ Imports(file, store)[0] =
              [rows |-> store, last |-> Max(DOMAIN store \cup {0}), ids |-> <<>>]
         /\ \A i \in 1 .. n :
              Imports(file, store)[i] = NextImported(Imports(file, store)[i - 1], file[i])
PROOF
  <1> DEFINE start == [rows |-> store, last |-> Max(DOMAIN store \cup {0}), ids |-> <<>>]
             Defined(k) ==
               \E g : g = [i \in 0 .. k |->
                             IF i = 0 THEN start ELSE NextImported(g[i - 1], file[i])]
             T == {k \in 0 .. n : Defined(k)}
             u == CHOOSE g : g = [i \in 0 .. n |->
                                    IF i = 0 THEN start ELSE NextImported(g[i - 1], file[i])]
  <1>1. Imports(file, store) = u
    BY DEF Imports
  <1> HIDE DEF start
  <1>2. 0 \in T
    <2> DEFINE g == [i \in 0 .. 0 |-> start]
    <2>1. \A i \in 0 .. 0 : i = 0
      OBVIOUS
    <2>2. g = [i \in 0 .. 0 |-> IF i = 0 THEN start ELSE NextImported(g[i - 1], file[i])]
      BY <2>1
    <2>3. Defined(0)
      <3> HIDE DEF g
      <3> QED BY <2>2
    <2> QED BY <2>3
  <1>3. ASSUME NEW k \in 0 .. n - 1, k \in T
        PROVE  k + 1 \in T
    <2>1. PICK g : g = [i \in 0 .. k |->
                          IF i = 0 THEN start ELSE NextImported(g[i - 1], file[i])]
      BY <1>3
    <2>2. PICK d \in 1 .. n : d = k + 1
      OBVIOUS
    <2>3. d - 1 \in 0 .. k /\ d \in 0 .. d /\ d - 1 \in 0 .. d /\ d - 1 # d /\ d # 0 /\ d \in 0 .. n
      BY <2>2
    <2>4. PICK h : h = [i \in 0 .. d |-> IF i = d THEN NextImported(g[d - 1], file[d]) ELSE g[i]]
      OBVIOUS
    <2>5. ASSUME NEW i \in 0 .. d
          PROVE  h[i] = IF i = 0 THEN start ELSE NextImported(h[i - 1], file[i])
      <3>1. CASE i = d
        <4>1. h[d - 1] = g[d - 1] /\ h[d] = NextImported(g[d - 1], file[d])
          BY <2>3, <2>4
        <4> QED BY <2>3, <3>1, <4>1
      <3>2. CASE i # d
        <4>1. i \in 0 .. k
          BY <2>2, <3>2
        <4>2. h[i] = g[i]
          BY <2>4, <3>2
        <4>3. g[i] = IF i = 0 THEN start ELSE NextImported(g[i - 1], file[i])
          BY <2>1, <4>1
        <4>4. i # 0 => i - 1 \in 0 .. d /\ i - 1 # d
          BY <2>2, <4>1
        <4>5. i # 0 => h[i - 1] = g[i - 1]
          BY <2>4, <4>4
        <4> QED BY <4>2, <4>3, <4>5
      <3> QED BY <3>1, <3>2
    <2>6. h = [i \in 0 .. d |-> IF i = 0 THEN start ELSE NextImported(h[i - 1], file[i])]
      <3>1. h = [i \in 0 .. d |-> h[i]]
        BY <2>4
      <3> QED BY <2>5, <3>1
    <2>7. Defined(k + 1)
      BY <2>2, <2>6
    <2> QED BY <2>2, <2>3, <2>7
  <1>4. n \in T
    <2> HIDE DEF T
    <2>1. 0 .. n \subseteq T
      BY <1>2, <1>3, Climb
    <2> QED BY <2>1
  <1>5. PICK g : g = [i \in 0 .. n |->
                        IF i = 0 THEN start ELSE NextImported(g[i - 1], file[i])]
    BY <1>4
  <1>6. u = [i \in 0 .. n |-> IF i = 0 THEN start ELSE NextImported(u[i - 1], file[i])]
    BY <1>5, Zenon
  <1> HIDE DEF u
  <1>7. \A i \in 1 .. n : i \in 0 .. n /\ i # 0
    OBVIOUS
  <1>8. 0 \in 0 .. n
    OBVIOUS
  <1> QED BY <1>1, <1>6, <1>7, <1>8 DEF start

\* Append makes the first n + 1 values of the first n.
LEMMA AppendIs ==
  ASSUME NEW S, NEW n \in Nat, NEW o, \A j \in 1 .. n + 1 : o[j] \in S
  PROVE  Append([j \in 1 .. n |-> o[j]], o[n + 1]) = [j \in 1 .. n + 1 |-> o[j]]
PROOF
  <1>1. PICK s : s = [j \in 1 .. n |-> o[j]]
    OBVIOUS
  <1>2. PICK t : t = [j \in 1 .. n + 1 |-> o[j]]
    OBVIOUS
  <1>3. s \in [1 .. n -> S] /\ t \in [1 .. n + 1 -> S] /\ n + 1 \in Nat
    BY <1>1, <1>2
  <1>4. s \in Seq(S) /\ Len(s) = n /\ t \in Seq(S) /\ Len(t) = n + 1
    BY <1>3, FunSeq
  <1>5. PICK x \in S : x = o[n + 1]
    OBVIOUS
  <1>6. PICK r \in Seq(S) : r = Append(s, x) /\ Len(r) = n + 1
    <2>1. Append(s, x) \in Seq(S)
      BY <1>4
    <2>2. Len(Append(s, x)) = n + 1
      BY <1>4
    <2> QED BY <2>1, <2>2
  <1>7. ASSUME NEW j \in DOMAIN r
        PROVE  r[j] = t[j]
    <2>1. j \in 1 .. n + 1
      BY <1>6
    <2>2. CASE j = n + 1
      BY <1>2, <1>4, <1>5, <1>6, <2>1, <2>2
    <2>3. CASE j # n + 1
      <3>1. j \in 1 .. n
        BY <2>1, <2>3
      <3>2. r[j] = s[j]
        BY <1>4, <1>6, <3>1
      <3> QED BY <1>1, <1>2, <2>1, <3>1, <3>2
    <2> QED BY <2>2, <2>3
  <1>8. r = t
    BY <1>4, <1>6, <1>7, SeqEqual
  <1> QED BY <1>1, <1>2, <1>5, <1>6, <1>8

\* The least of one number.
LEMMA MinOne ==
  ASSUME NEW x \in Nat
  PROVE  Min({x}) = x
BY MinIs

\* No permanent channel has another one of its name beside it.
Alone(chs) ==
  \A c \in Kept(chs), d \in DOMAIN chs :
    chs[c].name = chs[d].name /\ chs[c].parent = chs[d].parent => c = d

\* An import of what a store lists finds every entry and leaves the store alone.
LEMMA FindsAll ==
  ASSUME NEW chs, NEW last, Table(chs, last), Alone(chs),
         NEW file, NEW ord, Lists(chs, 1, Root, file, ord)
  PROVE  ImportAll(file, chs).rows = chs
PROOF
  <1>9. PICK last0 : last0 = Max(DOMAIN chs \cup {0})
    OBVIOUS
  <1> DEFINE Reached(i) == [rows |-> chs, last |-> last0, ids |-> [j \in 1 .. i |-> ord[j]]]
             T == {i \in 0 .. Len(file) : Imports(file, chs)[i] = Reached(i)}
  <1>0. PICK n \in Nat : n = Len(file) /\ DOMAIN file = 1 .. n
    BY ListIs DEF Root
  <1>1. /\ Imports(file, chs)[0] =
             [rows |-> chs, last |-> last0, ids |-> <<>>]
        /\ \A i \in 1 .. n :
             Imports(file, chs)[i] = NextImported(Imports(file, chs)[i - 1], file[i])
    BY <1>0, <1>9, ImportsAre
  <1>2. 0 \in T
    <2>1. [j \in 1 .. 0 |-> ord[j]] = <<>>
      OBVIOUS
    <2> QED BY <1>0, <1>1, <2>1
  <1>3. ASSUME NEW k \in 0 .. n - 1, k \in T
        PROVE  k + 1 \in T
    <2>1. PICK i \in 1 .. n : i = k + 1
      BY <1>0
    <2>2. PICK s : s = Reached(k)
      OBVIOUS
    <2>3. Imports(file, chs)[i] = NextImported(s, file[i])
      <3>1. i - 1 = k
        BY <2>1
      <3> QED BY <1>1, <1>3, <2>2, <3>1
    <2>4. PICK parent : parent = IF file[i].up = 0 THEN Root ELSE s.ids[file[i].up]
      OBVIOUS
    <2>5. /\ ord[i] \in Kept(chs) /\ ord[i] \in DOMAIN chs /\ ord[i] \in Nat
          /\ file[i].up \in Nat /\ file[i].up < i
          /\ file[i].name = chs[ord[i]].name
          /\ chs[ord[i]].parent = IF file[i].up = 0 THEN Root ELSE ord[file[i].up]
      <3>1. i \in DOMAIN file
        BY <1>0
      <3>2. ord[i] \in Kept(chs) /\ ord[i] \in Nat /\ file[i].up \in Nat
        BY <3>1, ListIs DEF Root
      <3> QED BY <3>1, <3>2 DEF Lists, Kept
    <2>6. parent = chs[ord[i]].parent
      <3>1. file[i].up # 0 => file[i].up \in 1 .. k
        BY <2>1, <2>5
      <3>2. file[i].up # 0 => s.ids[file[i].up] = ord[file[i].up]
        BY <2>2, <3>1
      <3> QED BY <2>4, <2>5, <3>2
    <2>7. {c \in DOMAIN chs : chs[c].name = file[i].name /\ chs[c].parent = parent} = {ord[i]}
      BY <2>5, <2>6 DEF Alone
    <2>8. s.rows = chs
      BY <2>2
    <2>9. NextImported(s, file[i]) = [s EXCEPT !.ids = Append(@, ord[i])]
      <3>1. PICK hits : hits = {c \in DOMAIN s.rows : s.rows[c].name = file[i].name
                                                      /\ s.rows[c].parent = parent}
        OBVIOUS
      <3>2. hits = {ord[i]}
        BY <2>7, <2>8, <3>1
      <3>3. hits # {} /\ Min(hits) = ord[i]
        BY <2>5, <3>2, MinOne
      <3> QED BY <2>4, <3>1, <3>3 DEF NextImported
    <2>10. Append([j \in 1 .. k |-> ord[j]], ord[k + 1]) = [j \in 1 .. k + 1 |-> ord[j]]
      <3>1. k \in Nat /\ \A j \in 1 .. k + 1 : j \in DOMAIN file
        BY <1>0
      <3>2. \A j \in 1 .. k + 1 : ord[j] \in Nat
        BY <3>1, ListIs DEF Root
      <3> QED BY <3>1, <3>2, AppendIs
    <2>11. [s EXCEPT !.ids = Append(@, ord[i])] = Reached(k + 1)
      <3>1. PICK a, b : a = [j \in 1 .. k |-> ord[j]] /\ b = [j \in 1 .. k + 1 |-> ord[j]]
        OBVIOUS
      <3>2. s = [rows |-> chs, last |-> last0, ids |-> a]
        BY <2>2, <3>1
      <3>3. Append(a, ord[i]) = b
        BY <2>1, <2>10, <3>1
      <3>4. [s EXCEPT !.ids = Append(@, ord[i])] = [rows |-> chs, last |-> last0, ids |-> b]
        <4>1. s.ids = a /\ [s EXCEPT !.ids = b] = [rows |-> chs, last |-> last0, ids |-> b]
          BY <3>2
        <4> QED BY <3>3, <4>1
      <3> QED BY <3>1, <3>4
    <2> QED BY <1>0, <2>1, <2>3, <2>9, <2>11
  <1>4. n \in T
    <2> HIDE DEF T
    <2>1. 0 .. n \subseteq T
      BY <1>2, <1>3, Climb
    <2> QED BY <2>1
  <1> QED BY <1>0, <1>4 DEF ImportAll

\* The table a file makes of an empty one.
CopyOf(file, n) == [j \in 1 .. n |-> Row(file[j].name, file[j].up, FALSE)]

\* No two entries of a listing have the same name at the same place.
LEMMA EntriesApart ==
  ASSUME NEW chs, NEW last, Table(chs, last), Alone(chs), NEW p \in Nat,
         NEW file, NEW ord, Lists(chs, 1, p, file, ord),
         NEW i \in DOMAIN file, NEW j \in DOMAIN file,
         file[i].name = file[j].name, file[i].up = file[j].up
  PROVE  i = j
PROOF
  <1>1. ord[i] \in Kept(chs) /\ ord[j] \in DOMAIN chs
    <2>1. ord[i] \in Kept(chs) /\ ord[j] \in Kept(chs)
      BY ListIs
    <2> QED BY <2>1 DEF Kept
  <1>2. chs[ord[i]].name = chs[ord[j]].name
    BY DEF Lists
  <1>3. chs[ord[i]].parent = chs[ord[j]].parent
    <2>1. chs[ord[i]].parent = IF file[i].up = 0 THEN p ELSE ord[file[i].up]
      BY DEF Lists
    <2>2. chs[ord[j]].parent = IF file[j].up = 0 THEN p ELSE ord[file[j].up]
      BY DEF Lists
    <2> QED BY <2>1, <2>2
  <1>4. ord[i] = ord[j]
    BY <1>1, <1>2, <1>3 DEF Alone
  <1> QED BY <1>4 DEF Lists

\* An import of a listing into an empty store makes a channel of every entry.
LEMMA CopiesAll ==
  ASSUME NEW chs, NEW last, Table(chs, last), Alone(chs),
         NEW file, NEW ord, Lists(chs, 1, Root, file, ord)
  PROVE  /\ ImportAll(file, <<>>).rows = CopyOf(file, Len(file))
         /\ ImportAll(file, <<>>).last = Len(file)
PROOF
  <1> DEFINE Reached(i) == [rows |-> CopyOf(file, i), last |-> i, ids |-> [j \in 1 .. i |-> j]]
             T == {i \in 0 .. Len(file) : Imports(file, <<>>)[i] = Reached(i)}
  <1>0. PICK n \in Nat : n = Len(file) /\ DOMAIN file = 1 .. n
    BY ListIs DEF Root
  <1>1. /\ Imports(file, <<>>)[0] = [rows |-> <<>>, last |-> 0, ids |-> <<>>]
        /\ \A i \in 1 .. n :
             Imports(file, <<>>)[i] = NextImported(Imports(file, <<>>)[i - 1], file[i])
    <2>1. Max(DOMAIN (<<>>) \cup {0}) = 0
      <3>1. DOMAIN (<<>>) \cup {0} = {0}
        OBVIOUS
      <3>2. Max({0}) = 0
        BY DEF Max
      <3> QED BY <3>1, <3>2
    <2> QED BY <1>0, <2>1, ImportsAre
  <1>2. 0 \in T
    <2>1. CopyOf(file, 0) = <<>> /\ [j \in 1 .. 0 |-> j] = <<>>
      BY DEF CopyOf
    <2> QED BY <1>0, <1>1, <2>1
  <1>3. ASSUME NEW k \in 0 .. n - 1, k \in T
        PROVE  k + 1 \in T
    <2>1. PICK i \in 1 .. n : i = k + 1
      BY <1>0
    <2>2. PICK s : s = Reached(k)
      OBVIOUS
    <2>3. Imports(file, <<>>)[i] = NextImported(s, file[i])
      <3>1. i - 1 = k
        BY <2>1
      <3> QED BY <1>1, <1>3, <2>2, <3>1
    <2>4. PICK parent : parent = IF file[i].up = 0 THEN Root ELSE s.ids[file[i].up]
      OBVIOUS
    <2>5. file[i].up \in Nat /\ file[i].up < i
      <3>1. i \in DOMAIN file
        BY <1>0
      <3>2. file[i].up \in Nat
        BY <3>1, ListIs DEF Root
      <3> QED BY <3>1, <3>2 DEF Lists
    <2>6. parent = file[i].up
      <3>1. file[i].up # 0 => file[i].up \in 1 .. k
        BY <2>1, <2>5
      <3>2. file[i].up # 0 => s.ids[file[i].up] = file[i].up
        BY <2>2, <3>1
      <3> QED BY <2>4, <2>5, <3>2 DEF Root
    <2>7. s.rows = CopyOf(file, k) /\ s.last = k /\ s.ids = [j \in 1 .. k |-> j]
      BY <2>2
    <2>8. DOMAIN s.rows = 1 .. k
      BY <2>7 DEF CopyOf
    <2>9. PICK hits : hits = {c \in DOMAIN s.rows : s.rows[c].name = file[i].name
                                                    /\ s.rows[c].parent = parent}
      OBVIOUS
    <2>10. hits = {}
      <3> SUFFICES ASSUME NEW c \in 1 .. k, s.rows[c].name = file[i].name, s.rows[c].parent = parent
                   PROVE  FALSE
        BY <2>8, <2>9
      <3>1. file[c].name = file[i].name /\ file[c].up = file[i].up
        BY <2>6, <2>7 DEF CopyOf, Row
      <3>2. c \in DOMAIN file /\ i \in DOMAIN file /\ c # i /\ Root \in Nat
        BY <1>0, <2>1 DEF Root
      <3> QED BY <3>1, <3>2, EntriesApart
    <2>11. NextImported(s, file[i]) =
             [rows |-> [c \in 1 .. k \cup {k + 1} |->
                          IF c = k + 1 THEN Row(file[i].name, file[i].up, FALSE) ELSE s.rows[c]],
              last |-> k + 1,
              ids |-> Append(s.ids, k + 1)]
      <3>1. PICK more : more = [c \in DOMAIN s.rows \cup {s.last + 1} |->
                                  IF c = s.last + 1 THEN Row(file[i].name, parent, FALSE)
                                  ELSE s.rows[c]]
        OBVIOUS
      <3>2. NextImported(s, file[i]) =
              [rows |-> more, last |-> s.last + 1, ids |-> Append(s.ids, s.last + 1)]
        <4>1. hits = {}
          BY <2>10
        <4> QED BY <2>4, <2>9, <3>1, <4>1 DEF NextImported
      <3>3. more = [c \in 1 .. k \cup {k + 1} |->
                      IF c = k + 1 THEN Row(file[i].name, file[i].up, FALSE) ELSE s.rows[c]]
        BY <2>6, <2>7, <2>8, <3>1
      <3> QED BY <2>7, <3>2, <3>3
    <2>12. [c \in 1 .. k \cup {k + 1} |->
              IF c = k + 1 THEN Row(file[i].name, file[i].up, FALSE) ELSE s.rows[c]]
             = CopyOf(file, k + 1)
      <3>1. 1 .. k \cup {k + 1} = 1 .. k + 1
        OBVIOUS
      <3>2. ASSUME NEW c \in 1 .. k + 1
            PROVE  (IF c = k + 1 THEN Row(file[i].name, file[i].up, FALSE) ELSE s.rows[c])
                     = Row(file[c].name, file[c].up, FALSE)
        <4>1. c # k + 1 => c \in 1 .. k
          OBVIOUS
        <4>2. c # k + 1 => s.rows[c] = Row(file[c].name, file[c].up, FALSE)
          BY <2>7, <4>1 DEF CopyOf
        <4> QED BY <2>1, <4>2
      <3> QED BY <3>1, <3>2 DEF CopyOf
    <2>13. Append(s.ids, k + 1) = [j \in 1 .. k + 1 |-> j]
      <3>1. PICK o : o = [j \in 1 .. k + 1 |-> j]
        OBVIOUS
      <3>2. k \in Nat /\ \A j \in 1 .. k + 1 : o[j] \in Nat
        BY <3>1
      <3>3. Append([j \in 1 .. k |-> o[j]], o[k + 1]) = [j \in 1 .. k + 1 |-> o[j]]
        BY <3>2, AppendIs
      <3>4. o[k + 1] = k + 1 /\ [j \in 1 .. k |-> o[j]] = s.ids /\ [j \in 1 .. k + 1 |-> o[j]] = o
        BY <2>7, <3>1
      <3> QED BY <3>1, <3>3, <3>4
    <2>14. NextImported(s, file[i]) = Reached(k + 1)
      BY <2>11, <2>12, <2>13
    <2> QED BY <1>0, <2>1, <2>3, <2>14
  <1>4. n \in T
    <2> HIDE DEF T
    <2>1. 0 .. n \subseteq T
      BY <1>2, <1>3, Climb
    <2> QED BY <2>1
  <1>5. ImportAll(file, <<>>) = Reached(n)
    BY <1>0, <1>4 DEF ImportAll
  <1> QED BY <1>0, <1>5

\* What it made is listed by the same file.
LEMMA CopyLists ==
  ASSUME NEW chs, NEW last, Table(chs, last),
         NEW file, NEW ord, Lists(chs, 1, Root, file, ord), NEW n, n = Len(file)
  PROVE  /\ Table(CopyOf(file, n), n)
         /\ Lists(CopyOf(file, n), 1, Root, file, [j \in 1 .. n |-> j])
PROOF
  <1>1. /\ DOMAIN file = 1 .. n /\ n \in Nat
        /\ \A i \in DOMAIN file : file[i] \in EntriesOf(chs) /\ file[i].up \in Nat
    BY ListIs DEF Root
  <1>2. PICK copy : copy = CopyOf(file, n)
    OBVIOUS
  <1>3. /\ DOMAIN copy = 1 .. n
        /\ \A i \in 1 .. n : /\ copy[i].name = file[i].name
                             /\ copy[i].parent = file[i].up
                             /\ copy[i].temp = FALSE
    BY <1>2 DEF CopyOf, Row
  <1>4. \A i \in 1 .. n : file[i].up \in 0 .. i - 1
    <2>1. \A i \in 1 .. n : file[i].up \in Nat /\ file[i].up < i
      BY <1>1 DEF Lists
    <2> QED BY <2>1
  <1>5. Table(copy, n)
    BY <1>1, <1>3, <1>4 DEF Table
  <1>6. Kept(copy) = 1 .. n
    BY <1>3 DEF Kept
  <1>7. file \in Seq(EntriesOf(copy))
    <2>1. ASSUME NEW i \in 1 .. n
          PROVE  file[i] \in EntriesOf(copy)
      <3>1. file[i] \in [name : {chs[c].name : c \in DOMAIN chs}, up : Nat, valid : {TRUE}]
        BY <1>1 DEF EntriesOf
      <3>2. file[i].name \in {copy[c].name : c \in DOMAIN copy}
        BY <1>3
      <3> QED BY <3>1, <3>2 DEF EntriesOf
    <2>2. file \in [1 .. n -> EntriesOf(copy)]
      <3>1. file \in Seq(EntriesOf(chs))
        BY DEF Lists
      <3>2. file = [i \in 1 .. n |-> file[i]]
        BY <1>1, <3>1
      <3> QED BY <2>1, <3>2
    <2> QED BY <1>1, <2>2, FunSeq
  <1>8. PICK same : same = [j \in 1 .. n |-> j]
    OBVIOUS
  <1>9. DOMAIN file = 1 .. n /\ \A i \in 1 .. n : same[i] = i
    BY <1>1, <1>8
  <1>10. same \in [DOMAIN file -> {x \in Kept(copy) : x >= 1 /\ x > Root}]
    BY <1>1, <1>6, <1>8 DEF Root
  <1>11. ASSUME NEW i \in DOMAIN file
         PROVE  /\ file[i].name = copy[same[i]].name
                /\ file[i].up < i
                /\ copy[same[i]].parent = IF file[i].up = 0 THEN Root ELSE same[file[i].up]
    <2>1. file[i].up # 0 => file[i].up \in 1 .. n
      BY <1>1, <1>4
    <2>2. file[i].up < i
      BY DEF Lists
    <2> QED BY <1>3, <1>9, <2>1, <2>2 DEF Root
  <1>12. \A i, j \in DOMAIN file : file[j].up < i /\ i < j => file[i].up >= file[j].up
    BY DEF Lists
  <1>13. Lists(copy, 1, Root, file, same)
    BY <1>6, <1>7, <1>9, <1>10, <1>11, <1>12 DEF Lists
  <1> QED BY <1>2, <1>5, <1>8, <1>13

\* Export and import undo each other.
LEMMA RoundTrip ==
  ASSUME NEW chs, NEW last, Table(chs, last), Alone(chs),
         NEW file, file = ExportChannels(chs, last)
  PROVE  /\ ImportAll(file, chs).rows = chs
         /\ ExportChannels(ImportAll(file, <<>>).rows, ImportAll(file, <<>>).last) = file
PROOF
  <1>1. PICK ord : Lists(chs, 1, Root, file, ord)
    <2>1. Root \in 0 .. last
      BY DEF Table, Root
    <2> QED BY <2>1, SubtreesList DEF ExportChannels
  <1>2. ImportAll(file, chs).rows = chs
    BY <1>1, FindsAll
  <1>3. PICK n : n = Len(file)
    OBVIOUS
  <1>4. PICK copy : copy = CopyOf(file, n)
    OBVIOUS
  <1>5. ImportAll(file, <<>>).rows = copy /\ ImportAll(file, <<>>).last = n
    BY <1>1, <1>3, <1>4, CopiesAll
  <1>6. PICK same : Table(copy, n) /\ Lists(copy, 1, Root, file, same)
    BY <1>1, <1>3, <1>4, CopyLists
  <1>7. PICK ord2 : Lists(copy, 1, Root, ExportChannels(copy, n), ord2)
    <2>1. Root \in 0 .. n
      BY <1>6 DEF Table, Root
    <2> QED BY <1>6, <2>1, SubtreesList DEF ExportChannels
  <1>8. Root \in Nat
    BY DEF Root
  <1>9. ExportChannels(copy, n) = file
    BY <1>6, <1>7, <1>8, OneListing
  <1> QED BY <1>2, <1>5, <1>9

\* The tables the server can hold are tables of channels.
LEMMA TreeRoundTrips == TreeTypeOK => ExportRoundTrips
PROOF
  <1> SUFFICES ASSUME TreeTypeOK, \A c \in Permanent, d \in DOMAIN rows : ~Twins(c, d)
               PROVE  LET file == ExportChannels(rows, lastID)
                      IN /\ ImportAll(file, rows).rows = rows
                         /\ ExportChannels(ImportAll(file, <<>>).rows, ImportAll(file, <<>>).last)
                              = file
    BY DEF ExportRoundTrips
  <1>1. Table(rows, lastID)
    BY DEF TreeTypeOK, Table
  <1>2. Alone(rows)
    BY DEF Alone, Kept, Permanent, Twins
  <1> QED BY <1>1, <1>2, RoundTrip

(***************************************************************************)
(* What the server exports is a file, for any table it can come to hold,   *)
(* whatever was imported, created and deleted before and whatever gaps     *)
(* that left in the IDs: importing it into the same store finds every      *)
(* channel it lists and adds nothing, and importing it into an empty store *)
(* makes a tree that exports as the same file (buildChannelTree and        *)
(* ensureChannel, config.go).  It needs that no permanent channel has      *)
(* another channel of its name beside it.                                  *)
(***************************************************************************)
THEOREM ExportsRoundTrip == Spec => []ExportRoundTrips
PROOF
  <1>1. StartTypeOK => ExportRoundTrips
    BY TreeRoundTrips DEF StartTypeOK
  <1> QED BY <1>1, StartTypes, PTL
=============================================================================
