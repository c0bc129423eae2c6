----------------------------- MODULE Migrations -----------------------------
(***************************************************************************)
(* RunMigrations of internal/store/db.go, which brings the database's      *)
(* schema up to date each time the server starts. The server may die at    *)
(* any step and start again, later perhaps with more migration files.      *)
(*                                                                         *)
(* Files are numbered in the order of their names; new ones come last. The *)
(* first creates the tables if they do not exist; databases older than the *)
(* record of migrations have them already, or the first of them if their   *)
(* creation was cut short. One server runs at a time, and the database has *)
(* ended the transaction of a dead server before the next one lists.       *)
(***************************************************************************)
EXTENDS Naturals

CONSTANTS
    MaxFiles,  \* bound on the number of migration files
    MaxDeaths  \* bound on how often the server dies

ASSUME MigrationsAssumption == MaxFiles \in Nat \ {0} /\ MaxDeaths \in Nat

VARIABLES
    tables,   \* how many of the first file's tables exist, in its order
    executed, \* how often each file was executed and committed
    recorded, \* rows of schema_migrations, 0 standing for the table itself
    shipped,  \* files in the migrations directory
    step,     \* the server's next step
    file,     \* the file it is at
    known,    \* its map of applied migrations
    deaths

migrationVars == <<tables, executed, recorded, shipped, step, file, known, deaths>>

Files == 1..MaxFiles
InitialMigration == 1
TableItself == 0
Users == 1
Peers == 3  \* users, invite_codes and peers, in this order

MigrationsTypeOK ==
    /\ tables \in 0..Peers
    /\ executed \in [Files -> 0..2]
    /\ recorded \subseteq Files \cup {TableItself}
    /\ shipped \in Files
    /\ step \in {"off", "ensure", "list", "next", "legacy", "mark",
                 "execute", "record", "commit", "serving"}
    /\ file \in 1..(MaxFiles + 1)
    /\ known \subseteq Files
    /\ deaths \in 0..MaxDeaths

Database == <<tables, executed, recorded>>

-----------------------------------------------------------------------------
\* The server starts with the files of the release that is installed.
Launch ==
    /\ step = "off"
    /\ step' = "ensure"
    /\ shipped' \in shipped..MaxFiles
    /\ file' = 1 /\ known' = {}
    /\ UNCHANGED <<Database, deaths>>

EnsureSchemaMigrationsTable ==
    /\ step = "ensure"
    /\ step' = "list"
    /\ recorded' = recorded \cup {TableItself}
    /\ UNCHANGED <<tables, executed, shipped, file, known, deaths>>

ListAppliedMigrations ==
    /\ step = "list"
    /\ step' = "next"
    /\ known' = recorded \ {TableItself}
    /\ UNCHANGED <<Database, shipped, file, deaths>>

\* The loop over the sorted directory.
NextFile ==
    /\ step = "next"
    /\ \/ /\ file > shipped
          /\ step' = "serving" /\ UNCHANGED file
       \/ /\ file <= shipped /\ file \in known
          /\ file' = file + 1 /\ UNCHANGED step
       \/ /\ file <= shipped /\ file \notin known
          /\ step' = IF file = InitialMigration THEN "legacy" ELSE "execute"
          /\ UNCHANGED file
    /\ UNCHANGED <<Database, shipped, known, deaths>>

\* Faulty variant: one table is taken for all.
LegacyIfAnyTable ==
    /\ step = "legacy"
    /\ step' = IF tables >= Users THEN "mark" ELSE "execute"
    /\ UNCHANGED <<Database, shipped, file, known, deaths>>

\* maybeMarkLegacyInitApplied looks for the tables and then records.
LegacyIfAllTables ==
    /\ step = "legacy"
    /\ step' = IF tables = Peers THEN "mark" ELSE "execute"
    /\ UNCHANGED <<Database, shipped, file, known, deaths>>

Advance == step' = "next" /\ file' = file + 1 /\ known' = known \cup {file}

MarkLegacy ==
    /\ step = "mark"
    /\ recorded' = recorded \cup {file}
    /\ Advance
    /\ UNCHANGED <<tables, executed, shipped, deaths>>

\* Faulty variant: the file is executed outside the transaction.
ExecuteAtOnce ==
    /\ step = "execute"
    /\ step' = "record"
    /\ tables' = IF file = InitialMigration THEN Peers ELSE tables
    /\ executed' = [executed EXCEPT ![file] = @ + 1]
    /\ UNCHANGED <<recorded, shipped, file, known, deaths>>

\* applyMigration: execute, record and commit. What the transaction does is
\* not in the database before it commits.
Execute ==
    /\ step = "execute"
    /\ step' = "record"
    /\ UNCHANGED <<Database, shipped, file, known, deaths>>

Record ==
    /\ step = "record"
    /\ step' = "commit"
    /\ UNCHANGED <<Database, shipped, file, known, deaths>>

Committed ==
    /\ tables' = IF file = InitialMigration THEN Peers ELSE tables
    /\ executed' = [executed EXCEPT ![file] = @ + 1]
    /\ recorded' = recorded \cup {file}

Commit ==
    /\ step = "commit"
    /\ Committed
    /\ Advance
    /\ UNCHANGED <<shipped, deaths>>

\* A statement fails, in which case main exits, or the process is killed. A
\* commit that was sent may have taken effect.
Die ==
    /\ step # "off"
    /\ deaths < MaxDeaths /\ deaths' = deaths + 1
    /\ step' = "off"
    /\ (step = "commit" /\ Committed) \/ UNCHANGED Database
    /\ UNCHANGED <<shipped, file, known>>

MigrationsInit ==
    /\ tables \in 0..Peers
    /\ executed = [f \in Files |-> 0]
    /\ recorded = {}
    /\ shipped \in Files
    /\ step = "off"
    /\ file = 1 /\ known = {}
    /\ deaths = 0

MigrationsNext ==
    \/ Launch \/ EnsureSchemaMigrationsTable \/ ListAppliedMigrations \/ NextFile
    \/ LegacyIfAllTables \/ MarkLegacy \/ Execute \/ Record \/ Commit
    \/ Die

MigrationsSpec == MigrationsInit /\ [][MigrationsNext]_migrationVars

-----------------------------------------------------------------------------
(* Properties.                                                             *)

\* A server that serves has all tables, and every file it was shipped with is
\* recorded, whatever the database was before and wherever earlier starts died.
ServesMigrated ==
    step = "serving" => tables = Peers /\ 1..shipped \subseteq recorded

\* No file is executed twice, and the files after the first are executed exactly
\* if they are recorded: no death leaves an effect without its record.
ExecutedOnce ==
    \A f \in Files : executed[f] <= 1 /\ (f # InitialMigration => (executed[f] = 1 <=> f \in recorded))

=============================================================================
