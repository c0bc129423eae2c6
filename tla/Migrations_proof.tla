-------------------------- MODULE Migrations_proof --------------------------
(***************************************************************************)
(* Proofs about Migrations for every number of files and of deaths, every  *)
(* database it may start from and every sequence of releases.              *)
(*                                                                         *)
(* That a server serves a migrated database depends on all its steps since *)
(* it listed the recorded files, and on what earlier servers left when     *)
(* they died. The inductive invariant relates the server's map of applied  *)
(* migrations and its place in the directory to the rows of the table.     *)
(***************************************************************************)
EXTENDS Migrations, TLAPS

\* Steps of the loop over the directory, and those of them at a file that the
\* server has found not to be applied.
LoopSteps == {"next", "legacy", "mark", "execute", "record", "commit"}
FileSteps == LoopSteps \ {"next"}

\* What the database holds, whoever wrote it: a record means that the file was
\* executed and committed, except of the first, whose tables may be older.
DatabaseOK ==
    /\ InitialMigration \in recorded => tables = Peers
    /\ \A f \in Files : executed[f] <= 1 /\ (executed[f] = 1 => f \in recorded)
    /\ \A f \in Files \ {InitialMigration} : f \in recorded => executed[f] = 1

\* What the running server knows of it.
ServerOK ==
    /\ step \in {"ensure", "list"} => file = 1
    /\ step \in LoopSteps =>
        /\ known = recorded \ {TableItself}
        /\ file <= shipped + 1
        /\ \A f \in Files : f < file => f \in recorded
    /\ step \in FileSteps => file <= shipped /\ file \notin known
    /\ step \in {"legacy", "mark"} => file = InitialMigration
    /\ step = "mark" => tables = Peers
    /\ step = "serving" => \A f \in Files : f <= shipped => f \in recorded

\* The inductive invariant.
IInv == MigrationsTypeOK /\ DatabaseOK /\ ServerOK

-----------------------------------------------------------------------------
\* Any database that is older than the record of migrations satisfies it.
LEMMA InitIInv == MigrationsInit => IInv
BY MigrationsAssumption
DEF MigrationsInit, IInv, MigrationsTypeOK, DatabaseOK, ServerOK, Files, Peers,
    LoopSteps, FileSteps

\* Steps of the server that only read the database, or make the table.
LEMMA ReadsKeep ==
    ASSUME IInv, Launch \/ EnsureSchemaMigrationsTable \/ ListAppliedMigrations
                 \/ NextFile \/ LegacyIfAllTables \/ Execute \/ Record
    PROVE  IInv'
<1> USE MigrationsAssumption
<1> USE DEF IInv, Files, InitialMigration, TableItself, LoopSteps, FileSteps, Database
<1>1. CASE Launch
    BY <1>1 DEF Launch, MigrationsTypeOK, DatabaseOK, ServerOK
<1>2. CASE EnsureSchemaMigrationsTable
    BY <1>2 DEF EnsureSchemaMigrationsTable, MigrationsTypeOK, DatabaseOK, ServerOK
<1>3. CASE ListAppliedMigrations
    BY <1>3 DEF ListAppliedMigrations, MigrationsTypeOK, DatabaseOK, ServerOK
<1>4. CASE NextFile
    <2>1. MigrationsTypeOK'
        BY <1>4 DEF NextFile, MigrationsTypeOK
    <2>2. DatabaseOK'
        BY <1>4 DEF NextFile, DatabaseOK
    <2>3. ServerOK'
        BY <1>4 DEF NextFile, MigrationsTypeOK, ServerOK
    <2> QED
        BY <2>1, <2>2, <2>3
<1>5. CASE LegacyIfAllTables
    BY <1>5 DEF LegacyIfAllTables, MigrationsTypeOK, DatabaseOK, ServerOK
<1>6. CASE Execute
    BY <1>6 DEF Execute, MigrationsTypeOK, DatabaseOK, ServerOK
<1>7. CASE Record
    BY <1>7 DEF Record, MigrationsTypeOK, DatabaseOK, ServerOK
<1> QED
    BY <1>1, <1>2, <1>3, <1>4, <1>5, <1>6, <1>7

\* A database of older servers whose first file is recorded has its tables.
LEMMA MarkLegacyKeeps ==
    ASSUME IInv, MarkLegacy
    PROVE  IInv'
<1> USE MigrationsAssumption
<1> USE DEF MarkLegacy, Advance, Files, InitialMigration, TableItself, LoopSteps, FileSteps
<1>1. file = 1 /\ tables = Peers /\ shipped \in 1..MaxFiles
    BY DEF IInv, ServerOK, MigrationsTypeOK
<1>2. MigrationsTypeOK'
    BY <1>1 DEF IInv, MigrationsTypeOK
<1>3. DatabaseOK'
    BY <1>1 DEF IInv, DatabaseOK
<1>4. ServerOK'
    BY <1>1 DEF IInv, ServerOK
<1> QED
    BY <1>2, <1>3, <1>4 DEF IInv

\* What a committed transaction leaves, whether or not the server learns of it.
LEMMA CommittedKeeps ==
    ASSUME IInv, step = "commit", Committed
    PROVE  /\ DatabaseOK'
           /\ file \in 1..shipped /\ shipped \in 1..MaxFiles
           /\ tables' \in 0..Peers
           /\ executed' \in [Files -> 0..2]
           /\ recorded' \subseteq Files \cup {TableItself}
<1> USE MigrationsAssumption
<1>1. file \in 1..shipped /\ shipped \in 1..MaxFiles /\ file \notin recorded
    BY DEF IInv, ServerOK, MigrationsTypeOK, FileSteps, LoopSteps, Files, TableItself
<1>2. file \in Files /\ executed[file] = 0
    BY <1>1 DEF IInv, DatabaseOK, MigrationsTypeOK, Files
<1>3. \A f \in Files : executed'[f] = IF f = file THEN 1 ELSE executed[f]
    BY <1>2 DEF Committed, IInv, MigrationsTypeOK
<1>4. executed' \in [Files -> 0..2]
    BY <1>2 DEF Committed, IInv, MigrationsTypeOK
<1>5. DatabaseOK'
    BY <1>2, <1>3 DEF Committed, IInv, DatabaseOK, InitialMigration
<1> QED
    BY <1>1, <1>2, <1>4, <1>5 DEF Committed, IInv, MigrationsTypeOK, Peers

\* The commit, and a death at any step.
LEMMA CommitKeeps ==
    ASSUME IInv, Commit \/ Die
    PROVE  IInv'
<1> USE MigrationsAssumption
<1>1. CASE Commit
    <2>1. step = "commit" /\ Committed
        BY <1>1 DEF Commit
    <2>2. /\ DatabaseOK'
          /\ file \in 1..shipped /\ shipped \in 1..MaxFiles
          /\ tables' \in 0..Peers
          /\ executed' \in [Files -> 0..2]
          /\ recorded' \subseteq Files \cup {TableItself}
        BY <2>1, CommittedKeeps
    <2>3. MigrationsTypeOK'
        BY <1>1, <2>2 DEF Commit, Advance, IInv, MigrationsTypeOK, Files
    <2>4. ServerOK'
        BY <1>1, <2>1, <2>2
        DEF Commit, Advance, Committed, IInv, ServerOK, LoopSteps, FileSteps, TableItself, Files
    <2> QED
        BY <2>2, <2>3, <2>4 DEF IInv
<1>2. CASE Die
    <2>1. CASE step = "commit" /\ Committed
        BY <1>2, <2>1, CommittedKeeps
        DEF Die, IInv, MigrationsTypeOK, ServerOK, LoopSteps, FileSteps
    <2>2. CASE UNCHANGED Database
        BY <1>2, <2>2
        DEF Die, IInv, MigrationsTypeOK, DatabaseOK, ServerOK, LoopSteps, FileSteps, Database
    <2> QED
        BY <1>2, <2>1, <2>2 DEF Die
<1> QED
    BY <1>1, <1>2

\* Nothing happens.
LEMMA StutterKeeps == IInv /\ UNCHANGED migrationVars => IInv'
BY DEF migrationVars, IInv, MigrationsTypeOK, DatabaseOK, ServerOK

\* The inductive invariant holds wherever the servers die.
THEOREM MigrationsInvariance == MigrationsSpec => []IInv
<1>1. IInv /\ [MigrationsNext]_migrationVars => IInv'
    BY ReadsKeep, MarkLegacyKeeps, CommitKeeps, StutterKeeps DEF MigrationsNext
<1> QED
    BY InitIInv, <1>1, PTL DEF MigrationsSpec

\* Type correctness: no file is executed more often than the type allows.
THEOREM MigrationsTypeCorrect == MigrationsSpec => []MigrationsTypeOK
<1>1. IInv => MigrationsTypeOK
    BY DEF IInv
<1> QED
    BY <1>1, MigrationsInvariance, PTL

\* RunMigrations lets a server serve only with all tables there and all its
\* files recorded, also after deaths between any two statements and if the
\* database was left with a part of its tables.
THEOREM ServingIsMigrated == MigrationsSpec => []ServesMigrated
<1>1. IInv => ServesMigrated
    <2> SUFFICES ASSUME IInv, step = "serving"
                 PROVE  tables = Peers /\ 1..shipped \subseteq recorded
        BY DEF ServesMigrated
    <2>1. shipped \in 1..MaxFiles
        BY DEF IInv, MigrationsTypeOK, Files
    <2>2. 1..shipped \subseteq recorded
        BY <2>1, MigrationsAssumption DEF IInv, ServerOK, Files
    <2> QED
        BY <2>1, <2>2 DEF IInv, DatabaseOK, InitialMigration
<1> QED
    BY <1>1, MigrationsInvariance, PTL

\* applyMigration executes and records in one transaction: no file is executed
\* twice, and no death leaves its effect without its record.
THEOREM NeverExecutedTwice == MigrationsSpec => []ExecutedOnce
<1>1. IInv => ExecutedOnce
    BY DEF IInv, DatabaseOK, ExecutedOnce
<1> QED
    BY <1>1, MigrationsInvariance, PTL

=============================================================================
