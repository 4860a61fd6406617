---------------------------- MODULE BundleMigration ----------------------------
(***************************************************************************)
(* The explicit migration of a bundle: GraphBundle.migrate (bundle.py),     *)
(* LedgerStore.migrate (store/sqlite.py) and the registered steps           *)
(* (store/migrations.py).                                                   *)
(*                                                                          *)
(* A migrator takes the execution lock, reads manifest, metadata and source *)
(* manifest, migrates the ledger in a transaction, and then replaces the    *)
(* project row, the source manifest, the internal manifest and the metadata *)
(* one after the other.  It may die at every step and be started again.     *)
(* Beside it an indexer opens the bundle and refreshes the manifest, and a  *)
(* user edits the source manifest.  A file is its schema marker and the     *)
(* version of its other content.                                            *)
(***************************************************************************)
EXTENDS Naturals, FiniteSets

CONSTANTS Migrators, MaxEdits, MaxCrashes

\* What the constants are.
MigrationOK == MaxEdits \in Nat /\ MaxCrashes \in Nat /\ Migrators \cap {"indexer", "free"} = {}

Indexer == "indexer"
Workers == Migrators \cup {Indexer}
Target == 3                    \* SCHEMA_VERSION = BUNDLE_VERSION
Versions == 1..Target          \* 0.1.0, 0.2.0, 0.3.0
File == [v : Versions, c : 0..MaxEdits]
NoFile == [v |-> 1, c |-> 0]

Ledger == [marker : Versions, tables : SUBSET {2, 3}, typed : BOOLEAN, views : SUBSET Versions]

VARIABLES
    source, internal, meta, row,    \* hlsgraph.toml, manifest.json, bundle.json, the projects row
    ledger, txn,                    \* the committed ledger and the open transaction
    sound,                          \* whether every derivation keeps its identity
    lock, dead,
    pc, seen, text,                 \* per process: manifest and source as it has read them
    edits, crashes

vars == <<source, internal, meta, row, ledger, txn, sound, lock, dead, pc, seen, text, edits, crashes>>
disk == <<source, internal, meta, row>>
rest == <<sound, edits, crashes>>

NoTxn == [marker |-> 0]

TypeOK ==
    /\ source \in File /\ internal \in File /\ meta \in Versions /\ row \in File
    /\ ledger \in Ledger /\ txn \in Ledger \cup {NoTxn} /\ sound \in BOOLEAN
    /\ lock \in Workers \cup {"free"} /\ dead \subseteq Workers
    /\ pc \in [Workers -> {"idle", "lock", "read", "ddl", "begin", "commit", "row", "source", "internal",
                         "meta", "leave"}]
    /\ seen \in [Workers -> File] /\ text \in [Workers -> File]
    /\ edits \in 0..MaxEdits /\ crashes \in 0..MaxCrashes
    /\ txn # NoTxn => lock \in Migrators /\ pc[lock] = "commit"

Init ==
    /\ \E v \in Versions \ {Target} :
         /\ source = [v |-> v, c |-> 0] /\ internal = source /\ meta = v /\ row = source
         /\ ledger = [marker |-> v, tables |-> {2} \cap 1..v, typed |-> v > 1, views |-> {v}]
    /\ txn = NoTxn /\ sound \in BOOLEAN
    /\ lock = "free" /\ dead = {}
    /\ pc = [p \in Workers |-> "idle"]
    /\ seen = [p \in Workers |-> NoFile] /\ text = [p \in Workers |-> NoFile]
    /\ edits = 0 /\ crashes = 0

Openable == meta = Target /\ internal.v = Target
Goto(p, l) == pc' = [pc EXCEPT ![p] = l]

-------------------------------------------------------------------------------
(* The registered steps.                                                      *)

\* Typed evidence for the derivations; the views of 0.1.0 get the new marker.
MigrateV01ToV02(l) ==
    [l EXCEPT !.marker = 2, !.tables = @ \cup {2}, !.typed = TRUE,
              !.views = {IF v = 1 THEN 2 ELSE v : v \in @}]

\* Additive: the views of 0.2.0 keep theirs.
MigrateV02ToV03(l) == [l EXCEPT !.marker = 3, !.tables = @ \cup {3}]

\* apply_migrations along migration_path.
ApplyMigrations(l) ==
    CASE l.marker = 1 -> MigrateV02ToV03(MigrateV01ToV02(l))
      [] l.marker = 2 -> MigrateV02ToV03(l)
      [] l.marker = 3 -> l

-------------------------------------------------------------------------------
(* GraphBundle.migrate.                                                       *)

\* The state is checked once before the lock is taken.
Inspect(p) ==
    /\ pc[p] = "idle"
    /\ seen' = [seen EXCEPT ![p] = internal]
    /\ Goto(p, "lock")
    /\ UNCHANGED <<disk, ledger, txn, rest, lock, dead, text>>

\* (mutant) A migration accepts only a bundle of one version.
AcquireUniform(p) ==
    /\ pc[p] = "lock"
    /\ IF lock = "free" /\ meta = ledger.marker THEN lock' = p /\ Goto(p, "read") ELSE Goto(p, "idle") /\ UNCHANGED lock
    /\ UNCHANGED <<disk, ledger, txn, rest, dead, seen, text>>

Acquire(p) ==
    /\ pc[p] = "lock"
    /\ IF lock = "free" THEN lock' = p /\ Goto(p, "read") ELSE Goto(p, "idle") /\ UNCHANGED lock
    /\ UNCHANGED <<disk, ledger, txn, rest, dead, seen, text>>

\* (mutant) The files are replaced first, the ledger last.
ReadFilesFirst(p) ==
    /\ pc[p] = "read"
    /\ seen' = [seen EXCEPT ![p] = internal]
    /\ text' = [text EXCEPT ![p] = [source EXCEPT !.v = Target]]
    /\ internal' = [internal EXCEPT !.v = Target] /\ meta' = Target
    /\ Goto(p, "ddl")
    /\ UNCHANGED <<source, row, ledger, txn, rest, lock, dead>>

\* The state is read again under the lock, planned, and the upgraded text of the
\* source manifest is made ready.
Read(p) ==
    /\ pc[p] = "read"
    /\ seen' = [seen EXCEPT ![p] = internal]
    /\ text' = [text EXCEPT ![p] = [source EXCEPT !.v = Target]]
    /\ Goto(p, "ddl")
    /\ UNCHANGED <<disk, ledger, txn, rest, lock, dead>>

\* CREATE TABLE of the first step: no transaction is open yet, so it stays.
Ddl(p) ==
    /\ pc[p] = "ddl"
    /\ ledger' = [ledger EXCEPT !.tables = IF ledger.marker < Target THEN @ \cup {ledger.marker + 1} ELSE @]
    /\ Goto(p, "begin")
    /\ UNCHANGED <<disk, txn, rest, lock, dead, seen, text>>

\* The rest of the steps, in one transaction.  A derivation whose identity would
\* change, or whose evidence is missing, fails the first step.
Begin(p) ==
    /\ pc[p] = "begin"
    /\ IF ledger.marker = 1 /\ ~sound
       THEN Goto(p, "leave") /\ UNCHANGED txn
       ELSE txn' = ApplyMigrations(ledger) /\ Goto(p, "commit")
    /\ UNCHANGED <<disk, ledger, rest, lock, dead, seen, text>>

Commit(p) ==
    /\ pc[p] = "commit"
    /\ ledger' = txn /\ txn' = NoTxn
    /\ Goto(p, "row")
    /\ UNCHANGED <<disk, rest, lock, dead, seen, text>>

Upgraded(p) == [seen[p] EXCEPT !.v = Target]

SaveProject(p) ==
    /\ pc[p] = "row" /\ row' = Upgraded(p)
    /\ Goto(p, "source")
    /\ UNCHANGED <<source, internal, meta, ledger, txn, rest, lock, dead, seen, text>>

WriteSource(p) ==
    /\ pc[p] = "source" /\ source' = text[p]
    /\ Goto(p, "internal")
    /\ UNCHANGED <<internal, meta, row, ledger, txn, rest, lock, dead, seen, text>>

WriteInternal(p) ==
    /\ pc[p] = "internal" /\ internal' = Upgraded(p)
    /\ Goto(p, "meta")
    /\ UNCHANGED <<source, meta, row, ledger, txn, rest, lock, dead, seen, text>>

WriteMetadata(p) ==
    /\ pc[p] = "meta" /\ meta' = Target
    /\ Goto(p, "leave")
    /\ UNCHANGED <<source, internal, row, ledger, txn, rest, lock, dead, seen, text>>

Leave(p) ==
    /\ pc[p] = "leave" /\ lock' = "free"
    /\ Goto(p, "idle")
    /\ UNCHANGED <<disk, ledger, txn, rest, dead, seen, text>>

-------------------------------------------------------------------------------
(* The indexer: GraphBundle.open, execution_lock, refresh_manifest.           *)

Open ==
    /\ pc[Indexer] = "idle" /\ Openable
    /\ seen' = [seen EXCEPT ![Indexer] = internal]
    /\ Goto(Indexer, "lock")
    /\ UNCHANGED <<disk, ledger, txn, rest, lock, dead, text>>

IndexerLock ==
    /\ pc[Indexer] = "lock"
    /\ IF lock = "free" THEN lock' = Indexer /\ Goto(Indexer, "internal") ELSE Goto(Indexer, "idle") /\ UNCHANGED lock
    /\ UNCHANGED <<disk, ledger, txn, rest, dead, seen, text>>

\* A source manifest that differs from the one opened is taken over.
Refresh ==
    /\ pc[Indexer] = "internal"
    /\ IF source.v = Target /\ source # seen[Indexer]
       THEN internal' = source /\ seen' = [seen EXCEPT ![Indexer] = source] /\ Goto(Indexer, "row")
       ELSE UNCHANGED <<internal, seen>> /\ Goto(Indexer, IF source.v = Target THEN "commit" ELSE "leave")
    /\ UNCHANGED <<source, meta, row, ledger, txn, rest, lock, dead, text>>

RefreshRow ==
    /\ pc[Indexer] = "row" /\ ledger.marker = Target
    /\ row' = seen[Indexer]
    /\ Goto(Indexer, "commit")
    /\ UNCHANGED <<source, internal, meta, ledger, txn, rest, lock, dead, seen, text>>

\* A new graph has the current marker.
IndexCommit ==
    /\ pc[Indexer] = "commit" /\ ledger.marker = Target
    /\ ledger' = [ledger EXCEPT !.views = @ \cup {Target}]
    /\ Goto(Indexer, "leave")
    /\ UNCHANGED <<disk, txn, rest, lock, dead, seen, text>>

-------------------------------------------------------------------------------
(* Users and failures.                                                        *)

EditSource ==
    /\ edits < MaxEdits /\ edits' = edits + 1
    /\ source' = [source EXCEPT !.c = edits + 1]
    /\ UNCHANGED <<internal, meta, row, ledger, txn, sound, lock, dead, pc, seen, text, crashes>>

\* A process dies: its transaction is rolled back, its lock file stays.
Crash(p) ==
    /\ pc[p] # "idle" /\ crashes < MaxCrashes /\ crashes' = crashes + 1
    /\ txn' = IF lock = p THEN NoTxn ELSE txn
    /\ dead' = IF lock = p THEN dead \cup {p} ELSE dead
    /\ Goto(p, "idle")
    /\ UNCHANGED <<disk, ledger, sound, lock, seen, text, edits>>

RemoveStaleLock ==
    /\ lock \in dead
    /\ lock' = "free" /\ dead' = dead \ {lock}
    /\ UNCHANGED <<disk, ledger, txn, rest, pc, seen, text>>

-------------------------------------------------------------------------------
Migrate(p) ==
    \/ Inspect(p) \/ Acquire(p) \/ Read(p) \/ Ddl(p) \/ Begin(p) \/ Commit(p) \/ SaveProject(p)
    \/ WriteSource(p) \/ WriteInternal(p) \/ WriteMetadata(p) \/ Leave(p)
Index == Open \/ IndexerLock \/ Refresh \/ RefreshRow \/ IndexCommit \/ Leave(Indexer)

Next == Index \/ EditSource \/ RemoveStaleLock \/ \E p \in Workers : (p \in Migrators /\ Migrate(p)) \/ Crash(p)

Spec == Init /\ [][Next]_vars

\* A call runs to its end, the user starts it again and removes a stale lock.
FairSpec ==
    /\ Spec /\ WF_vars(RemoveStaleLock) /\ WF_vars(Index)
    /\ \A p \in Migrators : WF_vars(Migrate(p)) /\ SF_vars(Acquire(p) /\ lock = "free")

-------------------------------------------------------------------------------
\* A bundle that GraphBundle.open accepts is migrated completely, wherever an
\* earlier migration was interrupted: ledger marker, tables, typed derivations
\* and project row.
OpenableIsComplete ==
    Openable => /\ ledger.marker = Target /\ ledger.tables = {2, 3} /\ ledger.typed
                /\ row.v = Target /\ 1 \notin ledger.views

\* A ledger that cannot be migrated keeps the bundle as it was: the files are
\* not touched and the marker stays.
FailsClosed ==
    ~sound /\ ledger.marker = 1 => meta = 1 /\ internal.v = 1 /\ source.v = 1 /\ row.v = 1 /\ ~ledger.typed

\* The marker of the ledger never runs ahead of what it stands for, also when
\* the process dies inside of a step.
MarkerIsEarned == ledger.marker > 1 => ledger.typed /\ (ledger.marker = 3 => ledger.tables = {2, 3})

\* GraphBundle.migrate, interrupted anywhere: all of the above.
MigrationIsSafe == TypeOK /\ OpenableIsComplete /\ FailsClosed /\ MarkerIsEarned

\* "lock-protected and resumable": started again after every interruption, the
\* migration of a sound bundle completes.
MigrationCompletes == [](sound => <>Openable)

-------------------------------------------------------------------------------
(* What makes the safety properties inductive.                                *)

\* The labels at which a process is inside of the execution lock.
Inside(p) ==
    IF p = Indexer THEN {"internal", "row", "commit", "leave"}
    ELSE {"read", "ddl", "begin", "commit", "row", "source", "internal", "meta", "leave"}

\* The lock belongs to the one process that is inside of it, or to a dead one,
\* and only a migrator has a transaction.
LockIsHeld ==
    /\ \A p \in Workers : pc[p] \in Inside(p) \cup {"idle", "lock"}
    /\ \A p \in Workers : pc[p] \in Inside(p) => lock = p /\ dead = {}
    /\ dead \subseteq {lock}
    /\ \A p \in Migrators : pc[p] = "commit" => txn # NoTxn

\* A ledger that has been migrated to the target.
Complete(l) == l.marker = Target /\ l.tables = {2, 3} /\ l.typed /\ 1 \notin l.views

\* The marker stands for the tables, the derivations and the views at every
\* version, and what a transaction is about to commit is complete.
LedgerIsSound ==
    /\ ledger.marker = 1 => ~ledger.typed
    /\ ledger.marker = 2 => ledger.typed /\ 2 \in ledger.tables /\ 1 \notin ledger.views
    /\ ledger.marker = 3 => Complete(ledger)
    /\ txn # NoTxn => Complete(txn) /\ (ledger.marker = 1 => sound)

\* The files follow the ledger, one after the other: the project row first.
FilesFollow ==
    /\ ledger.marker = 1 => meta = 1 /\ internal.v = 1 /\ source.v = 1 /\ row.v = 1
    /\ row.v = Target => ledger.marker = Target
    /\ meta = Target \/ internal.v = Target \/ source.v = Target => row.v = Target
    /\ \A p \in Migrators :
         /\ pc[p] = "row" => ledger.marker = Target
         /\ pc[p] \in {"source", "internal", "meta"} => row.v = Target
    /\ pc[Indexer] = "row" => seen[Indexer].v = Target /\ row.v = Target

\* All of it together.
IInv == TypeOK /\ LockIsHeld /\ LedgerIsSound /\ FilesFollow

===============================================================================
