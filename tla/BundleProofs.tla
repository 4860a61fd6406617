------------------------------ MODULE BundleProofs -----------------------------
(***************************************************************************)
(* Theorems about a bundle: mutual exclusion of `.hlsgraph/execution.lock`  *)
(* and the refinement of the exclusive section, for every set of processes, *)
(* and the migration of an old bundle, for every set of migrators.          *)
(***************************************************************************)
EXTENDS MCBundle, Naturals, TLAPS

USE NoneIsNoProc

\* The initial bundle has no lock file and no process in a section.
LEMMA InitIInv == Init => IInv
<1> SUFFICES ASSUME Init PROVE IInv
  OBVIOUS
<1>1. TypeOK
  BY DEF Init, TypeOK, PC
<1>2. HolderOwnsFile
  BY DEF Init, HolderOwnsFile, Holding
<1>3. PidIsCreator
  BY DEF Init, PidIsCreator, NoFile
<1>4. FindingStaysTrue
  BY Zenon DEF Init, FindingStaysTrue
<1> QED BY <1>1, <1>2, <1>3, <1>4 DEF IInv

\* Each step of the lock protocol keeps the owner of a section and the creator
\* of the file together.
LEMMA StepIInv == IInv /\ [Next]_vars => IInv'
<1> SUFFICES ASSUME IInv, [Next]_vars PROVE IInv'
  OBVIOUS
<1> USE DEF IInv, TypeOK, HolderOwnsFile, PidIsCreator, FindingStaysTrue,
            LockFile, NoFile, PC, Holding, Holders
<1>1. ASSUME NEW p \in Procs, Create(p) PROVE IInv'
  BY <1>1 DEF Create
<1>2. ASSUME NEW p \in Procs, WritePid(p) PROVE IInv'
  BY <1>2 DEF WritePid
<1>3. ASSUME NEW p \in Procs, Leave(p) PROVE IInv'
  BY <1>3 DEF Leave
<1>4. ASSUME NEW p \in Procs, Unlink(p) PROVE IInv'
  BY <1>4 DEF Unlink
<1>5. ASSUME NEW p \in Procs, UnlinkDenied(p) PROVE IInv'
  BY <1>5 DEF UnlinkDenied
<1>6. ASSUME NEW p \in Procs, Die(p) PROVE IInv'
  BY <1>6 DEF Die
<1>7. CASE Inspect
  BY <1>7 DEF Inspect, Stale, Alive
<1>8. CASE RemoveStale
  BY <1>8 DEF RemoveStale
<1>9. CASE UNCHANGED vars
  BY <1>9 DEF vars
<1> QED
  BY <1>1, <1>2, <1>3, <1>4, <1>5, <1>6, <1>7, <1>8, <1>9 DEF Next, ProcStep

\* The inductive invariant holds in every reachable state.
THEOREM LockInvariant == Spec => []IInv
<1> QED BY InitIInv, StepIInv, PTL DEF Spec

\* At most one process is in a section of execution_lock, for any number of
\* processes, crashes and removals of stale locks by a user who inspects them.
THEOREM LockExcludes == Spec => []MutualExclusion
<1>1. IInv => MutualExclusion
  BY DEF IInv, HolderOwnsFile, MutualExclusion, Holders
<1> QED BY <1>1, LockInvariant, PTL

\* The `finally` clause, which removes the file by its path, never removes the
\* lock of another process.
THEOREM UnlinkIsSafe == Spec => OnlyOwnLockRemoved
<1>1. IInv /\ [Next]_vars
        => [\A p \in Procs :
              pc[p] = "leaving" /\ pc'[p] = "idle" => file.creator = p]_vars
  BY DEF IInv, HolderOwnsFile, Holding
<1> QED BY <1>1, LockInvariant, PTL DEF Spec, OnlyOwnLockRemoved

\* The section the file implements: who is in it, and whether it was abandoned.
SectionHolder == IF Holders = {} THEN None ELSE CHOOSE p \in Holders : TRUE
SectionAbandoned == file # NoFile /\ pc[file.creator] \notin Holding

\* While a process is in its section it is the holder and nothing is abandoned;
\* otherwise there is no holder, and any file at the path is an abandoned one.
Mapped ==
    /\ \A p \in Procs : pc[p] \in Holding => SectionHolder = p /\ ~SectionAbandoned
    /\ Holders = {} => SectionHolder = None /\ (SectionAbandoned <=> file # NoFile)

\* Every state the invariant allows maps to a state of the abstract section.
LEMMA IInvMapped == IInv => Mapped
<1> SUFFICES ASSUME IInv PROVE Mapped
  OBVIOUS
<1>1. ASSUME NEW p \in Procs, pc[p] \in Holding
      PROVE  SectionHolder = p /\ ~SectionAbandoned
  <2>1. Holders = {p}
    BY <1>1 DEF IInv, HolderOwnsFile, Holders
  <2>2. SectionHolder = p
    BY <2>1 DEF SectionHolder
  <2>3. file.creator = p
    BY <1>1 DEF IInv, HolderOwnsFile
  <2> QED BY <1>1, <2>2, <2>3 DEF SectionAbandoned
<1>2. ASSUME Holders = {}
      PROVE  SectionHolder = None /\ (SectionAbandoned <=> file # NoFile)
  <2>1. file # NoFile => file.creator \in Procs
    BY DEF IInv, TypeOK, LockFile
  <2> QED BY <1>2, <2>1 DEF SectionHolder, SectionAbandoned, Holders
<1> QED BY <1>1, <1>2 DEF Mapped

\* The lock file implements ExclusiveSection: every step of the protocol is a
\* step of the section, or leaves it alone.
THEOREM LockImplementsSection == Spec => ImplementsSection
<1> DEFINE SH == SectionHolder
           SA == SectionAbandoned
<1>1. Init => Section!Init
  BY DEF Init, Holders, Holding, NoFile, Section!Init
<1>2. IInv /\ IInv' /\ Mapped /\ Mapped' /\ [Next]_vars => [Section!Next]_(Section!vars)
  <2> SUFFICES ASSUME IInv, IInv', Mapped, Mapped', [Next]_vars
               PROVE  \/ \E p \in Procs :
                           \/ SH = None /\ ~SA /\ SH' = p /\ (SA' <=> SA)
                           \/ SH = p /\ SH' = None /\ (SA' <=> SA)
                           \/ SH = p /\ SH' = None /\ SA'
                      \/ SA /\ ~SA' /\ SH' = SH
                      \/ SH' = SH /\ (SA' <=> SA)
    BY Zenon DEF SectionHolder, SectionAbandoned, Section!Next, Section!vars, Section!Enter,
           Section!Release, Section!Abandon, Section!Recover
  <2>0. \A p \in Procs : pc[p] \in Holding => Holders = {p} /\ file.creator = p
    BY DEF IInv, HolderOwnsFile, Holders
  <2> HIDE DEF SH, SA
  <2>1. ASSUME NEW p \in Procs, Create(p)
        PROVE  SH = None /\ ~SA /\ SH' = p /\ ~SA'
    <3>1. Holders = {}
      BY <2>1 DEF Create, IInv, HolderOwnsFile, Holders, NoFile
    <3>2. pc'[p] \in Holding
      BY <2>1 DEF Create, IInv, TypeOK, Holding
    <3> QED BY <2>1, <3>1, <3>2 DEF Create, Mapped, SH, SA
  <2>2. ASSUME NEW p \in Procs, WritePid(p) \/ Leave(p)
        PROVE  SH' = SH /\ (SA' <=> SA)
    <3>1. pc[p] \in Holding /\ pc'[p] \in Holding
      BY <2>2 DEF WritePid, Leave, IInv, TypeOK, Holding
    <3> QED BY <3>1 DEF Mapped, SH, SA
  <2>3. ASSUME NEW p \in Procs, Unlink(p)
        PROVE  SH = p /\ SH' = None /\ (SA' <=> SA)
    <3>1. pc[p] \in Holding
      BY <2>3 DEF Unlink, Holding
    <3>2. Holders' = {}
      BY <2>3, <2>0, <3>1 DEF Unlink, IInv, TypeOK, Holders, Holding
    <3> QED BY <2>3, <3>1, <3>2 DEF Unlink, Mapped, SH, SA
  <2>4. ASSUME NEW p \in Procs, UnlinkDenied(p)
        PROVE  SH = p /\ SH' = None /\ SA'
    <3>1. pc[p] \in Holding
      BY <2>4 DEF UnlinkDenied, Holding
    <3>2. Holders' = {}
      BY <2>4, <2>0, <3>1 DEF UnlinkDenied, IInv, TypeOK, Holders, Holding
    <3>3. file' # NoFile
      BY <2>4, <2>0, <3>1 DEF UnlinkDenied, NoFile
    <3> QED BY <3>1, <3>2, <3>3 DEF Mapped, SH, SA
  <2>5. ASSUME NEW p \in Procs, Die(p)
        PROVE  \/ SH = p /\ SH' = None /\ SA'
               \/ SH' = SH /\ (SA' <=> SA)
    <3>1. CASE pc[p] \in Holding
      <4>1. Holders' = {}
        BY <2>5, <2>0, <3>1 DEF Die, IInv, TypeOK, Holders, Holding
      <4>2. file' # NoFile
        BY <2>5, <2>0, <3>1 DEF Die, NoFile
      <4> QED BY <3>1, <4>1, <4>2 DEF Mapped, SH, SA
    <3>2. CASE pc[p] \notin Holding
      <4>1. file' = file /\ Holders' = Holders
        BY <2>5, <3>2 DEF Die, IInv, TypeOK, Holders, Holding
      <4>2. CASE Holders = {}
        BY <4>1, <4>2 DEF Mapped, SH, SA
      <4>3. ASSUME NEW q \in Holders PROVE SH' = SH /\ (SA' <=> SA)
        BY <4>1, <4>3 DEF Mapped, SH, SA, Holders
      <4> QED BY <4>2, <4>3
    <3> QED BY <3>1, <3>2
  <2>6. CASE Inspect \/ UNCHANGED vars
    BY <2>6 DEF Inspect, vars, SH, SA, SectionHolder, SectionAbandoned, Holders
  <2>7. CASE RemoveStale
    <3>1. Holders = {} /\ Holders' = {} /\ file # NoFile /\ file' = NoFile
      BY <2>7 DEF RemoveStale, IInv, FindingStaysTrue, Holders
    <3> QED BY <3>1 DEF Mapped, SH, SA
  <2> QED
    BY <2>1, <2>2, <2>3, <2>4, <2>5, <2>6, <2>7 DEF Next, ProcStep
<1>3. Spec => [](IInv /\ Mapped)
  BY LockInvariant, IInvMapped, PTL
<1> QED
  BY <1>1, <1>2, <1>3, PTL DEF Spec, ImplementsSection, Section!Spec

-------------------------------------------------------------------------------
(* The migration (BundleMigration).                                           *)

\* What the version constants of the migration are: 1, 2 and Target, which is 3.
LEMMA MigrationNames ==
    /\ Migration!Indexer \notin Migrators /\ Migration!Workers = Migrators \cup {Migration!Indexer}
    /\ Migration!Target = 3 /\ Migration!Versions = {1, 2, 3} /\ "free" \notin Migration!Workers
    /\ MaxEdits \in Nat /\ MaxCrashes \in Nat
  BY MigrationAssumption DEF Migration!MigrationOK, Migration!Indexer, Migration!Workers, Migration!Target, Migration!Versions

\* create_tables and fill_views of _migrate, on a ledger of the first version.
LEMMA FirstStep ==
    ASSUME NEW l \in Migration!Ledger
    PROVE  LET m == Migration!MigrateV01ToV02(l) IN
           m \in Migration!Ledger /\ m.marker = 2 /\ m.typed /\ 2 \in m.tables /\ 1 \notin m.views
<1> DEFINE Views == {IF v = 1 THEN 2 ELSE v : v \in l.views}
           Same(views) == [l EXCEPT !.marker = 2, !.tables = @ \cup {2}, !.typed = TRUE, !.views = views]
<1>1. l.views \subseteq {1, 2, 3} /\ l.tables \subseteq {2, 3}
  BY MigrationNames DEF Migration!Ledger
<1>2. Views \subseteq {2, 3}
  BY <1>1
<1>3. Migration!MigrateV01ToV02(l) = Same(Views)
  BY Zenon DEF Migration!MigrateV01ToV02
<1> HIDE DEF Views
<1>4. Same(Views) \in Migration!Ledger
  BY <1>1, <1>2, MigrationNames DEF Migration!Ledger
<1>5. Same(Views).marker = 2 /\ 2 \in Same(Views).tables /\ Same(Views).views = Views
  BY DEF Migration!Ledger
<1>6. Same(Views).typed
  BY DEF Migration!Ledger
<1> HIDE DEF Same
<1> QED BY <1>2, <1>3, <1>4, <1>5, <1>6

\* The same on a ledger of the second version, whose tables are half there.
LEMMA SecondStep ==
    ASSUME NEW l \in Migration!Ledger, l.typed, 2 \in l.tables, 1 \notin l.views
    PROVE  Migration!MigrateV02ToV03(l) \in Migration!Ledger /\ Migration!Complete(Migration!MigrateV02ToV03(l))
<1> USE DEF Migration!Ledger, Migration!MigrateV02ToV03
<1>1. Migration!MigrateV02ToV03(l) \in Migration!Ledger
  BY MigrationNames
<1>2. Migration!MigrateV02ToV03(l).marker = 3 /\ Migration!MigrateV02ToV03(l).tables = {2, 3} /\ 1 \notin Migration!MigrateV02ToV03(l).views
  OBVIOUS
<1>3. Migration!MigrateV02ToV03(l).typed
  OBVIOUS
<1> QED BY Zenon, <1>1, <1>2, <1>3, MigrationNames DEF Migration!Complete

\* Whatever ledger a migration begins with, what its transaction holds at the
\* commit is a ledger of the target version.
LEMMA ApplyCompletes ==
    ASSUME NEW l \in Migration!Ledger, l.marker = 2 => l.typed /\ 2 \in l.tables /\ 1 \notin l.views,
           l.marker = 3 => Migration!Complete(l)
    PROVE  Migration!ApplyMigrations(l) \in Migration!Ledger /\ Migration!Complete(Migration!ApplyMigrations(l))
<1>1. CASE l.marker = 1
  <2>1. Migration!ApplyMigrations(l) = Migration!MigrateV02ToV03(Migration!MigrateV01ToV02(l))
    BY <1>1 DEF Migration!ApplyMigrations
  <2> QED BY <2>1, FirstStep, SecondStep
<1>2. CASE l.marker = 2
  <2>1. Migration!ApplyMigrations(l) = Migration!MigrateV02ToV03(l)
    BY <1>2 DEF Migration!ApplyMigrations
  <2> QED BY <1>2, <2>1, SecondStep
<1>3. CASE l.marker = 3
  BY <1>3 DEF Migration!ApplyMigrations
<1> QED BY <1>1, <1>2, <1>3, MigrationNames DEF Migration!Ledger

\* The mark for "no transaction" cannot be taken for a ledger.
LEMMA NoTxnIsNoLedger == Migration!NoTxn \notin Migration!Ledger
  BY MigrationNames DEF Migration!NoTxn, Migration!Ledger

\* A bundle of an old or of the current version, and no process at work.
LEMMA InitMigration == Migration!Init => Migration!IInv
<1> SUFFICES ASSUME Migration!Init PROVE Migration!IInv
  OBVIOUS
<1> USE MigrationNames
<1>1. PICK v \in Migration!Versions \ {Migration!Target} :
        /\ source = [v |-> v, c |-> 0] /\ internal = source /\ meta = v /\ row = source
        /\ ledger = [marker |-> v, tables |-> {2} \cap 1..v, typed |-> v > 1, views |-> {v}]
  BY DEF Migration!Init
<1>2. Migration!TypeOK
  BY <1>1 DEF Migration!Init, Migration!TypeOK, Migration!File, Migration!NoFile, Migration!Ledger
<1>3. Migration!LockIsHeld
  BY DEF Migration!Init, Migration!LockIsHeld, Migration!Inside
<1>4. Migration!LedgerIsSound
  <2>1. txn = Migration!NoTxn /\ ledger.marker = v /\ v \in {1, 2} /\ (ledger.typed <=> v > 1)
    BY <1>1 DEF Migration!Init
  <2>2. v = 2 => ledger.tables = {2} /\ ledger.views = {2}
    BY <1>1
  <2> QED BY <2>1, <2>2 DEF Migration!LedgerIsSound
<1>5. Migration!FilesFollow
  BY <1>1 DEF Migration!Init, Migration!FilesFollow
<1> QED BY <1>2, <1>3, <1>4, <1>5 DEF Migration!IInv

\* Every step of a migrator, of an indexer, of a user who edits a source or removes
\* a stale lock, and every crash, keeps what is known of lock, ledger and files.
LEMMA StepMigration == Migration!IInv /\ [Migration!Next]_(Migration!vars) => Migration!IInv'
<1> SUFFICES ASSUME Migration!IInv, [Migration!Next]_(Migration!vars) PROVE Migration!IInv'
  OBVIOUS
<1> USE MigrationNames DEF Migration!IInv
<1>1. ASSUME NEW p \in Migrators, Migration!Inspect(p) PROVE Migration!IInv'
  BY <1>1 DEF Migration!Inspect, Migration!Goto, Migration!disk, Migration!rest, Migration!TypeOK, Migration!LockIsHeld, Migration!LedgerIsSound, Migration!FilesFollow, Migration!Inside
<1>2. ASSUME NEW p \in Migrators, Migration!Acquire(p) PROVE Migration!IInv'
  BY <1>2 DEF Migration!Acquire, Migration!Goto, Migration!disk, Migration!rest, Migration!TypeOK, Migration!LockIsHeld, Migration!LedgerIsSound, Migration!FilesFollow, Migration!Inside
<1>3. ASSUME NEW p \in Migrators, Migration!Read(p) PROVE Migration!IInv'
  BY <1>3 DEF Migration!Read, Migration!Goto, Migration!disk, Migration!rest, Migration!TypeOK, Migration!LockIsHeld, Migration!LedgerIsSound, Migration!FilesFollow, Migration!Inside, Migration!File
<1>4. ASSUME NEW p \in Migrators, Migration!Ddl(p) PROVE Migration!IInv'
  BY <1>4 DEF Migration!Ddl, Migration!Goto, Migration!disk, Migration!rest, Migration!TypeOK, Migration!LockIsHeld, Migration!LedgerIsSound, Migration!FilesFollow, Migration!Inside, Migration!Ledger, Migration!Complete
<1>5. ASSUME NEW p \in Migrators, Migration!Begin(p) PROVE Migration!IInv'
  BY <1>5, ApplyCompletes, NoTxnIsNoLedger DEF Migration!Begin, Migration!Goto, Migration!disk, Migration!rest, Migration!TypeOK, Migration!LockIsHeld, Migration!LedgerIsSound, Migration!FilesFollow, Migration!Inside
<1>6. ASSUME NEW p \in Migrators, Migration!Commit(p) PROVE Migration!IInv'
  BY <1>6 DEF Migration!Commit, Migration!Goto, Migration!disk, Migration!rest, Migration!TypeOK, Migration!LockIsHeld, Migration!LedgerIsSound, Migration!FilesFollow, Migration!Inside, Migration!Complete
<1>7. ASSUME NEW p \in Migrators, Migration!SaveProject(p) PROVE Migration!IInv'
  BY <1>7 DEF Migration!SaveProject, Migration!Goto, Migration!disk, Migration!rest, Migration!TypeOK, Migration!LockIsHeld, Migration!LedgerIsSound, Migration!FilesFollow, Migration!Inside, Migration!Upgraded, Migration!File
<1>8. ASSUME NEW p \in Migrators, Migration!WriteSource(p) PROVE Migration!IInv'
  BY <1>8 DEF Migration!WriteSource, Migration!Goto, Migration!disk, Migration!rest, Migration!TypeOK, Migration!LockIsHeld, Migration!LedgerIsSound, Migration!FilesFollow, Migration!Inside
<1>9. ASSUME NEW p \in Migrators, Migration!WriteInternal(p) PROVE Migration!IInv'
  BY <1>9 DEF Migration!WriteInternal, Migration!Goto, Migration!disk, Migration!rest, Migration!TypeOK, Migration!LockIsHeld, Migration!LedgerIsSound, Migration!FilesFollow, Migration!Inside, Migration!Upgraded, Migration!File
<1>10. ASSUME NEW p \in Migrators, Migration!WriteMetadata(p) PROVE Migration!IInv'
  BY <1>10 DEF Migration!WriteMetadata, Migration!Goto, Migration!disk, Migration!rest, Migration!TypeOK, Migration!LockIsHeld, Migration!LedgerIsSound, Migration!FilesFollow, Migration!Inside
<1>11. ASSUME NEW p \in Migration!Workers, Migration!Leave(p) PROVE Migration!IInv'
  BY <1>11 DEF Migration!Leave, Migration!Goto, Migration!disk, Migration!rest, Migration!TypeOK, Migration!LockIsHeld, Migration!LedgerIsSound, Migration!FilesFollow, Migration!Inside
<1>12. CASE Migration!Open
  BY <1>12 DEF Migration!Open, Migration!Goto, Migration!disk, Migration!rest, Migration!TypeOK, Migration!LockIsHeld, Migration!LedgerIsSound, Migration!FilesFollow, Migration!Inside
<1>13. CASE Migration!IndexerLock
  BY <1>13 DEF Migration!IndexerLock, Migration!Goto, Migration!disk, Migration!rest, Migration!TypeOK, Migration!LockIsHeld, Migration!LedgerIsSound, Migration!FilesFollow, Migration!Inside
<1>14. CASE Migration!Refresh
  BY <1>14 DEF Migration!Refresh, Migration!Goto, Migration!disk, Migration!rest, Migration!TypeOK, Migration!LockIsHeld, Migration!LedgerIsSound, Migration!FilesFollow, Migration!Inside, Migration!File
<1>15. CASE Migration!RefreshRow
  BY <1>15 DEF Migration!RefreshRow, Migration!Goto, Migration!disk, Migration!rest, Migration!TypeOK, Migration!LockIsHeld, Migration!LedgerIsSound, Migration!FilesFollow, Migration!Inside
<1>16. CASE Migration!IndexCommit
  BY <1>16 DEF Migration!IndexCommit, Migration!Goto, Migration!disk, Migration!rest, Migration!TypeOK, Migration!LockIsHeld, Migration!LedgerIsSound, Migration!FilesFollow, Migration!Inside, Migration!Ledger, Migration!Complete
<1>17. CASE Migration!EditSource
  BY <1>17 DEF Migration!EditSource, Migration!Goto, Migration!disk, Migration!rest, Migration!TypeOK, Migration!LockIsHeld, Migration!LedgerIsSound, Migration!FilesFollow, Migration!Inside, Migration!File
<1>18. CASE Migration!RemoveStaleLock
  BY <1>18 DEF Migration!RemoveStaleLock, Migration!Goto, Migration!disk, Migration!rest, Migration!TypeOK, Migration!LockIsHeld, Migration!LedgerIsSound, Migration!FilesFollow, Migration!Inside
<1>19. ASSUME NEW p \in Migration!Workers, Migration!Crash(p) PROVE Migration!IInv'
  BY <1>19 DEF Migration!Crash, Migration!Goto, Migration!disk, Migration!rest, Migration!TypeOK, Migration!LockIsHeld, Migration!LedgerIsSound, Migration!FilesFollow, Migration!Inside
<1>20. CASE UNCHANGED Migration!vars
  BY <1>20 DEF Migration!vars, Migration!TypeOK, Migration!LockIsHeld, Migration!LedgerIsSound, Migration!FilesFollow, Migration!Inside
<1> QED
  BY <1>1, <1>2, <1>3, <1>4, <1>5, <1>6, <1>7, <1>8, <1>9, <1>10, <1>11, <1>12, <1>13, <1>14, <1>15,
     <1>16, <1>17, <1>18, <1>19, <1>20 DEF Migration!Next, Migration!Migrate, Migration!Index

\* It holds in every reachable state, for any number of migrators.
THEOREM MigrationInvariant == Migration!Spec => []Migration!IInv
  BY InitMigration, StepMigration, PTL DEF Migration!Spec

\* A bundle opens only with all that its version promises, however often the
\* migration is stopped and started again.
THEOREM MigrationAlwaysSafe == Migration!Spec => []Migration!MigrationIsSafe
<1>1. Migration!IInv => Migration!MigrationIsSafe
  BY MigrationNames DEF Migration!IInv, Migration!MigrationIsSafe, Migration!LedgerIsSound, Migration!FilesFollow, Migration!Complete, Migration!Openable, Migration!OpenableIsComplete,
               Migration!FailsClosed, Migration!MarkerIsEarned, Migration!TypeOK, Migration!Ledger
<1> QED BY <1>1, MigrationInvariant, PTL

\* The same in every behaviour of the group that the run checks.
THEOREM BundleMigrationIsSafe == MCSpec => []MigrationIsSafe
<1>1. MCInit => Migration!Init
  BY DEF MCInit
<1>2. [MCNext]_<<part, vars, mvars>> => [Migration!Next]_(Migration!vars)
  BY DEF MCNext, mvars, Migration!vars
<1>3. MCSpec => Migration!Spec
  BY <1>1, <1>2, PTL DEF MCSpec, Migration!Spec
<1> QED BY <1>3, MigrationAlwaysSafe, PTL DEF MigrationIsSafe
===============================================================================
