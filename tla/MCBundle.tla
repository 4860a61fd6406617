------------------------------- MODULE MCBundle -------------------------------
(***************************************************************************)
(* What may happen to a bundle outside of its ledger: the lock file, and the  *)
(* migration of the whole bundle.  A behaviour is one of the lock or one of    *)
(* a migration, which takes the lock in a single step; the other rests in an    *)
(* initial state.                                                           *)
(***************************************************************************)
EXTENDS BundleLock

VARIABLES
    part,       \* which of the two
    source, internal, meta, row, ledger, txn, sound, lock, dead, mpc, seen, text, edits, crashes

CONSTANTS Migrators, MaxEdits, MaxCrashes

Migration == INSTANCE BundleMigration WITH pc <- mpc

ASSUME MigrationAssumption == Migration!MigrationOK

mvars == <<source, internal, meta, row, ledger, txn, sound, lock, dead, mpc, seen, text, edits, crashes>>

MCInit == Init /\ Migration!Init /\ part \in {"lock", "migration"}

MCNext ==
    /\ \/ part = "lock" /\ Next /\ UNCHANGED mvars
       \/ part = "migration" /\ Migration!Next /\ UNCHANGED vars
    /\ UNCHANGED part

\* Processes go on inside of their sections, the user clears a stale lock and
\* starts an interrupted migration again.
MCFairness ==
    /\ Fairness
    /\ WF_mvars(part = "migration" /\ Migration!RemoveStaleLock)
    /\ WF_mvars(part = "migration" /\ Migration!Index)
    /\ \A p \in Migrators :
         /\ WF_mvars(part = "migration" /\ Migration!Migrate(p))
         /\ SF_mvars(part = "migration" /\ Migration!Acquire(p) /\ lock = "free")

MCSpec == MCInit /\ [][MCNext]_<<part, vars, mvars>> /\ MCFairness

-------------------------------------------------------------------------------
\* GraphBundle.migrate, interrupted anywhere: a bundle that open accepts is
\* complete, a ledger that cannot be migrated leaves everything alone, and the
\* marker of the ledger never runs ahead of its tables.
MigrationIsSafe == Migration!MigrationIsSafe

\* No section is held for ever and stale lock files are cleared (execution_lock); a
\* migration that is started again after every interruption completes
\* ("lock-protected and resumable").
BundleRecovers ==
    /\ part = "lock" => StaleLockIsCleared /\ SectionEnds
    /\ part = "migration" => Migration!MigrationCompletes

===============================================================================
