------------------------------ MODULE BundleLock ------------------------------
(***************************************************************************)
(* `.hlsgraph/execution.lock`, the file that serialises indexing, stage     *)
(* runs and migrations of one bundle (GraphBundle.execution_lock and        *)
(* _bundle_migration_lock in bundle.py).                                    *)
(*                                                                          *)
(* The file is created with O_CREAT|O_EXCL, gets the owner's pid in a       *)
(* second step, and is removed by path, whoever it belongs to, when the     *)
(* section ends.  A process that dies leaves it behind; the error message   *)
(* tells the user to "inspect the owner before removing a stale lock", and  *)
(* the operator below does that.  A process identity is never reused.       *)
(***************************************************************************)
CONSTANTS Procs,     \* processes that may use the bundle, each living once
          None       \* no process, no recorded pid

ASSUME NoneIsNoProc == None \notin Procs

VARIABLES
    file,       \* the lock file: [creator, pid], or NoFile
    pc,         \* where each process is
    inspected   \* TRUE while the operator holds a finding "this lock is stale"

vars == <<file, pc, inspected>>

-------------------------------------------------------------------------------
\* creator is the process whose O_EXCL open made the file; pid is what the file
\* says, None until the payload is written.
LockFile == [creator : Procs, pid : Procs \cup {None}]
NoFile == [creator |-> None, pid |-> None]

PC == {"idle", "created", "inside", "leaving", "dead"}
Holding == {"created", "inside", "leaving"}

Holders == {p \in Procs : pc[p] \in Holding}
Alive(p) == pc[p] # "dead"

TypeOK ==
    /\ file \in LockFile \cup {NoFile}
    /\ pc \in [Procs -> PC]
    /\ inspected \in BOOLEAN

Init ==
    /\ file = NoFile
    /\ pc = [p \in Procs |-> "idle"]
    /\ inspected = FALSE

-------------------------------------------------------------------------------
\* (mutant) The file is opened without O_EXCL.
CreateShared(p) ==
    /\ pc[p] = "idle"
    /\ file' = [creator |-> p, pid |-> None]
    /\ pc' = [pc EXCEPT ![p] = "created"]
    /\ UNCHANGED inspected

\* (mutant) A file with no pid is taken over.
CreateOverBlank(p) ==
    /\ pc[p] = "idle"
    /\ file.pid = None
    /\ file' = [creator |-> p, pid |-> None]
    /\ pc' = [pc EXCEPT ![p] = "created"]
    /\ UNCHANGED inspected

\* os.open(path, O_CREAT|O_EXCL|O_WRONLY).  When the file exists the call
\* raises BundleError and nothing changes.
Create(p) ==
    /\ pc[p] = "idle"
    /\ file = NoFile
    /\ file' = [creator |-> p, pid |-> None]
    /\ pc' = [pc EXCEPT ![p] = "created"]
    /\ UNCHANGED inspected

\* os.write(descriptor, pid): the descriptor, not the path, so that only the
\* file this process created can receive its pid.
WritePid(p) ==
    /\ pc[p] = "created"
    /\ file' = IF file.creator = p THEN [file EXCEPT !.pid = p] ELSE file
    /\ pc' = [pc EXCEPT ![p] = "inside"]
    /\ UNCHANGED inspected

\* The body returns or raises, or the payload cannot be written: both reach the
\* `finally` clause.
Leave(p) ==
    /\ pc[p] \in {"created", "inside"}
    /\ pc' = [pc EXCEPT ![p] = "leaving"]
    /\ UNCHANGED <<file, inspected>>

\* _unlink_execution_lock: path.unlink(missing_ok=True), no ownership test.
Unlink(p) ==
    /\ pc[p] = "leaving"
    /\ file' = NoFile
    /\ pc' = [pc EXCEPT ![p] = "idle"]
    /\ UNCHANGED inspected

\* The sixth PermissionError is raised: the process goes on, the file stays.
UnlinkDenied(p) ==
    /\ pc[p] = "leaving"
    /\ pc' = [pc EXCEPT ![p] = "idle"]
    /\ UNCHANGED <<file, inspected>>

\* A process is killed, or exits, at any point; its lock file survives it.
Die(p) ==
    /\ Alive(p)
    /\ pc' = [pc EXCEPT ![p] = "dead"]
    /\ UNCHANGED <<file, inspected>>

\* (mutant) A lock without pid is removed at once.
StaleWhenBlank == file # NoFile /\ file.pid \notin {p \in Procs : Alive(p)}

\* The user inspects the owner: the recorded process is dead, or no pid is
\* recorded and no command that uses the bundle is under way.
Stale ==
    /\ file # NoFile
    /\ \/ file.pid # None /\ ~Alive(file.pid)
       \/ file.pid = None /\ Holders = {}

Inspect ==
    /\ ~inspected
    /\ Stale
    /\ inspected' = TRUE
    /\ UNCHANGED <<file, pc>>

RemoveStale ==
    /\ inspected
    /\ file' = NoFile
    /\ inspected' = FALSE
    /\ UNCHANGED pc

-------------------------------------------------------------------------------
ProcStep(p) ==
    \/ Create(p) \/ WritePid(p) \/ Leave(p)
    \/ Unlink(p) \/ UnlinkDenied(p) \/ Die(p)

Next ==
    \/ \E p \in Procs : ProcStep(p)
    \/ Inspect
    \/ RemoveStale

Spec == Init /\ [][Next]_vars

\* A running process finishes its section (stages have a timeout) and a user
\* who finds the bundle locked clears a stale lock.  Nothing makes a process
\* start a section, or die.
Fairness ==
    /\ \A p \in Procs : WF_vars(Leave(p)) /\ WF_vars(Unlink(p) \/ UnlinkDenied(p))
    /\ WF_vars(Inspect)
    /\ WF_vars(RemoveStale)

FairSpec == Spec /\ Fairness

-------------------------------------------------------------------------------
\* At most one process is between creating the lock and removing it, although
\* `finally` removes whatever file is at the path.
MutualExclusion == \A p, q \in Holders : p = q

\* The inductive form: a process in its section owns the file at the path, and
\* a file the operator found stale belongs to nobody's section.
HolderOwnsFile == \A p \in Procs : pc[p] \in Holding => file.creator = p
PidIsCreator == file.pid # None => file.pid = file.creator
FindingStaysTrue == inspected => file # NoFile /\ Holders = {}

IInv == TypeOK /\ HolderOwnsFile /\ PidIsCreator /\ FindingStaysTrue

\* The unconditional unlink never removes another process's lock.
OnlyOwnLockRemoved ==
    [][\A p \in Procs :
          pc[p] = "leaving" /\ pc'[p] = "idle" => file.creator = p]_vars

\* A lock left by a dead process does not block the bundle for ever.
StaleLockIsCleared ==
    (file # NoFile /\ file.creator \in Procs /\ pc[file.creator] = "dead")
        ~> (file = NoFile)

\* A section that was entered ends, released or by the death of its process.
SectionEnds == \A p \in Procs : (pc[p] \in Holding) ~> (pc[p] \notin Holding)

\* The lock file implements the exclusive section.
Section == INSTANCE ExclusiveSection WITH
    holder <- IF Holders = {} THEN None ELSE CHOOSE p \in Holders : TRUE,
    abandoned <- file # NoFile /\ pc[file.creator] \notin Holding

ImplementsSection == Section!Spec
===============================================================================
