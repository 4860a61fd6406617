----------------------------- MODULE IndexPipeline -----------------------------
(***************************************************************************)
(* Indexing: how live project inputs become an immutable snapshot and an    *)
(* active canonical graph.                                                  *)
(*                                                                          *)
(* Project.index / index_variant (sdk.py) run _index_locked inside the      *)
(* bundle's execution lock; GraphBundle.refresh_manifest, snapshot and      *)
(* is_stale (bundle.py) and the ledger's save_project, save_snapshot,       *)
(* commit_index_success and commit_index_failure (store/sqlite.py) are its  *)
(* steps.  Users edit sources and the manifest, record variant actions and  *)
(* re-create the bundle without taking the lock, and a process may die at   *)
(* any step.                                                                *)
(*                                                                          *)
(* Each step of the operation is one file-system access or one ledger       *)
(* transaction.  Files are read one at a time in every pass over them.      *)
(* The lock itself is the exclusive section of ExclusiveSection.tla, which  *)
(* BundleLock.tla implements, so one operation is under way at a time and   *)
(* its local variables are the variables of this module.                    *)
(*                                                                          *)
(* Identifiers that the program derives by hashing (snapshots, actions) are *)
(* taken to be injective: a snapshot is named by the position of its row    *)
(* (the SQLite rowid), an action by its contents.                           *)
(***************************************************************************)
EXTENDS Naturals, Sequences, FiniteSets

CONSTANTS
    Procs, None,
    Files,          \* the input files of the project
    Contexts,       \* build, target, constraints and toolchains of a manifest
    Extras,         \* its other identity fields (stage commands, outputs, ...)
    Metas,          \* its metadata, which is no part of any identity
    Broken, Absent, \* a source manifest that does not parse, or does not exist
    SourceStates,   \* what the user may put at the manifest's path
    Profiles,       \* extraction profiles (libclang or degraded, plugins)
    Deltas,         \* what tells apart two actions on one parent
    Creators,       \* the processes that may run `init --force` at any time
    AllowRevert,    \* TRUE when an edit may restore earlier bytes
    MaxEdits, MaxFaults, MaxVariants   \* bounds on the environment

Manifests == [ctx : Contexts, extra : Extras, meta : Metas]

ASSUME ConstantsOK ==
    /\ None \notin Procs /\ None \notin Deltas
    /\ Broken \notin Manifests /\ Absent \notin Manifests /\ Broken # Absent
    /\ SourceStates \subseteq Manifests \cup {Broken, Absent}
    /\ Creators \subseteq Procs /\ Profiles # {}
    /\ AllowRevert \in BOOLEAN
    /\ MaxEdits \in Nat /\ MaxFaults \in Nat /\ MaxVariants \in Nat
    /\ None \notin Manifests

VARIABLES
    \* the project directory and the bundle's files
    live,       \* the version of the bytes in each input file
    source,     \* the source manifest (hlsgraph.toml)
    internal,   \* .hlsgraph/manifest.json, the bundle's copy of it; Broken when torn
    stamped,    \* whether .hlsgraph/bundle.json is whole
    \* the ledger
    project,    \* projects.manifest_json
    snaps,      \* the snapshots and snapshot_manifests rows, in rowid order
    graph,      \* snapshot -> the input versions its graph was extracted from
    active,     \* project_state.active_snapshot_id, 0 when there is none
    variants,   \* recorded actions
    runs,       \* index runs: snapshot and status
    mats,       \* action materializations
    \* processes and the lock
    mem,        \* GraphBundle.manifest of each open Project, None when closed
    creating,   \* processes inside `init --force`
    writing,    \* the file that a process has truncated and not yet filled
    holder, abandoned,
    \* locals of the operation under way
    pc, args, seen, scan, cand, parent, cur, extr, fatal,
    shot,       \* history: what was live when the collection ended
    \* how much of the environment's budget is used
    edits, faults

disk == <<live, source, internal, stamped>>
ledger == <<project, snaps, graph, active, variants, runs, mats>>
lock == <<holder, abandoned>>
locals == <<args, seen, scan, cand, parent, cur, extr, fatal, shot>>
budget == <<edits, faults>>
vars == <<disk, ledger, mem, creating, writing, lock, pc, locals, budget>>

-------------------------------------------------------------------------------
NoAction == [parent |-> 0, delta |-> None]
Action == [parent : Nat \ {0}, delta : Deltas]
Versions == [Files -> Nat]

\* ProjectManifest.identity_payload: everything but the metadata.
Ident(m) == [ctx |-> m.ctx, extra |-> m.extra]

\* A snapshot's stored row.  Its identity excludes the parent, and the
\* manifest kept beside it is the whole one.
Row == [ident : [ctx : Contexts, extra : Extras], src : Versions,
        act : Action \cup {NoAction}, prof : Profiles,
        man : Manifests, parent : Nat]

SameIdentity(row, ident, src, act, prof) ==
    row.ident = ident /\ row.src = src /\ row.act = act /\ row.prof = prof

Ids == 1..Len(snaps)

\* The input classes that make an action's effect material: artifact hashes,
\* build, target, constraints and toolchains.
Material(i, j) == snaps[i].src # snaps[j].src \/ snaps[i].ident.ctx # snaps[j].ident.ctx

Run == [snap : Nat, status : {"succeeded", "failed"}]
Materialization ==
    [act : Action, status : {"materialized", "failed", "no_op"}, result : Nat]

Args == [act : Action \cup {NoAction}, parent : Nat, prof : Profiles]

Passes == {"collect", "extract", "compare", "restat"}
Steps == Passes \cup {"refresh", "reregister", "lookup", "register", "save",
                      "material", "stale", "commit"}

TypeOK ==
    /\ live \in Versions
    /\ source \in Manifests \cup {Broken, Absent}
    /\ internal \in Manifests \cup {Broken} /\ stamped \in BOOLEAN /\ project \in Manifests
    /\ snaps \in Seq(Row)
    /\ DOMAIN graph \subseteq Ids /\ \A i \in DOMAIN graph : graph[i] \in Versions
    /\ active \in Nat
    /\ variants \subseteq Action /\ runs \subseteq Run /\ mats \subseteq Materialization
    /\ mem \in [Procs -> Manifests \cup {None}]
    /\ creating \subseteq Procs /\ writing \in [Procs -> {"none", "manifest", "metadata"}]
    /\ holder \in Procs \cup {None} /\ abandoned \in BOOLEAN
    /\ pc \in Steps \cup {"idle", "leave"}
    /\ args \in Args
    /\ seen \subseteq Files
    /\ scan \in Versions /\ cand \in Versions /\ extr \in Versions
    /\ parent \in Nat /\ cur \in Nat
    /\ fatal \in BOOLEAN
    /\ shot \in Versions
    /\ edits \in 0..MaxEdits /\ faults \in 0..MaxFaults

Unread == [f \in Files |-> 0]
NoArgs == [act |-> NoAction, parent |-> 0, prof |-> CHOOSE x \in Profiles : TRUE]

\* A bundle just created from a source manifest, opened by some processes.
Init ==
    /\ live = Unread
    /\ source \in SourceStates \ {Broken}
    /\ project \in SourceStates \cap Manifests
    /\ source # Absent => project = source
    /\ internal = project /\ stamped = TRUE
    /\ snaps = <<>> /\ graph = <<>> /\ active = 0
    /\ variants = {} /\ runs = {} /\ mats = {}
    /\ mem \in [Procs -> {project, None}]
    /\ creating = {} /\ writing = [p \in Procs |-> "none"]
    /\ holder = None /\ abandoned = FALSE
    /\ pc = "idle" /\ args = NoArgs
    /\ seen = {} /\ scan = Unread /\ cand = Unread /\ extr = Unread
    /\ parent = 0 /\ cur = 0 /\ fatal = FALSE /\ shot = Unread
    /\ edits = 0 /\ faults = 0

-------------------------------------------------------------------------------
(* The operation, step by step.                                               *)

\* (mutant) A lock file left behind by a dead process is ignored.
BeginOverStaleLock(p, a) ==
    /\ mem[p] # None /\ p \notin creating
    /\ holder = None
    /\ holder' = p
    /\ pc' = "refresh"
    /\ args' = a
    /\ UNCHANGED <<disk, ledger, mem, creating, writing, abandoned, budget>>
    /\ UNCHANGED <<seen, scan, cand, parent, cur, extr, fatal, shot>>

\* Project.index and Project.index_variant: enter the execution lock.  An
\* explicit parent names a stored snapshot; an action brings its own.
Begin(p, a) ==
    /\ mem[p] # None /\ p \notin creating
    /\ holder = None /\ ~abandoned
    /\ holder' = p
    /\ pc' = "refresh"
    /\ args' = a
    /\ UNCHANGED <<disk, ledger, mem, creating, writing, abandoned, budget>>
    /\ UNCHANGED <<seen, scan, cand, parent, cur, extr, fatal, shot>>

\* (mutant) The source is compared with manifest.json, not with the memory.
RefreshKeepByFile ==
    /\ pc = "refresh"
    /\ source \in {Absent, mem[holder], internal}
    /\ pc' = "lookup"
    /\ UNCHANGED <<disk, ledger, mem, creating, writing, lock, locals, budget>>

\* refresh_manifest: nothing to do when there is no source manifest or it says
\* what this process has in memory.
RefreshKeep ==
    /\ pc = "refresh"
    /\ source \in {Absent, mem[holder]}
    /\ pc' = "lookup"
    /\ UNCHANGED <<disk, ledger, mem, creating, writing, lock, locals, budget>>

\* Otherwise the new manifest is adopted, manifest.json is truncated ...
RefreshWrite ==
    /\ pc = "refresh"
    /\ source \in Manifests \ {mem[holder]}
    /\ mem' = [mem EXCEPT ![holder] = source]
    /\ internal' = Broken
    /\ writing' = [writing EXCEPT ![holder] = "manifest"]
    /\ pc' = "reregister"
    /\ UNCHANGED <<live, source, stamped, ledger, creating, lock, locals, budget>>

\* ... and filled (write_internal_manifest, here and in `init --force`, which
\* then truncates bundle.json) ...
WriteManifest(p) ==
    /\ writing[p] = "manifest"
    /\ internal' = mem[p]
    /\ stamped' = (stamped /\ p \notin creating)
    /\ writing' = [writing EXCEPT ![p] = IF p \in creating THEN "metadata" ELSE "none"]
    /\ UNCHANGED <<live, source, ledger, mem, creating, lock, pc, locals, budget>>

\* ... and goes to the projects row.
RefreshRegister ==
    /\ pc = "reregister"
    /\ writing[holder] = "none"
    /\ project' = mem[holder]
    /\ pc' = "lookup"
    /\ UNCHANGED <<disk, snaps, graph, active, variants, runs, mats>>
    /\ UNCHANGED <<mem, creating, writing, lock, locals, budget>>

\* An action must be recorded, and supplies the parent of the new snapshot.
LookupOK ==
    args.act # NoAction =>
        /\ args.act \in variants
        /\ args.parent \in {0, args.act.parent}

Lookup ==
    /\ pc = "lookup"
    /\ LookupOK
    /\ parent' = IF args.act # NoAction THEN args.act.parent ELSE args.parent
    /\ pc' = "collect"
    /\ UNCHANGED <<disk, ledger, mem, creating, writing, lock, budget>>
    /\ UNCHANGED <<args, seen, scan, cand, cur, extr, fatal, shot>>

\* (mutant) Later passes trust the versions of the collection.
ReadFileCached(f) ==
    /\ pc \in Passes
    /\ f \notin seen
    /\ seen' = seen \cup {f}
    /\ scan' = [scan EXCEPT ![f] = IF pc = "collect" THEN live[f] ELSE cand[f]]
    /\ UNCHANGED <<disk, ledger, mem, creating, writing, lock, pc, budget>>
    /\ UNCHANGED <<args, cand, parent, cur, extr, fatal, shot>>

\* Any pass over the input files reads them one by one, while they may change:
\* collect_artifacts, the extractors, _artifact_byte_mismatches and the
\* collect_artifacts of is_stale.
ReadFile(f) ==
    /\ pc \in Passes
    /\ f \notin seen
    /\ seen' = seen \cup {f}
    /\ scan' = [scan EXCEPT ![f] = live[f]]
    /\ UNCHANGED <<disk, ledger, mem, creating, writing, lock, pc, budget>>
    /\ UNCHANGED <<args, cand, parent, cur, extr, fatal, shot>>

EndPass(next) ==
    /\ seen = Files
    /\ seen' = {}
    /\ scan' = Unread
    /\ pc' = next

\* GraphBundle.snapshot: the candidate's identity, and the active snapshot as
\* its parent unless the caller gave one or the active one is the candidate.
Collected ==
    /\ pc = "collect"
    /\ EndPass("register")
    /\ cand' = scan
    /\ shot' = live
    /\ parent' =
         IF parent = 0 /\ active # 0
            /\ ~SameIdentity(snaps[active], Ident(mem[holder]), scan, args.act, args.prof)
         THEN active
         ELSE parent
    /\ UNCHANGED <<disk, ledger, mem, creating, writing, lock, budget>>
    /\ UNCHANGED <<args, cur, extr, fatal>>

\* store.save_project.
Register ==
    /\ pc = "register"
    /\ project' = mem[holder]
    /\ pc' = "save"
    /\ UNCHANGED <<disk, snaps, graph, active, variants, runs, mats>>
    /\ UNCHANGED <<mem, creating, writing, lock, locals, budget>>

\* The rows of the candidate's identity: at most one.
Known == {i \in Ids : SameIdentity(snaps[i], Ident(mem[holder]), cand, args.act, args.prof)}

\* The checks of store.save_snapshot, made against the registered project.
SaveOK ==
    /\ Ident(project) = Ident(mem[holder])
    /\ parent \in Ids \cup {0}
    /\ args.act \in variants => parent = args.act.parent
    /\ \A i \in Known : snaps[i].man = project

\* store.save_snapshot: a known snapshot keeps its row, lineage included.
SaveSnapshot ==
    /\ pc = "save"
    /\ SaveOK
    /\ IF Known # {}
       THEN cur' \in Known /\ UNCHANGED snaps
       ELSE /\ snaps' = Append(snaps,
                 [ident |-> Ident(mem[holder]), src |-> cand, act |-> args.act,
                  prof |-> args.prof, man |-> project, parent |-> parent])
            /\ cur' = Len(snaps) + 1
    /\ pc' = IF args.act = NoAction THEN "extract" ELSE "material"
    /\ UNCHANGED <<disk, project, graph, active, variants, runs, mats>>
    /\ UNCHANGED <<mem, creating, writing, lock, budget>>
    /\ UNCHANGED <<args, seen, scan, cand, parent, extr, fatal, shot>>

\* commit_index_failure: the failed run and the attempt, and nothing else.
CommitFailure(status, result) ==
    /\ runs' = runs \cup {[snap |-> cur, status |-> "failed"]}
    /\ mats' = IF args.act = NoAction THEN mats
               ELSE mats \cup {[act |-> args.act, status |-> status, result |-> result]}
    /\ UNCHANGED <<project, snaps, graph, active, variants>>

\* (mutant) The candidate only has to differ from its parent in its identity.
CheckDiffers ==
    /\ pc = "material"
    /\ cur # args.act.parent
    /\ pc' = "extract"
    /\ UNCHANGED <<disk, ledger, mem, creating, writing, lock, locals, budget>>

\* A variant whose inputs equal its parent's is a semantic no-op.
CheckMaterial ==
    /\ pc = "material"
    /\ Material(cur, args.act.parent)
    /\ pc' = "extract"
    /\ UNCHANGED <<disk, ledger, mem, creating, writing, lock, locals, budget>>

CommitNoOp ==
    /\ pc = "material"
    /\ ~Material(cur, args.act.parent)
    /\ CommitFailure("no_op", 0)
    /\ pc' = "leave"
    /\ UNCHANGED <<disk, mem, creating, writing, lock, locals, budget>>

\* (mutant) The inputs are not validated again after extraction.
ExtractedUnvalidated ==
    /\ pc = "extract"
    /\ EndPass("commit")
    /\ extr' = scan
    /\ fatal' = FALSE
    /\ UNCHANGED <<disk, ledger, mem, creating, writing, lock, budget>>
    /\ UNCHANGED <<args, cand, parent, cur, shot>>

\* ExtractionPipeline.run and the validation of its output: clean, or with an
\* ERROR diagnostic (an extractor failed, evidence does not resolve, there is
\* not exactly one kernel, the aggregate authorization is invalid).
Extracted ==
    /\ pc = "extract"
    /\ EndPass("compare")
    /\ extr' = scan
    /\ \/ fatal' = FALSE /\ UNCHANGED faults
       \/ fatal' = TRUE /\ faults < MaxFaults /\ faults' = faults + 1
    /\ UNCHANGED <<disk, ledger, mem, creating, writing, lock, edits>>
    /\ UNCHANGED <<args, cand, parent, cur, shot>>

\* The last revalidation: the recorded bytes of every input ...
Compared ==
    /\ pc = "compare"
    /\ EndPass("stale")
    /\ fatal' = (fatal \/ scan # cand)
    /\ UNCHANGED <<disk, ledger, mem, creating, writing, lock, budget>>
    /\ UNCHANGED <<args, cand, parent, cur, extr, shot>>

\* ... then is_stale, which reads the manifest (an invalid one is stale) ...
StaleManifest ==
    LET current == IF source = Absent THEN mem[holder] ELSE source
    IN  /\ pc = "stale"
        /\ IF source = Broken
           THEN fatal' = TRUE /\ pc' = "commit"
           ELSE /\ fatal' = (fatal \/ Ident(current) # snaps[cur].ident)
                /\ pc' = "restat"
        /\ UNCHANGED <<disk, ledger, mem, creating, writing, lock, budget>>
        /\ UNCHANGED <<args, seen, scan, cand, parent, cur, extr, shot>>

\* ... and collects the inputs again.
Restatted ==
    /\ pc = "restat"
    /\ EndPass("commit")
    /\ fatal' = (fatal \/ scan # snaps[cur].src)
    /\ UNCHANGED <<disk, ledger, mem, creating, writing, lock, budget>>
    /\ UNCHANGED <<args, cand, parent, cur, extr, shot>>

\* (mutant) A stored graph is replaced.
GraphReplaced == TRUE

\* _save_graph refuses to replace a stored graph by a different one.
GraphOK == cur \in DOMAIN graph => graph[cur] = extr

\* commit_index_success: graph, run, materialization and the active pointer in
\* one transaction.
CommitSuccess ==
    /\ pc = "commit"
    /\ ~fatal
    /\ GraphOK
    /\ graph' = [i \in DOMAIN graph \cup {cur} |-> IF i = cur THEN extr ELSE graph[i]]
    /\ runs' = runs \cup {[snap |-> cur, status |-> "succeeded"]}
    /\ mats' = IF args.act = NoAction THEN mats
               ELSE mats \cup {[act |-> args.act, status |-> "materialized", result |-> cur]}
    /\ active' = cur
    /\ pc' = "leave"
    /\ UNCHANGED <<disk, project, snaps, variants, mem, creating, writing, lock, locals, budget>>

CommitFatal ==
    /\ pc = "commit"
    /\ fatal
    /\ CommitFailure("failed", cur)
    /\ pc' = "leave"
    /\ UNCHANGED <<disk, mem, creating, writing, lock, locals, budget>>

ClearLocals ==
    /\ args' = NoArgs
    /\ seen' = {} /\ scan' = Unread /\ cand' = Unread /\ extr' = Unread
    /\ parent' = 0 /\ cur' = 0 /\ fatal' = FALSE /\ shot' = Unread

\* Leaving the `with execution_lock()` block.
Leave ==
    /\ pc = "leave"
    /\ holder' = None
    /\ pc' = "idle"
    /\ ClearLocals
    /\ UNCHANGED <<disk, ledger, mem, creating, writing, abandoned, budget>>

\* The lock file cannot be removed: the process goes on and the file stays.
LeaveDenied ==
    /\ pc = "leave"
    /\ faults < MaxFaults
    /\ faults' = faults + 1
    /\ holder' = None /\ abandoned' = TRUE
    /\ pc' = "idle"
    /\ ClearLocals
    /\ UNCHANGED <<disk, ledger, mem, creating, writing, edits>>

\* A check of the code fails and its exception leaves the block; whatever was
\* written before it stays written.
Reject ==
    /\ \/ pc = "refresh" /\ source = Broken
       \/ pc = "lookup" /\ ~LookupOK
       \/ pc = "save" /\ ~SaveOK
       \/ pc = "commit" /\ ~fatal /\ ~GraphOK
    /\ pc' = "leave"
    /\ UNCHANGED <<disk, ledger, mem, creating, writing, lock, locals, budget>>

\* Any step may raise: a missing file, a full disk, a busy database.
Fault ==
    /\ pc \in Steps
    /\ faults < MaxFaults
    /\ faults' = faults + 1
    /\ pc' = "leave"
    /\ writing' = [writing EXCEPT ![holder] = "none"]
    /\ UNCHANGED <<disk, ledger, mem, creating, lock, locals, edits>>

\* The process dies: its lock file stays behind, its memory is gone, and a file it
\* was writing is torn.
Crash ==
    /\ pc # "idle"
    /\ faults < MaxFaults
    /\ faults' = faults + 1
    /\ mem' = [mem EXCEPT ![holder] = None]
    /\ writing' = [writing EXCEPT ![holder] = "none"]
    /\ holder' = None /\ abandoned' = TRUE
    /\ pc' = "idle"
    /\ ClearLocals
    /\ UNCHANGED <<disk, ledger, creating, edits>>

-------------------------------------------------------------------------------
(* Everything that happens outside the lock.                                  *)

\* The user removes the stale lock file.
Recover ==
    /\ abandoned
    /\ abandoned' = FALSE
    /\ UNCHANGED <<disk, ledger, mem, creating, writing, holder, pc, locals, budget>>

\* GraphBundle.open, in a new process: the manifest comes from manifest.json, and
\* a torn file is refused.
Open(p) ==
    /\ mem[p] = None
    /\ internal # Broken /\ stamped
    /\ mem' = [mem EXCEPT ![p] = internal]
    /\ UNCHANGED <<disk, ledger, creating, writing, lock, pc, locals, budget>>

\* Nobody has the bundle open, and nobody can open it.
Unopenable == (internal = Broken \/ ~stamped) /\ \A p \in Procs : mem[p] = None

\* (mutant) The manifest in the bundle is always read before it is replaced.
CreateWriteParsed(p) ==
    /\ p # holder /\ p \notin creating
    /\ source \in Manifests /\ internal # Broken
    /\ \/ Unopenable /\ UNCHANGED edits
       \/ p \in Creators /\ edits < MaxEdits /\ edits' = edits + 1
    /\ mem' = [mem EXCEPT ![p] = source]
    /\ internal' = Broken
    /\ creating' = creating \cup {p}
    /\ writing' = [writing EXCEPT ![p] = "manifest"]
    /\ UNCHANGED <<live, source, stamped, ledger, lock, pc, locals, faults>>

\* `init --force`, which is not under the execution lock: GraphBundle.create
\* adopts the source manifest and truncates manifest.json.  To re-create a bundle
\* that does not open is not counted, as each time took a fault.
CreateWrite(p) ==
    /\ p # holder /\ p \notin creating
    /\ source \in Manifests
    /\ \/ Unopenable /\ UNCHANGED edits
       \/ p \in Creators /\ edits < MaxEdits /\ edits' = edits + 1
    /\ mem' = [mem EXCEPT ![p] = source]
    /\ internal' = Broken
    /\ creating' = creating \cup {p}
    /\ writing' = [writing EXCEPT ![p] = "manifest"]
    /\ UNCHANGED <<live, source, stamped, ledger, lock, pc, locals, faults>>

\* Then it fills bundle.json ...
WriteMetadata(p) ==
    /\ writing[p] = "metadata"
    /\ stamped' = TRUE
    /\ writing' = [writing EXCEPT ![p] = "none"]
    /\ UNCHANGED <<live, source, internal, ledger, mem, creating, lock, pc, locals, budget>>

\* ... and saves the project row.
CreateRegister(p) ==
    /\ p \in creating /\ writing[p] = "none"
    /\ project' = mem[p]
    /\ creating' = creating \ {p}
    /\ UNCHANGED <<disk, snaps, graph, active, variants, runs, mats>>
    /\ UNCHANGED <<mem, writing, lock, pc, locals, budget>>

\* It dies or raises anywhere: there is no Project, and a file may be torn.
CreateFail(p) ==
    /\ p \in creating
    /\ faults < MaxFaults
    /\ faults' = faults + 1
    /\ mem' = [mem EXCEPT ![p] = None]
    /\ creating' = creating \ {p}
    /\ writing' = [writing EXCEPT ![p] = "none"]
    /\ UNCHANGED <<disk, ledger, lock, pc, locals, edits>>

\* record_variant_action: the parent must have a graph, and no snapshot may
\* name the action under another parent.
RecordVariant(a) ==
    /\ a \notin variants
    /\ a.parent \in DOMAIN graph
    /\ \A i \in Ids : snaps[i].act = a => snaps[i].parent = a.parent
    /\ Cardinality(variants) < MaxVariants
    /\ variants' = variants \cup {a}
    /\ UNCHANGED <<disk, project, snaps, graph, active, runs, mats>>
    /\ UNCHANGED <<mem, creating, writing, lock, pc, locals, budget>>

\* The user edits a file: new bytes, or, where that is allowed, older ones.
EditFile(f) ==
    /\ edits < MaxEdits
    /\ edits' = edits + 1
    /\ \E v \in 0..MaxEdits :
         /\ v # live[f]
         /\ v < live[f] => AllowRevert
         /\ v > live[f] => v = live[f] + 1
         /\ live' = [live EXCEPT ![f] = v]
    /\ UNCHANGED <<source, internal, stamped, ledger, mem, creating, writing, lock, pc, locals, faults>>

EditManifest ==
    /\ edits < MaxEdits
    /\ edits' = edits + 1
    /\ source' \in SourceStates \ {source}
    /\ UNCHANGED <<live, internal, stamped, ledger, mem, creating, writing, lock, pc, locals, faults>>

-------------------------------------------------------------------------------
OpStep ==
    \/ RefreshKeep \/ RefreshWrite \/ RefreshRegister \/ Lookup
    \/ \E f \in Files : ReadFile(f)
    \/ Collected \/ Register \/ SaveSnapshot
    \/ CheckMaterial \/ CommitNoOp
    \/ Extracted \/ Compared \/ StaleManifest \/ Restatted
    \/ CommitSuccess \/ CommitFatal \/ Reject \/ Leave

\* The arguments a caller may pass at this moment.
Calls ==
    [act : {NoAction}, parent : Ids \cup {0}, prof : Profiles]
        \cup [act : {[parent |-> i, delta |-> d] : i \in DOMAIN graph, d \in Deltas},
              parent : {0}, prof : Profiles]

Environment ==
    \/ \E f \in Files : EditFile(f)
    \/ EditManifest
    \/ \E p \in Procs : \/ Open(p) \/ WriteManifest(p)
                       \/ CreateWrite(p) \/ WriteMetadata(p) \/ CreateRegister(p) \/ CreateFail(p)
    \/ \E i \in DOMAIN graph, d \in Deltas : RecordVariant([parent |-> i, delta |-> d])
    \/ Recover

Next ==
    \/ \E p \in Procs, a \in Calls : Begin(p, a)
    \/ OpStep \/ Fault \/ LeaveDenied \/ Crash
    \/ Environment

Spec == Init /\ [][Next]_vars

-------------------------------------------------------------------------------
(* Safety.                                                                    *)

\* A graph view exists exactly for the snapshots with a succeeded index run,
\* and the active pointer names one of them: a failed, no-op or interrupted
\* attempt never publishes anything ("failed candidates are never selected").
PublishedIffSucceeded ==
    /\ DOMAIN graph = {r.snap : r \in {x \in runs : x.status = "succeeded"}}
    /\ active # 0 => active \in DOMAIN graph

\* Lineage is a forest: a snapshot's parent was stored before it, even when
\* earlier inputs come back and their snapshot is reactivated.
ParentIsOlder == \A i \in Ids : snaps[i].parent < i

\* The manifest stored beside a snapshot has the snapshot's manifest hash,
\* although another process may re-register the project at any time.
ManifestMatchesIdentity == \A i \in Ids : Ident(snaps[i].man) = snaps[i].ident

\* A snapshot that names an action descends from the action's parent, and has a
\* graph only if the action changed its inputs; so a materialized attempt names
\* a real, published change and a no-op names none.
VariantLineage ==
    /\ \A i \in Ids : snaps[i].act # NoAction =>
         /\ snaps[i].act \in variants
         /\ snaps[i].parent = snaps[i].act.parent
         /\ i \in DOMAIN graph => Material(i, snaps[i].parent)
    /\ \A m \in mats :
         /\ m.act \in variants
         /\ m.status = "no_op" => m.result = 0
         /\ m.status # "no_op" => m.result \in Ids /\ snaps[m.result].act = m.act
         /\ m.status = "materialized" => m.result \in DOMAIN graph

\* Snapshots are immutable ledger records (docs/architecture.md): rows, graphs,
\* runs, actions and attempts are only ever added.
LedgerOnlyGrows ==
    [][/\ Len(snaps) <= Len(snaps')
       /\ \A i \in Ids : snaps'[i] = snaps[i]
       /\ \A i \in DOMAIN graph : i \in DOMAIN graph' /\ graph'[i] = graph[i]
       /\ variants \subseteq variants' /\ runs \subseteq runs' /\ mats \subseteq mats'
      ]_vars

\* A graph was extracted from exactly the bytes its snapshot records, although
\* extraction reads the live files: what the final revalidation is for.
GraphMatchesSnapshot == \A i \in DOMAIN graph : graph[i] = snaps[i].src

\* A snapshot that is about to be published names a state the project directory
\* was really in at one instant, although its files are read one by one while
\* they change: no torn mixture of old and new files gets a graph.
PublishedWasLive == pc = "commit" /\ ~fatal => snaps[cur].src = shot

\* The lock of this module is the exclusive section that the file implements.
Section == INSTANCE ExclusiveSection
HoldsSection == Section!Spec

-------------------------------------------------------------------------------
(* What makes the safety properties inductive.                                *)

AfterSave == {"material", "extract", "compare", "stale", "restat", "commit"}
AfterMaterial == AfterSave \ {"material"}
AfterExtract == AfterMaterial \ {"extract"}
AfterCompare == AfterExtract \ {"compare"}
AfterCollect == AfterSave \cup {"register", "save"}

\* The operation under way belongs to an open process that holds the lock.
Control ==
    /\ pc = "idle" <=> holder = None
    /\ holder # None => mem[holder] # None /\ holder \notin creating /\ ~abandoned
    /\ \A p \in creating : mem[p] # None
    /\ \A p \in Procs : writing[p] # "none" =>
           mem[p] # None /\ (p \in creating \/ (p = holder /\ pc = "reregister"))
    /\ pc \notin Passes \cup {"leave"} => seen = {}

\* What the operation knows about its action and its candidate.
Candidate ==
    /\ args.act # NoAction /\ pc \in AfterCollect \cup {"collect"} =>
         args.act \in variants /\ parent = args.act.parent
    /\ pc \in AfterSave =>
         cur \in Ids /\ snaps[cur].src = cand /\ snaps[cur].act = args.act
    /\ args.act # NoAction /\ pc \in AfterMaterial => Material(cur, args.act.parent)
    /\ \A a \in variants : a.parent \in DOMAIN graph

\* Where bytes never return, the passes of one operation see later and later
\* versions of each file; equal ends make everything between them equal.
LaterAndLater ==
    /\ pc \in Passes => \A f \in seen : scan[f] <= live[f]
    /\ pc \in AfterCollect => \A f \in Files : cand[f] <= shot[f] /\ shot[f] <= live[f]
    /\ pc = "extract" => \A f \in seen : shot[f] <= scan[f]
    /\ pc \in AfterExtract => \A f \in Files : shot[f] <= extr[f] /\ extr[f] <= live[f]
    /\ pc = "compare" => \A f \in seen : extr[f] <= scan[f]
    /\ pc \in AfterCompare /\ ~fatal => extr = cand /\ shot = cand

\* All of it together, and with it every safety property above.
IInv ==
    /\ TypeOK /\ Control /\ Candidate
    /\ PublishedIffSucceeded /\ ParentIsOlder /\ ManifestMatchesIdentity /\ VariantLineage
    /\ AllowRevert \/ (LaterAndLater /\ GraphMatchesSnapshot)

-------------------------------------------------------------------------------
(* What the program's comments say, and the code does not do.                 *)

\* bundle.py: "The same source/build/target/tool/extraction inputs always
\* recover the same snapshot ID".
SameInputsRecoverSnapshot ==
    pc = "save" /\ Ident(project) = Ident(mem[holder]) =>
        \A i \in Known : snaps[i].man = project

-------------------------------------------------------------------------------
(* Liveness.                                                                  *)

\* Somebody re-runs a plain index until it gets the lock, an operation that
\* holds it goes on, a user clears the lock of a dead process and re-creates
\* a bundle that does not open.  Nothing makes users edit, or steps fail: both
\* happen finitely often.
Retry == \E p \in Procs, prof \in Profiles :
            Begin(p, [act |-> NoAction, parent |-> 0, prof |-> prof])

Fairness ==
    /\ WF_vars(OpStep)
    /\ WF_vars(Recover)
    /\ SF_vars(Retry)
    /\ WF_vars(\E p \in Procs : Unopenable /\ CreateWrite(p))
    /\ \A p \in Procs :
          WF_vars(Open(p)) /\ WF_vars(WriteManifest(p)) /\ WF_vars(WriteMetadata(p)) /\ WF_vars(CreateRegister(p))

FairSpec == Spec /\ Fairness

\* The active graph is of the live inputs.
UpToDate ==
    /\ active # 0
    /\ snaps[active].src = live /\ graph[active] = live
    /\ source \in Manifests => snaps[active].ident = Ident(source)

\* The manifests an index may be about.
Wanted == IF source = Absent THEN {mem[p] : p \in Procs} \ {None} ELSE {source}

\* What the ledger never takes back: the snapshot of the live inputs was stored with
\* other metadata, or its graph was extracted from other bytes.  Every further
\* index is then refused (save_snapshot, _save_graph).
Refused ==
    \E i \in Ids, w \in Wanted :
        /\ snaps[i].src = live /\ w \in Manifests /\ snaps[i].ident = Ident(w)
        /\ snaps[i].man # w \/ (i \in DOMAIN graph /\ graph[i] # live)

\* After the last edit, crash and failure, whatever was left in the bundle by
\* them, the active graph becomes and stays the graph of the live inputs, unless
\* the ledger refuses it, the source manifest cannot be used, or there is none to
\* re-create a torn bundle from.
Converges ==
    <>[](UpToDate \/ Refused \/ source = Broken \/ (source = Absent /\ Unopenable))
===============================================================================
