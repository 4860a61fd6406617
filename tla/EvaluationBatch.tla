-------------------------- MODULE EvaluationBatch --------------------------
(***************************************************************************)
(* A batch of the agent evaluation: eval/agent_ab/runner.py runs the cells   *)
(* of a frozen run set one after the other, score.py turns their directories *)
(* into rows.                                                               *)
(*                                                                          *)
(* A cell is a question asked of the model in one arm.  Everything a cell    *)
(* depends on (checkout, installed runtimes, prepared workspaces) has a      *)
(* version; environment.lock.json pins one version of all of it.  Nothing on *)
(* disk is protected: it may change before, between and during the checks of *)
(* the runner and of the scorer, the runner may be killed, and directories   *)
(* of runs may be moved or filled with the trace of another run.             *)
(***************************************************************************)
EXTENDS Naturals, Sequences, FiniteSets

CONSTANTS
    Plan,        \* sequence of the cells, in the order of execution (build_run_plan)
    ArmOf,       \* cell -> arm
    MaxBatches,  \* bound: batches started
    MaxEdits     \* bound: changes of the disk from outside

\* There are cells, each with an arm.
BatchAssumption ==
    /\ Len(Plan) \in Nat \ {0} /\ DOMAIN Plan = 1..Len(Plan)
    /\ MaxEdits \in Nat

Cells == {Plan[i] : i \in DOMAIN Plan}
Arms == {ArmOf[c] : c \in Cells}
Treated == Arms \ {"native"}
None == [none |-> TRUE]

VARIABLES
    lock,      \* the version environment.lock.json pins
    world,     \* [checkout, runtime : treatment -> version, ws : arm -> version]
    sandbox,   \* what a model process, and what its MCP server can read
    canary,    \* cell -> is its boundary canary as it was written?
    overlay,   \* cell -> source accesses its MCP server logged (a set of reads)
    runset,    \* run-set.json
    dirs,      \* cell -> its run directory
    archive,   \* traces that exist somewhere
    rpc, at,   \* the runner: where it is, and in which cell
    mem,       \* the runner: the run set in memory
    batches, threads,
    touched,   \* changes of the world since the checks of the current cell
    proved,    \* is the sandbox as the canaries of this batch found it?
    spc, sat,  \* the scorer
    sset,      \* the scorer: the run set it loaded
    snap,      \* the scorer: the files of the current cell
    rows,      \* cell -> row
    edits

disk == <<lock, world, sandbox, canary, overlay, runset, dirs, archive>>
runner == <<rpc, at, mem, batches, threads, touched, proved>>
scorer == <<spc, sat, sset, snap, rows>>
vars == <<disk, runner, scorer, edits>>

Versions == 1..2
Targets == {"workspace", "gold", "sibling"}
Declared == {"workspace"}

-------------------------------------------------------------------------------
(* What a run set freezes.                                                     *)

Challenge(batch, l, c) == <<batch, l, c>>

\* The prompt carries the challenge; the command names workspace, permissions
\* and MCP server, which runs contained, with the audit overlay of the cell.
Prompt(c, challenge) == [cell |-> c, challenge |-> challenge]
Permissions == Declared
Contained(arm) == [reads |-> Declared, audited |-> arm = "v03"]
Mcp(arm) == IF arm = "native" THEN {} ELSE {[server |-> arm, box |-> Contained(arm)]}
Command(c, l) == [ws |-> ArmOf[c], pins |-> l, permits |-> Permissions, mcp |-> Mcp(ArmOf[c])]
Contract(batch, l, c) ==
    [cell |-> c, prompt |-> Prompt(c, Challenge(batch, l, c)), command |-> Command(c, l)]

RunSet(batch, l, cells) ==
    [batch |-> batch, lock |-> l, cells |-> [c \in cells |-> Contract(batch, l, c)],
     canaries |-> [model |-> l, server |-> l]]

-------------------------------------------------------------------------------
(* The identities that are checked.                                            *)

CheckoutOK(l) == world.checkout = l
PayloadOK(arm, l) == arm \in Treated => world.runtime[arm] = l
PayloadsOK(l) == \A a \in Treated : PayloadOK(a, l)
WorkspaceOK(arm, l) == world.ws[arm] = l

\* run_permission_canaries and run_treatment_mcp_canaries: all that is declared
\* can be read, nothing else.
PermissionCanaries == sandbox.model = Permissions
ServerProbe(arm) == sandbox.server = Contained(arm).reads
McpCanaries == \A a \in Treated : ServerProbe(a)
CanariesPass == PermissionCanaries /\ McpCanaries

\* The receipts of both are of the boundary the lock pins.
PermissionReceiptOK(r) == r.canaries.model = lock
McpReceiptOK(r) == r.canaries.server = lock
ReceiptsOK(r) == PermissionReceiptOK(r) /\ McpReceiptOK(r)

\* The accesses the MCP server logged for a cell; only one arm has an overlay.
OverlayEmpty(c) == overlay[c] = {}

-------------------------------------------------------------------------------
(* The runner.                                                                 *)

Quiet == UNCHANGED <<scorer, edits>>
C == Plan[at]

\* Everything is compared with the lock before anything is created; the runs
\* root must be empty.  A batch may be for some of the cells only.
Begin ==
    /\ rpc = "idle" /\ batches < MaxBatches /\ Quiet
    /\ PayloadsOK(lock) /\ CheckoutOK(lock)
    /\ runset = None /\ \A c \in Cells : dirs[c] = None
    /\ CanariesPass
    /\ rpc' = "freeze" /\ batches' = batches + 1 /\ proved' = TRUE
    /\ \E cells \in {Cells} \cup {Cells \ {c} : c \in Cells} :
         mem' = [batch |-> batches + 1, lock |-> lock, cells |-> [c \in cells |-> None]]
    /\ UNCHANGED <<disk, at, threads, touched>>

\* build_run_set and the writing of run-set.json.
Freeze ==
    /\ rpc = "freeze" /\ Quiet
    /\ LET cells == DOMAIN mem.cells IN
       /\ \A c \in cells : WorkspaceOK(ArmOf[c], mem.lock)
       /\ mem' = RunSet(mem.batch, mem.lock, cells)
       /\ overlay' = [c \in Cells |-> IF c \in cells THEN {} ELSE overlay[c]]
       /\ canary' = [c \in Cells |-> c \in cells \/ canary[c]]
    /\ runset' = mem' /\ rpc' = "next" /\ at' = 1 /\ touched' = 0
    /\ UNCHANGED <<lock, world, sandbox, dirs, archive, batches, threads, proved>>

\* An exception ends the batch where it stands.
Abort(from) ==
    /\ rpc = from /\ rpc' = "idle" /\ at' = 0 /\ mem' = None /\ touched' = 0
    /\ UNCHANGED <<disk, batches, threads, proved>> /\ Quiet
FreezeFails == Abort("freeze") /\ \E c \in DOMAIN mem.cells : ~WorkspaceOK(ArmOf[c], mem.lock)

SkipCell ==
    /\ rpc = "next" /\ at <= Len(Plan) /\ C \notin DOMAIN mem.cells
    /\ at' = at + 1 /\ UNCHANGED <<disk, rpc, mem, batches, threads, touched, proved>> /\ Quiet

\* The checks before a cell; the lock is read again.
CellOK(c) ==
    /\ lock = mem.lock
    /\ CheckoutOK(lock) /\ PayloadOK(ArmOf[c], lock)
    /\ canary[c] /\ WorkspaceOK(ArmOf[c], lock)
    /\ OverlayEmpty(c) /\ ReceiptsOK(mem)
    /\ mem.cells[c] = Contract(mem.batch, lock, c)
CheckCell ==
    /\ rpc = "next" /\ at <= Len(Plan) /\ C \in DOMAIN mem.cells /\ CellOK(C)
    /\ rpc' = "launch" /\ touched' = 0
    /\ UNCHANGED <<disk, at, mem, batches, threads, proved>> /\ Quiet
CheckFails ==
    /\ rpc = "next" /\ at <= Len(Plan) /\ C \in DOMAIN mem.cells /\ ~CellOK(C)
    /\ Abort("next")

\* The run directory must be new; the process is started in it.
NewDir == dirs[C] = None
Launch ==
    /\ rpc = "launch" /\ NewDir /\ Quiet
    /\ dirs' = [dirs EXCEPT ![C] = [trace |-> None, audit |-> {}, meta |-> None]]
    /\ rpc' = "model" /\ threads' = threads + 1
    /\ UNCHANGED <<lock, world, sandbox, canary, overlay, runset, archive, at, mem, batches, touched, proved>>
LaunchFails == Abort("launch") /\ ~NewDir

\* A model sees what it can read and what its server returns.
CanSee(arm) == sandbox.model \cup (IF arm = "native" THEN {} ELSE sandbox.server)

\* The model process ends with its trace: what it could read, what its MCP
\* server returned and logged, whether it answered.  After the timeout its
\* process group is killed and there is no answer.
ModelEnds ==
    /\ rpc = "model" /\ rpc' = "collect" /\ Quiet
    /\ \E answered \in BOOLEAN, sees \in {{t} : t \in CanSee(ArmOf[C])},
          reads, logged \in IF ArmOf[C] = "v03" THEN {{}, {threads}} ELSE {{}} :
         LET t == [ch |-> mem.cells[C].prompt.challenge, thread |-> threads, answered |-> answered,
                   sees |-> sees, reads |-> reads, in |-> world, proved |-> proved]
         IN /\ dirs' = [dirs EXCEPT ![C].trace = t]
            /\ archive' = archive \cup {t}
            /\ overlay' = [overlay EXCEPT ![C] = @ \cup logged]
    /\ UNCHANGED <<lock, world, sandbox, canary, runset, at, mem, batches, threads, touched, proved>>

\* The audit overlay is copied to the run directory.
Collect ==
    /\ rpc = "collect" /\ rpc' = "verify" /\ Quiet
    /\ dirs' = [dirs EXCEPT ![C].audit = IF ArmOf[C] = "v03" THEN overlay[C] ELSE {}]
    /\ UNCHANGED <<lock, world, sandbox, canary, overlay, runset, archive, at, mem, batches, threads, touched, proved>>

\* (mutant) The workspace is not verified again.
AfterRuntime(c) == PayloadsOK(mem.lock) /\ canary[c] /\ CheckoutOK(mem.lock)

\* The checks after a cell: every payload, canary, workspace, checkout.
AfterOK(c) ==
    PayloadsOK(mem.lock) /\ canary[c] /\ WorkspaceOK(ArmOf[c], mem.lock) /\ CheckoutOK(mem.lock)

\* run.json: what score.py compares with the run set.
Meta(c) == [contract |-> mem.cells[c], batch |-> mem.batch, lock |-> lock, audit |-> dirs[c].audit,
            touched |-> touched]

VerifyCell ==
    /\ rpc = "verify" /\ AfterOK(C) /\ Quiet
    /\ dirs' = [dirs EXCEPT ![C].meta = Meta(C)]
    /\ rpc' = "next" /\ at' = at + 1 /\ touched' = 0
    /\ UNCHANGED <<lock, world, sandbox, canary, overlay, runset, archive, mem, batches, threads, proved>>
VerifyFails == Abort("verify") /\ ~AfterOK(C)

\* After the last cell all runtimes are compared once more; the process exits
\* with the outcome, the disk does not show it.
Finish ==
    /\ at > Len(Plan) /\ Abort("next")

Kill == \E from \in {"freeze", "launch", "model", "collect", "verify"} : Abort(from)

Runner ==
    \/ Begin \/ Freeze \/ FreezeFails \/ SkipCell \/ CheckCell \/ CheckFails \/ Launch \/ LaunchFails
    \/ ModelEnds \/ Collect \/ VerifyCell \/ VerifyFails \/ Finish

-------------------------------------------------------------------------------
(* The scorer.                                                                 *)

Score(from) == spc = from /\ UNCHANGED <<disk, runner, edits>>
Order == Plan

\* _validate_execution_contract, and the server of the arm.
CommandOK(cmd, c) == cmd.ws = ArmOf[c] /\ cmd.pins = lock /\ cmd.permits = Permissions
ServerOK(cmd, c) == cmd.mcp = Mcp(ArmOf[c])
CellFrozen(r, c) ==
    /\ r.cells[c].cell = c /\ canary[c]
    /\ r.cells[c].prompt = Prompt(c, Challenge(r.batch, lock, c))
    /\ CommandOK(r.cells[c].command, c) /\ ServerOK(r.cells[c].command, c)

\* load_run_set: the exact matrix, every contract as it is derived from batch
\* and lock, every canary intact, a directory for every cell and no other.
RunSetOK(r) ==
    /\ r # None /\ r.lock = lock /\ ReceiptsOK(r)
    /\ DOMAIN r.cells = Cells
    /\ \A c \in Cells : CellFrozen(r, c)
    /\ \A c \in Cells : dirs[c] # None
Load ==
    /\ Score("idle") /\ CheckoutOK(lock) /\ RunSetOK(runset)
    /\ sset' = runset /\ spc' = "read" /\ sat' = 1 /\ UNCHANGED <<snap, rows>>

\* score_run, first half: the files are read, and compared with the run set.
MetadataOK(s, c) ==
    /\ s # None /\ s.meta # None
    /\ s.meta.contract = sset.cells[c] /\ s.meta.batch = sset.batch /\ s.meta.lock = sset.lock

ChallengeOK(s, c) == s.trace.answered /\ s.trace.ch = sset.cells[c].prompt.challenge

\* Source accesses count if the MCP server logged exactly what the trace shows.
AuditOK(s) == s.meta.audit = s.audit /\ s.audit = s.trace.reads

\* validate_trace_policy: markers of the gold answers in any output.
PolicyOK(s) == "gold" \notin s.trace.sees

Sound(s, c) ==
    /\ MetadataOK(s, c) /\ s.trace # None /\ ChallengeOK(s, c) /\ canary[c]
    /\ WorkspaceOK(ArmOf[c], sset.lock) /\ AuditOK(s) /\ PolicyOK(s)
SC == Order[sat]
Read ==
    /\ Score("read") /\ snap' = [of |-> dirs[SC], sound |-> Sound(dirs[SC], SC)]
    /\ spc' = "reread" /\ UNCHANGED <<sat, sset, rows>>

\* Second half: workspace and canary again, and the files are as they were read.
StillSound(c) == snap.sound /\ canary[c] /\ WorkspaceOK(ArmOf[c], sset.lock) /\ dirs[c] = snap.of
Row(c) ==
    IF StillSound(c) THEN [clean |-> TRUE, trace |-> snap.of.trace, credit |-> snap.of.audit,
                              touched |-> snap.of.meta.touched]
                     ELSE [clean |-> FALSE]

Reread ==
    /\ Score("reread")
    /\ rows' = [c \in DOMAIN rows \cup {SC} |-> IF c = SC THEN Row(SC) ELSE rows[c]]
    /\ snap' = None /\ UNCHANGED sset
    /\ IF sat = Len(Order) THEN spc' = "rows" /\ sat' = 0 ELSE spc' = "read" /\ sat' = sat + 1

\* Two cells with one thread, or one trace, make the whole batch invalid.
Unique == \A c, d \in DOMAIN rows :
    c # d /\ rows[c].clean /\ rows[d].clean => rows[c].trace.thread # rows[d].trace.thread
Publish ==
    /\ Score("rows") /\ spc' = (IF Unique THEN "published" ELSE "refused")
    /\ UNCHANGED <<sat, sset, snap, rows>>

Scorer == Load \/ Read \/ Reread \/ Publish

-------------------------------------------------------------------------------
(* What happens from outside.                                                  *)

Edit == edits < MaxEdits /\ spc \notin {"published", "refused"} /\ edits' = edits + 1
        /\ UNCHANGED <<scorer, rpc, at, mem, batches, threads>>
Touch == touched' = (IF rpc = "idle" THEN 0 ELSE touched + 1) /\ UNCHANGED proved

Upgrade(a) ==
    /\ Edit /\ Touch /\ world' = [world EXCEPT !.runtime[a] = 3 - @]
    /\ UNCHANGED <<lock, sandbox, canary, overlay, runset, dirs, archive>>
Rewrite(a) ==
    /\ Edit /\ Touch /\ world' = [world EXCEPT !.ws[a] = 3 - @]
    /\ UNCHANGED <<lock, sandbox, canary, overlay, runset, dirs, archive>>
Checkout ==
    /\ Edit /\ Touch /\ world' = [world EXCEPT !.checkout = 3 - @]
    /\ UNCHANGED <<lock, sandbox, canary, overlay, runset, dirs, archive>>
Prepare ==
    /\ Edit /\ Touch /\ lock' = 3 - lock
    /\ world' = [checkout |-> lock', runtime |-> [a \in Treated |-> lock'], ws |-> [a \in Arms |-> lock']]
    /\ UNCHANGED <<sandbox, canary, overlay, runset, dirs, archive>>
Loosen ==
    /\ Edit /\ \E w \in DOMAIN sandbox, t \in Targets : t \notin sandbox[w] /\ sandbox' = [sandbox EXCEPT ![w] = @ \cup {t}]
    /\ proved' = FALSE
    /\ UNCHANGED <<lock, world, canary, overlay, runset, dirs, archive, touched>>
SpoilCanary(c) ==
    /\ Edit /\ canary[c] /\ canary' = [canary EXCEPT ![c] = FALSE]
    /\ UNCHANGED <<lock, world, sandbox, overlay, runset, dirs, archive, touched, proved>>
\* A contract as another batch has it, with other permissions, or of another profile.
Altered(k) ==
    {[k EXCEPT !.prompt = [@ EXCEPT !.challenge = [@ EXCEPT ![1] = 3 - @]]],
     [k EXCEPT !.command = [@ EXCEPT !.permits = Targets]],
     [k EXCEPT !.command = [@ EXCEPT !.mcp = {}, !.ws = "native"]]}
\* A contract of run-set.json is replaced by that of another batch, or of
\* another profile, or the receipts by those of another boundary.
Reassign(c) ==
    /\ Edit /\ runset # None /\ c \in DOMAIN runset.cells
    /\ \/ \E k \in Altered(runset.cells[c]) : runset' = [runset EXCEPT !.cells = [@ EXCEPT ![c] = k]]
       \/ runset' = [runset EXCEPT !.canaries = [@ EXCEPT !.server = 3 - @]]
    /\ runset' # runset
    /\ UNCHANGED <<lock, world, sandbox, canary, overlay, dirs, archive, touched, proved>>
\* The trace of a run is put in the place of another's, or two directories change names.
Paste(c) ==
    /\ Edit /\ rpc = "idle" /\ dirs[c] # None /\ \E t \in archive : dirs[c].trace # t /\ dirs' = [dirs EXCEPT ![c].trace = t]
    /\ UNCHANGED <<lock, world, sandbox, canary, overlay, runset, archive, touched, proved>>
Rename(c, d) ==
    /\ Edit /\ rpc = "idle" /\ c # d /\ dirs[c] # dirs[d]
    /\ dirs' = [dirs EXCEPT ![c] = dirs[d], ![d] = dirs[c]]
    /\ UNCHANGED <<lock, world, sandbox, canary, overlay, runset, archive, touched, proved>>
\* A directory appears under the runs root.
Plant(c) ==
    /\ Edit /\ rpc # "model" /\ dirs[c] = None
    /\ dirs' = [dirs EXCEPT ![c] = [trace |-> None, audit |-> {}, meta |-> None]]
    /\ UNCHANGED <<lock, world, sandbox, canary, overlay, runset, archive, touched, proved>>
\* The runs root is emptied for a new batch.
ClearRuns ==
    /\ Edit /\ rpc = "idle" /\ runset # None
    /\ dirs' = [c \in Cells |-> None] /\ runset' = None
    /\ UNCHANGED <<lock, world, sandbox, canary, overlay, archive, touched, proved>>

Outside ==
    \/ \E a \in Treated : Upgrade(a)
    \/ \E a \in Arms : Rewrite(a)
    \/ Checkout \/ Prepare \/ Loosen \/ ClearRuns
    \/ \E c \in Cells : SpoilCanary(c) \/ Reassign(c) \/ Paste(c) \/ Plant(c)
    \/ \E c, d \in Cells : Rename(c, d)

-------------------------------------------------------------------------------
Init ==
    /\ lock = 1
    /\ world = [checkout |-> 1, runtime |-> [a \in Treated |-> 1], ws |-> [a \in Arms |-> 1]]
    /\ sandbox = [model |-> Declared, server |-> Declared]
    /\ canary = [c \in Cells |-> FALSE] /\ overlay = [c \in Cells |-> {}]
    /\ runset = None /\ dirs = [c \in Cells |-> None] /\ archive = {}
    /\ rpc = "idle" /\ at = 0 /\ mem = None /\ batches = 0 /\ threads = 0 /\ touched = 0 /\ proved = FALSE
    /\ spc = "idle" /\ sat = 0 /\ sset = None /\ snap = None /\ rows = <<>>
    /\ edits = 0

Next == Runner \/ Kill \/ Scorer \/ Outside

Spec == Init /\ [][Next]_vars

-------------------------------------------------------------------------------
(* Properties.                                                                 *)

Clean == {c \in DOMAIN rows : rows[c].clean}

\* The runner is in a cell of its run set only with the directory of that cell,
\* and the scorer works only with a run set that covers every cell.
TypeOK ==
    /\ lock \in Versions /\ world.checkout \in Versions
    /\ world.runtime \in [Treated -> Versions] /\ world.ws \in [Arms -> Versions]
    /\ sandbox \in [{"model", "server"} -> SUBSET Targets] /\ canary \in [Cells -> BOOLEAN]
    /\ \A c \in Cells : overlay[c] \subseteq 1..threads
    /\ rpc \in {"idle", "freeze", "next", "launch", "model", "collect", "verify"}
    /\ rpc = "idle" <=> mem = None
    /\ rpc \in {"launch", "model", "collect", "verify"} => C \in DOMAIN mem.cells
    /\ rpc \in {"model", "collect", "verify"} => dirs[C] # None /\ dirs[C].meta = None
    /\ spc \in {"idle", "read", "reread", "rows", "published", "refused"}
    /\ spc # "idle" => DOMAIN sset.cells = Cells /\ DOMAIN rows \subseteq Cells

\* README, "renaming two run directories or swapping their traces cannot turn
\* one cell into another": a row that counts is of the model process that this
\* batch started for this cell, and no process counts for two cells.
RowsAnswerTheirCell ==
    /\ \A c \in Clean : rows[c].trace.ch = Challenge(sset.batch, sset.lock, c)
    /\ \A c, d \in Clean : c # d => rows[c].trace.thread # rows[d].trace.thread

\* A cell that counts ran in the checkout, with the runtime and in the workspace
\* the lock pins, although each is only looked at before and after: one change
\* between the two never goes unnoticed (a second could undo it).
RanAsPrepared ==
    \A c \in Clean :
        rows[c].touched <= 1 =>
            /\ rows[c].trace.in.checkout = sset.lock
            /\ rows[c].trace.in.ws[ArmOf[c]] = sset.lock
            /\ ArmOf[c] \in Treated => rows[c].trace.in.runtime[ArmOf[c]] = sset.lock

\* No row counts whose model process saw the gold answers; and if the sandbox is
\* as the canaries found it, none that saw anything outside its workspace.
NoLeakIsScored ==
    \A c \in Clean :
        /\ "gold" \notin rows[c].trace.sees
        /\ rows[c].trace.proved => rows[c].trace.sees \subseteq Declared

\* Source accesses are credited as the MCP server logged them for this very
\* process and as its output shows them: both or neither.
CreditIsOneToOne ==
    \A c \in Clean :
        rows[c].credit = rows[c].trace.reads /\ rows[c].credit \subseteq {rows[c].trace.thread}

\* A published table has a row for every cell of the frozen matrix, also for
\* those that failed, were killed or never came to an answer; and the cells are
\* those of the contracts derived from one batch and the lock.
EveryCellIsAccounted ==
    spc = "published" =>
        /\ DOMAIN rows = Cells
        /\ \A c \in Cells : sset.cells[c] = Contract(sset.batch, sset.lock, c)

\* The runner never replaces the evidence of a batch: neither run-set.json nor
\* the directory of a cell that is complete.
EvidenceIsWriteOnce ==
    edits' = edits =>
        /\ runset # None => runset' = runset
        /\ \A c \in Cells : dirs[c] # None => (dirs[c].meta # None => dirs'[c] = dirs[c])

-------------------------------------------------------------------------------
(* The inductive invariant.                                                    *)

Busy == rpc # "idle"
InCell == rpc \in {"launch", "model", "collect", "verify"}

Typed ==
    /\ lock \in Versions
    /\ world \in [checkout : Versions, runtime : [Treated -> Versions], ws : [Arms -> Versions]]
    /\ sandbox \in [{"model", "server"} -> SUBSET Targets] /\ canary \in [Cells -> BOOLEAN]
    /\ batches \in Nat /\ threads \in Nat /\ touched \in Nat /\ edits \in Nat
    /\ DOMAIN overlay = Cells /\ \A c \in Cells : overlay[c] \subseteq 1..threads
    /\ DOMAIN dirs = Cells /\ \A c \in Cells : dirs[c] # None => DOMAIN dirs[c] = {"trace", "audit", "meta"}

\* The runner holds the run set of the newest batch, and has the directory of
\* the cell it is in to itself.
Placed ==
    /\ rpc \in {"idle", "freeze", "next", "launch", "model", "collect", "verify"}
    /\ rpc = "idle" <=> mem = None
    /\ Busy => batches > 0 /\ mem.batch = batches /\ mem.lock \in Versions /\ DOMAIN mem.cells \subseteq Cells
    /\ Busy /\ rpc # "freeze" => mem = RunSet(mem.batch, mem.lock, DOMAIN mem.cells) /\ at \in 1..(Len(Plan) + 1)
    /\ InCell => at <= Len(Plan) /\ C \in DOMAIN mem.cells
    /\ rpc \in {"model", "collect", "verify"} => dirs[C] # None /\ dirs[C].meta = None /\ threads > 0
    /\ rpc = "freeze" => runset = None

\* Every trace is of a process of its own, and no two processes had the same
\* challenge: a cell is started once in a batch, because its directory is taken.
Traced ==
    /\ \A t \in archive :
         /\ t.thread \in 1..threads /\ (rpc = "model" => t.thread # threads)
         /\ \E b \in 1..batches, l \in Versions, c \in Cells :
              /\ t.ch = Challenge(b, l, c)
              /\ Busy /\ b = batches => rpc # "freeze" /\ dirs[c] # None
              /\ rpc = "model" /\ b = batches => c # C
         /\ t.reads \subseteq {t.thread}
         /\ t.proved => t.sees \subseteq Declared
    /\ \A t, u \in archive : t.thread = u.thread \/ t.ch = u.ch => t = u
    /\ \A c \in Cells : dirs[c] # None => dirs[c].trace = None \/ dirs[c].trace \in archive

AsPrepared(w, l, c) ==
    /\ w.checkout = l /\ w.ws[ArmOf[c]] = l
    /\ ArmOf[c] \in Treated => w.runtime[ArmOf[c]] = l

\* From the checks before a cell to those after it one change is always seen.
Watched ==
    /\ rpc \in {"launch", "model"} /\ touched = 0 => AsPrepared(world, mem.lock, C)
    /\ rpc \in {"collect", "verify"} =>
         \E t \in archive :
            /\ t.ch = Challenge(mem.batch, mem.lock, C)
            /\ touched = 0 => AsPrepared(t.in, mem.lock, C)
            /\ touched = 1 => AsPrepared(t.in, mem.lock, C) \/ t.in = world

\* run.json of a cell is of a process that was started for it.
Earned(m) ==
    \E l \in Versions, c \in Cells :
        /\ m.contract = Contract(m.batch, l, c)
        /\ \E t \in archive : t.ch = Challenge(m.batch, l, c) /\ (m.touched <= 1 => AsPrepared(t.in, l, c))
Witnessed == \A c \in Cells : dirs[c] # None => dirs[c].meta = None \/ Earned(dirs[c].meta)

\* A contract is a record of these fields, whatever is in them.
Form(k) ==
    k = [cell |-> k.cell, prompt |-> k.prompt,
         command |-> [ws |-> k.command.ws, pins |-> k.command.pins, permits |-> k.command.permits,
                      mcp |-> k.command.mcp]]
Framed ==
    runset # None =>
        /\ DOMAIN runset = {"batch", "lock", "cells", "canaries"}
        /\ \A c \in DOMAIN runset.cells : Form(runset.cells[c])

Closed == proved => sandbox["model"] = Declared /\ (Treated # {} => sandbox["server"] = Declared)

\* What a row is made of counts for its cell.
Counts(c, t, credit, changes) ==
    /\ t \in archive /\ t.ch = Challenge(sset.batch, sset.lock, c)
    /\ "gold" \notin t.sees /\ credit = t.reads
    /\ changes <= 1 => AsPrepared(t.in, sset.lock, c)

Scored ==
    /\ spc \in {"idle", "read", "reread", "rows", "published", "refused"}
    /\ spc = "idle" => DOMAIN rows = {}
    /\ spc # "idle" => /\ DOMAIN sset.cells = Cells
                       /\ \A c \in Cells : sset.cells[c] = Contract(sset.batch, sset.lock, c)
    /\ spc \in {"read", "reread"} => sat \in 1..Len(Plan) /\ DOMAIN rows = {Plan[i] : i \in 1..(sat - 1)}
    /\ spc \in {"rows", "published", "refused"} => DOMAIN rows = Cells
    /\ spc = "reread" /\ snap.sound => Counts(SC, snap.of.trace, snap.of.audit, snap.of.meta.touched)
    /\ \A c \in Clean : Counts(c, rows[c].trace, rows[c].credit, rows[c].touched)

IInv == Typed /\ Placed /\ Traced /\ Watched /\ Witnessed /\ Framed /\ Closed /\ Scored

=============================================================================
