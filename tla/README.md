# HLSGraph in TLA+

A verification development for HLSGraph (`src/src/hlsgraph`), which turns an HLS
project into immutable snapshots with a canonical graph, runs tool stages on them,
answers questions from an evidence ledger in SQLite, and lets reviewed guidance speak
about a design. It also covers the tools that review that guidance (`src/tools`) and the
evaluation behind a release (`src/eval/agent_ab`). The modules model the parts whose
correctness depends on the order in which processes, users, callbacks, connections and
failures act. TLC checks them on small instances; TLAPS proves the main results for every
instance.

## 1. The system

One project directory holds the inputs (sources, directives, reports), a source manifest
(`hlsgraph.toml`) and the bundle `.hlsgraph/`: `manifest.json` (a copy of the manifest),
`bundle.json`, `artifacts/` (a content-addressed store), `hlsgraph.db` (the ledger),
staging directories and `execution.lock`. Several processes (CLI commands, REST and MCP
servers, SDK users) open one bundle at a time; no server arbitrates between them.

| Component | State | Operations | Hard behaviour | Correct when |
|---|---|---|---|---|
| Execution lock (`bundle.py`) | `execution.lock`, with the owner's pid | create with `O_EXCL`, write the pid, unlink by path | owners die, also before the pid is written; unlink tests no ownership and may be refused; users remove stale files | sections exclude each other, nobody removes another's lock, stale locks can be cleared |
| Migration (`bundle.py`, `store/migrations.py`) | schema markers of three files, of the project row and of the ledger | read, migrate the ledger, replace row and files | killed between any two writes; DDL outside the transaction; users edit meanwhile | what can be opened is complete; started again, it completes |
| Indexing (`sdk.py`, `bundle.py`, `manifest.py`) | in-memory manifest of each open `Project`, candidate snapshot, extraction result | `index`, `index_variant`: refresh the manifest, look up the action, collect files, save the snapshot, extract, revalidate, commit | files change during every pass; `init --force` and `record_variant_action` take no lock; a crash between any two writes; metadata outside identities | only complete, consistent results are published; lineage is a forest; retrying converges |
| Index authorization (`extract/index_authorization.py`, `static_aggregate.py`) | one-use capabilities in the process, receipts in the ledger | finalize, authorize, consume, commit | plugins share the process and the graph; two indexers; busy database | what readers believe is what the parsers said |
| Stage execution (`sdk.py`, `runner/`) | staging directories, authorizations, chained outputs | `run`: validate, execute, validate again, publish outputs, authorize, commit, clean up | inputs edited around a long execution; artifacts attached meanwhile; authorization consumed before the transaction; interrupts | tool truth is attested and about the snapshot's bytes; stages chain in order; nothing leaks |
| Monitored process (`runner/core.py`) | process group, pipes, probe results | spawn, poll, probe, terminate, kill, collect | exit, timeout and monitor race; daemons keep pipes and directories; processes resist signals | one honest classification, what is stored was measured, the call ends |
| SSH and replay runners (`runner/core.py`) | connection, remote directories, recorded answers | send, attest, run, answer, replay | the connection breaks anywhere; a retry runs beside the executor of the first attempt | answers and outputs are of their own attempt, nothing is laundered |
| Gates (`query.py`) | none | `verification_gates` over separate reads, recursive trust | commits between reads; fake runners; damaged reports | a verdict of one moment, earned by real runs |
| Ledger (`store/sqlite.py`) | projects, snapshots, manifests, graphs, active pointer, variants, materializations, runs, receipts, evidence, knowledge | one transaction per write path | checks against rows that other processes change | rows are immutable, references resolve, the pointer moves last |
| Knowledge (`knowledge/`) | packs, activation sessions, the private index of local documents | load, install, sync; issue, evaluate, close; build, search | callbacks that change what they are computed from; releases that disagree; documents edited while they are read or quoted | guidance has its premises, its review and its quotation right |
| Retrieval (`retrieval.py`) | access log of private text | gather, rank, trim; private excerpts | untrusted adapters; a budget that costs something; files that change under the reader | planes stay apart, facts go last, private text leaves a record |
| Review tooling (`src/tools`) | caches, suites of model processes, attestations | fetch, run, replay, seal, publish, attest, audit | hours between freeze and use; processes that print anything; partial publication | what is attested was read and approved; what is released was audited |
| Evaluation (`src/eval/agent_ab`) | environment lock, run set, run directories, scores | prepare, run a batch, score, analyze | anything on disk changes between two checks; kills; renamed runs | a row is of its cell, a claim of its batch |

The components meet in the lock (indexing, runs and migration take it; `init --force`,
attaching artifacts, recording actions, installing packs and all readers do not), in the
ledger, and in the source files, which any user may edit at any moment. Authorizations tie
runs and indexes to the commit they are for; receipts tie the commit to those who judge it
later. Review and evaluation end in the release audit, which reads what both have left.

## 2. Modules

| Module | Models | Instance |
|---|---|---|
| `ExclusiveSection` | what the lock promises: enter, release, abandon, recover | |
| `BundleLock` | the lock file; refines `ExclusiveSection` | `MCBundle` |
| `BundleMigration` | migration of the bundle and its ledger | `MCBundle` |
| `IndexPipeline` | indexing and variants, on top of `ExclusiveSection` | `MCIndexPipeline`, `MCIndexSafety` |
| `IndexAuthorization` | aggregates, capabilities and receipts | `MCEvidence` |
| `StageRun` | `Project.run` with orchestrator, runner and commit | `MCExecution` |
| `RunnerAnswer` | what a runner's answer must satisfy, whoever gives it | |
| `ToolExecution` | `LocalRunner`, the tool's processes, the monitor | `MCExecution` |
| `RemoteRun` | `SSHRunner`, its executor, `ReplayRunner` | `MCExecution` |
| `VerificationGates` | the verdict "verified" | `MCEvidence` |
| `KnowledgeMatching` | entailment and matching of applicability | `MCKnowledge` |
| `KnowledgeActivation` | sessions, callbacks, threads | `MCKnowledge` |
| `KnowledgePacks` | installation and the reviewed surface of a retrieval | `MCKnowledge` |
| `LocalSidecar` | the private document index | `MCKnowledge` |
| `Retrieval` | one retrieval: gather, rank, trim | `MCRetrieval` |
| `PrivateSnippets` | private text and its access log | `MCRetrieval` |
| `ReviewStream` | judging the event stream of a reviewing process | `MCReview` |
| `ReviewCache` | the cache of cited documents | `MCReview` |
| `ReviewSuite` | running, sealing and publishing a review suite | `MCReview` |
| `PackAttestation` | writing attestations into the packs | `MCReview` |
| `SuiteReplayAudit` | the audit's replay of a suite | `MCEvidence` |
| `ReleaseGate` | the release audit | `MCEvidence` |
| `EvaluationPrepare`, `EvaluationBatch`, `EvaluationGates` | the three stages of the evaluation | `MCEvaluation` |
| `BundleProofs` | theorems on `BundleLock` and `BundleMigration` | `MCBundle` |
| `IndexPipelineProofs` | theorems on `IndexPipeline` | |
| `ExecutionProofs` | theorems on `StageRun`, `ToolExecution` and `RemoteRun` | `MCExecution` |
| `EvaluationProofs` | theorems on `EvaluationPrepare`, `EvaluationBatch` and `EvaluationGates` | `MCEvaluation` |
| `EvidenceProofs` | theorems on `VerificationGates`, `IndexAuthorization`, `ReleaseGate` and `SuiteReplayAudit` | `MCEvidence` |
| `KnowledgeProofs` | theorems on `KnowledgeMatching`, `KnowledgeActivation`, `KnowledgePacks` and `LocalSidecar` | `MCKnowledge` |
| `RetrievalProofs` | theorems on `Retrieval` and `PrivateSnippets` | `MCRetrieval` |
| `ReviewProofs` | theorems on `ReviewStream`, `ReviewCache`, `ReviewSuite` and `PackAttestation` | `MCReview` |

An MC module puts components of one area side by side: `part` says which of them a
behaviour is about, the others rest in an initial state. This is an instance of several
questions in one run and not a claim about an interaction; where components do interact,
the interaction is in a module (the lock in `IndexPipeline` and `BundleMigration`, the
runner's answer in `RunnerAnswer`, the process tree in `RemoteRun`) or in a refinement.
Properties of an MC module are conjunctions of the named properties of its components,
each of which has its own comment where it is defined. Definitions marked `(mutant)` stand
for a plausible mistake in the code; they are used by no specification and document
what the property beside them can tell apart.

### BundleLock

`file` is the lock file with its creator (which process's `os.open` made it; the program
cannot see this) and the pid it says; `pc[p]` follows `execution_lock` and the same code
in `_bundle_migration_lock`. `Create` is `os.open` (a call that finds the file raises and
changes nothing), `WritePid` the payload, `Leave` the end of the body, `Unlink` and
`UnlinkDenied` the outcomes of `_unlink_execution_lock`. `Die` may strike anywhere.
`Inspect` and `RemoveStale` are the user who follows the error message ("inspect the
owner before removing a stale lock"). The code leaves open what to do with a lock that
has no pid: the user waits until no command is under way. The mutant `StaleWhenBlank`
shows that removing such a lock at once breaks mutual exclusion. A process identity is
never reused: a recycled pid would make a stale lock look owned, which delays the user
and endangers nothing.

### BundleMigration

A file is its schema marker and the version of its other content. A migrator takes the
lock (here one step), reads, applies the steps of the ledger, commits, and then replaces
project row, source manifest, internal manifest and metadata. `CREATE TABLE` of the
second step runs before `sqlite3` opens its implicit transaction, so tables may stay
although the transaction is rolled back. Beside two migrators are an indexer that opens
and refreshes, and a user who edits the source manifest. TLC checks
`OpenableIsComplete` (what `open` accepts has every marker and table), `FailsClosed` (a
ledger whose derivations cannot keep their identity is left as it was) and
`MarkerIsEarned`.

### IndexPipeline

A step is one file access or one ledger transaction; the four passes over the inputs
(collection, extraction, comparison of bytes, collection again in `is_stale`) read one
file per step. `live`, `source` and `internal` are the files; `project`, `snaps`,
`graph`, `active`, `variants`, `runs` and `mats` the ledger; `mem[p]` is what an open
`Project` believes the manifest to be. Only one operation is under way at a time, so its
locals are plain variables. Bytes are version numbers; `Material` and `Ident` keep the
distinction between material inputs (context), other identity fields, and metadata that is
in no identity. Snapshots are named by the position of their row, actions by their contents:
hashes are taken to be injective. `shot` is a history variable.

Outside the lock: `EditFile`, `EditManifest` (also to a manifest that does not parse, or
none), `CreateWrite` to `CreateRegister` (`init --force`), `RecordVariant`, `Open`. `Fault`
raises in any step, `Crash` kills the process, `Reject` collects the errors that the
code raises itself. Extraction is clean or fatal; receipts are in `IndexAuthorization`.

`manifest.json` and `bundle.json` are written in place (`write_text`), so a writer first
truncates (`RefreshWrite`, `CreateWrite`; `internal = Broken`, `stamped = FALSE`) and then
fills (`WriteManifest`, `WriteMetadata`); a crash or an exception between the two leaves a torn file, which
`Open` refuses until somebody runs `init --force`. The commit of an index, graph and run and
pointer, is one SQLite transaction and therefore one step: what a crash inside of it leaves is
SQLite's promise and not the module's. `Converges` says that once edits and failures are over the active snapshot *and
its graph* become those of the live inputs. Its exceptions are named: the ledger refuses this snapshot for good
(`Refused`: its row has other metadata, `save_snapshot`, or its graph is of other bytes,
`_save_graph`), the source manifest does not parse, or the bundle is torn and there is no source
to make it again from.

### IndexAuthorization

Two indexers work on one snapshot. A graph maps entities to what is recorded of them; the
aggregate of an entity restates it. Plugins run after the parsers in the same process
and may restate, forge, rewrite, claim, or keep the graph and change it later. `active`
is the process's table of nonces, `ix[i]` an indexer's state through extraction,
finalization, consumption and commit, `ledger` the rows with their receipt. The commit
fails on a busy database after the authorization was consumed. Rows added later without an
index (`AddCounts`) are there too.

### StageRun

One call at a time, since calls hold the lock. `live` is 0 when the inputs are those of the
snapshot. `run` is the stage's record; `used` is history (the version the tool read).
Inputs are looked at four times per stage, in steps of their own (`Look`), with the
execution between them; `StageInputs` is the runner's verified copy. `ToolEnds` is any
classification the runner can return. `StagesInOrder` is what a failed gate must prevent:
that the next stage starts. `Authorize`, `Consume` and `Commit` are separate, as
authorizations live in a table of the process and are popped before the transaction.
`Attach` is `add_managed_artifact`, which takes no lock; if it comes after the call's list
of inputs was fetched, `_add_run` refuses every trusted run of that call
(`CommitRejected`). `Raises`/`Fault` is an exception in any step; `Interrupt` a death or
an interrupt that no handler sees. A stage has at most one declared output, and that one
is required; CACHED counts as succeeded; a failed gate of the runner or of a report is
`gate = FALSE`. The run has a trusted runner; that no untrusted claim reaches the ledger is
the theorem `TruthAlwaysAttested`, which holds for both values of `Trusted`.

### ToolExecution, RunnerAnswer, RemoteRun

`ToolExecution` has a leader process, a child in its group and a daemon that left it.
Each of them may write the declared output as long as it lives, holds the pipes of the call
if it was started while its parent held them, and may close them and go on (`open`). The runner polls the
leader, probes the resource monitor, reads the pipes, terminates, kills and collects; time
is two flags, "the deadline has passed" and "a probe is due". A process may resist its
signals (`stuck`). The configuration says whether the runner is on Windows or on POSIX, which differ in
what is killed (`taskkill` of a tree, or signals to a group), in whether an open file keeps its directory, and in the
call without a monitor, which is `subprocess.run`: after the timeout it kills the leader alone and
then waits without a bound, on POSIX for the leader and on Windows for the end of the pipes as well, which
any descendant may hold (`PipesEnd`). So `ExecutionsEnd` says of a local call that it ends or waits
for exactly that (`Waits`: a leader that the kernel does not let die, or, on Windows, a
process that keeps the pipes of a killed tool); with a monitor, and on POSIX
whatever a daemon holds, it ends. The orchestrator's validation of the answer, which `RemoteRun` shares,
is `RunnerAnswer`. Of an ended execution: truth is claimed only for a leader
that ended by itself in time and unsignalled; what is published is what was measured; the
orchestrator never refuses its own runner's answer; on POSIX no tool stopped under a monitor leaves a
killable process of its group behind.

`RemoteRun` has attempts whose local sides follow each other while their remote executors
run concurrently in directories of their own. Connection and transport timeout may end the
local side anywhere. An executor that dies may leave its tool running, which it started in a session of its
own. `Replay` serves a recorded success again.

### VerificationGates

`Item` gives every row that may be committed; a plan says what earlier commands have committed
and in which transactions others commit meanwhile. `Cites` is what a row refers to, which the
ledger demands to be there. The reader takes one table per step and asks for receipts and
report bytes even later. Trust of a piece of evidence is recursive over verification,
derivation, observation, report and run; the recursion is bounded by the fixed order of these
tables and written as definitions on top of each other. `MeasuredBy` says in terms of the
observations in the ledger, without trust, gates or campaigns, when a design is measured.
`InvocationVerified` is the verdict of `Project.run`, which may only use the runs of the
invocation.

### KnowledgeMatching

A constraint on a key is a record of its kind ("any", a scalar, a list, or operators with
at most one operand each). `Entails` is `_constraint_entails`, `Matches` the matcher, and
the property is what joins them: a binding the loader has accepted and the matcher has
matched leaves no premise of its rule unmet. Direct keys are written by the author, derived
ones come from the binding's target with a witness in the context.

### KnowledgeActivation, KnowledgePacks, LocalSidecar

`KnowledgeActivation`: rule, binding and context are live objects, version 0 is the
reviewed one. A session is opened in three passes, issues handles, and evaluates under a
reentrant lock; an evaluator may change objects, issue, nest or close.

`KnowledgePacks`: processes of two releases install their catalogs pack by pack, each pack
in one transaction; a retrieval reads rules, bindings, inventories and coverage in four
reads and serves what closes over a reviewed pack; users add and edit rows in between.

`LocalSidecar`: indexer, builders and a searcher over documents whose hash, timestamp and
content change; database and manifest are two files replaced one after the other; the
embedder may be upgraded at any moment.

### Retrieval, PrivateSnippets

`Retrieval` gathers documents of the pinned snapshot in four planes (facts, knowledge,
local, predictions), lets adapters add theirs, ranks each plane in a corpus of its own and
trims until the answer fits. A derivation is complete with a value and a receipt (valid or not),
partial, or complete without a value; `_derivation_receipt_chain_valid` is asked only about the first, whose
value is withheld when the chain does not close, while a partial value is shown as what it is, with no receipt
asked for. What `ValuesAreGrounded` and `ConfidenceIsEarned` promise is therefore of values shown as complete. Records are numbers, terms model values, a size counts items
and not characters. Of the channels, exact, lexical and graph search are there, and what distinguishes prefix, full-text
and substring search is abstracted to having one or all of the query's terms; the scores
of the random walk are any of `Scores`; the cap of 200 nodes is left out.

`PrivateSnippets` is the inside of one adapter step: policy, sidecar hits, source anchors,
verified reads and, for each, an append to the access log that is verified against the
path before the text leaves. Files, the sidecar and the log change between any two steps. The adapter for local
documents has a permission of its own (`leave`): those the project makes take the policy's, a
caller's own adapter what the caller says, and `retrieve` asks no more than the request's flag. It knows the documents
the sidecar had when it was made (`known`) and records a hit under the hash it knows for the document's
version, or withholds it; each search reads the sidecar as it is then. So document text may be newer than the
hash on its record, though never of a version that the adapter did not know, while source text is
recorded under its very hash. `MCRetrieval` lets the two permissions differ only where the policy denies.

### ReviewStream, ReviewCache, ReviewSuite, PackAttestation

`ReviewStream` reads the events of a process that may emit anything in any order; the
stream itself is a variable, so the properties of an accepted stream do not use the
replay's bookkeeping. Two commands are approved: `head`, which prints one chunk to its end, and `sha256sum` of
any chunks, whose rows are not counted as readings; a chunk that was only hashed is not read. `ReviewCache` fetches citations that share documents and
publications from a server that answers as it likes, writes rows, and loads them after
they lay on disk; then the second protocol makes its cache from it. A kept response has no charset, and
`frozen_cache_fetcher` answers with UTF-8 for all but PDF (whose text has no charset, so it counts as UTF-8 here). So
`ReplayReproduces` says two things: a document served as UTF-8, or read without a charset, gives the very row
again; of any other the bytes are the same but the parser contract is not, and the suite, which compares the two
surfaces, does not start. `ReviewSuite` freezes, runs one process per shard and protocol, keeps the
output, checks what was frozen, replays, seals and publishes file by file. An edit of
checkout or runtime gives a new version; only caches may be changed and changed back.
`PackAttestation` freezes packs, checks the review, computes the attested bytes, checks
again, replaces file by file and takes back after a late failure; `kind` also covers the
older `seal_review_attestations`. `AttestedIsReviewed` holds under arbitrary edits;
`FailureLeavesNothing` and `SuccessIsWhole` name the writer, as an editor may always
interfere between the last comparison and the first replacement.

### SuiteReplayAudit, ReleaseGate

`SuiteReplayAudit` reads each file once and derives everything again from raw streams; all
files may be replaced before and during the audit. `ReleaseGate` is `audit_release` in its
three modes. Environment, static report, analysis, run set and scores are read one by one, the lock and the run
set again before, during and after the rescoring, and the run directories one after the other in the order of
the plan; between any two of these steps each file may be replaced, alone or with the others by a
whole evaluation. One run directory is read in one step, as the code compares the hashes of its files once more
after reading them. The wheel is opened three times, so `ApprovedIsOnePackage` is claimed only for
an audit during which nothing is edited, while `ClaimsAreEarned` and
`EvaluatedWheelIsReleased` hold without this condition.

### EvaluationPrepare, EvaluationBatch, EvaluationGates

`EvaluationPrepare` is a plan of observations and the lock made of them. The plan is a set of
steps with an order that fixes their sequence: eleven stages, within a stage corpus by corpus
and arm by arm, and for one index the proof of absence, the indexer and the knowledge sync. An index that
is planted between the last proof of absence and the indexer is the one gap (`gaps`, which
the properties except); changes A to B to A between two observations are not noticed.
Repetition of version checks is left out. `EvaluationBatch` runs and scores cells; two
changes inside one cell may cancel out, so `RanAsPrepared` speaks of cells with at most
one (`touched`); runs are renamed and pasted only while the runner is idle.
`EvaluationGates` repeats scoring and static retrieval and decides. What is replaced gets a
new version. The confidence interval is the smallest and largest paired difference, which
for one question and two repetitions is what the percentile interval of the resampled mean
is.

## 3. Runs

| Run | Instance | Shows |
|---|---|---|
| `bundle` | 3 processes with the lock, each may die; 2 migrators, 1 edit, 2 crashes | exclusion, safe unlink, refinement of the section; safe and resumable migration; recovery |
| `index_safety` | 2 processes, 2 files, 2 manifests, 2 edits or re-creations, 1 failure, forward edits; and 1 variant with 3 manifests and 1 edit of 1 file (`Focused` keeps the two apart) | faithful graphs, consistent snapshots, lineage, use of the lock |
| `index_converges` | 2 processes, each with the bundle open or not, 1 file, a manifest, one of another context, one of other metadata and none at all, 2 edits with restored bytes, 1 failure, torn files | append-only ledger, convergence |
| `execution` | 2 calls of 2 chained stages, 2 edits, 1 artifact, 1 failure; a tool with child and daemon on POSIX and on Windows; 2 remote attempts | truth, outputs, order of stages, completeness, honest answers, termination |
| `evidence` | 3 plans of up to 4 transactions of runs and rows, honest or forged, over damaged reports; 2 indexers and a plugin; a suite of 2 x 2 shards; a release of 2 cells and 2 batches; 2 edits each | honest verdicts of one moment, believed counts, replayed suites, earned releases |
| `knowledge` | every constraint over 2 values, every pair of bounds over 2 versions; 2 threads and sessions; 2 releases; 2 builders and 1 document | premises, reviewed results, reviewed packs, exact quotations, convergence of `sync` |
| `review` | streams of 10 events over 2 chunks and 3 calls; caches of 3 citations in 3 charsets; suites of one shard per protocol with 3 pieces; 2 packs, 2 edits, 1 fault | complete reading, pinned caches, whole suites, reviewed attestations |
| `evaluation` | 2 arms on 2 corpora and 2 changes; 2 cells in one batch and 2 changes, 2 batches and 1; all outcomes of 4 arms; 5 replacements | bound locks, earned rows, earned reports |
| `retrieval` | 5 entities, 4 derivations (a chain of two and a circle of two), 2 rules, 1 prediction, 2 budgets; 5 anchors, 2 hits, 3 documents, 2 changes | planes, precedence of facts, grounded certainty, recorded private text, termination |
| `index_aba`, `index_metadata`, `verification_split` | minimal | the three disagreements below |

Why the bounds are enough. Two processes and two edits give every pair of racing steps,
a stale memory in either process, and an edit that is undone. Two files are needed to tear
a collection; with one file only the other orders matter. One failure at any step, followed
by everything the remaining budget allows, covers recovery from each point; a second
failure meets a state that a first one can already produce with other edits. Migration has
two, as its own recovery may be interrupted. Two stages are a producer and a consumer; two
calls or attempts show that nothing leaks from one to the next. `MutualExclusion` needs
three processes for a creator, a stale owner and a competitor. The shortest accepted stream
of a review that reads two chunks has eight events; ten leave room for a third command (a hash, or a
chunk read twice) or a stray event beside them. `InBounds` cuts a stream as soon as what is still missing does
not fit, and an event that is refused is one step whatever it was (`Refuse`), since the replay ends with it.
Calls are interchangeable (`CallSymmetry`). The first evaluation of a release is
of one of the interchangeable batches; inputs are those of the three modes, one more or one less
(`InputsTried`); and an audit that has found an issue, which is never taken back, is followed to its end only
where nobody works beside it, when the issue might be one of a release in order (`ReleaseNext`). Two cells are a run
that is read before and one that is read after a replacement. `MCReceipts` has the chain of
two derivations valid, invalid, partial and empty at either end, beside the circle. Two bounds are
tighter than one would like: one shard per protocol leaves pairs of
protocols, not pairs of shards, to `review` (`evidence` has two); one document leaves
mixtures of documents to the manifest's hash. Deadlock is checked in the index runs;
elsewhere processes may be dead, budgets spent or the work done.

Fairness. A process inside a section goes on: Python code runs to its end, tools
have a timeout (`timeout_s`), the unlink is retried a fixed number of times. A user who wants
to work clears a stale lock, reopens the bundle, re-creates one that does not open (`init --force`) and re-runs a plain index until it gets
the lock; this is strong fairness of `Retry`, since the lock may be taken by others again
and again, and it is the contract of a lock that refuses instead of waiting. The same holds
of a migration that finds the lock taken (`SF` of `Acquire` with a free lock). In
`execution`, the runner's own steps and the clock are weakly fair and nothing is assumed of
a tool; the remote poll is strongly fair, since a probe with a positive interval disables it
again and again but never for good. `sync` goes on per process, and a retrieval goes on.
Nothing is assumed about edits, failures, deaths or the start of sections and calls. The budgets
of edits and failures make both finite, as `Converges` requires ("after the last edit").

### Disagreements between the code and what it says of itself

Shown by a run (`findings` in `PROJECT.json`): an edit undone during extraction is
committed as if nothing had happened (`index_aba`); changing the manifest's metadata
alone makes indexing fail instead of recovering the snapshot (`index_metadata`); a verdict
may be one that no state of the ledger gives, when a verification is added without its run
between two reads (`verification_split`). The first two leave a snapshot that every later index is refused,
which `Converges` excepts (`Refused`).

Met while modelling, and left to the reader: the privacy guide says that a project whose policy denies
excerpts gives out no private text whatever a request asks (`docs/privacy-and-security.md`, lines 22-25 and 250-253), but
an adapter for local documents which a caller makes with `allow_private_snippets=True` does
(`retrieval.py`, lines 816-821 and 1563-1576), and its record may name the hash
which the document's version had when the adapter was made (822-830, 888-889); `DeniedReadsNothing` and
`Witnesses` say what holds instead. On Windows the call of a tool without a monitor lasts as
long as any descendant holds its pipes, although it has a timeout. A cited document
in another charset than UTF-8 can be frozen and never be replayed. The schema guide wants the evidence of
correctness bound to one campaign and workload (`docs/schema.md`, lines 320-322), while the gate counts evidence
that names either (`query.py`, lines 1602 and 1760); the modules say the latter. `manifest.json` is not refreshed when the
process's memory already agrees with the source, though `refresh_manifest` says so. A
descendant that left the process group survives a stopped tool and may keep its staging
directory from being removed. The migration changes the marker that graph hashes contain,
and an edit of the source manifest made while a migration runs is lost. A condition whose
`equals` is not among its own `one_of` can never be met, yet a binding may be found to
entail it; the matching property excepts such conditions (`Satisfiable`). A tool
that dies between two replacements leaves some packs attested and others not, and an
editor may write between the last comparison and the first replacement. An anchor without a
place is read but not logged. The size of guidance that is discarded still counts when
warnings are compacted, so that guidance may cost a fact under a tight budget. A reviewed pack without bindings may leave
out its targets: it is installed as `review_ready`, but a retrieval wants the whole
registry and never serves it (the exception in `InstalledIsServed`). The flag
`review_ready` of an inventory is in no hash, so that whoever sets it makes a pack served whose
coverage was reviewed but whose metadata does not say so (the exception in `Reviewed`).

## 4. Proofs

All proofs are for arbitrary constants that satisfy the named assumptions: `NoneIsNoProc`,
`ConstantsOK`, `StagesOK`, `VersionsOK`, `BoundsOK` and `RetrievalAssumption` of the components, and
`MigrationAssumption`, `RunnerAssumption`, `EvidenceAssumption`, `KnowledgeAssumption`,
`PrivateAssumption`, `ReviewAssumption` and `EvaluationAssumption` of the MC modules, which collect what
their instances need (bounds are
natural numbers, a mark for "none" is no value, a suite has shards, citations are sorted so that the map of a publication comes before its topics, a pack is made of known
rules and bindings, a design has entities, an evaluation has cells, repetitions and static cases). TLC evaluates every one
of them. Where a run's property is a conjunction over the components of an MC module, the
theorem is about the MC module's own specification, so that it states the very property the
run checks; the other components rest. Each invariant was checked by TLC on
the constants of its component's run before it was proved.

`BundleProofs`. `MutualExclusion` is not inductive: it needs that a process
in its section is the creator of the file at the path (`HolderOwnsFile`), that a pid is the
creator's (`PidIsCreator`), and that a finding of the user stays true until he acts on it
(`FindingStaysTrue`), as nobody can enter while the file exists. Together they are `IInv`.
From it follow `LockExcludes`, `UnlinkIsSafe` and `LockImplementsSection`, which maps the
holder to the process between create and unlink, and `abandoned` to a file without one.
For migration, with any number of migrators, edits and crashes, the invariant says who may
write (`LockIsHeld`: the lock is that of the one process inside or of a dead one, and only
a migrator has a transaction), that at every version a marker is committed together with
everything it stands for (`LedgerIsSound`), and in which order the five markers of files
and rows move (`FilesFollow`). `FirstStep` and `SecondStep` are the two migrations of
`_migrate`, `ApplyCompletes` composes them: whatever ledger a migration meets, what
it commits is complete. `BundleMigrationIsSafe` follows.

`IndexPipelineProofs`. `IInv` adds to the safety properties `Control` (the operation belongs
to an open process that holds the lock), `Candidate` (its candidate row has the collected
inputs, and its action's parent) and, where bytes never return, `LaterAndLater`: the passes of
one operation see later and later versions of each file, so that equal first and last
readings squeeze everything between them, the instant `shot` and the extraction included. The
preservation lemma of each conjunct treats the actions that can disturb it. `RowsStay`,
`GraphsStay` and `SaveFacts` say once what the ledger's writers do. `GraphsAreFaithful` and
`SnapshotsAreConsistent` assume `AllowRevert = FALSE`; the run `index_aba` shows that the
first needs it. `IndexUsesSection` shows that the pipeline's use of the lock is a behaviour of
`ExclusiveSection`, which `LockImplementsSection` shows the file to implement. Published
exactly on success, acyclic lineage and agreement of manifests with identities
(`OnlySuccessPublishes`, `RowsAreSound`) are proved and therefore in no run.

`KnowledgeProofs`. `EntailmentIsSound` is the pure lemma: a value that meets a
binding's constraint meets the rule's, for any values and version ranks, whenever
`_constraint_entails` accepts the pair and the condition can be met at all. The proof goes
operator by operator. `PremisesAlwaysHold` lifts it to the states of a pack that is loaded,
matched and activated, for any keys and contexts. For sessions, the invariant says that a
registry holds only contexts that its session issued (`IssuedAreReal`), that the lock of a
session has its one evaluation, and that an evaluation that got past the check has the
reviewed rule and binding (`EvaluatesTheReviewed`), though callbacks may replace either
before and after; `DeliveredIsAlwaysReviewed` follows with its action property. For the document
index, `ReadIsOfItsIdentity` is the heart: a read whose identity is the same before and
after has the bytes of that identity, since every write gives a new one. With
`RowsAreOfTheBuild` (rows are of the entries the builder has recorded), `ManifestsDescribe` (any manifest ever
published describes the database of its own build) and `VerifiesWhatItHas` (a query that
verified holds a database and a manifest of one build)
`ExcerptsAreOfTheDocument` follows. For packs, an installed pack was accepted and is the only one
of its id (`ShippedIsAccepted`), its rows are there, as shipped unless their table was edited
(`RowsAreKept`), coverage rows differ from the installed ones at most in free text
(`CoverageIsShipped`), and an inventory, edited or not, still has the rules and the activation
hash it was installed with (`OfShipped`). So a coverage that closes with rows read at other
moments is that of an installed pack, and the rows read are that pack's (`ClosedIsShipped`);
`ServedIsAlwaysReviewed` follows for any releases. The converse, that a pack which was there is served
while others are installed between the reads, needs `EarlyIsSeen`.

`ExecutionProofs`. For the local runner, `Control` says what has not happened yet at each
step of `_execute_process` and that a tool being stopped has been disturbed; `LeaderKnown` ties
the exit status the runner sees to whoever caused it, `MonitorKnown` the probe's verdict to what
it saw, and `AnswerKnown` lifts the claims of an answer to all later states, in which daemons
go on. `LocalAnswersAreTrue` follows. For SSH, `CallsInOrder` and `ExecutorInOrder` say what
each side has done by each step, `MessagesAreTrue` that a response line tells what its
executor saw, `AnswersStand` that an answer is never revised, and `DirectoriesAreOwn` that
no two attempts share a remote directory, which needs that a name is taken only when it is
free; that one is free is a pigeonhole argument over the finite set of attempts
(`SomePlaceIsFree`). With them `SSHAnswersAreTrue` holds for any number of attempts whose
executors overlap.

The same module has the stages themselves (`StageRun`). The ledger's rows say nothing about the run that is about to be added, so
`IInv` adds what is known of it: its identifier is new and no authorization for it survives
(`Fresh`), its tool read the snapshot's bytes and its claim was validated (`Claims`), its
output is stored by the time of the commit (`Outputs`), every stage before it passed and its
inputs are committed (`Progress`), and only its directory is still to be removed
(`Directories`). `Recorders` and `OneRow` say once what the two writers of the run table
do; the six safety properties of the module follow. `CompleteMeansCommitted` needs
`Progress` at the return: a call that did not stop has passed all of its stages.

`EvidenceProofs`. For the gates, `ItemsOK` says only that references lead to the right tables, that
derivations are about physical gates and that no verification cites another; rows, plans, damaged
reports and capacities are arbitrary. What a verdict means is a chain of lemmas from the definition of
trust (`RunTrustMeans`, `PassMeans`, `PhysicalMeans`, `EligibleMeans`) down to observations that show
what is claimed (`Shows`). That the verdict is of one moment, though tables are read one
by one, rests on the observations being read first: let `l` be the rows of that moment. A passing
verification, derivation or run gate that counts leads to an observation that was read, hence in
`l`; and a row that cites one of `l` is itself of `l` or came later, with a transaction of its own,
which cites nothing of `l` (`ReadAt`). So what makes the later tables pass was there at the
first read (`SamePass`, `SamePhysical`, `SameCampaign`), and what they do not
contain of failures was not there either (`SameStatuses`). `RowsComeWhole` is the hypothesis under
which a later row cites nothing of `l`; the run `verification_split` shows what happens without it.
`FailuresAreRead` carries the failures of the first read through the later ones.

The other three judge evidence that may be edited while they read it. In each the
invariant keeps apart what was read, which stays true, from what lies on the disk, of which
something is known only while nobody works beside. `IndexAuthorization`: only a built-in
parser has an exact origin (`ParsersAreExact`), and therefore what an authorization or a
receipt commits to was parsed (`AuthorizedIsParsed`), also when the graph is changed after it
was sealed, the transaction is tried again or a row of the ledger is edited.
`BelievedIsAlwaysParsed` adds the action properties: `SpentOnce`, since a nonce names its indexer
and attempt; `FirstReceiptStands`; and `BelievedStays`, where a later commit with the same graph
must not add a complete count to a ledger with a receipt. `ReleaseGate`: `EvidenceHolds` says for
every stage what it established of the evidence it read; `StillThere` and `ReadyMeetsNoIssue` say
of an audit that nobody disturbed that the files are those, and that a release which is ready
passes. `SuiteReplayAudit`: a shard that was read is replayed or reported (`ShardsAreReplayed`),
every stage passed holds as long as there is no issue (`StagesHold`), and before the first
replacement every file is the one the executor derived from its streams (`UntouchedIsHonest`),
which gives the converse, that the audit approves an untouched suite.
The evidence of an evaluation is in nine readings, each of which stays what it was when the files behind
it are replaced; what joins them is `Bound` (the reports name one another), the row of every cell that was rescored, and
the comparison of the lock and the run set before and after, so that `EvaluatedWheelIsReleased` needs no moment at
which all the files were those that were read. The number of shards, cells, batches, package versions and
edits is arbitrary.

`RetrievalProofs`. For the retrieval itself, `RetrievalAssumption` says of the snapshot what its
schema guarantees: it is finite, the ends of a relation, the subject of a derivation and the owner of a
diagnostic are entities of it, and records are numbers, which is the encoding and orders them as their
identifiers do. A key begins with the kind of its record (`Kinds`), so that no two kinds share one, and of the
items an adapter returns under one key the code keeps one. The graph of derivations, the terms, the scores of
the walk, what adapters return and the limits are arbitrary.
Most of the work is in what the ranking computes. `Before` is a total order on scored records, so `Place`
numbers a finite channel without gaps and `InOrder` is a list without repetition (`OrderMeans`, by
the least of a set of naturals instead of induction); sums over a finite set are integers (`SumExists`,
from the library's recursion on finite sets); interleaving local excerpts into a ranking keeps the order of the records
(`Interleaved`). The invariant (`IInv`) carries it on: `CorpusOK` fixes the corpus of the facts once the scope is closed, so
that neither rules nor adapters reach it; after ranking, the facts are the fact ranking with excerpts between
(`RanksIgnoreGuidance`); `TrimmedOK` says that what is left of them is a beginning of the ranked, and that if one is gone
nothing but facts is left and the barest answer with one more does not fit, which survives because trimming
never gives anything back; `VerdictOK` ties confidence to the facts that are left. `FactsAlwaysComeFirst` follows.
For `CertaintyIsAlwaysEarned`, the chain of receipts is a bounded iteration from below (`Closed`), while what
a derivation rests on (`Rests`) is the least set closed under references: what is accepted after n rounds rests
on what was accepted after fewer, and so on nothing without a receipt and never on itself. Partial values
never enter the chain: they are shown, as partial, whatever it says.

`PlanesAreAlwaysKept` needs a second invariant (`PlanesIInv`), proved on top of the first. It says
of every list where it comes from: a scope closes over containment and everything gathered later is
within it (`GraphOK`), knowledge and predictions were read at once or not at all and the accepted and refused
items are the parts of one answer of the adapters (`SourcesOK`), a snippet stands right behind its entity and is there
with leave only (`RankedOK`), guidance and predictions list each record once (`ListsOK`), the flow is a path that
visits nothing twice (`FlowOK`), and citations and the private flag are those of what is shown (`TraceOK`). Its lemmas
are about the numbers of ranking: shares are positive as long as some channel gives one
(`FusedShares`), so that `Normal` divides by a positive best (`NormalMeans`), and of
finitely many relations that go on one has the least key, compared part by part (`LeastKey`), so that the walk
of `Follow` is never without a choice. `Contained` is the least set closed under containment, as `Rests` is.

For private text, an append to the access log may fail, tear or reach a file that was
moved away. `Searching` says that all hits
are in before the first is recorded, `IntentIsOwn` which anchor, result and known hash an append is about, `RecordsStand` that
a record that stood stays in its file wherever the file goes, `FoundIsOnRecord` that
the source adapter hands on nothing before its record stands, and `OpenedIsCovered` that an
opened anchor is on record or the one under way. `PrivateAlwaysOnRecord` follows
for any anchors, hits, library of documents, permissions, limit and edits of sources, sidecar and log.

`ReviewProofs`. The tool that writes attestations passes over the packs once to freeze them,
once to read, once to replace, and once more for each check, and an editor may write between any two
reads. The invariant says what a pass has established of the packs behind it, of its own
bytes only: the updates are of reviewed content (`UpdatesAreReviewed`), and what the tool wrote and
nobody replaced is an original or an update (`WritesAreKnown`), also after a recovery that puts back
whatever was saved. `Control` and `TakenBack` carry the converse through the undo: when
a replacement is taken back, every pack is written again with its original, so that
`FailureLeavesNothing` holds although an editor may have copied an attestation forward. For any packs,
edits and failures `AttestedIsAlwaysReviewed` follows. For the suite, with any number of shards
and files, `JobsInOrder` ties the seals to the jobs of the two protocols, so that a pair has
all of both, and two conjuncts say what time does: a process that is valid at its end ran
in the frozen runtime throughout, as versions only grow (`RuntimeOnlyMoves`), and the two snapshots,
taken one after the other, are of one surface once one invocation was valid after both
(`SurfaceOnlyMoves`). `PublishedInOrder` fixes the public files at each step, so that a failure
takes back exactly what was published. `SealedIsAlwaysWhole` follows. For the event stream, the
properties quantify over the events alone, and the invariant ties the replay's bookkeeping
to them: `StartsAreKnown` and `DonesAreKnown` make calls, chunks and positions one to one,
`ReadsAreCounted` counts the completed readings of a chunk and none of its hashes, and `Opened` and `MessageIsKnown` say where
the thread, the turn and the message stand, which leaves only the end after the message.
`AcceptedHasAlwaysRead` follows for any events; that a shard's readings are as many as its chunks
is a bijection between the two.
The cache of cited documents has one idea in its invariant (`Made`): a row
records the very responses that are still the ones kept, or it verifies nothing. It survives because a
response is never replaced, with one exception: the body of a cited map becomes the
response that topics of its publication use. No row made before can have used another, as citations are
sorted and the root of a publication precedes its topics (`CitationsOK`, which relies on a
citation's topic lying under the root of its publication). From `Made` follow that a locator has one response, that from a
complete cache the rows are made again, except that a document of another charset gets another parser contract, and
that what was created loads. `Checked` says of a
manifest which was rewritten that every row passed so far is one that loading accepts, and `Counted` that a document
is requested for the first citation that has it only. `CacheIsAlwaysPinned` follows.

`EvaluationProofs`. Three stages of one evaluation, each of which looks at things that may change
between any two looks. In the preparation (`LockIsAlwaysBound`) the plan is arbitrary in its arms and
corpora, so that nothing follows from a particular sequence: the only fact about the order is that the
steps done are closed under what precedes them (`Ordered`), and every other conjunct says of one
step what it still has to do with the world. `Cold`: what was proved absent is absent until it is indexed,
or somebody touched the index in between, and a stale index stops its own sweep and with it every
measurement. `Built` and `Frozen` carry the argument that a look before and a look after are enough
for one change: an index is by the runtime that was captured, or by the one there is, and then that is
also the one captured again, which `same` refuses; likewise for the input between its proof of absence and the
final workspace. `LockIsBound` alone is not inductive, because it speaks of believed locks only.

For the batch (`RowsAreAlwaysEarned`), `Placed` says that the runner has the newest run set and
the directory of its cell to itself, `Traced` that no two processes had the same challenge,
since a cell whose directory exists is not started again, and that a trace belongs to a batch
and cell of its own, wherever its directory is moved or copied afterwards. `Watched` follows one change from the checks
before a cell to those after it; `Witnessed` states, for whatever directories are there, that a
`run.json` is of a process that was started for the cell its contract names. `Scored` is then about
the scorer, which compares contract, challenge, audit and sandbox of files that may be replaced between
its two readings: a row that counts has a trace in the archive with the challenge of its own cell. With it
goes the action property `EvidenceIsWriteOnce`, for any number of batches.

For the analysis (`ReportIsAlwaysEarned`), versions only grow, so that a number names one lock or one
batch (`Versioned`). `Gathered` relates every reading to the ones before it under the hypothesis that the lock
the runs were scored under is still there (`Current`), which is what the last comparison tests: if it holds at
the end it held throughout, and everything that was read between belongs to that lock. `Answering` does the same
for the workspace of each static case, which is looked at before and after the answer.
`Written` says of a report what it was made of, so that it stays true when everything is replaced later.
That a claimed advantage is there in every repetition (`ClaimIsEarned`) is arithmetic over
the smallest paired difference, which needs that there are finitely many repetitions, and at least one.

Every invariant that a passing run checks is the statement of a theorem. Only model-checked, and why:
all liveness (`BundleRecovers`, `Converges`, `ExecutionsEnd`, `SyncConverges`, `RetrievalEnds`), as the
prover has no reasoning about fairness or `ENABLED`.

## 5. Not modelled, and the plan

Left out for good: the parsers of vendor formats and compiler arguments, the resolution of
directives, exports, rendering, the adapters (CLI, REST, MCP), plugin discovery and the
fake runner: pure functions of large inputs, or input and output. Of modelled components:
the checks that the ledger makes of a single evidence row when it is written (identities
and references of observations, derivations, diagnostics and predictions), the tokenizer
and the numbers of ranking, parsing of HTML, PDF and traces, scans for personal data,
prompts, plots and tables.

Of what is modelled, these cases are not reached: `create --force` over a bundle of an
older schema is no actor of `BundleMigration`; the lock file of an earlier preparation is absent in
`EvaluationPrepare`; that identifiers of threads and traces differ between the cells of a release is left out of
`ReleaseGate`; all rows of `MCEvidence` have the campaign "none", so that in the run only the workload joins
them (the theorems are about rows with any).

What a further extension would take up, in order:

1. The evidence tables of the ledger, with their write-time checks, as the environment of
   `VerificationGates`, which would replace `ItemsOK` by what the ledger itself guarantees.
2. An abstract verdict that is taken of the ledger in one step, as a specification which
   `VerificationGates` implements; `VerdictIsOfOneMoment` says this of a call that has ended.
