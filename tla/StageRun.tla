------------------------------- MODULE StageRun -------------------------------
(***************************************************************************)
(* Tool stages: Project.run (sdk.py) executes the selected stages of one    *)
(* snapshot in order through a runner and commits each result.              *)
(*                                                                          *)
(* The inputs of a stage are the snapshot's artifacts that no run produced  *)
(* and the outputs that earlier stages of the same call declared for it.    *)
(* They are validated before and after the execution, the runner works on   *)
(* verified copies in a staging directory of its own, outputs are published *)
(* to the content-addressed store before one ledger transaction records run,*)
(* outputs and receipt, and a claim of tool truth needs a one-shot          *)
(* authorization.  Meanwhile users edit the inputs and attach artifacts,    *)
(* neither of which takes the execution lock; steps fail and processes die. *)
(*                                                                          *)
(* One call runs at a time: it holds the exclusive section of BundleLock.   *)
(* A stage declares at most one output, and that one is required; bytes are *)
(* version numbers and 0 is the version the snapshot records.               *)
(***************************************************************************)
EXTENDS Naturals, FiniteSets

CONSTANTS
    N,           \* the selected stages are 1..N, in order
    Declares,    \* the stages with a declared output
    Consumers,   \* stage -> the stages its output is an input of
    Trusted,     \* TRUE for a built-in runner, which may claim tool truth
    MaxCalls, MaxEdits, MaxAttach, MaxFaults

Stages == 1..N

\* The order that _run_locked demands of stages that consume outputs.
ASSUME StagesOK ==
    /\ N \in Nat
    /\ Declares \subseteq Stages
    /\ Consumers \in [Stages -> SUBSET Stages]
    /\ \A s \in Stages : \A t \in Consumers[s] : s < t
    /\ Trusted \in BOOLEAN
    /\ MaxCalls \in Nat /\ MaxEdits \in Nat /\ MaxAttach \in Nat /\ MaxFaults \in Nat

VARIABLES
    live,       \* the version of the input bytes on disk
    attached,   \* how many artifacts users have attached to the snapshot
    cas,        \* runs whose output bytes are in .hlsgraph/artifacts
    dirs,       \* runs whose staging directory exists
    \* the ledger
    runs, arts, receipts,
    \* the process: authorizations that were issued and not consumed
    auth,
    \* locals of the call under way
    pc, call, stage, base, chained, bad, run, outs, cap, stop, done,
    \* what calls returned; runs whose process or runner was interrupted
    results, lost,
    nextId, edits, faults

files == <<live, attached, cas, dirs>>
ledger == <<runs, arts, receipts>>
locals == <<call, stage, base, chained, bad, run, outs, cap, stop, done>>
rest == <<results, lost, nextId, edits, faults>>
vars == <<files, ledger, auth, pc, locals, rest>>

-------------------------------------------------------------------------------
\* A run's record.  ins are the producers of its chained inputs, base is how
\* many attached artifacts it lists; used is history: the version the tool read.
Run == [id : Nat, call : Nat, stage : Nat, status : {"succeeded", "failed"},
        truth : BOOLEAN, gate : BOOLEAN, ins : SUBSET Nat, base : Nat, used : Nat]
NoRun == [id |-> 0, call |-> 0, stage |-> 0, status |-> "failed",
          truth |-> FALSE, gate |-> TRUE, ins |-> {}, base |-> 0, used |-> 0]

PC == {"idle", "stale0", "bytes0", "next", "pre", "prestale", "judge", "stageIn", "tool",
       "validate", "post", "poststale", "judgePost", "publish", "authorize", "consume",
       "commit", "cleanup", "leave"}

TypeOK ==
    /\ live \in Nat /\ attached \in 0..MaxAttach
    /\ runs \subseteq Run
    /\ arts \subseteq Nat /\ receipts \subseteq Nat /\ cas \subseteq Nat
    /\ dirs \subseteq Nat /\ lost \subseteq Nat /\ auth \subseteq Nat
    /\ pc \in PC
    /\ call \in Nat /\ stage \in 0..N /\ base \in 0..MaxAttach
    /\ chained \subseteq Run /\ bad \in BOOLEAN /\ run \in Run /\ outs \in BOOLEAN
    /\ cap \in {"none", "unused", "used"} /\ stop \in BOOLEAN /\ done \subseteq Run
    /\ results \subseteq [call : Nat, complete : BOOLEAN, truth : BOOLEAN]
    /\ nextId \in Nat /\ edits \in 0..MaxEdits /\ faults \in 0..MaxFaults

Init ==
    /\ live = 0 /\ attached = 0
    /\ cas = {} /\ dirs = {}
    /\ runs = {} /\ arts = {} /\ receipts = {} /\ auth = {}
    /\ pc = "idle" /\ call = 0 /\ stage = 0 /\ base = 0 /\ chained = {} /\ bad = FALSE
    /\ run = NoRun /\ outs = FALSE /\ cap = "none" /\ stop = FALSE /\ done = {}
    /\ results = {} /\ lost = {} /\ nextId = 1 /\ edits = 0 /\ faults = 0

ClearLocals ==
    /\ stage' = 0 /\ base' = 0 /\ chained' = {} /\ bad' = FALSE /\ run' = NoRun
    /\ outs' = FALSE /\ cap' = "none" /\ stop' = FALSE /\ done' = {}

-------------------------------------------------------------------------------
(* The call and its stages.                                                   *)

\* Project.run: enter the lock and select the snapshot.
Begin ==
    /\ pc = "idle"
    /\ call < MaxCalls
    /\ call' = call + 1
    /\ pc' = "stale0"
    /\ UNCHANGED <<files, ledger, auth, rest>>
    /\ UNCHANGED <<stage, base, chained, bad, run, outs, cap, stop, done>>

\* is_stale and then _artifact_byte_mismatches; either raises.
Refuse ==
    /\ pc \in {"stale0", "bytes0"}
    /\ live # 0
    /\ pc' = "idle"
    /\ ClearLocals
    /\ UNCHANGED <<files, ledger, auth, call, rest>>

\* The list of artifacts is fetched between the two, once for the whole call.
Accept ==
    /\ pc \in {"stale0", "bytes0"}
    /\ live = 0
    /\ IF pc = "stale0"
       THEN base' = attached /\ pc' = "bytes0"
       ELSE base' = base /\ pc' = "next"
    /\ UNCHANGED <<files, ledger, auth, rest>>
    /\ UNCHANGED <<call, stage, chained, bad, run, outs, cap, stop, done>>

\* The outputs of this call that are declared as inputs of stage s.
ChainedInto(s) == {r \in chained : s \in Consumers[r.stage]}

\* Build the request of the next stage.
NextStage ==
    /\ pc = "next"
    /\ stage < N
    /\ stage' = stage + 1
    /\ run' = [NoRun EXCEPT !.id = nextId, !.call = call, !.stage = stage + 1,
                            !.ins = {r.id : r \in ChainedInto(stage + 1)}, !.base = base]
    /\ nextId' = nextId + 1
    /\ bad' = FALSE /\ outs' = FALSE /\ cap' = "none"
    /\ pc' = "pre"
    /\ UNCHANGED <<files, ledger, auth, results, lost, edits, faults>>
    /\ UNCHANGED <<call, base, chained, stop, done>>

\* Before and after the execution: the recorded bytes of the request's inputs,
\* then is_stale.
Look ==
    /\ pc \in {"pre", "prestale", "post", "poststale"}
    /\ bad' = (bad \/ live # 0)
    /\ pc' = CASE pc = "pre" -> "prestale" [] pc = "prestale" -> "judge"
               [] pc = "post" -> "poststale" [] pc = "poststale" -> "judgePost"
    /\ UNCHANGED <<files, ledger, auth, rest>>
    /\ UNCHANGED <<call, stage, base, chained, run, outs, cap, stop, done>>

\* _input_validation_failure_run and add_run: a failed run without truth, gates
\* or outputs takes the place of whatever the runner returned.
InputFailure ==
    /\ pc \in {"judge", "judgePost"}
    /\ bad
    /\ run' = [run EXCEPT !.status = "failed", !.truth = FALSE, !.gate = TRUE]
    /\ runs' = runs \cup {run'}
    /\ done' = done \cup {run'}
    /\ stop' = TRUE
    /\ pc' = IF pc = "judge" THEN "leave" ELSE "cleanup"
    /\ UNCHANGED <<files, arts, receipts, auth, rest>>
    /\ UNCHANGED <<call, stage, base, chained, bad, outs, cap>>

Launch ==
    /\ pc = "judge"
    /\ ~bad
    /\ pc' = "stageIn"
    /\ UNCHANGED <<files, ledger, auth, locals, rest>>

-------------------------------------------------------------------------------
(* The runner and the orchestrator.                                           *)

\* (mutant) Inputs are copied without verifying them.
StageInputsUnverified ==
    /\ pc = "stageIn"
    /\ dirs' = dirs \cup {run.id}
    /\ run' = [run EXCEPT !.used = live]
    /\ pc' = "tool"
    /\ UNCHANGED <<live, attached, cas, ledger, auth, rest>>
    /\ UNCHANGED <<call, stage, base, chained, bad, outs, cap, stop, done>>

\* LocalRunner.execute copies verified inputs to a new staging directory; bytes
\* that differ from the request are a failed run without truth.
StageInputs ==
    /\ pc = "stageIn"
    /\ dirs' = dirs \cup {run.id}
    /\ IF live = 0
       THEN /\ run' = [run EXCEPT !.used = live]
            /\ pc' = "tool"
       ELSE /\ run' = [run EXCEPT !.status = "failed"]
            /\ pc' = "validate"
    /\ UNCHANGED <<live, attached, cas, ledger, auth, rest>>
    /\ UNCHANGED <<call, stage, base, chained, bad, outs, cap, stop, done>>

\* The tool exits with 0, with its output or without and with a failing gate or
\* none; it exits with something else; or it ends otherwise (timeout, resource
\* guard, invalid output).  LocalRunner claims truth in the first two cases; any
\* other runner may claim it or not.
ToolEnds ==
    /\ pc = "tool"
    /\ \E status \in {"succeeded", "failed"}, truth, gate, out \in BOOLEAN :
         /\ status = "failed" => gate /\ ~out
         /\ Trusted /\ status = "succeeded" => truth
         /\ out => stage \in Declares
         /\ run' = [run EXCEPT !.status = status, !.truth = truth, !.gate = gate]
         /\ outs' = out
    /\ pc' = "validate"
    /\ UNCHANGED <<files, ledger, auth, rest>>
    /\ UNCHANGED <<call, stage, base, chained, bad, cap, stop, done>>

\* StageOrchestrator._validate_response: a runner that is not trusted cannot
\* claim truth; the directory is removed and the error leaves the call.
RejectResponse ==
    /\ pc = "validate"
    /\ run.truth /\ ~Trusted
    /\ dirs' = dirs \ {run.id}
    /\ pc' = "idle"
    /\ ClearLocals
    /\ UNCHANGED <<live, attached, cas, ledger, auth, call, rest>>

\* Otherwise a run that claims truth gets a capability.
AcceptResponse ==
    /\ pc = "validate"
    /\ run.truth => Trusted
    /\ cap' = IF run.truth THEN "unused" ELSE "none"
    /\ bad' = FALSE
    /\ pc' = "post"
    /\ UNCHANGED <<files, ledger, auth, rest>>
    /\ UNCHANGED <<call, stage, base, chained, run, outs, stop, done>>

-------------------------------------------------------------------------------
(* The commit.                                                                *)

\* A run that failed, or declares nothing, is committed by itself.
Classify ==
    /\ pc = "judgePost"
    /\ ~bad
    /\ done' = done \cup {run}
    /\ pc' = IF run.status = "succeeded" /\ stage \in Declares THEN "publish" ELSE "authorize"
    /\ UNCHANGED <<files, ledger, auth, rest>>
    /\ UNCHANGED <<call, stage, base, chained, bad, run, outs, cap, stop>>

\* (mutant) The bytes are left in the staging directory.
PublishUnstored ==
    /\ pc = "publish"
    /\ \E ok, gate \in BOOLEAN :
         /\ ok => outs
         /\ run' = [run EXCEPT !.status = IF ok THEN "succeeded" ELSE "failed",
                               !.gate = run.gate /\ gate]
    /\ done' = (done \ {run}) \cup {run'}
    /\ pc' = "authorize"
    /\ UNCHANGED <<files, ledger, auth, rest>>
    /\ UNCHANGED <<call, stage, base, chained, bad, outs, cap, stop>>

\* _commit_declared_run_outputs: the output's bytes enter the store and are
\* parsed; a missing or malformed report makes the run a failed one, and a
\* report may fail a gate.
Publish ==
    /\ pc = "publish"
    /\ cas' = IF outs THEN cas \cup {run.id} ELSE cas
    /\ \E ok, gate \in BOOLEAN :
         /\ ok => outs
         /\ run' = [run EXCEPT !.status = IF ok THEN "succeeded" ELSE "failed",
                               !.gate = run.gate /\ gate]
    /\ done' = (done \ {run}) \cup {run'}
    /\ pc' = "authorize"
    /\ UNCHANGED <<live, attached, dirs, ledger, auth, rest>>
    /\ UNCHANGED <<call, stage, base, chained, bad, outs, cap, stop>>

\* _ExecutionCapability.authorize: once, for a run that claims truth.
Authorize ==
    /\ pc = "authorize"
    /\ IF run.truth
       THEN /\ cap = "unused"
            /\ cap' = "used"
            /\ auth' = auth \cup {run.id}
       ELSE UNCHANGED <<cap, auth>>
    /\ pc' = "consume"
    /\ UNCHANGED <<files, ledger, rest>>
    /\ UNCHANGED <<call, stage, base, chained, bad, run, outs, stop, done>>

\* commit_run_result pops the authorization before its transaction starts.
Consume ==
    /\ pc = "consume"
    /\ run.truth => run.id \in auth
    /\ auth' = auth \ {run.id}
    /\ pc' = "commit"
    /\ UNCHANGED <<files, ledger, locals, rest>>

\* What _add_run asks of a trusted run: it lists every artifact that is attached
\* by now and that no run produced.
ListsAllInputs == run.truth => run.base = attached

\* (mutant) A failed gate of a tool that returned 0 does not stop the flow.
StopOnFailure == run.status # "succeeded"

\* An error in a report or a failed gate stops the flow like a failed tool.
StopNow == run.status # "succeeded" \/ ~run.gate

\* The transaction: run, outputs and receipt together.
Commit ==
    /\ pc = "commit"
    /\ ListsAllInputs
    /\ runs' = runs \cup {run}
    /\ arts' = IF outs THEN arts \cup {run.id} ELSE arts
    /\ receipts' = IF run.truth THEN receipts \cup {run.id} ELSE receipts
    /\ chained' = IF outs THEN chained \cup {run} ELSE chained
    /\ stop' = StopNow
    /\ pc' = "cleanup"
    /\ UNCHANGED <<files, auth, rest>>
    /\ UNCHANGED <<call, stage, base, bad, run, outs, cap, done>>

\* The error leaves the call; `finally` removes the directory, and the run is in
\* no table.
CommitRejected ==
    /\ pc = "commit"
    /\ ~ListsAllInputs
    /\ dirs' = dirs \ {run.id}
    /\ pc' = "idle"
    /\ ClearLocals
    /\ UNCHANGED <<live, attached, cas, ledger, auth, call, rest>>

\* `finally: execution.cleanup()`.
Cleanup ==
    /\ pc = "cleanup"
    /\ dirs' = dirs \ {run.id}
    /\ pc' = IF stop THEN "leave" ELSE "next"
    /\ UNCHANGED <<live, attached, cas, ledger, auth, locals, rest>>

\* (mutant) Success is judged by the runs that were made.
ReturnedOptimistic ==
    LET complete == ~stop \/ \A r \in done : r.status = "succeeded"
    IN  [call |-> call, complete |-> complete,
         truth |-> complete /\ \A r \in done : r.truth]

\* What _run_locked says of its invocation: invocation_complete and
\* invocation_tool_truth.
Returned ==
    LET complete == /\ N > 0 /\ ~stop
                    /\ Cardinality(done) = N
                    /\ \A r \in done : r.status = "succeeded"
    IN  [call |-> call, complete |-> complete,
         truth |-> complete /\ \A r \in done : r.truth]

Return ==
    /\ \/ pc = "leave"
       \/ pc = "next" /\ stage = N
    /\ results' = results \cup {Returned}
    /\ pc' = "idle"
    /\ ClearLocals
    /\ UNCHANGED <<files, ledger, auth, call, lost, nextId, edits, faults>>

-------------------------------------------------------------------------------
(* Failures and users.                                                        *)

\* A call of the SDK raises; the runner's own errors are in StageInputs, ToolEnds.
Raises == pc \notin {"idle", "tool", "cleanup"}

\* A step raises: the transaction is rolled back, and once the runner has
\* answered, `except` and `finally` remove its directory.
Fault ==
    /\ Raises
    /\ faults < MaxFaults
    /\ faults' = faults + 1
    /\ dirs' = dirs \ {run.id}
    /\ pc' = "idle"
    /\ ClearLocals
    /\ UNCHANGED <<live, attached, cas, ledger, auth, call, results, lost, nextId, edits>>

\* The process dies, and its authorizations are gone; or it goes on after an
\* interrupt of the runner or of the validation, neither of which `except
\* Exception` sees, or after a removal that failed.  The directory stays.
Interrupt ==
    /\ pc # "idle"
    /\ faults < MaxFaults
    /\ faults' = faults + 1
    /\ lost' = lost \cup dirs
    /\ \/ auth' = {}
       \/ pc \in {"tool", "validate", "cleanup"} /\ UNCHANGED auth
    /\ pc' = "idle"
    /\ ClearLocals
    /\ UNCHANGED <<files, ledger, call, results, nextId, edits>>

\* The user edits the inputs, or restores them.
Edit ==
    /\ edits < MaxEdits
    /\ edits' = edits + 1
    /\ live' \in {0, live + 1} \ {live}
    /\ UNCHANGED <<attached, cas, dirs, ledger, auth, pc, locals, results, lost, nextId, faults>>

\* add_managed_artifact, without the lock.
Attach ==
    /\ attached < MaxAttach
    /\ attached' = attached + 1
    /\ UNCHANGED <<live, cas, dirs, ledger, auth, pc, locals, rest>>

-------------------------------------------------------------------------------
CallStep ==
    \/ Refuse \/ Accept \/ NextStage \/ Look \/ InputFailure \/ Launch
    \/ StageInputs \/ ToolEnds \/ RejectResponse \/ AcceptResponse
    \/ Classify \/ Publish \/ Authorize \/ Consume \/ Commit \/ CommitRejected
    \/ Cleanup \/ Return

Next == Begin \/ CallStep \/ Fault \/ Interrupt \/ Edit \/ Attach

Spec == Init /\ [][Next]_vars

\* A call that was begun goes on: its tools have a timeout.
FairSpec == Spec /\ WF_vars(CallStep)

-------------------------------------------------------------------------------
RunIds == {r.id : r \in runs}

\* A run claims tool truth exactly when the ledger holds a receipt for it, and
\* then its tool read the bytes that the snapshot records, however often the
\* inputs were edited and restored around it.
TruthIsAttested ==
    /\ \A r \in runs : r.truth <=> r.id \in receipts
    /\ receipts \subseteq RunIds
    /\ \A r \in runs : r.truth => r.used = 0 /\ Trusted

\* An authorization is good for one commit: none is left for a committed run.
AuthorizationIsSpent == auth \cap receipts = {}

\* An output in the ledger has its bytes in the store and its producer's row;
\* what is left over by failed commits is bytes without rows, never the reverse.
OutputsAreBacked == arts \subseteq cas \cap RunIds

\* A stage consumes committed outputs of earlier succeeded stages of its own
\* call, never those of an earlier call, and starts only after all of the
\* stages before it passed.
StagesInOrder ==
    /\ \A r \in runs : \A i \in r.ins :
         i \in arts /\ \E q \in runs : q.id = i /\ q.call = r.call /\ q.stage < r.stage
    /\ \A r, q \in runs :
         r.call = q.call /\ r.stage < q.stage => r.status = "succeeded" /\ r.gate

\* A call that returns "complete" has a succeeded run of every selected stage in
\* the ledger, and with tool truth each of them has a receipt.
CompleteMeansCommitted ==
    \A x \in results : x.complete =>
        \A s \in Stages : \E r \in runs :
            /\ r.call = x.call /\ r.stage = s /\ r.status = "succeeded"
            /\ x.truth => r.id \in receipts

\* "the SDK always cleans it after committing or recording failure": staging
\* directories outlive a call only where it was interrupted.
StagingIsCleaned == pc = "idle" => dirs \subseteq lost

-------------------------------------------------------------------------------
(* What makes the safety properties inductive.                                *)

Uncommitted == {"pre", "prestale", "judge", "stageIn", "tool", "validate", "post", "poststale",
                "judgePost", "publish", "authorize", "consume", "commit"}
Answered == {"post", "poststale", "judgePost", "publish", "authorize", "consume", "commit"}
Staged == Answered \cup {"tool", "validate", "cleanup"}

\* The run under way has a new identifier, for which nothing is recorded yet.
Fresh ==
    /\ \A r \in runs : r.id < nextId /\ r.call <= call
    /\ \A a \in auth : a < nextId /\ a \notin RunIds
    /\ run.id < nextId
    /\ pc \in Uncommitted => run.id \notin RunIds /\ run.call = call /\ run.stage = stage
    /\ pc \in Uncommitted \ {"consume"} => run.id \notin auth

\* Its tool read the snapshot's bytes, and its claim was validated.
Claims ==
    /\ run.used = 0
    /\ pc \in Answered /\ run.truth => Trusted

\* Its output was collected from a succeeded execution, and stored.
Outputs ==
    /\ pc \in {"pre", "prestale", "judge", "stageIn", "tool"} => ~outs
    /\ outs /\ pc \in {"validate", "post", "poststale", "judgePost"} =>
         run.status = "succeeded" /\ stage \in Declares
    /\ outs /\ pc \in {"authorize", "consume", "commit"} => run.id \in cas

\* The call goes on: it has not stopped, and everything before passed.
GoesOn == pc = "next" \/ (pc = "cleanup" /\ ~stop)

Passed(k) ==
    /\ \A q \in runs : q.call = call => q.stage <= k /\ q.status = "succeeded" /\ q.gate
    /\ \A r \in chained : r \in runs /\ r.id \in arts /\ r.call = call
    /\ \A s \in 1..k : \E r \in done : r \in runs /\ r.stage = s /\ r.call = call

Progress ==
    /\ pc \in {"stale0", "bytes0"} =>
         stage = 0 /\ chained = {} /\ (\A q \in runs : q.call # call)
    /\ pc \in {"idle", "stale0", "bytes0", "next"} \cup Uncommitted => ~stop
    /\ pc = "idle" => stage = 0 /\ chained = {}
    /\ pc = "leave" => stop
    /\ GoesOn => Passed(stage)
    /\ pc \in Uncommitted => stage \in Stages /\ Passed(stage - 1)
    /\ pc \in Uncommitted => \A i \in run.ins : i \in arts /\
         \E q \in runs : q.id = i /\ q.call = call /\ q.stage < stage
    /\ pc \in {"publish", "authorize", "consume", "commit"} => run \in done

\* The only directory that may still be removed is that of the run under way.
Directories ==
    /\ pc \in Staged => dirs \subseteq lost \cup {run.id}
    /\ pc \notin Staged => dirs \subseteq lost

IInv ==
    /\ TypeOK /\ Fresh /\ Claims /\ Outputs /\ Progress /\ Directories
    /\ TruthIsAttested /\ AuthorizationIsSpent /\ OutputsAreBacked
    /\ StagesInOrder /\ CompleteMeansCommitted

-------------------------------------------------------------------------------
===============================================================================
