----------------------------- MODULE ReviewSuite -----------------------------
(***************************************************************************)
(* Executing and publishing a knowledge review suite                        *)
(* (tools/execute_knowledge_review_suite.py with the caches, projections and *)
(* seals it uses).                                                          *)
(*                                                                          *)
(* Two protocols review the checkout in shards.  The executor freezes the   *)
(* checkout, its own control files and the model's runtime, makes a cache of *)
(* the cited documents, and then for every shard makes a cache of the        *)
(* assigned pieces, runs a process that reads it, keeps what the process     *)
(* printed, checks that nothing it froze has changed and replays the output. *)
(* Only when every shard approves is the pair sealed, and only then are the  *)
(* results published, one file after the other.  Meanwhile the checkout and  *)
(* the runtime may be changed, the caches changed and changed back, calls    *)
(* fail, and the process print what it likes.                                *)
(***************************************************************************)
EXTENDS Naturals, Sequences, FiniteSets

CONSTANTS
    Shards,       \* shards of a protocol, a number
    Ids,          \* invocation and thread identities
    Artifacts,    \* the public files, in the order of publication
    MaxEdits,     \* bound: changes of the checkout or the runtime
    MaxTampers,   \* bound: changes of a cache
    MaxFaults     \* bound: calls that fail, and the death of the executor

Protocols == {"semantic", "adversarial"}
Jobs == [i \in 1..2 * Shards |-> IF i <= Shards THEN "semantic" ELSE "adversarial"]
Files == {Artifacts[i] : i \in DOMAIN Artifacts}

VARIABLES
    world,     \* [control, surface, runtime]: versions on disk
    full,      \* protocol -> the cache of cited documents on disk
    shard,     \* the cache of the present shard on disk
    mem,       \* [control, runtime, snap, launched]: what the executor froze
    phase, job,
    seen,      \* the states of the shard's cache while the process runs
    ran,       \* the runtimes on disk while the process runs
    out,       \* what the process returned
    seals,     \* the accepted invocations
    ended,     \* jobs whose process returned its output
    raw,       \* jobs whose output is kept in the evidence directory
    sealed,    \* the pair is sealed
    public,    \* file -> "none", "ours" or "other"
    at,        \* how far publication has come
    edits, tampers, faults

vars == <<world, full, shard, mem, phase, job, seen, ran, out, seals, ended, raw, sealed, public, at,
          edits, tampers, faults>>

Unset == 99
CacheStates == {"none", "good", "bad"}
Outputs == [exit : {"zero", "error", "oversize"}, bytes : {"good", "bad"}, complete : BOOLEAN,
            approved : BOOLEAN, id : Ids]
NoOutput == [exit |-> "error", bytes |-> "bad", complete |-> FALSE, approved |-> FALSE,
             id |-> "none"]
Ended == {"done", "failed", "crashed"}
budget == <<edits, tampers, faults>>
evidence == <<seals, ended, raw>>

Protocol == Jobs[job]

Go(next) == phase' = next

-------------------------------------------------------------------------------
(* Preparation: freeze, make the caches, compare.                             *)

Freeze ==
    /\ phase = "freeze" /\ Go("snap semantic")
    /\ mem' = [mem EXCEPT !.control = world.control, !.runtime = world.runtime]
    /\ UNCHANGED <<world, full, shard, job, seen, ran, out, evidence, sealed, public, at, budget>>

TakeSnapshot(p) ==
    /\ phase = (IF p = "semantic" THEN "snap semantic" ELSE "snap adversarial")
    /\ Go(IF p = "semantic" THEN "fetch semantic" ELSE "fetch adversarial")
    /\ mem' = [mem EXCEPT !.snap[p] = world.surface]
    /\ UNCHANGED <<world, full, shard, job, seen, ran, out, evidence, sealed, public, at, budget>>

\* create_review_cache fetches what the frozen evidence map describes (a body of
\* other bytes is refused); the second protocol fetches from the first's cache.
Fetch(p) ==
    /\ phase = (IF p = "semantic" THEN "fetch semantic" ELSE "fetch adversarial")
    /\ p = "adversarial" => full["semantic"] = "good"
    /\ full' = [full EXCEPT ![p] = "good"]
    /\ Go(IF p = "semantic" THEN "snap adversarial" ELSE "make cache")
    /\ UNCHANGED <<world, shard, mem, job, seen, ran, out, evidence, sealed, public, at, budget>>

-------------------------------------------------------------------------------
(* One shard.                                                                 *)

\* materialize_shard_cache: from the full cache, which is validated again.
MakeCache ==
    /\ phase = "make cache" /\ full[Protocol] = "good"
    /\ shard' = "good" /\ Go("launch")
    /\ UNCHANGED <<world, full, mem, job, seen, ran, out, evidence, sealed, public, at, budget>>

\* The shard's prompt is the one of the control surface, the runtime the frozen one.
LaunchOK == world.control = mem.control /\ world.runtime = mem.runtime

Launch ==
    /\ phase = "launch" /\ LaunchOK
    /\ seen' = {shard} /\ ran' = {world.runtime} /\ Go("running")
    /\ UNCHANGED <<world, full, shard, mem, job, out, evidence, sealed, public, at, budget>>

\* invoke_process: too much output raises before anything is kept.
Return(o) ==
    /\ phase = "running" /\ o.bytes \in seen
    /\ out' = o /\ Go(IF o.exit = "oversize" THEN "failed" ELSE "persist")
    /\ ended' = IF o.exit = "oversize" THEN ended ELSE ended \cup {job}
    /\ UNCHANGED <<world, full, shard, mem, job, seen, ran, seals, raw, sealed, public, at, budget>>

\* The process is terminated, killed if need be, and its output dropped.
Timeout ==
    /\ phase = "running" /\ Go("failed")
    /\ UNCHANGED <<world, full, shard, mem, job, seen, ran, out, evidence, sealed, public, at, budget>>

\* _persist_process_outcome: keep the streams, then look at the exit status.
PersistOutcome ==
    /\ raw' = raw \cup {job}
    /\ Go(IF out.exit = "zero" THEN "validate" ELSE "failed")

Persist ==
    /\ phase = "persist" /\ PersistOutcome
    /\ UNCHANGED <<world, full, shard, mem, job, seen, ran, out, seals, ended, sealed, public, at, budget>>

\* _validate_static_invocation_state: everything frozen is still what it was.
Static ==
    /\ world.control = mem.control /\ world.surface = mem.snap[Protocol]
    /\ full[Protocol] = "good" /\ shard = "good" /\ world.runtime = mem.runtime

Validate ==
    /\ phase = "validate" /\ out.complete /\ Static
    /\ Go("replay")
    /\ UNCHANGED <<world, full, shard, mem, job, seen, ran, out, evidence, sealed, public, at, budget>>

\* (mutant) The output is not compared with the assigned pieces.
ReplayLoose == TRUE

\* replay_shard_raw_review: the cache is validated, and what the process printed
\* are the frozen pieces.
ReplayOK == shard = "good" /\ out.bytes = "good"

Envelope ==
    [protocol |-> Protocol, surface |-> mem.snap[Protocol], runtime |-> mem.runtime,
     bytes |-> out.bytes, complete |-> out.complete, approved |-> out.approved, id |-> out.id, ran |-> ran]

Sealed == Append(seals, Envelope)

Replay ==
    /\ phase = "replay" /\ ReplayOK
    /\ seals' = Sealed
    /\ shard' = "none" /\ out' = NoOutput /\ seen' = {} /\ ran' = {}
    /\ IF job \in {Shards, 2 * Shards} THEN Go("aggregate") /\ UNCHANGED job ELSE Go("make cache") /\ job' = job + 1
    /\ UNCHANGED <<world, full, mem, ended, raw, sealed, public, at, budget>>

-------------------------------------------------------------------------------
(* A protocol, the pair, publication.                                         *)

Own(p) == {i \in DOMAIN seals : seals[i].protocol = p}

\* aggregate_shard_results and the protocol's trace and receipt: every shard once,
\* all of them approving, of this protocol's snapshot and runtime.
AggregateOK ==
    /\ Cardinality(Own(Protocol)) = Shards
    /\ \A i \in Own(Protocol) : seals[i].approved /\ seals[i].complete

Aggregate ==
    /\ phase = "aggregate" /\ AggregateOK
    /\ IF job = 2 * Shards THEN Go("pair") /\ UNCHANGED job ELSE Go("make cache") /\ job' = job + 1
    /\ UNCHANGED <<world, full, shard, mem, seen, ran, out, evidence, sealed, public, at, budget>>

\* validate_suite_pair: one identity for every invocation, one runtime, one
\* evidence surface.
PairOK ==
    /\ \A i, j \in DOMAIN seals : seals[i].id = seals[j].id => i = j
    /\ \A i \in DOMAIN seals : seals[i].runtime = mem.runtime

Pair ==
    /\ phase = "pair" /\ PairOK
    /\ sealed' = TRUE /\ Go("final")
    /\ UNCHANGED <<world, full, shard, mem, job, seen, ran, out, evidence, public, at, budget>>

\* Before anything is public: the frozen control files, snapshots and caches.
FinalOK ==
    /\ world.control = mem.control
    /\ \A p \in Protocols : world.surface = mem.snap[p] /\ full[p] = "good"

Final ==
    /\ phase = "final" /\ FinalOK /\ Go("occupied")
    /\ UNCHANGED <<world, full, shard, mem, job, seen, ran, out, evidence, sealed, public, at, budget>>

\* _publish_artifacts: none of the files exists, then one after the other.
Unoccupied ==
    /\ phase = "occupied" /\ \A f \in Files : public[f] = "none"
    /\ Go("publish") /\ at' = 1
    /\ UNCHANGED <<world, full, shard, mem, job, seen, ran, out, evidence, sealed, public, budget>>

Publish ==
    /\ phase = "publish"
    /\ public' = [public EXCEPT ![Artifacts[at]] = "ours"]
    /\ IF at = Len(Artifacts) THEN Go("done") /\ UNCHANGED at ELSE at' = at + 1 /\ UNCHANGED phase
    /\ UNCHANGED <<world, full, shard, mem, job, seen, ran, out, evidence, sealed, budget>>

Unpublished == [f \in Files |-> IF \E i \in 1..at - 1 : Artifacts[i] = f THEN "none" ELSE public[f]]

PublishFault ==
    /\ phase = "publish" /\ faults < MaxFaults /\ faults' = faults + 1
    /\ public' = Unpublished /\ Go("failed")
    /\ UNCHANGED <<world, full, shard, mem, job, seen, ran, out, evidence, sealed, at, edits, tampers>>

-------------------------------------------------------------------------------
(* Refusals, faults and the surroundings.                                     *)

Guard ==
    CASE phase = "fetch adversarial" -> full["semantic"] = "good"
      [] phase = "make cache" -> full[Protocol] = "good"
      [] phase = "launch"     -> LaunchOK
      [] phase = "validate"   -> out.complete /\ Static
      [] phase = "replay"     -> ReplayOK
      [] phase = "aggregate"  -> AggregateOK
      [] phase = "pair"       -> PairOK
      [] phase = "final"      -> FinalOK
      [] phase = "occupied"   -> \A f \in Files : public[f] = "none"
      [] OTHER                -> TRUE

Refuse ==
    /\ phase \notin Ended /\ ~Guard /\ Go("failed")
    /\ UNCHANGED <<world, full, shard, mem, job, seen, ran, out, evidence, sealed, public, at, budget>>

\* A read, a fetch or a write fails, or the executor dies.
Stop(how) ==
    /\ phase \notin Ended /\ (how = "failed" => phase # "publish")
    /\ faults < MaxFaults /\ faults' = faults + 1 /\ Go(how)
    /\ UNCHANGED <<world, full, shard, mem, job, seen, ran, out, evidence, sealed, public, at, edits, tampers>>

\* A file of the checkout, or the installed runtime, becomes another one.
Edit(what) ==
    /\ phase \notin Ended /\ edits < MaxEdits /\ edits' = edits + 1
    /\ world' = [world EXCEPT ![what] = @ + 1]
    /\ ran' = IF phase = "running" THEN ran \cup {world'.runtime} ELSE ran
    /\ UNCHANGED <<full, shard, mem, phase, job, seen, out, evidence, sealed, public, at, tampers, faults>>

Other(s) == IF s = "good" THEN "bad" ELSE "good"

\* A cache is changed, or changed back.
TamperShard ==
    /\ phase \in {"launch", "running", "persist", "validate", "replay"} /\ tampers < MaxTampers
    /\ tampers' = tampers + 1
    /\ shard' = Other(shard) /\ seen' = IF phase = "running" THEN seen \cup {shard'} ELSE seen
    /\ UNCHANGED <<world, full, mem, phase, job, ran, out, evidence, sealed, public, at, edits, faults>>

TamperFull(p) ==
    /\ phase \notin Ended /\ full[p] # "none" /\ tampers < MaxTampers
    /\ tampers' = tampers + 1 /\ full' = [full EXCEPT ![p] = Other(@)]
    /\ UNCHANGED <<world, shard, mem, phase, job, seen, ran, out, evidence, sealed, public, at, edits, faults>>

Init ==
    /\ world = [control |-> 0, surface |-> 0, runtime |-> 0]
    /\ full = [p \in Protocols |-> "none"] /\ shard = "none"
    /\ mem = [control |-> Unset, runtime |-> Unset, snap |-> [p \in Protocols |-> Unset]]
    /\ phase = "freeze" /\ job = 1 /\ seen = {} /\ ran = {} /\ out = NoOutput
    /\ seals = <<>> /\ ended = {} /\ raw = {} /\ sealed = FALSE
    /\ public \in [Files -> {"none", "other"}] /\ at = 1
    /\ edits = 0 /\ tampers = 0 /\ faults = 0

Step ==
    \/ Freeze \/ MakeCache \/ Launch \/ Persist \/ Validate \/ Replay \/ Aggregate \/ Pair \/ Final
    \/ Unoccupied \/ Publish \/ Refuse
    \/ \E p \in Protocols : TakeSnapshot(p) \/ Fetch(p)
    \/ \E o \in Outputs : Return(o)

Next ==
    \/ Step \/ Timeout \/ PublishFault
    \/ \E how \in {"failed", "crashed"} : Stop(how)
    \/ \E what \in {"control", "surface", "runtime"} : Edit(what)
    \/ TamperShard \/ \E p \in Protocols : TamperFull(p)

Spec == Init /\ [][Next]_vars

-------------------------------------------------------------------------------
(* Properties.                                                                *)

TypeOK ==
    /\ full \in [Protocols -> CacheStates] /\ shard \in CacheStates /\ job \in 1..2 * Shards
    /\ public \in [Files -> {"none", "ours", "other"}] /\ at \in DOMAIN Artifacts
    /\ phase = "aggregate" => Len(seals) = job
    /\ raw \subseteq ended /\ Len(seals) <= Cardinality(raw)
    /\ sealed => Len(seals) = 2 * Shards /\ \A p \in Protocols : Cardinality(Own(p)) = Shards

\* Every invocation of a sealed pair approved after it had printed all of the
\* frozen pieces assigned to it, even if the cache it read was changed and
\* changed back, and no two of them are one invocation.
SealedWasRead ==
    sealed => \A i \in DOMAIN seals :
        /\ seals[i].approved /\ seals[i].complete /\ seals[i].bytes = "good"
        /\ \A j \in DOMAIN seals : seals[i].id = seals[j].id => i = j

\* Both protocols of a sealed pair reviewed the same checkout, with one runtime
\* that stayed in place while each of them ran.
PairSharesOneSurface ==
    sealed => \A i, j \in DOMAIN seals :
        seals[i].surface = seals[j].surface /\ seals[i].ran = {mem.runtime}

\* A file that the suite published belongs to a sealed pair; a failure takes all
\* of them back and success has published all of them.  Only a dead executor
\* leaves a part.
PublicationIsWhole ==
    /\ \A f \in Files : public[f] = "ours" => sealed
    /\ phase = "failed" => \A f \in Files : public[f] # "ours"
    /\ phase = "done" => \A f \in Files : public[f] = "ours"

\* What a process printed is kept before it is judged: a review that fails
\* leaves the output it failed on.
OutputIsKept ==
    phase \notin {"persist", "crashed"} /\ faults = 0 => ended \subseteq raw

-------------------------------------------------------------------------------
(* What makes these hold, for any shards, files and changes.                  *)

SuiteOK == Shards \in Nat \ {0} /\ Len(Artifacts) \in Nat \ {0} /\ DOMAIN Artifacts = 1..Len(Artifacts)

Preparing == {"freeze", "snap semantic", "fetch semantic", "snap adversarial", "fetch adversarial"}
Working == {"make cache", "launch", "running", "persist", "validate", "replay"}
Closing == {"pair", "final", "occupied", "publish", "done"}

Envelopes ==
    [protocol : Protocols, surface : Nat, runtime : Nat, bytes : {"good", "bad"}, complete : BOOLEAN,
     approved : BOOLEAN, id : Ids \cup {"none"}, ran : SUBSET Nat]

Types ==
    /\ world \in [control : Nat, surface : Nat, runtime : Nat]
    /\ full \in [Protocols -> CacheStates] /\ shard \in CacheStates
    /\ mem \in [control : Nat, runtime : Nat, snap : [Protocols -> Nat]]
    /\ phase \in Preparing \cup Working \cup {"aggregate"} \cup Closing \cup Ended
    /\ job \in 1..2 * Shards /\ ran \in SUBSET Nat
    /\ out \in Outputs \cup {NoOutput} /\ seals \in Seq(Envelopes)
    /\ ended \subseteq 1..2 * Shards /\ raw \subseteq 1..2 * Shards /\ sealed \in BOOLEAN
    /\ public \in [Files -> {"none", "ours", "other"}] /\ at \in DOMAIN Artifacts /\ faults \in Nat

\* Every job of the two protocols is sealed after the one before it.
JobsInOrder ==
    /\ phase \in Preparing => job = 1
    /\ phase \in Preparing \cup Working => Len(seals) = job - 1
    /\ phase = "aggregate" => Len(seals) = job /\ job \in {Shards, 2 * Shards}
    /\ phase \in Closing => job = 2 * Shards
    /\ phase \in Closing \/ sealed => Len(seals) = 2 * Shards
    /\ Len(seals) <= 2 * Shards
    /\ \A i \in DOMAIN seals : seals[i].protocol = Jobs[i]

\* Output is kept when its process has returned, and before it is judged.
OutputsAreKept ==
    /\ 1..Len(seals) \subseteq raw /\ raw \subseteq ended
    /\ phase \in {"validate", "replay"} => job \in raw
    /\ phase = "persist" => job \in ended /\ ended \subseteq raw \cup {job}
    /\ phase \notin {"persist", "failed", "crashed"} \/ (phase = "failed" /\ faults = 0) => ended \subseteq raw

\* The runtimes seen while the process runs are no older than the frozen one.
RuntimeOnlyMoves ==
    phase \in {"running", "persist", "validate"} =>
        ran # {} /\ \A r \in ran : mem.runtime <= r /\ r <= world.runtime

\* The second snapshot is no older than the first; a valid invocation shows them equal.
SurfaceOnlyMoves ==
    /\ phase \in {"fetch semantic", "snap adversarial"} => mem.snap["semantic"] <= world.surface
    /\ phase \in {"fetch adversarial", "aggregate"} \cup Working \cup Closing =>
         mem.snap["semantic"] <= mem.snap["adversarial"] /\ mem.snap["adversarial"] <= world.surface
    /\ phase = "replay" \/ seals # << >> => mem.snap["semantic"] = mem.snap["adversarial"]

\* A sealed invocation was replayed, on its protocol's snapshot and the frozen runtime.
SealsAreReplayed ==
    /\ phase = "replay" => out.complete /\ ran = {mem.runtime}
    /\ \A i \in DOMAIN seals :
         seals[i].complete /\ seals[i].bytes = "good" /\ seals[i].ran = {mem.runtime}
         /\ seals[i].surface = mem.snap[seals[i].protocol]

\* A protocol that was aggregated approves.
AggregatesApprove ==
    /\ \A i \in DOMAIN seals : i <= Shards /\ job > Shards => seals[i].approved
    /\ phase \in Closing \/ sealed => \A i \in DOMAIN seals : seals[i].approved
PairIsDistinct ==
    /\ sealed => phase \in {"final", "occupied", "publish", "done", "failed", "crashed"}
    /\ sealed => \A i, j \in DOMAIN seals : seals[i].id = seals[j].id => i = j

\* Files are published in their order, of a sealed pair, and onto nothing.
PublishedInOrder ==
    /\ phase \in {"final", "occupied", "publish", "done"} => sealed
    /\ \A f \in Files : public[f] = "ours" => sealed /\ phase \in {"publish", "done", "crashed"}
    /\ phase = "publish" =>
         \A f \in Files : public[f] = IF \E i \in 1..at - 1 : Artifacts[i] = f THEN "ours" ELSE "none"
    /\ phase = "done" => \A f \in Files : public[f] = "ours"

IInv == /\ Types /\ JobsInOrder /\ OutputsAreKept /\ RuntimeOnlyMoves /\ SurfaceOnlyMoves
        /\ SealsAreReplayed /\ AggregatesApprove /\ PairIsDistinct /\ PublishedInOrder
=============================================================================
