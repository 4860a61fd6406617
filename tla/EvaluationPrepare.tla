-------------------------- MODULE EvaluationPrepare -------------------------
(***************************************************************************)
(* Preparation of the agent evaluation: setup_corpus.py puts the corpora     *)
(* into the workspaces, prepare.py measures the cold start of every index    *)
(* and writes environment.lock.json, load_environment_lock of common.py      *)
(* decides if a lock is believed.                                           *)
(*                                                                          *)
(* The preparation is a fixed sequence of steps, each of which observes      *)
(* something and may fail; the lock is made of the observations.  Runtimes,  *)
(* repositories, wheels and workspaces may change between any two steps.     *)
(***************************************************************************)
EXTENDS Naturals, Sequences, SequencesExt

CONSTANTS
    Treatments,  \* sequence of the arms with an index
    Hls,         \* those that run an HLSGraph wheel
    Corpora,     \* sequence of the corpora
    MaxEdits     \* bound: changes from outside

VARIABLES
    runtime,   \* tree -> version of its bytes (for an HLSGraph arm: of its payload)
    repo,      \* HLSGraph arm -> [rev, clean]
    wheel,     \* HLSGraph arm -> the revision its wheel was built from
    input,     \* <<arm, corpus>> -> version of the workspace without its index
    index,     \* <<arm, corpus>> -> its index
    lockfile,  \* environment.lock.json
    obs,       \* what the steps of the preparation observed, so far
    pc,        \* "run", "failed", "written"
    believed,  \* the verdict on the lock: "none", "yes", "no"
    stale,     \* indexes that were there before the preparation began
    gaps,      \* roots that changed since they were last proved absent
    turns,     \* thing -> changes during the preparation
    edits

world == <<runtime, repo, wheel, input, index>>
vars == <<world, lockfile, obs, pc, believed, stale, gaps, turns, edits>>

TreatmentSet == ToSet(Treatments)
Trees == TreatmentSet \cup {"codex"}
Roots == TreatmentSet \X ToSet(Corpora)
None == [none |-> TRUE]

\* The wheels are of treatments; a tree is not named like another thing that changes.
PrepareAssumption ==
    Hls \subseteq TreatmentSet /\ Trees \cap {"repo", "wheel", "input", "index"} = {}

\* Versions of a workspace: as set up, with other corpus bytes, with another manifest.
Inputs == {"frozen", "corpus", "config"}

-------------------------------------------------------------------------------
(* The plan: build_plan, and what main and execute_plan put around it.         *)

Step(kind, arm, corpus) == [kind |-> kind, arm |-> arm, corpus |-> corpus]
ForArms(kinds, arms) == {Step(kind, a, "-") : kind \in kinds, a \in arms}
ForRoots(kinds, roots) == {Step(kind, r[1], r[2]) : kind \in kinds, r \in roots}

\* The steps for one index: proof of absence, indexer, and the knowledge sync
\* of the arm that has one.
Phases(arm) == {"proof", "index"} \cup (IF arm = "v03" THEN {"sync"} ELSE {})
Measures(r) == {Step(kind, r[1], r[2]) : kind \in Phases(r[1])}

Steps ==
    ForArms({"capture", "recapture"}, Trees)
    \cup ForArms({"clean", "revision", "wheel", "clean_after", "revision_after", "source"}, Hls)
    \cup ForRoots({"sweep", "workspace"}, Roots) \cup (UNION {Measures(r) : r \in Roots})
    \cup ForRoots({"mount"}, {r \in Roots : r[1] = "v03"}) \cup {Step("same", "-", "-")}

\* They come in stages; in a stage corpus by corpus, arm by arm, and what is
\* done for one of them in its order.
Stage == [capture |-> 1, sweep |-> 2, clean |-> 3, revision |-> 3, wheel |-> 4, proof |-> 5, index |-> 5,
          sync |-> 5, clean_after |-> 6, revision_after |-> 6, recapture |-> 7, same |-> 8, mount |-> 9,
          source |-> 10, workspace |-> 11]
Phase(kind) == CASE kind \in {"index", "revision", "revision_after"} -> 2 [] kind = "sync" -> 3 [] OTHER -> 1
Earlier(seq, x, y) == \E i, j \in DOMAIN seq : i < j /\ seq[i] = x /\ seq[j] = y
Before(s, t) ==
    \/ Stage[s.kind] < Stage[t.kind]
    \/ /\ Stage[s.kind] = Stage[t.kind]
       /\ \/ Earlier(Corpora, s.corpus, t.corpus)
          \/ s.corpus = t.corpus /\ Earlier(Treatments \o <<"codex">>, s.arm, t.arm)
          \/ s.corpus = t.corpus /\ s.arm = t.arm /\ Phase(s.kind) < Phase(t.kind)
Previous == [s \in Steps |-> {t \in Steps : Before(t, s)}]

Done == DOMAIN obs
Turn(s) == s \in Steps \ Done /\ Previous[s] \subseteq Done

Root(s) == <<s.arm, s.corpus>>
Seen(kind, arm, corpus) == obs[Step(kind, arm, corpus)]

-------------------------------------------------------------------------------
(* What a step observes; if it cannot, the preparation has failed.             *)

\* The bytes of an executable tree; those of the baseline are in the manifest.
TreeIdentity(t) == runtime[t]
\* What the model processes of an arm may read: Codex and the runtime of the arm.
Allow(arm) == {"codex", arm}
BuildOK(t) == t = "codegraph" => runtime[t] = 1
Absent(r) == index[r] = None
InputIdentity(r) == input[r]

\* wheel_identity: installed payload, wheel and the clean checkout agree.
WheelOK(a) == runtime[a] = wheel[a] /\ repo[a].rev = wheel[a] /\ repo[a].clean

\* workspace_identity: the corpus is the frozen one, and there is an index.
WorkspaceOK(r) == input[r] # "corpus" /\ index[r] # None

\* The complete sweep before the first subprocess.
SweepOK(s) == Absent(Root(s))

\* And once more right before the indexer.
ProofOK(s) == Absent(Root(s))

\* (mutant) The second capture is not compared with the first.
SameForm == TRUE

\* The runtimes are captured again; the first capture must still hold.
SameOK == \A t \in Trees : Seen("recapture", t, "-") = Seen("capture", t, "-")

\* The mount point for the audit overlays must be new.
MountOK(r) == index[r] # None /\ ~index[r].mount

BoundOK(a) ==
    Seen("revision", a, "-") = Seen("wheel", a, "-") /\ Seen("revision_after", a, "-") = Seen("revision", a, "-")

StepOK(s) ==
    CASE s.kind \in {"capture", "recapture"} -> BuildOK(s.arm)
      [] s.kind = "sweep" -> SweepOK(s)
      [] s.kind = "proof" -> ProofOK(s)
      [] s.kind \in {"clean", "clean_after"} -> repo[s.arm].clean
      [] s.kind = "wheel" -> WheelOK(s.arm)
      [] s.kind = "sync" -> index[Root(s)] # None
      [] s.kind = "same" -> SameOK
      [] s.kind = "mount" -> MountOK(Root(s))
      [] s.kind = "source" -> BoundOK(s.arm)
      [] s.kind = "workspace" -> WorkspaceOK(Root(s))
      [] OTHER -> TRUE

Observed(s) ==
    CASE s.kind \in {"capture", "recapture"} -> TreeIdentity(s.arm)
      [] s.kind \in {"sweep", "proof"} -> InputIdentity(Root(s))
      [] s.kind \in {"revision", "revision_after"} -> repo[s.arm].rev
      [] s.kind = "wheel" -> wheel[s.arm]
      [] s.kind = "workspace" -> [input |-> InputIdentity(Root(s)), index |-> index[Root(s)]]
      [] OTHER -> "done"

\* An indexer reads the workspace with the runtime of its arm; over an index
\* that is already there it does not start cold.
Indexed(r) == [of |-> input[r], by |-> runtime[r[1]], cold |-> Absent(r), synced |-> FALSE,
               mount |-> FALSE]
Effect(s) ==
    CASE s.kind = "index" -> [index EXCEPT ![Root(s)] = Indexed(Root(s))]
      [] s.kind = "sync" -> [index EXCEPT ![Root(s)].synced = TRUE]
      [] s.kind = "mount" -> [index EXCEPT ![Root(s)].mount = TRUE]
      [] OTHER -> index

-------------------------------------------------------------------------------
(* The preparation.                                                            *)

Perform(s) ==
    /\ pc = "run" /\ Turn(s) /\ StepOK(s)
    /\ obs' = [t \in Done \cup {s} |-> IF t = s THEN Observed(s) ELSE obs[t]]
    /\ index' = Effect(s)
    /\ gaps' = IF s.kind \in {"sweep", "proof"} THEN gaps \ {Root(s)} ELSE gaps
    /\ UNCHANGED <<runtime, repo, wheel, input, lockfile, pc, believed, stale, turns, edits>>
Work == \E s \in Steps : Perform(s)

\* An exception: no lock is written.
Fail ==
    /\ pc = "run"
    /\ \E s \in Steps : Turn(s) /\ (~StepOK(s) \/ s.kind \in {"index", "sync"})    \* the subprocess may fail
    /\ pc' = "failed"
    /\ UNCHANGED <<world, lockfile, obs, believed, stale, gaps, turns, edits>>

\* The lock: the observations, and the wheels as they are now.
Lock == [seen |-> obs, wheel |-> wheel, allow |-> [a \in TreatmentSet |-> Allow(a)]]

WriteLock ==
    /\ pc = "run" /\ Steps = Done
    /\ lockfile' = Lock /\ pc' = "written"
    /\ UNCHANGED <<world, obs, believed, stale, gaps, turns, edits>>

-------------------------------------------------------------------------------
(* load_environment_lock.                                                      *)

Of(l, kind, arm, corpus) == l.seen[Step(kind, arm, corpus)]
LockedInput(l, r) == Of(l, "workspace", r[1], r[2]).input

\* One wheel for every HLSGraph arm: the one that was inspected, from the
\* revision the repository had before and after.
SourceOK(l, a) ==
    /\ l.wheel[a] = Of(l, "wheel", a, "-")
    /\ Of(l, "revision", a, "-") = Of(l, "wheel", a, "-") /\ Of(l, "revision_after", a, "-") = Of(l, "wheel", a, "-")
RuntimeFormOK(l) == \A t \in Trees : Step("capture", t, "-") \in DOMAIN l.seen
BoundaryOK(l) ==
    /\ Of(l, "capture", "codegraph", "-") = 1
    /\ \A a \in TreatmentSet : l.allow[a] = Allow(a)

\* Both proofs of absence are of the very input the final workspace has.
ProofsOK(l, r) ==
    Of(l, "sweep", r[1], r[2]) = LockedInput(l, r) /\ Of(l, "proof", r[1], r[2]) = LockedInput(l, r)
PhasesOK(l, r) == Measures(r) \subseteq DOMAIN l.seen

Believable(l) ==
    /\ RuntimeFormOK(l) /\ BoundaryOK(l)
    /\ \A a \in Hls : SourceOK(l, a)
    /\ \A r \in Roots : ProofsOK(l, r) /\ PhasesOK(l, r)

Load ==
    /\ lockfile # None /\ believed = "none"
    /\ believed' = IF Believable(lockfile) THEN "yes" ELSE "no"
    /\ UNCHANGED <<world, lockfile, obs, pc, stale, gaps, turns, edits>>

-------------------------------------------------------------------------------
(* Changes from outside.                                                       *)

Edit(thing) ==
    /\ pc = "run" /\ edits < MaxEdits /\ edits' = edits + 1
    /\ turns' = [turns EXCEPT ![thing] = @ + 1]
    /\ UNCHANGED <<lockfile, obs, pc, believed>>

Reinstall(t) ==
    /\ Edit(t) /\ runtime' = [runtime EXCEPT ![t] = 3 - @]
    /\ UNCHANGED <<repo, wheel, input, index, stale, gaps>>
Commit(a) ==
    /\ Edit("repo") /\ repo' \in {[repo EXCEPT ![a].rev = 3 - @], [repo EXCEPT ![a].clean = ~@]}
    /\ UNCHANGED <<runtime, wheel, input, index, stale, gaps>>
Rebuild(a) ==
    /\ Edit("wheel") /\ wheel' = [wheel EXCEPT ![a] = 3 - @]
    /\ UNCHANGED <<runtime, repo, input, index, stale, gaps>>
EditInput(r) ==
    /\ Edit("input") /\ \E v \in Inputs \ {input[r]} : input' = [input EXCEPT ![r] = v]
    /\ UNCHANGED <<runtime, repo, wheel, index, stale, gaps>>
\* Somebody indexes a workspace, or removes an index.
EditIndex(r) ==
    /\ Edit("index") /\ gaps' = gaps \cup {r} /\ stale' = stale \ {r}
    /\ \/ Absent(r) /\ index' = [index EXCEPT ![r] = [Indexed(r) EXCEPT !.cold = FALSE]]
       \/ ~Absent(r) /\ index' = [index EXCEPT ![r] = None]
    /\ UNCHANGED <<runtime, repo, wheel, input>>

Outside ==
    \/ \E t \in Trees : Reinstall(t)
    \/ \E a \in Hls : Commit(a) \/ Rebuild(a)
    \/ \E r \in Roots : EditInput(r) \/ EditIndex(r)

-------------------------------------------------------------------------------
\* materialize: all workspaces get the verified bytes of the corpus lock, or the
\* run fails; a work root that was used before may still have indexes.
Materialized == [r \in Roots |-> "frozen"]

Indexed0 == [of |-> "frozen", by |-> 1, cold |-> TRUE, synced |-> FALSE, mount |-> FALSE]
Init ==
    /\ runtime = [t \in Trees |-> 1]
    /\ repo = [a \in Hls |-> [rev |-> 1, clean |-> TRUE]] /\ wheel = [a \in Hls |-> 1]
    /\ input = Materialized
    /\ \E s \in {{}} \cup {{r} : r \in Roots} :
         /\ stale = s
         /\ index = [r \in Roots |-> IF r \in s THEN [Indexed0 EXCEPT !.cold = FALSE] ELSE None]
    /\ lockfile = None /\ obs = <<>> /\ pc = "run" /\ believed = "none"
    /\ gaps = {} /\ turns = [x \in Trees \cup {"repo", "wheel", "input", "index"} |-> 0] /\ edits = 0

Next == Work \/ Fail \/ WriteLock \/ Load \/ Outside

Spec == Init /\ [][Next]_vars

-------------------------------------------------------------------------------
(* Properties.                                                                 *)

Believed == believed = "yes"
Measured == {r \in Roots : Step("index", r[1], r[2]) \in Done}

\* A step is done when those before it are, and a lock has all of them.
TypeOK ==
    /\ runtime \in [Trees -> 1..2] /\ input \in [Roots -> Inputs] /\ wheel \in [Hls -> 1..2]
    /\ Done \subseteq Steps /\ \A s \in Done : Previous[s] \subseteq Done
    /\ pc \in {"run", "failed", "written"} /\ (pc = "written") = (lockfile # None)
    /\ lockfile # None => Steps = Done
    /\ believed \in {"none", "yes", "no"} /\ (believed # "none" => lockfile # None)

\* prepare.py, execute_plan: "a stale index in a later corpus cannot allow any
\* earlier timing measurement to begin".
NothingMeasuredOverStale == stale # {} => Measured = {}

\* Every measurement in a believed lock started cold, except where an index came
\* into being between the last proof of its absence and the indexer.
MeasuredCold ==
    Believed =>
        \A r \in Roots : r \notin gaps => index[r] # None /\ index[r].cold

\* The runtime of the lock is the one that built the indexes, although it is
\* only looked at before the first step and after the last: one change of it is
\* always noticed.
BuiltByTheLocked ==
    Believed =>
        \A r \in Roots : turns["index"] = 0 /\ turns[r[1]] <= 1 =>
            index[r].by = Of(lockfile, "capture", r[1], "-")

\* The same of the workspace: the index in it is of the input whose absence of
\* an index was proved and which the lock pins, if that changed at most once.
IndexedTheLockedInput ==
    Believed =>
        \A r \in Roots : turns["index"] = 0 /\ turns["input"] <= 1 =>
            /\ index[r].of = LockedInput(lockfile, r)
            /\ LockedInput(lockfile, r) # "corpus"
            /\ r[1] = "v03" => index[r].synced /\ index[r].mount

\* A believed lock binds the payload that built the indexes to the wheel and to
\* a revision of a clean repository.
BoundToSource ==
    Believed =>
        \A a \in Hls :
            /\ Of(lockfile, "capture", a, "-") = lockfile.wheel[a] \/ turns[a] > 0
            /\ lockfile.wheel[a] = Of(lockfile, "revision", a, "-")
            /\ turns["repo"] = 0 => lockfile.wheel[a] = repo[a].rev


-------------------------------------------------------------------------------
(* The inductive invariant.                                                    *)

Has(kind, arm, corpus) == Step(kind, arm, corpus) \in Done

Typed ==
    /\ runtime \in [Trees -> 1..2] /\ input \in [Roots -> Inputs] /\ wheel \in [Hls -> 1..2]
    /\ turns \in [Trees \cup {"repo", "wheel", "input", "index"} -> Nat]
    /\ DOMAIN index = Roots
    /\ \A r \in Roots : index[r] # None => DOMAIN index[r] = {"of", "by", "cold", "synced", "mount"}

Ordered == Done \subseteq Steps /\ \A s \in Done : Previous[s] \subseteq Done

Locked ==
    /\ pc \in {"run", "failed", "written"} /\ (pc = "written") = (lockfile # None)
    /\ lockfile # None => Steps = Done /\ lockfile.seen = obs
    /\ believed \in {"none", "yes", "no"} /\ (believed # "none" => lockfile # None)
    /\ Believed => Believable(lockfile)

\* A stale index stops its sweep; and what was proved absent is absent until it
\* is indexed, unless it changed in between.
Cold ==
    /\ stale \subseteq Roots /\ \A r \in stale : ~Absent(r) /\ ~Has("sweep", r[1], r[2])
    /\ \A r \in Roots \ gaps :
         IF Has("index", r[1], r[2]) THEN ~Absent(r) /\ index[r].cold
                                     ELSE Has("proof", r[1], r[2]) => Absent(r)

\* An index is by the runtime that was captured, or by the one there is, which
\* is then also the one that is captured again.
Built ==
    /\ \A t \in Trees : turns[t] = 0 /\ Has("capture", t, "-") => Seen("capture", t, "-") = runtime[t]
    /\ Has("same", "-", "-") => SameOK
    /\ \A r \in Roots : turns["index"] = 0 /\ Has("index", r[1], r[2]) =>
         /\ turns[r[1]] = 0 => index[r].by = runtime[r[1]]
         /\ turns[r[1]] <= 1 =>
              \/ index[r].by = Seen("capture", r[1], "-")
              \/ /\ index[r].by = runtime[r[1]]
                 /\ Has("recapture", r[1], "-") => Seen("recapture", r[1], "-") = runtime[r[1]]

\* The same of its input, between the proof of absence and the final workspace.
Frozen ==
    \A r \in Roots :
        /\ turns["input"] = 0 /\ Has("proof", r[1], r[2]) => Seen("proof", r[1], r[2]) = input[r]
        /\ Has("workspace", r[1], r[2]) => Seen("workspace", r[1], r[2]).input # "corpus"
        /\ turns["index"] = 0 =>
             /\ Has("sync", r[1], r[2]) => index[r].synced
             /\ Has("mount", r[1], r[2]) => index[r].mount
        /\ turns["index"] = 0 /\ Has("index", r[1], r[2]) =>
             /\ turns["input"] = 0 => index[r].of = input[r]
             /\ turns["input"] <= 1 =>
                  \/ index[r].of = Seen("proof", r[1], r[2])
                  \/ /\ index[r].of = input[r]
                     /\ Has("workspace", r[1], r[2]) => Seen("workspace", r[1], r[2]).input = input[r]

Bound ==
    \A a \in Hls :
        /\ turns[a] = 0 /\ Has("wheel", a, "-") => Seen("wheel", a, "-") = runtime[a]
        /\ turns["repo"] = 0 /\ Has("revision", a, "-") => Seen("revision", a, "-") = repo[a].rev

IInv == Typed /\ Ordered /\ Locked /\ Cold /\ Built /\ Frozen /\ Bound

=============================================================================
