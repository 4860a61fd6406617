--------------------------- MODULE EvaluationProofs ---------------------------
(***************************************************************************)
(* Theorems about the three stages of the agent evaluation, for every value  *)
(* of the constants that EvaluationAssumption allows: the preparation         *)
(* (EvaluationPrepare), a batch and its scoring (EvaluationBatch) and the     *)
(* analysis (EvaluationGates).  Each has an invariant IInv; the initial       *)
(* states have it, every step keeps it, and it implies what the run checks.   *)
(***************************************************************************)
EXTENDS MCEvaluation, FiniteSetTheorems, WellFoundedInduction, TLAPS

-------------------------------------------------------------------------------
(* The preparation: prepare.py and load_environment_lock.                      *)

\* A step says what is done and for what.
LEMMA StepMeans ==
    ASSUME NEW kind, NEW arm, NEW corpus
    PROVE  /\ Step(kind, arm, corpus).kind = kind /\ Step(kind, arm, corpus).arm = arm
           /\ Step(kind, arm, corpus).corpus = corpus /\ Root(Step(kind, arm, corpus)) = <<arm, corpus>>
  BY DEF Step, Root

\* What is done for every workspace.
RootKinds == {"sweep", "proof", "index", "sync", "mount", "workspace"}
\* What is done for every HLSGraph arm.
HlsKinds == {"clean", "revision", "wheel", "clean_after", "revision_after", "source"}

\* Where a step comes from.
LEMMA StepsFrom ==
    ASSUME NEW s
    PROVE  s \in Steps <=>
             \/ s \in ForArms({"capture", "recapture"}, Trees) \/ s \in ForArms(HlsKinds, Hls)
             \/ s \in ForRoots({"sweep", "workspace"}, Roots) \/ (\E r \in Roots : s \in Measures(r))
             \/ s \in ForRoots({"mount"}, {r \in Roots : r[1] = "v03"}) \/ s = Step("same", "-", "-")
<1> DEFINE A == ForArms({"capture", "recapture"}, Trees)
           B == ForArms({"clean", "revision", "wheel", "clean_after", "revision_after", "source"}, Hls)
           D == ForRoots({"sweep", "workspace"}, Roots)
           E == UNION {Measures(r) : r \in Roots}
           F == ForRoots({"mount"}, {r \in Roots : r[1] = "v03"})
<1>1. Steps = A \cup B \cup D \cup E \cup F \cup {Step("same", "-", "-")}
  BY Zenon DEF Steps
<1>2. s \in E <=> \E r \in Roots : s \in Measures(r)
  OBVIOUS
<1>3. B = ForArms(HlsKinds, Hls)
  BY Zenon DEF HlsKinds
<1> HIDE DEF A, B, D, E, F
<1>4. s \in Steps <=> s \in A \/ s \in B \/ s \in D \/ s \in E \/ s \in F \/ s = Step("same", "-", "-")
  BY <1>1
<1> QED
  BY Zenon, <1>2, <1>3, <1>4 DEF A, D, F

\* Every arm, wheel and workspace has its steps.
LEMMA StepsHave ==
    /\ Step("same", "-", "-") \in Steps
    /\ \A t \in Trees : Step("capture", t, "-") \in Steps /\ Step("recapture", t, "-") \in Steps
    /\ \A a \in Hls : Step("wheel", a, "-") \in Steps /\ Step("revision", a, "-") \in Steps
    /\ \A r \in Roots : /\ Step("sweep", r[1], r[2]) \in Steps /\ Step("proof", r[1], r[2]) \in Steps
                        /\ Step("index", r[1], r[2]) \in Steps /\ Step("workspace", r[1], r[2]) \in Steps
                        /\ r[1] = "v03" => Step("sync", r[1], r[2]) \in Steps /\ Step("mount", r[1], r[2]) \in Steps
<1>1. \A r \in Roots : Measures(r) \subseteq Steps
  BY StepsFrom
<1>2. \A r \in Roots : /\ Step("proof", r[1], r[2]) \in Measures(r) /\ Step("index", r[1], r[2]) \in Measures(r)
                       /\ r[1] = "v03" => Step("sync", r[1], r[2]) \in Measures(r)
  BY DEF Measures, Phases
<1>3. \A r \in Roots : /\ Step("sweep", r[1], r[2]) \in Steps /\ Step("workspace", r[1], r[2]) \in Steps
                       /\ r[1] = "v03" => Step("mount", r[1], r[2]) \in Steps
  <2>1. \A r \in Roots : /\ Step("sweep", r[1], r[2]) \in ForRoots({"sweep", "workspace"}, Roots)
                         /\ Step("workspace", r[1], r[2]) \in ForRoots({"sweep", "workspace"}, Roots)
    BY DEF ForRoots
  <2>2. \A r \in Roots : r[1] = "v03" => Step("mount", r[1], r[2]) \in ForRoots({"mount"}, {q \in Roots : q[1] = "v03"})
    BY DEF ForRoots
  <2> QED
    BY <2>1, <2>2, StepsFrom
<1>4. /\ \A t \in Trees : Step("capture", t, "-") \in Steps /\ Step("recapture", t, "-") \in Steps
      /\ \A a \in Hls : Step("wheel", a, "-") \in Steps /\ Step("revision", a, "-") \in Steps
      /\ Step("same", "-", "-") \in Steps
  <2>1. \A t \in Trees : /\ Step("capture", t, "-") \in ForArms({"capture", "recapture"}, Trees)
                         /\ Step("recapture", t, "-") \in ForArms({"capture", "recapture"}, Trees)
    BY DEF ForArms
  <2>2. \A a \in Hls :
           /\ Step("wheel", a, "-") \in
                ForArms(HlsKinds, Hls)
           /\ Step("revision", a, "-") \in
                ForArms(HlsKinds, Hls)
    BY DEF ForArms, HlsKinds
  <2> QED
    BY <2>1, <2>2, StepsFrom
<1> QED
  BY <1>1, <1>2, <1>3, <1>4

\* And every step is for one of them.
LEMMA StepsAre ==
    ASSUME NEW s \in Steps
    PROVE  /\ s.kind \in RootKinds => Root(s) \in Roots /\ s = Step(s.kind, Root(s)[1], Root(s)[2])
           /\ s.kind \in {"sync", "mount"} => s.arm = "v03"
           /\ s.kind \in {"capture", "recapture"} => s.arm \in Trees /\ s = Step(s.kind, s.arm, "-")
           /\ s.kind \in {"wheel", "revision"} => s.arm \in Hls /\ s = Step(s.kind, s.arm, "-")
           /\ s.kind = "same" => s = Step("same", "-", "-")
<1>1. CASE \E kind \in {"capture", "recapture"}, a \in Trees : s = Step(kind, a, "-")
  BY <1>1, StepMeans DEF RootKinds
<1>2. CASE \E kind \in HlsKinds, a \in Hls : s = Step(kind, a, "-")
  BY <1>2, StepMeans DEF RootKinds, HlsKinds
<1>3. CASE \E kind \in {"sweep", "workspace"}, r \in Roots : s = Step(kind, r[1], r[2])
  <2>1. PICK kind \in {"sweep", "workspace"}, r \in Roots : s = Step(kind, r[1], r[2])
    BY <1>3
  <2>2. r = <<r[1], r[2]>>
    BY DEF Roots
  <2>3. Root(s) = r /\ s.kind = kind
    BY <2>1, <2>2, StepMeans
  <2> QED
    BY <2>1, <2>3
<1>4. CASE \E r \in Roots : s \in Measures(r)
  <2>1. PICK r \in Roots : s \in Measures(r)
    BY <1>4
  <2>2. PICK kind \in Phases(r[1]) : s = Step(kind, r[1], r[2])
    BY <2>1 DEF Measures
  <2>3. r = <<r[1], r[2]>>
    BY DEF Roots
  <2>4. Root(s) = r /\ s.kind = kind /\ s.arm = r[1]
    BY <2>2, <2>3, StepMeans
  <2>5. kind \in {"proof", "index", "sync"} /\ (kind = "sync" => r[1] = "v03")
    BY <2>2 DEF Phases
  <2> QED
    BY <2>2, <2>4, <2>5
<1>5. CASE \E r \in Roots : r[1] = "v03" /\ s = Step("mount", r[1], r[2])
  <2>1. PICK r \in Roots : r[1] = "v03" /\ s = Step("mount", r[1], r[2])
    BY <1>5
  <2>2. r = <<r[1], r[2]>>
    BY DEF Roots
  <2>3. Root(s) = r /\ s.kind = "mount" /\ s.arm = "v03"
    BY <2>1, <2>2, StepMeans
  <2> QED
    BY <2>1, <2>3
<1>6. CASE s = Step("same", "-", "-")
  BY <1>6, StepMeans DEF RootKinds
<1> QED
  <2>1. s \in ForArms({"capture", "recapture"}, Trees) => \E kind \in {"capture", "recapture"}, a \in Trees : s = Step(kind, a, "-")
    BY DEF ForArms
  <2>2. s \in ForArms(HlsKinds, Hls) =>
          \E kind \in HlsKinds, a \in Hls : s = Step(kind, a, "-")
    BY DEF ForArms
  <2>3. s \in ForRoots({"sweep", "workspace"}, Roots) =>
          \E kind \in {"sweep", "workspace"}, r \in Roots : s = Step(kind, r[1], r[2])
    BY DEF ForRoots
  <2>4. s \in ForRoots({"mount"}, {r \in Roots : r[1] = "v03"}) =>
          \E r \in Roots : r[1] = "v03" /\ s = Step("mount", r[1], r[2])
    BY DEF ForRoots
  <2> QED
    BY <1>1, <1>2, <1>3, <1>4, <1>5, <1>6, <2>1, <2>2, <2>3, <2>4, StepsFrom

\* The order of the steps that the invariant depends on.
LEMMA PreviousMeans ==
    ASSUME NEW r \in Roots, NEW q \in Roots, NEW t \in Trees
    PROVE  /\ Step("sweep", q[1], q[2]) \in Previous[Step("index", r[1], r[2])]
           /\ Step("capture", t, "-") \in Previous[Step("index", r[1], r[2])]
           /\ Step("proof", r[1], r[2]) \in Previous[Step("index", r[1], r[2])]
           /\ Step("sweep", r[1], r[2]) \in Previous[Step("proof", r[1], r[2])]
           /\ Step("index", r[1], r[2]) \in Previous[Step("recapture", t, "-")]
           /\ Step("index", r[1], r[2]) \in Previous[Step("workspace", r[1], r[2])]
           /\ r[1] = "v03" => /\ Step("index", r[1], r[2]) \in Previous[Step("sync", r[1], r[2])]
                              /\ Step("index", r[1], r[2]) \in Previous[Step("mount", r[1], r[2])]
<1>1. ASSUME NEW x \in Steps, NEW y \in Steps, Before(x, y) PROVE x \in Previous[y]
  BY <1>1 DEF Previous
<1>2. ASSUME NEW x, NEW y, Stage[x.kind] < Stage[y.kind] PROVE Before(x, y)
  BY <1>2 DEF Before
<1>3. /\ Stage["sweep"] < Stage["index"] /\ Stage["capture"] < Stage["index"] /\ Stage["sweep"] < Stage["proof"]
      /\ Stage["index"] < Stage["recapture"] /\ Stage["index"] < Stage["workspace"] /\ Stage["index"] < Stage["mount"]
  BY DEF Stage
<1>4. Before(Step("proof", r[1], r[2]), Step("index", r[1], r[2])) /\ Before(Step("index", r[1], r[2]), Step("sync", r[1], r[2]))
  BY StepMeans DEF Before, Stage, Phase
<1> QED
  BY <1>1, <1>2, <1>3, <1>4, StepMeans, StepsHave

\* Runtimes are compared after both captures.
LEMMA PreviousOfSame ==
    ASSUME NEW t \in Trees
    PROVE  /\ Step("capture", t, "-") \in Previous[Step("same", "-", "-")]
           /\ Step("recapture", t, "-") \in Previous[Step("same", "-", "-")]
           /\ Step("capture", t, "-") \in Previous[Step("recapture", t, "-")]
<1>1. ASSUME NEW x \in Steps, NEW y \in Steps, Stage[x.kind] < Stage[y.kind] PROVE x \in Previous[y]
  BY <1>1 DEF Previous, Before
<1>2. Stage["capture"] < Stage["same"] /\ Stage["recapture"] < Stage["same"] /\ Stage["capture"] < Stage["recapture"]
  BY DEF Stage
<1> QED
  BY <1>1, <1>2, StepMeans, StepsHave

\* materialize leaves workspaces in which nothing was measured.
LEMMA PrepareInit ==
    ASSUME Init
    PROVE  IInv
<1> USE DEF Init
<1>1. Typed
  <2>1. DOMAIN index = Roots /\ \A r \in Roots : index[r] # None => DOMAIN index[r] = {"of", "by", "cold", "synced", "mount"}
    BY DEF Indexed0
  <2> QED
    BY <2>1 DEF Typed, Materialized, Inputs
<1>2. Done = {}
  BY DEF Done
<1>3. Ordered
  BY <1>2 DEF Ordered
<1>4. Locked
  BY DEF Locked, Believed
<1>5. Cold
  <2>1. PICK s \in {{}} \cup {{r} : r \in Roots} :
            stale = s /\ index = [r \in Roots |-> IF r \in s THEN [Indexed0 EXCEPT !.cold = FALSE] ELSE None]
    OBVIOUS
  <2>2. "of" \in DOMAIN [Indexed0 EXCEPT !.cold = FALSE] /\ "of" \notin DOMAIN None
    BY DEF Indexed0, None
  <2>3. stale \subseteq Roots /\ \A r \in stale : ~Absent(r)
    BY <2>1, <2>2 DEF Absent
  <2> QED
    BY <1>2, <2>3 DEF Cold, Has
<1>6. Built /\ Frozen /\ Bound
  BY <1>2 DEF Built, Frozen, Bound, Has
<1> QED
  BY <1>1, <1>3, <1>4, <1>5, <1>6 DEF IInv

\* What has been done before the steps that are done.
LEMMA OrderedMeans ==
    ASSUME NEW D, \A s \in D : Previous[s] \subseteq D, NEW r \in Roots, NEW q \in Roots, NEW t \in Trees
    PROVE  /\ Step("index", r[1], r[2]) \in D =>
                Step("sweep", q[1], q[2]) \in D /\ Step("proof", r[1], r[2]) \in D /\ Step("capture", t, "-") \in D
           /\ Step("proof", r[1], r[2]) \in D => Step("sweep", r[1], r[2]) \in D
           /\ Step("recapture", t, "-") \in D => Step("index", r[1], r[2]) \in D
           /\ Step("workspace", r[1], r[2]) \in D => Step("index", r[1], r[2]) \in D
           /\ r[1] = "v03" /\ Step("sync", r[1], r[2]) \in D => Step("index", r[1], r[2]) \in D
           /\ r[1] = "v03" /\ Step("mount", r[1], r[2]) \in D => Step("index", r[1], r[2]) \in D
           /\ Step("same", "-", "-") \in D => Step("capture", t, "-") \in D /\ Step("recapture", t, "-") \in D
  BY PreviousMeans, PreviousOfSame

\* A step adds what it observed, and changes at most the index of its root.
LEMMA PerformMeans ==
    ASSUME IInv, NEW s \in Steps, Perform(s)
    PROVE  /\ s \notin Done /\ Done' = Done \cup {s} /\ obs'[s] = Observed(s)
           /\ \A u \in Done : obs'[u] = obs[u] /\ u # s
           /\ \A u \in Done' : Previous[u] \subseteq Done'
           /\ Previous[s] \subseteq Done
           /\ UNCHANGED <<runtime, repo, wheel, input, lockfile, pc, believed, stale, turns, edits>>
           /\ gaps' = IF s.kind \in {"sweep", "proof"} THEN gaps \ {Root(s)} ELSE gaps
           /\ DOMAIN index' = Roots
<1>1. /\ s \notin Done /\ Done' = Done \cup {s} /\ obs' = [t \in Done \cup {s} |-> IF t = s THEN Observed(s) ELSE obs[t]]
      /\ Previous[s] \subseteq Done
      /\ UNCHANGED <<runtime, repo, wheel, input, lockfile, pc, believed, stale, turns, edits>>
      /\ gaps' = IF s.kind \in {"sweep", "proof"} THEN gaps \ {Root(s)} ELSE gaps
  BY DEF Perform, Turn, Done
<1>2. \A u \in Done : Previous[u] \subseteq Done
  BY DEF IInv, Ordered
<1>3. DOMAIN index' = Roots
  BY DEF Perform, Effect, IInv, Typed
<1> QED
  BY <1>1, <1>2, <1>3

\* execute_plan: what a step does to the index of a workspace; nothing is ever unsynced or unmounted.
LEMMA EffectMeans ==
    ASSUME IInv, NEW s \in Steps, Perform(s), NEW r \in Roots
    PROVE  /\ s = Step("index", r[1], r[2]) => index'[r] = Indexed(r)
           /\ s = Step("sync", r[1], r[2]) \/ s = Step("mount", r[1], r[2]) => index[r] # None
           /\ s # Step("index", r[1], r[2]) =>
                /\ index[r] = None => index'[r] = None
                /\ index[r] # None =>
                     /\ index'[r] # None /\ DOMAIN index'[r] = DOMAIN index[r]
                     /\ index'[r].of = index[r].of /\ index'[r].by = index[r].by /\ index'[r].cold = index[r].cold
                     /\ index[r].synced \/ s = Step("sync", r[1], r[2]) => index'[r].synced
                     /\ index[r].mount \/ s = Step("mount", r[1], r[2]) => index'[r].mount
<1>1. DOMAIN index = Roots /\ (index[r] # None => DOMAIN index[r] = {"of", "by", "cold", "synced", "mount"})
  BY DEF IInv, Typed
<1>2. index' = Effect(s) /\ StepOK(s) /\ r = <<r[1], r[2]>>
  BY DEF Perform, Roots
<1>3. s.kind \in RootKinds => Root(s) \in Roots /\ s = Step(s.kind, Root(s)[1], Root(s)[2])
  BY StepsAre
<1>4. \A kind : s = Step(kind, r[1], r[2]) => s.kind = kind /\ Root(s) = r
  BY <1>2, StepMeans
<1>5. CASE s.kind = "index"
  <2>1. index' = [index EXCEPT ![Root(s)] = Indexed(Root(s))]
    BY <1>2, <1>5 DEF Effect
  <2>2. s = Step("index", r[1], r[2]) => index'[r] = Indexed(r)
    BY <1>1, <1>4, <2>1
  <2>3. s # Step("index", r[1], r[2]) => index'[r] = index[r]
    <3>1. s # Step("index", r[1], r[2]) => Root(s) # r
      BY <1>3, <1>5 DEF RootKinds
    <3> QED
      BY <1>1, <2>1, <3>1
  <2>4. s # Step("sync", r[1], r[2]) /\ s # Step("mount", r[1], r[2])
    BY <1>4, <1>5
  <2> QED
    BY <2>2, <2>3, <2>4
<1>6. CASE s.kind = "sync"
  <2>1. index' = [index EXCEPT ![Root(s)] = [index[Root(s)] EXCEPT !.synced = TRUE]] /\ index[Root(s)] # None
    BY <1>2, <1>6 DEF Effect, StepOK
  <2>2. s # Step("index", r[1], r[2]) /\ s # Step("mount", r[1], r[2])
    BY <1>4, <1>6
  <2>3. CASE Root(s) = r
    <3>1. index'[r] = [index[r] EXCEPT !.synced = TRUE] /\ index[r] # None
      BY <1>1, <2>1, <2>3
    <3>2. DOMAIN index'[r] = DOMAIN index[r] /\ index'[r].synced
      BY <1>1, <3>1
    <3>3. index'[r] # None
      <4>1. "of" \in DOMAIN index'[r] /\ "of" \notin DOMAIN None
        BY <1>1, <3>1, <3>2 DEF None
      <4> QED
        BY <4>1
    <3> QED
      BY <1>1, <2>2, <3>1, <3>2, <3>3
  <2>4. CASE Root(s) # r
    <3>1. index'[r] = index[r] /\ s # Step("sync", r[1], r[2])
      BY <1>1, <1>4, <2>1, <2>4
    <3> QED
      BY <2>2, <3>1
  <2> QED
    BY <2>3, <2>4
<1>7. CASE s.kind = "mount"
  <2>1. index' = [index EXCEPT ![Root(s)] = [index[Root(s)] EXCEPT !.mount = TRUE]] /\ index[Root(s)] # None
    BY <1>2, <1>7 DEF Effect, StepOK, MountOK
  <2>2. s # Step("index", r[1], r[2]) /\ s # Step("sync", r[1], r[2])
    BY <1>4, <1>7
  <2>3. CASE Root(s) = r
    <3>1. index'[r] = [index[r] EXCEPT !.mount = TRUE] /\ index[r] # None
      BY <1>1, <2>1, <2>3
    <3>2. DOMAIN index'[r] = DOMAIN index[r] /\ index'[r].mount
      BY <1>1, <3>1
    <3>3. index'[r] # None
      <4>1. "of" \in DOMAIN index'[r] /\ "of" \notin DOMAIN None
        BY <1>1, <3>1, <3>2 DEF None
      <4> QED
        BY <4>1
    <3> QED
      BY <1>1, <2>2, <3>1, <3>2, <3>3
  <2>4. CASE Root(s) # r
    <3>1. index'[r] = index[r] /\ s # Step("mount", r[1], r[2])
      BY <1>1, <1>4, <2>1, <2>4
    <3> QED
      BY <2>2, <3>1
  <2> QED
    BY <2>3, <2>4
<1>8. CASE s.kind \notin {"index", "sync", "mount"}
  <2>1. index' = index
    BY <1>2, <1>8 DEF Effect
  <2>2. s # Step("index", r[1], r[2]) /\ s # Step("sync", r[1], r[2]) /\ s # Step("mount", r[1], r[2])
    BY <1>4, <1>8
  <2> QED
    BY <2>1, <2>2
<1> QED
  BY <1>5, <1>6, <1>7, <1>8

\* What the steps observe, and what they ask for.
LEMMA ObservedMeans ==
    ASSUME NEW s, StepOK(s)
    PROVE  /\ s.kind \in {"capture", "recapture"} => Observed(s) = runtime[s.arm]
           /\ s.kind \in {"sweep", "proof"} => Observed(s) = input[Root(s)] /\ Absent(Root(s))
           /\ s.kind = "revision" => Observed(s) = repo[s.arm].rev
           /\ s.kind = "wheel" => Observed(s) = runtime[s.arm]
           /\ s.kind = "workspace" => Observed(s).input = input[Root(s)] /\ input[Root(s)] # "corpus"
           /\ s.kind = "same" => SameOK
  BY DEF StepOK, Observed, TreeIdentity, InputIdentity, SweepOK, ProofOK, WheelOK, WorkspaceOK

\* Only one arm has knowledge to sync and audit overlays to mount.
LEMMA SyncIsOfOneArm ==
    ASSUME IInv, NEW r \in Roots, Has("sync", r[1], r[2]) \/ Has("mount", r[1], r[2])
    PROVE  r[1] = "v03"
  BY StepsAre, StepMeans DEF IInv, Ordered, Has

\* A step of execute_plan observes the commits and wheels as they are.
LEMMA PerformKeepsTheRest ==
    ASSUME IInv, NEW s \in Steps, Perform(s)
    PROVE  Typed' /\ Ordered' /\ Locked' /\ Bound'
<1>1. /\ s \notin Done /\ Done' = Done \cup {s} /\ obs'[s] = Observed(s) /\ \A u \in Done : obs'[u] = obs[u]
      /\ \A u \in Done' : Previous[u] \subseteq Done'
      /\ UNCHANGED <<runtime, repo, wheel, input, lockfile, pc, believed, turns>>
      /\ DOMAIN index' = Roots
  BY PerformMeans
<1>2. Typed'
  <2>1. ASSUME NEW r \in Roots, index'[r] # None
        PROVE  DOMAIN index'[r] = {"of", "by", "cold", "synced", "mount"}
    <3>1. CASE s = Step("index", r[1], r[2])
      BY <3>1, EffectMeans DEF Indexed
    <3>2. CASE s # Step("index", r[1], r[2])
      BY <2>1, <3>2, EffectMeans DEF IInv, Typed
    <3> QED
      BY <3>1, <3>2
  <2> QED
    BY <1>1, <2>1 DEF IInv, Typed
<1>3. Ordered'
  BY <1>1 DEF IInv, Ordered
<1>4. Locked'
  BY <1>1 DEF IInv, Locked, Perform, Believed
<1>5. Bound'
  <2>1. ASSUME NEW a \in Hls
        PROVE  /\ (turns[a] = 0 /\ Step("wheel", a, "-") \in Done' => obs'[Step("wheel", a, "-")] = runtime[a])
               /\ (turns["repo"] = 0 /\ Step("revision", a, "-") \in Done' => obs'[Step("revision", a, "-")] = repo[a].rev)
    <3>1. /\ (turns[a] = 0 /\ Step("wheel", a, "-") \in Done => obs[Step("wheel", a, "-")] = runtime[a])
          /\ (turns["repo"] = 0 /\ Step("revision", a, "-") \in Done => obs[Step("revision", a, "-")] = repo[a].rev)
      BY DEF IInv, Bound, Has, Seen
    <3>2. s = Step("wheel", a, "-") => obs'[s] = runtime[a]
      BY <1>1, StepMeans, ObservedMeans DEF Perform
    <3>3. s = Step("revision", a, "-") => obs'[s] = repo[a].rev
      BY <1>1, StepMeans, ObservedMeans DEF Perform
    <3> QED
      BY <1>1, <3>1, <3>2, <3>3
  <2> QED
    BY <1>1, <2>1 DEF Bound, Has, Seen
<1> QED
  BY <1>2, <1>3, <1>4, <1>5

\* A step keeps what is known of absent indexes: a sweep or a proof sees it, an indexer uses it.
LEMMA PerformKeepsCold ==
    ASSUME IInv, NEW s \in Steps, Perform(s)
    PROVE  Cold'
<1>1. /\ s \notin Done /\ Done' = Done \cup {s} /\ Previous[s] \subseteq Done /\ stale' = stale
      /\ gaps' = IF s.kind \in {"sweep", "proof"} THEN gaps \ {Root(s)} ELSE gaps
  BY PerformMeans
<1>2. \A u \in Done : Previous[u] \subseteq Done
  BY DEF IInv, Ordered
<1>3. stale \subseteq Roots /\ \A r \in stale : index[r] # None /\ Step("sweep", r[1], r[2]) \notin Done
  BY DEF IInv, Cold, Absent, Has
<1>4. \A r \in Roots : Indexed(r) # None
  <2>1. \A r \in Roots : "of" \in DOMAIN Indexed(r) /\ "of" \notin DOMAIN None
    BY DEF Indexed, None
  <2> QED
    BY <2>1
<1>5. ASSUME NEW r \in stale PROVE index'[r] # None /\ Step("sweep", r[1], r[2]) \notin Done'
  <2>1. index'[r] # None
    BY <1>3, <1>4, <1>5, EffectMeans
  <2>2. s # Step("sweep", r[1], r[2])
    <3>1. SUFFICES ASSUME s = Step("sweep", r[1], r[2]) PROVE FALSE
      OBVIOUS
    <3>2. r = <<r[1], r[2]>>
      BY <1>3 DEF Roots
    <3>3. s.kind = "sweep" /\ Root(s) = r
      BY <3>1, <3>2, StepMeans
    <3>4. Absent(r)
      BY <3>3, ObservedMeans DEF Perform
    <3> QED
      BY <1>3, <3>4 DEF Absent
  <2> QED
    BY <1>1, <1>3, <2>1, <2>2
<1>6. ASSUME NEW r \in Roots, r \notin gaps'
      PROVE  IF Step("index", r[1], r[2]) \in Done' THEN index'[r] # None /\ index'[r].cold
             ELSE Step("proof", r[1], r[2]) \in Done' => index'[r] = None
  <2>1. r = <<r[1], r[2]>>
    BY DEF Roots
  <2>2. /\ Step("index", r[1], r[2]) \in Done => Step("proof", r[1], r[2]) \in Done
        /\ Step("proof", r[1], r[2]) \in Done => Step("sweep", r[1], r[2]) \in Done
    BY <1>2, OrderedMeans DEF Trees
  <2>3. /\ r \notin gaps /\ Step("index", r[1], r[2]) \in Done => index[r] # None /\ index[r].cold
        /\ r \notin gaps /\ Step("index", r[1], r[2]) \notin Done /\ Step("proof", r[1], r[2]) \in Done => index[r] = None
    BY DEF IInv, Cold, Has, Absent
  <2>4. CASE s = Step("proof", r[1], r[2])
    <3>1. s.kind = "proof" /\ Root(s) = r
      BY <2>1, <2>4, StepMeans
    <3>2. index[r] = None
      BY <3>1, ObservedMeans DEF Perform, Absent
    <3>3. Step("index", r[1], r[2]) \notin Done' /\ s # Step("index", r[1], r[2])
      BY <1>1, <2>2, <2>4, <3>1, StepMeans
    <3> QED
      BY <3>2, <3>3, EffectMeans
  <2>5. CASE s = Step("sweep", r[1], r[2])
    <3>1. s.kind = "sweep"
      BY <2>5, StepMeans
    <3>2. Step("index", r[1], r[2]) \notin Done' /\ Step("proof", r[1], r[2]) \notin Done'
      BY <1>1, <2>2, <2>5, <3>1, StepMeans
    <3> QED
      BY <3>2
  <2>6. CASE s = Step("index", r[1], r[2])
    <3>1. s.kind = "index"
      BY <2>6, StepMeans
    <3>2. r \notin gaps /\ Step("proof", r[1], r[2]) \in Done
      BY <1>1, <1>6, <2>6, <3>1, PreviousMeans DEF Trees
    <3>3. index[r] = None
      BY <1>1, <2>3, <2>6, <3>2
    <3>4. index'[r] = Indexed(r) /\ Indexed(r).cold
      BY <2>6, <3>3, EffectMeans DEF Indexed, Absent
    <3> QED
      BY <1>1, <1>4, <2>6, <3>4
  <2>7. CASE s # Step("proof", r[1], r[2]) /\ s # Step("sweep", r[1], r[2]) /\ s # Step("index", r[1], r[2])
    <3>1. r \notin gaps
      <4>1. s.kind \in {"sweep", "proof"} => Root(s) # r
        BY <2>7, StepsAre DEF RootKinds
      <4> QED
        BY <1>1, <1>6, <4>1
    <3> QED
      BY <1>1, <2>3, <2>7, <3>1, EffectMeans
  <2> QED
    BY <2>4, <2>5, <2>6, <2>7
<1> QED
  BY <1>1, <1>3, <1>5, <1>6 DEF Cold, Has, Absent

\* A step keeps what is known of the runtimes that build.
LEMMA PerformKeepsBuilt ==
    ASSUME IInv, NEW s \in Steps, Perform(s)
    PROVE  Built'
<1>1. /\ s \notin Done /\ Done' = Done \cup {s} /\ Previous[s] \subseteq Done
      /\ obs'[s] = Observed(s) /\ \A u \in Done : obs'[u] = obs[u] /\ u # s
      /\ UNCHANGED <<runtime, turns>>
  BY PerformMeans
<1>2. \A u \in Done : Previous[u] \subseteq Done
  BY DEF IInv, Ordered
<1>3. ASSUME NEW t \in Trees, turns[t] = 0, Step("capture", t, "-") \in Done'
      PROVE  obs'[Step("capture", t, "-")] = runtime[t]
  <2>1. CASE s = Step("capture", t, "-")
    BY <1>1, <2>1, StepMeans, ObservedMeans DEF Perform
  <2>2. CASE s # Step("capture", t, "-")
    BY <1>1, <1>3, <2>2 DEF IInv, Built, Has, Seen
  <2> QED
    BY <2>1, <2>2
<1>4. ASSUME Step("same", "-", "-") \in Done', NEW t \in Trees
      PROVE  obs'[Step("recapture", t, "-")] = obs'[Step("capture", t, "-")]
  <2>1. Step("capture", t, "-") \in Done /\ Step("recapture", t, "-") \in Done
    <3>1. CASE s = Step("same", "-", "-")
      BY <1>1, <3>1, PreviousOfSame
    <3>2. CASE s # Step("same", "-", "-")
      BY <1>1, <1>2, <1>4, <3>2, PreviousOfSame
    <3> QED
      BY <3>1, <3>2
  <2>2. SameOK
    <3>1. CASE s = Step("same", "-", "-")
      BY <3>1, StepMeans, ObservedMeans DEF Perform
    <3>2. CASE s # Step("same", "-", "-")
      BY <1>1, <1>4, <3>2 DEF IInv, Built, Has
    <3> QED
      BY <3>1, <3>2
  <2> QED
    BY <1>1, <2>1, <2>2 DEF SameOK, Seen
<1>5. ASSUME NEW r \in Roots, turns["index"] = 0, Step("index", r[1], r[2]) \in Done'
      PROVE  /\ turns[r[1]] = 0 => index'[r].by = runtime[r[1]]
             /\ turns[r[1]] <= 1 =>
                  \/ index'[r].by = obs'[Step("capture", r[1], "-")]
                  \/ /\ index'[r].by = runtime[r[1]]
                     /\ Step("recapture", r[1], "-") \in Done' => obs'[Step("recapture", r[1], "-")] = runtime[r[1]]
  <2>1. r[1] \in Trees
    BY DEF Roots, Trees
  <2>2. CASE s = Step("index", r[1], r[2])
    <3>1. index'[r].by = runtime[r[1]]
      <4>1. index'[r] = Indexed(r)
        BY <2>2, EffectMeans
      <4>2. Indexed(r).by = runtime[r[1]]
        BY DEF Indexed
      <4> QED
        BY <4>1, <4>2
    <3>2. Step("recapture", r[1], "-") \notin Done
      BY <1>1, <1>2, <2>1, <2>2, OrderedMeans
    <3>3. s # Step("recapture", r[1], "-")
      BY <2>2, StepMeans
    <3> QED
      BY <1>1, <3>1, <3>2, <3>3
  <2>3. CASE s # Step("index", r[1], r[2])
    <3>1. Step("index", r[1], r[2]) \in Done
      BY <1>1, <1>5, <2>3
    <3>2. index'[r].by = index[r].by
      BY <2>3, EffectMeans
    <3>3. Step("capture", r[1], "-") \in Done
      BY <1>2, <2>1, <3>1, OrderedMeans
    <3>4. s = Step("recapture", r[1], "-") => obs'[s] = runtime[r[1]]
      BY <1>1, StepMeans, ObservedMeans DEF Perform
    <3>5. /\ turns[r[1]] = 0 => index[r].by = runtime[r[1]]
          /\ turns[r[1]] <= 1 =>
                  \/ index[r].by = obs[Step("capture", r[1], "-")]
                  \/ /\ index[r].by = runtime[r[1]]
                     /\ Step("recapture", r[1], "-") \in Done => obs[Step("recapture", r[1], "-")] = runtime[r[1]]
      BY <1>5, <3>1 DEF IInv, Built, Has, Seen
    <3> QED
      BY <1>1, <3>2, <3>3, <3>4, <3>5
  <2> QED
    BY <2>2, <2>3
<1> QED
  BY <1>1, <1>3, <1>4, <1>5 DEF Built, Has, Seen, SameOK

\* A step keeps what is known of the inputs that are indexed.
LEMMA PerformKeepsFrozen ==
    ASSUME IInv, NEW s \in Steps, Perform(s)
    PROVE  Frozen'
<1>1. /\ s \notin Done /\ Done' = Done \cup {s} /\ Previous[s] \subseteq Done
      /\ obs'[s] = Observed(s) /\ \A u \in Done : obs'[u] = obs[u] /\ u # s
      /\ UNCHANGED <<input, turns>>
  BY PerformMeans
<1>2. \A u \in Done : Previous[u] \subseteq Done
  BY DEF IInv, Ordered
<1> SUFFICES ASSUME NEW r \in Roots
             PROVE
        /\ turns["input"] = 0 /\ Step("proof", r[1], r[2]) \in Done' => obs'[Step("proof", r[1], r[2])] = input[r]
        /\ Step("workspace", r[1], r[2]) \in Done' => obs'[Step("workspace", r[1], r[2])].input # "corpus"
        /\ turns["index"] = 0 =>
             /\ Step("sync", r[1], r[2]) \in Done' => index'[r].synced
             /\ Step("mount", r[1], r[2]) \in Done' => index'[r].mount
        /\ turns["index"] = 0 /\ Step("index", r[1], r[2]) \in Done' =>
             /\ turns["input"] = 0 => index'[r].of = input[r]
             /\ turns["input"] <= 1 =>
                  \/ index'[r].of = obs'[Step("proof", r[1], r[2])]
                  \/ /\ index'[r].of = input[r]
                     /\ Step("workspace", r[1], r[2]) \in Done' => obs'[Step("workspace", r[1], r[2])].input = input[r]
  BY <1>1 DEF Frozen, Has, Seen
<1>3. r = <<r[1], r[2]>> /\ "codex" \in Trees
  BY DEF Roots, Trees
<1>4. /\ turns["input"] = 0 /\ Step("proof", r[1], r[2]) \in Done => obs[Step("proof", r[1], r[2])] = input[r]
      /\ Step("workspace", r[1], r[2]) \in Done => obs[Step("workspace", r[1], r[2])].input # "corpus"
      /\ turns["index"] = 0 =>
             /\ Step("sync", r[1], r[2]) \in Done => index[r].synced
             /\ Step("mount", r[1], r[2]) \in Done => index[r].mount
      /\ turns["index"] = 0 /\ Step("index", r[1], r[2]) \in Done =>
             /\ turns["input"] = 0 => index[r].of = input[r]
             /\ turns["input"] <= 1 =>
                  \/ index[r].of = obs[Step("proof", r[1], r[2])]
                  \/ /\ index[r].of = input[r]
                     /\ Step("workspace", r[1], r[2]) \in Done => obs[Step("workspace", r[1], r[2])].input = input[r]
  BY DEF IInv, Frozen, Has, Seen
<1>5. s = Step("proof", r[1], r[2]) => obs'[s] = input[r]
  BY <1>1, <1>3, StepMeans, ObservedMeans DEF Perform
<1>6. s = Step("workspace", r[1], r[2]) => obs'[s].input = input[r] /\ input[r] # "corpus"
  BY <1>1, <1>3, StepMeans, ObservedMeans DEF Perform
<1>7. CASE s = Step("index", r[1], r[2])
  <2>1. index'[r].of = input[r] /\ Step("proof", r[1], r[2]) \in Done
    <3>1. index'[r] = Indexed(r)
      BY <1>7, EffectMeans
    <3>2. Indexed(r).of = input[r]
      BY DEF Indexed
    <3>3. Step("proof", r[1], r[2]) \in Done
      BY <1>1, <1>3, <1>7, PreviousMeans
    <3> QED
      BY <3>1, <3>2, <3>3
  <2>2. /\ Step("workspace", r[1], r[2]) \notin Done'
        /\ Step("sync", r[1], r[2]) \notin Done' /\ Step("mount", r[1], r[2]) \notin Done'
    <3>1. s # Step("workspace", r[1], r[2]) /\ s # Step("sync", r[1], r[2]) /\ s # Step("mount", r[1], r[2])
      BY <1>7, StepMeans
    <3>2. Step("sync", r[1], r[2]) \in Done \/ Step("mount", r[1], r[2]) \in Done => r[1] = "v03"
      BY SyncIsOfOneArm DEF Has
    <3> QED
      BY <1>1, <1>2, <1>3, <1>7, <3>1, <3>2, OrderedMeans
  <2>3. s # Step("proof", r[1], r[2])
    BY <1>7, StepMeans
  <2> QED
    BY <1>1, <1>4, <1>7, <2>1, <2>2, <2>3
<1>8. CASE s # Step("index", r[1], r[2])
  <2>1. index'[r].of = index[r].of
    BY <1>8, EffectMeans
  <2>2. /\ turns["index"] = 0 /\ Step("sync", r[1], r[2]) \in Done' => index'[r].synced
        /\ turns["index"] = 0 /\ Step("mount", r[1], r[2]) \in Done' => index'[r].mount
    <3>1. CASE index[r] = None
      BY <1>1, <1>4, <1>8, <3>1, EffectMeans
    <3>2. CASE index[r] # None
      BY <1>1, <1>4, <1>8, <3>2, EffectMeans
    <3> QED
      BY <3>1, <3>2
  <2>3. Step("index", r[1], r[2]) \in Done' => Step("index", r[1], r[2]) \in Done /\ Step("proof", r[1], r[2]) \in Done
    BY <1>1, <1>2, <1>3, <1>8, OrderedMeans
  <2>4. Step("index", r[1], r[2]) \in Done' /\ Step("workspace", r[1], r[2]) \in Done' =>
          \/ s = Step("workspace", r[1], r[2]) /\ obs'[s].input = input[r]
          \/ Step("workspace", r[1], r[2]) \in Done /\ obs'[Step("workspace", r[1], r[2])] = obs[Step("workspace", r[1], r[2])]
    BY <1>1, <1>6
  <2> QED
    BY <1>1, <1>4, <1>5, <1>6, <2>1, <2>2, <2>3, <2>4
<1> QED
  BY <1>7, <1>8

\* Any step of the preparation keeps the invariant.
LEMMA WorkKeeps ==
    ASSUME IInv, Work
    PROVE  IInv'
  BY PerformKeepsTheRest, PerformKeepsCold, PerformKeepsBuilt, PerformKeepsFrozen DEF Work, IInv

\* Where neither the world nor the observations change, nothing is unlearned.
LEMMA LearnedStays ==
    ASSUME IInv, UNCHANGED <<runtime, repo, wheel, input, index, obs, stale, gaps, turns>>
    PROVE  Typed' /\ Ordered' /\ Cold' /\ Built' /\ Frozen' /\ Bound'
<1> USE DEF IInv
<1>1. Done' = Done
  BY DEF Done
<1>2. Typed' /\ Ordered'
  BY <1>1 DEF Typed, Ordered
<1>3. Cold'
  BY <1>1 DEF Cold, Has, Absent
<1>4. Built'
  BY <1>1 DEF Built, Has, Seen, SameOK
<1>5. Frozen'
  BY <1>1 DEF Frozen, Has, Seen
<1>6. Bound'
  BY <1>1 DEF Bound, Has, Seen
<1> QED
  BY <1>2, <1>3, <1>4, <1>5, <1>6

\* So do a failure, the lock, and the verdict on it.
LEMMA EndKeeps ==
    ASSUME IInv, Fail \/ WriteLock \/ Load
    PROVE  IInv'
<1>1. UNCHANGED <<runtime, repo, wheel, input, index, obs, stale, gaps, turns>> /\ Done' = Done
  BY DEF Fail, WriteLock, Load, world, Done
<1>2. /\ pc \in {"run", "failed", "written"} /\ (pc = "written") = (lockfile # None)
      /\ lockfile # None => Steps = Done /\ lockfile.seen = obs
      /\ believed \in {"none", "yes", "no"} /\ (believed # "none" => lockfile # None)
      /\ believed = "yes" => Believable(lockfile)
  BY DEF IInv, Locked, Believed
<1>3. CASE Fail
  <2>1. Locked'
    BY <1>1, <1>2, <1>3 DEF Fail, Locked, Believed
  <2> QED
    BY <1>1, <2>1, LearnedStays DEF IInv
<1>4. CASE WriteLock
  <2>1. "seen" \in DOMAIN Lock /\ "seen" \notin DOMAIN None /\ Lock.seen = obs
    BY DEF Lock, None
  <2>2. Lock # None
    BY <2>1
  <2>3. Locked'
    BY <1>1, <1>2, <1>4, <2>1, <2>2 DEF WriteLock, Locked, Believed
  <2> QED
    BY <1>1, <2>3, LearnedStays DEF IInv
<1>5. CASE Load
  <2>1. lockfile' = lockfile /\ pc' = pc /\ lockfile # None
        /\ believed' = IF Believable(lockfile) THEN "yes" ELSE "no"
    BY <1>5 DEF Load
  <2>2. Believable(lockfile)' = Believable(lockfile)
    BY <2>1 DEF Believable, RuntimeFormOK, BoundaryOK, SourceOK, ProofsOK, PhasesOK, LockedInput, Of
  <2>3. Locked'
    BY <1>1, <1>2, <2>1, <2>2 DEF Locked, Believed
  <2> QED
    BY <1>1, <2>3, LearnedStays DEF IInv
<1> QED
  BY <1>3, <1>4, <1>5

\* Whatever changes from outside is counted, and only before there is a lock.
LEMMA EditCounts ==
    ASSUME IInv, NEW thing \in Trees \cup {"repo", "wheel", "input", "index"}, Edit(thing)
    PROVE  /\ turns' \in [Trees \cup {"repo", "wheel", "input", "index"} -> Nat]
           /\ turns'[thing] # 0 /\ (turns'[thing] <= 1 => turns[thing] = 0)
           /\ \A x \in Trees \cup {"repo", "wheel", "input", "index"} : x # thing => turns'[x] = turns[x]
           /\ obs' = obs /\ Done' = Done /\ Ordered' /\ Locked'
           /\ Trees \cap {"repo", "wheel", "input", "index"} = {} /\ Hls \subseteq Trees
<1>1. turns' = [turns EXCEPT ![thing] = turns[thing] + 1] /\ pc = "run" /\ UNCHANGED <<lockfile, obs, pc, believed>>
  BY DEF Edit
<1>2. turns \in [Trees \cup {"repo", "wheel", "input", "index"} -> Nat]
  BY DEF IInv, Typed
<1>3. Done' = Done
  BY <1>1 DEF Done
<1>4. Ordered' /\ Locked'
  <2>1. believed = "none" /\ lockfile = None
    BY <1>1 DEF IInv, Locked
  <2> QED
    BY <1>1, <1>3, <2>1 DEF IInv, Ordered, Locked, Believed
<1>5. Trees \cap {"repo", "wheel", "input", "index"} = {} /\ Hls \subseteq Trees
  BY EvaluationAssumption DEF PrepareAssumption, Trees
<1> QED
  BY <1>1, <1>2, <1>3, <1>4, <1>5

\* There are two versions of a thing.
LEMMA TwoVersions == ASSUME NEW v \in 1..2 PROVE 3 - v \in 1..2
  OBVIOUS

\* A runtime that changes is noticed once its turns are counted.
LEMMA ReinstallKeeps ==
    ASSUME IInv, NEW t \in Trees, Reinstall(t)
    PROVE  IInv'
<1>1. Edit(t) /\ runtime' = [runtime EXCEPT ![t] = 3 - runtime[t]] /\ UNCHANGED <<repo, wheel, input, index, stale, gaps>>
  BY DEF Reinstall
<1>2. /\ turns' \in [Trees \cup {"repo", "wheel", "input", "index"} -> Nat]
      /\ turns'[t] # 0 /\ (turns'[t] <= 1 => turns[t] = 0)
      /\ \A x \in Trees \cup {"repo", "wheel", "input", "index"} : x # t => turns'[x] = turns[x]
      /\ obs' = obs /\ Done' = Done /\ Ordered' /\ Locked'
      /\ t \notin {"repo", "wheel", "input", "index"} /\ Hls \subseteq Trees
  BY <1>1, EditCounts
<1>3. runtime \in [Trees -> 1..2] /\ \A u \in Trees : u # t => runtime'[u] = runtime[u]
  BY <1>1 DEF IInv, Typed
<1>4. Typed'
  <2>1. runtime' \in [Trees -> 1..2]
    BY <1>1, <1>3, TwoVersions
  <2> QED
    BY <1>1, <1>2, <2>1 DEF IInv, Typed
<1>5. Cold'
  BY <1>1, <1>2 DEF IInv, Cold, Has, Absent
<1>6. Built'
  <2>1. ASSUME NEW r \in Roots, turns["index"] = 0, Has("index", r[1], r[2]), turns'[r[1]] <= 1, r[1] = t
        PROVE  index[r].by = Seen("capture", t, "-")
    <3>1. turns[t] = 0 /\ Has("capture", t, "-")
      BY <1>2, <2>1, OrderedMeans DEF IInv, Ordered, Has
    <3> QED
      BY <2>1, <3>1 DEF IInv, Built
  <2>2. \A r \in Roots : r[1] \in Trees
    BY DEF Roots, Trees
  <2>3. turns'["index"] = turns["index"]
    BY <1>2
  <2>4. \A kind, arm, corpus : /\ Has(kind, arm, corpus)' = Has(kind, arm, corpus)
                               /\ Seen(kind, arm, corpus)' = Seen(kind, arm, corpus)
    BY <1>2 DEF Has, Seen
  <2>5. SameOK' = SameOK
    BY <2>4 DEF SameOK
  <2> QED
    BY <1>1, <1>2, <1>3, <2>1, <2>2, <2>3, <2>4, <2>5 DEF IInv, Built
<1>7. Frozen'
  <2>1. turns'["index"] = turns["index"] /\ turns'["input"] = turns["input"]
    BY <1>2
  <2> QED
    BY <1>1, <1>2, <2>1 DEF IInv, Frozen, Has, Seen
<1>8. Bound'
  <2>1. turns'["repo"] = turns["repo"]
    BY <1>2
  <2> QED
    BY <1>1, <1>2, <1>3, <2>1 DEF IInv, Bound, Has, Seen
<1> QED
  BY <1>2, <1>4, <1>5, <1>6, <1>7, <1>8 DEF IInv

\* Repositories and wheels are only looked at.
LEMMA SourceEditKeeps ==
    ASSUME IInv, NEW a \in Hls, Commit(a) \/ Rebuild(a)
    PROVE  IInv'
<1> DEFINE thing == IF Commit(a) THEN "repo" ELSE "wheel"
<1>1. /\ Edit(thing) /\ thing \in {"repo", "wheel"} /\ (thing # "repo" => repo' = repo)
      /\ UNCHANGED <<runtime, input, index, stale, gaps>>
  BY DEF Commit, Rebuild
<1> HIDE DEF thing
<1>2. /\ turns' \in [Trees \cup {"repo", "wheel", "input", "index"} -> Nat]
      /\ turns'[thing] # 0
      /\ \A x \in Trees \cup {"repo", "wheel", "input", "index"} : x # thing => turns'[x] = turns[x]
      /\ obs' = obs /\ Done' = Done /\ Ordered' /\ Locked'
      /\ thing \notin Trees /\ Hls \subseteq Trees
  BY <1>1, EditCounts
<1>3. wheel' \in [Hls -> 1..2]
  <2>1. wheel \in [Hls -> 1..2]
    BY DEF IInv, Typed
  <2>2. wheel' = wheel \/ wheel' = [wheel EXCEPT ![a] = 3 - wheel[a]]
    BY DEF Commit, Rebuild
  <2> QED
    BY <2>1, <2>2, TwoVersions
<1>4. Typed'
  BY <1>1, <1>2, <1>3 DEF IInv, Typed
<1>5. Cold'
  BY <1>1, <1>2 DEF IInv, Cold, Has, Absent
<1>6. turns'["index"] = turns["index"] /\ turns'["input"] = turns["input"] /\ \A t \in Trees : turns'[t] = turns[t]
  BY <1>1, <1>2
<1>7. \A kind, arm, corpus : /\ Has(kind, arm, corpus)' = Has(kind, arm, corpus)
                             /\ Seen(kind, arm, corpus)' = Seen(kind, arm, corpus)
  BY <1>2 DEF Has, Seen
<1>8. Built'
  <2>1. \A r \in Roots : r[1] \in Trees
    BY DEF Roots, Trees
  <2> QED
    BY <1>1, <1>6, <1>7, <2>1 DEF IInv, Built, SameOK
<1>9. Frozen'
  BY <1>1, <1>6, <1>7 DEF IInv, Frozen
<1>10. Bound'
  <2>1. turns'["repo"] = 0 => turns["repo"] = 0 /\ repo' = repo
    BY <1>1, <1>2
  <2> QED
    BY <1>1, <1>2, <1>6, <1>7, <2>1 DEF IInv, Bound
<1> QED
  BY <1>2, <1>4, <1>5, <1>8, <1>9, <1>10 DEF IInv

\* A workspace that changes was read in the proof if it was indexed.
LEMMA EditInputKeeps ==
    ASSUME IInv, NEW r \in Roots, EditInput(r)
    PROVE  IInv'
<1>1. /\ Edit("input") /\ UNCHANGED <<runtime, repo, wheel, index, stale, gaps>>
      /\ \E v \in Inputs : input' = [input EXCEPT ![r] = v]
  BY DEF EditInput
<1>2. /\ turns' \in [Trees \cup {"repo", "wheel", "input", "index"} -> Nat]
      /\ turns'["input"] # 0 /\ (turns'["input"] <= 1 => turns["input"] = 0)
      /\ \A x \in Trees \cup {"repo", "wheel", "input", "index"} : x # "input" => turns'[x] = turns[x]
      /\ obs' = obs /\ Done' = Done /\ Ordered' /\ Locked'
      /\ "input" \notin Trees /\ Hls \subseteq Trees
  BY <1>1, EditCounts
<1>3. Typed'
  BY <1>1, <1>2 DEF IInv, Typed
<1>4. Cold'
  BY <1>1, <1>2 DEF IInv, Cold, Has, Absent
<1>5. turns'["index"] = turns["index"] /\ turns'["repo"] = turns["repo"] /\ \A t \in Trees : turns'[t] = turns[t]
  BY <1>2
<1>6. \A kind, arm, corpus : /\ Has(kind, arm, corpus)' = Has(kind, arm, corpus)
                             /\ Seen(kind, arm, corpus)' = Seen(kind, arm, corpus)
  BY <1>2 DEF Has, Seen
<1>7. Built'
  <2>1. \A q \in Roots : q[1] \in Trees
    BY DEF Roots, Trees
  <2> QED
    BY <1>1, <1>5, <1>6, <2>1 DEF IInv, Built, SameOK
<1>8. Frozen'
  <2>1. ASSUME NEW q \in Roots, turns["index"] = 0, Has("index", q[1], q[2]), turns["input"] = 0
        PROVE  index[q].of = Seen("proof", q[1], q[2])
    <3>1. Has("proof", q[1], q[2])
      BY <2>1, OrderedMeans DEF IInv, Ordered, Has, Trees
    <3> QED
      BY <2>1, <3>1 DEF IInv, Frozen
  <2> QED
    BY <1>1, <1>2, <1>5, <1>6, <2>1 DEF IInv, Frozen
<1>9. Bound'
  BY <1>1, <1>2, <1>5, <1>6 DEF IInv, Bound
<1> QED
  BY <1>2, <1>3, <1>4, <1>7, <1>8, <1>9 DEF IInv

\* An index that appears or goes leaves a gap in what was proved.
LEMMA EditIndexKeeps ==
    ASSUME IInv, NEW r \in Roots, EditIndex(r)
    PROVE  IInv'
<1>1. /\ Edit("index") /\ UNCHANGED <<runtime, repo, wheel, input>>
      /\ gaps' = gaps \cup {r} /\ stale' = stale \ {r}
      /\ \/ index' = [index EXCEPT ![r] = [Indexed(r) EXCEPT !.cold = FALSE]]
         \/ index' = [index EXCEPT ![r] = None]
  BY DEF EditIndex
<1>2. /\ turns' \in [Trees \cup {"repo", "wheel", "input", "index"} -> Nat]
      /\ turns'["index"] # 0
      /\ \A x \in Trees \cup {"repo", "wheel", "input", "index"} : x # "index" => turns'[x] = turns[x]
      /\ obs' = obs /\ Done' = Done /\ Ordered' /\ Locked'
      /\ "index" \notin Trees /\ Hls \subseteq Trees
  BY <1>1, EditCounts
<1>3. /\ DOMAIN index' = Roots /\ \A q \in Roots : q # r => index'[q] = index[q]
      /\ index'[r] # None => DOMAIN index'[r] = {"of", "by", "cold", "synced", "mount"}
  <2>1. DOMAIN index = Roots
    BY DEF IInv, Typed
  <2>2. DOMAIN [Indexed(r) EXCEPT !.cold = FALSE] = {"of", "by", "cold", "synced", "mount"}
    BY DEF Indexed
  <2> QED
    BY <1>1, <2>1, <2>2
<1>4. Typed'
  BY <1>1, <1>2, <1>3 DEF IInv, Typed
<1>5. \A kind, arm, corpus : /\ Has(kind, arm, corpus)' = Has(kind, arm, corpus)
                             /\ Seen(kind, arm, corpus)' = Seen(kind, arm, corpus)
  BY <1>2 DEF Has, Seen
<1>6. Cold'
  BY <1>1, <1>3, <1>5 DEF IInv, Cold, Absent
<1>7. turns'["input"] = turns["input"] /\ turns'["repo"] = turns["repo"] /\ \A t \in Trees : turns'[t] = turns[t]
  BY <1>2
<1>8. Built'
  BY <1>1, <1>2, <1>5, <1>7 DEF IInv, Built, SameOK
<1>9. Frozen'
  BY <1>1, <1>2, <1>5, <1>7 DEF IInv, Frozen
<1>10. Bound'
  BY <1>1, <1>2, <1>5, <1>7 DEF IInv, Bound
<1> QED
  BY <1>2, <1>4, <1>6, <1>8, <1>9, <1>10 DEF IInv

\* Every step of the preparation keeps the invariant.
LEMMA PrepareStep ==
    ASSUME IInv, Next
    PROVE  IInv'
  BY WorkKeeps, EndKeeps, ReinstallKeeps, SourceEditKeeps, EditInputKeeps, EditIndexKeeps DEF Next, Outside

\* Where nothing happens the invariant stays.
LEMMA PrepareStutter ==
    ASSUME IInv, UNCHANGED vars
    PROVE  IInv'
<1>1. /\ UNCHANGED <<runtime, repo, wheel, input, index, obs, stale, gaps, turns, lockfile, pc, believed>>
  BY DEF vars, world
<1>2. Believable(lockfile)' = Believable(lockfile)
  BY <1>1 DEF Believable, RuntimeFormOK, BoundaryOK, SourceOK, ProofsOK, PhasesOK, LockedInput, Of
<1>3. Locked'
  BY <1>1, <1>2 DEF IInv, Locked, Believed, Done
<1> QED
  BY <1>1, <1>3, LearnedStays DEF IInv

\* A believed lock has what every step observed.
LEMMA BelievedMeans ==
    ASSUME IInv, Believed
    PROVE  /\ Believable(lockfile) /\ Steps = Done
           /\ \A kind, arm, corpus : Of(lockfile, kind, arm, corpus) = Seen(kind, arm, corpus)
<1>1. lockfile # None /\ Believable(lockfile)
  BY DEF IInv, Locked, Believed
<1>2. Steps = Done /\ lockfile.seen = obs
  BY <1>1 DEF IInv, Locked
<1> QED
  BY <1>1, <1>2 DEF Of, Seen

\* The invariant of the preparation implies what the run checks.
LEMMA PrepareImplies ==
    ASSUME IInv
    PROVE  /\ TypeOK /\ NothingMeasuredOverStale /\ MeasuredCold
           /\ BuiltByTheLocked /\ IndexedTheLockedInput /\ BoundToSource
<1>1. TypeOK
  BY DEF IInv, Typed, Ordered, Locked, TypeOK
<1>2. NothingMeasuredOverStale
  <2>1. SUFFICES ASSUME NEW q \in stale, NEW r \in Roots, Step("index", r[1], r[2]) \in Done PROVE FALSE
    BY DEF NothingMeasuredOverStale, Measured
  <2>2. q \in Roots /\ Step("sweep", q[1], q[2]) \notin Done
    BY DEF IInv, Cold, Has
  <2> QED
    BY <2>1, <2>2, OrderedMeans DEF IInv, Ordered, Trees
<1>3. ASSUME Believed, NEW r \in Roots
      PROVE  Has("index", r[1], r[2]) /\ Has("capture", r[1], "-") /\ Has("recapture", r[1], "-")
             /\ Has("same", "-", "-") /\ Has("workspace", r[1], r[2]) /\ r[1] \in Trees
             /\ (r[1] = "v03" => Has("sync", r[1], r[2]) /\ Has("mount", r[1], r[2]))
  <2>1. r[1] \in Trees
    BY DEF Roots, Trees
  <2> QED
    BY <1>3, <2>1, BelievedMeans, StepsHave DEF Has
<1>4. MeasuredCold
  BY <1>3 DEF MeasuredCold, IInv, Cold, Absent
<1>5. BuiltByTheLocked
  <2>1. SUFFICES ASSUME Believed, NEW r \in Roots, turns["index"] = 0, turns[r[1]] <= 1
                 PROVE  index[r].by = Seen("capture", r[1], "-")
    BY BelievedMeans DEF BuiltByTheLocked
  <2>2. \/ index[r].by = Seen("capture", r[1], "-")
        \/ index[r].by = runtime[r[1]] /\ Seen("recapture", r[1], "-") = runtime[r[1]]
    BY <1>3, <2>1 DEF IInv, Built
  <2>3. Seen("recapture", r[1], "-") = Seen("capture", r[1], "-")
    BY <1>3, <2>1 DEF IInv, Built, SameOK
  <2> QED
    BY <2>2, <2>3
<1>6. IndexedTheLockedInput
  <2>1. SUFFICES ASSUME Believed, NEW r \in Roots, turns["index"] = 0, turns["input"] <= 1
                 PROVE  /\ index[r].of = LockedInput(lockfile, r) /\ LockedInput(lockfile, r) # "corpus"
                        /\ r[1] = "v03" => index[r].synced /\ index[r].mount
    BY DEF IndexedTheLockedInput
  <2>2. LockedInput(lockfile, r) = Seen("workspace", r[1], r[2]).input
    BY <2>1, BelievedMeans DEF LockedInput
  <2>3. Seen("proof", r[1], r[2]) = LockedInput(lockfile, r)
    BY <2>1, BelievedMeans DEF Believable, ProofsOK
  <2>4. \/ index[r].of = Seen("proof", r[1], r[2])
        \/ index[r].of = input[r] /\ Seen("workspace", r[1], r[2]).input = input[r]
    BY <1>3, <2>1 DEF IInv, Frozen
  <2>5. /\ Seen("workspace", r[1], r[2]).input # "corpus"
        /\ r[1] = "v03" => index[r].synced /\ index[r].mount
    BY <1>3, <2>1 DEF IInv, Frozen
  <2> QED
    BY <2>2, <2>3, <2>4, <2>5
<1>7. BoundToSource
  <2>1. SUFFICES ASSUME Believed, NEW a \in Hls
                 PROVE  /\ Seen("capture", a, "-") = lockfile.wheel[a] \/ turns[a] > 0
                        /\ lockfile.wheel[a] = Seen("revision", a, "-")
                        /\ turns["repo"] = 0 => lockfile.wheel[a] = repo[a].rev
    BY BelievedMeans DEF BoundToSource
  <2>2. a \in Trees /\ turns[a] \in Nat
    BY EvaluationAssumption DEF PrepareAssumption, Trees, IInv, Typed
  <2>3. lockfile.wheel[a] = Seen("wheel", a, "-") /\ Seen("revision", a, "-") = Seen("wheel", a, "-")
    BY <2>1, BelievedMeans DEF Believable, SourceOK
  <2>4. Has("capture", a, "-") /\ Has("wheel", a, "-") /\ Has("revision", a, "-")
    BY <2>1, <2>2, BelievedMeans, StepsHave DEF Has
  <2>5. turns[a] = 0 => Seen("capture", a, "-") = runtime[a] /\ Seen("wheel", a, "-") = runtime[a]
    BY <2>2, <2>4 DEF IInv, Built, Bound
  <2>6. turns["repo"] = 0 => Seen("revision", a, "-") = repo[a].rev
    BY <2>4 DEF IInv, Bound
  <2> QED
    BY <2>2, <2>3, <2>5, <2>6
<1> QED
  BY <1>1, <1>2, <1>4, <1>5, <1>6, <1>7

\* The invariant, where the preparation is what runs.
LockInv == part = "prepare" => IInv

\* prepare.py, execute_plan: the invariant holds in every reachable state, for any arms,
\* corpora and number of changes.
THEOREM LockInvariant == MCSpec => []LockInv
<1>1. MCInit => LockInv
  BY PrepareInit DEF MCInit, LockInv
<1>2. LockInv /\ [MCNext]_mcvars => LockInv'
  <2> SUFFICES ASSUME LockInv, [MCNext]_mcvars, part' = "prepare" PROVE IInv'
    BY DEF LockInv
  <2>1. part = "prepare" /\ (UNCHANGED vars \/ Next)
    BY DEF MCNext, mcvars, BatchParts, GatesParts
  <2> QED
    BY <2>1, PrepareStep, PrepareStutter DEF LockInv
<1> QED
  BY <1>1, <1>2, PTL DEF MCSpec

\* prepare.py and load_environment_lock: nothing is measured over a stale index, and a
\* believed lock is of indexes that started cold, of the runtime and input it pins, and of a
\* clean revision.
THEOREM LockIsAlwaysBound == MCSpec => []LockIsBound
<1>1. LockInv => LockIsBound
  BY PrepareImplies DEF LockInv, LockIsBound
<1> QED
  BY <1>1, LockInvariant, PTL

-------------------------------------------------------------------------------
(* A batch: runner.py and score.py.                                            *)

\* The plan is a sequence of cells.
LEMMA PlanMeans ==
    ASSUME NEW p \in BatchParts
    PROVE  /\ Len(CellOrder) \in Nat \ {0} /\ DOMAIN CellOrder = 1..Len(CellOrder)
           /\ \A i \in 1..Len(CellOrder) : CellOrder[i] \in Batch(p)!Cells
  BY EvaluationAssumption DEF Batch!BatchAssumption, Batch!Cells

\* A contract says of which cell, batch and lock it is.
LEMMA ContractMeans ==
    ASSUME NEW p \in BatchParts, NEW b, NEW l, NEW c
    PROVE  /\ Batch(p)!Contract(b, l, c).cell = c
           /\ Batch(p)!Contract(b, l, c).prompt = Batch(p)!Prompt(c, Batch(p)!Challenge(b, l, c))
           /\ Batch(p)!Contract(b, l, c).prompt.challenge = Batch(p)!Challenge(b, l, c)
           /\ Batch(p)!Contract(b, l, c).command.pins = l
           /\ Batch(p)!Form(Batch(p)!Contract(b, l, c))
  BY DEF Batch!Contract, Batch!Prompt, Batch!Command, Batch!Form

\* A challenge is of one batch, lock and cell.
LEMMA ChallengeMeans ==
    ASSUME NEW p \in BatchParts, NEW b, NEW l, NEW c, NEW b2, NEW l2, NEW c2,
           Batch(p)!Challenge(b, l, c) = Batch(p)!Challenge(b2, l2, c2)
    PROVE  b = b2 /\ l = l2 /\ c = c2
  BY DEF Batch!Challenge

\* build_run_set: what the run set has for a cell.
LEMMA RunSetMeans ==
    ASSUME NEW p \in BatchParts, NEW b, NEW l, NEW cells
    PROVE  /\ Batch(p)!RunSet(b, l, cells) # Batch(p)!None
           /\ DOMAIN Batch(p)!RunSet(b, l, cells) = {"batch", "lock", "cells", "canaries"}
           /\ Batch(p)!RunSet(b, l, cells).batch = b /\ Batch(p)!RunSet(b, l, cells).lock = l
           /\ DOMAIN Batch(p)!RunSet(b, l, cells).cells = cells
           /\ \A c \in cells : Batch(p)!RunSet(b, l, cells).cells[c] = Batch(p)!Contract(b, l, c)
<1>1. /\ Batch(p)!RunSet(b, l, cells).batch = b /\ Batch(p)!RunSet(b, l, cells).lock = l
      /\ Batch(p)!RunSet(b, l, cells).cells = [c \in cells |-> Batch(p)!Contract(b, l, c)]
      /\ DOMAIN Batch(p)!RunSet(b, l, cells) = {"batch", "lock", "cells", "canaries"}
  BY DEF Batch!RunSet
<1>2. "batch" \notin DOMAIN Batch(p)!None
  BY DEF Batch!None
<1> QED
  BY <1>1, <1>2

\* A run directory is there.
LEMMA DirMeans ==
    ASSUME NEW p \in BatchParts, NEW t, NEW a, NEW m
    PROVE  [trace |-> t, audit |-> a, meta |-> m] # Batch(p)!None
<1>1. "trace" \in DOMAIN [trace |-> t, audit |-> a, meta |-> m] /\ "trace" \notin DOMAIN Batch(p)!None
  BY DEF Batch!None
<1> QED
  BY <1>1

\* What is known of traces and scores does not depend on what comes after.
LEMMA ScoredStays ==
    ASSUME NEW p \in BatchParts, Batch(p)!Scored, UNCHANGED <<spc, sat, sset, snap, rows>>, archive \subseteq archive'
    PROVE  Batch(p)!Scored'
<1>1. \A c, t, credit, changes : Batch(p)!Counts(c, t, credit, changes) => Batch(p)!Counts(c, t, credit, changes)'
  BY DEF Batch!Counts
<1>2. Batch(p)!Clean' = Batch(p)!Clean
  BY DEF Batch!Clean
<1> QED
  BY <1>1, <1>2 DEF Batch!Scored, Batch!SC, Batch!Order

\* A process that was started stays in the archive.
LEMMA EarnedStays ==
    ASSUME NEW p \in BatchParts, archive \subseteq archive', NEW m, Batch(p)!Earned(m)
    PROVE  Batch(p)!Earned(m)'
  BY DEF Batch!Earned

\* So run.json stays witnessed,
LEMMA WitnessedStays ==
    ASSUME NEW p \in BatchParts, Batch(p)!Witnessed, archive \subseteq archive', dirs' = dirs
    PROVE  Batch(p)!Witnessed'
  BY EarnedStays DEF Batch!Witnessed

\* the run set stays a run set,
LEMMA FramedStays ==
    ASSUME NEW p \in BatchParts, Batch(p)!Framed, runset' = runset
    PROVE  Batch(p)!Framed'
  BY DEF Batch!Framed

\* a sandbox that was proved stays closed,
LEMMA ClosedStays ==
    ASSUME NEW p \in BatchParts, Batch(p)!Closed, sandbox' = sandbox, proved' = proved
    PROVE  Batch(p)!Closed'
  BY DEF Batch!Closed

\* and what is not written keeps its type.
LEMMA TypedStays ==
    ASSUME NEW p \in BatchParts, Batch(p)!Typed, UNCHANGED <<lock, bworld, sandbox, canary, overlay, dirs>>,
           UNCHANGED <<batches, threads, bedits>>, touched' \in Nat
    PROVE  Batch(p)!Typed'
  BY DEF Batch!Typed

\* Outside of the model process nothing is added to the traces.
LEMMA TracedStays ==
    ASSUME NEW p \in BatchParts, Batch(p)!Traced, Batch(p)!Placed, UNCHANGED <<archive, dirs, threads, batches>>,
           rpc' # "model", rpc' # "freeze", rpc # "idle"
    PROVE  Batch(p)!Traced'
  BY DEF Batch!Traced, Batch!Busy

\* A batch begins with the invariant.
LEMMA BatchInit ==
    ASSUME NEW p \in BatchParts, Batch(p)!Init
    PROVE  Batch(p)!IInv
<1> USE DEF Batch!Init
<1>1. Batch(p)!Typed
  BY DEF Batch!Typed, Batch!Versions, Batch!Declared, Batch!Targets
<1>2. Batch(p)!Placed
  BY DEF Batch!Placed, Batch!Busy, Batch!InCell
<1>3. Batch(p)!Traced
  BY DEF Batch!Traced
<1>4. Batch(p)!Watched
  BY DEF Batch!Watched
<1>5. Batch(p)!Witnessed
  BY DEF Batch!Witnessed
<1>6. Batch(p)!Framed
  BY DEF Batch!Framed
<1>7. Batch(p)!Closed
  BY DEF Batch!Closed
<1>8. Batch(p)!Scored
  BY DEF Batch!Scored, Batch!Clean
<1> QED
  BY <1>1, <1>2, <1>3, <1>4, <1>5, <1>6, <1>7, <1>8 DEF Batch!IInv

\* runner.py, main: a batch is begun in a sandbox whose canaries pass.
LEMMA BatchBegin ==
    ASSUME NEW p \in BatchParts, Batch(p)!IInv, Batch(p)!Begin
    PROVE  Batch(p)!IInv'
<1> USE DEF Batch!IInv
<1>1. /\ rpc = "idle" /\ rpc' = "freeze" /\ batches' = batches + 1 /\ proved' = TRUE /\ runset = Batch(p)!None
      /\ Batch(p)!CanariesPass
      /\ UNCHANGED <<lock, bworld, sandbox, canary, overlay, runset, dirs, archive, at, threads, touched, bedits>>
      /\ UNCHANGED <<spc, sat, sset, snap, rows>>
  BY DEF Batch!Begin, Batch!disk, Batch!Quiet, Batch!scorer
<1>2. PICK cells \in SUBSET Batch(p)!Cells :
          mem' = [batch |-> batches + 1, lock |-> lock, cells |-> [c \in cells |-> Batch(p)!None]]
  BY DEF Batch!Begin
<1>3. /\ mem'.batch = batches' /\ mem'.lock = lock /\ DOMAIN mem'.cells \subseteq Batch(p)!Cells
      /\ mem' # Batch(p)!None
  <2>1. "batch" \in DOMAIN mem' /\ "batch" \notin DOMAIN Batch(p)!None
    BY <1>2 DEF Batch!None
  <2> QED
    BY <1>1, <1>2, <2>1
<1>4. batches \in Nat /\ lock \in Batch(p)!Versions
  BY DEF Batch!Typed
<1>5. Batch(p)!Typed'
  BY <1>1, <1>4 DEF Batch!Typed
<1>6. Batch(p)!Placed'
  BY <1>1, <1>3, <1>4 DEF Batch!Placed, Batch!Busy, Batch!InCell
<1>7. Batch(p)!Traced'
  <2>1. SUFFICES ASSUME NEW t \in archive
                 PROVE  \E b \in 1..batches', l \in Batch(p)!Versions, c \in Batch(p)!Cells :
                          t.ch = Batch(p)!Challenge(b, l, c) /\ b # batches'
    BY <1>1 DEF Batch!Traced
  <2>2. PICK b \in 1..batches, l \in Batch(p)!Versions, c \in Batch(p)!Cells : t.ch = Batch(p)!Challenge(b, l, c)
    BY DEF Batch!Traced
  <2>3. b \in 1..batches' /\ b # batches'
    BY <1>1, <1>4
  <2> QED
    BY <2>2, <2>3
<1>8. Batch(p)!Watched'
  BY <1>1 DEF Batch!Watched
<1>9. Batch(p)!Witnessed' /\ Batch(p)!Framed' /\ Batch(p)!Scored'
  BY <1>1, WitnessedStays, FramedStays, ScoredStays
<1>10. Batch(p)!Closed'
  BY <1>1 DEF Batch!Closed, Batch!CanariesPass, Batch!PermissionCanaries, Batch!McpCanaries, Batch!ServerProbe,
              Batch!Contained, Batch!Permissions
<1> QED
  BY <1>5, <1>6, <1>7, <1>8, <1>9, <1>10

\* build_run_set: the contracts are derived from batch and lock.
LEMMA BatchFreeze ==
    ASSUME NEW p \in BatchParts, Batch(p)!IInv, Batch(p)!Freeze
    PROVE  Batch(p)!IInv'
<1> USE DEF Batch!IInv
<1> DEFINE cells == DOMAIN mem.cells
<1>1. /\ rpc = "freeze" /\ rpc' = "next" /\ mem' = Batch(p)!RunSet(mem.batch, mem.lock, cells)
      /\ runset' = mem' /\ at' = 1 /\ touched' = 0
      /\ overlay' = [c \in Batch(p)!Cells |-> IF c \in cells THEN {} ELSE overlay[c]]
      /\ canary' = [c \in Batch(p)!Cells |-> c \in cells \/ canary[c]]
      /\ UNCHANGED <<lock, bworld, sandbox, dirs, archive, batches, threads, proved, bedits>>
      /\ UNCHANGED <<spc, sat, sset, snap, rows>>
  BY DEF Batch!Freeze, Batch!Quiet, Batch!scorer
<1>2. mem.batch = batches /\ mem.lock \in Batch(p)!Versions /\ cells \subseteq Batch(p)!Cells
  BY <1>1 DEF Batch!Placed, Batch!Busy
<1> HIDE DEF cells
<1>3. /\ mem' # Batch(p)!None /\ DOMAIN mem' = {"batch", "lock", "cells", "canaries"}
      /\ mem'.batch = mem.batch /\ mem'.lock = mem.lock /\ DOMAIN mem'.cells = cells
      /\ \A c \in cells : mem'.cells[c] = Batch(p)!Contract(mem.batch, mem.lock, c)
  BY <1>1, RunSetMeans
<1>4. Batch(p)!Typed'
  BY <1>1 DEF Batch!Typed
<1>5. Batch(p)!Placed'
  <2>1. 1 \in 1..(Len(CellOrder) + 1)
    BY PlanMeans
  <2> QED
    BY <1>1, <1>2, <1>3, <2>1 DEF Batch!Placed, Batch!Busy, Batch!InCell
<1>6. Batch(p)!Traced'
  BY <1>1 DEF Batch!Traced, Batch!Busy
<1>7. Batch(p)!Watched'
  BY <1>1 DEF Batch!Watched
<1>8. Batch(p)!Witnessed' /\ Batch(p)!Closed' /\ Batch(p)!Scored'
  BY <1>1, WitnessedStays, ClosedStays, ScoredStays
<1>9. Batch(p)!Framed'
  BY <1>1, <1>3, ContractMeans DEF Batch!Framed
<1> QED
  BY <1>4, <1>5, <1>6, <1>7, <1>8, <1>9

\* An exception leaves the disk as it is.
LEMMA BatchAbort ==
    ASSUME NEW p \in BatchParts, Batch(p)!IInv, NEW from, Batch(p)!Abort(from)
    PROVE  Batch(p)!IInv'
<1> USE DEF Batch!IInv
<1>1. /\ rpc' = "idle" /\ mem' = Batch(p)!None /\ touched' = 0
      /\ UNCHANGED <<lock, bworld, sandbox, canary, overlay, runset, dirs, archive, batches, threads, proved, bedits>>
      /\ UNCHANGED <<spc, sat, sset, snap, rows>>
  BY DEF Batch!Abort, Batch!disk, Batch!Quiet, Batch!scorer
<1>2. Batch(p)!Typed'
  BY <1>1, TypedStays
<1>3. Batch(p)!Placed'
  BY <1>1 DEF Batch!Placed, Batch!Busy, Batch!InCell
<1>4. Batch(p)!Traced'
  BY <1>1 DEF Batch!Traced, Batch!Busy
<1>5. Batch(p)!Watched'
  BY <1>1 DEF Batch!Watched
<1>6. Batch(p)!Witnessed' /\ Batch(p)!Framed' /\ Batch(p)!Closed' /\ Batch(p)!Scored'
  BY <1>1, WitnessedStays, FramedStays, ClosedStays, ScoredStays
<1> QED
  BY <1>2, <1>3, <1>4, <1>5, <1>6

\* A cell that was not selected.
LEMMA BatchSkip ==
    ASSUME NEW p \in BatchParts, Batch(p)!IInv, Batch(p)!SkipCell
    PROVE  Batch(p)!IInv'
<1> USE DEF Batch!IInv
<1>1. /\ rpc = "next" /\ rpc' = rpc /\ at <= Len(CellOrder) /\ at' = at + 1
      /\ UNCHANGED <<lock, bworld, sandbox, canary, overlay, runset, dirs, archive, mem, batches, threads, touched,
                     proved, bedits>>
      /\ UNCHANGED <<spc, sat, sset, snap, rows>>
  BY DEF Batch!SkipCell, Batch!disk, Batch!Quiet, Batch!scorer
<1>2. Batch(p)!Typed'
  BY <1>1, TypedStays DEF Batch!Typed
<1>3. Batch(p)!Placed'
  <2>1. at \in 1..(Len(CellOrder) + 1) /\ Len(CellOrder) \in Nat
    BY <1>1, PlanMeans DEF Batch!Placed, Batch!Busy
  <2>2. at' \in 1..(Len(CellOrder) + 1)
    BY <1>1, <2>1
  <2> QED
    BY <1>1, <2>2 DEF Batch!Placed, Batch!Busy, Batch!InCell
<1>4. Batch(p)!Traced'
  BY <1>1 DEF Batch!Traced, Batch!Busy
<1>5. Batch(p)!Watched'
  BY <1>1 DEF Batch!Watched
<1>6. Batch(p)!Witnessed' /\ Batch(p)!Framed' /\ Batch(p)!Closed' /\ Batch(p)!Scored'
  BY <1>1, WitnessedStays, FramedStays, ClosedStays, ScoredStays
<1> QED
  BY <1>2, <1>3, <1>4, <1>5, <1>6

\* The checks before a cell: the world is as the lock pins it.
LEMMA BatchCheck ==
    ASSUME NEW p \in BatchParts, Batch(p)!IInv, Batch(p)!CheckCell
    PROVE  Batch(p)!IInv'
<1> USE DEF Batch!IInv
<1>1. /\ rpc = "next" /\ rpc' = "launch" /\ at <= Len(CellOrder) /\ Batch(p)!C \in DOMAIN mem.cells
      /\ Batch(p)!CellOK(Batch(p)!C) /\ touched' = 0
      /\ UNCHANGED <<lock, bworld, sandbox, canary, overlay, runset, dirs, archive, at, mem, batches, threads,
                     proved, bedits>>
      /\ UNCHANGED <<spc, sat, sset, snap, rows>>
  BY DEF Batch!CheckCell, Batch!disk, Batch!Quiet, Batch!scorer
<1>2. Batch(p)!Typed'
  BY <1>1, TypedStays
<1>3. Batch(p)!Placed'
  BY <1>1 DEF Batch!Placed, Batch!Busy, Batch!InCell, Batch!C
<1>4. Batch(p)!Traced'
  BY <1>1 DEF Batch!Traced, Batch!Busy
<1>5. Batch(p)!Watched'
  <2>1. Batch(p)!AsPrepared(bworld, mem.lock, Batch(p)!C)
    BY <1>1 DEF Batch!CellOK, Batch!AsPrepared, Batch!CheckoutOK, Batch!PayloadOK, Batch!WorkspaceOK
  <2> QED
    BY <1>1, <2>1 DEF Batch!Watched, Batch!C
<1>6. Batch(p)!Witnessed' /\ Batch(p)!Framed' /\ Batch(p)!Closed' /\ Batch(p)!Scored'
  BY <1>1, WitnessedStays, FramedStays, ClosedStays, ScoredStays
<1> QED
  BY <1>2, <1>3, <1>4, <1>5, <1>6

\* In a cell the runner has its contract and its place in the plan.
LEMMA InCellMeans ==
    ASSUME NEW p \in BatchParts, Batch(p)!Typed, Batch(p)!Placed, Batch(p)!InCell
    PROVE  /\ at \in 1..Len(CellOrder) /\ Batch(p)!C \in Batch(p)!Cells /\ Batch(p)!C \in DOMAIN mem.cells
           /\ mem.batch = batches /\ batches \in Nat /\ mem.lock \in Batch(p)!Versions
           /\ mem.cells[Batch(p)!C] = Batch(p)!Contract(batches, mem.lock, Batch(p)!C)
           /\ batches \in 1..batches
           /\ DOMAIN dirs = Batch(p)!Cells
<1>1. Batch(p)!Busy /\ rpc # "freeze"
  BY DEF Batch!InCell, Batch!Busy
<1>2. /\ at \in 1..(Len(CellOrder) + 1) /\ at <= Len(CellOrder) /\ Batch(p)!C \in DOMAIN mem.cells
      /\ mem.batch = batches /\ batches > 0 /\ mem.lock \in Batch(p)!Versions
      /\ DOMAIN mem.cells \subseteq Batch(p)!Cells
      /\ mem = Batch(p)!RunSet(mem.batch, mem.lock, DOMAIN mem.cells)
  BY <1>1 DEF Batch!Placed
<1>3. mem.cells[Batch(p)!C] = Batch(p)!Contract(mem.batch, mem.lock, Batch(p)!C)
  BY <1>2, RunSetMeans
<1>4. at \in 1..Len(CellOrder)
  BY <1>2, PlanMeans
<1>5. batches \in Nat /\ DOMAIN dirs = Batch(p)!Cells
  BY DEF Batch!Typed
<1> QED
  BY <1>2, <1>3, <1>4, <1>5

\* A process is started only in a new directory, so its challenge is new.
LEMMA BatchLaunch ==
    ASSUME NEW p \in BatchParts, Batch(p)!IInv, Batch(p)!Launch
    PROVE  Batch(p)!IInv'
<1> USE DEF Batch!IInv
<1> DEFINE new == [trace |-> Batch(p)!None, audit |-> {}, meta |-> Batch(p)!None]
<1>1. /\ rpc = "launch" /\ rpc' = "model" /\ dirs[Batch(p)!C] = Batch(p)!None /\ dirs' = [dirs EXCEPT ![Batch(p)!C] = new]
      /\ threads' = threads + 1
      /\ UNCHANGED <<lock, bworld, sandbox, canary, overlay, runset, archive, at, mem, batches, touched, proved, bedits>>
      /\ UNCHANGED <<spc, sat, sset, snap, rows>>
  BY DEF Batch!Launch, Batch!NewDir, Batch!Quiet, Batch!scorer
<1>2. /\ Batch(p)!C \in Batch(p)!Cells /\ Batch(p)!C' = Batch(p)!C /\ DOMAIN dirs = Batch(p)!Cells
      /\ threads \in Nat /\ Batch(p)!InCell
  <2>1. Batch(p)!InCell
    BY <1>1 DEF Batch!InCell
  <2> QED
    BY <1>1, <2>1, InCellMeans DEF Batch!C, Batch!Typed
<1>3. /\ new # Batch(p)!None /\ new.meta = Batch(p)!None /\ new.trace = Batch(p)!None
      /\ DOMAIN new = {"trace", "audit", "meta"}
  BY DirMeans
<1> HIDE DEF new
<1>4. /\ DOMAIN dirs' = Batch(p)!Cells /\ dirs'[Batch(p)!C] = new
      /\ \A c \in Batch(p)!Cells : c # Batch(p)!C => dirs'[c] = dirs[c]
      /\ \A c \in Batch(p)!Cells : dirs[c] # Batch(p)!None => dirs'[c] # Batch(p)!None /\ c # Batch(p)!C
  BY <1>1, <1>2
<1>5. Batch(p)!Typed'
  <2>1. \A c \in Batch(p)!Cells : overlay[c] \subseteq 1..threads'
    BY <1>1, <1>2 DEF Batch!Typed
  <2>2. \A c \in Batch(p)!Cells : dirs'[c] # Batch(p)!None => DOMAIN dirs'[c] = {"trace", "audit", "meta"}
    BY <1>3, <1>4 DEF Batch!Typed
  <2> QED
    BY <1>1, <1>2, <1>4, <2>1, <2>2 DEF Batch!Typed
<1>6. Batch(p)!Placed'
  BY <1>1, <1>2, <1>3, <1>4 DEF Batch!Placed, Batch!Busy, Batch!InCell
<1>7. Batch(p)!Traced'
  <2>1. ASSUME NEW t \in archive
        PROVE  /\ t.thread \in 1..threads' /\ t.thread # threads'
               /\ \E b \in 1..batches, l \in Batch(p)!Versions, c \in Batch(p)!Cells :
                    /\ t.ch = Batch(p)!Challenge(b, l, c)
                    /\ b = batches => dirs'[c] # Batch(p)!None /\ c # Batch(p)!C
    <3>1. t.thread \in 1..threads
      BY DEF Batch!Traced
    <3>2. PICK b \in 1..batches, l \in Batch(p)!Versions, c \in Batch(p)!Cells :
              t.ch = Batch(p)!Challenge(b, l, c) /\ (b = batches => dirs[c] # Batch(p)!None)
      BY <1>1 DEF Batch!Traced, Batch!Busy
    <3> QED
      BY <1>1, <1>2, <1>4, <3>1, <3>2
  <2>2. \A c \in Batch(p)!Cells : dirs'[c] # Batch(p)!None => dirs'[c].trace = Batch(p)!None \/ dirs'[c].trace \in archive
    BY <1>3, <1>4 DEF Batch!Traced
  <2>3. \A t \in archive : t.reads \subseteq {t.thread} /\ (t.proved => t.sees \subseteq Batch(p)!Declared)
    BY DEF Batch!Traced
  <2>4. \A t, u \in archive : t.thread = u.thread \/ t.ch = u.ch => t = u
    BY DEF Batch!Traced
  <2> HIDE DEF Batch!IInv
  <2> QED
    BY <1>1, <1>2, <2>1, <2>2, <2>3, <2>4 DEF Batch!Traced, Batch!Busy
<1>8. Batch(p)!Watched'
  BY <1>1, <1>2 DEF Batch!Watched, Batch!AsPrepared
<1>9. Batch(p)!Witnessed'
  BY <1>1, <1>3, <1>4, EarnedStays DEF Batch!Witnessed
<1>10. Batch(p)!Framed' /\ Batch(p)!Closed' /\ Batch(p)!Scored'
  BY <1>1, FramedStays, ClosedStays, ScoredStays
<1> QED
  BY <1>5, <1>6, <1>7, <1>8, <1>9, <1>10

\* The process leaves a trace of its own.
LEMMA BatchModelEnds ==
    ASSUME NEW p \in BatchParts, Batch(p)!IInv, Batch(p)!ModelEnds
    PROVE  Batch(p)!IInv'
<1> USE DEF Batch!IInv
<1>1. /\ rpc = "model" /\ rpc' = "collect"
      /\ UNCHANGED <<lock, bworld, sandbox, canary, runset, at, mem, batches, threads, touched, proved, bedits>>
      /\ UNCHANGED <<spc, sat, sset, snap, rows>>
  BY DEF Batch!ModelEnds, Batch!Quiet, Batch!scorer
<1>2. PICK answered \in BOOLEAN, sees \in {{x} : x \in Batch(p)!CanSee(ArmOf[Batch(p)!C])},
           reads, logged \in IF ArmOf[Batch(p)!C] = "v03" THEN {{}, {threads}} ELSE {{}} :
         LET t == [ch |-> mem.cells[Batch(p)!C].prompt.challenge, thread |-> threads, answered |-> answered,
                   sees |-> sees, reads |-> reads, in |-> bworld, proved |-> proved]
         IN /\ dirs' = [dirs EXCEPT ![Batch(p)!C].trace = t]
            /\ archive' = archive \cup {t}
            /\ overlay' = [overlay EXCEPT ![Batch(p)!C] = @ \cup logged]
  BY Zenon DEF Batch!ModelEnds
<1>15. (reads = {} \/ reads = {threads}) /\ (logged = {} \/ logged = {threads})
  <2>1. CASE ArmOf[Batch(p)!C] = "v03"
    BY <2>1
  <2>2. CASE ArmOf[Batch(p)!C] # "v03"
    BY <2>2
  <2> QED
    BY <2>1, <2>2
<1> DEFINE t == [ch |-> mem.cells[Batch(p)!C].prompt.challenge, thread |-> threads, answered |-> answered,
                 sees |-> sees, reads |-> reads, in |-> bworld, proved |-> proved]
<1>3. /\ at \in 1..Len(CellOrder) /\ Batch(p)!C \in Batch(p)!Cells /\ Batch(p)!C' = Batch(p)!C
      /\ Batch(p)!C \in DOMAIN mem.cells /\ mem.batch = batches /\ mem.lock \in Batch(p)!Versions
      /\ mem.cells[Batch(p)!C] = Batch(p)!Contract(batches, mem.lock, Batch(p)!C)
      /\ batches \in 1..batches /\ DOMAIN dirs = Batch(p)!Cells
      /\ threads \in Nat /\ threads > 0 /\ dirs[Batch(p)!C] # Batch(p)!None /\ dirs[Batch(p)!C].meta = Batch(p)!None
      /\ DOMAIN dirs[Batch(p)!C] = {"trace", "audit", "meta"} /\ Batch(p)!InCell
  <2>1. Batch(p)!InCell
    BY <1>1 DEF Batch!InCell
  <2>2. threads \in Nat /\ threads > 0 /\ dirs[Batch(p)!C] # Batch(p)!None /\ dirs[Batch(p)!C].meta = Batch(p)!None
    BY <1>1 DEF Batch!Typed, Batch!Placed
  <2>3. /\ at \in 1..Len(CellOrder) /\ Batch(p)!C \in Batch(p)!Cells /\ Batch(p)!C \in DOMAIN mem.cells
        /\ mem.batch = batches /\ mem.lock \in Batch(p)!Versions
        /\ mem.cells[Batch(p)!C] = Batch(p)!Contract(batches, mem.lock, Batch(p)!C)
        /\ batches \in 1..batches /\ DOMAIN dirs = Batch(p)!Cells
    BY <2>1, InCellMeans
  <2>4. Batch(p)!C' = Batch(p)!C
    BY <1>1 DEF Batch!C
  <2>5. DOMAIN dirs[Batch(p)!C] = {"trace", "audit", "meta"}
    BY <2>2, <2>3 DEF Batch!Typed
  <2> QED
    BY <2>1, <2>2, <2>3, <2>4, <2>5
<1>4. /\ t.ch = Batch(p)!Challenge(batches, mem.lock, Batch(p)!C) /\ t.thread = threads /\ t.sees = sees
      /\ t.reads = reads /\ t.in = bworld /\ t.proved = proved
  BY <1>3, ContractMeans
<1>5. archive' = archive \cup {t} /\ dirs' = [dirs EXCEPT ![Batch(p)!C] = [dirs[Batch(p)!C] EXCEPT !.trace = t]]
      /\ overlay' = [overlay EXCEPT ![Batch(p)!C] = overlay[Batch(p)!C] \cup logged]
  BY <1>2
<1> HIDE DEF t
<1>6. /\ DOMAIN dirs' = Batch(p)!Cells
      /\ \A c \in Batch(p)!Cells : c # Batch(p)!C => dirs'[c] = dirs[c]
      /\ dirs'[Batch(p)!C].trace = t /\ dirs'[Batch(p)!C].meta = Batch(p)!None
      /\ DOMAIN dirs'[Batch(p)!C] = {"trace", "audit", "meta"}
      /\ dirs'[Batch(p)!C] # Batch(p)!None
  <2>1. dirs'[Batch(p)!C] = [dirs[Batch(p)!C] EXCEPT !.trace = t]
    BY <1>3, <1>5
  <2>2. DOMAIN dirs'[Batch(p)!C] = {"trace", "audit", "meta"}
    BY <1>3, <2>1
  <2>3. "trace" \in DOMAIN dirs'[Batch(p)!C] /\ "trace" \notin DOMAIN Batch(p)!None
    BY <2>2 DEF Batch!None
  <2>4. dirs'[Batch(p)!C] # Batch(p)!None
    BY <2>3
  <2> QED
    BY <1>3, <1>5, <2>1, <2>2, <2>4
<1>7. Batch(p)!Typed'
  <2>1. DOMAIN overlay' = Batch(p)!Cells /\ \A c \in Batch(p)!Cells : overlay'[c] \subseteq 1..threads
    BY <1>15, <1>3, <1>5 DEF Batch!Typed
  <2>2. \A c \in Batch(p)!Cells : dirs'[c] # Batch(p)!None => DOMAIN dirs'[c] = {"trace", "audit", "meta"}
    BY <1>6 DEF Batch!Typed
  <2> QED
    BY <1>1, <1>6, <2>1, <2>2 DEF Batch!Typed
<1>8. Batch(p)!Placed'
  BY <1>1, <1>3, <1>6 DEF Batch!Placed, Batch!Busy, Batch!InCell
<1>9. Batch(p)!Traced'
  <2>1. t.reads \subseteq {t.thread} /\ t.thread \in 1..threads
    BY <1>15, <1>3, <1>4
  <2>2. t.proved => t.sees \subseteq Batch(p)!Declared
    <3>1. ASSUME proved PROVE sees \subseteq Batch(p)!Declared
      <4>1. sandbox["model"] = Batch(p)!Declared /\ (Batch(p)!Treated # {} => sandbox["server"] = Batch(p)!Declared)
        BY <3>1 DEF Batch!Closed
      <4>2. ArmOf[Batch(p)!C] # "native" => Batch(p)!Treated # {}
        BY <1>3 DEF Batch!Treated, Batch!Arms
      <4> QED
        BY <4>1, <4>2 DEF Batch!CanSee
    <3> QED
      BY <1>4, <3>1
  <2>3. ASSUME NEW u \in archive
        PROVE  /\ u.thread \in 1..threads /\ u.thread # threads /\ u.ch # t.ch
               /\ u.reads \subseteq {u.thread} /\ (u.proved => u.sees \subseteq Batch(p)!Declared)
               /\ \E b \in 1..batches, l \in Batch(p)!Versions, c \in Batch(p)!Cells :
                    /\ u.ch = Batch(p)!Challenge(b, l, c)
                    /\ b = batches => dirs'[c] # Batch(p)!None
    <3>1. PICK b \in 1..batches, l \in Batch(p)!Versions, c \in Batch(p)!Cells :
              /\ u.ch = Batch(p)!Challenge(b, l, c)
              /\ b = batches => dirs[c] # Batch(p)!None /\ c # Batch(p)!C
      BY <1>1 DEF Batch!Traced, Batch!Busy
    <3>2. u.ch # t.ch
      BY <1>4, <3>1, ChallengeMeans
    <3>3. /\ u.thread \in 1..threads /\ u.thread # threads
          /\ u.reads \subseteq {u.thread} /\ (u.proved => u.sees \subseteq Batch(p)!Declared)
      BY <1>1 DEF Batch!Traced
    <3> QED
      BY <1>6, <3>1, <3>2, <3>3
  <2>4. \A u, v \in archive' : u.thread = v.thread \/ u.ch = v.ch => u = v
    <3>1. \A u, v \in archive : u.thread = v.thread \/ u.ch = v.ch => u = v
      BY DEF Batch!Traced
    <3> QED
      BY <1>4, <1>5, <2>3, <3>1
  <2>5. \A c \in Batch(p)!Cells : dirs'[c] # Batch(p)!None => dirs'[c].trace = Batch(p)!None \/ dirs'[c].trace \in archive'
    BY <1>5, <1>6 DEF Batch!Traced
  <2>6. \A u \in archive' :
          /\ u.thread \in 1..threads
          /\ \E b \in 1..batches, l \in Batch(p)!Versions, c \in Batch(p)!Cells :
                    /\ u.ch = Batch(p)!Challenge(b, l, c)
                    /\ b = batches => dirs'[c] # Batch(p)!None
          /\ u.reads \subseteq {u.thread} /\ (u.proved => u.sees \subseteq Batch(p)!Declared)
    BY <1>3, <1>4, <1>5, <1>6, <2>1, <2>2, <2>3
  <2> HIDE DEF Batch!IInv
  <2> QED
    BY <1>1, <2>4, <2>5, <2>6 DEF Batch!Traced, Batch!Busy
<1>10. Batch(p)!Watched'
  <2>1. touched = 0 => Batch(p)!AsPrepared(bworld, mem.lock, Batch(p)!C)
    BY <1>1 DEF Batch!Watched
  <2> QED
    BY <1>1, <1>3, <1>4, <1>5, <2>1 DEF Batch!Watched, Batch!AsPrepared
<1>11. archive \subseteq archive'
  BY <1>5
<1>12. Batch(p)!Witnessed'
  BY <1>6, <1>11, EarnedStays DEF Batch!Witnessed
<1>13. Batch(p)!Framed' /\ Batch(p)!Closed' /\ Batch(p)!Scored'
  BY <1>1, <1>11, FramedStays, ClosedStays, ScoredStays
<1> QED
  BY <1>7, <1>8, <1>9, <1>10, <1>12, <1>13

\* The audit overlay is copied.
LEMMA BatchCollect ==
    ASSUME NEW p \in BatchParts, Batch(p)!IInv, Batch(p)!Collect
    PROVE  Batch(p)!IInv'
<1> USE DEF Batch!IInv
<1>1. /\ rpc = "collect" /\ rpc' = "verify"
      /\ UNCHANGED <<lock, bworld, sandbox, canary, overlay, runset, archive, at, mem, batches, threads, touched,
                     proved, bedits>>
      /\ UNCHANGED <<spc, sat, sset, snap, rows>>
  BY DEF Batch!Collect, Batch!Quiet, Batch!scorer
<1> DEFINE audit == IF ArmOf[Batch(p)!C] = "v03" THEN overlay[Batch(p)!C] ELSE {}
<1>2. dirs' = [dirs EXCEPT ![Batch(p)!C] = [dirs[Batch(p)!C] EXCEPT !.audit = audit]]
  BY DEF Batch!Collect
<1> HIDE DEF audit
<1>3. /\ Batch(p)!C \in Batch(p)!Cells /\ Batch(p)!C' = Batch(p)!C /\ DOMAIN dirs = Batch(p)!Cells
      /\ dirs[Batch(p)!C] # Batch(p)!None /\ dirs[Batch(p)!C].meta = Batch(p)!None
      /\ DOMAIN dirs[Batch(p)!C] = {"trace", "audit", "meta"}
  <2>1. Batch(p)!InCell
    BY <1>1 DEF Batch!InCell
  <2>2. Batch(p)!C \in Batch(p)!Cells /\ DOMAIN dirs = Batch(p)!Cells
    BY <2>1, InCellMeans
  <2>3. dirs[Batch(p)!C] # Batch(p)!None /\ dirs[Batch(p)!C].meta = Batch(p)!None
    BY <1>1 DEF Batch!Placed
  <2>4. DOMAIN dirs[Batch(p)!C] = {"trace", "audit", "meta"}
    BY <2>2, <2>3 DEF Batch!Typed
  <2>5. Batch(p)!C' = Batch(p)!C
    BY <1>1 DEF Batch!C
  <2> QED
    BY <2>2, <2>3, <2>4, <2>5
<1>4. /\ DOMAIN dirs' = Batch(p)!Cells
      /\ \A c \in Batch(p)!Cells : c # Batch(p)!C => dirs'[c] = dirs[c]
      /\ dirs'[Batch(p)!C].trace = dirs[Batch(p)!C].trace /\ dirs'[Batch(p)!C].meta = Batch(p)!None
      /\ DOMAIN dirs'[Batch(p)!C] = {"trace", "audit", "meta"}
      /\ dirs'[Batch(p)!C] # Batch(p)!None
  <2>1. dirs'[Batch(p)!C] = [dirs[Batch(p)!C] EXCEPT !.audit = audit]
    BY <1>2, <1>3
  <2>2. DOMAIN dirs'[Batch(p)!C] = {"trace", "audit", "meta"}
    BY <1>3, <2>1
  <2>3. "trace" \in DOMAIN dirs'[Batch(p)!C] /\ "trace" \notin DOMAIN Batch(p)!None
    BY <2>2 DEF Batch!None
  <2>4. dirs'[Batch(p)!C] # Batch(p)!None
    BY <2>3
  <2> QED
    BY <1>2, <1>3, <2>1, <2>2, <2>4
<1>5. Batch(p)!Typed'
  BY <1>1, <1>4 DEF Batch!Typed
<1>6. Batch(p)!Placed'
  BY <1>1, <1>3, <1>4 DEF Batch!Placed, Batch!Busy, Batch!InCell
<1>7. Batch(p)!Traced'
  BY <1>1, <1>3, <1>4 DEF Batch!Traced, Batch!Busy
<1>8. Batch(p)!Watched'
  BY <1>1, <1>3 DEF Batch!Watched
<1>9. Batch(p)!Witnessed'
  BY <1>1, <1>4, EarnedStays DEF Batch!Witnessed
<1>10. Batch(p)!Framed' /\ Batch(p)!Closed' /\ Batch(p)!Scored'
  BY <1>1, FramedStays, ClosedStays, ScoredStays
<1> QED
  BY <1>5, <1>6, <1>7, <1>8, <1>9, <1>10

\* run.json: the checks before and after the cell agree, so one change between them was seen.
LEMMA BatchVerify ==
    ASSUME NEW p \in BatchParts, Batch(p)!IInv, Batch(p)!VerifyCell
    PROVE  Batch(p)!IInv'
<1> USE DEF Batch!IInv
<1>1. /\ rpc = "verify" /\ rpc' = "next" /\ at' = at + 1 /\ touched' = 0 /\ Batch(p)!AfterOK(Batch(p)!C)
      /\ UNCHANGED <<lock, bworld, sandbox, canary, overlay, runset, archive, mem, batches, threads, proved, bedits>>
      /\ UNCHANGED <<spc, sat, sset, snap, rows>>
  BY DEF Batch!VerifyCell, Batch!Quiet, Batch!scorer
<1>12. PICK meta : meta = Batch(p)!Meta(Batch(p)!C)
  OBVIOUS
<1>2. dirs' = [dirs EXCEPT ![Batch(p)!C] = [dirs[Batch(p)!C] EXCEPT !.meta = meta]]
  BY <1>12 DEF Batch!VerifyCell
<1>3. /\ at \in 1..Len(CellOrder) /\ Batch(p)!C \in Batch(p)!Cells /\ DOMAIN dirs = Batch(p)!Cells
      /\ mem.batch = batches /\ mem.lock \in Batch(p)!Versions
      /\ mem.cells[Batch(p)!C] = Batch(p)!Contract(batches, mem.lock, Batch(p)!C)
      /\ dirs[Batch(p)!C] # Batch(p)!None /\ DOMAIN dirs[Batch(p)!C] = {"trace", "audit", "meta"}
      /\ touched \in Nat
  <2>1. Batch(p)!InCell
    BY <1>1 DEF Batch!InCell
  <2>2. /\ at \in 1..Len(CellOrder) /\ Batch(p)!C \in Batch(p)!Cells /\ DOMAIN dirs = Batch(p)!Cells
        /\ mem.batch = batches /\ mem.lock \in Batch(p)!Versions
        /\ mem.cells[Batch(p)!C] = Batch(p)!Contract(batches, mem.lock, Batch(p)!C)
    BY <2>1, InCellMeans
  <2>3. dirs[Batch(p)!C] # Batch(p)!None
    BY <1>1 DEF Batch!Placed
  <2>4. DOMAIN dirs[Batch(p)!C] = {"trace", "audit", "meta"} /\ touched \in Nat
    BY <2>2, <2>3 DEF Batch!Typed
  <2> QED
    BY <2>2, <2>3, <2>4
<1>4. Batch(p)!Earned(meta)'
  <2>1. meta.contract = Batch(p)!Contract(batches, mem.lock, Batch(p)!C) /\ meta.batch = batches /\ meta.touched = touched
    BY <1>3, <1>12 DEF Batch!Meta
  <2>2. Batch(p)!AsPrepared(bworld, mem.lock, Batch(p)!C)
    BY <1>1 DEF Batch!AfterOK, Batch!PayloadsOK, Batch!PayloadOK, Batch!WorkspaceOK, Batch!CheckoutOK, Batch!AsPrepared
  <2>3. PICK t \in archive :
            /\ t.ch = Batch(p)!Challenge(mem.batch, mem.lock, Batch(p)!C)
            /\ touched = 0 => Batch(p)!AsPrepared(t.in, mem.lock, Batch(p)!C)
            /\ touched = 1 => Batch(p)!AsPrepared(t.in, mem.lock, Batch(p)!C) \/ t.in = bworld
    BY <1>1 DEF Batch!Watched
  <2>4. touched <= 1 => Batch(p)!AsPrepared(t.in, mem.lock, Batch(p)!C)
    <3>1. touched <= 1 => touched = 0 \/ touched = 1
      BY <1>3
    <3> QED
      BY <2>2, <2>3, <3>1
  <2>5. Batch(p)!Earned(meta)
    BY <1>3, <2>1, <2>3, <2>4 DEF Batch!Earned
  <2> QED
    BY <1>1, <2>5, EarnedStays
<1>5. /\ DOMAIN dirs' = Batch(p)!Cells
      /\ \A c \in Batch(p)!Cells : c # Batch(p)!C => dirs'[c] = dirs[c]
      /\ dirs'[Batch(p)!C].trace = dirs[Batch(p)!C].trace /\ dirs'[Batch(p)!C].meta = meta
      /\ DOMAIN dirs'[Batch(p)!C] = {"trace", "audit", "meta"}
      /\ dirs'[Batch(p)!C] # Batch(p)!None
  <2>1. dirs'[Batch(p)!C] = [dirs[Batch(p)!C] EXCEPT !.meta = meta]
    BY <1>2, <1>3
  <2>2. DOMAIN dirs'[Batch(p)!C] = {"trace", "audit", "meta"}
    BY <1>3, <2>1
  <2>3. "trace" \in DOMAIN dirs'[Batch(p)!C] /\ "trace" \notin DOMAIN Batch(p)!None
    BY <2>2 DEF Batch!None
  <2>4. dirs'[Batch(p)!C] # Batch(p)!None
    BY <2>3
  <2> QED
    BY <1>2, <1>3, <2>1, <2>2, <2>4
<1>6. Batch(p)!Typed'
  BY <1>1, <1>5 DEF Batch!Typed
<1>7. Batch(p)!Placed'
  <2>1. at' \in 1..(Len(CellOrder) + 1)
    BY <1>1, <1>3, PlanMeans
  <2> QED
    BY <1>1, <2>1 DEF Batch!Placed, Batch!Busy, Batch!InCell
<1>8. Batch(p)!Traced'
  BY <1>1, <1>3, <1>5 DEF Batch!Traced, Batch!Busy
<1>9. Batch(p)!Watched'
  BY <1>1 DEF Batch!Watched
<1>10. Batch(p)!Witnessed'
  <2>1. ASSUME NEW c \in Batch(p)!Cells, dirs'[c] # Batch(p)!None, dirs'[c].meta # Batch(p)!None,
               NEW m, m = dirs'[c].meta
        PROVE  Batch(p)!Earned(m)'
    <3>1. CASE c = Batch(p)!C
      BY <1>4, <1>5, <2>1, <3>1
    <3>2. CASE c # Batch(p)!C
      BY <1>1, <1>5, <2>1, <3>2, EarnedStays DEF Batch!Witnessed
    <3> QED
      BY <3>1, <3>2
  <2> QED
    BY <2>1 DEF Batch!Witnessed
<1>11. Batch(p)!Framed' /\ Batch(p)!Closed' /\ Batch(p)!Scored'
  BY <1>1, FramedStays, ClosedStays, ScoredStays
<1> QED
  BY <1>6, <1>7, <1>8, <1>9, <1>10, <1>11

\* The scorer only reads.
LEMMA ScoringReads ==
    ASSUME NEW p \in BatchParts, Batch(p)!IInv, NEW from, Batch(p)!Score(from), Batch(p)!Scored'
    PROVE  Batch(p)!IInv'
<1> USE DEF Batch!IInv
<1>1. /\ UNCHANGED <<lock, bworld, sandbox, canary, overlay, runset, dirs, archive, rpc, at, mem, batches, threads>>
      /\ UNCHANGED <<touched, proved, bedits>>
  BY DEF Batch!Score, Batch!disk, Batch!runner
<1>2. Batch(p)!Typed'
  BY <1>1, TypedStays DEF Batch!Typed
<1>3. Batch(p)!Placed'
  BY <1>1 DEF Batch!Placed, Batch!Busy, Batch!InCell, Batch!C
<1>4. Batch(p)!Traced'
  BY <1>1 DEF Batch!Traced, Batch!Busy, Batch!C
<1>5. Batch(p)!Watched'
  BY <1>1 DEF Batch!Watched, Batch!C
<1>6. Batch(p)!Witnessed' /\ Batch(p)!Framed' /\ Batch(p)!Closed'
  BY <1>1, WitnessedStays, FramedStays, ClosedStays
<1> QED
  BY <1>2, <1>3, <1>4, <1>5, <1>6

\* A contract that is compared field by field is the one derived from the lock.
LEMMA FrozenMeans ==
    ASSUME NEW p \in BatchParts, NEW r, NEW c, Batch(p)!CellFrozen(r, c), Batch(p)!Form(r.cells[c])
    PROVE  r.cells[c] = Batch(p)!Contract(r.batch, lock, c)
<1> DEFINE k == r.cells[c]
<1>1. /\ k.cell = c /\ k.prompt = Batch(p)!Prompt(c, Batch(p)!Challenge(r.batch, lock, c))
      /\ k.command.ws = ArmOf[c] /\ k.command.pins = lock /\ k.command.permits = Batch(p)!Permissions
      /\ k.command.mcp = Batch(p)!Mcp(ArmOf[c])
  BY DEF Batch!CellFrozen, Batch!CommandOK, Batch!ServerOK
<1>2. k = [cell |-> k.cell, prompt |-> k.prompt,
           command |-> [ws |-> k.command.ws, pins |-> k.command.pins, permits |-> k.command.permits,
                        mcp |-> k.command.mcp]]
  BY DEF Batch!Form
<1> HIDE DEF k
<1>3. k = Batch(p)!Contract(r.batch, lock, c)
  BY <1>1, <1>2 DEF Batch!Contract, Batch!Command
<1> QED
  BY <1>3 DEF k

\* load_run_set: a run set that passes is the one derived from the lock.
LEMMA BatchLoad ==
    ASSUME NEW p \in BatchParts, Batch(p)!IInv, Batch(p)!Load
    PROVE  Batch(p)!IInv'
<1> USE DEF Batch!IInv
<1>1. /\ spc = "idle" /\ spc' = "read" /\ sat' = 1 /\ sset' = runset /\ snap' = snap /\ rows' = rows
      /\ Batch(p)!RunSetOK(runset) /\ Batch(p)!Score("idle") /\ archive' = archive
  BY DEF Batch!Load, Batch!Score, Batch!disk
<1>2. /\ runset # Batch(p)!None /\ runset.lock = lock /\ DOMAIN runset.cells = Batch(p)!Cells
      /\ \A c \in Batch(p)!Cells : Batch(p)!CellFrozen(runset, c)
  BY <1>1 DEF Batch!RunSetOK
<1>3. \A c \in Batch(p)!Cells : Batch(p)!Form(runset.cells[c])
  BY <1>2 DEF Batch!Framed
<1>4. \A c \in Batch(p)!Cells : runset.cells[c] = Batch(p)!Contract(runset.batch, runset.lock, c)
  BY <1>2, <1>3, FrozenMeans
<1>5. DOMAIN rows = {} /\ 1 \in 1..Len(CellOrder) /\ {CellOrder[i] : i \in 1..(1 - 1)} = {}
  BY <1>1, PlanMeans DEF Batch!Scored
<1>6. Batch(p)!Scored'
  BY <1>1, <1>2, <1>4, <1>5 DEF Batch!Scored, Batch!Clean
<1> QED
  BY <1>1, <1>6, ScoringReads

\* The scorer is at a cell of the plan.
LEMMA AtCellMeans ==
    ASSUME NEW p \in BatchParts, Batch(p)!Scored, spc \in {"read", "reread"}
    PROVE  /\ sat \in 1..Len(CellOrder) /\ Batch(p)!SC \in Batch(p)!Cells
           /\ sset.cells[Batch(p)!SC] = Batch(p)!Contract(sset.batch, sset.lock, Batch(p)!SC)
<1>1. sat \in 1..Len(CellOrder) /\ \A c \in Batch(p)!Cells : sset.cells[c] = Batch(p)!Contract(sset.batch, sset.lock, c)
  BY DEF Batch!Scored
<1>2. Batch(p)!SC \in Batch(p)!Cells
  BY <1>1, PlanMeans DEF Batch!SC, Batch!Order
<1> QED
  BY <1>1, <1>2

\* What is sound as it is read counts.
LEMMA SoundCounts ==
    ASSUME NEW p \in BatchParts, Batch(p)!IInv, NEW c \in Batch(p)!Cells, Batch(p)!Sound(dirs[c], c),
           sset.cells[c] = Batch(p)!Contract(sset.batch, sset.lock, c)
    PROVE  Batch(p)!Counts(c, dirs[c].trace, dirs[c].audit, dirs[c].meta.touched)
<1> USE DEF Batch!IInv
<1>1. PICK s : s = dirs[c]
  OBVIOUS
<1>2. /\ s # Batch(p)!None /\ s.meta # Batch(p)!None /\ s.trace # Batch(p)!None
      /\ s.meta.contract = sset.cells[c] /\ s.meta.batch = sset.batch
      /\ s.trace.ch = sset.cells[c].prompt.challenge
      /\ s.audit = s.trace.reads /\ "gold" \notin s.trace.sees
  BY <1>1 DEF Batch!Sound, Batch!MetadataOK, Batch!ChallengeOK, Batch!AuditOK, Batch!PolicyOK
<1>3. s.trace \in archive
  BY <1>1, <1>2 DEF Batch!Traced
<1>4. s.trace.ch = Batch(p)!Challenge(sset.batch, sset.lock, c)
  BY <1>2, ContractMeans
<1>5. Batch(p)!Earned(s.meta)
  BY <1>1, <1>2 DEF Batch!Witnessed
<1>6. PICK l \in Batch(p)!Versions, d \in Batch(p)!Cells, t \in archive :
          /\ s.meta.contract = Batch(p)!Contract(s.meta.batch, l, d)
          /\ t.ch = Batch(p)!Challenge(s.meta.batch, l, d)
          /\ s.meta.touched <= 1 => Batch(p)!AsPrepared(t.in, l, d)
  BY <1>5 DEF Batch!Earned
<1>7. d = c /\ l = sset.lock
  <2>1. Batch(p)!Contract(sset.batch, sset.lock, c) = Batch(p)!Contract(s.meta.batch, l, d)
    BY <1>2, <1>6
  <2>2. Batch(p)!Contract(sset.batch, sset.lock, c).cell = c /\ Batch(p)!Contract(sset.batch, sset.lock, c).command.pins = sset.lock
    BY ContractMeans
  <2>3. Batch(p)!Contract(s.meta.batch, l, d).cell = d /\ Batch(p)!Contract(s.meta.batch, l, d).command.pins = l
    BY ContractMeans
  <2> QED
    BY <2>1, <2>2, <2>3
<1>8. t = s.trace
  <2>1. t.ch = s.trace.ch
    BY <1>2, <1>4, <1>6, <1>7
  <2> QED
    BY <1>3, <1>6, <2>1 DEF Batch!Traced
<1> HIDE DEF Batch!IInv
<1> QED
  BY <1>1, <1>2, <1>3, <1>4, <1>6, <1>7, <1>8 DEF Batch!Counts

\* score_run, first half.
LEMMA BatchRead ==
    ASSUME NEW p \in BatchParts, Batch(p)!IInv, Batch(p)!Read
    PROVE  Batch(p)!IInv'
<1> USE DEF Batch!IInv
<1> DEFINE c == Batch(p)!SC
<1>1. /\ spc = "read" /\ spc' = "reread" /\ snap' = [of |-> dirs[c], sound |-> Batch(p)!Sound(dirs[c], c)]
      /\ UNCHANGED <<sat, sset, rows, archive>> /\ Batch(p)!Score("read")
  BY DEF Batch!Read, Batch!Score, Batch!disk
<1>2. c \in Batch(p)!Cells /\ sset.cells[c] = Batch(p)!Contract(sset.batch, sset.lock, c)
  BY <1>1, AtCellMeans
<1>3. c' = c
  BY <1>1 DEF Batch!SC, Batch!Order
<1>4. snap'.sound => Batch(p)!Counts(c, snap'.of.trace, snap'.of.audit, snap'.of.meta.touched)
  BY <1>1, <1>2, SoundCounts
<1>5. \A d, t, credit, changes : Batch(p)!Counts(d, t, credit, changes) => Batch(p)!Counts(d, t, credit, changes)'
  BY <1>1 DEF Batch!Counts
<1>6. Batch(p)!Clean' = Batch(p)!Clean
  BY <1>1 DEF Batch!Clean
<1>7. Batch(p)!Scored'
  BY <1>1, <1>3, <1>4, <1>5, <1>6 DEF Batch!Scored
<1> QED
  BY <1>1, <1>7, ScoringReads

\* score_run, second half: a clean row is of what was sound as it was read.
LEMMA BatchReread ==
    ASSUME NEW p \in BatchParts, Batch(p)!IInv, Batch(p)!Reread
    PROVE  Batch(p)!IInv'
<1> USE DEF Batch!IInv
<1> DEFINE c == Batch(p)!SC
<1>1. /\ spc = "reread" /\ rows' = [d \in DOMAIN rows \cup {c} |-> IF d = c THEN Batch(p)!Row(c) ELSE rows[d]]
      /\ UNCHANGED <<sset, archive>> /\ Batch(p)!Score("reread")
      /\ \/ sat = Len(CellOrder) /\ spc' = "rows" /\ sat' = 0
         \/ sat # Len(CellOrder) /\ spc' = "read" /\ sat' = sat + 1
  BY DEF Batch!Reread, Batch!Score, Batch!disk, Batch!Order
<1>2. /\ sat \in 1..Len(CellOrder) /\ c \in Batch(p)!Cells
      /\ sset.cells[c] = Batch(p)!Contract(sset.batch, sset.lock, c)
  BY <1>1, AtCellMeans
<1>3. DOMAIN rows' = {CellOrder[i] : i \in 1..sat}
  <2>1. DOMAIN rows = {CellOrder[i] : i \in 1..(sat - 1)} /\ c = CellOrder[sat]
    BY <1>1 DEF Batch!Scored, Batch!SC, Batch!Order
  <2>2. 1..sat = (1..(sat - 1)) \cup {sat}
    BY <1>2, PlanMeans
  <2> HIDE DEF c
  <2>3. DOMAIN rows' = DOMAIN rows \cup {c}
    BY <1>1
  <2> QED
    BY <2>1, <2>2, <2>3
<1>4. sat = Len(CellOrder) => DOMAIN rows' = Batch(p)!Cells
  BY <1>3, PlanMeans DEF Batch!Cells
<1>5. Batch(p)!StillSound(c) => Batch(p)!Counts(c, snap.of.trace, snap.of.audit, snap.of.meta.touched)
  BY <1>1 DEF Batch!Scored, Batch!StillSound
<1>6. ASSUME NEW d \in Batch(p)!Clean'
      PROVE  Batch(p)!Counts(d, rows[d].trace, rows[d].credit, rows[d].touched)'
  <2>1. d \in DOMAIN rows' /\ rows'[d].clean
    BY DEF Batch!Clean
  <2>2. CASE d = c
    <3>1. rows'[d] = Batch(p)!Row(c)
      BY <1>1, <2>1, <2>2
    <3>2. Batch(p)!StillSound(c)
      BY <2>1, <3>1 DEF Batch!Row
    <3>3. rows'[d].trace = snap.of.trace /\ rows'[d].credit = snap.of.audit /\ rows'[d].touched = snap.of.meta.touched
      BY <3>1, <3>2 DEF Batch!Row
    <3>4. Batch(p)!Counts(d, rows'[d].trace, rows'[d].credit, rows'[d].touched)
      BY <1>5, <2>2, <3>2, <3>3
    <3> QED
      BY <1>1, <3>4 DEF Batch!Counts
  <2>3. CASE d # c
    <3>1. d \in DOMAIN rows /\ rows'[d] = rows[d]
      BY <1>1, <2>1, <2>3
    <3>2. Batch(p)!Counts(d, rows'[d].trace, rows'[d].credit, rows'[d].touched)
      BY <2>1, <3>1 DEF Batch!Scored, Batch!Clean
    <3> QED
      BY <1>1, <3>2 DEF Batch!Counts
  <2> QED
    BY <2>2, <2>3
<1>7. spc' = "read" => sat' \in 1..Len(CellOrder) /\ sat' - 1 = sat
  BY <1>1, <1>2, PlanMeans
<1>8. DOMAIN sset.cells = Batch(p)!Cells /\ \A d \in Batch(p)!Cells : sset.cells[d] = Batch(p)!Contract(sset.batch, sset.lock, d)
  BY <1>1 DEF Batch!Scored
<1>9. Batch(p)!Scored'
  <2>1. spc' = "read" \/ (spc' = "rows" /\ sat = Len(CellOrder))
    BY <1>1
  <2> HIDE DEF Batch!IInv
  <2> QED
    BY <1>1, <1>3, <1>4, <1>6, <1>7, <1>8, <2>1 DEF Batch!Scored
<1> QED
  BY <1>1, <1>9, ScoringReads

\* The table is published, or refused.
LEMMA BatchPublish ==
    ASSUME NEW p \in BatchParts, Batch(p)!IInv, Batch(p)!Publish
    PROVE  Batch(p)!IInv'
<1> USE DEF Batch!IInv
<1>1. /\ spc = "rows" /\ spc' \in {"published", "refused"}
      /\ UNCHANGED <<sset, rows, archive>> /\ Batch(p)!Score("rows")
  BY DEF Batch!Publish, Batch!Score, Batch!disk
<1>2. \A d, t, credit, changes : Batch(p)!Counts(d, t, credit, changes) => Batch(p)!Counts(d, t, credit, changes)'
  BY <1>1 DEF Batch!Counts
<1>3. Batch(p)!Clean' = Batch(p)!Clean
  BY <1>1 DEF Batch!Clean
<1>4. Batch(p)!Scored'
  BY <1>1, <1>2, <1>3 DEF Batch!Scored
<1> QED
  BY <1>1, <1>4, ScoringReads

\* The other version is a version.
LEMMA VersionMeans ==
    ASSUME NEW p \in BatchParts, NEW v \in Batch(p)!Versions
    PROVE  3 - v \in Batch(p)!Versions
  BY DEF Batch!Versions

\* Whatever is changed outside of the world is not noticed by runner and scorer.
LEMMA EditMeans ==
    ASSUME NEW p \in BatchParts, Batch(p)!IInv, Batch(p)!Edit
    PROVE  /\ UNCHANGED <<spc, sat, sset, snap, rows, rpc, at, mem, batches, threads>>
           /\ bedits' \in Nat /\ Batch(p)!C' = Batch(p)!C /\ bedits' # bedits
<1>1. /\ UNCHANGED <<spc, sat, sset, snap, rows, rpc, at, mem, batches, threads>> /\ bedits' = bedits + 1
      /\ bedits \in Nat
  BY DEF Batch!Edit, Batch!scorer, Batch!IInv, Batch!Typed
<1> QED
  BY <1>1 DEF Batch!C

\* Where no directory and no trace moves, Placed and Traced stay.
LEMMA PlacedAndTracedStay ==
    ASSUME NEW p \in BatchParts, Batch(p)!IInv, Batch(p)!Edit, UNCHANGED <<dirs, archive>>,
           rpc = "freeze" => runset' = runset
    PROVE  Batch(p)!Placed' /\ Batch(p)!Traced'
<1>1. UNCHANGED <<rpc, at, mem, batches, threads>> /\ Batch(p)!C' = Batch(p)!C
  BY EditMeans
<1> QED
  BY <1>1 DEF Batch!IInv, Batch!Placed, Batch!Traced, Batch!Busy, Batch!InCell

\* One change of the world is counted while a cell runs.
LEMMA BatchTouch ==
    ASSUME NEW p \in BatchParts, Batch(p)!IInv, Batch(p)!Edit, Batch(p)!Touch,
           UNCHANGED <<sandbox, canary, overlay, runset, dirs, archive>>,
           lock' \in Batch(p)!Versions,
           bworld' \in [checkout : Batch(p)!Versions, runtime : [Batch(p)!Treated -> Batch(p)!Versions],
                        ws : [Batch(p)!Arms -> Batch(p)!Versions]]
    PROVE  Batch(p)!IInv'
<1> USE DEF Batch!IInv
<1>1. /\ UNCHANGED <<spc, sat, sset, snap, rows, rpc, at, mem, batches, threads>>
      /\ bedits' \in Nat /\ Batch(p)!C' = Batch(p)!C
  BY EditMeans
<1>2. proved' = proved /\ touched \in Nat /\ touched' \in Nat /\ (rpc # "idle" => touched' = touched + 1)
  BY DEF Batch!Touch, Batch!Typed
<1>3. Batch(p)!Typed'
  BY <1>1, <1>2 DEF Batch!Typed
<1>4. Batch(p)!Placed' /\ Batch(p)!Traced'
  BY PlacedAndTracedStay
<1>5. Batch(p)!Watched'
  <2>1. ASSUME rpc \in {"launch", "model"} PROVE touched' # 0
    BY <1>2, <2>1
  <2>2. ASSUME rpc \in {"collect", "verify"}
        PROVE  \E t \in archive :
                 /\ t.ch = Batch(p)!Challenge(mem.batch, mem.lock, Batch(p)!C)
                 /\ touched' # 0
                 /\ touched' = 1 => Batch(p)!AsPrepared(t.in, mem.lock, Batch(p)!C)
    <3>1. PICK t \in archive :
            /\ t.ch = Batch(p)!Challenge(mem.batch, mem.lock, Batch(p)!C)
            /\ touched = 0 => Batch(p)!AsPrepared(t.in, mem.lock, Batch(p)!C)
      BY <2>2 DEF Batch!Watched
    <3>2. touched' # 0 /\ (touched' = 1 => touched = 0)
      BY <1>2, <2>2
    <3> QED
      BY <3>1, <3>2
  <2>3. \A w, l, c : Batch(p)!AsPrepared(w, l, c) => Batch(p)!AsPrepared(w, l, c)'
    BY DEF Batch!AsPrepared
  <2> HIDE DEF Batch!IInv
  <2> QED
    BY <1>1, <2>1, <2>2, <2>3 DEF Batch!Watched
<1>6. Batch(p)!Witnessed' /\ Batch(p)!Framed' /\ Batch(p)!Closed' /\ Batch(p)!Scored'
  BY <1>1, <1>2, WitnessedStays, FramedStays, ClosedStays, ScoredStays
<1> QED
  BY <1>3, <1>4, <1>5, <1>6

\* Runtimes, workspaces, checkout and lock change.
LEMMA BatchWorld ==
    ASSUME NEW p \in BatchParts, Batch(p)!IInv,
           (\E a \in Batch(p)!Treated : Batch(p)!Upgrade(a)) \/ (\E a \in Batch(p)!Arms : Batch(p)!Rewrite(a))
             \/ Batch(p)!Checkout \/ Batch(p)!Prepare
    PROVE  Batch(p)!IInv'
<1> DEFINE World == [checkout : Batch(p)!Versions, runtime : [Batch(p)!Treated -> Batch(p)!Versions],
                     ws : [Batch(p)!Arms -> Batch(p)!Versions]]
<1>1. lock \in Batch(p)!Versions /\ bworld \in World
  BY DEF Batch!IInv, Batch!Typed
<1>2. ASSUME NEW a \in Batch(p)!Treated, Batch(p)!Upgrade(a) PROVE Batch(p)!IInv'
  <2>1. bworld' = [bworld EXCEPT !.runtime = [bworld.runtime EXCEPT ![a] = 3 - bworld.runtime[a]]]
    BY <1>2 DEF Batch!Upgrade
  <2>2. 3 - bworld.runtime[a] \in Batch(p)!Versions
    BY <1>1, VersionMeans
  <2>3. bworld' \in World
    BY <1>1, <2>1, <2>2
  <2> QED
    BY <1>1, <1>2, <2>3, BatchTouch DEF Batch!Upgrade
<1>3. ASSUME NEW a \in Batch(p)!Arms, Batch(p)!Rewrite(a) PROVE Batch(p)!IInv'
  <2>1. bworld' = [bworld EXCEPT !.ws = [bworld.ws EXCEPT ![a] = 3 - bworld.ws[a]]]
    BY <1>3 DEF Batch!Rewrite
  <2>2. 3 - bworld.ws[a] \in Batch(p)!Versions
    BY <1>1, VersionMeans
  <2>3. bworld' \in World
    BY <1>1, <2>1, <2>2
  <2> QED
    BY <1>1, <1>3, <2>3, BatchTouch DEF Batch!Rewrite
<1>4. ASSUME Batch(p)!Checkout PROVE Batch(p)!IInv'
  <2>1. bworld' = [bworld EXCEPT !.checkout = 3 - bworld.checkout]
    BY <1>4 DEF Batch!Checkout
  <2>2. 3 - bworld.checkout \in Batch(p)!Versions
    BY <1>1, VersionMeans
  <2>3. bworld' \in World
    BY <1>1, <2>1, <2>2
  <2> QED
    BY <1>1, <1>4, <2>3, BatchTouch DEF Batch!Checkout
<1>5. ASSUME Batch(p)!Prepare PROVE Batch(p)!IInv'
  <2>1. /\ lock' \in Batch(p)!Versions
        /\ bworld' = [checkout |-> lock', runtime |-> [a \in Batch(p)!Treated |-> lock'],
                      ws |-> [a \in Batch(p)!Arms |-> lock']]
    BY <1>1, <1>5, VersionMeans DEF Batch!Prepare
  <2>2. bworld' \in World
    BY <2>1
  <2> QED
    BY <1>5, <2>1, <2>2, BatchTouch DEF Batch!Prepare
<1> QED
  BY <1>2, <1>3, <1>4, <1>5

\* The sandbox is opened: no canary vouches for it any more.
LEMMA BatchLoosen ==
    ASSUME NEW p \in BatchParts, Batch(p)!IInv, Batch(p)!Loosen
    PROVE  Batch(p)!IInv'
<1> USE DEF Batch!IInv
<1>1. /\ Batch(p)!Edit /\ proved' = FALSE
      /\ UNCHANGED <<lock, bworld, canary, overlay, runset, dirs, archive, touched>>
  BY DEF Batch!Loosen
<1>2. /\ UNCHANGED <<spc, sat, sset, snap, rows, rpc, at, mem, batches, threads>>
      /\ bedits' \in Nat /\ Batch(p)!C' = Batch(p)!C
  BY <1>1, EditMeans
<1>3. sandbox' \in [{"model", "server"} -> SUBSET Batch(p)!Targets]
  BY DEF Batch!Loosen, Batch!Typed
<1>4. Batch(p)!Typed'
  BY <1>1, <1>2, <1>3 DEF Batch!Typed
<1>5. Batch(p)!Placed' /\ Batch(p)!Traced'
  BY <1>1, PlacedAndTracedStay
<1>6. Batch(p)!Watched'
  BY <1>1, <1>2 DEF Batch!Watched, Batch!AsPrepared
<1>7. Batch(p)!Closed'
  BY <1>1 DEF Batch!Closed
<1>8. Batch(p)!Witnessed' /\ Batch(p)!Framed' /\ Batch(p)!Scored'
  BY <1>1, <1>2, WitnessedStays, FramedStays, ScoredStays
<1> QED
  BY <1>4, <1>5, <1>6, <1>7, <1>8

\* A canary is spoiled.
LEMMA BatchSpoil ==
    ASSUME NEW p \in BatchParts, Batch(p)!IInv, NEW c \in Batch(p)!Cells, Batch(p)!SpoilCanary(c)
    PROVE  Batch(p)!IInv'
<1> USE DEF Batch!IInv
<1>1. /\ Batch(p)!Edit /\ canary' = [canary EXCEPT ![c] = FALSE]
      /\ UNCHANGED <<lock, bworld, sandbox, overlay, runset, dirs, archive, touched, proved>>
  BY DEF Batch!SpoilCanary
<1>2. /\ UNCHANGED <<spc, sat, sset, snap, rows, rpc, at, mem, batches, threads>>
      /\ bedits' \in Nat /\ Batch(p)!C' = Batch(p)!C
  BY <1>1, EditMeans
<1>3. canary' \in [Batch(p)!Cells -> BOOLEAN]
  BY <1>1 DEF Batch!Typed
<1>4. Batch(p)!Typed'
  BY <1>1, <1>2, <1>3 DEF Batch!Typed
<1>5. Batch(p)!Placed' /\ Batch(p)!Traced'
  BY <1>1, PlacedAndTracedStay
<1>6. Batch(p)!Watched'
  BY <1>1, <1>2 DEF Batch!Watched, Batch!AsPrepared
<1>7. Batch(p)!Witnessed' /\ Batch(p)!Framed' /\ Batch(p)!Closed' /\ Batch(p)!Scored'
  BY <1>1, <1>2, WitnessedStays, FramedStays, ClosedStays, ScoredStays
<1> QED
  BY <1>4, <1>5, <1>6, <1>7

\* A contract that is altered in one field has the form of a contract.
LEMMA AlteredMeans ==
    ASSUME NEW p \in BatchParts, NEW k, Batch(p)!Form(k), NEW j \in Batch(p)!Altered(k)
    PROVE  Batch(p)!Form(j)
<1> DEFINE command == [ws |-> k.command.ws, pins |-> k.command.pins, permits |-> k.command.permits, mcp |-> k.command.mcp]
<1>1. k = [cell |-> k.cell, prompt |-> k.prompt, command |-> command]
  BY DEF Batch!Form
<1>2. k.command = command
  BY <1>1
<1>3. \/ j = [k EXCEPT !.prompt = [@ EXCEPT !.challenge = [@ EXCEPT ![1] = 3 - @]]]
      \/ j = [k EXCEPT !.command = [@ EXCEPT !.permits = Batch(p)!Targets]]
      \/ j = [k EXCEPT !.command = [@ EXCEPT !.mcp = {}, !.ws = "native"]]
  BY Zenon DEF Batch!Altered
<1>4. CASE j = [k EXCEPT !.prompt = [@ EXCEPT !.challenge = [@ EXCEPT ![1] = 3 - @]]]
  <2>2. PICK q : j = [k EXCEPT !.prompt = q]
    BY <1>4
  <2>3. j = [cell |-> k.cell, prompt |-> q, command |-> command]
    BY <1>1, <2>2
  <2> QED
    BY <2>3 DEF Batch!Form
<1>5. CASE j = [k EXCEPT !.command = [@ EXCEPT !.permits = Batch(p)!Targets]]
  <2>1. j = [cell |-> k.cell, prompt |-> k.prompt, command |-> [command EXCEPT !.permits = Batch(p)!Targets]]
    BY <1>1, <1>2, <1>5
  <2>2. [command EXCEPT !.permits = Batch(p)!Targets] =
          [ws |-> k.command.ws, pins |-> k.command.pins, permits |-> Batch(p)!Targets, mcp |-> k.command.mcp]
    OBVIOUS
  <2> QED
    BY <2>1, <2>2 DEF Batch!Form
<1>6. CASE j = [k EXCEPT !.command = [@ EXCEPT !.mcp = {}, !.ws = "native"]]
  <2>1. j = [cell |-> k.cell, prompt |-> k.prompt, command |-> [command EXCEPT !.mcp = {}, !.ws = "native"]]
    BY <1>1, <1>2, <1>6
  <2>2. [command EXCEPT !.mcp = {}, !.ws = "native"] =
          [ws |-> "native", pins |-> k.command.pins, permits |-> k.command.permits, mcp |-> {}]
    <3>1. [command EXCEPT !.mcp = {}] =
            [ws |-> k.command.ws, pins |-> k.command.pins, permits |-> k.command.permits, mcp |-> {}]
      OBVIOUS
    <3>2. [[ws |-> k.command.ws, pins |-> k.command.pins, permits |-> k.command.permits, mcp |-> {}]
             EXCEPT !.ws = "native"] =
            [ws |-> "native", pins |-> k.command.pins, permits |-> k.command.permits, mcp |-> {}]
      OBVIOUS
    <3>3. [[command EXCEPT !.mcp = {}] EXCEPT !.ws = "native"] = [command EXCEPT !.mcp = {}, !.ws = "native"]
      OBVIOUS
    <3> QED
      BY <3>1, <3>2, <3>3
  <2> QED
    BY <2>1, <2>2 DEF Batch!Form
<1> QED
  BY <1>3, <1>4, <1>5, <1>6

\* run-set.json is altered.
LEMMA BatchReassign ==
    ASSUME NEW p \in BatchParts, Batch(p)!IInv, NEW c \in Batch(p)!Cells, Batch(p)!Reassign(c)
    PROVE  Batch(p)!IInv'
<1> USE DEF Batch!IInv
<1>1. /\ Batch(p)!Edit /\ runset # Batch(p)!None /\ c \in DOMAIN runset.cells
      /\ UNCHANGED <<lock, bworld, sandbox, canary, overlay, dirs, archive, touched, proved>>
  BY DEF Batch!Reassign
<1>2. /\ UNCHANGED <<spc, sat, sset, snap, rows, rpc, at, mem, batches, threads>>
      /\ bedits' \in Nat /\ Batch(p)!C' = Batch(p)!C
  BY <1>1, EditMeans
<1>3. /\ DOMAIN runset = {"batch", "lock", "cells", "canaries"}
      /\ \A d \in DOMAIN runset.cells : Batch(p)!Form(runset.cells[d])
  BY <1>1 DEF Batch!Framed
<1>4. Batch(p)!Framed'
  <2>1. \/ \E k \in Batch(p)!Altered(runset.cells[c]) :
             runset' = [runset EXCEPT !.cells = [runset.cells EXCEPT ![c] = k]]
        \/ \E x : runset' = [runset EXCEPT !.canaries = x]
    BY DEF Batch!Reassign
  <2>2. ASSUME NEW k \in Batch(p)!Altered(runset.cells[c]),
               runset' = [runset EXCEPT !.cells = [runset.cells EXCEPT ![c] = k]]
        PROVE  Batch(p)!Framed'
    <3>1. Batch(p)!Form(k)
      BY <1>1, <1>3, AlteredMeans
    <3>2. DOMAIN runset' = DOMAIN runset /\ runset'.cells = [runset.cells EXCEPT ![c] = k]
      BY <1>3, <2>2
    <3>3. \A d \in DOMAIN runset'.cells : Batch(p)!Form(runset'.cells[d])
      BY <1>1, <1>3, <3>1, <3>2
    <3> QED
      BY <1>3, <3>2, <3>3 DEF Batch!Framed, Batch!Form
  <2>3. ASSUME NEW x, runset' = [runset EXCEPT !.canaries = x]
        PROVE  Batch(p)!Framed'
    <3>1. DOMAIN runset' = DOMAIN runset /\ runset'.cells = runset.cells
      BY <1>3, <2>3
    <3> QED
      BY <1>3, <3>1 DEF Batch!Framed, Batch!Form
  <2> QED
    BY <2>1, <2>2, <2>3
<1>5. Batch(p)!Typed'
  BY <1>1, <1>2 DEF Batch!Typed
<1>6. rpc # "freeze"
  BY <1>1 DEF Batch!Placed
<1>7. Batch(p)!Placed' /\ Batch(p)!Traced'
  BY <1>1, <1>6, PlacedAndTracedStay
<1>8. Batch(p)!Watched'
  BY <1>1, <1>2 DEF Batch!Watched, Batch!AsPrepared
<1>9. Batch(p)!Witnessed' /\ Batch(p)!Closed' /\ Batch(p)!Scored'
  BY <1>1, <1>2, WitnessedStays, ClosedStays, ScoredStays
<1> QED
  BY <1>4, <1>5, <1>7, <1>8, <1>9

\* The directories of runs may be moved and filled with other traces, but a
\* trace is of a process and run.json of a cell.
LEMMA BatchMove ==
    ASSUME NEW p \in BatchParts, Batch(p)!IInv, Batch(p)!Edit,
           UNCHANGED <<lock, bworld, sandbox, canary, overlay, archive, touched, proved>>,
           DOMAIN dirs' = Batch(p)!Cells,
           \A c \in Batch(p)!Cells :
              dirs'[c] # Batch(p)!None =>
                /\ DOMAIN dirs'[c] = {"trace", "audit", "meta"}
                /\ dirs'[c].trace = Batch(p)!None \/ dirs'[c].trace \in archive
                /\ dirs'[c].meta = Batch(p)!None \/ Batch(p)!Earned(dirs'[c].meta),
           Batch(p)!Placed', Batch(p)!Framed',
           Batch(p)!Busy => \A c \in Batch(p)!Cells : dirs[c] # Batch(p)!None => dirs'[c] # Batch(p)!None
    PROVE  Batch(p)!IInv'
<1> USE DEF Batch!IInv
<1>1. /\ UNCHANGED <<spc, sat, sset, snap, rows, rpc, at, mem, batches, threads>>
      /\ bedits' \in Nat /\ Batch(p)!C' = Batch(p)!C
  BY EditMeans
<1>2. Batch(p)!Typed'
  BY <1>1 DEF Batch!Typed
<1>3. Batch(p)!Traced'
  BY <1>1 DEF Batch!Traced, Batch!Busy
<1>4. Batch(p)!Watched'
  BY <1>1 DEF Batch!Watched, Batch!AsPrepared
<1>5. Batch(p)!Witnessed'
  BY EarnedStays DEF Batch!Witnessed
<1>6. Batch(p)!Closed' /\ Batch(p)!Scored'
  BY <1>1, ClosedStays, ScoredStays
<1> QED
  BY <1>2, <1>3, <1>4, <1>5, <1>6

\* What is in the directories.
LEMMA DirsMean ==
    ASSUME NEW p \in BatchParts, Batch(p)!IInv, NEW c \in Batch(p)!Cells, dirs[c] # Batch(p)!None
    PROVE  /\ DOMAIN dirs[c] = {"trace", "audit", "meta"}
           /\ dirs[c].trace = Batch(p)!None \/ dirs[c].trace \in archive
           /\ dirs[c].meta = Batch(p)!None \/ Batch(p)!Earned(dirs[c].meta)
  BY DEF Batch!IInv, Batch!Typed, Batch!Traced, Batch!Witnessed

\* Between batches nobody holds a run set.
LEMMA PlacedIdle ==
    ASSUME NEW p \in BatchParts, Batch(p)!IInv, Batch(p)!Edit, rpc = "idle"
    PROVE  Batch(p)!Placed' /\ ~Batch(p)!Busy
<1>1. rpc' = "idle" /\ mem' = mem
  BY EditMeans
<1>2. mem = Batch(p)!None
  BY DEF Batch!IInv, Batch!Placed
<1> QED
  BY <1>1, <1>2 DEF Batch!Placed, Batch!Busy, Batch!InCell

\* A trace is put in the place of another.
LEMMA BatchPaste ==
    ASSUME NEW p \in BatchParts, Batch(p)!IInv, NEW c \in Batch(p)!Cells, Batch(p)!Paste(c)
    PROVE  Batch(p)!IInv'
<1>1. /\ Batch(p)!Edit /\ rpc = "idle" /\ dirs[c] # Batch(p)!None
      /\ UNCHANGED <<lock, bworld, sandbox, canary, overlay, runset, archive, touched, proved>>
  BY DEF Batch!Paste
<1>2. PICK t \in archive : dirs' = [dirs EXCEPT ![c] = [dirs[c] EXCEPT !.trace = t]]
  BY DEF Batch!Paste
<1>3. DOMAIN dirs = Batch(p)!Cells /\ Batch(p)!Framed
  BY DEF Batch!IInv, Batch!Typed
<1>4. /\ DOMAIN dirs[c] = {"trace", "audit", "meta"}
      /\ dirs[c].meta = Batch(p)!None \/ Batch(p)!Earned(dirs[c].meta)
  BY <1>1, DirsMean
<1>5. dirs'[c].trace = t /\ dirs'[c].meta = dirs[c].meta /\ DOMAIN dirs'[c] = {"trace", "audit", "meta"}
  <2>1. dirs'[c] = [dirs[c] EXCEPT !.trace = t]
    BY <1>2, <1>3
  <2> QED
    BY <1>4, <2>1
<1>6. ASSUME NEW d \in Batch(p)!Cells, dirs'[d] # Batch(p)!None
      PROVE  /\ DOMAIN dirs'[d] = {"trace", "audit", "meta"}
             /\ dirs'[d].trace = Batch(p)!None \/ dirs'[d].trace \in archive
             /\ dirs'[d].meta = Batch(p)!None \/ Batch(p)!Earned(dirs'[d].meta)
  <2>1. CASE d = c
    BY <1>4, <1>5, <2>1
  <2>2. CASE d # c
    <3>1. dirs'[d] = dirs[d]
      BY <1>2, <1>3, <2>2
    <3> QED
      BY <1>6, <3>1, DirsMean
  <2> QED
    BY <2>1, <2>2
<1>7. Batch(p)!Placed' /\ ~Batch(p)!Busy /\ Batch(p)!Framed' /\ DOMAIN dirs' = Batch(p)!Cells
  BY <1>1, <1>2, <1>3, PlacedIdle, FramedStays
<1> QED
  BY <1>1, <1>6, <1>7, BatchMove

\* Two run directories change names.
LEMMA BatchRename ==
    ASSUME NEW p \in BatchParts, Batch(p)!IInv, NEW c \in Batch(p)!Cells, NEW d \in Batch(p)!Cells, Batch(p)!Rename(c, d)
    PROVE  Batch(p)!IInv'
<1>1. /\ Batch(p)!Edit /\ rpc = "idle" /\ dirs' = [dirs EXCEPT ![c] = dirs[d], ![d] = dirs[c]]
      /\ UNCHANGED <<lock, bworld, sandbox, canary, overlay, runset, archive, touched, proved>>
  BY DEF Batch!Rename
<1>2. DOMAIN dirs = Batch(p)!Cells /\ Batch(p)!Framed
  BY DEF Batch!IInv, Batch!Typed
<1>3. DOMAIN dirs' = Batch(p)!Cells /\ \A e \in Batch(p)!Cells : \E f \in Batch(p)!Cells : dirs'[e] = dirs[f]
  BY <1>1, <1>2
<1>4. ASSUME NEW e \in Batch(p)!Cells, dirs'[e] # Batch(p)!None
      PROVE  /\ DOMAIN dirs'[e] = {"trace", "audit", "meta"}
             /\ dirs'[e].trace = Batch(p)!None \/ dirs'[e].trace \in archive
             /\ dirs'[e].meta = Batch(p)!None \/ Batch(p)!Earned(dirs'[e].meta)
  <2>1. PICK f \in Batch(p)!Cells : dirs'[e] = dirs[f]
    BY <1>3
  <2> QED
    BY <1>4, <2>1, DirsMean
<1>5. Batch(p)!Placed' /\ ~Batch(p)!Busy /\ Batch(p)!Framed'
  BY <1>1, <1>2, PlacedIdle, FramedStays
<1> QED
  BY <1>1, <1>3, <1>4, <1>5, BatchMove

\* A directory appears.
LEMMA BatchPlant ==
    ASSUME NEW p \in BatchParts, Batch(p)!IInv, NEW c \in Batch(p)!Cells, Batch(p)!Plant(c)
    PROVE  Batch(p)!IInv'
<1> DEFINE new == [trace |-> Batch(p)!None, audit |-> {}, meta |-> Batch(p)!None]
<1>1. /\ Batch(p)!Edit /\ rpc # "model" /\ dirs[c] = Batch(p)!None /\ dirs' = [dirs EXCEPT ![c] = new]
      /\ UNCHANGED <<lock, bworld, sandbox, canary, overlay, runset, archive, touched, proved>>
  BY DEF Batch!Plant
<1>2. DOMAIN dirs = Batch(p)!Cells /\ Batch(p)!Framed
  BY DEF Batch!IInv, Batch!Typed
<1>3. /\ new # Batch(p)!None /\ new.meta = Batch(p)!None /\ new.trace = Batch(p)!None
      /\ DOMAIN new = {"trace", "audit", "meta"}
  BY DirMeans
<1> HIDE DEF new
<1>4. /\ DOMAIN dirs' = Batch(p)!Cells /\ dirs'[c] = new
      /\ \A e \in Batch(p)!Cells : e # c => dirs'[e] = dirs[e]
  BY <1>1, <1>2
<1>5. ASSUME NEW e \in Batch(p)!Cells, dirs'[e] # Batch(p)!None
      PROVE  /\ DOMAIN dirs'[e] = {"trace", "audit", "meta"}
             /\ dirs'[e].trace = Batch(p)!None \/ dirs'[e].trace \in archive
             /\ dirs'[e].meta = Batch(p)!None \/ Batch(p)!Earned(dirs'[e].meta)
  <2>1. CASE e = c
    BY <1>3, <1>4, <2>1
  <2>2. CASE e # c
    BY <1>4, <1>5, <2>2, DirsMean
  <2> QED
    BY <2>1, <2>2
<1>6. \A e \in Batch(p)!Cells : dirs[e] # Batch(p)!None => dirs'[e] = dirs[e]
  BY <1>1, <1>4
<1>7. Batch(p)!Placed'
  <2>1. UNCHANGED <<rpc, at, mem, batches, threads, runset>> /\ Batch(p)!C' = Batch(p)!C
    BY <1>1, EditMeans
  <2>2. rpc \in {"model", "collect", "verify"} => Batch(p)!C \in Batch(p)!Cells
    BY InCellMeans DEF Batch!IInv, Batch!InCell
  <2> QED
    BY <1>6, <2>1, <2>2 DEF Batch!IInv, Batch!Placed, Batch!Busy, Batch!InCell
<1>8. Batch(p)!Framed'
  BY <1>1, <1>2, FramedStays
<1> QED
  BY <1>1, <1>4, <1>5, <1>6, <1>7, <1>8, BatchMove

\* The runs root is emptied.
LEMMA BatchClear ==
    ASSUME NEW p \in BatchParts, Batch(p)!IInv, Batch(p)!ClearRuns
    PROVE  Batch(p)!IInv'
<1>1. /\ Batch(p)!Edit /\ rpc = "idle" /\ runset' = Batch(p)!None
      /\ dirs' = [c \in Batch(p)!Cells |-> Batch(p)!None]
      /\ UNCHANGED <<lock, bworld, sandbox, canary, overlay, archive, touched, proved>>
  BY DEF Batch!ClearRuns
<1>2. Batch(p)!Placed' /\ ~Batch(p)!Busy
  BY <1>1, PlacedIdle
<1>3. Batch(p)!Framed'
  BY <1>1 DEF Batch!Framed
<1> QED
  BY <1>1, <1>2, <1>3, BatchMove

\* Every step of the runner keeps the invariant.
LEMMA BatchRunnerStep ==
    ASSUME NEW p \in BatchParts, Batch(p)!IInv, Batch(p)!Runner \/ Batch(p)!Kill
    PROVE  Batch(p)!IInv'
<1>1. ASSUME NEW from, Batch(p)!Abort(from) PROVE Batch(p)!IInv'
  BY <1>1, BatchAbort
<1>2. Batch(p)!Kill => \E from : Batch(p)!Abort(from)
  BY DEF Batch!Kill
<1>3. Batch(p)!FreezeFails \/ Batch(p)!CheckFails \/ Batch(p)!LaunchFails \/ Batch(p)!VerifyFails \/ Batch(p)!Finish
        => \E from : Batch(p)!Abort(from)
  BY DEF Batch!FreezeFails, Batch!CheckFails, Batch!LaunchFails, Batch!VerifyFails, Batch!Finish
<1> QED
  BY <1>1, <1>2, <1>3, BatchBegin, BatchFreeze, BatchSkip, BatchCheck, BatchLaunch, BatchModelEnds, BatchCollect,
     BatchVerify DEF Batch!Runner

\* Every step of a batch keeps it.
LEMMA BatchStep ==
    ASSUME NEW p \in BatchParts, Batch(p)!IInv, Batch(p)!Next
    PROVE  Batch(p)!IInv'
<1>1. CASE Batch(p)!Runner \/ Batch(p)!Kill
  BY <1>1, BatchRunnerStep
<1>2. CASE Batch(p)!Scorer
  BY <1>2, BatchLoad, BatchRead, BatchReread, BatchPublish DEF Batch!Scorer
<1>3. CASE Batch(p)!Outside
  BY <1>3, BatchWorld, BatchLoosen, BatchClear, BatchSpoil, BatchReassign, BatchPaste, BatchPlant, BatchRename
     DEF Batch!Outside
<1> QED
  BY <1>1, <1>2, <1>3 DEF Batch!Next

\* Where nothing happens it stays.
LEMMA BatchStutter ==
    ASSUME NEW p \in BatchParts, Batch(p)!IInv, UNCHANGED bvars
    PROVE  Batch(p)!IInv'
<1>1. /\ UNCHANGED <<lock, bworld, sandbox, canary, overlay, runset, dirs, archive, rpc, at, mem, batches, threads>>
      /\ UNCHANGED <<touched, proved, spc, sat, sset, snap, rows, bedits>>
  BY DEF bvars
<1> USE DEF Batch!IInv
<1>2. Batch(p)!Typed'
  BY <1>1, TypedStays DEF Batch!Typed
<1>3. Batch(p)!Placed'
  BY <1>1 DEF Batch!Placed, Batch!Busy, Batch!InCell, Batch!C
<1>4. Batch(p)!Traced'
  BY <1>1 DEF Batch!Traced, Batch!Busy, Batch!C
<1>5. Batch(p)!Watched'
  BY <1>1 DEF Batch!Watched, Batch!C
<1>6. Batch(p)!Witnessed' /\ Batch(p)!Framed' /\ Batch(p)!Closed' /\ Batch(p)!Scored'
  BY <1>1, WitnessedStays, FramedStays, ClosedStays, ScoredStays
<1> QED
  BY <1>2, <1>3, <1>4, <1>5, <1>6

\* It implies what the run checks of the rows.
LEMMA BatchImplies ==
    ASSUME NEW p \in BatchParts, Batch(p)!IInv
    PROVE  /\ Batch(p)!TypeOK /\ Batch(p)!RowsAnswerTheirCell /\ Batch(p)!RanAsPrepared
           /\ Batch(p)!NoLeakIsScored /\ Batch(p)!CreditIsOneToOne /\ Batch(p)!EveryCellIsAccounted
<1> USE DEF Batch!IInv
<1>1. Batch(p)!TypeOK
  <2>1. /\ lock \in Batch(p)!Versions /\ bworld.checkout \in Batch(p)!Versions
        /\ bworld.runtime \in [Batch(p)!Treated -> Batch(p)!Versions] /\ bworld.ws \in [Batch(p)!Arms -> Batch(p)!Versions]
        /\ sandbox \in [{"model", "server"} -> SUBSET Batch(p)!Targets] /\ canary \in [Batch(p)!Cells -> BOOLEAN]
        /\ \A c \in Batch(p)!Cells : overlay[c] \subseteq 1..threads
    BY DEF Batch!Typed
  <2>2. /\ rpc \in {"idle", "freeze", "next", "launch", "model", "collect", "verify"}
        /\ rpc = "idle" <=> mem = Batch(p)!None
        /\ rpc \in {"launch", "model", "collect", "verify"} => Batch(p)!C \in DOMAIN mem.cells
        /\ rpc \in {"model", "collect", "verify"} => dirs[Batch(p)!C] # Batch(p)!None /\ dirs[Batch(p)!C].meta = Batch(p)!None
    BY DEF Batch!Placed, Batch!InCell
  <2>3. /\ spc \in {"idle", "read", "reread", "rows", "published", "refused"}
        /\ spc # "idle" => DOMAIN sset.cells = Batch(p)!Cells
        /\ spc \in {"read", "reread"} => sat \in 1..Len(CellOrder) /\ DOMAIN rows = {CellOrder[i] : i \in 1..(sat - 1)}
        /\ spc \in {"rows", "published", "refused"} => DOMAIN rows = Batch(p)!Cells
    BY DEF Batch!Scored
  <2>4. spc \in {"read", "reread"} => DOMAIN rows \subseteq Batch(p)!Cells
    <3>1. SUFFICES ASSUME spc \in {"read", "reread"}, NEW c \in DOMAIN rows PROVE c \in Batch(p)!Cells
      OBVIOUS
    <3>2. PICK i \in 1..(sat - 1) : c = CellOrder[i]
      BY <2>3, <3>1
    <3>3. i \in 1..Len(CellOrder)
      BY <2>3, <3>1, PlanMeans
    <3> QED
      BY <3>2, <3>3, PlanMeans
  <2>5. spc # "idle" => DOMAIN rows \subseteq Batch(p)!Cells
    BY <2>3, <2>4
  <2> HIDE DEF Batch!IInv
  <2> QED
    BY <2>1, <2>2, <2>3, <2>5 DEF Batch!TypeOK
<1>2. \A c \in Batch(p)!Clean : Batch(p)!Counts(c, rows[c].trace, rows[c].credit, rows[c].touched)
  BY DEF Batch!Scored
<1>3. Batch(p)!RowsAnswerTheirCell
  <2>1. ASSUME NEW c \in Batch(p)!Clean, NEW d \in Batch(p)!Clean, c # d
        PROVE  rows[c].trace.thread # rows[d].trace.thread
    <3>1. /\ rows[c].trace \in archive /\ rows[c].trace.ch = Batch(p)!Challenge(sset.batch, sset.lock, c)
          /\ rows[d].trace \in archive /\ rows[d].trace.ch = Batch(p)!Challenge(sset.batch, sset.lock, d)
      BY <1>2 DEF Batch!Counts
    <3>2. rows[c].trace # rows[d].trace
      BY <2>1, <3>1, ChallengeMeans
    <3> QED
      BY <3>1, <3>2 DEF Batch!Traced
  <2> QED
    BY <1>2, <2>1 DEF Batch!RowsAnswerTheirCell, Batch!Counts
<1>4. Batch(p)!RanAsPrepared
  BY <1>2 DEF Batch!RanAsPrepared, Batch!Counts, Batch!AsPrepared
<1>5. Batch(p)!NoLeakIsScored /\ Batch(p)!CreditIsOneToOne
  <2>1. \A t \in archive : t.reads \subseteq {t.thread} /\ (t.proved => t.sees \subseteq Batch(p)!Declared)
    BY DEF Batch!Traced
  <2> QED
    BY <1>2, <2>1 DEF Batch!NoLeakIsScored, Batch!CreditIsOneToOne, Batch!Counts
<1>6. Batch(p)!EveryCellIsAccounted
  BY DEF Batch!EveryCellIsAccounted, Batch!Scored
<1> QED
  BY <1>1, <1>3, <1>4, <1>5, <1>6

\* runner.py: no step of it replaces run-set.json or a complete directory.
LEMMA BatchWritesOnce ==
    ASSUME NEW p \in BatchParts, Batch(p)!IInv, Batch(p)!Next
    PROVE  Batch(p)!EvidenceIsWriteOnce
<1> USE DEF Batch!IInv
<1>1. ASSUME UNCHANGED <<runset, dirs>> PROVE Batch(p)!EvidenceIsWriteOnce
  BY <1>1 DEF Batch!EvidenceIsWriteOnce
<1>2. ASSUME runset' = runset, NEW d, dirs' = [dirs EXCEPT ![Batch(p)!C] = d], Batch(p)!InCell,
             dirs[Batch(p)!C] # Batch(p)!None => dirs[Batch(p)!C].meta = Batch(p)!None
      PROVE  Batch(p)!EvidenceIsWriteOnce
  <2>1. DOMAIN dirs = Batch(p)!Cells
    BY DEF Batch!Typed
  <2>2. \A c \in Batch(p)!Cells : c # Batch(p)!C => dirs'[c] = dirs[c]
    BY <1>2, <2>1
  <2> QED
    BY <1>2, <2>2 DEF Batch!EvidenceIsWriteOnce
<1>3. ASSUME Batch(p)!Begin \/ (\E from : Batch(p)!Abort(from)) \/ Batch(p)!SkipCell \/ Batch(p)!CheckCell
      PROVE  UNCHANGED <<runset, dirs>>
  BY <1>3 DEF Batch!Begin, Batch!Abort, Batch!SkipCell, Batch!CheckCell, Batch!disk
<1>4. Batch(p)!Kill \/ Batch(p)!FreezeFails \/ Batch(p)!CheckFails \/ Batch(p)!LaunchFails \/ Batch(p)!VerifyFails
        \/ Batch(p)!Finish => \E from : Batch(p)!Abort(from)
  BY DEF Batch!Kill, Batch!FreezeFails, Batch!CheckFails, Batch!LaunchFails, Batch!VerifyFails, Batch!Finish
<1>5. ASSUME Batch(p)!Freeze PROVE Batch(p)!EvidenceIsWriteOnce
  <2>1. runset = Batch(p)!None /\ dirs' = dirs
    BY <1>5 DEF Batch!Freeze, Batch!Placed
  <2> QED
    BY <2>1 DEF Batch!EvidenceIsWriteOnce
<1>6. ASSUME Batch(p)!Launch PROVE Batch(p)!EvidenceIsWriteOnce
  <2>1. /\ runset' = runset /\ Batch(p)!InCell /\ dirs[Batch(p)!C] = Batch(p)!None
        /\ \E d : dirs' = [dirs EXCEPT ![Batch(p)!C] = d]
    BY <1>6 DEF Batch!Launch, Batch!NewDir, Batch!InCell
  <2> QED
    BY <1>2, <2>1
<1>7. ASSUME Batch(p)!ModelEnds \/ Batch(p)!Collect \/ Batch(p)!VerifyCell PROVE Batch(p)!EvidenceIsWriteOnce
  <2>1. rpc \in {"model", "collect", "verify"} /\ runset' = runset
    BY <1>7 DEF Batch!ModelEnds, Batch!Collect, Batch!VerifyCell
  <2>2. \E d : dirs' = [dirs EXCEPT ![Batch(p)!C] = d]
    <3>1. CASE Batch(p)!ModelEnds
      BY <3>1 DEF Batch!ModelEnds
    <3>2. CASE Batch(p)!Collect
      BY <3>2 DEF Batch!Collect
    <3>3. CASE Batch(p)!VerifyCell
      BY <3>3 DEF Batch!VerifyCell
    <3> QED
      BY <1>7, <3>1, <3>2, <3>3
  <2>3. dirs[Batch(p)!C].meta = Batch(p)!None /\ Batch(p)!InCell
    BY <2>1 DEF Batch!Placed, Batch!InCell
  <2> QED
    BY <1>2, <2>1, <2>2, <2>3
<1>8. ASSUME Batch(p)!Scorer PROVE UNCHANGED <<runset, dirs>>
  BY <1>8 DEF Batch!Scorer, Batch!Load, Batch!Read, Batch!Reread, Batch!Publish, Batch!Score, Batch!disk
<1>9. ASSUME Batch(p)!Outside PROVE Batch(p)!EvidenceIsWriteOnce
  <2>1. Batch(p)!Edit
    BY <1>9 DEF Batch!Outside, Batch!Upgrade, Batch!Rewrite, Batch!Checkout, Batch!Prepare, Batch!Loosen,
       Batch!ClearRuns, Batch!SpoilCanary, Batch!Reassign, Batch!Paste, Batch!Plant, Batch!Rename
  <2>2. bedits' # bedits
    BY <2>1, EditMeans
  <2> QED
    BY <2>2 DEF Batch!EvidenceIsWriteOnce
<1> HIDE DEF Batch!IInv
<1> QED
  BY <1>1, <1>3, <1>4, <1>5, <1>6, <1>7, <1>8, <1>9 DEF Batch!Next, Batch!Runner

\* The invariant, where a batch is what runs.
BatchInv == \A p \in BatchParts : part = p => Batch(p)!IInv

\* A step of the three stages is a step of the batch that is run, or leaves it.
LEMMA BatchMoves ==
    ASSUME NEW p \in BatchParts, part = p, [MCNext]_mcvars
    PROVE  part' = part /\ (UNCHANGED bvars \/ Batch(p)!Next)
<1>1. p # "prepare" /\ p \notin GatesParts
  BY DEF BatchParts, GatesParts
<1> QED
  BY <1>1 DEF MCNext, mcvars

\* runner.py and score.py: the invariant holds in every reachable state, for any cells,
\* arms, number of batches and number of changes.
THEOREM BatchInvariant == MCSpec => []BatchInv
<1>1. MCInit => BatchInv
  <2> SUFFICES ASSUME MCInit, NEW p \in BatchParts, part = p PROVE Batch(p)!IInv
    BY DEF BatchInv
  <2>1. Batch("batch")!Init
    BY DEF MCInit
  <2>2. Batch(p)!Init
    BY <2>1 DEF Batch!Init, Batch!Cells, Batch!Arms, Batch!Treated, Batch!None, Batch!Declared
  <2> QED
    BY <2>2, BatchInit
<1>2. BatchInv /\ [MCNext]_mcvars => BatchInv'
  <2> SUFFICES ASSUME BatchInv, [MCNext]_mcvars, NEW p \in BatchParts, part' = p PROVE Batch(p)!IInv'
    BY DEF BatchInv
  <2>1. part' = part
    BY DEF MCNext, mcvars
  <2>2. Batch(p)!IInv /\ (UNCHANGED bvars \/ Batch(p)!Next)
    BY <2>1, BatchMoves DEF BatchInv
  <2> QED
    BY <2>2, BatchStep, BatchStutter
<1> QED
  BY <1>1, <1>2, PTL DEF MCSpec

\* runner.py and score.py: a row that counts is of the process started for its cell, in the
\* environment of the lock, with no look at the gold answers and with the accesses its
\* server logged; and the evidence of a batch is never replaced.
THEOREM RowsAreAlwaysEarned == MCSpec => RowsAreEarned
<1>1. BatchInv => \A p \in BatchParts : part = p =>
        /\ Batch(p)!TypeOK /\ Batch(p)!RowsAnswerTheirCell /\ Batch(p)!RanAsPrepared
        /\ Batch(p)!NoLeakIsScored /\ Batch(p)!CreditIsOneToOne /\ Batch(p)!EveryCellIsAccounted
  BY BatchImplies DEF BatchInv
<1>2. BatchInv /\ [MCNext]_mcvars => [\A p \in BatchParts : part = p => Batch(p)!EvidenceIsWriteOnce]_mcvars
  <2> SUFFICES ASSUME BatchInv, [MCNext]_mcvars, NEW p \in BatchParts, part = p
               PROVE  Batch(p)!EvidenceIsWriteOnce
    OBVIOUS
  <2>1. Batch(p)!IInv /\ (UNCHANGED bvars \/ Batch(p)!Next)
    BY BatchMoves DEF BatchInv
  <2>2. UNCHANGED bvars => Batch(p)!EvidenceIsWriteOnce
    BY DEF bvars, Batch!EvidenceIsWriteOnce
  <2> QED
    BY <2>1, <2>2, BatchWritesOnce
<1> QED
  BY <1>1, <1>2, BatchInvariant, PTL DEF MCSpec, RowsAreEarned

-------------------------------------------------------------------------------
(* The analysis: analyze.py and static_gate.py.                                *)

\* A finite set of integers has a least member.
LEMMA FiniteHasLeast ==
    ASSUME NEW S, IsFiniteSet(S), S # {}, S \subseteq Int
    PROVE  \E x \in S : \A y \in S : x <= y
<1> DEFINE Below(x) == {y \in S : y < x}
           T == {Cardinality(Below(x)) : x \in S}
<1>1. \A x \in S : IsFiniteSet(Below(x)) /\ Cardinality(Below(x)) \in Nat
  BY FS_Subset, FS_CardinalityType
<1>2. PICK n \in T : \A m \in T : ~(<<m, n>> \in OpToRel(<, Nat))
  <2>1. T \subseteq Nat /\ T # {}
    BY <1>1
  <2> HIDE DEF T
  <2> QED
    BY <2>1, NatLessThanWellFounded, WFMin
<1>3. PICK x \in S : n = Cardinality(Below(x))
  BY <1>2
<1>4. ASSUME NEW y \in S, y < x PROVE FALSE
  <2>1. Below(y) \subseteq Below(x) /\ Below(y) # Below(x)
    <3>1. y \in Below(x) /\ y \notin Below(y)
      BY <1>4
    <3>2. \A z \in Below(y) : z \in Below(x)
      BY <1>4
    <3> QED
      BY <3>1, <3>2
  <2>2. Cardinality(Below(y)) < Cardinality(Below(x))
    BY <1>1, <2>1, FS_Subset
  <2>3. Cardinality(Below(y)) \in T
    OBVIOUS
  <2>4. <<Cardinality(Below(y)), n>> \in OpToRel(<, Nat)
    <3> HIDE DEF Below
    <3> QED
      BY <1>1, <1>3, <1>4, <2>2 DEF OpToRel
  <2> QED
    BY <1>2, <2>3, <2>4
<1> QED
  BY <1>4

\* And a greatest one.
LEMMA FiniteHasGreatest ==
    ASSUME NEW S, IsFiniteSet(S), S # {}, S \subseteq Int
    PROVE  \E x \in S : \A y \in S : x >= y
<1> DEFINE T == {-x : x \in S}
<1>1. IsFiniteSet(T)
  <2> DEFINE f == [x \in S |-> -x]
  <2>1. f \in Surjection(S, T)
    BY DEF Surjection
  <2> QED
    BY <2>1, FS_Surjection
<1>2. T # {} /\ T \subseteq Int
  <2>1. \A x \in S : -x \in Int
    OBVIOUS
  <2>2. T # {}
    OBVIOUS
  <2> QED
    BY <2>1, <2>2
<1>3. PICK x \in S : \A y \in T : -x <= y
  <2> HIDE DEF T
  <2>1. PICK t \in T : \A y \in T : t <= y
    BY <1>1, <1>2, FiniteHasLeast
  <2> QED
    BY <2>1 DEF T
<1>4. \A y \in S : -y \in T
  OBVIOUS
<1>5. \A y \in S : -x <= -y
  BY <1>3, <1>4
<1>6. \A y \in S : x >= y
  BY <1>5
<1> QED
  BY <1>6

\* What is assumed of the constants of the analysis.
LEMMA GatesOK ==
    ASSUME NEW p \in GatesParts
    PROVE  Gates(p)!GatesAssumption
  BY EvaluationAssumption

\* analyze.py, bounds over the repetitions: each is reached, and none is beyond it.
LEMMA BoundMeans ==
    ASSUME NEW p \in GatesParts, NEW f, f \in [Reps -> Int], NEW S, S = {f[r] : r \in Reps}
    PROVE  /\ \A r \in Reps : Gates(p)!Min(S) <= f[r]
           /\ \A r \in Reps : Gates(p)!Max(S) >= f[r]
           /\ Gates(p)!Min(S) \in Int /\ Gates(p)!Max(S) \in Int
<1>1. IsFiniteSet(Reps) /\ Reps # {}
  <2>1. Gates(p)!IsFiniteSet(Reps) /\ Reps # {}
    BY GatesOK DEF Gates!GatesAssumption
  <2> QED
    BY <2>1 DEF Gates!IsFiniteSet, IsFiniteSet
<1>2. IsFiniteSet(S) /\ S # {} /\ S \subseteq Int
  <2>1. f \in Surjection(Reps, S)
    BY DEF Surjection
  <2> QED
    BY <1>1, <2>1, FS_Surjection
<1>3. \E x \in S : \A y \in S : x <= y
  BY <1>2, FiniteHasLeast
<1>4. \E x \in S : \A y \in S : x >= y
  BY <1>2, FiniteHasGreatest
<1>5. Gates(p)!Min(S) \in S /\ \A y \in S : Gates(p)!Min(S) <= y
  BY <1>3 DEF Gates!Min
<1>6. Gates(p)!Max(S) \in S /\ \A y \in S : Gates(p)!Max(S) >= y
  BY <1>4 DEF Gates!Max
<1> QED
  BY <1>2, <1>5, <1>6

\* The cells of an outcome are runs, their metrics numbers.
LEMMA OutcomeMeans ==
    ASSUME NEW p \in GatesParts, NEW cells \in Outcomes[p], NEW b \in Baselines, NEW r \in Reps
    PROVE  /\ cells[<<"hlsgraph-v03", r>>] \in Gates(p)!Outcome /\ cells[<<b, r>>] \in Gates(p)!Outcome
           /\ Gates(p)!Delta(cells, b, "quality", r) = cells[<<"hlsgraph-v03", r>>].quality - cells[<<b, r>>].quality
           /\ Gates(p)!Delta(cells, b, "quality", r) \in Int
           /\ \A m \in Costs :
                /\ Gates(p)!Delta(cells, b, m, r) = cells[<<b, r>>].cost[m] - cells[<<"hlsgraph-v03", r>>].cost[m]
                /\ Gates(p)!Delta(cells, b, m, r) \in Int
<1>1. /\ cells \in [(Baselines \cup {"hlsgraph-v03"}) \X Reps -> Gates(p)!Outcome]
      /\ "quality" \notin Costs
  BY GatesOK DEF Gates!GatesAssumption
<1>2. <<"hlsgraph-v03", r>> \in (Baselines \cup {"hlsgraph-v03"}) \X Reps
  OBVIOUS
<1>3. <<b, r>> \in (Baselines \cup {"hlsgraph-v03"}) \X Reps
  OBVIOUS
<1>4. cells[<<"hlsgraph-v03", r>>] \in Gates(p)!Outcome /\ cells[<<b, r>>] \in Gates(p)!Outcome
  BY <1>1, <1>2, <1>3
<1>5. Gates(p)!Delta(cells, b, "quality", r) = cells[<<"hlsgraph-v03", r>>].quality - cells[<<b, r>>].quality
  BY DEF Gates!Delta, Gates!Candidate
<1>6. ASSUME NEW m \in Costs
      PROVE  Gates(p)!Delta(cells, b, m, r) = cells[<<b, r>>].cost[m] - cells[<<"hlsgraph-v03", r>>].cost[m]
  <2>1. m # "quality"
    BY <1>1
  <2> QED
    BY <2>1 DEF Gates!Delta, Gates!Candidate
<1>7. \A o \in Gates(p)!Outcome : o.quality \in Int /\ \A m \in Costs : o.cost[m] \in Int
  BY DEF Gates!Outcome
<1> QED
  BY <1>4, <1>5, <1>6, <1>7

\* A lower bound above a limit has every repetition above it.
LEMMA LowerMeans ==
    ASSUME NEW p \in GatesParts, NEW cells \in Outcomes[p], NEW b \in Baselines, NEW m \in Costs \cup {"quality"},
           NEW r \in Reps
    PROVE  /\ Gates(p)!CiLower(cells, b, m) \in Int
           /\ Gates(p)!CiLower(cells, b, m) <= Gates(p)!Delta(cells, b, m, r)
           /\ Gates(p)!Delta(cells, b, m, r) \in Int
<1> DEFINE f == [x \in Reps |-> Gates(p)!Delta(cells, b, m, x)]
<1>1. \A x \in Reps : Gates(p)!Delta(cells, b, m, x) \in Int
  BY OutcomeMeans
<1>2. f \in [Reps -> Int]
  BY <1>1
<1>3. {Gates(p)!Delta(cells, b, m, x) : x \in Reps} = {f[x] : x \in Reps}
  OBVIOUS
<1>4. f[r] = Gates(p)!Delta(cells, b, m, r)
  OBVIOUS
<1> HIDE DEF f
<1>5. /\ Gates(p)!Min({f[x] : x \in Reps}) \in Int
      /\ Gates(p)!Min({f[x] : x \in Reps}) <= f[r]
  BY <1>2, BoundMeans
<1> QED
  BY <1>1, <1>3, <1>4, <1>5 DEF Gates!CiLower

\* analyze.py: what an advantage that is supported says of every single repetition.
LEMMA SupportedMeans ==
    ASSUME NEW p \in GatesParts, NEW cells \in Outcomes[p], NEW cases, Gates(p)!Supported(cells, cases),
           NEW r \in Reps
    PROVE  /\ cells[<<"hlsgraph-v03", r>>].ok /\ ~cells[<<"hlsgraph-v03", r>>].fabricated
           /\ \A b \in Baselines :
                /\ cells[<<b, r>>].ok
                /\ cells[<<"hlsgraph-v03", r>>].quality >= cells[<<b, r>>].quality - Margin
                /\ b = "codegraph" => cells[<<"hlsgraph-v03", r>>].quality > cells[<<b, r>>].quality
                /\ b # "codegraph" => \E m \in Costs : cells[<<"hlsgraph-v03", r>>].cost[m] < cells[<<b, r>>].cost[m]
<1>1. /\ Gates(p)!Complete(cells) /\ ~Gates(p)!Fabricated(cells) /\ Gates(p)!QualityNoninferior(cells)
      /\ Gates(p)!CiLower(cells, "codegraph", "quality") > 0 /\ Gates(p)!Efficient(cells)
  BY DEF Gates!Supported
<1>2. cells[<<"hlsgraph-v03", r>>].ok /\ ~cells[<<"hlsgraph-v03", r>>].fabricated
  BY <1>1 DEF Gates!Complete, Gates!Fabricated, Gates!Candidate, Gates!Arms
<1>3. Margin \in Int /\ MinPositive \in Nat \ {0}
  BY GatesOK DEF Gates!GatesAssumption
<1> SUFFICES ASSUME NEW b \in Baselines
             PROVE  /\ cells[<<b, r>>].ok
                    /\ cells[<<"hlsgraph-v03", r>>].quality >= cells[<<b, r>>].quality - Margin
                    /\ b = "codegraph" => cells[<<"hlsgraph-v03", r>>].quality > cells[<<b, r>>].quality
                    /\ b # "codegraph" =>
                         \E m \in Costs : cells[<<"hlsgraph-v03", r>>].cost[m] < cells[<<b, r>>].cost[m]
  BY <1>2
<1>4. cells[<<b, r>>].ok
  BY <1>1 DEF Gates!Complete, Gates!Arms
<1> DEFINE mine == cells[<<"hlsgraph-v03", r>>]
           other == cells[<<b, r>>]
<1>5. /\ mine.quality \in Int /\ other.quality \in Int
      /\ \A m \in Costs : mine.cost[m] \in Int /\ other.cost[m] \in Int
  <2>1. mine \in Gates(p)!Outcome /\ other \in Gates(p)!Outcome
    BY OutcomeMeans
  <2> HIDE DEF mine, other
  <2> QED
    BY <2>1 DEF Gates!Outcome
<1>6. Gates(p)!Delta(cells, b, "quality", r) = mine.quality - other.quality
  BY OutcomeMeans
<1>7. \A m \in Costs : Gates(p)!Delta(cells, b, m, r) = other.cost[m] - mine.cost[m]
  BY OutcomeMeans
<1>8. /\ Gates(p)!CiLower(cells, b, "quality") \in Int
      /\ Gates(p)!CiLower(cells, b, "quality") <= Gates(p)!Delta(cells, b, "quality", r)
  BY LowerMeans
<1> HIDE DEF mine, other
<1>9. mine.quality >= other.quality - Margin
  <2>1. Gates(p)!CiLower(cells, b, "quality") >= -Margin
    BY <1>1 DEF Gates!QualityNoninferior
  <2> QED
    BY <1>3, <1>5, <1>6, <1>8, <2>1
<1>10. b = "codegraph" => mine.quality > other.quality
  BY <1>1, <1>5, <1>6, <1>8
<1>11. ASSUME b # "codegraph" PROVE \E m \in Costs : mine.cost[m] < other.cost[m]
  <2> DEFINE positive == {m \in Costs : \A c \in Baselines \ {"codegraph"} : Gates(p)!CiLower(cells, c, m) > 0}
  <2>1. Gates(p)!Cardinality(positive) >= MinPositive
    BY <1>1 DEF Gates!Efficient
  <2>2. Gates(p)!Cardinality(positive) = Cardinality(positive)
    BY Zenon DEF Gates!Cardinality, Cardinality
  <2>3. positive # {}
    BY <1>3, <2>1, <2>2, FS_EmptySet
  <2>4. PICK m \in Costs : Gates(p)!CiLower(cells, b, m) > 0
    BY <1>11, <2>3
  <2>5. /\ Gates(p)!CiLower(cells, b, m) \in Int
        /\ Gates(p)!CiLower(cells, b, m) <= Gates(p)!Delta(cells, b, m, r)
    BY LowerMeans
  <2> QED
    BY <1>5, <1>7, <2>4, <2>5
<1> QED
  BY <1>4, <1>9, <1>10, <1>11 DEF mine, other

\* The stages of the analysis, in their order.
LEMMA LaterMeans ==
    ASSUME NEW p \in GatesParts
    PROVE  /\ Gates(p)!Later(12) = {"analyze", "written"}
           /\ Gates(p)!Later(11) = {"bind", "analyze", "written"}
           /\ Gates(p)!Later(10) = {"score", "bind", "analyze", "written"}
           /\ Gates(p)!Later(7) = {"verify", "retrieve", "check", "score", "bind", "analyze", "written"}
           /\ Gates(p)!Later(6) = {"hash", "verify", "retrieve", "check", "score", "bind", "analyze", "written"}
           /\ Gates(p)!Later(5) = {"environment", "hash", "verify", "retrieve", "check", "score", "bind", "analyze",
                                   "written"}
           /\ Gates(p)!Later(4) = {"import", "environment", "hash", "verify", "retrieve", "check", "score", "bind",
                                   "analyze", "written"}
           /\ Gates(p)!Later(3) = {"read", "import", "environment", "hash", "verify", "retrieve", "check", "score",
                                   "bind", "analyze", "written"}
           /\ Gates(p)!Later(1) = {"start", "rescore", "read", "import", "environment", "hash", "verify", "retrieve",
                                   "check", "score", "bind", "analyze", "written"}
<1> DEFINE P == Gates(p)!Phases
<1>1. /\ P[1] = "start" /\ P[2] = "rescore" /\ P[3] = "read" /\ P[4] = "import" /\ P[5] = "environment"
      /\ P[6] = "hash" /\ P[7] = "verify" /\ P[8] = "retrieve" /\ P[9] = "check" /\ P[10] = "score"
      /\ P[11] = "bind" /\ P[12] = "analyze" /\ P[13] = "written" /\ Len(P) = 13
  BY DEF Gates!Phases
<1> HIDE DEF P
<1>2. \A i \in 1..13 : Gates(p)!Later(i) = {P[j] : j \in i..13}
  BY <1>1 DEF Gates!Later, P
<1>12. Gates(p)!Later(12) = {"analyze", "written"}
  <2>1. 12..13 = {12, 13}
    OBVIOUS
  <2> QED
    BY <1>1, <1>2, <2>1
<1>31. Gates(p)!Later(11) = {"bind"} \cup Gates(p)!Later(12)
  <2>1. 11..13 = {11} \cup 12..13
    OBVIOUS
  <2> QED
    BY <1>1, <1>2, <2>1
<1>30. Gates(p)!Later(10) = {"score"} \cup Gates(p)!Later(11)
  <2>1. 10..13 = {10} \cup 11..13
    OBVIOUS
  <2> QED
    BY <1>1, <1>2, <2>1
<1>29. Gates(p)!Later(9) = {"check"} \cup Gates(p)!Later(10)
  <2>1. 9..13 = {9} \cup 10..13
    OBVIOUS
  <2> QED
    BY <1>1, <1>2, <2>1
<1>28. Gates(p)!Later(8) = {"retrieve"} \cup Gates(p)!Later(9)
  <2>1. 8..13 = {8} \cup 9..13
    OBVIOUS
  <2> QED
    BY <1>1, <1>2, <2>1
<1>27. Gates(p)!Later(7) = {"verify"} \cup Gates(p)!Later(8)
  <2>1. 7..13 = {7} \cup 8..13
    OBVIOUS
  <2> QED
    BY <1>1, <1>2, <2>1
<1>26. Gates(p)!Later(6) = {"hash"} \cup Gates(p)!Later(7)
  <2>1. 6..13 = {6} \cup 7..13
    OBVIOUS
  <2> QED
    BY <1>1, <1>2, <2>1
<1>25. Gates(p)!Later(5) = {"environment"} \cup Gates(p)!Later(6)
  <2>1. 5..13 = {5} \cup 6..13
    OBVIOUS
  <2> QED
    BY <1>1, <1>2, <2>1
<1>24. Gates(p)!Later(4) = {"import"} \cup Gates(p)!Later(5)
  <2>1. 4..13 = {4} \cup 5..13
    OBVIOUS
  <2> QED
    BY <1>1, <1>2, <2>1
<1>23. Gates(p)!Later(3) = {"read"} \cup Gates(p)!Later(4)
  <2>1. 3..13 = {3} \cup 4..13
    OBVIOUS
  <2> QED
    BY <1>1, <1>2, <2>1
<1>22. Gates(p)!Later(2) = {"rescore"} \cup Gates(p)!Later(3)
  <2>1. 2..13 = {2} \cup 3..13
    OBVIOUS
  <2> QED
    BY <1>1, <1>2, <2>1
<1>21. Gates(p)!Later(1) = {"start"} \cup Gates(p)!Later(2)
  <2>1. 1..13 = {1} \cup 2..13
    OBVIOUS
  <2> QED
    BY <1>1, <1>2, <2>1
<1> QED
  BY <1>12, <1>21, <1>22, <1>23, <1>24, <1>25, <1>26, <1>27, <1>28, <1>29, <1>30, <1>31, Zenon

\* The analysis changes no artifact.
LEMMA AnalystLeaves ==
    ASSUME NEW p \in GatesParts, Gates(p)!IInv, UNCHANGED <<glock, cand, ws, raw, scores, static>>,
           UNCHANGED <<locks, gbatches, published, gedits>>
    PROVE  Gates(p)!Versioned'
  BY DEF Gates!IInv, Gates!Versioned

\* A refusal writes no report.
LEMMA RefusedIInv ==
    ASSUME NEW p \in GatesParts, Gates(p)!IInv, NEW from \in Gates(p)!Later(1) \ {"written"}, NEW bad \in BOOLEAN,
           Gates(p)!Refuse(from, bad)
    PROVE  Gates(p)!IInv'
<1> USE DEF Gates!IInv, Gates!Refuse, Gates!artifacts, Gates!local, Gates!history
<1>1. Gates(p)!Versioned'
  BY AnalystLeaves
<1>2. gpc' = "refused" /\ gpc # "written" /\ report = Gates(p)!None /\ report' = report
  BY DEF Gates!Written
<1>3. Gates(p)!Gathered'
  BY <1>2, LaterMeans DEF Gates!Gathered
<1>4. Gates(p)!Answering'
  <2>1. gat' = gat
    OBVIOUS
  <2> QED
    BY <1>2, <2>1, LaterMeans DEF Gates!Answering
<1>5. Gates(p)!Written'
  BY <1>2 DEF Gates!Written
<1> QED
  BY <1>1, <1>3, <1>4, <1>5

\* The lock is read.
LEMMA GatesLoad ==
    ASSUME NEW p \in GatesParts, Gates(p)!IInv, Gates(p)!Load
    PROVE  Gates(p)!IInv'
<1> USE DEF Gates!IInv
<1>1. gpc = "start" /\ gpc' = "rescore" /\ report' = report /\ gat' = gat
  BY DEF Gates!Load, Gates!Step
<1>2. Gates(p)!Versioned'
  BY AnalystLeaves DEF Gates!Load, Gates!artifacts, Gates!history
<1>3. Gates(p)!Gathered'
  BY <1>1, LaterMeans DEF Gates!Gathered
<1>4. Gates(p)!Answering'
  BY <1>1, LaterMeans DEF Gates!Load, Gates!Answering
<1>5. Gates(p)!Written'
  BY <1>1, LaterMeans DEF Gates!Written
<1> QED
  BY <1>2, <1>3, <1>4, <1>5

\* The static report is read.
LEMMA GatesReadStatic ==
    ASSUME NEW p \in GatesParts, Gates(p)!IInv, Gates(p)!ReadStatic
    PROVE  Gates(p)!IInv'
<1> USE DEF Gates!IInv
<1>1. gpc = "read" /\ gpc' = "import" /\ report' = report /\ gat' = gat
  BY DEF Gates!ReadStatic, Gates!Step
<1>2. Gates(p)!Versioned'
  BY AnalystLeaves DEF Gates!ReadStatic, Gates!artifacts, Gates!history
<1>3. Gates(p)!Gathered'
  <2>1. supplied' = static /\ grows' = grows /\ gbatches' = gbatches /\ published' = published
    BY DEF Gates!ReadStatic, Gates!history
  <2>2. grows \in gbatches /\ grows \in published
    BY <1>1, LaterMeans DEF Gates!Gathered
  <2>3. static \in published
    BY DEF Gates!Versioned
  <2> QED
    BY <1>1, <2>1, <2>2, <2>3, LaterMeans DEF Gates!Gathered
<1>4. Gates(p)!Answering'
  BY <1>1, LaterMeans DEF Gates!ReadStatic, Gates!Answering
<1>5. Gates(p)!Written'
  BY <1>1, LaterMeans DEF Gates!Written
<1> QED
  BY <1>2, <1>3, <1>4, <1>5

\* The candidate is imported.
LEMMA GatesImport ==
    ASSUME NEW p \in GatesParts, Gates(p)!IInv, Gates(p)!Import
    PROVE  Gates(p)!IInv'
<1> USE DEF Gates!IInv
<1>1. gpc = "import" /\ gpc' = "environment" /\ report' = report /\ gat' = gat
  BY DEF Gates!Import, Gates!Step
<1>2. Gates(p)!Versioned'
  BY AnalystLeaves DEF Gates!Import, Gates!artifacts, Gates!history
<1>3. Gates(p)!Gathered'
  <2>1. /\ ran' = cand /\ supplied' = supplied /\ grows' = grows /\ gbatches' = gbatches /\ published' = published
        /\ glock' = glock /\ cand' = cand
    BY DEF Gates!Import, Gates!history, Gates!artifacts
  <2>2. grows \in gbatches /\ grows \in published /\ supplied \in published
    BY <1>1, LaterMeans DEF Gates!Gathered
  <2>3. cand \in 1..cand /\ glock.cand <= cand
    BY DEF Gates!Versioned
  <2> QED
    BY <1>1, <2>1, <2>2, <2>3, LaterMeans DEF Gates!Gathered
<1>4. Gates(p)!Answering'
  BY <1>1, LaterMeans DEF Gates!Import, Gates!Answering
<1>5. Gates(p)!Written'
  BY <1>1, LaterMeans DEF Gates!Written
<1> QED
  BY <1>2, <1>3, <1>4, <1>5

\* The collector reads the lock.
LEMMA GatesCollectLoad ==
    ASSUME NEW p \in GatesParts, Gates(p)!IInv, Gates(p)!CollectLoad
    PROVE  Gates(p)!IInv'
<1> USE DEF Gates!IInv
<1>1. gpc = "environment" /\ gpc' = "hash" /\ report' = report /\ gat' = gat
  BY DEF Gates!CollectLoad, Gates!Step
<1>2. Gates(p)!Versioned'
  BY AnalystLeaves DEF Gates!CollectLoad, Gates!artifacts, Gates!history
<1>3. Gates(p)!Gathered'
  <2>1. /\ ran' = ran /\ supplied' = supplied /\ grows' = grows /\ gbatches' = gbatches /\ published' = published
        /\ glock' = glock /\ cand' = cand /\ cenv' = glock /\ locks' = locks
    BY DEF Gates!CollectLoad, Gates!history, Gates!artifacts
  <2>2. /\ grows \in gbatches /\ grows \in published /\ supplied \in published /\ ran \in 1..cand
        /\ grows.lock = glock.id => glock.cand <= ran
    BY <1>1, LaterMeans DEF Gates!Gathered, Gates!Current
  <2>3. glock \in locks
    BY DEF Gates!Versioned
  <2> QED
    BY <1>1, <2>1, <2>2, <2>3, LaterMeans DEF Gates!Gathered, Gates!Current
<1>4. Gates(p)!Answering'
  BY <1>1, LaterMeans DEF Gates!CollectLoad, Gates!Answering
<1>5. Gates(p)!Written'
  BY <1>1, LaterMeans DEF Gates!Written
<1> QED
  BY <1>2, <1>3, <1>4, <1>5

\* The scores are read.
LEMMA GatesScoreLoad ==
    ASSUME NEW p \in GatesParts, Gates(p)!IInv, Gates(p)!ScoreLoad
    PROVE  Gates(p)!IInv'
<1> USE DEF Gates!IInv
<1>1. gpc = "score" /\ gpc' = "bind" /\ report' = report /\ gat' = gat
  BY DEF Gates!ScoreLoad, Gates!Step
<1>2. Gates(p)!Versioned'
  BY AnalystLeaves DEF Gates!ScoreLoad, Gates!artifacts, Gates!history
<1>3. Gates(p)!Gathered'
  BY <1>1, <1>2, LaterMeans DEF Gates!ScoreLoad, Gates!Gathered, Gates!artifacts, Gates!history, Gates!Current, Gates!Versioned
<1>4. Gates(p)!Answering'
  BY <1>1, LaterMeans DEF Gates!ScoreLoad, Gates!Answering
<1>5. Gates(p)!Written'
  BY <1>1, LaterMeans DEF Gates!Written
<1> QED
  BY <1>2, <1>3, <1>4, <1>5

\* The runs are scored anew.
LEMMA GatesRescore ==
    ASSUME NEW p \in GatesParts, Gates(p)!IInv, Gates(p)!Rescore
    PROVE  Gates(p)!IInv'
<1> USE DEF Gates!IInv
<1>1. CASE Gates(p)!Refuse("rescore", ~Gates(p)!RescoreOK)
  <2>1. "rescore" \in Gates(p)!Later(1) \ {"written"}
    BY LaterMeans
  <2> QED
    BY <1>1, <2>1, RefusedIInv, Zenon
<1>2. CASE ~Gates(p)!Refuse("rescore", ~Gates(p)!RescoreOK)
  <2>1. /\ gpc = "rescore" /\ gpc' = "read" /\ report' = report /\ gat' = gat
        /\ UNCHANGED <<glock, cand, ws, raw, scores, static>> /\ UNCHANGED <<locks, gbatches, published, gedits>>
    BY <1>2 DEF Gates!Rescore, Gates!Step, Gates!artifacts, Gates!history, Gates!local
  <2>2. Gates(p)!Versioned'
    BY <2>1, AnalystLeaves
  <2>3. Gates(p)!Gathered'
    <3>1. grows' = raw /\ scores = raw
      BY <1>2 DEF Gates!Rescore, Gates!RescoreOK
    <3>2. raw \in gbatches /\ scores \in published
      BY DEF Gates!Versioned
    <3> QED
      BY <2>1, <3>1, <3>2, LaterMeans DEF Gates!Gathered
  <2>4. Gates(p)!Answering'
    BY <1>2, <2>1, LaterMeans DEF Gates!Rescore, Gates!Answering, Gates!local
  <2>5. Gates(p)!Written'
    BY <2>1, LaterMeans DEF Gates!Written
  <2> QED
    BY <2>2, <2>3, <2>4, <2>5
<1> QED
  BY <1>1, <1>2

\* The collector hashes the workspaces.
LEMMA GatesCollectHash ==
    ASSUME NEW p \in GatesParts, Gates(p)!IInv, Gates(p)!CollectHash
    PROVE  Gates(p)!IInv'
<1> USE DEF Gates!IInv
<1>1. CASE Gates(p)!Refuse("hash", cand # cenv.cand)
  <2>1. "hash" \in Gates(p)!Later(1) \ {"written"}
    BY LaterMeans
  <2> QED
    BY <1>1, <2>1, RefusedIInv, Zenon
<1>2. CASE ~Gates(p)!Refuse("hash", cand # cenv.cand)
  <2>1. /\ gpc = "hash" /\ gpc' = "verify" /\ report' = report /\ gat' = gat
        /\ UNCHANGED <<glock, cand, ws, raw, scores, static>> /\ UNCHANGED <<locks, gbatches, published, gedits>>
    BY <1>2 DEF Gates!CollectHash, Gates!Step, Gates!artifacts, Gates!history, Gates!local
  <2>2. Gates(p)!Versioned'
    BY <2>1, AnalystLeaves
  <2>3. Gates(p)!Gathered'
    <3>1. /\ payload' = [lock |-> glock.id, cand |-> cenv.cand, cases |-> << >>] /\ cand = cenv.cand
          /\ UNCHANGED <<grows, supplied, ran, cenv, senv>>
      BY <1>2 DEF Gates!CollectHash
    <3>2. /\ grows \in gbatches /\ grows \in published /\ supplied \in published /\ ran \in 1..cand /\ cenv \in locks
          /\ grows.lock = glock.id => glock.cand <= ran /\ cenv = glock
      BY <2>1, LaterMeans DEF Gates!Gathered, Gates!Current
    <3>3. /\ glock \in [id : Nat, cand : Nat, ws : Nat] /\ cenv \in [id : Nat, cand : Nat, ws : Nat] /\ cand \in Nat
      BY <3>2 DEF Gates!Versioned, Gates!LockType
    <3>4. grows.lock = glock.id => ran = glock.cand
      BY <3>1, <3>2, <3>3
    <3>5. /\ payload' \in [lock : Nat, cand : Nat, cases : Seq(Gates(p)!CaseType)]
          /\ payload'.lock = glock.id /\ payload'.cand = cenv.cand
      BY <3>1, <3>3
    <3>6. gpc' \notin Gates(p)!Later(11) /\ gpc' \notin Gates(p)!Later(12)
      BY <2>1, LaterMeans
    <3> HIDE DEF Gates!IInv
    <3> QED
      BY <2>1, <3>1, <3>2, <3>4, <3>5, <3>6 DEF Gates!Gathered, Gates!Current
  <2>4. Gates(p)!Answering'
    <3>1. payload' = [lock |-> glock.id, cand |-> cenv.cand, cases |-> << >>]
      BY <1>2 DEF Gates!CollectHash
    <3>2. Len(payload'.cases) = 0
      BY <3>1
    <3>3. gat = << >>
      BY <2>1, LaterMeans DEF Gates!Answering
    <3>4. Len(gat) = 0 /\ DOMAIN gat = {} /\ gat \in Seq(Nat)
      BY <3>3
    <3>5. Len(Cases[p]) \in Nat \ {0}
      BY GatesOK DEF Gates!GatesAssumption
    <3> QED
      BY <2>1, <3>2, <3>4, <3>5, LaterMeans DEF Gates!Answering
  <2>5. Gates(p)!Written'
    BY <2>1, LaterMeans DEF Gates!Written
  <2> QED
    BY <2>2, <2>3, <2>4, <2>5
<1> QED
  BY <1>1, <1>2

\* The report is verified against lock and candidate.
LEMMA GatesVerify ==
    ASSUME NEW p \in GatesParts, Gates(p)!IInv, Gates(p)!Verify
    PROVE  Gates(p)!IInv'
<1> USE DEF Gates!IInv
<1>1. CASE Gates(p)!Refuse("verify", ~Gates(p)!PreparedOK(cenv))
  <2>1. "verify" \in Gates(p)!Later(1) \ {"written"}
    BY LaterMeans
  <2> QED
    BY <1>1, <2>1, RefusedIInv, Zenon
<1>2. CASE ~Gates(p)!Refuse("verify", ~Gates(p)!PreparedOK(cenv))
  <2>1. /\ gpc = "verify" /\ gpc' = "retrieve" /\ report' = report /\ gat' = gat
        /\ UNCHANGED <<glock, cand, ws, raw, scores, static>> /\ UNCHANGED <<locks, gbatches, published, gedits>>
    BY <1>2 DEF Gates!Verify, Gates!Step, Gates!artifacts, Gates!history, Gates!local
  <2>2. Gates(p)!Versioned'
    BY <2>1, AnalystLeaves
  <2>3. Gates(p)!Gathered'
    <3>1. UNCHANGED <<env, grows, supplied, ran, cenv, senv, payload>>
      BY <1>2 DEF Gates!Verify, Gates!local
    <3>2. gpc' \notin Gates(p)!Later(11) /\ gpc' \notin Gates(p)!Later(12)
      BY <2>1, LaterMeans
    <3> QED
      BY <2>1, <3>1, <3>2, LaterMeans DEF Gates!Gathered, Gates!Current
  <2>4. Gates(p)!Answering'
    <3>1. payload' = payload /\ cenv' = cenv /\ ws = cenv.ws
      BY <1>2 DEF Gates!Verify, Gates!PreparedOK, Gates!local
    <3>2. ws <= ws
      BY DEF Gates!Versioned
    <3> QED
      BY <2>1, <3>1, <3>2, LaterMeans DEF Gates!Answering
  <2>5. Gates(p)!Written'
    BY <2>1, LaterMeans DEF Gates!Written
  <2> QED
    BY <2>2, <2>3, <2>4, <2>5
<1> QED
  BY <1>1, <1>2

\* The static cases are scored.
LEMMA GatesScoreStatic ==
    ASSUME NEW p \in GatesParts, Gates(p)!IInv, Gates(p)!ScoreStatic
    PROVE  Gates(p)!IInv'
<1> USE DEF Gates!IInv
<1>1. CASE Gates(p)!Refuse("bind", ~(Gates(p)!BindOK /\ supplied = Gates(p)!Recomputed))
  <2>1. "bind" \in Gates(p)!Later(1) \ {"written"}
    BY LaterMeans
  <2> QED
    BY <1>1, <2>1, RefusedIInv, Zenon
<1>2. CASE ~Gates(p)!Refuse("bind", ~(Gates(p)!BindOK /\ supplied = Gates(p)!Recomputed))
  <2>1. /\ gpc = "bind" /\ gpc' = "analyze" /\ report' = report /\ gat' = gat
        /\ UNCHANGED <<glock, cand, ws, raw, scores, static>> /\ UNCHANGED <<locks, gbatches, published, gedits>>
    BY <1>2 DEF Gates!ScoreStatic, Gates!Step, Gates!artifacts, Gates!history, Gates!local
  <2>2. Gates(p)!Versioned'
    BY <2>1, AnalystLeaves
  <2>3. Gates(p)!Gathered'
    <3>1. /\ supplied = payload /\ supplied' = supplied /\ payload' = payload /\ ran' = ran
          /\ cenv' = cenv /\ grows' = grows /\ senv' = senv
      BY <1>2 DEF Gates!ScoreStatic, Gates!Recomputed, Gates!local
    <3> QED
      BY <2>1, <3>1, LaterMeans DEF Gates!Gathered, Gates!Current
  <2>4. Gates(p)!Answering'
    BY <1>2, <2>1, LaterMeans DEF Gates!ScoreStatic, Gates!Answering, Gates!local
  <2>5. Gates(p)!Written'
    BY <2>1, LaterMeans DEF Gates!Written
  <2> QED
    BY <2>2, <2>3, <2>4, <2>5
<1> QED
  BY <1>1, <1>2

\* A static case is answered.
LEMMA GatesRetrieve ==
    ASSUME NEW p \in GatesParts, Gates(p)!IInv, Gates(p)!Retrieve
    PROVE  Gates(p)!IInv'
<1> USE DEF Gates!IInv
<1> DEFINE case == [ws |-> cenv.ws, out |-> Answers[p][ran]]
<1>1. /\ gpc = "retrieve" /\ gpc' = "check" /\ report' = report /\ gat' = Append(gat, ws)
      /\ payload' = [payload EXCEPT !.cases = Append(@, case)]
      /\ UNCHANGED <<glock, cand, ws, raw, scores, static>> /\ UNCHANGED <<locks, gbatches, published, gedits>>
      /\ UNCHANGED <<env, grows, supplied, ran, cenv, senv>>
  BY DEF Gates!Retrieve, Gates!Step, Gates!artifacts, Gates!history
<1>2. Gates(p)!Versioned'
  BY <1>1, AnalystLeaves
<1>3. /\ payload \in [lock : Nat, cand : Nat, cases : Seq(Gates(p)!CaseType)] /\ payload.cand = cenv.cand
      /\ ran \in 1..cand /\ cenv \in locks
      /\ grows.lock = glock.id => payload.lock = glock.id /\ ran = glock.cand
  <2>1. gpc \in Gates(p)!Later(5) /\ gpc \in Gates(p)!Later(6) /\ gpc \in Gates(p)!Later(7)
    BY <1>1, LaterMeans
  <2>2. Gates(p)!Gathered
    OBVIOUS
  <2> HIDE DEF Gates!IInv
  <2> QED
    BY <2>1, <2>2 DEF Gates!Gathered, Gates!Current
<1>4. case \in Gates(p)!CaseType
  <2>1. cenv.ws \in Nat
    BY <1>3 DEF Gates!Versioned, Gates!LockType
  <2>2. ran \in 1..Len(Answers[p])
    <3>1. Len(Answers[p]) \in Nat /\ Edits[p] \in Nat
      BY GatesOK DEF Gates!GatesAssumption
    <3>2. gedits \in 0..Edits[p] /\ cand \in Nat /\ cand <= Len(Answers[p]) - Edits[p] + gedits
      BY DEF Gates!Versioned
    <3> QED
      BY <1>3, <3>1, <3>2
  <2> QED
    BY <2>1, <2>2 DEF Gates!CaseType
<1> HIDE DEF case
<1>5. /\ payload' \in [lock : Nat, cand : Nat, cases : Seq(Gates(p)!CaseType)]
      /\ payload'.lock = payload.lock /\ payload'.cand = payload.cand
      /\ Len(payload'.cases) = Len(payload.cases) + 1
  <2>1. payload.cases \in Seq(Gates(p)!CaseType)
    BY <1>3
  <2>2. /\ Append(payload.cases, case) \in Seq(Gates(p)!CaseType)
        /\ Len(Append(payload.cases, case)) = Len(payload.cases) + 1
    BY <1>4, <2>1
  <2>3. payload' = [payload EXCEPT !.cases = Append(payload.cases, case)]
    BY <1>1
  <2> HIDE DEF Gates!IInv
  <2> QED
    BY <1>3, <2>2, <2>3
<1>6. Gates(p)!Gathered'
  <2>1. gpc' \in Gates(p)!Later(3) /\ gpc' \notin Gates(p)!Later(11) /\ gpc' \notin Gates(p)!Later(12)
    BY <1>1, LaterMeans
  <2>2. grows \in gbatches /\ grows \in published /\ supplied \in published
    BY <1>1, LaterMeans DEF Gates!Gathered
  <2>3. (Gates(p)!Current => glock.cand <= ran /\ cenv = glock)
    BY <1>1, LaterMeans DEF Gates!Gathered
  <2> HIDE DEF Gates!IInv
  <2> QED
    BY <1>1, <1>3, <1>5, <2>1, <2>2, <2>3 DEF Gates!Gathered, Gates!Current
<1>7. Gates(p)!Answering'
  <2>1. /\ gat \in Seq(Nat) /\ Len(gat) < Len(Cases[p]) /\ cenv.ws <= ws /\ Len(payload.cases) = Len(gat)
        /\ \A i \in DOMAIN gat : gat[i] = cenv.ws
    BY <1>1, LaterMeans DEF Gates!Answering
  <2>2. ws \in Nat /\ Len(Cases[p]) \in Nat
    BY GatesOK DEF Gates!Versioned, Gates!GatesAssumption
  <2>3. /\ gat' \in Seq(Nat) /\ Len(gat') = Len(gat) + 1 /\ gat'[Len(gat')] = ws /\ Len(gat) \in Nat
        /\ \A i \in DOMAIN gat' : gat'[i] = cenv.ws \/ i = Len(gat')
    BY <1>1, <2>1, <2>2
  <2>4. Len(payload'.cases) = Len(gat')
    BY <1>5, <2>1, <2>3
  <2>5. Len(gat') <= Len(Cases[p]) /\ Len(gat') > 0
    BY <2>1, <2>2, <2>3
  <2>6. gpc' = "check" /\ gpc' \notin Gates(p)!Later(10) /\ gpc' \in Gates(p)!Later(7)
    BY <1>1, LaterMeans
  <2>7. cenv' = cenv /\ ws' = ws /\ ws <= ws
    BY <1>1, <2>2
  <2> HIDE DEF Gates!IInv
  <2> QED
    BY <2>1, <2>3, <2>4, <2>5, <2>6, <2>7 DEF Gates!Answering
<1>8. Gates(p)!Written'
  BY <1>1, LaterMeans DEF Gates!Written
<1> QED
  BY <1>2, <1>6, <1>7, <1>8

\* The answers are compared with the prepared workspace.
LEMMA GatesCheck ==
    ASSUME NEW p \in GatesParts, Gates(p)!IInv, Gates(p)!Check
    PROVE  Gates(p)!IInv'
<1> USE DEF Gates!IInv
<1>1. CASE Gates(p)!Refuse("check", ~Gates(p)!PreparedOK(cenv))
  <2>1. "check" \in Gates(p)!Later(1) \ {"written"}
    BY LaterMeans
  <2> QED
    BY <1>1, <2>1, RefusedIInv, Zenon
<1>2. CASE ~Gates(p)!Refuse("check", ~Gates(p)!PreparedOK(cenv))
  <2>1. /\ gpc = "check" /\ gpc' = (IF Len(payload.cases) = Len(Cases[p]) THEN "score" ELSE "verify")
        /\ ws = cenv.ws /\ report' = report /\ gat' = gat
        /\ UNCHANGED <<glock, cand, ws, raw, scores, static>> /\ UNCHANGED <<locks, gbatches, published, gedits>>
        /\ UNCHANGED <<env, grows, supplied, ran, cenv, senv, payload>>
    BY <1>2 DEF Gates!Check, Gates!PreparedOK, Gates!artifacts, Gates!history, Gates!local
  <2>2. Gates(p)!Versioned'
    BY <2>1, AnalystLeaves
  <2>3. Gates(p)!Gathered'
    BY <2>1, LaterMeans DEF Gates!Gathered, Gates!Current
  <2>4. Gates(p)!Answering'
    <3>1. /\ gat \in Seq(Nat) /\ Len(payload.cases) = Len(gat) /\ Len(gat) <= Len(Cases[p])
          /\ \A i \in DOMAIN gat : gat[i] = cenv.ws \/ i = Len(gat)
          /\ cenv.ws <= gat[Len(gat)] /\ gat[Len(gat)] <= ws /\ Len(gat) > 0
      BY <2>1, LaterMeans DEF Gates!Answering
    <3>2. Len(Cases[p]) \in Nat /\ ws \in Nat
      BY GatesOK DEF Gates!Versioned, Gates!GatesAssumption
    <3>3. Len(gat) \in DOMAIN gat /\ gat[Len(gat)] = cenv.ws
      BY <2>1, <3>1, <3>2
    <3>4. \A i \in DOMAIN gat : gat[i] = cenv.ws
      BY <3>1, <3>3
    <3>5. gpc' # "score" => gpc' = "verify" /\ Len(gat) < Len(Cases[p])
      BY <2>1, <3>1, <3>2
    <3>6. gpc' = "score" => Len(gat) = Len(Cases[p])
      BY <2>1, <3>1
    <3> HIDE DEF Gates!IInv
    <3> QED
      BY <2>1, <3>1, <3>4, <3>5, <3>6, LaterMeans DEF Gates!Answering
  <2>5. Gates(p)!Written'
    <3>1. gpc' \in {"score", "verify"}
      BY <2>1
    <3> QED
      BY <2>1, <3>1, LaterMeans DEF Gates!Written
  <2> QED
    BY <2>2, <2>3, <2>4, <2>5
<1> QED
  BY <1>1, <1>2

\* The report is written.
LEMMA GatesAnalyze ==
    ASSUME NEW p \in GatesParts, Gates(p)!IInv, Gates(p)!Analyze
    PROVE  Gates(p)!IInv'
<1> USE DEF Gates!IInv
<1>1. CASE Gates(p)!Refuse("analyze", ~Gates(p)!AnalyzeOK)
  <2>1. "analyze" \in Gates(p)!Later(1) \ {"written"}
    BY LaterMeans
  <2> QED
    BY <1>1, <2>1, RefusedIInv, Zenon
<1>2. CASE ~Gates(p)!Refuse("analyze", ~Gates(p)!AnalyzeOK)
  <2>1. /\ gpc = "analyze" /\ gpc' = "written" /\ gat' = gat /\ Gates(p)!AnalyzeOK
        /\ report' = [lock |-> glock.id, cand |-> env.cand, batch |-> raw.batch, scores |-> grows, static |-> supplied,
                      supported |-> Gates(p)!Supported(grows.cells, supplied.cases)]
        /\ UNCHANGED <<glock, cand, ws, raw, scores, static>> /\ UNCHANGED <<locks, gbatches, published, gedits>>
        /\ UNCHANGED <<env, grows, supplied, ran, cenv, senv, payload>>
    BY <1>2 DEF Gates!Analyze, Gates!Step, Gates!artifacts, Gates!history, Gates!local
  <2>2. Gates(p)!Versioned'
    BY <2>1, AnalystLeaves
  <2>3. Gates(p)!Gathered'
    BY <2>1, LaterMeans DEF Gates!Gathered, Gates!Current
  <2>4. Gates(p)!Answering'
    BY <2>1, LaterMeans DEF Gates!Answering
  <2>5. grows.lock = glock.id /\ grows.batch = raw.batch /\ supplied.lock = glock.id /\ supplied.cand = env.cand
    BY <2>1 DEF Gates!AnalyzeOK, Gates!RowsOK, Gates!StaticIdentityOK
  <2>6. /\ grows \in gbatches /\ grows \in published /\ supplied \in published /\ supplied = payload
        /\ cenv = glock /\ ran = glock.cand /\ payload.cand = cenv.cand
    <3>1. /\ gpc \in Gates(p)!Later(3) /\ gpc \in Gates(p)!Later(4) /\ gpc \in Gates(p)!Later(5)
          /\ gpc \in Gates(p)!Later(6) /\ gpc \in Gates(p)!Later(7) /\ gpc \in Gates(p)!Later(12)
      BY <2>1, LaterMeans
    <3>2. Gates(p)!Gathered
      OBVIOUS
    <3> HIDE DEF Gates!IInv
    <3> QED
      BY <2>5, <3>1, <3>2 DEF Gates!Gathered, Gates!Current
  <2>7. /\ gat \in Seq(Nat) /\ Len(gat) = Len(Cases[p])
        /\ \A i \in DOMAIN gat : gat[i] = cenv.ws
    BY <2>1, LaterMeans DEF Gates!Answering
  <2>8. \A i \in Gates(p)!CaseSet : gat[i] = glock.ws
    BY <2>6, <2>7 DEF Gates!CaseSet
  <2>9. glock \in locks
    BY DEF Gates!Versioned
  <2>10. Gates(p)!Written'
    <3>1. report' # Gates(p)!None
      <4>1. report'.lock = glock.id /\ "lock" \in DOMAIN report'
        BY <2>1
      <4>2. "lock" \notin DOMAIN Gates(p)!None
        BY DEF Gates!None
      <4> QED
        BY <4>1, <4>2
    <3>2. /\ report'.scores = grows /\ report'.static = supplied /\ report'.lock = glock.id
          /\ report'.cand = env.cand /\ report'.batch = raw.batch
          /\ report'.supported = Gates(p)!Supported(grows.cells, supplied.cases)
      BY <2>1
    <3>3. Gates(p)!Supported(report.scores.cells, report.static.cases)' =
              Gates(p)!Supported(grows.cells, supplied.cases)
      <4>1. report'.scores = grows /\ report'.static = supplied
        BY <3>2
      <4> QED
        BY <4>1
    <3>4. /\ glock.id = report'.lock /\ glock.cand = report'.cand /\ ran' = glock.cand
          /\ \A i \in Gates(p)!CaseSet : gat'[i] = glock.ws
      BY <2>1, <2>5, <2>6, <2>8, <3>2
    <3>5. \E l \in locks' :
              /\ l.id = report'.lock /\ l.cand = report'.cand /\ ran' = l.cand
              /\ \A i \in Gates(p)!CaseSet : gat'[i] = l.ws
      BY <2>1, <2>9, <3>4
    <3> HIDE DEF Gates!IInv
    <3> QED
      BY <2>1, <2>5, <2>6, <3>1, <3>2, <3>3, <3>5, LaterMeans DEF Gates!Written
  <2> QED
    BY <2>2, <2>3, <2>4, <2>10
<1> QED
  BY <1>1, <1>2

\* From outside only versions go up, which leaves no room for a mistake: what was
\* gathered under another lock is Current no longer.
LEMMA OutsideMeans ==
    ASSUME NEW p \in GatesParts, Gates(p)!Versioned, Gates(p)!Outside
    PROVE  /\ gpc' = gpc /\ gpc \notin {"written", "refused"} /\ report' = report
           /\ UNCHANGED <<env, grows, supplied, ran, cenv, payload, gat, senv>>
           /\ gedits' = gedits + 1 /\ gedits < Edits[p]
           /\ \/ Gates(p)!Reinstall \/ Gates(p)!EditWorkspace \/ Gates(p)!Relock \/ Gates(p)!Rerun \/ Gates(p)!Publish
  BY DEF Gates!Outside, Gates!Reinstall, Gates!EditWorkspace, Gates!Relock, Gates!Rerun, Gates!Publish, Gates!Edit,
         Gates!local

\* What is replaced from outside gets a new identity.
LEMMA OutsideVersioned ==
    ASSUME NEW p \in GatesParts, Gates(p)!Versioned, Gates(p)!Outside
    PROVE  /\ Gates(p)!Versioned'
           /\ locks \subseteq locks' /\ gbatches \subseteq gbatches' /\ published \subseteq published'
           /\ cand <= cand' /\ ws <= ws'
           /\ glock' = glock \/ glock'.id = glock.id + 1
<1>1. /\ Edits[p] \in Nat /\ Len(Answers[p]) \in Nat /\ Reruns \subseteq Outcomes[p]
  BY GatesOK DEF Gates!GatesAssumption
<1>2. /\ gedits \in 0..Edits[p] /\ ws \in Nat
      /\ cand \in Nat /\ cand >= 1 /\ cand <= Len(Answers[p]) - Edits[p] + gedits
      /\ glock \in locks /\ locks \subseteq [id : Nat, cand : Nat, ws : Nat]
      /\ raw \in gbatches /\ gbatches \subseteq [batch : Nat, lock : Nat, cells : Outcomes[p]]
      /\ scores \in published /\ static \in published /\ scores \in [batch : Nat, lock : Nat, cells : Outcomes[p]]
      /\ glock.cand <= cand
      /\ \A l \in locks : l.id <= glock.id
      /\ \A l, m \in locks : l.id = m.id => l = m
      /\ \A b \in gbatches : b.batch <= raw.batch /\ b.lock <= glock.id
      /\ \A b, d \in gbatches : b.batch = d.batch => b = d
  BY DEF Gates!Versioned, Gates!LockType, Gates!RunsType
<1>3. /\ glock \in [id : Nat, cand : Nat, ws : Nat] /\ raw \in [batch : Nat, lock : Nat, cells : Outcomes[p]]
      /\ glock.id \in Nat /\ glock.cand \in Nat /\ raw.batch \in Nat /\ raw.lock \in Nat
  BY <1>2
<1>4. gedits' = gedits + 1 /\ gedits < Edits[p] /\ gedits' \in 0..Edits[p]
  BY <1>1, <1>2, OutsideMeans
<1>5. cand + 1 <= Len(Answers[p]) - Edits[p] + (gedits + 1) /\ cand <= Len(Answers[p]) - Edits[p] + (gedits + 1)
  BY <1>1, <1>2
<1>6. CASE Gates(p)!Reinstall
  <2>1. cand' = cand + 1 /\ UNCHANGED <<glock, ws, raw, scores, static, locks, gbatches, published>>
    BY <1>6 DEF Gates!Reinstall
  <2>2. cand' \in Nat /\ cand' >= 1 /\ glock.cand <= cand' /\ cand <= cand'
    BY <1>2, <1>3, <2>1
  <2> QED
    BY <1>2, <1>4, <1>5, <2>1, <2>2 DEF Gates!Versioned, Gates!LockType, Gates!RunsType
<1>7. CASE Gates(p)!EditWorkspace
  <2>1. ws' = ws + 1 /\ UNCHANGED <<glock, cand, raw, scores, static, locks, gbatches, published>>
    BY <1>7 DEF Gates!EditWorkspace
  <2> QED
    BY <1>2, <1>4, <1>5, <2>1 DEF Gates!Versioned, Gates!LockType, Gates!RunsType
<1>8. CASE Gates(p)!Relock
  <2>1. /\ glock' = [id |-> glock.id + 1, cand |-> cand, ws |-> ws] /\ locks' = locks \cup {glock'}
        /\ UNCHANGED <<cand, ws, raw, scores, static, gbatches, published>>
    BY <1>8 DEF Gates!Relock
  <2>2. glock' \in [id : Nat, cand : Nat, ws : Nat] /\ glock'.id = glock.id + 1 /\ glock'.cand = cand
    BY <1>2, <1>3, <2>1
  <2>3. \A l \in locks : l \in [id : Nat, cand : Nat, ws : Nat] /\ l.id \in Nat /\ l.id < glock'.id
    BY <1>2, <1>3, <2>2
  <2>4. \A l \in locks' : l.id <= glock'.id
    BY <2>1, <2>2, <2>3, <1>3
  <2>5. \A l, m \in locks' : l.id = m.id => l = m
    <3> SUFFICES ASSUME NEW l \in locks', NEW m \in locks', l.id = m.id PROVE l = m
      OBVIOUS
    <3>1. CASE l \in locks /\ m \in locks
      BY <1>2, <3>1
    <3>2. CASE l \notin locks \/ m \notin locks
      BY <1>3, <2>1, <2>2, <2>3, <3>2
    <3> QED
      BY <3>1, <3>2
  <2>6. \A b \in gbatches : b.lock \in Nat /\ b.lock <= glock'.id
    BY <1>2, <1>3, <2>2
  <2>7. locks' \subseteq [id : Nat, cand : Nat, ws : Nat] /\ glock' \in locks' /\ glock'.cand <= cand'
    BY <1>2, <2>1, <2>2
  <2>8. \A b \in gbatches' : b.batch <= raw'.batch /\ b.lock <= glock'.id
    BY <1>2, <2>1, <2>6
  <2>9. Gates(p)!Versioned'
    BY <1>2, <1>4, <1>5, <2>1, <2>4, <2>5, <2>7, <2>8 DEF Gates!Versioned, Gates!LockType, Gates!RunsType
  <2> QED
    BY <1>2, <2>1, <2>2, <2>9
<1>9. CASE Gates(p)!Rerun
  <2>1. PICK cells \in Reruns : raw' = [batch |-> raw.batch + 1, lock |-> glock.id, cells |-> cells]
    BY <1>9 DEF Gates!Rerun
  <2>2. /\ gbatches' = gbatches \cup {raw'} /\ UNCHANGED <<glock, cand, ws, scores, static, locks, published>>
    BY <1>9 DEF Gates!Rerun
  <2>3. /\ raw' \in [batch : Nat, lock : Nat, cells : Outcomes[p]] /\ raw'.batch = raw.batch + 1
        /\ raw'.lock = glock.id
    BY <1>1, <1>3, <2>1
  <2>4. \A b \in gbatches : b.batch \in Nat /\ b.batch < raw'.batch
    BY <1>2, <1>3, <2>3
  <2>5. \A b \in gbatches' : b.batch <= raw'.batch /\ b.lock <= glock'.id
    BY <1>2, <1>3, <2>2, <2>3, <2>4
  <2>6. \A b, d \in gbatches' : b.batch = d.batch => b = d
    <3> SUFFICES ASSUME NEW b \in gbatches', NEW d \in gbatches', b.batch = d.batch PROVE b = d
      OBVIOUS
    <3>1. CASE b \in gbatches /\ d \in gbatches
      BY <1>2, <3>1
    <3>2. CASE b \notin gbatches \/ d \notin gbatches
      BY <1>3, <2>2, <2>3, <2>4, <3>2
    <3> QED
      BY <3>1, <3>2
  <2>7. gbatches' \subseteq [batch : Nat, lock : Nat, cells : Outcomes[p]] /\ raw' \in gbatches'
    BY <1>2, <2>2, <2>3
  <2>8. Gates(p)!Versioned'
    BY <1>2, <1>4, <1>5, <2>2, <2>5, <2>6, <2>7 DEF Gates!Versioned, Gates!LockType, Gates!RunsType
  <2> QED
    BY <1>2, <2>2, <2>8
<1>10. CASE Gates(p)!Publish
  <2>1. /\ published' = published \cup {scores', static'} /\ scores' \in {scores, raw}
        /\ UNCHANGED <<glock, cand, ws, raw, locks, gbatches>>
    BY <1>10 DEF Gates!Publish
  <2>2. scores' \in [batch : Nat, lock : Nat, cells : Outcomes[p]]
    BY <1>2, <1>3, <2>1
  <2> QED
    BY <1>2, <1>4, <1>5, <2>1, <2>2 DEF Gates!Versioned, Gates!LockType, Gates!RunsType
<1> QED
  BY <1>6, <1>7, <1>8, <1>9, <1>10, OutsideMeans

\* And it leaves what the analysis has in memory.
LEMMA OutsideIInv ==
    ASSUME NEW p \in GatesParts, Gates(p)!IInv, Gates(p)!Outside
    PROVE  Gates(p)!IInv'
<1> USE DEF Gates!IInv
<1>1. /\ gpc' = gpc /\ gpc \notin {"written", "refused"} /\ report' = report
      /\ UNCHANGED <<env, grows, supplied, ran, cenv, payload, gat, senv>>
  BY OutsideMeans
<1>2. /\ Gates(p)!Versioned'
      /\ locks \subseteq locks' /\ gbatches \subseteq gbatches' /\ published \subseteq published'
      /\ cand <= cand' /\ ws <= ws' /\ (glock' = glock \/ glock'.id = glock.id + 1)
  BY OutsideVersioned
<1>3. /\ glock.id \in Nat /\ cand \in Nat /\ cand' \in Nat /\ ws \in Nat /\ ws' \in Nat
      /\ locks \subseteq Gates(p)!LockType /\ gbatches \subseteq Gates(p)!RunsType
      /\ \A b \in gbatches : b.lock <= glock.id
  BY <1>2 DEF Gates!Versioned, Gates!LockType
<1>4. gpc \in Gates(p)!Later(3) => grows \in gbatches /\ grows \in published
  BY DEF Gates!Gathered
<1>5. ASSUME gpc \in Gates(p)!Later(3), Gates(p)!Current'
      PROVE  Gates(p)!Current /\ glock' = glock
  <2>1. grows.lock \in Nat /\ grows.lock <= glock.id
    BY <1>3, <1>4, <1>5 DEF Gates!RunsType
  <2>2. grows.lock = glock'.id
    BY <1>1, <1>5 DEF Gates!Current
  <2> QED
    BY <1>2, <1>3, <2>1, <2>2 DEF Gates!Current
<1>6. /\ gpc \in Gates(p)!Later(5) => gpc \in Gates(p)!Later(3)
      /\ gpc \in Gates(p)!Later(6) => gpc \in Gates(p)!Later(3)
      /\ gpc \in Gates(p)!Later(7) => gpc \in Gates(p)!Later(3)
      /\ gpc \in Gates(p)!Later(11) => gpc \in Gates(p)!Later(3)
  BY LaterMeans
<1>7. Gates(p)!Gathered'
  <2>1. gpc' \in Gates(p)!Later(3) => grows' \in gbatches' /\ grows' \in published'
    BY <1>1, <1>2, <1>4
  <2>2. gpc' \in Gates(p)!Later(4) => supplied' \in published'
    BY <1>1, <1>2 DEF Gates!Gathered
  <2>3. gpc' \in Gates(p)!Later(5) => ran' \in 1..cand' /\ (Gates(p)!Current' => glock'.cand <= ran')
    <3>1. SUFFICES ASSUME gpc \in Gates(p)!Later(5)
                   PROVE  ran \in 1..cand' /\ (Gates(p)!Current' => glock'.cand <= ran)
      BY <1>1
    <3>2. ran \in 1..cand /\ (Gates(p)!Current => glock.cand <= ran)
      BY <3>1 DEF Gates!Gathered
    <3>3. ran \in 1..cand'
      BY <1>2, <1>3, <3>2
    <3> QED
      BY <1>5, <1>6, <3>1, <3>2, <3>3
  <2>4. gpc' \in Gates(p)!Later(6) => cenv' \in locks' /\ (Gates(p)!Current' => cenv' = glock')
    BY <1>1, <1>2, <1>5, <1>6 DEF Gates!Gathered
  <2>5. gpc' \in Gates(p)!Later(7) =>
            /\ payload' \in [lock : Nat, cand : Nat, cases : Seq(Gates(p)!CaseType)]
            /\ payload'.cand = cenv'.cand
            /\ Gates(p)!Current' => payload'.lock = glock'.id /\ ran' = glock'.cand
    <3>1. SUFFICES ASSUME gpc \in Gates(p)!Later(7)
                   PROVE  /\ payload \in [lock : Nat, cand : Nat, cases : Seq(Gates(p)!CaseType)]
                          /\ payload.cand = cenv.cand
                          /\ Gates(p)!Current' => payload.lock = glock'.id /\ ran = glock'.cand
      BY <1>1
    <3>2. /\ payload \in [lock : Nat, cand : Nat, cases : Seq(Gates(p)!CaseType)]
          /\ payload.cand = cenv.cand
          /\ Gates(p)!Current => payload.lock = glock.id /\ ran = glock.cand
      BY <3>1 DEF Gates!Gathered
    <3> QED
      BY <1>5, <1>6, <3>1, <3>2
  <2>6. gpc' \in Gates(p)!Later(11) => (Gates(p)!Current' => senv' = glock')
    BY <1>1, <1>5, <1>6 DEF Gates!Gathered
  <2>7. gpc' \in Gates(p)!Later(12) => supplied' = payload'
    BY <1>1 DEF Gates!Gathered
  <2> HIDE DEF Gates!IInv
  <2> QED
    BY <2>1, <2>2, <2>3, <2>4, <2>5, <2>6, <2>7 DEF Gates!Gathered
<1>8. Gates(p)!Answering'
  <2>1. gpc = "retrieve" => cenv.ws <= ws'
    <3>1. SUFFICES ASSUME gpc = "retrieve" PROVE cenv.ws <= ws'
      OBVIOUS
    <3>2. cenv \in locks /\ cenv.ws <= ws
      BY <3>1, LaterMeans DEF Gates!Gathered, Gates!Answering
    <3>3. cenv.ws \in Nat
      BY <1>3, <3>2 DEF Gates!LockType
    <3> QED
      BY <1>2, <1>3, <3>2, <3>3
  <2>2. gpc = "check" => gat[Len(gat)] <= ws'
    <3>1. SUFFICES ASSUME gpc = "check" PROVE gat[Len(gat)] <= ws'
      OBVIOUS
    <3>2. gat \in Seq(Nat) /\ Len(gat) > 0 /\ gat[Len(gat)] <= ws
      BY <3>1 DEF Gates!Answering
    <3>3. gat[Len(gat)] \in Nat
      BY <3>2
    <3> QED
      BY <1>2, <1>3, <3>2, <3>3
  <2> QED
    BY <1>1, <2>1, <2>2 DEF Gates!Answering
<1>9. Gates(p)!Written'
  <2>1. report = Gates(p)!None
    BY <1>1 DEF Gates!Written
  <2> QED
    BY <1>1, <2>1 DEF Gates!Written
<1> QED
  BY <1>2, <1>7, <1>8, <1>9

\* The analysis begins with its invariant.
LEMMA GatesInit ==
    ASSUME NEW p \in GatesParts, Gates(p)!Init
    PROVE  Gates(p)!IInv
<1>1. /\ Reruns \subseteq Outcomes[p] /\ Edits[p] \in Nat /\ Len(Answers[p]) \in Nat /\ Len(Answers[p]) > Edits[p]
      /\ Len(Cases[p]) \in Nat \ {0}
  BY GatesOK DEF Gates!GatesAssumption
<1>2. /\ cand \in 1..(Len(Answers[p]) - Edits[p]) /\ ws = 1 /\ glock = [id |-> 1, cand |-> cand, ws |-> 1]
      /\ gpc = "start" /\ report = Gates(p)!None /\ gat = << >>
      /\ locks = {glock} /\ gbatches = {raw} /\ published = {scores, static} /\ gedits = 0
  BY DEF Gates!Init
<1>3. PICK cells \in Outcomes[p], cells2 \in Reruns :
          /\ raw = [batch |-> 1, lock |-> 1, cells |-> cells]
          /\ scores \in {raw, [raw EXCEPT !.cells = cells2]}
  BY DEF Gates!Init
<1>4. raw \in Gates(p)!RunsType /\ raw.lock = 1 /\ raw.batch = 1
  BY <1>3 DEF Gates!RunsType
<1>5. scores \in Gates(p)!RunsType
  BY <1>1, <1>3, <1>4 DEF Gates!RunsType
<1>6. glock \in Gates(p)!LockType /\ glock.id = 1 /\ glock.cand = cand /\ cand \in Nat /\ cand >= 1
      /\ cand <= Len(Answers[p]) - Edits[p] + gedits
  BY <1>1, <1>2 DEF Gates!LockType
<1>7. Gates(p)!Versioned
  BY <1>1, <1>2, <1>4, <1>5, <1>6 DEF Gates!Versioned
<1>8. Gates(p)!Gathered
  BY <1>2, LaterMeans DEF Gates!Gathered
<1>9. Gates(p)!Answering
  <2>1. Len(gat) = 0 /\ gat \in Seq(Nat)
    BY <1>2
  <2> QED
    BY <1>1, <1>2, <2>1, LaterMeans DEF Gates!Answering
<1>10. Gates(p)!Written
  BY <1>2, LaterMeans DEF Gates!Written
<1> QED
  BY <1>7, <1>8, <1>9, <1>10 DEF Gates!IInv

\* Every step of the analysis keeps it.
LEMMA GatesStep ==
    ASSUME NEW p \in GatesParts, Gates(p)!IInv, Gates(p)!Next
    PROVE  Gates(p)!IInv'
  BY GatesLoad, GatesRescore, GatesReadStatic, GatesImport, GatesCollectLoad, GatesCollectHash, GatesVerify,
     GatesRetrieve, GatesCheck, GatesScoreLoad, GatesScoreStatic, GatesAnalyze, OutsideIInv
     DEF Gates!Next, Gates!Analyst

\* Where nothing happens it stays.
LEMMA GatesStutter ==
    ASSUME NEW p \in GatesParts, Gates(p)!IInv, UNCHANGED gvars
    PROVE  Gates(p)!IInv'
  BY DEF gvars, Gates!IInv, Gates!Versioned, Gates!Gathered, Gates!Answering, Gates!Written, Gates!Current

\* It implies what the run checks of a report.
LEMMA GatesImplies ==
    ASSUME NEW p \in GatesParts, Gates(p)!IInv
    PROVE  /\ Gates(p)!TypeOK /\ Gates(p)!ClaimIsEarned
           /\ Gates(p)!NumbersAreOfTheBatch /\ Gates(p)!OneEnvironment
           /\ Gates(p)!AnsweredByTheCandidate /\ Gates(p)!AnsweredFromThePrepared
           /\ Gates(p)!NamesWhatWasPublished
<1> USE DEF Gates!IInv
<1>1. (report # Gates(p)!None) = (gpc = "written")
  BY DEF Gates!Written
<1>2. ASSUME report # Gates(p)!None
      PROVE  /\ report.scores \in gbatches /\ report.scores.batch = report.batch
             /\ Gates(p)!Batch = report.scores
             /\ Gates(p)!LockOf \in locks /\ Gates(p)!LockOf.id = report.lock /\ Gates(p)!LockOf.cand = report.cand
             /\ ran = Gates(p)!LockOf.cand /\ \A i \in Gates(p)!CaseSet : gat[i] = Gates(p)!LockOf.ws
             /\ report.scores.lock = report.lock /\ report.static.lock = report.lock
             /\ {report.scores, report.static} \subseteq published
             /\ report.supported = Gates(p)!Supported(report.scores.cells, report.static.cases)
  <2>1. /\ report.scores \in gbatches /\ report.scores.batch = report.batch
        /\ report.scores.lock = report.lock /\ report.static.lock = report.lock
        /\ {report.scores, report.static} \subseteq published
        /\ report.supported = Gates(p)!Supported(report.scores.cells, report.static.cases)
    BY <1>2 DEF Gates!Written
  <2>2. PICK l \in locks : /\ l.id = report.lock /\ l.cand = report.cand /\ ran = l.cand
                           /\ \A i \in Gates(p)!CaseSet : gat[i] = l.ws
    BY <1>2 DEF Gates!Written
  <2>3. /\ \A a, b \in locks : a.id = b.id => a = b
        /\ \A b, d \in gbatches : b.batch = d.batch => b = d
    BY DEF Gates!Versioned
  <2>4. Gates(p)!Batch = report.scores
    BY <2>1, <2>3 DEF Gates!Batch
  <2>5. Gates(p)!LockOf = l
    BY <2>2, <2>3 DEF Gates!LockOf
  <2> QED
    BY <2>1, <2>2, <2>4, <2>5
<1>3. Gates(p)!TypeOK
  BY <1>1, <1>2 DEF Gates!TypeOK, Gates!Versioned, Gates!Answering
<1>4. Gates(p)!ClaimIsEarned
  <2>1. SUFFICES ASSUME report # Gates(p)!None, report.supported, NEW r \in Reps
                 PROVE  LET mine == report.scores.cells[<<Gates(p)!Candidate, r>>] IN
                        /\ mine.ok /\ ~mine.fabricated
                        /\ \A b \in Baselines :
                             LET other == report.scores.cells[<<b, r>>] IN
                             /\ other.ok
                             /\ mine.quality >= other.quality - Margin
                             /\ b = "codegraph" => mine.quality > other.quality
                             /\ b # "codegraph" => \E m \in Costs : mine.cost[m] < other.cost[m]
    BY <1>2 DEF Gates!ClaimIsEarned
  <2>2. report.scores.cells \in Outcomes[p]
    BY <1>2, <2>1 DEF Gates!Versioned, Gates!RunsType
  <2>3. Gates(p)!Supported(report.scores.cells, report.static.cases)
    BY <1>2, <2>1
  <2> QED
    BY <2>2, <2>3, SupportedMeans DEF Gates!Candidate
<1> QED
  BY <1>2, <1>3, <1>4 DEF Gates!NumbersAreOfTheBatch, Gates!OneEnvironment, Gates!AnsweredByTheCandidate,
     Gates!AnsweredFromThePrepared, Gates!NamesWhatWasPublished

\* The invariant, where the analysis is what runs.
AnalysisInv == \A p \in GatesParts : part = p => Gates(p)!IInv

\* analyze.py and static_gate.py: the invariant holds in every reachable state, for any
\* repetitions, metrics, margins and outcomes.
THEOREM AnalysisInvariant == MCSpec => []AnalysisInv
<1>1. MCInit => AnalysisInv
  <2> SUFFICES ASSUME MCInit, NEW p \in GatesParts, part = p PROVE Gates(p)!IInv
    BY DEF AnalysisInv
  <2>1. p \notin {"prepare"} \cup BatchParts
    BY DEF GatesParts, BatchParts
  <2> QED
    BY <2>1, GatesInit DEF MCInit
<1>2. AnalysisInv /\ [MCNext]_mcvars => AnalysisInv'
  <2> SUFFICES ASSUME AnalysisInv, [MCNext]_mcvars, NEW p \in GatesParts, part' = p PROVE Gates(p)!IInv'
    BY DEF AnalysisInv
  <2>1. part' = part /\ (UNCHANGED gvars \/ \E q \in GatesParts : part = q /\ Gates(q)!Next)
    BY DEF MCNext, mcvars
  <2>2. part = p /\ Gates(p)!IInv
    BY <2>1 DEF AnalysisInv
  <2>3. CASE UNCHANGED gvars
    BY <2>2, <2>3, GatesStutter
  <2>4. CASE \E q \in GatesParts : part = q /\ Gates(q)!Next
    BY <2>2, <2>4, GatesStep
  <2> QED
    BY <2>1, <2>3, <2>4
<1> QED
  BY <1>1, <1>2, PTL DEF MCSpec

\* analyze.py: an advantage is claimed only if the runs of the named batch show it in every
\* repetition, and everything the report is made of belongs to the one lock it names.
THEOREM ReportIsAlwaysEarned == MCSpec => []ReportIsEarned
<1>1. AnalysisInv => ReportIsEarned
  BY GatesImplies DEF AnalysisInv, ReportIsEarned
<1> QED
  BY <1>1, AnalysisInvariant, PTL
===============================================================================
