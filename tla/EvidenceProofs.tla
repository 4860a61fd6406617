----------------------------- MODULE EvidenceProofs -----------------------------
(***************************************************************************)
(* Theorems about those who judge evidence, whatever is edited beside them:   *)
(* the gates that verify a design (VerificationGates), for every set of rows, *)
(* and whatever is committed or damaged while they are read; the ledger that  *)
(* authorizes the counts of a parsed design                                   *)
(* (IndexAuthorization), for every set of indexers, parser and number of      *)
(* tries; the audit of a release (ReleaseGate), for every set of package      *)
(* versions; and the replay of a review suite (SuiteReplayAudit), for every   *)
(* sequence of shards.  Each invariant says what the stages passed so far     *)
(* have established: of the evidence that was read, whatever is edited since; *)
(* of the files themselves, as long as nobody works beside the audit.         *)
(***************************************************************************)
EXTENDS MCEvidence, Naturals, TLAPS, FiniteSetTheorems

-------------------------------------------------------------------------------
(* Whether a design is verified.                                                *)

\* The rows of a table, and what the constants are.
LEMMA TablesMean ==
    /\ DOMAIN Gates!Rows = {"obs", "der", "ver", "run", "art"}
    /\ \A t \in DOMAIN Gates!Rows : Gates!Rows[t] = {i \in Gates!Ids : Row[i].t = t}
    /\ Gates!Runs = Gates!Rows["run"]
    /\ Gates!Tables[1] = "obs" /\ Gates!Tables[2] = "der" /\ Gates!Tables[3] = "ver"
    /\ Gates!Tables[4] = "run" /\ Gates!Tables[5] = "art"
  BY DEF Gates!Rows, Gates!Tables, Gates!Runs

\* The trust that is combined is that of a tool only if there is some, and none is missing.
LEMMA CombineMeans ==
    ASSUME NEW S
    PROVE  /\ Gates!CombineTool(S) \in {"tool", "no"}
           /\ Gates!CombineTool(S) = "tool" => S # {} /\ "no" \notin S
           /\ Gates!Combine(S) # "no" => S # {} /\ "no" \notin S
  BY DEF Gates!CombineTool, Gates!Combine

\* A trusted run is attested.
LEMMA RunTrustMeans ==
    ASSUME NEW w, NEW r
    PROVE  /\ Gates!RunTrust(w, r) \in {"tool", "no"}
           /\ Gates!RunTrust(w, r) = "tool" =>
                /\ r \in w["run"] /\ Row[r].attested /\ ~Row[r].denied
                /\ Row[r].clean /\ Row[r].claims /\ Row[r].manifest
                /\ \A a \in Row[r].outputs : a \in w["art"] /\ Row[a].run = r
  BY DEF Gates!RunTrust

\* A passing verification that is trusted has a trusted run, and typed evidence.
LEMMA PassMeans ==
    ASSUME NEW w, NEW good, NEW v, Gates!VerificationTrust(w, good, v) = "tool", Row[v].status = "pass"
    PROVE  /\ v \in w["ver"] /\ Row[v].run # "none" /\ Row[v].evidence # {}
           /\ Gates!RunTrust(w, Row[v].run) = "tool" /\ Row[v].run \in w["run"]
           /\ Gates!TypedVerification(w, v)
           /\ \A e \in Row[v].evidence : Gates!EvidenceTrust(w, good, e) # "no"
           /\ Row[v].work # "none" /\ Row[Row[v].run].work # "none" => Row[v].work = Row[Row[v].run].work
<1> DEFINE S == {Gates!RunTrust(w, x) : x \in {Row[v].run} \ {"none"}}
                    \cup {Gates!EvidenceTrust(w, good, e) : e \in Row[v].evidence}
<1>1. /\ v \in w["ver"] /\ Row[v].run # "none" /\ Row[v].evidence # {} /\ Gates!TypedVerification(w, v)
      /\ Gates!CombineTool(S) = "tool"
  BY DEF Gates!VerificationTrust
<1>2. "no" \notin S
  BY <1>1, CombineMeans
<1>3. Gates!RunTrust(w, Row[v].run) = "tool" /\ Row[v].run \in w["run"]
  BY <1>1, <1>2, RunTrustMeans
<1>4. Row[v].work # "none" /\ Row[Row[v].run].work # "none" => Row[v].work = Row[Row[v].run].work
  BY <1>3 DEF Gates!VerificationTrust
<1>5. \A e \in Row[v].evidence : Gates!EvidenceTrust(w, good, e) # "no"
  BY <1>2
<1> QED BY <1>1, <1>3, <1>4, <1>5

\* One observation of a predicate is one.
LEMMA OneIsThere ==
    ASSUME NEW P, NEW O, Gates!OneOfEach(P, O), NEW p \in P
    PROVE  \E o \in O : Row[o].pred = p
<1>1. Cardinality({o \in O : Row[o].pred = p}) = 1
  <2>1. \A S : Gates!Cardinality(S) = Cardinality(S)
    BY Zenon DEF Gates!Cardinality, Cardinality
  <2>2. Gates!Cardinality({o \in O : Row[o].pred = p}) = 1
    BY DEF Gates!OneOfEach
  <2> QED BY <2>1, <2>2
<1>2. {o \in O : Row[o].pred = p} # {}
  <2>1. Cardinality({}) = 0
    BY FS_EmptySet
  <2>2. Cardinality({o \in O : Row[o].pred = p}) # Cardinality({})
    BY <1>1, <2>1
  <2> QED BY <2>2
<1> QED BY <1>2

\* What observations O of one run and workload show of it.
Shows(O, r, preds, work) ==
    \A p \in preds : \E o \in O :
        /\ Row[o].run = r /\ Row[o].pred = p /\ Row[o].good /\ Row[o].auth \in Gates!ToolAuthorities
        /\ work # "none" => Row[o].work = work

\* The evidence of a typed verification shows what its kind requires.
LEMMA TypedShows ==
    ASSUME NEW w, NEW v, Gates!TypedVerification(w, v)
    PROVE  /\ Row[v].kind \in {"csim", "rtl_cosim"}
           /\ Row[v].run \in w["run"] /\ Row[Row[v].run].stage = Row[v].kind
           /\ Shows(w["obs"], Row[v].run, Gates!Required[Row[v].kind], Gates!Workload(w, v))
<1> DEFINE r == Row[v].run
           O == UNION {Gates!Leaves(w, e) : e \in Row[v].evidence}
<1>1. /\ Row[v].kind \in DOMAIN Gates!RunStage
      /\ r \in w["run"] /\ Row[r].stage = Gates!RunStage[Row[v].kind]
      /\ \A o \in O : Gates!Typed(w, o, r, {Row[v].kind})
      /\ Gates!Workload(w, v) # "none" => \A o \in O : Row[o].work = Gates!Workload(w, v)
      /\ Gates!OneOfEach(Gates!Required[Row[v].kind], O)
      /\ \A o \in O : Row[o].pred \in Gates!Required[Row[v].kind] => Row[o].good
  BY DEF Gates!TypedVerification
<1>2. Row[v].kind \in {"csim", "rtl_cosim"} /\ Row[r].stage = Row[v].kind
  BY <1>1 DEF Gates!RunStage
<1>3. ASSUME NEW p \in Gates!Required[Row[v].kind]
      PROVE  \E o \in w["obs"] :
               /\ Row[o].run = r /\ Row[o].pred = p /\ Row[o].good /\ Row[o].auth \in Gates!ToolAuthorities
               /\ Gates!Workload(w, v) # "none" => Row[o].work = Gates!Workload(w, v)
  <2>1. PICK o \in O : Row[o].pred = p
    BY <1>1, OneIsThere
  <2>2. o \in w["obs"] /\ Row[o].run = r /\ Row[o].auth \in Gates!ToolAuthorities
    BY <1>1, <2>1 DEF Gates!Typed
  <2>3. Row[o].good /\ (Gates!Workload(w, v) # "none" => Row[o].work = Gates!Workload(w, v))
    BY <1>1, <1>3, <2>1
  <2> QED BY <2>1, <2>2, <2>3
<1> QED BY <1>1, <1>2, <1>3 DEF Shows

\* What a physical gate requires.
Physical(g) == IF g = "post_route_timing" THEN {"timing.wns_ns"} ELSE Capacities

\* A derivation that recomputes shows what its gate requires, unless it says no.
LEMMA PhysicalShows ==
    ASSUME NEW w, NEW d, NEW r, Gates!TypedPhysical(w, d, r), Row[d].value # "fail"
    PROVE  Shows(w["obs"], r, Physical(Row[d].gate), "none")
<1> DEFINE O == Row[d].inputs
<1>1. \A o \in O : Gates!Typed(w, o, r, {Row[d].gate})
  BY DEF Gates!TypedPhysical
<1>2. \A o \in O : o \in w["obs"] /\ Row[o].run = r /\ Row[o].auth \in Gates!ToolAuthorities
  BY <1>1 DEF Gates!Typed
<1>3. Gates!OneOfEach(Physical(Row[d].gate), O)
  BY DEF Gates!TypedPhysical, Physical
<1>4. ASSUME NEW p \in Physical(Row[d].gate), NEW o \in O, Row[o].pred = p PROVE Row[o].good
  <2>1. CASE Row[d].gate = "post_route_timing"
    <3>1. Row[d].value = Gates!PassIf(\A q \in O : Row[q].pred = "timing.wns_ns" => Row[q].good)
      BY <2>1 DEF Gates!TypedPhysical
    <3>2. \A q \in O : Row[q].pred = "timing.wns_ns" => Row[q].good
      BY <3>1 DEF Gates!PassIf
    <3> QED BY <1>4, <2>1, <3>2 DEF Physical
  <2>2. CASE Row[d].gate # "post_route_timing"
    <3>1. Row[d].value = Gates!PassIf(\A q \in O : Row[q].good)
      BY <2>2 DEF Gates!TypedPhysical
    <3>2. \A q \in O : Row[q].good
      BY <3>1 DEF Gates!PassIf
    <3> QED BY <1>4, <3>2
  <2> QED BY <2>1, <2>2
<1>5. ASSUME NEW p \in Physical(Row[d].gate)
      PROVE  \E o \in w["obs"] : /\ Row[o].run = r /\ Row[o].pred = p /\ Row[o].good
                                 /\ Row[o].auth \in Gates!ToolAuthorities
  <2>1. PICK o \in O : Row[o].pred = p
    BY <1>3, <1>5, OneIsThere
  <2> QED BY <1>2, <1>4, <1>5, <2>1
<1> QED BY <1>5 DEF Shows

\* The trust in an observation of a tool rests on its run.
LEMMA ObservedMeans ==
    ASSUME NEW w, NEW good, NEW o, Gates!ObservationTrust(w, good, o) # "no"
    PROVE  /\ o \in w["obs"]
           /\ Row[o].auth \in Gates!ToolAuthorities =>
                Row[o].run # "none" /\ Gates!RunTrust(w, Row[o].run) = "tool"
<1>1. o \in w["obs"]
  BY DEF Gates!ObservationTrust
<1>2. ASSUME Row[o].auth \in Gates!ToolAuthorities
      PROVE  Row[o].run # "none" /\ Gates!RunTrust(w, Row[o].run) = "tool"
  <2> DEFINE refs == {Gates!RunTrust(w, r) : r \in {Row[o].run} \ {"none"}}
                        \cup {Gates!ArtifactTrust(w, good, a) : a \in Gates!Cited(o)}
  <2>1. Row[o].run # "none" /\ Gates!CombineTool(refs) # "no"
    BY <1>2 DEF Gates!ObservationTrust
  <2>2. "no" \notin refs
    BY <2>1, CombineMeans
  <2>3. Gates!RunTrust(w, Row[o].run) # "no"
    BY <2>1, <2>2
  <2> QED BY <2>1, <2>3, RunTrustMeans
<1> QED BY <1>1, <1>2

\* The trust in a derivation rests on its observations, and there is one.
LEMMA DerivedMeans ==
    ASSUME NEW w, NEW good, NEW d, Gates!DerivationTrust(w, good, d) # "no"
    PROVE  /\ d \in w["der"] /\ Row[d].inputs # {}
           /\ \A o \in Row[d].inputs : Gates!ObservationTrust(w, good, o) # "no"
<1> DEFINE S == {Gates!ObservationTrust(w, good, o) : o \in Row[d].inputs}
<1>1. d \in w["der"] /\ Gates!CombineTool(S) # "no"
  BY DEF Gates!DerivationTrust
<1>2. S # {} /\ "no" \notin S
  BY <1>1, CombineMeans
<1> QED BY <1>1, <1>2

\* A view that a reader may have of committed rows.
Views == {w \in [{"obs", "der", "ver", "run", "art"} -> SUBSET Gates!Ids] :
              \A t \in {"obs", "der", "ver", "run", "art"} : w[t] \subseteq Gates!Rows[t]}

\* A run that a physical gate rests on is a trusted post-route run, and shows
\* what the gate requires, unless some derivation says no.
LEMMA PhysicalMeans ==
    ASSUME NEW w \in Views, NEW good, NEW g \in {"resource_fits", "post_route_timing"},
           Gates!GateStatus(w, g) = "pass", NEW r \in Gates!PhysicalRuns(w, good, g)
    PROVE  /\ Gates!RunTrust(w, r) = "tool" /\ Row[r].stage = "post_route"
           /\ Shows(w["obs"], r, Physical(g), "none")
<1>1. "fail" \notin Gates!Statuses(w, g)
  BY DEF Gates!GateStatus, Gates!Status
<1>2. ASSUME NEW d \in w["der"], Row[d].gate = g PROVE Row[d].value # "fail"
  <2>1. Row[d].value \in Gates!Statuses(w, g)
    BY <1>2 DEF Gates!Statuses, Gates!GateDerivations
  <2> QED BY <1>1, <2>1
<1>3. CASE \E d \in Gates!GateDerivations(w, g) :
              Row[d].value = "pass" /\ Gates!PhysicalTrust(w, good, d) /\ r \in Gates!Producers(w, d)
  <2>1. PICK d \in Gates!GateDerivations(w, g) :
              Row[d].value = "pass" /\ Gates!PhysicalTrust(w, good, d) /\ r \in Gates!Producers(w, d)
    BY <1>3
  <2>2. /\ Gates!DerivationTrust(w, good, d) = "tool" /\ Row[r].stage = "post_route"
        /\ Gates!TypedPhysical(w, d, r)
    BY <2>1 DEF Gates!PhysicalTrust
  <2>3. d \in w["der"] /\ Row[d].gate = g
    BY <2>1 DEF Gates!GateDerivations
  <2>4. PICK o \in Row[d].inputs : Gates!ObservationTrust(w, good, o) # "no"
    BY <2>2, DerivedMeans
  <2>5. Row[o].run = r /\ Row[o].auth \in Gates!ToolAuthorities
    BY <2>2 DEF Gates!TypedPhysical, Gates!Typed
  <2>6. Gates!RunTrust(w, r) = "tool"
    BY <2>4, <2>5, ObservedMeans
  <2> QED BY <1>2, <2>2, <2>3, <2>6, PhysicalShows
<1>4. CASE \E x : <<r, x>> \in Gates!RunGates(w, g) /\ x.status = "pass" /\ Gates!RunGateTrust(w, good, r, x)
  <2>1. PICK x : <<r, x>> \in Gates!RunGates(w, g) /\ x.status = "pass" /\ Gates!RunGateTrust(w, good, r, x)
    BY <1>4
  <2>2. x.kind = g
    BY <2>1 DEF Gates!RunGates
  <2> DEFINE S == {Gates!RunTrust(w, r)} \cup {Gates!GateEvidenceTrust(w, good, e) : e \in x.evidence}
  <2>3. /\ x.evidence # {} /\ Row[r].stage \in Gates!ValidStages[x.kind] /\ Gates!CombineTool(S) = "tool"
        /\ \A e \in x.evidence : e \in w["der"] /\ Row[e].gate = x.kind /\ Gates!TypedPhysical(w, e, r)
    BY <2>1, <2>2 DEF Gates!RunGateTrust
  <2>4. Gates!RunTrust(w, r) = "tool"
    BY <2>3, CombineMeans, RunTrustMeans
  <2>5. Row[r].stage = "post_route"
    BY <2>2, <2>3 DEF Gates!ValidStages
  <2>6. PICK e \in x.evidence : e \in w["der"] /\ Row[e].gate = g /\ Gates!TypedPhysical(w, e, r)
    BY <2>2, <2>3
  <2> QED BY <1>2, <2>4, <2>5, <2>6, PhysicalShows
<1> DEFINE A == UNION {Gates!Producers(w, d) : d \in {x \in Gates!GateDerivations(w, g) :
                          Row[x].value = "pass" /\ Gates!PhysicalTrust(w, good, x)}}
           B == {x[1] : x \in {y \in Gates!RunGates(w, g) :
                          y[2].status = "pass" /\ Gates!RunGateTrust(w, good, y[1], y[2])}}
<1>5. r \in A \/ r \in B
  <2>1. r \in B \cup A
    BY DEF Gates!PhysicalRuns
  <2> HIDE DEF A, B
  <2> QED BY <2>1
<1>6. ASSUME r \in A PROVE \E d \in Gates!GateDerivations(w, g) :
              Row[d].value = "pass" /\ Gates!PhysicalTrust(w, good, d) /\ r \in Gates!Producers(w, d)
  BY <1>6
<1>7. ASSUME r \in B
      PROVE  \E x : <<r, x>> \in Gates!RunGates(w, g) /\ x.status = "pass" /\ Gates!RunGateTrust(w, good, r, x)
  <2>1. PICK y \in Gates!RunGates(w, g) :
            y[2].status = "pass" /\ Gates!RunGateTrust(w, good, y[1], y[2]) /\ r = y[1]
    BY <1>7
  <2>2. y = <<y[1], y[2]>>
    BY DEF Gates!RunGates
  <2> QED BY <2>1, <2>2
<1> HIDE DEF A, B
<1> QED BY <1>3, <1>4, <1>5, <1>6, <1>7

\* The run of an eligible check of a cohort is trusted and shows what its kind requires.
LEMMA EligibleMeans ==
    ASSUME NEW w, NEW good, NEW c, NEW kind \in {"csim", "rtl_cosim"},
           NEW r \in Gates!EligibleRuns(w, good, c, kind)
    PROVE  \E v \in w["ver"] :
             /\ Gates!Cohort(w, v) = c /\ Row[v].run = r /\ Row[v].kind = kind
             /\ Row[v].status = "pass" /\ Gates!VerificationTrust(w, good, v) = "tool"
             /\ c = <<Row[r].campaign, Gates!Workload(w, v)>>
             /\ Gates!Workload(w, v) \in {Row[r].work, Row[v].work}
             /\ Row[r].work \in {Gates!Workload(w, v), "none"}
             /\ Gates!RunTrust(w, r) = "tool" /\ Row[r].stage = kind
             /\ Shows(w["obs"], r, Gates!Required[kind], Gates!Workload(w, v))
<1>1. PICK v \in Gates!InCohort(w, c, kind) :
          Row[v].run = r /\ Row[v].status = "pass" /\ Gates!VerificationTrust(w, good, v) = "tool"
  BY DEF Gates!EligibleRuns
<1>2. Row[v].kind = kind /\ Gates!Cohort(w, v) = c
  BY DEF Gates!InCohort
<1>3. /\ v \in w["ver"] /\ r # "none" /\ Gates!RunTrust(w, r) = "tool" /\ r \in w["run"]
      /\ Gates!TypedVerification(w, v)
      /\ Row[v].work # "none" /\ Row[r].work # "none" => Row[v].work = Row[r].work
  BY <1>1, PassMeans
<1>4. Row[r].stage = kind /\ Shows(w["obs"], r, Gates!Required[kind], Gates!Workload(w, v))
  BY <1>1, <1>2, <1>3, TypedShows
<1>5. /\ Gates!Workload(w, v) = IF Row[v].work # "none" THEN Row[v].work ELSE Row[r].work
      /\ Gates!Cohort(w, v) = <<Row[r].campaign, Gates!Workload(w, v)>>
  BY <1>1, <1>3 DEF Gates!Workload, Gates!Cohort
<1> QED BY <1>1, <1>2, <1>3, <1>4, <1>5

\* What the reader holds of the committed rows is a view of them.
LEMMA ViewIsThere ==
    ASSUME Gates!TypeOK
    PROVE  /\ view \in Views /\ rows \subseteq Gates!Ids
           /\ \A t \in {"obs", "der", "ver", "run", "art"} : view[t] \subseteq rows \cap Gates!Rows[t]
<1>1. rows \subseteq Gates!Ids /\ view \in [{"obs", "der", "ver", "run", "art"} -> SUBSET rows]
  BY TablesMean DEF Gates!TypeOK
<1>2. \A k \in 1..5 : view[Gates!Tables[k]] \subseteq Gates!Rows[Gates!Tables[k]]
  BY DEF Gates!TypeOK
<1>3. \A t \in {"obs", "der", "ver", "run", "art"} : view[t] \subseteq Gates!Rows[t]
  <2>1. 1 \in 1..5 /\ 2 \in 1..5 /\ 3 \in 1..5 /\ 4 \in 1..5 /\ 5 \in 1..5
    OBVIOUS
  <2> QED BY <1>2, <2>1, TablesMean
<1>4. \A t \in {"obs", "der", "ver", "run", "art"} : view[t] \subseteq rows
  BY <1>1
<1>5. view \in Views
  BY <1>1, <1>3 DEF Views
<1> QED BY <1>1, <1>3, <1>4, <1>5

\* What observations that were read show, the ledger measures.
LEMMA ShownIsMeasured ==
    ASSUME Gates!TypeOK, NEW r, NEW preds, NEW work, Shows(view["obs"], r, preds, work)
    PROVE  Gates!Measured(r, preds, work)
<1>1. view["obs"] \subseteq rows \cap Gates!Rows["obs"]
  BY ViewIsThere
<1> QED BY <1>1 DEF Shows, Gates!Measured

\* An eligible campaign and an eligible physical run, read of the ledger, measure the design.
LEMMA EligibleIsMeasured ==
    ASSUME Gates!TypeOK, NEW M, NEW c \in Gates!EligibleCampaigns(view, intact),
           \A kind \in DOMAIN Gates!RunStage : Gates!EligibleRuns(view, intact, c, kind) \cap M # {},
           Gates!EligiblePhysical(view, intact) \cap M # {},
           \A g \in Gates!GateKinds : Gates!GateStatus(view, g) = "pass"
    PROVE  Gates!MeasuredBy(M)
<1>0. /\ view \in Views
      /\ \A t \in {"obs", "der", "ver", "run", "art"} : view[t] \subseteq rows \cap Gates!Rows[t]
  BY ViewIsThere
<1>1. PICK x \in M, y \in M : /\ x \in Gates!EligibleRuns(view, intact, c, "csim")
                              /\ y \in Gates!EligibleRuns(view, intact, c, "rtl_cosim")
  <2>1. DOMAIN Gates!RunStage = {"csim", "rtl_cosim"}
    BY DEF Gates!RunStage
  <2> QED BY <2>1
<1>2. PICK v \in view["ver"] :
         /\ Row[v].run = x
         /\ c = <<Row[x].campaign, Gates!Workload(view, v)>>
         /\ Gates!Workload(view, v) \in {Row[x].work, Row[v].work}
         /\ Row[x].work \in {Gates!Workload(view, v), "none"}
         /\ Gates!RunTrust(view, x) = "tool" /\ Row[x].stage = "csim"
         /\ Shows(view["obs"], x, Gates!Required["csim"], Gates!Workload(view, v))
  BY <1>1, EligibleMeans
<1>3. PICK u \in view["ver"] :
         /\ Row[u].run = y
         /\ c = <<Row[y].campaign, Gates!Workload(view, u)>>
         /\ Row[y].work \in {Gates!Workload(view, u), "none"}
         /\ Gates!RunTrust(view, y) = "tool" /\ Row[y].stage = "rtl_cosim"
         /\ Shows(view["obs"], y, Gates!Required["rtl_cosim"], Gates!Workload(view, u))
  BY <1>1, EligibleMeans
<1>4. PICK work : work = Gates!Workload(view, v)
  OBVIOUS
<1>5. /\ Gates!Workload(view, u) = work /\ Row[x].campaign = Row[y].campaign
      /\ c # <<"none", "none">> /\ c = <<Row[x].campaign, work>>
  BY <1>2, <1>3, <1>4 DEF Gates!EligibleCampaigns
<1>6. {Row[x].campaign, work} # {"none"}
  BY <1>5
<1>7. \A r : Gates!RunTrust(view, r) = "tool" => r \in rows /\ Row[r].attested /\ ~Row[r].denied
  BY <1>0, RunTrustMeans
<1>8. Gates!Really(x, "csim") /\ Gates!Really(y, "rtl_cosim")
  BY <1>2, <1>3, <1>7 DEF Gates!Really
<1>9. work \in {Row[x].work, Row[y].work} \cup {Row[i].work : i \in rows \cap Gates!Rows["ver"]}
  BY <1>0, <1>2, <1>4
<1>10. Gates!Measured(x, Gates!Required["csim"], work) /\ Gates!Measured(y, Gates!Required["rtl_cosim"], work)
  BY <1>2, <1>3, <1>4, <1>5, ShownIsMeasured
<1>11. \E p \in M : Gates!Really(p, "post_route") /\ Gates!Measured(p, Capacities \cup {"timing.wns_ns"}, "none")
  <2>1. PICK p \in M : /\ p \in Gates!PhysicalRuns(view, intact, "resource_fits")
                       /\ p \in Gates!PhysicalRuns(view, intact, "post_route_timing")
    BY DEF Gates!EligiblePhysical
  <2>2. Gates!GateStatus(view, "resource_fits") = "pass" /\ Gates!GateStatus(view, "post_route_timing") = "pass"
    BY DEF Gates!GateKinds
  <2>3. /\ Gates!RunTrust(view, p) = "tool" /\ Row[p].stage = "post_route"
        /\ Shows(view["obs"], p, Physical("resource_fits"), "none")
        /\ Shows(view["obs"], p, Physical("post_route_timing"), "none")
    BY <1>0, <2>1, <2>2, PhysicalMeans
  <2>4. Shows(view["obs"], p, Capacities \cup {"timing.wns_ns"}, "none")
    BY <2>3 DEF Physical, Shows
  <2> QED BY <1>7, <2>3, <2>4, ShownIsMeasured DEF Gates!Really
<1>12. {Row[x].work, Row[y].work} \subseteq {work, "none"}
  BY <1>2, <1>3, <1>4, <1>5
<1> QED BY <1>5, <1>6, <1>8, <1>9, <1>10, <1>11, <1>12 DEF Gates!MeasuredBy

\* A verdict is honest: it is measured by some runs of the ledger, whichever runs it is asked of.
LEMMA VerifiedIsReal ==
    ASSUME Gates!TypeOK, Gates!Verified(view, intact)
    PROVE  /\ Gates!MeasuredBy(Gates!Runs)
           /\ \A mine \in SUBSET view["run"] :
                Gates!InvocationVerified(view, intact, mine) => Gates!MeasuredBy(mine)
<1>1. /\ view \in Views
      /\ \A g \in Gates!GateKinds : Gates!GateStatus(view, g) = "pass"
      /\ Gates!EligibleCampaigns(view, intact) # {} /\ Gates!EligiblePhysical(view, intact) # {}
  BY ViewIsThere DEF Gates!Verified
<1>2. ASSUME NEW mine, Gates!InvocationVerified(view, intact, mine) PROVE Gates!MeasuredBy(mine)
  <2>1. PICK c \in Gates!EligibleCampaigns(view, intact) :
            \A kind \in DOMAIN Gates!RunStage : Gates!EligibleRuns(view, intact, c, kind) \cap mine # {}
    BY <1>2 DEF Gates!InvocationVerified
  <2>2. Gates!EligiblePhysical(view, intact) \cap mine # {}
    BY <1>2 DEF Gates!InvocationVerified
  <2> QED BY <1>1, <2>1, <2>2, EligibleIsMeasured
<1>3. Gates!MeasuredBy(Gates!Runs)
  <2>1. PICK c \in Gates!EligibleCampaigns(view, intact) : TRUE
    BY <1>1
  <2>2. \A r : Gates!RunTrust(view, r) = "tool" => r \in Gates!Runs
    BY <1>1, RunTrustMeans DEF Views, Gates!Runs
  <2>3. ASSUME NEW kind \in DOMAIN Gates!RunStage
        PROVE  Gates!EligibleRuns(view, intact, c, kind) \cap Gates!Runs # {}
    <3>1. kind \in {"csim", "rtl_cosim"}
      BY DEF Gates!RunStage
    <3>2. PICK r \in Gates!EligibleRuns(view, intact, c, kind) : TRUE
      BY <2>3 DEF Gates!EligibleCampaigns
    <3>3. Gates!RunTrust(view, r) = "tool"
      BY <3>1, EligibleMeans
    <3> QED BY <2>2, <3>2, <3>3
  <2>4. Gates!EligiblePhysical(view, intact) \cap Gates!Runs # {}
    <3>1. PICK p : /\ p \in Gates!EligiblePhysical(view, intact)
                   /\ p \in Gates!PhysicalRuns(view, intact, "resource_fits")
      BY <1>1 DEF Gates!EligiblePhysical
    <3>2. Gates!RunTrust(view, p) = "tool"
      BY <1>1, <3>1, PhysicalMeans DEF Gates!GateKinds
    <3> QED BY <2>2, <3>1, <3>2
  <2> QED BY <1>1, <2>3, <2>4, EligibleIsMeasured
<1> QED BY <1>2, <1>3

\* A failure that was read is no part of a verified design.
LEMMA FailureIsSeen ==
    ASSUME NEW w \in Views, NEW good, NEW l, NEW i \in Gates!Failures(l),
           NEW t \in {"obs", "der", "ver", "run", "art"}, i \in w[t], Gates!Verified(w, good)
    PROVE  FALSE
<1>1. Row[i].t = t
  BY DEF Views, Gates!Rows
<1>2. \A g \in Gates!GateKinds : "fail" \notin Gates!Statuses(w, g)
  BY DEF Gates!Verified, Gates!GateStatus, Gates!Status
<1>3. CASE Row[i].t = "ver" /\ Row[i].kind \in Gates!Checks /\ Row[i].status = "fail"
  <2>1. i \in Gates!Verifications(w)
    BY <1>1, <1>3 DEF Gates!Verifications
  <2>2. "fail" \in Gates!Statuses(w, "correctness")
    BY <1>3, <2>1 DEF Gates!Statuses
  <2> QED BY <1>2, <2>2 DEF Gates!GateKinds
<1>4. CASE Row[i].t = "der" /\ Row[i].gate \in Gates!GateKinds /\ Row[i].value = "fail"
  <2>1. i \in Gates!GateDerivations(w, Row[i].gate)
    BY <1>1, <1>4 DEF Gates!GateDerivations
  <2>2. Row[i].gate # "correctness"
    BY <1>1, <1>4, EvidenceAssumption DEF Gates!ItemsOK, Views
  <2>3. "fail" \in Gates!Statuses(w, Row[i].gate)
    BY <1>4, <2>1, <2>2 DEF Gates!Statuses
  <2> QED BY <1>2, <1>4, <2>3
<1>5. CASE Row[i].t = "run" /\ \E x \in Row[i].gates : x.kind \in Gates!GateKinds /\ x.status = "fail"
  <2>1. PICK x \in Row[i].gates : x.kind \in Gates!GateKinds /\ x.status = "fail"
    BY <1>5
  <2>2. <<i, x>> \in Gates!RunGates(w, x.kind)
    BY <1>1, <1>5, <2>1 DEF Gates!RunGates
  <2>3. "fail" \in Gates!Statuses(w, x.kind)
    BY <2>1, <2>2 DEF Gates!Statuses
  <2> QED BY <1>2, <2>1, <2>3
<1> QED BY <1>3, <1>4, <1>5 DEF Gates!Failures

\* The rows l were there at one moment: a view of their observations, and of their other rows
\* among more, none of which cites a row of l.
Reads(l, w) ==
    /\ l \subseteq Gates!Ids /\ Gates!Closed(l) /\ w \in Views
    /\ w["obs"] = l \cap Gates!Rows["obs"]
    /\ \A t \in {"obs", "der", "ver", "run", "art"} :
         /\ l \cap Gates!Rows[t] \subseteq w[t]
         /\ \A i \in w[t] : Gates!Cites(i) \cap l # {} => i \in l

\* What is there of a row of that moment: the same, and what it cites.
LEMMA SameRows ==
    ASSUME NEW l, NEW w, Reads(l, w)
    PROVE  /\ Gates!Now(l) \in Views
           /\ \A t \in {"obs", "der", "ver", "run", "art"} : \A i \in l : i \in w[t] <=> i \in Gates!Now(l)[t]
           /\ \A t \in {"obs", "der", "ver", "run", "art"} : \A i \in Gates!Now(l)[t] : i \in l /\ i \in w[t] /\ Row[i].t = t
           /\ \A i \in w["obs"] : i \in l
           /\ "none" \notin l /\ "none" \notin w["run"] /\ "none" \notin Gates!Now(l)["run"]
<1>1. \A t \in {"obs", "der", "ver", "run", "art"} : Gates!Now(l)[t] = l \cap Gates!Rows[t]
  BY DEF Gates!Now
<1>2. l \subseteq Gates!Ids /\ w \in Views
  BY DEF Reads
<1>3. Gates!Now(l) \in [{"obs", "der", "ver", "run", "art"} -> SUBSET Gates!Ids]
  BY <1>2 DEF Gates!Now
<1>4. Gates!Now(l) \in Views
  BY <1>1, <1>3 DEF Views
<1>5. ASSUME NEW t \in {"obs", "der", "ver", "run", "art"}
      PROVE  /\ \A i \in l : i \in w[t] <=> i \in Gates!Now(l)[t]
             /\ \A i \in Gates!Now(l)[t] : i \in l /\ i \in w[t] /\ Row[i].t = t
  <2>1. l \cap Gates!Rows[t] \subseteq w[t] /\ w[t] \subseteq Gates!Rows[t]
    BY <1>2 DEF Reads, Views
  <2>2. Gates!Rows[t] = {i \in Gates!Ids : Row[i].t = t}
    BY TablesMean
  <2> QED BY <1>1, <2>1, <2>2
<1>6. "none" \notin Gates!Ids
  BY EvidenceAssumption DEF Gates!ItemsOK
<1>7. w["run"] \subseteq Gates!Ids /\ Gates!Now(l)["run"] \subseteq Gates!Ids
  BY <1>2, <1>4 DEF Views
<1> QED BY <1>2, <1>4, <1>5, <1>6, <1>7 DEF Reads

\* What a row of that moment cites is of that moment.
LEMMA CitedRows ==
    ASSUME NEW l, NEW w, Reads(l, w), NEW i \in l
    PROVE  /\ Row[i].t \in {"obs", "ver", "art"} => Row[i].run \in l \cup {"none"}
           /\ Row[i].t = "obs" => Gates!Cited(i) \subseteq l
           /\ Row[i].t = "der" => Row[i].inputs \subseteq l
           /\ Row[i].t = "ver" => Row[i].evidence \subseteq l
           /\ Row[i].t = "run" => Row[i].outputs \subseteq l /\ \A x \in Row[i].gates : x.evidence \subseteq l
<1>1. Gates!Cites(i) \subseteq l
  BY DEF Reads, Gates!Closed
<1> QED BY <1>1 DEF Gates!Cites, Gates!Cited

\* The trust in runs and reports of that moment.
LEMMA SameRun ==
    ASSUME NEW l, NEW w, Reads(l, w), NEW r \in l
    PROVE  Gates!RunTrust(w, r) = Gates!RunTrust(Gates!Now(l), r)
<1>1. r \in w["run"] <=> r \in Gates!Now(l)["run"]
  BY SameRows
<1>2. CASE r \in w["run"]
  <2>1. Row[r].t = "run"
    BY <1>1, <1>2, SameRows
  <2>2. Row[r].outputs \subseteq l
    BY <2>1, CitedRows
  <2>3. \A a \in Row[r].outputs : a \in w["art"] <=> a \in Gates!Now(l)["art"]
    BY <2>2, SameRows
  <2> QED BY <1>1, <2>3 DEF Gates!RunTrust
<1>3. CASE r \notin w["run"]
  BY <1>1, <1>3 DEF Gates!RunTrust
<1> QED BY <1>2, <1>3

\* The trust in a report of that moment, as long as no bytes have changed back.
LEMMA SameArtifact ==
    ASSUME NEW l, NEW w, Reads(l, w), NEW good, NEW good1, good \subseteq good1, NEW a \in l
    PROVE  Gates!ArtifactTrust(w, good, a) \in {"no", Gates!ArtifactTrust(Gates!Now(l), good1, a)}
<1>1. a \in w["art"] <=> a \in Gates!Now(l)["art"]
  BY SameRows
<1>2. CASE a \in w["art"] /\ Row[a].run # "none"
  <2>1. Row[a].run \in l
    BY <1>1, <1>2, SameRows, CitedRows
  <2>2. Gates!RunTrust(w, Row[a].run) = Gates!RunTrust(Gates!Now(l), Row[a].run)
    BY <2>1, SameRun
  <2>3. Row[a].run \in w["run"] <=> Row[a].run \in Gates!Now(l)["run"]
    BY <2>1, SameRows
  <2> QED BY <1>1, <1>2, <2>2, <2>3 DEF Gates!ArtifactTrust
<1>3. CASE a \notin w["art"] \/ Row[a].run = "none"
  BY <1>1, <1>3 DEF Gates!ArtifactTrust
<1> QED BY <1>2, <1>3

\* The trust in observations of that moment.
LEMMA SameProducedBy ==
    ASSUME NEW l, NEW w, Reads(l, w), NEW o \in l, Row[o].t = "obs"
    PROVE  Gates!ProducedBy(w, o) = Gates!ProducedBy(Gates!Now(l), o) /\ Gates!ProducedBy(w, o) \subseteq l
<1>1. Gates!Cited(o) \subseteq l
  BY CitedRows
<1>2. Gates!Cited(o) \cap w["art"] = Gates!Cited(o) \cap Gates!Now(l)["art"]
  BY <1>1, SameRows
<1>3. \A a \in Gates!Cited(o) \cap w["art"] : Row[a].run \in l \cup {"none"}
  BY <1>1, <1>2, SameRows, CitedRows
<1> QED BY <1>2, <1>3 DEF Gates!ProducedBy

\* The trust in an observation of that moment.
LEMMA SameObservation ==
    ASSUME NEW l, NEW w, Reads(l, w), NEW good, NEW good1, good \subseteq good1, NEW o \in l
    PROVE  Gates!ObservationTrust(w, good, o) \in {"no", Gates!ObservationTrust(Gates!Now(l), good1, o)}
<1>1. o \in w["obs"] <=> o \in Gates!Now(l)["obs"]
  BY SameRows
<1>2. CASE o \notin w["obs"]
  BY <1>2 DEF Gates!ObservationTrust
<1>3. CASE o \in w["obs"]
  <2> DEFINE n == Gates!Now(l)
             ra == {Gates!RunTrust(w, r) : r \in {Row[o].run} \ {"none"}}
             aa == {Gates!ArtifactTrust(w, good, a) : a \in Gates!Cited(o)}
             rb == {Gates!RunTrust(n, r) : r \in {Row[o].run} \ {"none"}}
             ab == {Gates!ArtifactTrust(n, good1, a) : a \in Gates!Cited(o)}
  <2>1. Row[o].t = "obs" /\ o \in n["obs"]
    BY <1>1, <1>3, SameRows
  <2>2. Row[o].run \in l \cup {"none"} /\ Gates!Cited(o) \subseteq l
    BY <2>1, CitedRows
  <2>3. ra = rb
    <3>1. \A r \in {Row[o].run} \ {"none"} : Gates!RunTrust(w, r) = Gates!RunTrust(n, r)
      BY <2>2, SameRun
    <3> QED BY <3>1
  <2>4. "no" \in aa \/ aa = ab
    <3>1. \A a \in Gates!Cited(o) : Gates!ArtifactTrust(w, good, a) \in {"no", Gates!ArtifactTrust(n, good1, a)}
      BY <2>2, SameArtifact
    <3> QED BY <3>1
  <2>5. "no" \in ra \cup aa \/ ra \cup aa = rb \cup ab
    BY <2>3, <2>4
  <2>6. Gates!ProducedBy(w, o) = Gates!ProducedBy(n, o)
    BY <2>1, SameProducedBy
  <2>7. PICK A : A = ra \cup aa
    OBVIOUS
  <2>8. PICK B : B = rb \cup ab
    OBVIOUS
  <2>9. "no" \in A => Gates!Combine(A) = "no" /\ Gates!CombineTool(A) = "no"
    BY DEF Gates!Combine, Gates!CombineTool
  <2>10. Gates!ObservationTrust(w, good, o) =
           (IF o \notin w["obs"] \/ Row[o].auth \in Gates!Hypotheses \cup {"derived_fact"} \/ ~Row[o].complete THEN "no"
            ELSE IF Row[o].auth \in Gates!ToolAuthorities
            THEN IF Row[o].run # "none" /\ Gates!ProducedBy(w, o) = {Row[o].run} THEN Gates!CombineTool(A) ELSE "no"
            ELSE IF Gates!ProducedBy(w, o) # {} /\ Gates!ProducedBy(w, o) # {Row[o].run} THEN "no"
            ELSE IF A = {} THEN "static" ELSE Gates!Combine(A))
    BY <2>7 DEF Gates!ObservationTrust
  <2>11. Gates!ObservationTrust(n, good1, o) =
           (IF o \notin n["obs"] \/ Row[o].auth \in Gates!Hypotheses \cup {"derived_fact"} \/ ~Row[o].complete THEN "no"
            ELSE IF Row[o].auth \in Gates!ToolAuthorities
            THEN IF Row[o].run # "none" /\ Gates!ProducedBy(n, o) = {Row[o].run} THEN Gates!CombineTool(B) ELSE "no"
            ELSE IF Gates!ProducedBy(n, o) # {} /\ Gates!ProducedBy(n, o) # {Row[o].run} THEN "no"
            ELSE IF B = {} THEN "static" ELSE Gates!Combine(B))
    BY <2>8 DEF Gates!ObservationTrust
  <2>12. "no" \in A \/ A = B
    BY <2>5, <2>7, <2>8
  <2>13. CASE A = B
    BY <1>3, <2>1, <2>6, <2>10, <2>11, <2>13
  <2>14. CASE "no" \in A
    <3>1. A # {}
      BY <2>14
    <3> QED BY <2>9, <2>10, <2>14, <3>1
  <2> QED BY <2>12, <2>13, <2>14
<1> QED BY <1>2, <1>3

\* The trust in derivations, and in any evidence, of that moment.
LEMMA SameDerivation ==
    ASSUME NEW l, NEW w, Reads(l, w), NEW good, NEW good1, good \subseteq good1, NEW d \in l
    PROVE  Gates!DerivationTrust(w, good, d) \in {"no", Gates!DerivationTrust(Gates!Now(l), good1, d)}
<1>1. d \in w["der"] <=> d \in Gates!Now(l)["der"]
  BY SameRows
<1>2. CASE d \notin w["der"]
  BY <1>2 DEF Gates!DerivationTrust
<1>3. CASE d \in w["der"]
  <2> DEFINE A == {Gates!ObservationTrust(w, good, o) : o \in Row[d].inputs}
             B == {Gates!ObservationTrust(Gates!Now(l), good1, o) : o \in Row[d].inputs}
  <2>1. Row[d].inputs \subseteq l
    BY <1>1, <1>3, SameRows, CitedRows
  <2>2. \A o \in Row[d].inputs :
          Gates!ObservationTrust(w, good, o) \in {"no", Gates!ObservationTrust(Gates!Now(l), good1, o)}
    BY <2>1, SameObservation
  <2>3. "no" \in A \/ A = B
    BY <2>2
  <2>4. "no" \in A => Gates!CombineTool(A) = "no"
    BY CombineMeans
  <2> QED BY <1>1, <2>3, <2>4 DEF Gates!DerivationTrust
<1> QED BY <1>2, <1>3

\* The trust in any evidence of that moment.
LEMMA SameEvidence ==
    ASSUME NEW l, NEW w, Reads(l, w), NEW good, NEW good1, good \subseteq good1, NEW e \in l
    PROVE  Gates!EvidenceTrust(w, good, e) \in {"no", Gates!EvidenceTrust(Gates!Now(l), good1, e)}
<1>1. /\ e \in w["obs"] <=> e \in Gates!Now(l)["obs"]
      /\ e \in w["der"] <=> e \in Gates!Now(l)["der"]
      /\ e \in w["art"] <=> e \in Gates!Now(l)["art"]
      /\ e \in w["run"] <=> e \in Gates!Now(l)["run"]
  BY SameRows
<1>2. /\ Gates!ObservationTrust(w, good, e) \in {"no", Gates!ObservationTrust(Gates!Now(l), good1, e)}
      /\ Gates!DerivationTrust(w, good, e) \in {"no", Gates!DerivationTrust(Gates!Now(l), good1, e)}
      /\ Gates!ArtifactTrust(w, good, e) \in {"no", Gates!ArtifactTrust(Gates!Now(l), good1, e)}
      /\ Gates!RunTrust(w, e) = Gates!RunTrust(Gates!Now(l), e)
  BY SameObservation, SameDerivation, SameArtifact, SameRun
<1> QED BY <1>1, <1>2 DEF Gates!EvidenceTrust

\* The observations under a row of that moment, and the runs behind it, are of that moment.
LEMMA SameLeaves ==
    ASSUME NEW l, NEW w, Reads(l, w), NEW e \in l
    PROVE  Gates!Leaves(w, e) = Gates!Leaves(Gates!Now(l), e) /\ Gates!Leaves(w, e) \subseteq l
<1>1. e \in w["der"] <=> e \in Gates!Now(l)["der"]
  BY SameRows
<1>2. e \in w["der"] => Row[e].inputs \subseteq l
  BY <1>1, SameRows, CitedRows
<1> QED BY <1>1, <1>2 DEF Gates!Leaves

\* The runs behind a row of that moment are the same, and of that moment.
LEMMA SameProducers ==
    ASSUME NEW l, NEW w, Reads(l, w), NEW e \in l
    PROVE  Gates!Producers(w, e) = Gates!Producers(Gates!Now(l), e) /\ Gates!Producers(w, e) \subseteq l
<1> DEFINE n == Gates!Now(l)
<1>1. (e \in w["run"] <=> e \in n["run"]) /\ (e \in w["art"] <=> e \in n["art"])
  BY SameRows
<1>2. e \in w["art"] => {Row[e].run} \ {"none"} \subseteq l
  BY <1>1, SameRows, CitedRows
<1>3. ASSUME NEW o \in l
      PROVE  Gates!ObservationRuns(w, o) = Gates!ObservationRuns(n, o) /\ Gates!ObservationRuns(w, o) \subseteq l
  <2>1. o \in w["obs"] <=> o \in n["obs"]
    BY SameRows
  <2>2. CASE o \in w["obs"]
    <3>1. Row[o].t = "obs"
      BY <2>1, <2>2, SameRows
    <3>2. Row[o].run \in l \cup {"none"}
      BY <3>1, CitedRows
    <3>3. Gates!ProducedBy(w, o) = Gates!ProducedBy(n, o) /\ Gates!ProducedBy(w, o) \subseteq l
      BY <3>1, SameProducedBy
    <3> QED BY <2>1, <3>2, <3>3 DEF Gates!ObservationRuns
  <2> QED BY <2>1, <2>2 DEF Gates!ObservationRuns
<1>4. Gates!Leaves(w, e) = Gates!Leaves(n, e) /\ Gates!Leaves(w, e) \subseteq l
  BY SameLeaves
<1>5. /\ UNION {Gates!ObservationRuns(w, o) : o \in Gates!Leaves(w, e)}
           = UNION {Gates!ObservationRuns(n, o) : o \in Gates!Leaves(n, e)}
      /\ UNION {Gates!ObservationRuns(w, o) : o \in Gates!Leaves(w, e)} \subseteq l
  <2>1. \A o \in Gates!Leaves(w, e) : Gates!ObservationRuns(w, o) = Gates!ObservationRuns(n, o)
    BY <1>3, <1>4
  <2>2. {Gates!ObservationRuns(w, o) : o \in Gates!Leaves(w, e)}
           = {Gates!ObservationRuns(n, o) : o \in Gates!Leaves(n, e)}
    BY <1>4, <2>1
  <2>3. \A S \in {Gates!ObservationRuns(w, o) : o \in Gates!Leaves(w, e)} : S \subseteq l
    BY <1>3, <1>4
  <2> QED BY <2>2, <2>3
<1>6. PICK P, Q : P = UNION {Gates!ObservationRuns(w, o) : o \in Gates!Leaves(w, e)}
              /\ Q = UNION {Gates!ObservationRuns(n, o) : o \in Gates!Leaves(n, e)}
  OBVIOUS
<1>7. P = Q /\ P \subseteq l
  BY <1>5, <1>6
<1>8. /\ Gates!Producers(w, e) = IF e \in w["run"] THEN {e} ELSE IF e \in w["art"] THEN {Row[e].run} \ {"none"} ELSE P
      /\ Gates!Producers(n, e) = IF e \in n["run"] THEN {e} ELSE IF e \in n["art"] THEN {Row[e].run} \ {"none"} ELSE Q
  BY <1>6 DEF Gates!Producers
<1> QED BY <1>1, <1>2, <1>7, <1>8

\* What is typed for the reader is typed in the rows of that moment.
LEMMA SameTyped ==
    ASSUME NEW l, NEW w, Reads(l, w), NEW o, NEW r, NEW kinds, Gates!Typed(w, o, r, kinds)
    PROVE  Gates!Typed(Gates!Now(l), o, r, kinds) /\ o \in l
<1>1. o \in w["obs"]
  BY DEF Gates!Typed
<1>2. o \in l /\ o \in Gates!Now(l)["obs"]
  BY <1>1, SameRows
<1>3. Gates!Cited(o) \subseteq l
  BY <1>2, SameRows, CitedRows
<1>4. Gates!Cited(o) \subseteq w["art"] => Gates!Cited(o) \subseteq Gates!Now(l)["art"]
  BY <1>3, SameRows
<1> QED BY <1>2, <1>4 DEF Gates!Typed

\* A verification of that moment is of the same workload and campaign.
LEMMA SameCohort ==
    ASSUME NEW l, NEW w, Reads(l, w), NEW v \in Gates!Now(l)["ver"]
    PROVE  /\ Gates!Workload(w, v) = Gates!Workload(Gates!Now(l), v)
           /\ Gates!Cohort(w, v) = Gates!Cohort(Gates!Now(l), v)
           /\ Row[v].run \in w["run"] <=> Row[v].run \in Gates!Now(l)["run"]
<1>1. Row[v].run \in l \cup {"none"}
  BY SameRows, CitedRows
<1>2. Row[v].run \in w["run"] <=> Row[v].run \in Gates!Now(l)["run"]
  BY <1>1, SameRows
<1> QED BY <1>2 DEF Gates!Workload, Gates!Cohort

\* A passing verification that the reader trusts is of that moment.
LEMMA PassIsThere ==
    ASSUME NEW l, NEW w, Reads(l, w), NEW v, NEW good, Row[v].status = "pass",
           Gates!VerificationTrust(w, good, v) = "tool"
    PROVE  v \in l /\ v \in Gates!Now(l)["ver"]
<1>1. v \in w["ver"] /\ Row[v].evidence # {} /\ Gates!TypedVerification(w, v)
  BY PassMeans
<1>2. PICK e \in Row[v].evidence : TRUE
  BY <1>1
<1>3. e \in w["obs"] \cup w["der"] /\ Gates!Leaves(w, e) # {}
  BY <1>1 DEF Gates!TypedVerification
<1>4. PICK o \in Gates!Leaves(w, e) : Gates!Typed(w, o, Row[v].run, {Row[v].kind})
  <2>1. PICK o \in Gates!Leaves(w, e) : TRUE
    BY <1>3
  <2>2. o \in UNION {Gates!Leaves(w, x) : x \in Row[v].evidence}
    BY <1>2, <2>1
  <2>3. Gates!Typed(w, o, Row[v].run, {Row[v].kind})
    BY <1>1, <2>2 DEF Gates!TypedVerification
  <2> QED BY <2>3
<1>5. o \in l
  BY <1>4, SameTyped
<1>6. e \in l
  <2>1. CASE e \in w["der"]
    <3>1. Row[e].t = "der" /\ o \in Row[e].inputs
      BY <1>4, <2>1, TablesMean DEF Reads, Views, Gates!Leaves
    <3>2. Gates!Cites(e) \cap l # {}
      BY <1>5, <3>1 DEF Gates!Cites
    <3> QED BY <2>1, <3>2 DEF Reads
  <2>2. CASE e \notin w["der"]
    BY <1>4, <1>5, <2>2 DEF Gates!Leaves
  <2> QED BY <2>1, <2>2
<1>7. Row[v].t = "ver"
  BY <1>1, TablesMean DEF Reads, Views
<1>8. Gates!Cites(v) \cap l # {}
  BY <1>2, <1>6, <1>7 DEF Gates!Cites
<1>9. v \in l
  BY <1>1, <1>8 DEF Reads
<1> QED BY <1>1, <1>9, SameRows

\* So are the observations and the runs behind several.
LEMMA SameUnion ==
    ASSUME NEW l, NEW w, Reads(l, w), NEW E, E \subseteq l
    PROVE  /\ UNION {Gates!Leaves(w, e) : e \in E} = UNION {Gates!Leaves(Gates!Now(l), e) : e \in E}
           /\ UNION {Gates!Leaves(w, e) : e \in E} \subseteq l
           /\ UNION {Gates!Producers(w, e) : e \in E} = UNION {Gates!Producers(Gates!Now(l), e) : e \in E}
<1>1. \A e \in E : /\ Gates!Leaves(w, e) = Gates!Leaves(Gates!Now(l), e) /\ Gates!Leaves(w, e) \subseteq l
                   /\ Gates!Producers(w, e) = Gates!Producers(Gates!Now(l), e)
  BY SameLeaves, SameProducers
<1>2. {Gates!Leaves(w, e) : e \in E} = {Gates!Leaves(Gates!Now(l), e) : e \in E}
  BY <1>1
<1>3. {Gates!Producers(w, e) : e \in E} = {Gates!Producers(Gates!Now(l), e) : e \in E}
  BY <1>1
<1> QED BY <1>1, <1>2, <1>3

\* A verification of that moment whose evidence is typed for the reader has typed evidence then.
LEMMA SameTypedVerification ==
    ASSUME NEW l, NEW w, Reads(l, w), NEW v \in Gates!Now(l)["ver"], Gates!TypedVerification(w, v)
    PROVE  Gates!TypedVerification(Gates!Now(l), v)
<1> DEFINE n == Gates!Now(l)
           O == UNION {Gates!Leaves(w, e) : e \in Row[v].evidence}
           r == Row[v].run
<1>1. Row[v].evidence \subseteq l
  BY SameRows, CitedRows
<1>2. O = UNION {Gates!Leaves(n, e) : e \in Row[v].evidence}
  BY <1>1, SameUnion
<1>3. r \in n["run"] /\ Gates!Workload(n, v) = Gates!Workload(w, v)
  BY SameCohort DEF Gates!TypedVerification
<1>4. \A e \in Row[v].evidence : e \in n["obs"] \cup n["der"] /\ Gates!Leaves(n, e) # {}
  <2>1. \A e \in Row[v].evidence : e \in w["obs"] \cup w["der"] /\ Gates!Leaves(w, e) # {}
    BY DEF Gates!TypedVerification
  <2> QED BY <1>1, <2>1, SameRows, SameLeaves
<1>5. /\ Row[v].kind \in DOMAIN Gates!RunStage /\ Row[r].stage = Gates!RunStage[Row[v].kind]
      /\ O # {} /\ \A o \in O : /\ Gates!Typed(w, o, r, {Row[v].kind})
                                /\ Row[o].stage = Gates!ReportStage[Row[v].kind]
      /\ Gates!Workload(w, v) # "none" => \A o \in O : Row[o].work = Gates!Workload(w, v)
      /\ Gates!OneOfEach(Gates!Required[Row[v].kind], O)
      /\ \A o \in O : Row[o].pred \in Gates!Required[Row[v].kind] => Row[o].good
  BY DEF Gates!TypedVerification
<1>6. \A o \in O : Gates!Typed(n, o, r, {Row[v].kind})
  BY <1>5, SameTyped
<1>7. PICK P : P = O
  OBVIOUS
<1>8. P = UNION {Gates!Leaves(n, e) : e \in Row[v].evidence}
  BY <1>2, <1>7
<1>9. /\ P # {} /\ \A o \in P : /\ Gates!Typed(n, o, r, {Row[v].kind})
                                /\ Row[o].stage = Gates!ReportStage[Row[v].kind]
      /\ Gates!Workload(n, v) # "none" => \A o \in P : Row[o].work = Gates!Workload(n, v)
      /\ Gates!OneOfEach(Gates!Required[Row[v].kind], P)
      /\ \A o \in P : Row[o].pred \in Gates!Required[Row[v].kind] => Row[o].good
  BY <1>3, <1>5, <1>6, <1>7
<1> HIDE DEF O
<1> QED BY <1>3, <1>4, <1>5, <1>8, <1>9 DEF Gates!TypedVerification

\* A passing verification that the reader trusts was to be trusted then.
LEMMA SamePass ==
    ASSUME NEW l, NEW w, Reads(l, w), NEW v, NEW good, NEW good1, good \subseteq good1,
           Row[v].status = "pass", Gates!VerificationTrust(w, good, v) = "tool"
    PROVE  v \in l /\ v \in Gates!Now(l)["ver"] /\ Gates!VerificationTrust(Gates!Now(l), good1, v) = "tool"
<1> DEFINE n == Gates!Now(l)
           r == Row[v].run
           E == Row[v].evidence
<1>1. v \in l /\ v \in n["ver"]
  BY PassIsThere
<1>2. r \in l \cup {"none"} /\ E \subseteq l
  BY <1>1, SameRows, CitedRows
<1>0. E \subseteq l
  BY <1>2
<1>3. /\ Gates!Workload(n, v) = Gates!Workload(w, v) /\ (r \in w["run"] <=> r \in n["run"])
  BY <1>1, SameCohort
<1>4. /\ v \in w["ver"] /\ r # "none" /\ E # {} /\ Gates!RunTrust(w, r) = "tool" /\ r \in w["run"]
      /\ Gates!TypedVerification(w, v)
      /\ \A e \in E : Gates!EvidenceTrust(w, good, e) # "no"
      /\ Row[v].work # "none" /\ Row[r].work # "none" => Row[v].work = Row[r].work
  BY PassMeans
<1>5. /\ ~Row[v].synthetic /\ \A e \in E : e \in w["obs"] \cup w["der"] \cup w["art"]
      /\ UNION {Gates!Producers(w, e) : e \in E} = {r}
      /\ Gates!Workload(w, v) # "none" =>
           {Row[o].work : o \in w["obs"] \cap UNION {Gates!Leaves(w, e) : e \in E}} \ {"none"} \subseteq {Gates!Workload(w, v)}
  BY <1>4 DEF Gates!VerificationTrust
<1>6. \A e \in E : e \in n["obs"] \cup n["der"] \cup n["art"]
  BY <1>2, <1>5, SameRows
<1>7. UNION {Gates!Producers(n, e) : e \in E} = {r}
  <2>1. UNION {Gates!Producers(w, e) : e \in E} = UNION {Gates!Producers(n, e) : e \in E}
    <3> HIDE DEF E
    <3> QED BY <1>0, SameUnion
  <2>2. UNION {Gates!Producers(w, e) : e \in E} = {r}
    BY <1>5
  <2> QED BY <2>1, <2>2
<1>8. /\ UNION {Gates!Leaves(w, e) : e \in E} = UNION {Gates!Leaves(n, e) : e \in E}
      /\ UNION {Gates!Leaves(w, e) : e \in E} \subseteq l
  <2> HIDE DEF E
  <2> QED BY <1>0, SameUnion
<1>9. w["obs"] \cap UNION {Gates!Leaves(w, e) : e \in E} = n["obs"] \cap UNION {Gates!Leaves(n, e) : e \in E}
  BY <1>8, SameRows
<1>10. Gates!Workload(n, v) # "none" =>
           {Row[o].work : o \in n["obs"] \cap UNION {Gates!Leaves(n, e) : e \in E}} \ {"none"} \subseteq {Gates!Workload(n, v)}
  BY <1>3, <1>5, <1>9
<1>11. Gates!TypedVerification(n, v)
  BY <1>1, <1>4, SameTypedVerification
<1>12. Gates!RunTrust(n, r) = "tool"
  BY <1>2, <1>4, SameRun
<1> DEFINE S == {Gates!RunTrust(n, x) : x \in {r} \ {"none"}} \cup {Gates!EvidenceTrust(n, good1, e) : e \in E}
<1>13. Gates!CombineTool(S) = "tool"
  <2>1. \A e \in E : Gates!EvidenceTrust(n, good1, e) # "no"
    BY <1>2, <1>4, SameEvidence
  <2>2. "tool" \in S /\ "no" \notin S
    BY <1>4, <1>12, <2>1
  <2> HIDE DEF S
  <2> QED BY <2>2 DEF Gates!CombineTool, Gates!Combine
<1>14. ~(\/ v \notin n["ver"] \/ Row[v].synthetic
         \/ r = "none" \/ E = {}
         \/ \E e \in E : e \notin n["obs"] \cup n["der"] \cup n["art"]
         \/ UNION {Gates!Producers(n, e) : e \in E} # {r})
  BY <1>1, <1>4, <1>5, <1>6, <1>7
<1>15. r \in n["run"]
  BY <1>3, <1>4
<1>16. Gates!VerificationTrust(n, good1, v) = Gates!CombineTool(S)
  BY <1>4, <1>10, <1>11, <1>14, <1>15 DEF Gates!VerificationTrust
<1> QED BY <1>1, <1>13, <1>16

\* Evidence that recomputes for the reader is of that moment, and recomputes then.
LEMMA SameTypedPhysical ==
    ASSUME NEW l, NEW w, Reads(l, w), NEW d \in w["der"], NEW r, Gates!TypedPhysical(w, d, r)
    PROVE  d \in l /\ d \in Gates!Now(l)["der"] /\ Gates!TypedPhysical(Gates!Now(l), d, r)
<1> DEFINE n == Gates!Now(l)
           O == Row[d].inputs
<1>1. /\ O # {}
      /\ \A o \in O : /\ Gates!Producers(w, o) = {r} /\ Gates!Typed(w, o, r, {Row[d].gate})
                      /\ Row[o].stage = "post_route"
  BY DEF Gates!TypedPhysical
<1>2. \A o \in O : o \in l /\ Gates!Typed(n, o, r, {Row[d].gate})
  BY <1>1, SameTyped
<1>3. \A o \in O : Gates!Producers(n, o) = {r}
  BY <1>1, <1>2, SameProducers
<1>4. Row[d].t = "der"
  BY TablesMean DEF Reads, Views
<1>5. Gates!Cites(d) \cap l # {}
  BY <1>1, <1>2, <1>4 DEF Gates!Cites
<1>6. d \in l
  BY <1>5 DEF Reads
<1>7. d \in n["der"]
  BY <1>6, SameRows
<1> QED BY <1>1, <1>2, <1>3, <1>6, <1>7 DEF Gates!TypedPhysical

\* A run that a physical gate rests on for the reader is one it rests on then.
LEMMA SamePhysical ==
    ASSUME NEW l, NEW w, Reads(l, w), NEW good, NEW good1, good \subseteq good1,
           NEW g \in {"resource_fits", "post_route_timing"}, NEW r \in Gates!PhysicalRuns(w, good, g)
    PROVE  /\ r \in Gates!PhysicalRuns(Gates!Now(l), good1, g)
           /\ Gates!TrustedPass(Gates!Now(l), good1, g) /\ "pass" \in Gates!Statuses(Gates!Now(l), g)
<1> DEFINE n == Gates!Now(l)
           A(u, b) == UNION {Gates!Producers(u, d) : d \in {x \in Gates!GateDerivations(u, g) :
                                  Row[x].value = "pass" /\ Gates!PhysicalTrust(u, b, x)}}
           B(u, b) == {x[1] : x \in {y \in Gates!RunGates(u, g) :
                                  y[2].status = "pass" /\ Gates!RunGateTrust(u, b, y[1], y[2])}}
<1>1. CASE r \in A(w, good)
  <2>1. PICK d \in Gates!GateDerivations(w, g) :
            Row[d].value = "pass" /\ Gates!PhysicalTrust(w, good, d) /\ r \in Gates!Producers(w, d)
    BY <1>1
  <2>2. PICK P : P = Gates!Producers(w, d)
    OBVIOUS
  <2>3. /\ Gates!DerivationTrust(w, good, d) = "tool"
        /\ Row[d].stage = "post_route" /\ Cardinality(P) = 1
        /\ \A q \in P : q \in w["run"] /\ Row[q].stage = "post_route" /\ Gates!TypedPhysical(w, d, q)
        /\ r \in P
    <3>1. \A S : Gates!Cardinality(S) = Cardinality(S)
      BY Zenon DEF Gates!Cardinality, Cardinality
    <3> QED BY <2>1, <2>2, <3>1 DEF Gates!PhysicalTrust
  <2>4. d \in w["der"] /\ Row[d].gate = g
    BY <2>1 DEF Gates!GateDerivations
  <2>5. d \in l /\ d \in n["der"] /\ \A q \in P : Gates!TypedPhysical(n, d, q)
    BY <2>3, <2>4, SameTypedPhysical
  <2>6. P = Gates!Producers(n, d) /\ P \subseteq l
    BY <2>2, <2>5, SameProducers
  <2>7. \A q \in P : q \in n["run"]
    BY <2>3, <2>6, SameRows
  <2>8. Gates!DerivationTrust(n, good1, d) = "tool"
    BY <2>3, <2>5, SameDerivation
  <2>9. Gates!PhysicalTrust(n, good1, d)
    <3>1. \A S : Gates!Cardinality(S) = Cardinality(S)
      BY Zenon DEF Gates!Cardinality, Cardinality
    <3> QED BY <2>3, <2>5, <2>6, <2>7, <2>8, <3>1 DEF Gates!PhysicalTrust
  <2>10. d \in Gates!GateDerivations(n, g)
    BY <2>4, <2>5 DEF Gates!GateDerivations
  <2>11. r \in A(n, good1)
    <3>1. Gates!Producers(n, d) \in {Gates!Producers(n, x) : x \in {y \in Gates!GateDerivations(n, g) :
                                       Row[y].value = "pass" /\ Gates!PhysicalTrust(n, good1, y)}}
      BY <2>1, <2>9, <2>10
    <3> QED BY <2>3, <2>6, <3>1
  <2>12. r \in Gates!PhysicalRuns(n, good1, g)
    <3>1. r \in B(n, good1) \cup A(n, good1)
      BY <2>11
    <3> QED BY <3>1 DEF Gates!PhysicalRuns
  <2>13. Gates!TrustedPass(n, good1, g)
    BY <2>1, <2>9, <2>10 DEF Gates!TrustedPass
  <2>14. "pass" \in Gates!Statuses(n, g)
    BY <2>1, <2>10 DEF Gates!Statuses
  <2> QED BY <2>12, <2>13, <2>14
<1>2. CASE r \in B(w, good)
  <2>1. PICK y \in Gates!RunGates(w, g) :
            y[2].status = "pass" /\ Gates!RunGateTrust(w, good, y[1], y[2]) /\ r = y[1]
    BY <1>2
  <2>2. PICK x : x = y[2]
    OBVIOUS
  <2>3. /\ y = <<r, x>> /\ r \in w["run"] /\ x \in Row[r].gates /\ x.kind = g /\ x.status = "pass"
        /\ Gates!RunGateTrust(w, good, r, x)
    BY <2>1, <2>2 DEF Gates!RunGates
  <2>4. /\ x.evidence # {} /\ Row[r].stage \in Gates!ValidStages[x.kind]
        /\ Gates!CombineTool({Gates!RunTrust(w, r)}
                                 \cup {Gates!GateEvidenceTrust(w, good, e) : e \in x.evidence}) = "tool"
        /\ x.evidence \cap w["run"] = {} /\ UNION {Gates!GateProducers(w, e) : e \in x.evidence} = {r}
        /\ \A e \in x.evidence : e \in w["der"] /\ Row[e].gate = x.kind /\ Gates!TypedPhysical(w, e, r)
    BY <2>3 DEF Gates!RunGateTrust
  <2>5. \A e \in x.evidence : e \in l /\ e \in n["der"] /\ Gates!TypedPhysical(n, e, r)
    BY <2>4, SameTypedPhysical
  <2>6. \A e \in x.evidence : e \notin w["ver"] /\ e \notin n["ver"]
    <3>1. \A e \in w["ver"] : e \notin w["der"]
      BY TablesMean DEF Reads, Views
    <3> QED BY <2>4, <2>5, <3>1, SameRows
  <2>7. \A e \in x.evidence :
           /\ Gates!GateEvidenceTrust(w, good, e) = Gates!EvidenceTrust(w, good, e)
           /\ Gates!GateEvidenceTrust(n, good1, e) = Gates!EvidenceTrust(n, good1, e)
           /\ Gates!GateProducers(w, e) = Gates!Producers(w, e)
           /\ Gates!GateProducers(n, e) = Gates!Producers(n, e)
    BY <2>6 DEF Gates!GateEvidenceTrust, Gates!GateProducers
  <2>8. r \in l
    <3>1. Row[r].t = "run"
      BY <2>3, TablesMean DEF Reads, Views
    <3>2. \A e \in x.evidence : e \in Gates!Cites(r)
      BY <2>3, <3>1 DEF Gates!Cites
    <3>3. Gates!Cites(r) \cap l # {}
      BY <2>4, <2>5, <3>2
    <3> QED BY <2>3, <3>3 DEF Reads
  <2>9. r \in n["run"] /\ Gates!RunTrust(n, r) = Gates!RunTrust(w, r)
    BY <2>3, <2>8, SameRows, SameRun
  <2> DEFINE S == {Gates!RunTrust(w, r)} \cup {Gates!GateEvidenceTrust(w, good, e) : e \in x.evidence}
             T == {Gates!RunTrust(n, r)} \cup {Gates!GateEvidenceTrust(n, good1, e) : e \in x.evidence}
  <2>10. Gates!CombineTool(T) = "tool"
    <3>1. "no" \notin S
      BY <2>4, CombineMeans
    <3>2. \A e \in x.evidence : Gates!GateEvidenceTrust(w, good, e) = Gates!GateEvidenceTrust(n, good1, e)
      BY <2>5, <2>7, <3>1, SameEvidence
    <3>3. S = T
      BY <2>9, <3>2
    <3> QED BY <2>4, <3>3
  <2>11. x.evidence \cap n["run"] = {}
    BY <2>4, SameRows
  <2>12. UNION {Gates!GateProducers(n, e) : e \in x.evidence} = {r}
    <3>1. \A e \in x.evidence : Gates!GateProducers(w, e) = Gates!GateProducers(n, e)
      BY <2>5, <2>7, SameProducers
    <3>2. {Gates!GateProducers(w, e) : e \in x.evidence} = {Gates!GateProducers(n, e) : e \in x.evidence}
      BY <3>1
    <3> QED BY <2>4, <3>2
  <2>13. Gates!RunGateTrust(n, good1, r, x)
    BY <2>4, <2>5, <2>10, <2>11, <2>12 DEF Gates!RunGateTrust
  <2>14. <<r, x>> \in Gates!RunGates(n, g)
    BY <2>3, <2>9 DEF Gates!RunGates
  <2>15. r \in B(n, good1)
    BY <2>3, <2>13, <2>14
  <2>16. r \in Gates!PhysicalRuns(n, good1, g)
    <3>1. r \in B(n, good1) \cup A(n, good1)
      BY <2>15
    <3> QED BY <3>1 DEF Gates!PhysicalRuns
  <2>17. Gates!TrustedPass(n, good1, g)
    BY <2>3, <2>13, <2>14 DEF Gates!TrustedPass
  <2>18. "pass" \in Gates!Statuses(n, g)
    BY <2>3, <2>14 DEF Gates!Statuses
  <2> QED BY <2>16, <2>17, <2>18
<1>3. r \in B(w, good) \cup A(w, good)
  BY DEF Gates!PhysicalRuns
<1> HIDE DEF A, B
<1> QED BY <1>1, <1>2, <1>3

\* What is offered to a gate of that moment, the reader was offered too.
LEMMA SameStatuses ==
    ASSUME NEW l, NEW w, Reads(l, w), NEW g \in Gates!GateKinds
    PROVE  Gates!Statuses(Gates!Now(l), g) \subseteq Gates!Statuses(w, g)
<1> DEFINE n == Gates!Now(l)
<1>1. n["run"] \subseteq w["run"] /\ n["ver"] \subseteq w["ver"] /\ n["der"] \subseteq w["der"]
  BY SameRows
<1>2. \A x \in Gates!RunGates(n, g) : x \in Gates!RunGates(w, g)
  BY <1>1 DEF Gates!RunGates
<1>3. Gates!Verifications(n) \subseteq Gates!Verifications(w)
  BY <1>1 DEF Gates!Verifications
<1>4. Gates!GateDerivations(n, g) \subseteq Gates!GateDerivations(w, g)
  BY <1>1 DEF Gates!GateDerivations
<1> QED BY <1>2, <1>3, <1>4 DEF Gates!Statuses

\* A campaign that is eligible for the reader is eligible then.
LEMMA SameCampaign ==
    ASSUME NEW l, NEW w, Reads(l, w), NEW good, NEW good1, good \subseteq good1,
           NEW c \in Gates!EligibleCampaigns(w, good)
    PROVE  /\ c \in Gates!EligibleCampaigns(Gates!Now(l), good1)
           /\ Gates!TrustedPass(Gates!Now(l), good1, "correctness")
           /\ "pass" \in Gates!Statuses(Gates!Now(l), "correctness")
<1> DEFINE n == Gates!Now(l)
<1>1. /\ c # <<"none", "none">>
      /\ \A kind \in DOMAIN Gates!RunStage :
           /\ Gates!Status({Row[v].status : v \in Gates!InCohort(w, c, kind)}) = "pass"
           /\ Gates!EligibleRuns(w, good, c, kind) # {}
  BY DEF Gates!EligibleCampaigns
<1>2. ASSUME NEW kind \in DOMAIN Gates!RunStage
      PROVE  \E v \in Gates!InCohort(n, c, kind) :
               /\ Row[v].status = "pass" /\ Gates!VerificationTrust(n, good1, v) = "tool"
               /\ v \in Gates!Verifications(n) /\ Gates!Cohort(n, v) = c
  <2>1. PICK r \in Gates!EligibleRuns(w, good, c, kind) : TRUE
    BY <1>1, <1>2
  <2>2. PICK v \in Gates!InCohort(w, c, kind) :
            Row[v].status = "pass" /\ Gates!VerificationTrust(w, good, v) = "tool"
    BY <2>1 DEF Gates!EligibleRuns
  <2>3. v \in n["ver"] /\ Gates!VerificationTrust(n, good1, v) = "tool"
    BY <2>2, SamePass
  <2>4. Gates!Cohort(n, v) = Gates!Cohort(w, v)
    BY <2>3, SameCohort
  <2>5. v \in Gates!Verifications(w) /\ Row[v].kind = kind /\ Gates!Cohort(w, v) = c
    BY <2>2 DEF Gates!InCohort
  <2>6. v \in Gates!Verifications(n)
    BY <2>3, <2>5 DEF Gates!Verifications
  <2>7. v \in Gates!InCohort(n, c, kind)
    BY <2>4, <2>5, <2>6 DEF Gates!InCohort
  <2> QED BY <2>2, <2>3, <2>4, <2>5, <2>6, <2>7
<1>3. ASSUME NEW kind \in DOMAIN Gates!RunStage
      PROVE  Gates!Status({Row[v].status : v \in Gates!InCohort(n, c, kind)}) = "pass"
  <2>1. \A v \in Gates!InCohort(n, c, kind) : v \in Gates!InCohort(w, c, kind)
    <3> SUFFICES ASSUME NEW v \in Gates!InCohort(n, c, kind) PROVE v \in Gates!InCohort(w, c, kind)
      OBVIOUS
    <3>1. v \in n["ver"] /\ v \in Gates!Verifications(n) /\ Row[v].kind = kind /\ Gates!Cohort(n, v) = c
      BY DEF Gates!InCohort, Gates!Verifications
    <3>2. Gates!Cohort(w, v) = c
      BY <3>1, SameCohort
    <3>3. v \in w["ver"]
      BY <3>1, SameRows
    <3> QED BY <3>1, <3>2, <3>3 DEF Gates!InCohort, Gates!Verifications
  <2>2. PICK S, T : /\ S = {Row[v].status : v \in Gates!InCohort(n, c, kind)}
                    /\ T = {Row[v].status : v \in Gates!InCohort(w, c, kind)}
    OBVIOUS
  <2>3. S \subseteq T
    BY <2>1, <2>2
  <2>4. "pass" \in S
    BY <1>2, <2>2
  <2>5. Gates!Status(T) = "pass"
    BY <1>1, <2>2
  <2>6. "fail" \notin T
    BY <2>5 DEF Gates!Status
  <2>7. Gates!Status(S) = "pass"
    BY <2>3, <2>4, <2>6 DEF Gates!Status
  <2> QED BY <2>2, <2>7
<1>4. \A kind \in DOMAIN Gates!RunStage : Gates!EligibleRuns(n, good1, c, kind) # {}
  BY <1>2 DEF Gates!EligibleRuns
<1>5. "csim" \in DOMAIN Gates!RunStage
  BY DEF Gates!RunStage
<1>6. PICK v \in Gates!Verifications(n) :
          Gates!Cohort(n, v) = c /\ Row[v].status = "pass" /\ Gates!VerificationTrust(n, good1, v) = "tool"
  BY <1>2, <1>5
<1>7. c \in {Gates!Cohort(n, u) : u \in Gates!Verifications(n)}
  BY <1>6
<1>8. c \in Gates!EligibleCampaigns(n, good1)
  BY <1>1, <1>3, <1>4, <1>7 DEF Gates!EligibleCampaigns
<1>9. Gates!TrustedPass(n, good1, "correctness")
  BY <1>6 DEF Gates!TrustedPass
<1>10. "pass" \in Gates!Statuses(n, "correctness")
  BY <1>6 DEF Gates!Statuses
<1> QED BY <1>8, <1>9, <1>10

\* A design that is verified for the reader was verified then.
LEMMA SameVerdict ==
    ASSUME NEW l, NEW w, Reads(l, w), NEW good, NEW good1, good \subseteq good1, Gates!Verified(w, good)
    PROVE  Gates!Verified(Gates!Now(l), good1)
<1> DEFINE n == Gates!Now(l)
<1>1. PICK c \in Gates!EligibleCampaigns(w, good) : TRUE
  BY DEF Gates!Verified
<1>2. /\ Gates!EligibleCampaigns(n, good1) # {}
      /\ Gates!TrustedPass(n, good1, "correctness") /\ "pass" \in Gates!Statuses(n, "correctness")
  BY <1>1, SameCampaign
<1>3. PICK p : /\ p \in Gates!PhysicalRuns(w, good, "resource_fits")
               /\ p \in Gates!PhysicalRuns(w, good, "post_route_timing")
  BY DEF Gates!Verified, Gates!EligiblePhysical
<1>4. \A g \in {"resource_fits", "post_route_timing"} :
          /\ p \in Gates!PhysicalRuns(n, good1, g)
          /\ Gates!TrustedPass(n, good1, g) /\ "pass" \in Gates!Statuses(n, g)
  BY <1>3, SamePhysical
<1>5. Gates!EligiblePhysical(n, good1) # {}
  BY <1>4 DEF Gates!EligiblePhysical
<1>6. \A g \in Gates!GateKinds : Gates!TrustedPass(n, good1, g) /\ "pass" \in Gates!Statuses(n, g)
  BY <1>2, <1>4 DEF Gates!GateKinds
<1>7. \A g \in Gates!GateKinds : Gates!GateStatus(n, g) = "pass"
  <2> SUFFICES ASSUME NEW g \in Gates!GateKinds PROVE Gates!GateStatus(n, g) = "pass"
    OBVIOUS
  <2>1. Gates!GateStatus(w, g) = "pass"
    BY DEF Gates!Verified
  <2>2. "fail" \notin Gates!Statuses(w, g)
    BY <2>1 DEF Gates!GateStatus, Gates!Status
  <2>3. "fail" \notin Gates!Statuses(n, g)
    BY <2>2, SameStatuses
  <2> QED BY <1>6, <2>3 DEF Gates!GateStatus, Gates!Status
<1> QED BY <1>2, <1>5, <1>6, <1>7 DEF Gates!Verified

\* A verdict says yes or no.
LEMMA VerifiedIsBoolean == ASSUME NEW w, NEW good PROVE Gates!Verified(w, good) \in BOOLEAN
  BY DEF Gates!Verified

\* What was read at the moments of the call, in the reader's terms.
LEMMA ReadAtMeans ==
    ASSUME Gates!TypeOK, NEW l, Gates!ReadAt(l), pc = 6
    PROVE  Reads(l, view)
<1>1. /\ view \in Views /\ rows \subseteq Gates!Ids
      /\ \A t \in {"obs", "der", "ver", "run", "art"} : view[t] \subseteq rows \cap Gates!Rows[t]
  BY ViewIsThere
<1>2. \A k \in 2..5 : l \cap Gates!Rows[Gates!Tables[k]] \subseteq view[Gates!Tables[k]]
  BY DEF Gates!ReadAt
<1>3. \A t \in {"obs", "der", "ver", "run", "art"} : l \cap Gates!Rows[t] \subseteq view[t]
  <2>1. 2 \in 2..5 /\ 3 \in 2..5 /\ 4 \in 2..5 /\ 5 \in 2..5
    OBVIOUS
  <2>2. l \cap Gates!Rows["obs"] \subseteq view["obs"]
    BY DEF Gates!ReadAt
  <2> QED BY <1>2, <2>1, <2>2, TablesMean
<1> QED BY <1>1, <1>3 DEF Gates!ReadAt, Reads

\* The rows of one moment are what they are.
LEMMA NowReads ==
    ASSUME NEW l, l \subseteq Gates!Ids, Gates!Closed(l)
    PROVE  Reads(l, Gates!Now(l))
<1>1. \A t \in {"obs", "der", "ver", "run", "art"} : Gates!Now(l)[t] = l \cap Gates!Rows[t]
  BY DEF Gates!Now
<1>2. Gates!Now(l) \in [{"obs", "der", "ver", "run", "art"} -> SUBSET Gates!Ids]
  BY DEF Gates!Now
<1>3. Gates!Now(l) \in Views
  BY <1>1, <1>2 DEF Views
<1> QED BY <1>1, <1>3 DEF Reads

\* A report that changes verifies nothing.
LEMMA DamageVerifies ==
    ASSUME NEW l, l \subseteq Gates!Ids, Gates!Closed(l), NEW good, NEW good1, good \subseteq good1,
           Gates!Verified(Gates!Now(l), good)
    PROVE  Gates!Verified(Gates!Now(l), good1)
BY NowReads, SameVerdict

\* Before the call nothing is read, and what is there is whole.
LEMMA GatesInit == Gates!Init => Gates!IInv
<1> SUFFICES ASSUME Gates!Init PROVE Gates!IInv
  OBVIOUS
<1>1. /\ plan \in AllPlans /\ rows = plan.earlier /\ intact = Gates!Rows["art"] /\ pc = 0
      /\ view = Gates!Now({}) /\ held = Gates!Verified(Gates!Now(rows), intact) /\ failed = {} /\ verdict = FALSE
  BY DEF Gates!Init
<1>2. rows \subseteq Gates!Ids /\ Gates!Closed(rows)
  BY <1>1, EvidenceAssumption DEF Gates!ItemsOK
<1>3. \A t \in {"obs", "der", "ver", "run", "art"} : view[t] = {}
  BY <1>1 DEF Gates!Now
<1>4. view \in [DOMAIN Gates!Rows -> SUBSET rows]
  BY <1>1, TablesMean DEF Gates!Now
<1>5. \A k \in 1..5 : Gates!Tables[k] \in {"obs", "der", "ver", "run", "art"}
  BY DEF Gates!Tables
<1>6. Gates!TypeOK
  <2>1. \A k \in 1..5 : view[Gates!Tables[k]] \subseteq Gates!Rows[Gates!Tables[k]]
    BY <1>3, <1>5
  <2>2. view["obs"] = {}
    BY <1>3
  <2>3. held \in BOOLEAN
    <3>1. Gates!Verified(Gates!Now(rows), intact) \in BOOLEAN
      BY VerifiedIsBoolean
    <3> QED BY <1>1, <3>1, Zenon
  <2>4. /\ plan \in AllPlans /\ rows \subseteq Gates!Ids /\ intact \subseteq Gates!Rows["art"] /\ pc = 0
        /\ failed \subseteq rows /\ verdict \in BOOLEAN
    BY <1>1, <1>2
  <2>5. pc \in 0..6 /\ ~(pc >= 4)
    BY <2>4
  <2> QED BY <1>4, <2>1, <2>2, <2>3, <2>4, <2>5 DEF Gates!TypeOK
<1>7. Gates!FailuresAreRead
  BY <1>1 DEF Gates!FailuresAreRead
<1>8. Gates!Transactions
  BY <1>1 DEF Gates!Transactions, Gates!RowsComeWhole
<1> QED BY <1>1, <1>2, <1>6, <1>7, <1>8 DEF Gates!IInv

\* A transaction adds rows with what they cite, none of which was read.
LEMMA CommitIInv == ASSUME Gates!IInv, Gates!Commit PROVE Gates!IInv'
<1>1. PICK b \in plan.batches :
          /\ pc < 6 /\ ~(b \subseteq rows) /\ (\A i \in b : Gates!Cites(i) \subseteq rows \cup b)
          /\ rows' = rows \cup b /\ held' = (held \/ Gates!Verified(Gates!Now(rows'), intact))
          /\ UNCHANGED <<plan, intact, pc, view, failed, verdict>>
  BY DEF Gates!Commit
<1>2. /\ Gates!TypeOK /\ rows \subseteq Gates!Ids /\ Gates!Closed(rows) /\ Gates!FailuresAreRead /\ Gates!Transactions
      /\ Gates!Verified(Gates!Now(rows), intact) => held
      /\ pc = 6 => verdict = Gates!Verified(view, intact)
      /\ Gates!RowsComeWhole /\ pc # 0 => \E l \in SUBSET rows : Gates!ReadAt(l)
  BY DEF Gates!IInv
<1>3. b \subseteq Gates!Ids
  BY <1>1, <1>2, EvidenceAssumption DEF Gates!ItemsOK, Gates!TypeOK
<1>4. rows' \subseteq Gates!Ids /\ Gates!Closed(rows')
  BY <1>1, <1>2, <1>3 DEF Gates!Closed
<1>5. Gates!TypeOK'
  <2>1. held' \in BOOLEAN
    BY <1>1, <1>2, VerifiedIsBoolean DEF Gates!TypeOK
  <2>2. view' \in [DOMAIN Gates!Rows -> SUBSET rows']
    BY <1>1, <1>2, TablesMean DEF Gates!TypeOK
  <2> QED BY <1>1, <1>2, <1>4, <2>1, <2>2 DEF Gates!TypeOK
<1>6. Gates!FailuresAreRead'
  BY <1>1, <1>2 DEF Gates!FailuresAreRead, Gates!Failures
<1>7. Gates!RowsComeWhole' = Gates!RowsComeWhole
  BY <1>1 DEF Gates!RowsComeWhole
<1>8. ASSUME Gates!RowsComeWhole
      PROVE  /\ \A c \in plan.batches \cup {plan.earlier} : c \subseteq rows' \/ c \cap rows' = {}
             /\ b \cap rows = {} /\ Gates!Closed(b)
  <2>1. \A c \in plan.batches \cup {plan.earlier} : c \subseteq rows \/ c \cap rows = {}
    BY <1>2, <1>8 DEF Gates!Transactions
  <2>2. \A c \in plan.batches \cup {plan.earlier} : c = b \/ c \cap b = {}
    BY <1>8 DEF Gates!RowsComeWhole
  <2>3. Gates!Closed(b)
    BY <1>8 DEF Gates!RowsComeWhole
  <2> QED BY <1>1, <2>1, <2>2, <2>3
<1>9. Gates!Transactions'
  BY <1>1, <1>7, <1>8 DEF Gates!Transactions
<1>10. ASSUME Gates!RowsComeWhole, pc # 0 PROVE \E l \in SUBSET rows' : Gates!ReadAt(l)'
  <2>1. PICK l \in SUBSET rows : Gates!ReadAt(l)
    BY <1>2, <1>10
  <2>2. \A i \in rows' : Gates!Cites(i) \cap l # {} => i \in l
    <3> SUFFICES ASSUME NEW i \in rows', Gates!Cites(i) \cap l # {} PROVE i \in l
      OBVIOUS
    <3>1. CASE i \in rows
      BY <2>1, <3>1 DEF Gates!ReadAt
    <3>2. CASE i \in b
      <4>1. Gates!Cites(i) \subseteq b
        BY <1>8, <1>10, <3>2 DEF Gates!Closed
      <4> QED BY <1>8, <1>10, <4>1
    <3> QED BY <1>1, <3>1, <3>2
  <2>3. Gates!ReadAt(l)'
    BY <1>1, <2>1, <2>2 DEF Gates!ReadAt
  <2> QED BY <1>1, <2>3
<1> QED BY <1>1, <1>2, <1>4, <1>5, <1>6, <1>7, <1>9, <1>10 DEF Gates!IInv

\* A report that changes makes nothing verified.
LEMMA DamageIInv == ASSUME Gates!IInv, Gates!Damage PROVE Gates!IInv'
<1>1. /\ pc < 6 /\ intact' \subseteq intact
      /\ UNCHANGED <<plan, rows, pc, view, held, failed, verdict>>
  BY DEF Gates!Damage
<1>2. /\ Gates!TypeOK /\ rows \subseteq Gates!Ids /\ Gates!Closed(rows) /\ Gates!FailuresAreRead /\ Gates!Transactions
      /\ Gates!Verified(Gates!Now(rows), intact) => held
      /\ Gates!RowsComeWhole /\ pc # 0 => \E l \in SUBSET rows : Gates!ReadAt(l)
  BY DEF Gates!IInv
<1>3. Gates!TypeOK'
  BY <1>1, <1>2 DEF Gates!TypeOK
<1>4. Gates!FailuresAreRead' /\ Gates!Transactions' /\ Gates!RowsComeWhole' = Gates!RowsComeWhole
  BY <1>1, <1>2 DEF Gates!FailuresAreRead, Gates!Transactions, Gates!RowsComeWhole
<1>5. Gates!Verified(Gates!Now(rows), intact') => held
  BY <1>1, <1>2, DamageVerifies
<1>6. ASSUME NEW l \in SUBSET rows, Gates!ReadAt(l) PROVE Gates!ReadAt(l)'
  <2>1. l \subseteq Gates!Ids /\ Gates!Closed(l)
    BY <1>2, <1>6 DEF Gates!ReadAt
  <2>2. Gates!Verified(Gates!Now(l), intact') => held
    BY <1>1, <1>6, <2>1, DamageVerifies DEF Gates!ReadAt
  <2> QED BY <1>1, <1>6, <2>2 DEF Gates!ReadAt
<1> QED BY <1>1, <1>2, <1>3, <1>4, <1>5, <1>6 DEF Gates!IInv

\* One more table is read of the rows that are there.
LEMMA ReadIInv == ASSUME Gates!IInv, NEW k \in 1..5, Gates!ReadTable(k) PROVE Gates!IInv'
<1>1. PICK t : t = Gates!Tables[k]
  OBVIOUS
<1>2. /\ pc = k - 1 /\ pc' = k /\ view' = [view EXCEPT ![t] = rows \cap Gates!Rows[t]]
      /\ failed' = IF k = 1 THEN Gates!Failures(rows) ELSE failed
      /\ UNCHANGED <<plan, rows, intact, held, verdict>>
  BY <1>1 DEF Gates!ReadTable
<1>3. /\ Gates!TypeOK /\ rows \subseteq Gates!Ids /\ Gates!Closed(rows) /\ Gates!FailuresAreRead /\ Gates!Transactions
      /\ Gates!Verified(Gates!Now(rows), intact) => held
      /\ Gates!RowsComeWhole /\ pc # 0 => \E l \in SUBSET rows : Gates!ReadAt(l)
  BY DEF Gates!IInv
<1>4. t \in {"obs", "der", "ver", "run", "art"}
  BY <1>1 DEF Gates!Tables
<1>5. /\ view' \in [{"obs", "der", "ver", "run", "art"} -> SUBSET rows]
      /\ view'[t] = rows \cap Gates!Rows[t]
      /\ \A u \in {"obs", "der", "ver", "run", "art"} \ {t} : view'[u] = view[u]
  BY <1>2, <1>3, <1>4, TablesMean DEF Gates!TypeOK
<1>6. \A j \in 1..5 : Gates!Tables[j] \in {"obs", "der", "ver", "run", "art"} /\ (Gates!Tables[j] = t => j = k)
  BY <1>1 DEF Gates!Tables
<1>7. \A j \in 1..5 : j # k => view'[Gates!Tables[j]] = view[Gates!Tables[j]]
  BY <1>5, <1>6
<1>8. failed' \subseteq Gates!Failures(rows) /\ (k # 1 => failed' = failed) /\ Gates!Failures(rows) \subseteq rows
  BY <1>2, <1>3 DEF Gates!FailuresAreRead, Gates!Failures
<1>9. Gates!TypeOK'
  <2>1. \A j \in 1..5 : view'[Gates!Tables[j]] \subseteq Gates!Rows[Gates!Tables[j]]
    <3> SUFFICES ASSUME NEW j \in 1..5 PROVE view'[Gates!Tables[j]] \subseteq Gates!Rows[Gates!Tables[j]]
      OBVIOUS
    <3>1. CASE j = k
      BY <1>1, <1>5, <3>1
    <3>2. CASE j # k
      BY <1>3, <1>7, <3>2 DEF Gates!TypeOK
    <3> QED BY <3>1, <3>2
  <2>2. ASSUME NEW i \in view'["obs"], Row[i].run # "none", pc' >= 4 PROVE Row[i].run \in view'["run"]
    <3>1. k \in {4, 5}
      BY <1>2, <2>2
    <3>2. t \in {"run", "art"} /\ (k = 4 => t = "run") /\ (k = 5 => t = "art")
      BY <1>1, <3>1 DEF Gates!Tables
    <3>3. i \in view["obs"]
      BY <1>5, <2>2, <3>2
    <3>4. CASE k = 4
      <4>1. i \in rows /\ i \in Gates!Rows["obs"]
        BY <1>3, <3>3, ViewIsThere
      <4>2. Row[i].t = "obs" /\ Row[i].run \in Gates!Rows["run"]
        BY <2>2, <4>1, EvidenceAssumption, TablesMean DEF Gates!ItemsOK
      <4>3. Row[i].run \in Gates!Cites(i)
        BY <2>2, <4>2 DEF Gates!Cites
      <4>4. Row[i].run \in rows
        BY <1>3, <4>1, <4>3 DEF Gates!Closed
      <4> QED BY <1>5, <3>2, <3>4, <4>2, <4>4
    <3>5. CASE k = 5
      <4>1. pc >= 4 /\ view'["run"] = view["run"]
        BY <1>2, <1>5, <3>2, <3>5
      <4> QED BY <1>3, <2>2, <3>3, <4>1 DEF Gates!TypeOK
    <3> QED BY <3>1, <3>4, <3>5
  <2>3. /\ plan' \in AllPlans /\ rows' \subseteq Gates!Ids /\ intact' \subseteq Gates!Rows["art"]
        /\ pc' \in 0..6 /\ held' \in BOOLEAN /\ verdict' \in BOOLEAN /\ failed' \subseteq rows'
    BY <1>2, <1>3, <1>8 DEF Gates!TypeOK
  <2>4. view' \in [DOMAIN Gates!Rows -> SUBSET rows']
    BY <1>2, <1>5, TablesMean
  <2> QED BY <2>1, <2>2, <2>3, <2>4 DEF Gates!TypeOK
<1>10. Gates!FailuresAreRead'
  <2>1. \A j \in 1..5 : pc' >= j => failed' \cap Gates!Rows[Gates!Tables[j]] \subseteq view'[Gates!Tables[j]]
    <3> SUFFICES ASSUME NEW j \in 1..5, pc' >= j
                 PROVE  failed' \cap Gates!Rows[Gates!Tables[j]] \subseteq view'[Gates!Tables[j]]
      OBVIOUS
    <3>1. CASE j = k
      BY <1>1, <1>5, <1>8, <3>1
    <3>2. CASE j # k
      <4>1. pc >= j /\ k # 1
        BY <1>2, <3>2
      <4>2. failed \cap Gates!Rows[Gates!Tables[j]] \subseteq view[Gates!Tables[j]]
        BY <1>3, <4>1 DEF Gates!FailuresAreRead
      <4> QED BY <1>7, <1>8, <3>2, <4>1, <4>2
    <3> QED BY <3>1, <3>2
  <2> QED BY <1>2, <1>8, <2>1 DEF Gates!FailuresAreRead, Gates!Failures
<1>11. Gates!Transactions' /\ Gates!RowsComeWhole' = Gates!RowsComeWhole
  BY <1>2, <1>3 DEF Gates!Transactions, Gates!RowsComeWhole
<1>12. ASSUME Gates!RowsComeWhole PROVE \E l \in SUBSET rows : Gates!ReadAt(l)'
  <2>1. CASE k = 1
    <3>1. view'["obs"] = rows \cap Gates!Rows["obs"]
      BY <1>1, <1>5, <2>1, TablesMean
    <3>2. \A j \in 2..5 : ~(pc' >= j)
      BY <1>2, <2>1
    <3>3. Gates!ReadAt(rows)'
      BY <1>2, <1>3, <3>1, <3>2 DEF Gates!ReadAt
    <3> QED BY <1>2, <3>3
  <2>2. CASE k # 1
    <3>1. PICK l \in SUBSET rows : Gates!ReadAt(l)
      BY <1>2, <1>3, <1>12, <2>2
    <3>2. t # "obs"
      BY <1>6, <2>2, TablesMean
    <3>3. view'["obs"] = l \cap Gates!Rows["obs"]
      BY <1>5, <3>1, <3>2 DEF Gates!ReadAt
    <3>4. \A j \in 2..5 : pc' >= j => l \cap Gates!Rows[Gates!Tables[j]] \subseteq view'[Gates!Tables[j]]
      <4> SUFFICES ASSUME NEW j \in 2..5, pc' >= j
                   PROVE  l \cap Gates!Rows[Gates!Tables[j]] \subseteq view'[Gates!Tables[j]]
        OBVIOUS
      <4>1. CASE j = k
        BY <1>1, <1>5, <4>1
      <4>2. CASE j # k
        <5>1. pc >= j
          BY <1>2, <4>2
        <5> QED BY <1>7, <3>1, <4>2, <5>1 DEF Gates!ReadAt
      <4> QED BY <4>1, <4>2
    <3>5. Gates!ReadAt(l)'
      BY <1>2, <3>1, <3>3, <3>4 DEF Gates!ReadAt
    <3> QED BY <3>5
  <2> QED BY <2>1, <2>2
<1> QED BY <1>2, <1>3, <1>9, <1>10, <1>11, <1>12 DEF Gates!IInv

\* The verdict is of what was read.
LEMMA JudgeIInv == ASSUME Gates!IInv, Gates!Judge PROVE Gates!IInv'
<1>1. /\ pc = 5 /\ pc' = 6 /\ verdict' = Gates!Verified(view, intact)
      /\ UNCHANGED <<plan, rows, intact, view, held, failed>>
  BY DEF Gates!Judge
<1>2. /\ Gates!TypeOK /\ rows \subseteq Gates!Ids /\ Gates!Closed(rows) /\ Gates!FailuresAreRead /\ Gates!Transactions
      /\ Gates!Verified(Gates!Now(rows), intact) => held
      /\ Gates!RowsComeWhole /\ pc # 0 => \E l \in SUBSET rows : Gates!ReadAt(l)
  BY DEF Gates!IInv
<1>3. Gates!TypeOK'
  BY <1>1, <1>2, VerifiedIsBoolean DEF Gates!TypeOK
<1>4. Gates!FailuresAreRead' /\ Gates!Transactions' /\ Gates!RowsComeWhole' = Gates!RowsComeWhole
  BY <1>1, <1>2 DEF Gates!FailuresAreRead, Gates!Transactions, Gates!RowsComeWhole
<1>5. \A l \in SUBSET rows : Gates!ReadAt(l) => Gates!ReadAt(l)'
  BY <1>1 DEF Gates!ReadAt
<1> QED BY <1>1, <1>2, <1>3, <1>4, <1>5 DEF Gates!IInv

\* What the invariant says of a verdict.
LEMMA IInvIsHonest ==
    ASSUME Gates!IInv
    PROVE  /\ Gates!TypeOK /\ Gates!VerifiedIsMeasured /\ Gates!NoFailureOverlooked /\ Gates!NothingIsInherited
           /\ Gates!VerdictIsOfOneMoment \/ ~Gates!RowsComeWhole
<1>1. /\ Gates!TypeOK /\ Gates!FailuresAreRead
      /\ pc = 6 => verdict = Gates!Verified(view, intact)
      /\ Gates!RowsComeWhole /\ pc # 0 => \E l \in SUBSET rows : Gates!ReadAt(l)
  BY DEF Gates!IInv
<1>2. ASSUME pc = 6, verdict
      PROVE  /\ Gates!MeasuredBy(Gates!Runs) /\ failed = {}
             /\ \A mine \in SUBSET view["run"] :
                  Gates!InvocationVerified(view, intact, mine) => Gates!MeasuredBy(mine)
             /\ Gates!RowsComeWhole => held
  <2>1. Gates!Verified(view, intact)
    BY <1>1, <1>2
  <2>2. failed = {}
    <3> SUFFICES ASSUME NEW i \in failed PROVE FALSE
      OBVIOUS
    <3>1. i \in Gates!Failures(rows)
      BY <1>1 DEF Gates!FailuresAreRead
    <3>2. Row[i].t \in {"ver", "der", "run"} /\ i \in rows
      BY <3>1 DEF Gates!Failures
    <3>3. i \in Gates!Rows[Row[i].t]
      BY <1>1, <3>2, ViewIsThere, TablesMean
    <3>4. i \in view[Row[i].t]
      <4>1. 2 \in 1..5 /\ 3 \in 1..5 /\ 4 \in 1..5 /\ pc >= 2 /\ pc >= 3 /\ pc >= 4
        BY <1>2
      <4>2. /\ failed \cap Gates!Rows["der"] \subseteq view["der"]
            /\ failed \cap Gates!Rows["ver"] \subseteq view["ver"]
            /\ failed \cap Gates!Rows["run"] \subseteq view["run"]
        BY <1>1, <4>1, TablesMean DEF Gates!FailuresAreRead
      <4> QED BY <3>2, <3>3, <4>2
    <3>5. view \in Views
      BY <1>1, ViewIsThere
    <3> QED BY <2>1, <3>1, <3>2, <3>4, <3>5, FailureIsSeen
  <2>3. ASSUME Gates!RowsComeWhole PROVE held
    <3>1. PICK l \in SUBSET rows : Gates!ReadAt(l)
      BY <1>1, <1>2, <2>3
    <3>2. Reads(l, view)
      BY <1>1, <1>2, <3>1, ReadAtMeans
    <3>3. Gates!Verified(Gates!Now(l), intact)
      BY <2>1, <3>2, SameVerdict
    <3> QED BY <3>1, <3>3 DEF Gates!ReadAt
  <2> QED BY <1>1, <2>1, <2>2, <2>3, VerifiedIsReal
<1> QED BY <1>1, <1>2 DEF Gates!VerifiedIsMeasured, Gates!NoFailureOverlooked, Gates!NothingIsInherited,
                         Gates!VerdictIsOfOneMoment

\* The invariant of the gates, for every set of rows and plan of what is committed.
THEOREM GatesInvariant == MCSpec => [](part = "gates" => Gates!IInv)
<1> DEFINE Inv == part = "gates" => Gates!IInv
<1>1. MCInit => Inv
  BY GatesInit DEF MCInit
<1>2. Inv /\ [MCNext]_<<part, gvars, rest>> => Inv'
  <2> SUFFICES ASSUME Inv, [MCNext]_<<part, gvars, rest>>, part' = "gates" PROVE Gates!IInv'
    OBVIOUS
  <2>1. CASE MCNext
    <3>1. part = "gates" /\ Gates!Next
      BY <2>1 DEF MCNext
    <3>2. Gates!IInv
      BY <3>1
    <3> QED BY <3>1, <3>2, CommitIInv, DamageIInv, JudgeIInv, ReadIInv DEF Gates!Next
  <2>2. CASE UNCHANGED <<part, gvars, rest>>
    <3>1. Gates!IInv /\ UNCHANGED gvars
      BY <2>2
    <3>2. UNCHANGED <<plan, rows, intact, pc, view, held, failed, verdict>>
      BY <3>1 DEF gvars
    <3>3. /\ Gates!TypeOK' /\ Gates!FailuresAreRead' /\ Gates!Transactions'
          /\ Gates!RowsComeWhole' = Gates!RowsComeWhole
          /\ \A l \in SUBSET rows : Gates!ReadAt(l) => Gates!ReadAt(l)'
      BY <3>1, <3>2 DEF Gates!IInv, Gates!TypeOK, Gates!FailuresAreRead, Gates!Transactions,
                        Gates!RowsComeWhole, Gates!ReadAt
    <3> QED BY <3>1, <3>2, <3>3 DEF Gates!IInv
  <2> QED BY <2>1, <2>2
<1> QED BY <1>1, <1>2, PTL DEF MCSpec

\* verification_gates: a design is reported verified only when real tool runs measured it and
\* no recorded failure is overlooked, and a rerun inherits nothing.
THEOREM VerdictIsAlwaysHonest == MCSpec => []VerdictIsHonest
<1>1. (part = "gates" => Gates!IInv) => VerdictIsHonest
  BY IInvIsHonest DEF VerdictIsHonest
<1> QED BY <1>1, GatesInvariant, PTL

\* The tables are read one by one, yet the verdict is of one moment, as long as rows come whole.
THEOREM VerdictIsAlwaysOfOneMoment == MCSpec => []VerdictIsOfOneMoment
<1>1. (part = "gates" => Gates!IInv) => VerdictIsOfOneMoment
  BY IInvIsHonest DEF VerdictIsOfOneMoment
<1> QED BY <1>1, GatesInvariant, PTL

-------------------------------------------------------------------------------
(* Which counts of a parsed design may be believed.                            *)

\* What the constants are: no graph is a graph, no receipt a receipt, and a forged entity no
\* entity of the design.
LEMMA CountsMeans ==
    /\ Index!NoGraph \in Index!Graphs
    /\ Index!NoReceipt \in Index!Receipts /\ Index!NoReceipt.counts = {}
    /\ Forged \notin Index!Real /\ MaxTries \in Nat /\ Index!Real \subseteq Index!Entities
    /\ (CHOOSE x \in Index!Real : TRUE) \in Index!Real
<1>1. Forged \notin Index!Real /\ MaxTries \in Nat /\ Index!Real # {}
  BY EvidenceAssumption DEF Index!ConstantsOK
<1>2. Index!NoGraph \in Index!Graphs
  BY DEF Index!NoGraph, Index!Graphs, Index!Contents
<1>3. /\ Index!NoReceipt \in Index!Receipts /\ Index!NoReceipt.counts = {}
  BY <1>2 DEF Index!NoReceipt, Index!Receipts
<1> QED BY <1>1, <1>2, <1>3 DEF Index!Entities

\* An attempt of an indexer that has not begun.
LEMMA IdleMeans ==
    ASSUME NEW n \in 0..MaxTries
    PROVE  /\ Index!Idle(n) \in Index!Attempts /\ Index!Idle(n).pc = "idle" /\ Index!Idle(n).tries = n
           /\ Index!Idle(n).arts = {} /\ Index!Idle(n).origins = {} /\ Index!Idle(n).auth = Index!NoReceipt
           /\ Index!Idle(n).auth.counts = {}
BY CountsMeans DEF Index!Idle, Index!Attempts

\* No attempt has begun, and nothing is committed of the snapshot.
LEMMA AuthInit == Index!Init => Index!IInv
<1> SUFFICES ASSUME Index!Init PROVE Index!IInv
  OBVIOUS
<1>1. Index!Idle(0) = [pc |-> "idle", tries |-> 0, arts |-> {}, graph |-> Index!NoGraph, origins |-> {},
                       sealed |-> Index!NoGraph, counts |-> {}, auth |-> Index!NoReceipt, fatal |-> FALSE]
  BY DEF Index!Idle
<1>2. Index!Idle(0) \in Index!Attempts
  BY IdleMeans, CountsMeans
<1>3. /\ ix = [i \in Indexers |-> Index!Idle(0)] /\ active = {}
      /\ ledger = [graph |-> Index!NoGraph, counts |-> {}, runs |-> {}, receipt |-> Index!NoReceipt]
      /\ attached = SnapshotInputs /\ edited = FALSE
  BY DEF Index!Init
<1>4. Index!TypeOK
  <2>1. \A i \in Indexers : ix[i].pc = "idle" /\ ix[i].tries = 0 /\ ix[i].arts = {}
    BY <1>1, <1>3
  <2>2. ledger.receipt = Index!NoReceipt
    BY <1>3
  <2>3. \A i \in Indexers : ix[i].tries \in 0..MaxTries /\ Index!Nonce(i, "origin") \notin active
    BY <1>3, <2>1, CountsMeans
  <2> QED BY <1>3, <2>1, <2>2, <2>3 DEF Index!TypeOK
<1>5. Index!Typed
  BY <1>2, <1>3, CountsMeans DEF Index!Typed
<1>6. Index!ParsersAreExact
  BY <1>1, <1>3 DEF Index!ParsersAreExact
<1>7. Index!AuthorizedIsParsed
  BY <1>1, <1>3, CountsMeans DEF Index!AuthorizedIsParsed, Index!Parsed
<1>8. Index!NothingUnreceipted
  BY <1>3, CountsMeans DEF Index!NothingUnreceipted, Index!Complete
<1> QED BY <1>4, <1>5, <1>6, <1>7, <1>8 DEF Index!IInv

\* A step that moves one attempt leaves all of them sound, if it is.
LEMMA AttemptsKept ==
    ASSUME Index!IInv, NEW i \in Indexers, NEW a \in Index!Attempts, ix' = [ix EXCEPT ![i] = a],
           attached \subseteq attached', a.arts \subseteq attached',
           \A j \in Indexers \ {i} : \A n, what : <<j, n, what>> \in active' => <<j, n, what>> \in active,
           a.pc = "consumed" => Index!Complete(a.counts) = {} \/ <<i, a.tries, "index">> \notin active',
           a.pc # "extracted" => <<i, a.tries, "origin">> \notin active',
           \A o \in a.origins : o.exact => o.of \in Index!Real /\ o.says = "parsed",
           Index!Parsed(a.auth.counts), a.auth # Index!NoReceipt => a.auth.counts # {},
           a.pc = "consumed" => a.auth.counts = Index!Complete(a.counts)
    PROVE  /\ ix' \in [Indexers -> Index!Attempts]
           /\ \A j \in Indexers :
                /\ ix'[j].pc \in {"idle", "extracted", "final", "consumed"} /\ ix'[j].tries \in 0..MaxTries
                /\ ix'[j].arts \subseteq attached'
                /\ ix'[j].pc = "consumed" =>
                     Index!Complete(ix'[j].counts) = {} \/ <<j, ix'[j].tries, "index">> \notin active'
                /\ ix'[j].pc # "extracted" => <<j, ix'[j].tries, "origin">> \notin active'
                /\ Index!Parsed(ix'[j].auth.counts)
                /\ ix'[j].auth # Index!NoReceipt => ix'[j].auth.counts # {}
                /\ ix'[j].pc = "consumed" => ix'[j].auth.counts = Index!Complete(ix'[j].counts)
           /\ Index!ParsersAreExact'
<1>1. ix \in [Indexers -> Index!Attempts]
  BY DEF Index!IInv, Index!Typed
<1>2. ix' \in [Indexers -> Index!Attempts] /\ ix'[i] = a /\ \A j \in Indexers \ {i} : ix'[j] = ix[j]
  BY <1>1
<1>3. a.pc \in {"idle", "extracted", "final", "consumed"} /\ a.tries \in 0..MaxTries
  BY DEF Index!Attempts
<1>4. ASSUME NEW j \in Indexers \ {i}
      PROVE  /\ ix[j].pc \in {"idle", "extracted", "final", "consumed"} /\ ix[j].tries \in 0..MaxTries
             /\ ix[j].arts \subseteq attached'
             /\ ix[j].pc = "consumed" =>
                  Index!Complete(ix[j].counts) = {} \/ <<j, ix[j].tries, "index">> \notin active'
             /\ ix[j].pc # "extracted" => <<j, ix[j].tries, "origin">> \notin active'
             /\ Index!Parsed(ix[j].auth.counts)
             /\ ix[j].auth # Index!NoReceipt => ix[j].auth.counts # {}
             /\ ix[j].pc = "consumed" => ix[j].auth.counts = Index!Complete(ix[j].counts)
             /\ \A o \in ix[j].origins : o.exact => o.of \in Index!Real /\ o.says = "parsed"
  BY <1>4 DEF Index!IInv, Index!TypeOK, Index!AuthorizedIsParsed, Index!ParsersAreExact, Index!Nonce
<1>5. Index!ParsersAreExact'
  BY <1>2, <1>4 DEF Index!ParsersAreExact
<1> QED BY <1>2, <1>3, <1>4, <1>5

\* The invariant is kept by a step that, besides, leaves the ledger alone.
LEMMA AttemptIInv ==
    ASSUME Index!IInv, NEW i \in Indexers, NEW a \in Index!Attempts, ix' = [ix EXCEPT ![i] = a],
           UNCHANGED <<ledger, attached, edited>>, a.arts \subseteq attached,
           \A j \in Indexers \ {i} : \A n, what : <<j, n, what>> \in active' => <<j, n, what>> \in active,
           a.pc = "consumed" => Index!Complete(a.counts) = {} \/ <<i, a.tries, "index">> \notin active',
           a.pc # "extracted" => <<i, a.tries, "origin">> \notin active',
           \A o \in a.origins : o.exact => o.of \in Index!Real /\ o.says = "parsed",
           Index!Parsed(a.auth.counts), a.auth # Index!NoReceipt => a.auth.counts # {},
           a.pc = "consumed" => a.auth.counts = Index!Complete(a.counts)
    PROVE  Index!IInv'
<1>1. /\ ix' \in [Indexers -> Index!Attempts]
      /\ \A j \in Indexers :
           /\ ix'[j].pc \in {"idle", "extracted", "final", "consumed"} /\ ix'[j].tries \in 0..MaxTries
           /\ ix'[j].arts \subseteq attached'
           /\ ix'[j].pc = "consumed" =>
                Index!Complete(ix'[j].counts) = {} \/ <<j, ix'[j].tries, "index">> \notin active'
           /\ ix'[j].pc # "extracted" => <<j, ix'[j].tries, "origin">> \notin active'
           /\ Index!Parsed(ix'[j].auth.counts)
           /\ ix'[j].auth # Index!NoReceipt => ix'[j].auth.counts # {}
           /\ ix'[j].pc = "consumed" => ix'[j].auth.counts = Index!Complete(ix'[j].counts)
      /\ Index!ParsersAreExact'
  BY AttemptsKept
<1>2. Index!TypeOK'
  BY <1>1 DEF Index!TypeOK, Index!Nonce, Index!IInv
<1>3. Index!Typed'
  BY <1>1 DEF Index!Typed, Index!IInv
<1>4. Index!AuthorizedIsParsed'
  BY <1>1 DEF Index!AuthorizedIsParsed, Index!IInv
<1>5. Index!NothingUnreceipted'
  BY DEF Index!NothingUnreceipted, Index!IInv
<1> QED BY <1>1, <1>2, <1>3, <1>4, <1>5 DEF Index!IInv

\* Extraction: the origins of the parsers are exact, those of a plugin are not.
LEMMA ExtractIInv == ASSUME Index!IInv, NEW i \in Indexers, Index!Extract(i) PROVE Index!IInv'
<1>0. ix[i] \in Index!Attempts
  BY DEF Index!IInv, Index!Typed
<1>1. PICK plugin \in Index!Plugins :
        /\ ix' = [ix EXCEPT ![i] =
                    [Index!Idle(@.tries + 1) EXCEPT !.pc = "extracted", !.arts = attached,
                        !.graph = Index!Merged(plugin), !.sealed = Index!Merged(plugin),
                        !.origins = Index!OriginsOf(plugin),
                        !.counts = Index!Derived(Index!Merged(plugin)) \cup Index!PluginCounts(plugin),
                        !.fatal = plugin = "conflicts"]]
        /\ active' = active \cup {<<i, ix[i].tries + 1, "origin">>}
        /\ UNCHANGED <<ledger, attached, edited>> /\ ix[i].tries < MaxTries
  BY DEF Index!Extract
<1> DEFINE g == Index!Merged(plugin)
           D == Index!Derived(g) \cup Index!PluginCounts(plugin)
           O == Index!OriginsOf(plugin)
           fatal == plugin = "conflicts"
           n == ix[i].tries + 1
           a == [Index!Idle(n) EXCEPT !.pc = "extracted", !.arts = attached, !.graph = g, !.sealed = g,
                                      !.origins = O, !.counts = D, !.fatal = fatal]
<1>2. ix' = [ix EXCEPT ![i] = a]
  BY <1>1
<1>3. g \in Index!Graphs
  BY CountsMeans DEF Index!Merged, Index!Graphs, Index!Contents
<1>4. D \subseteq Index!Counts
  <2>1. Index!Derived(g) \subseteq Index!Counts
    <3>1. \A e \in Index!Entities : g[e] \in Index!Contents
      BY <1>3 DEF Index!Graphs
    <3>2. \A e \in Index!Entities : Index!Count(e, "standard", g[e]) \in Index!Counts
      BY <3>1 DEF Index!Counts, Index!Count
    <3> QED BY <3>2 DEF Index!Derived
  <2>2. Index!PluginCounts(plugin) \subseteq Index!Counts
    <3>1. \A value \in Index!Contents :
            Index!Count(CHOOSE x \in Index!Real : TRUE, "own", value) \in Index!Counts
      BY CountsMeans DEF Index!Counts, Index!Count
    <3> QED BY <3>1 DEF Index!PluginCounts, Index!Contents
  <2> QED BY <2>1, <2>2
<1>5. O \subseteq Index!Origins /\ \A o \in O : o.exact => o.of \in Index!Real /\ o.says = "parsed"
  <2> DEFINE first == CHOOSE x \in Index!Real : TRUE
             builtin == {[of |-> e, name |-> Parser[e], exact |-> TRUE, says |-> "parsed"] : e \in Index!Real}
             plugged == {[of |-> IF plugin = "forges" THEN Forged ELSE first, name |-> Parser[first],
                          exact |-> FALSE, says |-> IF plugin = "conflicts" THEN "other" ELSE "parsed"]}
  <2>1. O \subseteq builtin \cup plugged
    BY DEF Index!OriginsOf
  <2>2. \A o \in builtin : o \in Index!Origins /\ o.of \in Index!Real /\ o.says = "parsed"
    <3>1. \A e \in Index!Real :
            [of |-> e, name |-> Parser[e], exact |-> TRUE, says |-> "parsed"] \in Index!Origins
      BY CountsMeans DEF Index!Origins, Index!Contents
    <3> QED BY <3>1
  <2>3. \A o \in plugged : o \in Index!Origins /\ ~o.exact
    <3>1. (IF plugin = "forges" THEN Forged ELSE first) \in Index!Entities /\ first \in Index!Real
      BY CountsMeans DEF Index!Entities
    <3> HIDE DEF first
    <3>2. \A e \in Index!Entities, says \in Index!Contents :
            [of |-> e, name |-> Parser[first], exact |-> FALSE, says |-> says] \in Index!Origins
      BY <3>1 DEF Index!Origins
    <3>3. (IF plugin = "conflicts" THEN "other" ELSE "parsed") \in Index!Contents
      BY DEF Index!Contents
    <3> QED BY <3>1, <3>2, <3>3
  <2> QED BY <2>1, <2>2, <2>3
<1>6. attached \subseteq SnapshotInputs \cup StageOutputs
  BY DEF Index!IInv, Index!TypeOK
<1>7. ix[i].tries + 1 \in 0..MaxTries
  BY <1>0, <1>1, CountsMeans DEF Index!Attempts
<1>8. n \in 0..MaxTries /\ fatal \in BOOLEAN
  BY <1>7
<1> HIDE DEF g, D, O, n, fatal
<1>9. Index!Idle(n) \in Index!Attempts /\ Index!Idle(n).tries = n /\ Index!Idle(n).auth = Index!NoReceipt
  BY <1>8, IdleMeans
<1>10. /\ a \in Index!Attempts /\ a.arts = attached /\ a.pc = "extracted" /\ a.origins = O
       /\ a.auth = Index!NoReceipt /\ a.tries = n
  BY <1>3, <1>4, <1>5, <1>6, <1>8, <1>9 DEF Index!Attempts
<1> HIDE DEF a
<1>11. \A j \in Indexers \ {i} : \A m, what : <<j, m, what>> \in active' => <<j, m, what>> \in active
  BY <1>1
<1>12. UNCHANGED <<ledger, attached, edited>> /\ a.auth.counts = {}
  BY <1>1, <1>10, CountsMeans
<1> QED BY <1>2, <1>5, <1>10, <1>11, <1>12, AttemptIInv DEF Index!Parsed

\* A plugin changes the graph that it kept.
LEMMA TamperIInv == ASSUME Index!IInv, NEW i \in Indexers, Index!Tamper(i) PROVE Index!IInv'
<1>0. ix[i] \in Index!Attempts /\ ix \in [Indexers -> Index!Attempts]
  BY DEF Index!IInv, Index!Typed
<1>1. PICK e \in Index!Real : ix' = [ix EXCEPT ![i].graph[e] = "other"]
  BY DEF Index!Tamper
<1> DEFINE a == [ix[i] EXCEPT !.graph[e] = "other"]
<1>2. ix' = [ix EXCEPT ![i] = a]
  BY <1>0, <1>1
<1>3. a \in Index!Attempts /\ \A f \in {"pc", "tries", "arts", "origins", "counts", "auth"} : a[f] = ix[i][f]
  BY <1>0, CountsMeans DEF Index!Attempts, Index!Graphs, Index!Contents
<1>4. /\ a.pc = ix[i].pc /\ a.tries = ix[i].tries /\ a.arts = ix[i].arts /\ a.origins = ix[i].origins
      /\ a.counts = ix[i].counts /\ a.auth = ix[i].auth
  BY <1>3
<1> HIDE DEF a
<1>5. UNCHANGED <<active, ledger, attached, edited>>
  BY DEF Index!Tamper
<1>6. /\ a.arts \subseteq attached
      /\ a.pc = "consumed" => Index!Complete(a.counts) = {} \/ <<i, a.tries, "index">> \notin active
      /\ a.pc # "extracted" => <<i, a.tries, "origin">> \notin active
  BY <1>4 DEF Index!IInv, Index!TypeOK, Index!Nonce
<1>7. /\ \A o \in a.origins : o.exact => o.of \in Index!Real /\ o.says = "parsed"
      /\ Index!Parsed(a.auth.counts) /\ (a.auth # Index!NoReceipt => a.auth.counts # {})
      /\ a.pc = "consumed" => a.auth.counts = Index!Complete(a.counts)
  BY <1>4 DEF Index!IInv, Index!AuthorizedIsParsed, Index!ParsersAreExact
<1> QED BY <1>2, <1>3, <1>5, <1>6, <1>7, AttemptIInv

\* A count that is complete once it was judged is what a parser said.
LEMMA JudgedMeans ==
    ASSUME NEW a \in Index!Attempts, \A o \in a.origins : o.exact => o.of \in Index!Real /\ o.says = "parsed",
           NEW d \in a.counts
    PROVE  /\ Index!Judged(a, d) \in Index!Counts
           /\ Index!Judged(a, d).complete => d.of \in Index!Real /\ Index!Judged(a, d).value = "parsed"
           /\ Index!Judged(a, d).of = d.of
<1>1. d \in Index!Counts
  BY DEF Index!Attempts
<1>2. CASE Index!Validates(a.graph, d) /\ Index!Proved(a, d)
  <2>1. Index!Judged(a, d) = [d EXCEPT !.receipt = TRUE]
    BY <1>2 DEF Index!Judged
  <2>2. Index!Judged(a, d) \in Index!Counts /\ Index!Judged(a, d).of = d.of /\ Index!Judged(a, d).value = d.value
    BY <1>1, <2>1 DEF Index!Counts
  <2>3. PICK o \in a.origins : o.of = d.of /\ o.exact /\ o.says = a.graph[d.of]
    BY <1>2 DEF Index!Proved
  <2>4. d.value = a.graph[d.of]
    BY <1>2 DEF Index!Validates
  <2> QED BY <2>2, <2>3, <2>4
<1>3. CASE ~(Index!Validates(a.graph, d) /\ Index!Proved(a, d))
  <2>1. Index!Judged(a, d) = [d EXCEPT !.complete = FALSE]
    BY <1>3 DEF Index!Judged
  <2> QED BY <1>1, <2>1 DEF Index!Counts
<1> QED BY <1>2, <1>3

\* finalize: a count stays complete only if one exact origin says what the graph says.
LEMMA FinalizeIInv == ASSUME Index!IInv, NEW i \in Indexers, Index!Finalize(i) PROVE Index!IInv'
<1>0. ix[i] \in Index!Attempts /\ ix \in [Indexers -> Index!Attempts]
  BY DEF Index!IInv, Index!Typed
<1> DEFINE b == ix[i]
           good == Index!Nonce(i, "origin") \in active /\ b.graph = b.sealed
           D == {Index!Judged(b, d) : d \in b.counts}
           issued == good /\ Index!Complete(D) # {}
           auth == [run |-> <<>>, graph |-> b.graph, counts |-> Index!Complete(D), arts |-> b.arts]
           newAuth == IF issued THEN auth ELSE Index!NoReceipt
           newCounts == IF good THEN D ELSE b.counts
           newFatal == b.fatal \/ ~good
           a == [b EXCEPT !.pc = "final", !.fatal = newFatal, !.counts = newCounts, !.auth = newAuth]
<1>1. /\ b.pc = "extracted"
      /\ ix' = [ix EXCEPT ![i].pc = "final", ![i].fatal = @ \/ ~good,
                          ![i].counts = IF good THEN D ELSE @, ![i].auth = newAuth]
      /\ active' = (active \ {Index!Nonce(i, "origin")}) \cup IF issued THEN {Index!Nonce(i, "index")} ELSE {}
      /\ UNCHANGED <<ledger, attached, edited>>
  BY DEF Index!Finalize
<1>2. \A o \in b.origins : o.exact => o.of \in Index!Real /\ o.says = "parsed"
  BY DEF Index!IInv, Index!ParsersAreExact
<1>3. D \subseteq Index!Counts /\ Index!Parsed(Index!Complete(D))
  <2>1. \A d \in b.counts : /\ Index!Judged(b, d) \in Index!Counts
                            /\ Index!Judged(b, d).complete => Index!Judged(b, d).of \in Index!Real
                                                              /\ Index!Judged(b, d).value = "parsed"
    BY <1>0, <1>2, JudgedMeans
  <2> QED BY <2>1 DEF Index!Parsed, Index!Complete
<1>4. /\ newAuth \in Index!Receipts /\ Index!Parsed(newAuth.counts)
      /\ newAuth # Index!NoReceipt => newAuth.counts # {}
  <2>1. b.graph \in Index!Graphs /\ b.arts \subseteq SnapshotInputs \cup StageOutputs
    BY <1>0 DEF Index!Attempts
  <2> HIDE DEF D, b, good
  <2>2. Index!Complete(D) \subseteq Index!Counts
    BY <1>3 DEF Index!Complete
  <2>3. auth \in Index!Receipts /\ auth.counts = Index!Complete(D)
    BY <2>1, <2>2 DEF Index!Receipts
  <2> HIDE DEF auth
  <2> QED BY <1>3, <2>3, CountsMeans DEF Index!Parsed
<1>5. newCounts \subseteq Index!Counts
  BY <1>0, <1>3 DEF Index!Attempts
<1>6. newFatal \in BOOLEAN
  BY <1>0 DEF Index!Attempts
<1>7. ix' = [ix EXCEPT ![i] = a]
  <2> HIDE DEF good, D, newAuth
  <2> QED BY <1>0, <1>1 DEF Index!Attempts
<1>8. b.arts \subseteq attached /\ Index!Nonce(i, "origin") = <<i, b.tries, "origin">>
      /\ Index!Nonce(i, "index") = <<i, b.tries, "index">>
  BY DEF Index!IInv, Index!TypeOK, Index!Nonce
<1> HIDE DEF newAuth, newCounts, newFatal, b, good, D, auth, issued
<1>9. b \in Index!Attempts
  BY <1>0 DEF b
<1>10. /\ a \in Index!Attempts /\ a.pc = "final" /\ a.tries = b.tries /\ a.arts = b.arts /\ a.origins = b.origins
       /\ a.auth = newAuth
  BY <1>4, <1>5, <1>6, <1>9 DEF Index!Attempts
<1> HIDE DEF a
<1>11. /\ <<i, a.tries, "origin">> \notin active'
       /\ \A j \in Indexers \ {i} : \A n, what : <<j, n, what>> \in active' => <<j, n, what>> \in active
  BY <1>1, <1>8, <1>10
<1> QED BY <1>1, <1>2, <1>4, <1>7, <1>8, <1>10, <1>11, AttemptIInv

\* The authorization is spent before the transaction begins, or the index is given up.
LEMMA ConsumeIInv == ASSUME Index!IInv, NEW i \in Indexers, Index!Consume(i) PROVE Index!IInv'
<1>0. ix[i] \in Index!Attempts /\ ix \in [Indexers -> Index!Attempts] /\ ix[i].pc = "final"
  BY DEF Index!IInv, Index!Typed, Index!Consume
<1> DEFINE b == ix[i]
           ok == IF Index!Complete(b.counts) = {} THEN b.auth = Index!NoReceipt
                 ELSE Index!Nonce(i, "index") \in active /\ Index!Unchanged(b, attached)
<1>1. /\ active' = active \ {Index!Nonce(i, "index")}
      /\ UNCHANGED <<ledger, attached, edited>>
      /\ IF ok /\ ~b.fatal THEN ix' = [ix EXCEPT ![i].pc = "consumed", ![i].arts = attached]
                           ELSE ix' = [ix EXCEPT ![i] = Index!Idle(b.tries)]
  BY DEF Index!Consume, Index!GiveUp
<1>2. /\ \A o \in b.origins : o.exact => o.of \in Index!Real /\ o.says = "parsed"
      /\ Index!Parsed(b.auth.counts) /\ (b.auth # Index!NoReceipt => b.auth.counts # {})
  BY DEF Index!IInv, Index!ParsersAreExact, Index!AuthorizedIsParsed
<1>3. /\ <<i, b.tries, "origin">> \notin active /\ Index!Nonce(i, "index") = <<i, b.tries, "index">>
      /\ attached \subseteq SnapshotInputs \cup StageOutputs
  BY <1>0 DEF Index!IInv, Index!TypeOK, Index!Nonce
<1>4. CASE ok /\ ~b.fatal
  <2> DEFINE a == [b EXCEPT !.pc = "consumed", !.arts = attached]
  <2>1. ix' = [ix EXCEPT ![i] = a]
    BY <1>0, <1>1, <1>4
  <2>2. b.auth.counts = Index!Complete(b.counts)
    BY <1>4, CountsMeans DEF Index!Unchanged
  <2> HIDE DEF b
  <2>3. /\ a \in Index!Attempts /\ a.pc = "consumed" /\ a.tries = b.tries /\ a.arts = attached
        /\ a.origins = b.origins /\ a.auth = b.auth /\ a.counts = b.counts
    BY <1>0, <1>3 DEF Index!Attempts, b
  <2> HIDE DEF a
  <2>4. <<i, a.tries, "index">> \notin active' /\ <<i, a.tries, "origin">> \notin active'
        /\ \A j \in Indexers \ {i} : \A n, what : <<j, n, what>> \in active' => <<j, n, what>> \in active
    BY <1>1, <1>3, <2>3
  <2> QED BY <1>1, <1>2, <2>1, <2>2, <2>3, <2>4, AttemptIInv
<1>5. CASE ~(ok /\ ~b.fatal)
  <2>1. b.tries \in 0..MaxTries
    BY <1>0 DEF Index!Attempts
  <2> DEFINE a == Index!Idle(b.tries)
  <2>2. ix' = [ix EXCEPT ![i] = a]
    BY <1>1, <1>5
  <2>3. /\ a \in Index!Attempts /\ a.pc = "idle" /\ a.tries = b.tries /\ a.arts = {} /\ a.origins = {}
        /\ a.auth = Index!NoReceipt /\ a.auth.counts = {}
    BY <2>1, IdleMeans
  <2> HIDE DEF a
  <2>4. <<i, a.tries, "origin">> \notin active'
        /\ \A j \in Indexers \ {i} : \A n, what : <<j, n, what>> \in active' => <<j, n, what>> \in active
    BY <1>1, <1>3, <2>3
  <2> QED BY <1>1, <2>2, <2>3, <2>4, AttemptIInv DEF Index!Parsed
<1> QED BY <1>4, <1>5

\* A transaction that rolls back is tried again, with the authorization the attempt has.
LEMMA WriteFailsIInv == ASSUME Index!IInv, NEW i \in Indexers, Index!WriteFails(i) PROVE Index!IInv'
<1>0. ix[i] \in Index!Attempts /\ ix \in [Indexers -> Index!Attempts] /\ ix[i].pc = "consumed"
  BY DEF Index!IInv, Index!Typed, Index!WriteFails
<1> DEFINE a == [ix[i] EXCEPT !.pc = "final"]
<1>1. ix' = [ix EXCEPT ![i] = a] /\ UNCHANGED <<active, ledger, attached, edited>>
  BY <1>0 DEF Index!WriteFails
<1>2. /\ a \in Index!Attempts /\ a.pc = "final" /\ a.tries = ix[i].tries /\ a.arts = ix[i].arts
      /\ a.origins = ix[i].origins /\ a.auth = ix[i].auth
  BY <1>0 DEF Index!Attempts
<1> HIDE DEF a
<1>3. a.arts \subseteq attached /\ <<i, a.tries, "origin">> \notin active
  BY <1>0, <1>2 DEF Index!IInv, Index!TypeOK, Index!Nonce
<1>4. /\ \A o \in a.origins : o.exact => o.of \in Index!Real /\ o.says = "parsed"
      /\ Index!Parsed(a.auth.counts) /\ (a.auth # Index!NoReceipt => a.auth.counts # {})
  BY <1>2 DEF Index!IInv, Index!ParsersAreExact, Index!AuthorizedIsParsed
<1> QED BY <1>1, <1>2, <1>3, <1>4, AttemptIInv

\* What a commit leaves: the first receipt stands, and commits to every complete count.
LEMMA WrittenMeans ==
    ASSUME Index!IInv, NEW i \in Indexers, Index!Write(i), ledger' # ledger
    PROVE  /\ ledger.graph \in {Index!NoGraph, ix[i].graph}
           /\ ledger' = [graph |-> ix[i].graph, counts |-> ledger.counts \cup ix[i].counts,
                         runs |-> ledger.runs \cup {<<i, ix[i].tries>>}, receipt |-> ledger'.receipt]
           /\ ledger'.receipt \in Index!Receipts
           /\ ledger.receipt # Index!NoReceipt => ledger'.receipt = ledger.receipt
           /\ ledger'.receipt # Index!NoReceipt => ledger'.receipt.run \in ledger'.runs
           /\ Index!Parsed(ledger'.receipt.counts)
           /\ ~edited => Index!Complete(ledger'.counts) = ledger'.receipt.counts
<1> DEFINE a == ix[i]
<1>0. /\ a \in Index!Attempts /\ a.auth \in Index!Receipts /\ ledger.receipt \in Index!Receipts
      /\ a.tries \in Nat /\ a.arts \subseteq SnapshotInputs \cup StageOutputs /\ a.counts \subseteq Index!Counts
      /\ DOMAIN ledger = {"graph", "counts", "runs", "receipt"}
  BY CountsMeans DEF Index!IInv, Index!Typed, Index!Attempts
<1>1. /\ Index!Compatible(a) /\ (a.auth # Index!NoReceipt => Index!Agrees(a))
      /\ ledger' = [graph |-> a.graph, counts |-> ledger.counts \cup a.counts,
                    runs |-> ledger.runs \cup {<<i, a.tries>>}, receipt |-> Index!AddReceipt(i, a)]
      /\ a.pc = "consumed"
  BY DEF Index!Write
<1>2. /\ Index!Parsed(a.auth.counts) /\ (a.auth # Index!NoReceipt => a.auth.counts # {})
      /\ a.auth.counts = Index!Complete(a.counts) /\ Index!Parsed(ledger.receipt.counts)
      /\ ledger.receipt # Index!NoReceipt => ledger.receipt.run \in ledger.runs
      /\ ~edited => Index!Complete(ledger.counts) = ledger.receipt.counts
  BY <1>1 DEF Index!IInv, Index!AuthorizedIsParsed, Index!TypeOK, Index!NothingUnreceipted
<1>3. ledger.graph \in {Index!NoGraph, a.graph}
  BY <1>1 DEF Index!Compatible
<1> HIDE DEF a
<1>4. /\ Index!ReceiptOf(i, a) \in Index!Receipts /\ Index!ReceiptOf(i, a).counts = a.auth.counts
      /\ Index!ReceiptOf(i, a).run = <<i, a.tries>>
  BY <1>0 DEF Index!ReceiptOf, Index!Receipts
<1>5. ledger'.receipt = (IF a.auth = Index!NoReceipt \/ ledger.receipt # Index!NoReceipt
                         THEN ledger.receipt ELSE Index!ReceiptOf(i, a))
      /\ ledger'.runs = ledger.runs \cup {<<i, a.tries>>} /\ ledger'.counts = ledger.counts \cup a.counts
  BY <1>1 DEF Index!AddReceipt
<1>6. Index!Complete(ledger'.counts) = Index!Complete(ledger.counts) \cup a.auth.counts
  BY <1>2, <1>5 DEF Index!Complete
<1>7. a.auth # Index!NoReceipt /\ ledger.receipt # Index!NoReceipt => ledger.receipt.counts = a.auth.counts
  BY <1>1 DEF Index!Agrees
<1>8. ~edited => Index!Complete(ledger'.counts) = ledger'.receipt.counts
  <2> SUFFICES ASSUME ~edited PROVE Index!Complete(ledger.counts) \cup a.auth.counts = ledger'.receipt.counts
    BY <1>6
  <2>0. Index!Complete(ledger.counts) = ledger.receipt.counts
    BY <1>2
  <2>1. CASE a.auth = Index!NoReceipt
    <3>1. a.auth.counts = {}
      BY <2>1, CountsMeans
    <3>2. ledger'.receipt = ledger.receipt
      BY <2>1, <1>5
    <3> QED BY <2>0, <3>1, <3>2
  <2>2. CASE a.auth # Index!NoReceipt /\ ledger.receipt # Index!NoReceipt
    <3>1. ledger'.receipt = ledger.receipt
      BY <2>2, <1>5
    <3> QED BY <2>0, <2>2, <3>1, <1>7
  <2>3. CASE a.auth # Index!NoReceipt /\ ledger.receipt = Index!NoReceipt
    <3>1. ledger.receipt.counts = {}
      BY <2>3, CountsMeans
    <3>2. ledger'.receipt.counts = a.auth.counts
      BY <2>3, <1>4, <1>5
    <3> QED BY <2>0, <3>1, <3>2
  <2> QED BY <2>1, <2>2, <2>3
<1> QED BY <1>0, <1>1, <1>2, <1>3, <1>4, <1>5, <1>8 DEF a

\* The transaction commits graph, counts, run and receipt, or rolls all of them back.
LEMMA WriteIInv == ASSUME Index!IInv, NEW i \in Indexers, Index!Write(i) PROVE Index!IInv'
<1>0. /\ ix[i] \in Index!Attempts /\ ix \in [Indexers -> Index!Attempts] /\ ix[i].pc = "consumed"
      /\ ix[i].tries \in 0..MaxTries
  BY DEF Index!IInv, Index!Typed, Index!Write, Index!Attempts
<1> DEFINE a == Index!Idle(ix[i].tries)
<1>1. ix' = [ix EXCEPT ![i] = a] /\ UNCHANGED <<active, attached, edited>>
  BY DEF Index!Write, Index!GiveUp
<1>2. /\ a \in Index!Attempts /\ a.pc = "idle" /\ a.tries = ix[i].tries /\ a.arts = {} /\ a.origins = {}
      /\ a.auth = Index!NoReceipt /\ a.auth.counts = {}
  BY <1>0, IdleMeans
<1> HIDE DEF a
<1>3. <<i, a.tries, "origin">> \notin active'
  BY <1>0, <1>1, <1>2 DEF Index!IInv, Index!TypeOK, Index!Nonce
<1>4. CASE ledger' = ledger
  BY <1>1, <1>2, <1>3, <1>4, AttemptIInv DEF Index!Parsed
<1>5. CASE ledger' # ledger
  <2>1. /\ ix' \in [Indexers -> Index!Attempts]
        /\ \A j \in Indexers :
             /\ ix'[j].pc \in {"idle", "extracted", "final", "consumed"} /\ ix'[j].tries \in 0..MaxTries
             /\ ix'[j].arts \subseteq attached'
             /\ ix'[j].pc = "consumed" =>
                  Index!Complete(ix'[j].counts) = {} \/ <<j, ix'[j].tries, "index">> \notin active'
             /\ ix'[j].pc # "extracted" => <<j, ix'[j].tries, "origin">> \notin active'
             /\ Index!Parsed(ix'[j].auth.counts)
             /\ ix'[j].auth # Index!NoReceipt => ix'[j].auth.counts # {}
             /\ ix'[j].pc = "consumed" => ix'[j].auth.counts = Index!Complete(ix'[j].counts)
        /\ Index!ParsersAreExact'
    BY <1>1, <1>2, <1>3, AttemptsKept DEF Index!Parsed
  <2>2. /\ ledger' = [graph |-> ix[i].graph, counts |-> ledger.counts \cup ix[i].counts,
                      runs |-> ledger.runs \cup {<<i, ix[i].tries>>}, receipt |-> ledger'.receipt]
        /\ ledger'.receipt \in Index!Receipts
        /\ ledger'.receipt # Index!NoReceipt => ledger'.receipt.run \in ledger'.runs
        /\ Index!Parsed(ledger'.receipt.counts)
        /\ ~edited => Index!Complete(ledger'.counts) = ledger'.receipt.counts
    BY <1>5, WrittenMeans
  <2>3. Index!TypeOK'
    BY <1>1, <2>1, <2>2 DEF Index!TypeOK, Index!Nonce, Index!IInv
  <2>4. Index!Typed'
    BY <1>0, <2>1, <2>2, CountsMeans DEF Index!Typed, Index!IInv, Index!Attempts
  <2>5. Index!AuthorizedIsParsed'
    BY <2>1, <2>2 DEF Index!AuthorizedIsParsed
  <2>6. Index!NothingUnreceipted'
    BY <1>1, <2>2 DEF Index!NothingUnreceipted
  <2> QED BY <2>1, <2>3, <2>4, <2>5, <2>6 DEF Index!IInv
<1> QED BY <1>4, <1>5

\* The outputs of a stage run are attached.
LEMMA AttachIInv == ASSUME Index!IInv, Index!Attach PROVE Index!IInv'
<1>1. /\ UNCHANGED <<ix, active, ledger, edited>> /\ attached \subseteq attached'
      /\ attached' \subseteq SnapshotInputs \cup StageOutputs
  BY DEF Index!Attach, Index!IInv, Index!TypeOK
<1>2. Index!TypeOK'
  BY <1>1 DEF Index!IInv, Index!TypeOK, Index!Nonce
<1> QED BY <1>1, <1>2 DEF Index!IInv, Index!Typed, Index!ParsersAreExact, Index!AuthorizedIsParsed,
                          Index!NothingUnreceipted

\* A count that a user adds is not complete.
LEMMA AddCountsIInv == ASSUME Index!IInv, Index!AddCounts PROVE Index!IInv'
<1>1. PICK e \in Index!Real, complete \in BOOLEAN :
        \E d \in {[Index!Count(e, "added", "other") EXCEPT !.complete = complete]} :
          Index!Complete({d}) = {} /\ d \notin ledger.counts
          /\ ledger' = [ledger EXCEPT !.counts = @ \cup {d}]
  BY DEF Index!AddCounts
<1>2. PICK d \in {[Index!Count(e, "added", "other") EXCEPT !.complete = complete]} :
        Index!Complete({d}) = {} /\ ledger' = [ledger EXCEPT !.counts = @ \cup {d}]
        /\ UNCHANGED <<ix, active, attached, edited>>
  BY <1>1 DEF Index!AddCounts
<1>3. d \in Index!Counts
  BY CountsMeans DEF Index!Count, Index!Counts, Index!Contents
<1>4. /\ ledger'.counts = ledger.counts \cup {d} /\ ledger'.receipt = ledger.receipt /\ ledger'.runs = ledger.runs
      /\ Index!Complete(ledger'.counts) = Index!Complete(ledger.counts)
  BY <1>2 DEF Index!IInv, Index!Typed, Index!Complete
<1>5. Index!Typed'
  BY <1>2, <1>3 DEF Index!IInv, Index!Typed
<1>6. Index!TypeOK'
  BY <1>2, <1>4 DEF Index!IInv, Index!TypeOK, Index!Nonce
<1> QED BY <1>2, <1>4, <1>5, <1>6 DEF Index!IInv, Index!ParsersAreExact, Index!AuthorizedIsParsed,
                                      Index!NothingUnreceipted

\* A row of the ledger is edited in the database.
LEMMA EditRowIInv == ASSUME Index!IInv, Index!Edit PROVE Index!IInv'
<1>1. UNCHANGED <<ix, active, attached>> /\ edited' = TRUE
  BY DEF Index!Edit
<1>2. Index!Typed' /\ ledger'.receipt = ledger.receipt /\ ledger'.runs = ledger.runs
  <2>1. CASE \E e \in Index!Real : ledger' = [ledger EXCEPT !.graph[e] = "other"]
    BY <1>1, <2>1, CountsMeans DEF Index!IInv, Index!Typed, Index!Graphs, Index!Contents
  <2>2. CASE \E d \in ledger.counts :
               ledger' = [ledger EXCEPT !.counts = (@ \ {d}) \cup {[d EXCEPT !.value = "other", !.complete = TRUE]}]
    <3>1. PICK d \in ledger.counts :
            ledger' = [ledger EXCEPT !.counts = (@ \ {d}) \cup {[d EXCEPT !.value = "other", !.complete = TRUE]}]
      BY <2>2
    <3>2. [d EXCEPT !.value = "other", !.complete = TRUE] \in Index!Counts
      BY DEF Index!IInv, Index!Typed, Index!Counts, Index!Contents
    <3> QED BY <1>1, <3>1, <3>2 DEF Index!IInv, Index!Typed
  <2> QED BY <2>1, <2>2 DEF Index!Edit
<1>3. Index!TypeOK'
  BY <1>1, <1>2 DEF Index!IInv, Index!TypeOK, Index!Nonce
<1> QED BY <1>1, <1>2, <1>3 DEF Index!IInv, Index!ParsersAreExact, Index!AuthorizedIsParsed,
                                Index!NothingUnreceipted

\* Every step of indexers, stages, users and editors keeps the invariant.
LEMMA AuthStep == Index!IInv /\ [Index!Next]_(Index!vars) => Index!IInv'
<1> SUFFICES ASSUME Index!IInv, [Index!Next]_(Index!vars) PROVE Index!IInv'
  OBVIOUS
<1>1. CASE UNCHANGED Index!vars
  BY <1>1 DEF Index!vars, Index!IInv, Index!TypeOK, Index!Typed, Index!ParsersAreExact, Index!Nonce,
              Index!AuthorizedIsParsed, Index!NothingUnreceipted
<1>2. ASSUME NEW i \in Indexers,
             \/ Index!Extract(i) \/ Index!Tamper(i) \/ Index!Finalize(i) \/ Index!Consume(i)
             \/ Index!Write(i) \/ Index!WriteFails(i)
      PROVE  Index!IInv'
  BY <1>2, ExtractIInv, TamperIInv, FinalizeIInv, ConsumeIInv, WriteIInv, WriteFailsIInv
<1> QED BY <1>1, <1>2, AttachIInv, AddCountsIInv, EditRowIInv DEF Index!Next

\* It holds in every reachable state, for any indexers, parsers and number of tries.
THEOREM AuthorizationInvariant == Index!Spec => []Index!IInv
  BY AuthInit, AuthStep, PTL DEF Index!Spec

\* The invariant holds what is promised of the counts that may be believed.
LEMMA BelievedMeans == Index!IInv => Index!BelievedIsParsed
  BY DEF Index!IInv, Index!BelievedIsParsed, Index!ValidCounts, Index!AuthorizedIsParsed, Index!Parsed

\* What one step can do to the receipt, the counts and the attempts.
LEMMA LedgerSteps ==
    ASSUME Index!IInv, [Index!Next]_(Index!vars)
    PROVE  \/ ledger' = ledger
           \/ \E i \in Indexers : Index!Write(i) /\ ledger' # ledger
           \/ Index!AddCounts
           \/ Index!Edit
BY DEF Index!Next, Index!vars, Index!Extract, Index!Tamper, Index!Finalize, Index!Consume, Index!WriteFails,
       Index!Attach

\* No step replaces the receipt that a snapshot has.
LEMMA FirstReceiptStep ==
    ASSUME Index!IInv, [Index!Next]_(Index!vars), ledger.receipt # Index!NoReceipt
    PROVE  ledger'.receipt = ledger.receipt
<1>1. ASSUME NEW i \in Indexers, Index!Write(i), ledger' # ledger PROVE ledger'.receipt = ledger.receipt
  BY <1>1, WrittenMeans
<1>2. CASE Index!AddCounts
  BY <1>2 DEF Index!AddCounts, Index!IInv, Index!Typed
<1>3. CASE Index!Edit
  BY <1>3 DEF Index!Edit, Index!IInv, Index!Typed
<1> QED BY <1>1, <1>2, <1>3, LedgerSteps

\* No step spends an authorization that was spent before.
LEMMA SpentOnceStep ==
    ASSUME Index!IInv, [Index!Next]_(Index!vars), NEW i \in Indexers,
           ix[i].pc = "final", ix'[i].pc = "consumed", Index!Complete(ix[i].counts) # {}
    PROVE  Index!Nonce(i, "index") \in active /\ Index!Nonce(i, "index") \notin active'
<1>0. ix \in [Indexers -> Index!Attempts]
  BY DEF Index!IInv, Index!Typed
<1>1. CASE Index!Consume(i)
  <2>1. \/ Index!Nonce(i, "index") \in active
        \/ ix' = [ix EXCEPT ![i] = Index!Idle(ix[i].tries)]
    BY <1>1 DEF Index!Consume, Index!GiveUp
  <2>2. ix' # [ix EXCEPT ![i] = Index!Idle(ix[i].tries)]
    BY <1>0 DEF Index!Idle
  <2> QED BY <1>1, <2>1, <2>2 DEF Index!Consume
<1>2. ~(ix' = ix)
  OBVIOUS
<1>3. ASSUME NEW j \in Indexers \ {i}, NEW a, ix' = [ix EXCEPT ![j] = a] PROVE FALSE
  BY <1>0, <1>3
<1>4. ASSUME NEW j \in Indexers,
             \/ Index!Extract(j) \/ Index!Tamper(j) \/ Index!Finalize(j) \/ Index!Write(j) \/ Index!WriteFails(j)
             \/ Index!Consume(j) /\ j # i
      PROVE  FALSE
  <2>1. CASE j = i
    BY <1>0, <1>4, <2>1 DEF Index!Extract, Index!Tamper, Index!Finalize, Index!Write, Index!WriteFails,
                            Index!GiveUp, Index!Idle, Index!Attempts
  <2>2. CASE j # i
    BY <1>0, <1>4, <2>2 DEF Index!Extract, Index!Tamper, Index!Finalize, Index!Write, Index!WriteFails,
                            Index!Consume, Index!GiveUp
  <2> QED BY <2>1, <2>2
<1> QED BY <1>1, <1>2, <1>4 DEF Index!Next, Index!vars, Index!Attach, Index!AddCounts, Index!Edit

\* A count that may be believed may be believed after the step, unless its row was edited.
LEMMA BelievedStaysStep ==
    ASSUME Index!IInv, Index!IInv', [Index!Next]_(Index!vars), ~edited'
    PROVE  Index!ValidCounts(ledger) \subseteq Index!ValidCounts(ledger)'
<1> SUFFICES ASSUME NEW d \in Index!ValidCounts(ledger) PROVE d \in Index!ValidCounts(ledger)'
  OBVIOUS
<1>1. /\ ledger.receipt # Index!NoReceipt /\ ledger.receipt.run \in ledger.runs
      /\ ledger.graph = ledger.receipt.graph /\ ledger.receipt.arts \subseteq attached
      /\ Index!Complete(ledger.counts) = ledger.receipt.counts
      /\ Index!Reverified(ledger.graph, ledger.counts) /\ d \in Index!Complete(ledger.counts)
  BY DEF Index!ValidCounts
<1>2. ledger'.receipt = ledger.receipt
  BY <1>1, FirstReceiptStep
<1>3. Index!Complete(ledger'.counts) = ledger'.receipt.counts /\ ~edited
  <2>1. ~edited
    BY DEF Index!Next, Index!vars, Index!Extract, Index!Tamper, Index!Finalize, Index!Consume, Index!Write,
           Index!WriteFails, Index!Attach, Index!AddCounts, Index!Edit
  <2> QED BY <2>1 DEF Index!IInv, Index!NothingUnreceipted
<1>4. attached \subseteq attached'
  BY DEF Index!Next, Index!vars, Index!Extract, Index!Tamper, Index!Finalize, Index!Consume, Index!Write,
         Index!WriteFails, Index!Attach, Index!AddCounts, Index!Edit
<1>5. ledger.graph # Index!NoGraph
  <2>1. d.value # "none" /\ d.value = ledger.graph[d.of] /\ d.of \in Index!Entities
    BY <1>1 DEF Index!Reverified, Index!Validates, Index!Complete, Index!IInv, Index!Typed, Index!Counts
  <2> QED BY <2>1 DEF Index!NoGraph
<1>6. ledger'.graph = ledger.graph /\ ledger.runs \subseteq ledger'.runs
  <2>1. CASE ledger' = ledger
    BY <2>1
  <2>2. ASSUME NEW i \in Indexers, Index!Write(i), ledger' # ledger
        PROVE  ledger'.graph = ledger.graph /\ ledger.runs \subseteq ledger'.runs
    <3>1. /\ ledger.graph \in {Index!NoGraph, ix[i].graph}
          /\ ledger' = [graph |-> ix[i].graph, counts |-> ledger.counts \cup ix[i].counts,
                        runs |-> ledger.runs \cup {<<i, ix[i].tries>>}, receipt |-> ledger'.receipt]
      BY <2>2, WrittenMeans
    <3>2. ledger'.graph = ix[i].graph /\ ledger'.runs = ledger.runs \cup {<<i, ix[i].tries>>}
      BY <3>1
    <3> QED BY <1>5, <3>1, <3>2
  <2>3. CASE Index!AddCounts
    BY <2>3 DEF Index!AddCounts, Index!IInv, Index!Typed
  <2>4. CASE Index!Edit
    BY <2>4 DEF Index!Edit
  <2> QED BY <2>1, <2>2, <2>3, <2>4, LedgerSteps
<1>7. Index!Reverified(ledger'.graph, ledger'.counts)
  BY <1>1, <1>2, <1>3, <1>6 DEF Index!Reverified
<1> QED BY <1>1, <1>2, <1>3, <1>4, <1>6, <1>7 DEF Index!ValidCounts

\* What may be believed of a design is what the built-in parsers said, an authorization is
\* spent once and a receipt stands: see BelievedIsParsed.
THEOREM BelievedIsAlwaysParsed == MCSpec => BelievedIsParsed
<1>1. MCInit => Index!IInv
  BY AuthInit DEF MCInit
<1>2. [MCNext]_<<part, gvars, rest>> => [Index!Next]_(Index!vars)
  BY DEF MCNext, rest, ivars, Index!vars
<1>3. Index!IInv /\ [MCNext]_<<part, gvars, rest>> => Index!IInv'
  BY <1>2, AuthStep
<1>4. Index!IInv => (part = "index" => Index!TypeOK /\ Index!BelievedIsParsed /\ Index!NothingUnreceipted)
  BY BelievedMeans DEF Index!IInv
<1>5. Index!IInv /\ [MCNext]_<<part, gvars, rest>>
        => [\A i \in Indexers : ix[i].pc = "final" /\ ix'[i].pc = "consumed" /\ Index!Complete(ix[i].counts) # {}
              => Index!Nonce(i, "index") \in active /\ Index!Nonce(i, "index") \notin active']_(Index!vars)
  BY <1>2, SpentOnceStep
<1>6. Index!IInv /\ [MCNext]_<<part, gvars, rest>>
        => [ledger.receipt # Index!NoReceipt => ledger'.receipt = ledger.receipt]_(Index!vars)
  BY <1>2, FirstReceiptStep
<1>7. Index!IInv /\ Index!IInv' /\ [MCNext]_<<part, gvars, rest>>
        => [~edited' => Index!ValidCounts(ledger) \subseteq Index!ValidCounts(ledger)']_(Index!vars)
  BY <1>2, BelievedStaysStep
<1> QED BY <1>1, <1>3, <1>4, <1>5, <1>6, <1>7, PTL
        DEF MCSpec, BelievedIsParsed, Index!SpentOnce, Index!FirstReceiptStands, Index!BelievedStays

-------------------------------------------------------------------------------
(* The release audit.                                                          *)

USE DEF Release!AfterWheel, Release!AfterSdist, Release!AfterCompare, Release!AfterReview,
        Release!AfterEnv, Release!AfterStatic, Release!AfterBootstrap, Release!AfterRunSet,
        Release!AfterScores, Release!AfterLoad, Release!AfterAgain, Release!AfterClosure,
        Release!AfterLock, Release!AfterCheckout, Release!AfterDigest, Release!AfterCells,
        Release!AfterScore, Release!AfterRows, Release!AfterAnalysis, Release!AfterCandidate,
        Release!AfterNotes, Release!Formal

\* The score of every cell is one of three outcomes.
LEMMA ScoredTypes ==
    ASSUME NEW env \in Release!Envs, NEW runset \in Release!RunSets, NEW runs
    PROVE  Release!Scored(env, runset, runs) \in Release!Scores
<1>1. \A c \in Release!Cells : Release!Outcome(env, runset.batch, runs[c]) \in Release!Outcomes
  BY DEF Release!Outcome, Release!Outcomes
<1> QED BY <1>1 DEF Release!Scored, Release!Scores

\* The scores depend on the run of every cell, and on nothing else of the runs.
LEMMA ScoredSame ==
    ASSUME NEW env, NEW runset, NEW runs, NEW others,
           \A c \in Release!Cells : runs[c] = others[c]
    PROVE  Release!Scored(env, runset, runs) = Release!Scored(env, runset, others)
<1>1. [c \in Release!Cells |-> Release!Outcome(env, runset.batch, runs[c])]
        = [c \in Release!Cells |-> Release!Outcome(env, runset.batch, others[c])]
  BY Zenon
<1> QED BY <1>1, Zenon DEF Release!Scored

\* The analysis of scores and a static report is a report.
LEMMA AnalyzeTypes ==
    ASSUME NEW scores \in Release!Scores, NEW static \in Release!Statics, NEW env \in Release!Envs,
           NEW runset \in Release!RunSets
    PROVE  Release!Analyze(scores, static, env, runset) \in Release!Reports
<1>1. (static.passed /\ \A c \in Release!Cells : scores.rows[c] = "win") \in BOOLEAN
  BY DEF Release!Statics
<1> QED BY <1>1 DEF Release!Analyze, Release!Reports

\* What an evaluation in order consists of: every part names the others, and the
\* advantage is supported when every run wins.
LEMMA EvaluationMeans ==
    ASSUME NEW w \in Release!Wheels, NEW t \in Release!Trees, NEW b \in Batches,
           NEW wins \in [Release!Cells -> BOOLEAN], NEW e, e = Release!Evaluation(w, t, b, wins)
    PROVE  /\ e \in Release!Evaluations
           /\ e.env.wheel = w /\ e.env.pkg = t.pkg /\ e.env.rest = t.rest
           /\ e.runset.env = e.env /\ e.static.env = e.env /\ e.static.passed
           /\ e.scores = Release!Scored(e.env, e.runset, e.runs)
           /\ e.bootstrap = Release!Analyze(e.scores, e.static, e.env, e.runset)
           /\ (\A c \in Release!Cells : wins[c]) => e.bootstrap.supported
<1> DEFINE env == Release!EnvOf(w, t)
           runset == [env |-> env, batch |-> b]
           runs == [c \in Release!Cells |-> [env |-> env, batch |-> b, wins |-> wins[c]]]
           static == [env |-> env, passed |-> TRUE]
           scores == Release!Scored(env, runset, runs)
           bootstrap == Release!Analyze(scores, static, env, runset)
<1>1. e = [env |-> env, runset |-> runset, runs |-> runs, scores |-> scores, static |-> static,
           bootstrap |-> bootstrap]
  BY DEF Release!Evaluation
<1>2. env \in Release!Envs /\ env.wheel = w /\ env.pkg = t.pkg /\ env.rest = t.rest
  BY DEF Release!EnvOf, Release!Envs, Release!Trees
<1> HIDE DEF env
<1>3. runset \in Release!RunSets /\ static \in Release!Statics /\ runs \in [Release!Cells -> Release!Runs]
  BY <1>2 DEF Release!RunSets, Release!Statics, Release!Runs
<1>4. scores \in Release!Scores
  BY <1>2, <1>3, ScoredTypes
<1>5. bootstrap \in Release!Reports
  BY <1>2, <1>3, <1>4, AnalyzeTypes
<1>6. ASSUME \A c \in Release!Cells : wins[c] PROVE bootstrap.supported
  <2>1. \A c \in Release!Cells : Release!Outcome(env, b, runs[c]) = "win"
    BY <1>6 DEF Release!Outcome
  <2>2. \A c \in Release!Cells : scores.rows[c] = "win"
    BY <2>1 DEF Release!Scored
  <2> QED BY <2>2 DEF Release!Analyze
<1> HIDE DEF runs, scores, bootstrap
<1>7. e \in Release!Evaluations
  BY <1>1, <1>2, <1>3, <1>4, <1>5 DEF Release!Evaluations
<1>8. /\ e.env = env /\ e.runset = runset /\ e.runs = runs /\ e.scores = scores
      /\ e.static = static /\ e.bootstrap = bootstrap
  BY <1>1
<1>9. scores = Release!Scored(env, runset, runs) /\ bootstrap = Release!Analyze(scores, static, env, runset)
  BY DEF scores, bootstrap
<1> QED BY <1>2, <1>6, <1>7, <1>8, <1>9

\* The parts of an evaluation.
LEMMA Parts ==
    ASSUME NEW e \in Release!Evaluations
    PROVE  /\ e.env \in Release!Envs /\ e.runset \in Release!RunSets /\ e.runs \in [Release!Cells -> Release!Runs]
           /\ e.scores \in Release!Scores /\ e.static \in Release!Statics /\ e.bootstrap \in Release!Reports
  BY DEF Release!Evaluations

\* A clean checkout, an official evaluation of it and no audit yet.
LEMMA ReleaseInit == Release!Init => Release!IInv
<1> SUFFICES ASSUME Release!Init PROVE Release!IInv
  OBVIOUS
<1>1. PICK v \in PackageVersions, b \in Batches, wins \in [Release!Cells -> BOOLEAN] :
        /\ checkout = [pkg |-> v, rest |-> v, clean |-> TRUE] /\ suite = checkout
        /\ wheel = [pkg |-> v, sound |-> TRUE]
        /\ sdist = [pkg |-> v, rest |-> v, sound |-> TRUE]
        /\ eval = Release!Evaluation(wheel, checkout, b, wins)
        /\ notes = {"preview"}
        /\ rpc = "start" /\ mode = "preflight" /\ given = {} /\ bad = FALSE
        /\ seen = [wheels |-> {}, last |-> wheel, tree |-> checkout, sdist |-> sdist,
                   suite |-> checkout, notes |-> {}]
        /\ read = [env |-> eval.env, static |-> eval.static, bootstrap |-> eval.bootstrap,
                   runset |-> eval.runset, scores |-> eval.scores,
                   lock |-> eval.env, digest |-> eval.env, cells |-> eval.runset, runs |-> <<>>]
        /\ redits = 0 /\ during = FALSE
  BY DEF Release!Init
<1>2. wheel \in Release!Wheels /\ checkout \in Release!Trees /\ sdist \in Release!Sdists
  BY <1>1 DEF Release!Wheels, Release!Trees, Release!Sdists
<1>3. eval \in Release!Evaluations
  BY <1>1, <1>2, EvaluationMeans
<1>4. Release!TypeOK
  BY <1>1, <1>2, EvidenceAssumption DEF Release!TypeOK, Release!Claims, Release!Inputs, Release!EditsOK
<1>5. seen \in Release!Readings
  BY <1>1, <1>2 DEF Release!Readings, Release!Claims
<1>6. read \in Release!Evidence
  <2>1. /\ eval.env \in Release!Envs /\ eval.runset \in Release!RunSets /\ eval.scores \in Release!Scores
        /\ eval.static \in Release!Statics /\ eval.bootstrap \in Release!Reports /\ <<>> \in Seq(Release!Runs)
    BY <1>3, Parts
  <2> QED BY <1>1, <2>1 DEF Release!Evidence
<1>7. read.runs = <<>> /\ seen.wheels = {}
  BY <1>1
<1>8. Release!Typed
  BY <1>1, <1>3, <1>5, <1>6, <1>7 DEF Release!Typed
<1> QED
  BY <1>1, <1>4, <1>8 DEF Release!IInv, Release!EvidenceHolds, Release!PreviewIsSaid,
                          Release!StillThere, Release!ReadyMeetsNoIssue

\* A file of an evaluation that is replaced is still a file of its kind.
LEMMA ReplacedTypes ==
    ASSUME eval \in Release!Evaluations, wheel \in Release!Wheels, Release!Replacement
    PROVE  eval' \in Release!Evaluations
<1>1. CASE eval' = [eval EXCEPT !.static.passed = ~@]
  BY <1>1 DEF Release!Evaluations, Release!Statics
<1>2. CASE eval' = [eval EXCEPT !.bootstrap.supported = ~@]
  BY <1>2 DEF Release!Evaluations, Release!Reports
<1>3. CASE \E c \in Release!Cells : eval' = [eval EXCEPT !.runs[c].wins = ~@]
  <2>1. PICK c \in Release!Cells : eval' = [eval EXCEPT !.runs[c].wins = ~@]
    BY <1>3
  <2>2. [eval.runs EXCEPT ![c].wins = ~@] \in [Release!Cells -> Release!Runs]
    BY DEF Release!Evaluations, Release!Runs
  <2> QED BY <2>1, <2>2 DEF Release!Evaluations
<1>4. CASE \E c \in Release!Cells, b \in Batches : eval' = [eval EXCEPT !.runs[c].batch = b]
  BY <1>4 DEF Release!Evaluations, Release!Runs
<1>5. CASE \E b \in Batches : eval' = [eval EXCEPT !.runset.batch = b]
  BY <1>5 DEF Release!Evaluations, Release!RunSets
<1>6. CASE \E c \in Release!Cells : eval' = [eval EXCEPT !.scores.rows[c] = "win"]
  BY <1>6 DEF Release!Evaluations, Release!Scores, Release!Outcomes
<1>7. CASE \E c \in Release!Cells :
            eval' = [eval EXCEPT !.bootstrap.scores.rows[c] = "win", !.bootstrap.supported = TRUE]
  <2>1. PICK c \in Release!Cells :
          eval' = [eval EXCEPT !.bootstrap.scores.rows[c] = "win", !.bootstrap.supported = TRUE]
    BY <1>7
  <2>2. [eval.bootstrap.scores EXCEPT !.rows[c] = "win"] \in Release!Scores
    BY DEF Release!Evaluations, Release!Reports, Release!Scores, Release!Outcomes
  <2>3. [eval.bootstrap EXCEPT !.scores.rows[c] = "win", !.supported = TRUE] \in Release!Reports
    BY <2>2 DEF Release!Evaluations, Release!Reports
  <2> QED BY <2>1, <2>3 DEF Release!Evaluations
<1>8. CASE \E w \in Release!Wheels : eval' = [eval EXCEPT !.env.wheel = w]
  BY <1>8 DEF Release!Evaluations, Release!Envs
<1>9. CASE \E w \in Release!Wheels : eval' = [eval EXCEPT !.runset.env.wheel = w]
  BY <1>9 DEF Release!Evaluations, Release!RunSets, Release!Envs
<1> QED BY <1>1, <1>2, <1>3, <1>4, <1>5, <1>6, <1>7, <1>8, <1>9 DEF Release!Replacement

\* A maintainer's step beside an audit: what the audit read stays read, and from
\* then on nothing is said of what is still there.
LEMMA WorkIInv ==
    ASSUME Release!IInv, Release!Work,
           checkout' \in Release!Trees, suite' \in Release!Trees, wheel' \in Release!Wheels,
           sdist' \in Release!Sdists, notes' \in Release!Claims, eval' \in Release!Evaluations
    PROVE  Release!IInv'
<1>1. /\ UNCHANGED <<rpc, mode, given, bad, seen, read>> /\ redits' \in 0..MaxEdits
      /\ during' \in BOOLEAN /\ (~during' => rpc = "start")
  <2>1. UNCHANGED <<rpc, mode, given, bad, seen, read>> /\ redits < MaxEdits /\ redits' = redits + 1
        /\ during' = (during \/ rpc # "start")
    BY DEF Release!Work, Release!audit
  <2>2. redits \in 0..MaxEdits /\ MaxEdits \in Nat /\ during \in BOOLEAN
    BY EvidenceAssumption DEF Release!IInv, Release!TypeOK, Release!Typed, Release!EditsOK
  <2>3. during' \in BOOLEAN /\ (~during' => rpc = "start")
    BY <2>1, Zenon
  <2> QED BY <2>1, <2>2, <2>3
<1>2. Release!TypeOK'
  BY <1>1 DEF Release!IInv, Release!TypeOK
<1>3. Release!Typed'
  BY <1>1 DEF Release!IInv, Release!Typed
<1>4. Release!EvidenceHolds' /\ Release!PreviewIsSaid'
  BY <1>1 DEF Release!IInv, Release!EvidenceHolds, Release!PreviewIsSaid, Release!Bound
<1>5. Release!StillThere' /\ Release!ReadyMeetsNoIssue'
  BY <1>1 DEF Release!StillThere, Release!ReadyMeetsNoIssue
<1> QED
  BY <1>2, <1>3, <1>4, <1>5 DEF Release!IInv

\* Every maintainer's step is one of those.
LEMMA MaintainersIInv == ASSUME Release!IInv, Release!Maintain PROVE Release!IInv'
<1>0. /\ checkout \in Release!Trees /\ suite \in Release!Trees /\ wheel \in Release!Wheels
      /\ sdist \in Release!Sdists /\ notes \in Release!Claims /\ eval \in Release!Evaluations
  BY DEF Release!IInv, Release!TypeOK, Release!Typed
<1>1. CASE Release!Commit BY <1>0, <1>1, WorkIInv DEF Release!Commit
<1>2. CASE Release!Review BY <1>0, <1>2, WorkIInv DEF Release!Review
<1>3. CASE Release!BuildWheel BY <1>0, <1>3, WorkIInv DEF Release!BuildWheel
<1>4. CASE Release!BuildSdist BY <1>0, <1>4, WorkIInv DEF Release!BuildSdist
<1>5. CASE Release!Evaluate
  <2>1. eval' \in Release!Evaluations
    BY <1>0, <1>5, EvaluationMeans DEF Release!Evaluate
  <2> QED BY <1>0, <1>5, <2>1, WorkIInv DEF Release!Evaluate
<1>6. CASE Release!Replace
  <2>1. eval' \in Release!Evaluations
    BY <1>0, <1>6, ReplacedTypes DEF Release!Replace
  <2> QED BY <1>0, <1>6, <2>1, WorkIInv DEF Release!Replace
<1>7. CASE Release!Announce BY <1>0, <1>7, WorkIInv DEF Release!Announce
<1> QED BY <1>1, <1>2, <1>3, <1>4, <1>5, <1>6, <1>7 DEF Release!Maintain

\* What an audit has read of the archives, the checkout and the notes is kept under its name.
LEMMA SeenMeans ==
    ASSUME Release!Typed,
           NEW ws \in SUBSET Release!Wheels, NEW w \in Release!Wheels, NEW t \in Release!Trees,
           NEW d \in Release!Sdists, NEW c \in Release!Claims
    PROVE  /\ [seen EXCEPT !.wheels = ws] \in Release!Readings
           /\ [seen EXCEPT !.wheels = ws, !.last = w] \in Release!Readings
           /\ [seen EXCEPT !.wheels = ws, !.tree = t] \in Release!Readings
           /\ [seen EXCEPT !.sdist = d] \in Release!Readings
           /\ [seen EXCEPT !.suite = t] \in Release!Readings
           /\ [seen EXCEPT !.notes = c] \in Release!Readings
  BY DEF Release!Typed, Release!Readings

\* What a release that is ready has in its evaluation, as long as nobody disturbs the audit.
LEMMA ReadyEvaluation ==
    ASSUME Release!IInv, Release!Ready, ~during, mode = "formal"
    PROVE  /\ eval.env.wheel = wheel /\ wheel.pkg = checkout.pkg
           /\ eval.env.pkg = checkout.pkg /\ eval.env.rest = checkout.rest
           /\ eval.runset.env = eval.env /\ eval.static.env = eval.env /\ eval.static.passed
           /\ eval.scores = Release!Scored(eval.env, eval.runset, eval.runs)
           /\ eval.bootstrap = Release!Analyze(eval.scores, eval.static, eval.env, eval.runset)
           /\ eval.bootstrap.supported \/ notes = {"preview"}
<1>1. PICK b \in Batches, wins \in [Release!Cells -> BOOLEAN] :
        /\ eval = Release!Evaluation(wheel, checkout, b, wins)
        /\ (\E c \in Release!Cells : ~wins[c]) => notes = {"preview"}
  BY DEF Release!Ready
<1>2. wheel \in Release!Wheels /\ checkout \in Release!Trees /\ wheel.pkg = checkout.pkg
  BY DEF Release!IInv, Release!TypeOK, Release!Ready
<1>3. /\ eval.env.wheel = wheel /\ eval.env.pkg = checkout.pkg /\ eval.env.rest = checkout.rest
      /\ eval.runset.env = eval.env /\ eval.static.env = eval.env /\ eval.static.passed
      /\ eval.scores = Release!Scored(eval.env, eval.runset, eval.runs)
      /\ eval.bootstrap = Release!Analyze(eval.scores, eval.static, eval.env, eval.runset)
      /\ (\A c \in Release!Cells : wins[c]) => eval.bootstrap.supported
  BY <1>1, <1>2, EvaluationMeans
<1> QED BY <1>1, <1>2, <1>3

\* An audit begins, with the arguments it is given.
LEMMA StartIInv ==
    ASSUME Release!IInv, NEW m \in {"preflight", "preview", "formal"}, NEW g \in SUBSET Release!Inputs,
           Release!Start(m, g)
    PROVE  Release!IInv'
<1> USE DEF Release!IInv, Release!Start
<1>1. Release!TypeOK'
  BY DEF Release!TypeOK, Release!world
<1>2. Release!Typed'
  BY DEF Release!Typed, Release!world, Release!Note, Release!SourceIssue
<1>3. Release!EvidenceHolds' /\ Release!PreviewIsSaid'
  BY DEF Release!EvidenceHolds, Release!PreviewIsSaid
<1>4. Release!StillThere'
  BY DEF Release!StillThere, Release!world, Release!Note, Release!SourceIssue, Release!Typed
<1>5. Release!ReadyMeetsNoIssue'
  <2> SUFFICES ASSUME Release!Ready' PROVE ~bad'
    BY DEF Release!ReadyMeetsNoIssue
  <2>1. checkout'.clean
    BY DEF Release!Ready
  <2> QED BY <2>1 DEF Release!Note, Release!SourceIssue, Release!Typed, Release!world
<1> QED BY <1>1, <1>2, <1>3, <1>4, <1>5

\* What every stage leaves alone.
LEMMA FrameOfStep ==
    ASSUME Release!IInv, NEW from, NEW to, Release!Step(from, to), NEW issue \in BOOLEAN,
           Release!Note(issue)
    PROVE  /\ rpc = from /\ rpc' = to
           /\ UNCHANGED <<checkout, suite, wheel, sdist, eval, notes, mode, given, redits, during>>
           /\ bad' \in BOOLEAN /\ (bad' <=> bad \/ issue)
           /\ Release!Ready' <=> Release!Ready
<1>1. /\ rpc = from /\ rpc' = to
      /\ UNCHANGED <<checkout, suite, wheel, sdist, eval, notes, mode, given, redits, during>>
      /\ bad' \in BOOLEAN /\ (bad' <=> bad \/ issue)
  BY DEF Release!Step, Release!world, Release!Note, Release!IInv, Release!Typed
<1>2. Release!Ready' <=> Release!Ready
  BY <1>1 DEF Release!Ready
<1> QED BY <1>1, <1>2

\* The stage that comes next is one of this mode, and the runs have been read that it needs.
Reaches(to) ==
    /\ to \in Release!AfterWheel
    /\ to \in Release!Formal => mode = "formal" /\ {"evidence", "notes"} \subseteq given
    /\ to \in Release!AfterWheel \ Release!AfterCells => read'.runs = <<>>
    /\ to = "score" => Len(read'.runs) < NumCells
    /\ to \in Release!AfterCompare \ Release!AfterNotes => mode # "preflight"

\* A stage keeps the invariant when it reads what it should, finds no issue in a release
\* that is ready, and without an issue has established what the next stages rely on.
LEMMA AuditStep ==
    ASSUME Release!IInv, NEW from, NEW to, Release!Step(from, to), NEW issue \in BOOLEAN,
           Release!Note(issue), Reaches(to), seen' \in Release!Readings, read' \in Release!Evidence,
           Release!Ready /\ ~during => ~issue,
           ~bad' => Release!EvidenceHolds' /\ Release!PreviewIsSaid' /\ Release!StillThere'
    PROVE  Release!IInv'
<1>1. /\ rpc = from /\ rpc' = to
      /\ UNCHANGED <<checkout, suite, wheel, sdist, eval, notes, mode, given, redits, during>>
      /\ bad' \in BOOLEAN /\ (bad' <=> bad \/ issue)
      /\ Release!Ready' <=> Release!Ready
  BY FrameOfStep
<1>2. Release!TypeOK'
  BY <1>1 DEF Release!IInv, Release!TypeOK, Release!Readings, Reaches
<1>3. Release!Typed'
  BY <1>1 DEF Release!IInv, Release!Typed, Reaches
<1>4. Release!EvidenceHolds' /\ Release!PreviewIsSaid' /\ Release!StillThere'
  BY DEF Release!EvidenceHolds, Release!PreviewIsSaid, Release!StillThere
<1>5. Release!ReadyMeetsNoIssue'
  <2> SUFFICES ASSUME ~during, Release!Ready, rpc' # "start" PROVE ~bad'
    BY <1>1 DEF Release!ReadyMeetsNoIssue
  <2>1. CASE rpc # "start"
    BY <1>1, <2>1 DEF Release!IInv, Release!ReadyMeetsNoIssue
  <2>2. CASE rpc = "start"
    BY <1>1, <2>2 DEF Release!IInv, Release!Typed
  <2> QED BY <2>1, <2>2
<1> QED BY <1>2, <1>3, <1>4, <1>5 DEF Release!IInv

\* audit_wheel: the wheel is sound and holds the package of the checkout.
LEMMA AuditWheelIInv == ASSUME Release!IInv, Release!AuditWheel PROVE Release!IInv'
<1> DEFINE issue == Release!WheelIssue
<1>1. Release!Step("wheel", "sdist") /\ Release!Note(issue) /\ UNCHANGED read
      /\ seen' = [seen EXCEPT !.wheels = @ \cup {wheel}, !.tree = checkout]
  BY DEF Release!AuditWheel
<1>2. issue \in BOOLEAN
  BY DEF Release!WheelIssue, Release!Sound
<1>3. /\ rpc = "wheel" /\ rpc' = "sdist"
      /\ UNCHANGED <<checkout, suite, wheel, sdist, eval, notes, mode, given, redits, during>>
      /\ bad' \in BOOLEAN /\ (bad' <=> bad \/ issue)
  <2> HIDE DEF issue
  <2> QED BY <1>1, <1>2, FrameOfStep
<1>4. Release!Ready /\ ~during => ~issue
  BY DEF Release!Ready, Release!WheelIssue, Release!Sound
<1>5. seen' \in Release!Readings /\ read' \in Release!Evidence
  BY <1>1, SeenMeans DEF Release!IInv, Release!TypeOK, Release!Typed, Release!Readings
<1>6. ASSUME ~bad' PROVE Release!EvidenceHolds' /\ Release!PreviewIsSaid' /\ Release!StillThere'
  <2>1. ~bad /\ ~issue
    BY <1>3, <1>6
  <2>2. Release!EvidenceHolds' /\ Release!PreviewIsSaid'
    BY <1>1, <1>3, <2>1 DEF Release!IInv, Release!Typed, Release!Readings, Release!EvidenceHolds,
                            Release!PreviewIsSaid
  <2>3. Release!StillThere'
    BY <1>1, <1>3, <2>1 DEF Release!IInv, Release!TypeOK, Release!Typed, Release!Readings,
                            Release!StillThere, Release!WheelIssue, Release!Sound, Release!Wheels
  <2> QED BY <2>2, <2>3
<1>7. Reaches("sdist")
  BY <1>1, <1>3 DEF Reaches, Release!IInv, Release!TypeOK, Release!Typed
<1> HIDE DEF issue
<1> QED BY <1>1, <1>2, <1>4, <1>5, <1>6, <1>7, AuditStep

\* audit_sdist: the source distribution holds what the checkout holds.
LEMMA AuditSdistIInv == ASSUME Release!IInv, Release!AuditSdist PROVE Release!IInv'
<1> DEFINE issue == Release!SdistIssue
<1>1. Release!Step("sdist", "compare") /\ Release!Note(issue) /\ UNCHANGED read
      /\ seen' = [seen EXCEPT !.sdist = sdist]
  BY DEF Release!AuditSdist
<1>2. issue \in BOOLEAN
  BY DEF Release!SdistIssue, Release!Sound
<1>3. /\ rpc = "sdist" /\ rpc' = "compare"
      /\ UNCHANGED <<checkout, suite, wheel, sdist, eval, notes, mode, given, redits, during>>
      /\ bad' \in BOOLEAN /\ (bad' <=> bad \/ issue)
  <2> HIDE DEF issue
  <2> QED BY <1>1, <1>2, FrameOfStep
<1>4. Release!Ready /\ ~during => ~issue
  BY DEF Release!Ready, Release!SdistIssue, Release!Sound
<1>5. seen' \in Release!Readings /\ read' \in Release!Evidence
  BY <1>1, SeenMeans DEF Release!IInv, Release!TypeOK, Release!Typed, Release!Readings
<1>6. ASSUME ~bad' PROVE Release!EvidenceHolds' /\ Release!PreviewIsSaid' /\ Release!StillThere'
  <2>1. ~bad /\ ~issue
    BY <1>3, <1>6
  <2>2. Release!EvidenceHolds' /\ Release!PreviewIsSaid'
    BY <1>1, <1>3, <2>1 DEF Release!IInv, Release!Typed, Release!Readings, Release!EvidenceHolds,
                            Release!PreviewIsSaid
  <2>3. Release!StillThere'
    BY <1>1, <1>3, <2>1 DEF Release!IInv, Release!TypeOK, Release!Typed, Release!Readings,
                            Release!StillThere, Release!SdistIssue, Release!Sound, Release!Sdists
  <2> QED BY <2>2, <2>3
<1>7. Reaches("compare")
  BY <1>1, <1>3 DEF Reaches, Release!IInv, Release!TypeOK, Release!Typed
<1> HIDE DEF issue
<1> QED BY <1>1, <1>2, <1>4, <1>5, <1>6, <1>7, AuditStep

\* The packages of both archives are one; a preflight ends here.
LEMMA CompareIInv == ASSUME Release!IInv, Release!Compare PROVE Release!IInv'
<1> DEFINE issue == wheel.pkg # sdist.pkg \/ (mode = "preflight" /\ given # {})
<1> DEFINE to == IF mode = "preflight" THEN "verdict" ELSE "review"
<1>1. Release!Step("compare", to) /\ Release!Note(issue) /\ UNCHANGED read
      /\ seen' = [seen EXCEPT !.wheels = @ \cup {wheel}]
  BY DEF Release!Compare
<1>2. issue \in BOOLEAN
  BY SMT
<1>3. /\ rpc = "compare" /\ rpc' = to
      /\ UNCHANGED <<checkout, suite, wheel, sdist, eval, notes, mode, given, redits, during>>
      /\ bad' \in BOOLEAN /\ (bad' <=> bad \/ issue)
  <2> HIDE DEF issue, to
  <2> QED BY <1>1, <1>2, FrameOfStep
<1>4. Release!Ready /\ ~during => ~issue
  BY DEF Release!Ready
<1>5. seen' \in Release!Readings /\ read' \in Release!Evidence
  BY <1>1, SeenMeans DEF Release!IInv, Release!TypeOK, Release!Typed, Release!Readings
<1>6. ASSUME ~bad' PROVE Release!EvidenceHolds' /\ Release!PreviewIsSaid' /\ Release!StillThere'
  <2>1. ~bad /\ ~issue
    BY <1>3, <1>6
  <2>2. Release!EvidenceHolds' /\ Release!PreviewIsSaid'
    BY <1>1, <1>3, <2>1 DEF Release!IInv, Release!Typed, Release!Readings, Release!EvidenceHolds,
                            Release!PreviewIsSaid
  <2>3. Release!StillThere'
    BY <1>1, <1>3, <2>1 DEF Release!IInv, Release!TypeOK, Release!Typed, Release!Readings,
                            Release!StillThere
  <2> QED BY <2>2, <2>3
<1>7. Reaches(to)
  BY <1>1, <1>3 DEF Reaches, Release!IInv, Release!TypeOK, Release!Typed
<1> HIDE DEF issue, to
<1> QED BY <1>1, <1>2, <1>4, <1>5, <1>6, <1>7, AuditStep

\* The review suite is the one of this checkout.
LEMMA ReviewGateIInv == ASSUME Release!IInv, Release!ReviewGate PROVE Release!IInv'
<1> DEFINE issue == \/ "suite" \notin given \/ "legacy" \in given \/ suite # checkout
                    \/ IF mode = "preview" THEN "evidence" \in given ELSE ~({"evidence", "notes"} \subseteq given)
<1> DEFINE to == IF mode = "preview" THEN "notes"
                 ELSE IF {"evidence", "notes"} \subseteq given THEN "env" ELSE "verdict"
<1>1. Release!Step("review", to) /\ Release!Note(issue) /\ UNCHANGED read
      /\ seen' = [seen EXCEPT !.suite = suite]
  BY DEF Release!ReviewGate
<1>2. issue \in BOOLEAN
  BY SMT
<1>3. /\ rpc = "review" /\ rpc' = to
      /\ UNCHANGED <<checkout, suite, wheel, sdist, eval, notes, mode, given, redits, during>>
      /\ bad' \in BOOLEAN /\ (bad' <=> bad \/ issue)
  <2> HIDE DEF issue, to
  <2> QED BY <1>1, <1>2, FrameOfStep
<1>4. Release!Ready /\ ~during => ~issue
  BY <1>3 DEF Release!Ready, Release!IInv, Release!Typed
<1>5. seen' \in Release!Readings /\ read' \in Release!Evidence
  BY <1>1, SeenMeans DEF Release!IInv, Release!TypeOK, Release!Typed, Release!Readings
<1>6. ASSUME ~bad' PROVE Release!EvidenceHolds' /\ Release!PreviewIsSaid' /\ Release!StillThere'
  <2>1. ~bad /\ ~issue
    BY <1>3, <1>6
  <2>2. Release!EvidenceHolds' /\ Release!PreviewIsSaid'
    BY <1>1, <1>3, <2>1 DEF Release!IInv, Release!Typed, Release!Readings, Release!EvidenceHolds,
                            Release!PreviewIsSaid
  <2>3. Release!StillThere'
    BY <1>1, <1>3, <2>1 DEF Release!IInv, Release!TypeOK, Release!Typed, Release!Readings,
                            Release!StillThere
  <2> QED BY <2>2, <2>3
<1>7. Reaches(to)
  BY <1>1, <1>3 DEF Reaches, Release!IInv, Release!TypeOK, Release!Typed
<1> HIDE DEF issue, to
<1> QED BY <1>1, <1>2, <1>4, <1>5, <1>6, <1>7, AuditStep

\* A file of the evaluation is read as it is.
LEMMA ReadStep ==
    ASSUME Release!IInv, NEW from \in Release!Formal, NEW to \in Release!Formal, Release!Read(from, to),
           read' \in Release!Evidence,
           to \in Release!AfterWheel \ Release!AfterCells => read'.runs = <<>>,
           to = "score" => Len(read'.runs) < NumCells,
           ~bad => Release!EvidenceHolds' /\ Release!StillThere'
    PROVE  Release!IInv'
<1>1. Release!Step(from, to) /\ UNCHANGED <<bad, seen>> /\ rpc = from /\ UNCHANGED mode
  BY DEF Release!Read, Release!Step
<1>2. Release!Note(FALSE)
  BY <1>1 DEF Release!Note, Release!IInv, Release!Typed
<1>3. mode = "formal" /\ {"evidence", "notes"} \subseteq given
  BY <1>1 DEF Release!IInv, Release!TypeOK
<1>4. Reaches(to)
  BY <1>3 DEF Reaches
<1>5. seen' \in Release!Readings
  BY <1>1 DEF Release!IInv, Release!Typed
<1>6. Release!PreviewIsSaid'
  BY <1>1, <1>3 DEF Release!PreviewIsSaid
<1>7. ~bad' => Release!EvidenceHolds' /\ Release!PreviewIsSaid' /\ Release!StillThere'
  BY <1>1, <1>6
<1> QED BY <1>1, <1>2, <1>4, <1>5, <1>7, AuditStep

\* The lock of the environment is read,
LEMMA ReadEnvironmentIInv == ASSUME Release!IInv, Release!ReadEnvironment PROVE Release!IInv'
<1>1. Release!Read("env", "static") /\ read' = [read EXCEPT !.env = eval.env]
  BY DEF Release!ReadEnvironment
<1>2. read' \in Release!Evidence
  BY <1>1, Parts DEF Release!IInv, Release!Typed, Release!Evidence
<1>3. /\ read'.env = eval.env
      /\ read'.static = read.static /\ read'.bootstrap = read.bootstrap /\ read'.runset = read.runset /\ read'.scores = read.scores
      /\ read'.lock = read.lock /\ read'.digest = read.digest /\ read'.cells = read.cells /\ read'.runs = read.runs
  BY <1>1 DEF Release!IInv, Release!Typed, Release!Evidence
<1>4. /\ rpc = "env" /\ rpc' = "static" /\ UNCHANGED <<bad, seen>>
      /\ UNCHANGED <<checkout, suite, wheel, sdist, eval, notes, mode, given, redits, during>>
  BY <1>1 DEF Release!Read, Release!Step, Release!world
<1>5. read.runs = <<>>
  BY <1>4 DEF Release!IInv, Release!Typed
<1>6. ASSUME ~bad PROVE Release!EvidenceHolds' /\ Release!StillThere'
  BY <1>3, <1>4, <1>5, <1>6 DEF Release!IInv, Release!EvidenceHolds, Release!Bound, Release!StillThere
<1> QED BY <1>1, <1>2, <1>3, <1>5, <1>6, ReadStep

\* then the static report,
LEMMA ReadStaticIInv == ASSUME Release!IInv, Release!ReadStatic PROVE Release!IInv'
<1>1. Release!Read("static", "bootstrap") /\ read' = [read EXCEPT !.static = eval.static]
  BY DEF Release!ReadStatic
<1>2. read' \in Release!Evidence
  BY <1>1, Parts DEF Release!IInv, Release!Typed, Release!Evidence
<1>3. /\ read'.static = eval.static
      /\ read'.env = read.env /\ read'.bootstrap = read.bootstrap /\ read'.runset = read.runset /\ read'.scores = read.scores
      /\ read'.lock = read.lock /\ read'.digest = read.digest /\ read'.cells = read.cells /\ read'.runs = read.runs
  BY <1>1 DEF Release!IInv, Release!Typed, Release!Evidence
<1>4. /\ rpc = "static" /\ rpc' = "bootstrap" /\ UNCHANGED <<bad, seen>>
      /\ UNCHANGED <<checkout, suite, wheel, sdist, eval, notes, mode, given, redits, during>>
  BY <1>1 DEF Release!Read, Release!Step, Release!world
<1>5. read.runs = <<>>
  BY <1>4 DEF Release!IInv, Release!Typed
<1>6. ASSUME ~bad PROVE Release!EvidenceHolds' /\ Release!StillThere'
  BY <1>3, <1>4, <1>5, <1>6 DEF Release!IInv, Release!EvidenceHolds, Release!Bound, Release!StillThere
<1> QED BY <1>1, <1>2, <1>3, <1>5, <1>6, ReadStep

\* then the report of the analysis,
LEMMA ReadBootstrapIInv == ASSUME Release!IInv, Release!ReadBootstrap PROVE Release!IInv'
<1>1. Release!Read("bootstrap", "runset") /\ read' = [read EXCEPT !.bootstrap = eval.bootstrap]
  BY DEF Release!ReadBootstrap
<1>2. read' \in Release!Evidence
  BY <1>1, Parts DEF Release!IInv, Release!Typed, Release!Evidence
<1>3. /\ read'.bootstrap = eval.bootstrap
      /\ read'.env = read.env /\ read'.static = read.static /\ read'.runset = read.runset /\ read'.scores = read.scores
      /\ read'.lock = read.lock /\ read'.digest = read.digest /\ read'.cells = read.cells /\ read'.runs = read.runs
  BY <1>1 DEF Release!IInv, Release!Typed, Release!Evidence
<1>4. /\ rpc = "bootstrap" /\ rpc' = "runset" /\ UNCHANGED <<bad, seen>>
      /\ UNCHANGED <<checkout, suite, wheel, sdist, eval, notes, mode, given, redits, during>>
  BY <1>1 DEF Release!Read, Release!Step, Release!world
<1>5. read.runs = <<>>
  BY <1>4 DEF Release!IInv, Release!Typed
<1>6. ASSUME ~bad PROVE Release!EvidenceHolds' /\ Release!StillThere'
  BY <1>3, <1>4, <1>5, <1>6 DEF Release!IInv, Release!EvidenceHolds, Release!Bound, Release!StillThere
<1> QED BY <1>1, <1>2, <1>3, <1>5, <1>6, ReadStep

\* then the run set,
LEMMA ReadRunSetIInv == ASSUME Release!IInv, Release!ReadRunSet PROVE Release!IInv'
<1>1. Release!Read("runset", "scores") /\ read' = [read EXCEPT !.runset = eval.runset]
  BY DEF Release!ReadRunSet
<1>2. read' \in Release!Evidence
  BY <1>1, Parts DEF Release!IInv, Release!Typed, Release!Evidence
<1>3. /\ read'.runset = eval.runset
      /\ read'.env = read.env /\ read'.static = read.static /\ read'.bootstrap = read.bootstrap /\ read'.scores = read.scores
      /\ read'.lock = read.lock /\ read'.digest = read.digest /\ read'.cells = read.cells /\ read'.runs = read.runs
  BY <1>1 DEF Release!IInv, Release!Typed, Release!Evidence
<1>4. /\ rpc = "runset" /\ rpc' = "scores" /\ UNCHANGED <<bad, seen>>
      /\ UNCHANGED <<checkout, suite, wheel, sdist, eval, notes, mode, given, redits, during>>
  BY <1>1 DEF Release!Read, Release!Step, Release!world
<1>5. read.runs = <<>>
  BY <1>4 DEF Release!IInv, Release!Typed
<1>6. ASSUME ~bad PROVE Release!EvidenceHolds' /\ Release!StillThere'
  BY <1>3, <1>4, <1>5, <1>6 DEF Release!IInv, Release!EvidenceHolds, Release!Bound, Release!StillThere
<1> QED BY <1>1, <1>2, <1>3, <1>5, <1>6, ReadStep

\* then the scores,
LEMMA ReadScoresIInv == ASSUME Release!IInv, Release!ReadScores PROVE Release!IInv'
<1>1. Release!Read("scores", "load") /\ read' = [read EXCEPT !.scores = eval.scores]
  BY DEF Release!ReadScores
<1>2. read' \in Release!Evidence
  BY <1>1, Parts DEF Release!IInv, Release!Typed, Release!Evidence
<1>3. /\ read'.scores = eval.scores
      /\ read'.env = read.env /\ read'.static = read.static /\ read'.bootstrap = read.bootstrap /\ read'.runset = read.runset
      /\ read'.lock = read.lock /\ read'.digest = read.digest /\ read'.cells = read.cells /\ read'.runs = read.runs
  BY <1>1 DEF Release!IInv, Release!Typed, Release!Evidence
<1>4. /\ rpc = "scores" /\ rpc' = "load" /\ UNCHANGED <<bad, seen>>
      /\ UNCHANGED <<checkout, suite, wheel, sdist, eval, notes, mode, given, redits, during>>
  BY <1>1 DEF Release!Read, Release!Step, Release!world
<1>5. read.runs = <<>>
  BY <1>4 DEF Release!IInv, Release!Typed
<1>6. ASSUME ~bad PROVE Release!EvidenceHolds' /\ Release!StillThere'
  BY <1>3, <1>4, <1>5, <1>6 DEF Release!IInv, Release!EvidenceHolds, Release!Bound, Release!StillThere
<1> QED BY <1>1, <1>2, <1>3, <1>5, <1>6, ReadStep

\* and the lock once more.
LEMMA LoadLockIInv == ASSUME Release!IInv, Release!LoadLock PROVE Release!IInv'
<1>1. Release!Read("load", "again") /\ read' = [read EXCEPT !.lock = eval.env]
  BY DEF Release!LoadLock
<1>2. read' \in Release!Evidence
  BY <1>1, Parts DEF Release!IInv, Release!Typed, Release!Evidence
<1>3. /\ read'.lock = eval.env
      /\ read'.env = read.env /\ read'.static = read.static /\ read'.bootstrap = read.bootstrap /\ read'.runset = read.runset
      /\ read'.scores = read.scores /\ read'.digest = read.digest /\ read'.cells = read.cells /\ read'.runs = read.runs
  BY <1>1 DEF Release!IInv, Release!Typed, Release!Evidence
<1>4. /\ rpc = "load" /\ rpc' = "again" /\ UNCHANGED <<bad, seen>>
      /\ UNCHANGED <<checkout, suite, wheel, sdist, eval, notes, mode, given, redits, during>>
  BY <1>1 DEF Release!Read, Release!Step, Release!world
<1>5. read.runs = <<>>
  BY <1>4 DEF Release!IInv, Release!Typed
<1>6. ASSUME ~bad PROVE Release!EvidenceHolds' /\ Release!StillThere'
  BY <1>3, <1>4, <1>5, <1>6 DEF Release!IInv, Release!EvidenceHolds, Release!Bound, Release!StillThere
<1> QED BY <1>1, <1>2, <1>3, <1>5, <1>6, ReadStep

\* The lock is still the same, its wheel holds the package, and the reports name one another.
LEMMA LockAgainIInv == ASSUME Release!IInv, Release!LockAgain PROVE Release!IInv'
<1> DEFINE ok == read.lock = read.env /\ eval.env = read.env /\ Release!CandidateOK(read.env)
<1> DEFINE issue == ~ok \/ ~Release!Bound
<1> DEFINE to == IF ok THEN "closure" ELSE "verdict"
<1>1. Release!Step("again", to) /\ Release!Note(issue) /\ UNCHANGED <<seen, read>>
  BY DEF Release!LockAgain, Release!Check
<1>2. issue \in BOOLEAN
  BY DEF Release!CandidateOK, Release!Bound
<1>3. /\ rpc = "again" /\ rpc' = to
      /\ UNCHANGED <<checkout, suite, wheel, sdist, eval, notes, mode, given, redits, during>>
      /\ bad' \in BOOLEAN /\ (bad' <=> bad \/ issue)
  <2> HIDE DEF issue, to
  <2> QED BY <1>1, <1>2, FrameOfStep
<1>4. Release!Ready /\ ~during => ~issue
  <2> SUFFICES ASSUME Release!Ready, ~during PROVE ~issue
    OBVIOUS
  <2>1. ~bad /\ mode = "formal"
    BY <1>3 DEF Release!IInv, Release!ReadyMeetsNoIssue, Release!TypeOK
  <2>2. /\ eval.env.wheel = wheel /\ wheel.pkg = checkout.pkg
        /\ eval.env.pkg = checkout.pkg /\ eval.env.rest = checkout.rest
        /\ eval.runset.env = eval.env /\ eval.static.env = eval.env /\ eval.static.passed
        /\ eval.scores = Release!Scored(eval.env, eval.runset, eval.runs)
        /\ eval.bootstrap = Release!Analyze(eval.scores, eval.static, eval.env, eval.runset)
        /\ eval.bootstrap.supported \/ notes = {"preview"}
    BY <2>1, ReadyEvaluation
  <2>3. /\ read.env = eval.env /\ read.lock = eval.env /\ read.static = eval.static
        /\ read.bootstrap = eval.bootstrap /\ read.runset = eval.runset /\ read.scores = eval.scores
    BY <1>3, <2>1 DEF Release!IInv, Release!StillThere
  <2>4. Release!CandidateOK(read.env)
    BY <2>2, <2>3 DEF Release!CandidateOK
  <2>5. Release!Bound
    BY <2>2, <2>3 DEF Release!Bound, Release!Analyze
  <2> QED BY <2>3, <2>4, <2>5
<1>5. seen' \in Release!Readings /\ read' \in Release!Evidence
  BY <1>1 DEF Release!IInv, Release!Typed
<1>6. ASSUME ~bad' PROVE Release!EvidenceHolds' /\ Release!PreviewIsSaid' /\ Release!StillThere'
  <2>1. ~bad /\ ~issue /\ mode = "formal"
    BY <1>3, <1>6 DEF Release!IInv, Release!TypeOK
  <2>2. Release!EvidenceHolds' /\ Release!PreviewIsSaid'
    BY <1>1, <1>3, <2>1 DEF Release!IInv, Release!EvidenceHolds, Release!PreviewIsSaid, Release!Bound
  <2>3. Release!StillThere'
    BY <1>1, <1>3, <2>1 DEF Release!IInv, Release!StillThere
  <2> QED BY <2>2, <2>3
<1>7. Reaches(to)
  BY <1>1, <1>3 DEF Reaches, Release!IInv, Release!TypeOK, Release!Typed
<1> HIDE DEF issue, to
<1> QED BY <1>1, <1>2, <1>4, <1>5, <1>6, <1>7, AuditStep

\* The run set is that of the environment and the one that was read.
LEMMA ClosureIInv == ASSUME Release!IInv, Release!Closure PROVE Release!IInv'
<1> DEFINE ok == eval.runset = read.runset /\ eval.runset.env = read.env
<1> DEFINE issue == ~ok
<1> DEFINE to == IF ok THEN "lock" ELSE "candidate"
<1>1. Release!Step("closure", to) /\ Release!Note(issue) /\ UNCHANGED <<seen, read>>
  BY DEF Release!Closure, Release!Check
<1>2. issue \in BOOLEAN
  BY SMT
<1>3. /\ rpc = "closure" /\ rpc' = to
      /\ UNCHANGED <<checkout, suite, wheel, sdist, eval, notes, mode, given, redits, during>>
      /\ bad' \in BOOLEAN /\ (bad' <=> bad \/ issue)
  <2> HIDE DEF issue, to
  <2> QED BY <1>1, <1>2, FrameOfStep
<1>4. Release!Ready /\ ~during => ~issue
  <2> SUFFICES ASSUME Release!Ready, ~during PROVE ~issue
    OBVIOUS
  <2>1. ~bad /\ mode = "formal"
    BY <1>3 DEF Release!IInv, Release!ReadyMeetsNoIssue, Release!TypeOK
  <2>2. /\ eval.env.wheel = wheel /\ wheel.pkg = checkout.pkg
        /\ eval.env.pkg = checkout.pkg /\ eval.env.rest = checkout.rest
        /\ eval.runset.env = eval.env /\ eval.static.env = eval.env /\ eval.static.passed
        /\ eval.scores = Release!Scored(eval.env, eval.runset, eval.runs)
        /\ eval.bootstrap = Release!Analyze(eval.scores, eval.static, eval.env, eval.runset)
        /\ eval.bootstrap.supported \/ notes = {"preview"}
    BY <2>1, ReadyEvaluation
  <2> QED BY <1>3, <2>1, <2>2 DEF Release!IInv, Release!StillThere
<1>5. seen' \in Release!Readings /\ read' \in Release!Evidence
  BY <1>1 DEF Release!IInv, Release!Typed
<1>6. ASSUME ~bad' PROVE Release!EvidenceHolds' /\ Release!PreviewIsSaid' /\ Release!StillThere'
  <2>1. ~bad /\ ~issue /\ mode = "formal"
    BY <1>3, <1>6 DEF Release!IInv, Release!TypeOK
  <2>2. Release!EvidenceHolds' /\ Release!PreviewIsSaid'
    BY <1>1, <1>3, <2>1 DEF Release!IInv, Release!EvidenceHolds, Release!PreviewIsSaid, Release!Bound
  <2>3. Release!StillThere'
    BY <1>1, <1>3, <2>1 DEF Release!IInv, Release!StillThere
  <2> QED BY <2>2, <2>3
<1>7. Reaches(to)
  BY <1>1, <1>3 DEF Reaches, Release!IInv, Release!TypeOK, Release!Typed
<1> HIDE DEF issue, to
<1> QED BY <1>1, <1>2, <1>4, <1>5, <1>6, <1>7, AuditStep

\* The scoring reads the lock,
LEMMA ScoreLockIInv == ASSUME Release!IInv, Release!ScoreLock PROVE Release!IInv'
<1>1. Release!Read("lock", "checkout") /\ read' = [read EXCEPT !.lock = eval.env]
  BY DEF Release!ScoreLock
<1>2. read' \in Release!Evidence
  BY <1>1, Parts DEF Release!IInv, Release!Typed, Release!Evidence
<1>3. /\ read'.lock = eval.env
      /\ read'.env = read.env /\ read'.static = read.static /\ read'.bootstrap = read.bootstrap /\ read'.runset = read.runset
      /\ read'.scores = read.scores /\ read'.digest = read.digest /\ read'.cells = read.cells /\ read'.runs = read.runs
  BY <1>1 DEF Release!IInv, Release!Typed, Release!Evidence
<1>4. /\ rpc = "lock" /\ rpc' = "checkout" /\ UNCHANGED <<bad, seen>>
      /\ UNCHANGED <<checkout, suite, wheel, sdist, eval, notes, mode, given, redits, during>>
  BY <1>1 DEF Release!Read, Release!Step, Release!world
<1>5. read.runs = <<>>
  BY <1>4 DEF Release!IInv, Release!Typed
<1>6. ASSUME ~bad PROVE Release!EvidenceHolds' /\ Release!StillThere'
  BY <1>3, <1>4, <1>5, <1>6 DEF Release!IInv, Release!EvidenceHolds, Release!Bound, Release!StillThere
<1> QED BY <1>1, <1>2, <1>3, <1>5, <1>6, ReadStep

\* finds the checkout that it names,
LEMMA VerifyCheckoutIInv == ASSUME Release!IInv, Release!VerifyCheckout PROVE Release!IInv'
<1> DEFINE ok == <<checkout.pkg, checkout.rest>> = <<read.lock.pkg, read.lock.rest>>
<1> DEFINE issue == ~ok
<1> DEFINE to == IF ok THEN "digest" ELSE "candidate"
<1>1. Release!Step("checkout", to) /\ Release!Note(issue) /\ UNCHANGED <<seen, read>>
  BY DEF Release!VerifyCheckout, Release!Check
<1>2. issue \in BOOLEAN
  BY SMT
<1>3. /\ rpc = "checkout" /\ rpc' = to
      /\ UNCHANGED <<checkout, suite, wheel, sdist, eval, notes, mode, given, redits, during>>
      /\ bad' \in BOOLEAN /\ (bad' <=> bad \/ issue)
  <2> HIDE DEF issue, to
  <2> QED BY <1>1, <1>2, FrameOfStep
<1>4. Release!Ready /\ ~during => ~issue
  <2> SUFFICES ASSUME Release!Ready, ~during PROVE ~issue
    OBVIOUS
  <2>1. ~bad /\ mode = "formal"
    BY <1>3 DEF Release!IInv, Release!ReadyMeetsNoIssue, Release!TypeOK
  <2>2. /\ eval.env.wheel = wheel /\ wheel.pkg = checkout.pkg
        /\ eval.env.pkg = checkout.pkg /\ eval.env.rest = checkout.rest
        /\ eval.runset.env = eval.env /\ eval.static.env = eval.env /\ eval.static.passed
        /\ eval.scores = Release!Scored(eval.env, eval.runset, eval.runs)
        /\ eval.bootstrap = Release!Analyze(eval.scores, eval.static, eval.env, eval.runset)
        /\ eval.bootstrap.supported \/ notes = {"preview"}
    BY <2>1, ReadyEvaluation
  <2> QED BY <1>3, <2>1, <2>2 DEF Release!IInv, Release!StillThere
<1>5. seen' \in Release!Readings /\ read' \in Release!Evidence
  BY <1>1 DEF Release!IInv, Release!Typed
<1>6. ASSUME ~bad' PROVE Release!EvidenceHolds' /\ Release!PreviewIsSaid' /\ Release!StillThere'
  <2>1. ~bad /\ ~issue /\ mode = "formal"
    BY <1>3, <1>6 DEF Release!IInv, Release!TypeOK
  <2>2. Release!EvidenceHolds' /\ Release!PreviewIsSaid'
    BY <1>1, <1>3, <2>1 DEF Release!IInv, Release!EvidenceHolds, Release!PreviewIsSaid, Release!Bound
  <2>3. Release!StillThere'
    BY <1>1, <1>3, <2>1 DEF Release!IInv, Release!StillThere
  <2> QED BY <2>2, <2>3
<1>7. Reaches(to)
  BY <1>1, <1>3 DEF Reaches, Release!IInv, Release!TypeOK, Release!Typed
<1> HIDE DEF issue, to
<1> QED BY <1>1, <1>2, <1>4, <1>5, <1>6, <1>7, AuditStep

\* takes the digest of the lock,
LEMMA ScoreDigestIInv == ASSUME Release!IInv, Release!ScoreDigest PROVE Release!IInv'
<1>1. Release!Read("digest", "cells") /\ read' = [read EXCEPT !.digest = eval.env]
  BY DEF Release!ScoreDigest
<1>2. read' \in Release!Evidence
  BY <1>1, Parts DEF Release!IInv, Release!Typed, Release!Evidence
<1>3. /\ read'.digest = eval.env
      /\ read'.env = read.env /\ read'.static = read.static /\ read'.bootstrap = read.bootstrap /\ read'.runset = read.runset
      /\ read'.scores = read.scores /\ read'.lock = read.lock /\ read'.cells = read.cells /\ read'.runs = read.runs
  BY <1>1 DEF Release!IInv, Release!Typed, Release!Evidence
<1>4. /\ rpc = "digest" /\ rpc' = "cells" /\ UNCHANGED <<bad, seen>>
      /\ UNCHANGED <<checkout, suite, wheel, sdist, eval, notes, mode, given, redits, during>>
  BY <1>1 DEF Release!Read, Release!Step, Release!world
<1>5. read.runs = <<>>
  BY <1>4 DEF Release!IInv, Release!Typed
<1>6. ASSUME ~bad PROVE Release!EvidenceHolds' /\ Release!StillThere'
  BY <1>3, <1>4, <1>5, <1>6 DEF Release!IInv, Release!EvidenceHolds, Release!Bound, Release!StillThere
<1> QED BY <1>1, <1>2, <1>3, <1>5, <1>6, ReadStep

\* loads the run set of that environment,
LEMMA LoadCellsIInv == ASSUME Release!IInv, Release!LoadCells PROVE Release!IInv'
<1> DEFINE ok == eval.runset.env = read.digest
<1> DEFINE issue == ~ok
<1> DEFINE to == IF ok THEN "score" ELSE "candidate"
<1>1. Release!Step("cells", to) /\ Release!Note(issue) /\ UNCHANGED seen
      /\ read' = [read EXCEPT !.cells = eval.runset]
  BY DEF Release!LoadCells
<1>2. issue \in BOOLEAN
  BY SMT
<1>3. /\ rpc = "cells" /\ rpc' = to
      /\ UNCHANGED <<checkout, suite, wheel, sdist, eval, notes, mode, given, redits, during>>
      /\ bad' \in BOOLEAN /\ (bad' <=> bad \/ issue)
  <2> HIDE DEF issue, to
  <2> QED BY <1>1, <1>2, FrameOfStep
<1>4. Release!Ready /\ ~during => ~issue
  <2> SUFFICES ASSUME Release!Ready, ~during PROVE ~issue
    OBVIOUS
  <2>1. ~bad /\ mode = "formal"
    BY <1>3 DEF Release!IInv, Release!ReadyMeetsNoIssue, Release!TypeOK
  <2>2. eval.runset.env = eval.env
    BY <2>1, ReadyEvaluation
  <2> QED BY <1>3, <2>1, <2>2 DEF Release!IInv, Release!StillThere
<1>5. seen' \in Release!Readings /\ read' \in Release!Evidence
  BY <1>1, Parts DEF Release!IInv, Release!Typed, Release!Evidence
<1>6. /\ read'.cells = eval.runset
      /\ read'.env = read.env /\ read'.static = read.static /\ read'.bootstrap = read.bootstrap /\ read'.runset = read.runset
      /\ read'.scores = read.scores /\ read'.lock = read.lock /\ read'.digest = read.digest /\ read'.runs = read.runs
  BY <1>1 DEF Release!IInv, Release!Typed, Release!Evidence
<1>7. read.runs = <<>> /\ mode = "formal" /\ {"evidence", "notes"} \subseteq given
  BY <1>3 DEF Release!IInv, Release!Typed, Release!TypeOK
<1>8. ASSUME ~bad' PROVE Release!EvidenceHolds' /\ Release!PreviewIsSaid' /\ Release!StillThere'
  <2>1. ~bad /\ ~issue
    BY <1>3, <1>8
  <2>2. Release!EvidenceHolds' /\ Release!PreviewIsSaid'
    BY <1>1, <1>3, <1>6, <1>7, <2>1 DEF Release!IInv, Release!EvidenceHolds, Release!PreviewIsSaid,
                                        Release!Bound
  <2>3. Release!StillThere'
    BY <1>1, <1>3, <1>6, <1>7, <2>1 DEF Release!IInv, Release!StillThere
  <2> QED BY <2>2, <2>3
<1>9. Reaches(to)
  <2>1. 0 < NumCells
    BY EvidenceAssumption DEF Release!EditsOK
  <2>2. Len(read'.runs) = 0 /\ read'.runs = <<>>
    BY <1>6, <1>7
  <2> QED BY <1>7, <2>1, <2>2 DEF Reaches
<1> HIDE DEF issue, to
<1> QED BY <1>1, <1>2, <1>4, <1>5, <1>8, <1>9, AuditStep

\* and reads the run of every cell, one after the other.
LEMMA ScoreRunIInv == ASSUME Release!IInv, Release!ScoreRun PROVE Release!IInv'
<1> DEFINE n == Len(read.runs)
<1> DEFINE to == IF n + 1 = NumCells THEN "rows" ELSE "score"
<1>1. Release!Read("score", to) /\ read' = [read EXCEPT !.runs = Append(read.runs, eval.runs[n + 1])]
  BY DEF Release!ScoreRun
<1>2. /\ rpc = "score" /\ rpc' = to /\ UNCHANGED <<bad, seen>>
      /\ UNCHANGED <<checkout, suite, wheel, sdist, eval, notes, mode, given, redits, during>>
  BY <1>1 DEF Release!Read, Release!Step, Release!world
<1>3. /\ read \in Release!Evidence /\ read.runs \in Seq(Release!Runs) /\ n \in Nat /\ n < NumCells
      /\ NumCells \in Nat
  BY <1>2, EvidenceAssumption DEF Release!IInv, Release!Typed, Release!Evidence, Release!EditsOK
<1>4. eval.runs[n + 1] \in Release!Runs
  BY <1>3, Parts DEF Release!IInv, Release!Typed, Release!Cells
<1>5. Append(read.runs, eval.runs[n + 1]) \in Seq(Release!Runs)
  BY <1>3, <1>4
<1>6. read' \in Release!Evidence
  BY <1>1, <1>3, <1>5 DEF Release!Evidence
<1>7. /\ read'.runs = Append(read.runs, eval.runs[n + 1])
      /\ read'.env = read.env /\ read'.static = read.static /\ read'.bootstrap = read.bootstrap /\ read'.runset = read.runset
      /\ read'.scores = read.scores /\ read'.lock = read.lock /\ read'.digest = read.digest /\ read'.cells = read.cells
  BY <1>1, <1>3 DEF Release!Evidence
<1>8. /\ Len(read'.runs) = n + 1 /\ DOMAIN read'.runs = 1..(n + 1) /\ DOMAIN read.runs = 1..n
      /\ read'.runs[n + 1] = eval.runs[n + 1] /\ \A c \in 1..n : read'.runs[c] = read.runs[c]
  BY <1>3, <1>4, <1>7
<1>9. ASSUME ~bad PROVE Release!EvidenceHolds' /\ Release!StillThere'
  <2>1. Release!EvidenceHolds'
    BY <1>2, <1>7, <1>9 DEF Release!IInv, Release!EvidenceHolds, Release!Bound
  <2>2. ASSUME ~during, mode = "formal" PROVE \A c \in DOMAIN read'.runs : read'.runs[c] = eval.runs[c]
    <3>1. \A c \in 1..n : read.runs[c] = eval.runs[c]
      BY <1>2, <1>8, <1>9, <2>2 DEF Release!IInv, Release!StillThere
    <3>2. \A c \in 1..(n + 1) : c \in 1..n \/ c = n + 1
      BY <1>3
    <3> QED BY <1>2, <1>8, <3>1, <3>2
  <2>3. to = "rows" => Len(read'.runs) = NumCells
    BY <1>8
  <2>4. Release!StillThere'
    BY <1>2, <1>7, <1>9, <2>2, <2>3 DEF Release!IInv, Release!StillThere
  <2> QED BY <2>1, <2>4
<1>10. to = "score" => Len(read'.runs) < NumCells
  BY <1>3, <1>8
<1>11. "score" \in Release!Formal /\ to \in Release!Formal /\ to \in Release!AfterCells
  OBVIOUS
<1> HIDE DEF n, to
<1> QED BY <1>1, <1>6, <1>9, <1>10, <1>11, ReadStep

\* The scores are those of the runs that were read, and the lock is still the same.
LEMMA CompareRowsIInv == ASSUME Release!IInv, Release!CompareRows PROVE Release!IInv'
<1> DEFINE ok == read.scores = Release!Scored(read.digest, read.cells, read.runs) /\ eval.env = read.env
<1> DEFINE issue == ~ok
<1> DEFINE to == IF ok THEN "analysis" ELSE "candidate"
<1>1. Release!Step("rows", to) /\ Release!Note(issue) /\ UNCHANGED <<seen, read>>
  BY DEF Release!CompareRows, Release!Check
<1>2. issue \in BOOLEAN
  BY SMT
<1>3. /\ rpc = "rows" /\ rpc' = to
      /\ UNCHANGED <<checkout, suite, wheel, sdist, eval, notes, mode, given, redits, during>>
      /\ bad' \in BOOLEAN /\ (bad' <=> bad \/ issue)
  <2> HIDE DEF issue, to
  <2> QED BY <1>1, <1>2, FrameOfStep
<1>4. Release!Ready /\ ~during => ~issue
  <2> SUFFICES ASSUME Release!Ready, ~during PROVE ~issue
    OBVIOUS
  <2>1. ~bad /\ mode = "formal"
    BY <1>3 DEF Release!IInv, Release!ReadyMeetsNoIssue, Release!TypeOK
  <2>2. /\ eval.env.wheel = wheel /\ wheel.pkg = checkout.pkg
        /\ eval.env.pkg = checkout.pkg /\ eval.env.rest = checkout.rest
        /\ eval.runset.env = eval.env /\ eval.static.env = eval.env /\ eval.static.passed
        /\ eval.scores = Release!Scored(eval.env, eval.runset, eval.runs)
        /\ eval.bootstrap = Release!Analyze(eval.scores, eval.static, eval.env, eval.runset)
        /\ eval.bootstrap.supported \/ notes = {"preview"}
    BY <2>1, ReadyEvaluation
  <2>3. /\ read.env = eval.env /\ read.scores = eval.scores /\ read.digest = eval.env /\ read.cells = eval.runset
        /\ Len(read.runs) = NumCells /\ \A c \in DOMAIN read.runs : read.runs[c] = eval.runs[c]
    BY <1>3, <2>1 DEF Release!IInv, Release!StillThere
  <2>4. DOMAIN read.runs = Release!Cells
    BY <2>3 DEF Release!IInv, Release!Typed, Release!Evidence, Release!Cells
  <2>5. Release!Scored(eval.env, eval.runset, eval.runs) = Release!Scored(eval.env, eval.runset, read.runs)
    BY <2>3, <2>4, ScoredSame
  <2> QED BY <2>2, <2>3, <2>5
<1>5. seen' \in Release!Readings /\ read' \in Release!Evidence
  BY <1>1 DEF Release!IInv, Release!Typed
<1>6. ASSUME ~bad' PROVE Release!EvidenceHolds' /\ Release!PreviewIsSaid' /\ Release!StillThere'
  <2>1. ~bad /\ ~issue /\ mode = "formal"
    BY <1>3, <1>6 DEF Release!IInv, Release!TypeOK
  <2>2. Release!EvidenceHolds' /\ Release!PreviewIsSaid'
    BY <1>1, <1>3, <2>1 DEF Release!IInv, Release!EvidenceHolds, Release!PreviewIsSaid, Release!Bound
  <2>3. Release!StillThere'
    BY <1>1, <1>3, <2>1 DEF Release!IInv, Release!StillThere
  <2> QED BY <2>2, <2>3
<1>7. Reaches(to)
  BY <1>1, <1>3 DEF Reaches, Release!IInv, Release!TypeOK, Release!Typed
<1> HIDE DEF issue, to
<1> QED BY <1>1, <1>2, <1>4, <1>5, <1>6, <1>7, AuditStep

\* The analysis made again is the one that was read.
LEMMA CompareAnalysisIInv == ASSUME Release!IInv, Release!CompareAnalysis PROVE Release!IInv'
<1> DEFINE ok == /\ eval.runset = read.runset
                 /\ Release!Analysable(read.scores, read.static, read.env, read.runset)
                 /\ read.bootstrap = Release!Analyze(read.scores, read.static, read.env, read.runset)
<1> DEFINE issue == ~ok
<1> DEFINE to == "candidate"
<1>1. Release!Step("analysis", to) /\ Release!Note(issue) /\ UNCHANGED <<seen, read>>
  BY DEF Release!CompareAnalysis, Release!Check
<1>2. issue \in BOOLEAN
  BY DEF Release!Analysable
<1>3. /\ rpc = "analysis" /\ rpc' = to
      /\ UNCHANGED <<checkout, suite, wheel, sdist, eval, notes, mode, given, redits, during>>
      /\ bad' \in BOOLEAN /\ (bad' <=> bad \/ issue)
  <2> HIDE DEF issue, to
  <2> QED BY <1>1, <1>2, FrameOfStep
<1>4. Release!Ready /\ ~during => ~issue
  <2> SUFFICES ASSUME Release!Ready, ~during PROVE ~issue
    OBVIOUS
  <2>1. ~bad /\ mode = "formal"
    BY <1>3 DEF Release!IInv, Release!ReadyMeetsNoIssue, Release!TypeOK
  <2>2. /\ eval.env.wheel = wheel /\ wheel.pkg = checkout.pkg
        /\ eval.env.pkg = checkout.pkg /\ eval.env.rest = checkout.rest
        /\ eval.runset.env = eval.env /\ eval.static.env = eval.env /\ eval.static.passed
        /\ eval.scores = Release!Scored(eval.env, eval.runset, eval.runs)
        /\ eval.bootstrap = Release!Analyze(eval.scores, eval.static, eval.env, eval.runset)
        /\ eval.bootstrap.supported \/ notes = {"preview"}
    BY <2>1, ReadyEvaluation
  <2>3. /\ read.env = eval.env /\ read.static = eval.static /\ read.bootstrap = eval.bootstrap
        /\ read.runset = eval.runset /\ read.scores = eval.scores
    BY <1>3, <2>1 DEF Release!IInv, Release!StillThere
  <2>4. Release!Analysable(read.scores, read.static, read.env, read.runset)
    BY <2>2, <2>3 DEF Release!Analysable, Release!Scored
  <2> QED BY <2>2, <2>3, <2>4
<1>5. seen' \in Release!Readings /\ read' \in Release!Evidence
  BY <1>1 DEF Release!IInv, Release!Typed
<1>6. ASSUME ~bad' PROVE Release!EvidenceHolds' /\ Release!PreviewIsSaid' /\ Release!StillThere'
  <2>1. ~bad /\ ~issue /\ mode = "formal"
    BY <1>3, <1>6 DEF Release!IInv, Release!TypeOK
  <2>2. Release!EvidenceHolds' /\ Release!PreviewIsSaid'
    BY <1>1, <1>3, <2>1 DEF Release!IInv, Release!EvidenceHolds, Release!PreviewIsSaid, Release!Bound
  <2>3. Release!StillThere'
    BY <1>1, <1>3, <2>1 DEF Release!IInv, Release!StillThere
  <2> QED BY <2>2, <2>3
<1>7. Reaches(to)
  BY <1>1, <1>3 DEF Reaches, Release!IInv, Release!TypeOK, Release!Typed
<1> HIDE DEF issue, to
<1> QED BY <1>1, <1>2, <1>4, <1>5, <1>6, <1>7, AuditStep

\* The wheel of the release is the one the evaluation ran on.
LEMMA CandidateIInv == ASSUME Release!IInv, Release!Candidate PROVE Release!IInv'
<1> DEFINE issue == ~Release!Released(wheel, read.env)
<1>1. Release!Step("candidate", "notes") /\ Release!Note(issue) /\ UNCHANGED read
      /\ seen' = [seen EXCEPT !.wheels = @ \cup {wheel}, !.last = wheel]
  BY DEF Release!Candidate
<1>2. issue \in BOOLEAN
  BY DEF Release!Released
<1>3. /\ rpc = "candidate" /\ rpc' = "notes"
      /\ UNCHANGED <<checkout, suite, wheel, sdist, eval, notes, mode, given, redits, during>>
      /\ bad' \in BOOLEAN /\ (bad' <=> bad \/ issue)
  <2> HIDE DEF issue
  <2> QED BY <1>1, <1>2, FrameOfStep
<1>4. Release!Ready /\ ~during => ~issue
  <2> SUFFICES ASSUME Release!Ready, ~during PROVE ~issue
    OBVIOUS
  <2>1. ~bad /\ mode = "formal"
    BY <1>3 DEF Release!IInv, Release!ReadyMeetsNoIssue, Release!TypeOK
  <2>2. eval.env.wheel = wheel /\ wheel.pkg = checkout.pkg /\ eval.env.pkg = checkout.pkg
    BY <2>1, ReadyEvaluation
  <2> QED BY <1>3, <2>1, <2>2 DEF Release!IInv, Release!StillThere, Release!Released
<1>5. seen' \in Release!Readings /\ read' \in Release!Evidence
  BY <1>1, SeenMeans DEF Release!IInv, Release!TypeOK, Release!Typed, Release!Readings
<1>6. ASSUME ~bad' PROVE Release!EvidenceHolds' /\ Release!PreviewIsSaid' /\ Release!StillThere'
  <2>1. ~bad /\ ~issue
    BY <1>3, <1>6
  <2>2. Release!EvidenceHolds' /\ Release!PreviewIsSaid'
    BY <1>1, <1>3, <2>1 DEF Release!IInv, Release!Typed, Release!Readings, Release!EvidenceHolds,
                            Release!PreviewIsSaid, Release!Bound, Release!Released
  <2>3. Release!StillThere'
    BY <1>1, <1>3, <2>1 DEF Release!IInv, Release!TypeOK, Release!Typed, Release!Readings,
                            Release!StillThere, Release!Released
  <2> QED BY <2>2, <2>3
<1>7. Reaches("notes")
  BY <1>1, <1>3 DEF Reaches, Release!IInv, Release!TypeOK, Release!Typed
<1> HIDE DEF issue
<1> QED BY <1>1, <1>2, <1>4, <1>5, <1>6, <1>7, AuditStep

\* The notes claim no more than the statistics bear out, or say it is a preview.
LEMMA ReadNotesIInv == ASSUME Release!IInv, Release!ReadNotes PROVE Release!IInv'
<1> DEFINE issue == Release!NotesIssue(notes)
<1>1. Release!Step("notes", "verdict") /\ Release!Note(issue) /\ UNCHANGED read
      /\ seen' = [seen EXCEPT !.notes = notes]
  BY DEF Release!ReadNotes
<1>2. issue \in BOOLEAN
  BY DEF Release!NotesIssue
<1>3. /\ rpc = "notes" /\ rpc' = "verdict"
      /\ UNCHANGED <<checkout, suite, wheel, sdist, eval, notes, mode, given, redits, during>>
      /\ bad' \in BOOLEAN /\ (bad' <=> bad \/ issue)
  <2> HIDE DEF issue
  <2> QED BY <1>1, <1>2, FrameOfStep
<1>4. Release!Ready /\ ~during => ~issue
  <2> SUFFICES ASSUME Release!Ready, ~during PROVE ~issue
    OBVIOUS
  <2>1. ~bad /\ mode \in {"preview", "formal"}
    BY <1>3 DEF Release!IInv, Release!ReadyMeetsNoIssue, Release!Typed
  <2>2. CASE mode = "preview"
    BY <2>2 DEF Release!Ready, Release!NotesIssue
  <2>3. CASE mode = "formal"
    <3>1. eval.bootstrap.supported \/ notes = {"preview"}
      BY <2>3, ReadyEvaluation
    <3> QED BY <1>3, <2>1, <2>3, <3>1 DEF Release!IInv, Release!StillThere, Release!NotesIssue
  <2> QED BY <2>1, <2>2, <2>3
<1>5. seen' \in Release!Readings /\ read' \in Release!Evidence
  BY <1>1, SeenMeans DEF Release!IInv, Release!TypeOK, Release!Typed, Release!Readings
<1>6. ASSUME ~bad' PROVE Release!EvidenceHolds' /\ Release!PreviewIsSaid' /\ Release!StillThere'
  <2>1. ~bad /\ ~issue
    BY <1>3, <1>6
  <2>2. Release!EvidenceHolds' /\ Release!PreviewIsSaid'
    BY <1>1, <1>3, <2>1 DEF Release!IInv, Release!Typed, Release!Readings, Release!EvidenceHolds,
                            Release!PreviewIsSaid, Release!Bound, Release!NotesIssue
  <2>3. Release!StillThere'
    BY <1>1, <1>3, <2>1 DEF Release!IInv, Release!TypeOK, Release!Typed, Release!Readings,
                            Release!StillThere, Release!NotesIssue
  <2> QED BY <2>2, <2>3
<1>7. Reaches("verdict")
  BY <1>1, <1>3 DEF Reaches, Release!IInv, Release!TypeOK, Release!Typed
<1> HIDE DEF issue
<1> QED BY <1>1, <1>2, <1>4, <1>5, <1>6, <1>7, AuditStep

\* The verdict is that no stage found an issue.
LEMMA VerdictIInv == ASSUME Release!IInv, Release!Verdict PROVE Release!IInv'
<1>1. Release!Step("verdict", "done") /\ UNCHANGED <<bad, seen, read>>
  BY DEF Release!Verdict
<1>2. Release!Note(FALSE)
  BY <1>1 DEF Release!Note, Release!IInv, Release!Typed
<1>3. /\ rpc = "verdict" /\ rpc' = "done"
      /\ UNCHANGED <<checkout, suite, wheel, sdist, eval, notes, mode, given, redits, during>>
  BY <1>1 DEF Release!Step, Release!world
<1>4. seen' \in Release!Readings /\ read' \in Release!Evidence
  BY <1>1 DEF Release!IInv, Release!Typed
<1>5. Release!EvidenceHolds' /\ Release!PreviewIsSaid' /\ Release!StillThere'
  BY <1>1, <1>3 DEF Release!IInv, Release!EvidenceHolds, Release!PreviewIsSaid, Release!StillThere,
                    Release!Bound
<1>6. Reaches("done")
  BY DEF Reaches
<1> QED BY <1>1, <1>2, <1>4, <1>5, <1>6, AuditStep

\* Every step of the audit and of a maintainer keeps the invariant.
LEMMA ReleaseStep == Release!IInv /\ [Release!Next]_(Release!vars) => Release!IInv'
<1> SUFFICES ASSUME Release!IInv, [Release!Next]_(Release!vars) PROVE Release!IInv'
  OBVIOUS
<1>1. CASE \E m \in {"preflight", "preview", "formal"}, g \in SUBSET Release!Inputs :
              Release!Start(m, g)
  BY <1>1, StartIInv
<1>2. CASE Release!Maintain BY <1>2, MaintainersIInv
<1>3. CASE Release!AuditWheel BY <1>3, AuditWheelIInv
<1>4. CASE Release!AuditSdist BY <1>4, AuditSdistIInv
<1>5. CASE Release!Compare BY <1>5, CompareIInv
<1>6. CASE Release!ReviewGate BY <1>6, ReviewGateIInv
<1>7. CASE Release!ReadEnvironment BY <1>7, ReadEnvironmentIInv
<1>8. CASE Release!ReadStatic BY <1>8, ReadStaticIInv
<1>9. CASE Release!ReadBootstrap BY <1>9, ReadBootstrapIInv
<1>10. CASE Release!ReadRunSet BY <1>10, ReadRunSetIInv
<1>11. CASE Release!ReadScores BY <1>11, ReadScoresIInv
<1>12. CASE Release!LoadLock BY <1>12, LoadLockIInv
<1>13. CASE Release!LockAgain BY <1>13, LockAgainIInv
<1>14. CASE Release!Closure BY <1>14, ClosureIInv
<1>15. CASE Release!ScoreLock BY <1>15, ScoreLockIInv
<1>16. CASE Release!VerifyCheckout BY <1>16, VerifyCheckoutIInv
<1>17. CASE Release!ScoreDigest BY <1>17, ScoreDigestIInv
<1>18. CASE Release!LoadCells BY <1>18, LoadCellsIInv
<1>19. CASE Release!ScoreRun BY <1>19, ScoreRunIInv
<1>20. CASE Release!CompareRows BY <1>20, CompareRowsIInv
<1>21. CASE Release!CompareAnalysis BY <1>21, CompareAnalysisIInv
<1>22. CASE Release!Candidate BY <1>22, CandidateIInv
<1>23. CASE Release!ReadNotes BY <1>23, ReadNotesIInv
<1>24. CASE Release!Verdict BY <1>24, VerdictIInv
<1>25. CASE UNCHANGED Release!vars
  <2>1. UNCHANGED <<checkout, suite, wheel, sdist, eval, notes, rpc, mode, given, bad, seen, read, redits,
                    during>>
    BY <1>25 DEF Release!vars, Release!world, Release!audit
  <2>2. Release!TypeOK' /\ Release!Typed'
    BY <2>1 DEF Release!IInv, Release!TypeOK, Release!Typed
  <2>3. Release!EvidenceHolds' /\ Release!PreviewIsSaid'
    BY <2>1 DEF Release!IInv, Release!EvidenceHolds, Release!PreviewIsSaid, Release!Bound
  <2>4. Release!StillThere'
    BY <2>1 DEF Release!IInv, Release!StillThere
  <2>5. Release!ReadyMeetsNoIssue'
    BY <2>1 DEF Release!IInv, Release!ReadyMeetsNoIssue, Release!Ready
  <2> QED BY <2>2, <2>3, <2>4, <2>5 DEF Release!IInv
<1> QED
  BY <1>1, <1>2, <1>3, <1>4, <1>5, <1>6, <1>7, <1>8, <1>9, <1>10, <1>11, <1>12,
     <1>13, <1>14, <1>15, <1>16, <1>17, <1>18, <1>19, <1>20, <1>21, <1>22, <1>23, <1>24, <1>25
  DEF Release!Next, Release!Audit

\* It holds in every reachable state, for any versions, batches and cells, whatever files of
\* the evaluation are replaced between any two readings.
THEOREM ReleaseInvariant == Release!Spec => []Release!IInv
  BY ReleaseInit, ReleaseStep, PTL DEF Release!Spec

\* The invariant holds all that an approval promises.
LEMMA ReleaseIsEarned ==
    ASSUME Release!IInv
    PROVE  /\ Release!TypeOK /\ Release!ClaimsAreEarned /\ Release!EvaluatedWheelIsReleased
           /\ Release!ApprovedIsOnePackage /\ Release!ReadyIsApproved
<1> USE DEF Release!IInv, Release!Approved
<1>1. ASSUME Release!Approved("formal")
      PROVE  /\ read.bootstrap.supported \/ seen.notes = {"preview"}
             /\ read.bootstrap.supported => \A c \in Release!Cells : read.scores.rows[c] = "win"
             /\ \A c \in Release!Cells : read.scores.rows[c] = Release!Found(c)
             /\ read.bootstrap.scores = read.scores /\ read.bootstrap.runset = read.cells
             /\ seen.last = read.digest.wheel /\ read.digest = read.env /\ read.env.wheel.pkg = read.env.pkg
  <2>1. /\ Release!CandidateOK(read.env) /\ Release!Bound
        /\ read.scores = Release!Scored(read.digest, read.cells, read.runs)
        /\ Release!Analysable(read.scores, read.static, read.env, read.runset)
        /\ read.bootstrap = Release!Analyze(read.scores, read.static, read.env, read.runset)
        /\ seen.last = read.env.wheel
        /\ read.bootstrap.supported \/ seen.notes = {"preview"}
    BY <1>1 DEF Release!EvidenceHolds
  <2>2. /\ read.scores.env = read.digest /\ read.scores.runset = read.cells
        /\ \A c \in Release!Cells : read.scores.rows[c] = Release!Found(c)
    BY <2>1 DEF Release!Scored, Release!Found
  <2>3. read.bootstrap.supported => \A c \in Release!Cells : read.scores.rows[c] = "win"
    <3>1. read.bootstrap.supported
            = (read.static.passed /\ \A c \in Release!Cells : read.scores.rows[c] = "win")
      BY <2>1 DEF Release!Analyze
    <3> QED BY <3>1, Zenon
  <2> QED BY <2>1, <2>2, <2>3 DEF Release!CandidateOK, Release!Bound, Release!Analysable
<1>2. Release!ClaimsAreEarned
  <2>1. Release!Approved("preview") => seen.notes = {"preview"}
    BY DEF Release!PreviewIsSaid
  <2>2. ASSUME Release!Approved("formal"), NEW c \in Release!Cells, Release!Found(c) = "win"
        PROVE  read.runs[c].wins
    BY <2>2 DEF Release!Found, Release!Outcome
  <2> QED BY <1>1, <2>1, <2>2 DEF Release!ClaimsAreEarned
<1>3. Release!EvaluatedWheelIsReleased
  <2> SUFFICES ASSUME Release!Approved("formal"), NEW c \in Release!Cells
               PROVE  /\ Release!Found(c) # "failed" =>
                           read.runs[c].env.wheel = seen.last /\ read.runs[c].batch = read.bootstrap.runset.batch
                      /\ read.bootstrap.scores.rows[c] = Release!Found(c)
    BY DEF Release!EvaluatedWheelIsReleased
  <2>1. Release!Found(c) # "failed" => read.runs[c].env = read.digest /\ read.runs[c].batch = read.cells.batch
    BY DEF Release!Found, Release!Outcome
  <2> QED BY <1>1, <2>1
<1>4. Release!ApprovedIsOnePackage
  <2> SUFFICES ASSUME NEW m \in {"preview", "formal"}, Release!Approved(m), ~during
               PROVE  /\ seen.wheels = {[pkg |-> checkout.pkg, sound |-> TRUE]}
                      /\ seen.sdist = [pkg |-> checkout.pkg, rest |-> checkout.rest, sound |-> TRUE]
                      /\ seen.suite = checkout /\ checkout.clean
                      /\ m = "formal" => \A c \in Release!Cells : Release!Found(c) # "failed" =>
                           <<read.runs[c].env.pkg, read.runs[c].env.rest>> = <<checkout.pkg, checkout.rest>>
    BY DEF Release!ApprovedIsOnePackage
  <2>1. /\ seen.wheels = {[pkg |-> checkout.pkg, sound |-> TRUE]}
        /\ seen.sdist = [pkg |-> checkout.pkg, rest |-> checkout.rest, sound |-> TRUE]
        /\ seen.suite = checkout /\ checkout.clean
    BY DEF Release!StillThere
  <2>2. ASSUME m = "formal", NEW c \in Release!Cells, Release!Found(c) # "failed"
        PROVE  <<read.runs[c].env.pkg, read.runs[c].env.rest>> = <<checkout.pkg, checkout.rest>>
    <3>1. read.runs[c].env = read.digest
      BY <2>2 DEF Release!Found, Release!Outcome
    <3>2. read.digest = eval.env /\ <<checkout.pkg, checkout.rest>> = <<eval.env.pkg, eval.env.rest>>
      BY <2>2 DEF Release!StillThere
    <3> QED BY <3>1, <3>2
  <2> QED BY <2>1, <2>2
<1>5. Release!ReadyIsApproved
  BY DEF Release!ReadyIsApproved, Release!ReadyMeetsNoIssue
<1> QED BY <1>2, <1>3, <1>4, <1>5

\* The audit approves only a release that has earned it, whatever is edited, replaced or
\* announced between any two of its readings: see ApprovedIsEarned.
THEOREM ReleasesAreEarned == MCSpec => []ApprovedIsEarned
<1>1. MCInit => Release!IInv
  BY ReleaseInit DEF MCInit
<1>2. Release!IInv /\ [MCNext]_<<part, gvars, rest>> => Release!IInv'
  <2> SUFFICES ASSUME Release!IInv, [MCNext]_<<part, gvars, rest>> PROVE [Release!Next]_(Release!vars)
    BY ReleaseStep
  <2>1. ReleaseNext => Release!Next
    BY Zenon DEF ReleaseNext, Release!Next
  <2>2. Release!Next \/ UNCHANGED rvars
    BY <2>1, Zenon DEF MCNext, rest
  <2>3. UNCHANGED rvars => UNCHANGED Release!vars
    BY DEF rvars, Release!vars, Release!world, Release!audit
  <2> QED BY <2>2, <2>3
<1>3. Release!IInv => ApprovedIsEarned
  BY ReleaseIsEarned DEF ApprovedIsEarned
<1> QED BY <1>1, <1>2, <1>3, PTL DEF MCSpec

-------------------------------------------------------------------------------
(* The replay of a review suite.                                               *)

USE DEF Suite!Versions

\* What the constants of a suite are: two protocols in their order, and the shards.
LEMMA SuiteOrder ==
    /\ Suite!Order[1] = "semantic" /\ Suite!Order[2] = "adversarial"
    /\ Suite!Protocols = {"semantic", "adversarial"}
    /\ DOMAIN Shards = 1..Len(Shards) /\ Len(Shards) \in Nat \ {0} /\ MaxEdits \in Nat
    /\ \A k \in DOMAIN Shards : Shards[k] \in Suite!ShardSet
    /\ \A s \in Suite!ShardSet : \E k \in DOMAIN Shards : s = Shards[k]
<1>1. Shards \in Seq({Shards[i] : i \in DOMAIN Shards}) /\ Shards # << >> /\ MaxEdits \in Nat
  BY EvidenceAssumption DEF Suite!ShardsOK
<1> QED BY <1>1 DEF Suite!Order, Suite!Protocols, Suite!ShardSet

\* What the executor leaves of a stream replays.
LEMMA InvocationMeans ==
    ASSUME NEW raw \in Suite!Streams, NEW runtime \in 1..2
    PROVE  /\ Suite!Invocation(raw, runtime) \in Suite!Invocations
           /\ Suite!Invocation(raw, runtime).raw = raw
           /\ Suite!Row(Suite!Invocation(raw, runtime)).process.runtime = runtime
           /\ \A docs, snap :
                raw.snap = snap /\ raw.docs = docs /\ raw.whole =>
                  Suite!Replays(Suite!Invocation(raw, runtime), Suite!Row(Suite!Invocation(raw, runtime)),
                                snap, docs, runtime)
BY DEF Suite!Invocation, Suite!Invocations, Suite!Row, Suite!Replays, Suite!Sanitize, Suite!Process,
       Suite!Envelope, Suite!Processes, Suite!Envelopes

\* The stream that every shard has, all the streams, and the receipts built from them.
MadeOf(raw, streams, receipts) ==
    /\ raw \in Suite!Streams /\ raw.snap = 1 /\ raw.docs = 1 /\ raw.whole /\ raw.ok
    /\ streams = [s \in Suite!ShardSet |-> raw]
    /\ receipts = [p \in Suite!Protocols |-> Suite!Receipt(p, 1, 1, 1, streams)]

\* A suite as the executor leaves it is made of them.
HonestFrom(raw, streams, receipts) ==
    /\ MadeOf(raw, streams, receipts)
    /\ Suite!Honest.inv = [p \in Suite!Protocols |-> [s \in Suite!ShardSet |-> Suite!Invocation(raw, 1)]]
    /\ Suite!Honest.public =
         [p \in Suite!Protocols |-> [result |-> Suite!Aggregate(streams), receipt |-> receipts[p]]]
    /\ Suite!Honest.manifest.runtime = 1
    /\ Suite!Honest.manifest.full = [p \in Suite!Protocols |-> [snap |-> 1, docs |-> 1]]
    /\ Suite!Honest.manifest.rows =
         [p \in Suite!Protocols |-> [s \in Suite!ShardSet |-> Suite!Row(Suite!Invocation(raw, 1))]]
    /\ Suite!Honest.manifest.seal = Suite!PairSeal(receipts)
    /\ Suite!Honest.packs = Suite!Material(1, Suite!PairSeal(receipts))

\* So is what lies on the disk.
LeftFrom(raw, streams, receipts) ==
    /\ MadeOf(raw, streams, receipts)
    /\ packs = Suite!Material(1, Suite!PairSeal(receipts))
    /\ manifest.runtime = 1 /\ manifest.seal = Suite!PairSeal(receipts)
    /\ \A p \in Suite!Protocols :
         /\ caches[p] = 1 /\ manifest.full[p].snap = 1 /\ manifest.full[p].docs = 1
         /\ public[p].result = Suite!Aggregate(streams) /\ public[p].receipt = receipts[p]
         /\ Suite!Raws(p) = streams
         /\ \A s \in Suite!ShardSet :
              /\ inv[p][s] = Suite!Invocation(raw, 1)
              /\ manifest.rows[p][s] = Suite!Row(Suite!Invocation(raw, 1))

\* There is such a stream, for a suite as the executor leaves it.
LEMMA HonestMeans == \E raw, streams, receipts : HonestFrom(raw, streams, receipts)
<1> DEFINE raw == [snap |-> 1, docs |-> 1, whole |-> TRUE, ok |-> TRUE]
           streams == [s \in Suite!ShardSet |-> raw]
           receipts == [p \in Suite!Protocols |-> Suite!Receipt(p, 1, 1, 1, streams)]
<1>1. MadeOf(raw, streams, receipts)
  BY DEF MadeOf, Suite!Streams
<1>2. HonestFrom(raw, streams, receipts)
  BY <1>1 DEF HonestFrom, Suite!Honest
<1> HIDE DEF raw, streams, receipts
<1> QED BY <1>2

\* What there is when nothing was replaced.
LEMMA Untouched ==
    ASSUME Suite!IInv, aedits = 0
    PROVE  /\ issues = {} /\ tree = 1 /\ got.public = public /\ got.manifest = manifest /\ got.snap = 1
           /\ got.packs = packs /\ got.caches = caches /\ got.inv = inv
           /\ \E raw, streams, receipts : LeftFrom(raw, streams, receipts)
<1>1. /\ issues = {} /\ tree = 1 /\ packs = Suite!Honest.packs /\ public = Suite!Honest.public
      /\ caches = [p \in Suite!Protocols |-> 1] /\ inv = Suite!Honest.inv /\ manifest = Suite!Honest.manifest
      /\ got = [public |-> public, manifest |-> manifest, snap |-> 1, packs |-> packs,
                caches |-> caches, inv |-> inv]
  BY DEF Suite!IInv, Suite!UntouchedIsHonest
<1>2. /\ got.public = public /\ got.manifest = manifest /\ got.snap = 1
      /\ got.packs = packs /\ got.caches = caches /\ got.inv = inv
  BY <1>1
<1>3. PICK raw, streams, receipts : HonestFrom(raw, streams, receipts)
  BY HonestMeans
<1>4. MadeOf(raw, streams, receipts) /\ Suite!Invocation(raw, 1).raw = raw
  BY <1>3, InvocationMeans DEF HonestFrom, MadeOf
<1>5. ASSUME NEW p \in Suite!Protocols
      PROVE  /\ caches[p] = 1 /\ manifest.full[p].snap = 1 /\ manifest.full[p].docs = 1
             /\ public[p].result = Suite!Aggregate(streams) /\ public[p].receipt = receipts[p]
             /\ Suite!Raws(p) = streams
             /\ \A s \in Suite!ShardSet :
                  /\ inv[p][s] = Suite!Invocation(raw, 1)
                  /\ manifest.rows[p][s] = Suite!Row(Suite!Invocation(raw, 1))
  <2>1. caches[p] = 1 /\ manifest.full[p].snap = 1 /\ manifest.full[p].docs = 1
    BY <1>1, <1>3 DEF HonestFrom
  <2>2. public[p].result = Suite!Aggregate(streams) /\ public[p].receipt = receipts[p]
    BY <1>1, <1>3 DEF HonestFrom
  <2>3. \A s \in Suite!ShardSet :
          inv[p][s] = Suite!Invocation(raw, 1) /\ manifest.rows[p][s] = Suite!Row(Suite!Invocation(raw, 1))
    BY <1>1, <1>3 DEF HonestFrom
  <2>4. Suite!Raws(p) = streams
    BY <1>2, <1>4, <2>3 DEF Suite!Raws, MadeOf
  <2> QED BY <2>1, <2>2, <2>3, <2>4
<1>6. LeftFrom(raw, streams, receipts)
  BY <1>1, <1>3, <1>4, <1>5 DEF LeftFrom, HonestFrom
<1> QED BY <1>1, <1>2, <1>6

\* An untouched suite, and an audit that has not begun.
LEMMA SuiteInit == Suite!Init => Suite!IInv
<1> SUFFICES ASSUME Suite!Init PROVE Suite!IInv
  OBVIOUS
<1>1. /\ tree = 1 /\ packs = Suite!Honest.packs /\ public = Suite!Honest.public
      /\ caches = [p \in Suite!Protocols |-> 1] /\ inv = Suite!Honest.inv /\ manifest = Suite!Honest.manifest
      /\ apc = "public" /\ proto = 1 /\ shard = 1 /\ issues = {} /\ aedits = 0
      /\ got = [public |-> public, manifest |-> manifest, snap |-> 1, packs |-> packs,
                caches |-> caches, inv |-> inv]
  BY DEF Suite!Init
<1>2. PICK raw, streams, receipts : HonestFrom(raw, streams, receipts)
  BY HonestMeans
<1>3. /\ raw \in Suite!Streams /\ Suite!Invocation(raw, 1) \in Suite!Invocations
      /\ Suite!Invocation(raw, 1).raw = raw
      /\ inv = [p \in Suite!Protocols |-> [s \in Suite!ShardSet |-> Suite!Invocation(raw, 1)]]
  BY <1>1, <1>2, InvocationMeans DEF HonestFrom, MadeOf
<1>4. inv \in [Suite!Protocols -> [Suite!ShardSet -> Suite!Invocations]]
  BY <1>3
<1>5. Suite!Typed
  BY <1>1, <1>4 DEF Suite!Typed
<1>6. Suite!TypeOK
  BY <1>1, <1>3, SuiteOrder DEF Suite!TypeOK
<1>7. Suite!ShardsAreReplayed /\ Suite!StagesHold
  BY <1>1 DEF Suite!ShardsAreReplayed, Suite!HasShard, Suite!Passed, Suite!StagesHold, Suite!HasCache
<1>8. Suite!UntouchedIsHonest
  BY <1>1 DEF Suite!UntouchedIsHonest
<1> QED BY <1>5, <1>6, <1>7, <1>8 DEF Suite!IInv

\* A file that is replaced is not what the audit has read of it.
LEMMA ReplacementIInv ==
    ASSUME Suite!IInv, Suite!Edit, tree' \in 1..2, caches' \in [Suite!Protocols -> 1..2],
           inv' \in [Suite!Protocols -> [Suite!ShardSet -> Suite!Invocations]]
    PROVE  Suite!IInv'
<1>1. UNCHANGED <<apc, proto, shard, got, issues>> /\ aedits' \in 0..MaxEdits /\ aedits' # 0
  BY SuiteOrder DEF Suite!Edit, Suite!IInv, Suite!TypeOK
<1>2. Suite!Typed'
  BY <1>1 DEF Suite!IInv, Suite!Typed
<1>3. Suite!TypeOK'
  <2>1. \A p \in Suite!Protocols, s \in Suite!ShardSet : inv'[p][s].raw \in Suite!Streams
    BY DEF Suite!Invocations
  <2> QED BY <1>1, <2>1 DEF Suite!IInv, Suite!TypeOK, Suite!Failed
<1>4. Suite!ShardsAreReplayed'
  BY <1>1 DEF Suite!IInv, Suite!ShardsAreReplayed, Suite!HasShard, Suite!Passed
<1>5. Suite!StagesHold'
  BY <1>1 DEF Suite!IInv, Suite!StagesHold, Suite!HasCache, Suite!Passed,
              Suite!ResultOK, Suite!ReceiptOK, Suite!Raws
<1>6. Suite!UntouchedIsHonest'
  BY <1>1 DEF Suite!UntouchedIsHonest
<1> QED BY <1>2, <1>3, <1>4, <1>5, <1>6 DEF Suite!IInv

\* A stream that replaces another one is a stream.
LEMMA OthersMeans ==
    ASSUME NEW x \in Suite!Streams, NEW y \in Suite!Others(x)
    PROVE  y \in Suite!Streams
<1>1. [x EXCEPT !.snap = 3 - @] \in Suite!Streams /\ [x EXCEPT !.docs = 3 - @] \in Suite!Streams
  BY DEF Suite!Streams
<1>2. [x EXCEPT !.whole = ~@] \in Suite!Streams
  <2> DEFINE b == ~x.whole
  <2>1. b \in BOOLEAN
    OBVIOUS
  <2> HIDE DEF b
  <2>2. [x EXCEPT !.whole = b] \in Suite!Streams
    BY <2>1 DEF Suite!Streams
  <2> QED BY <2>2 DEF b
<1>3. [x EXCEPT !.ok = ~@] \in Suite!Streams
  <2> DEFINE b == ~x.ok
  <2>1. b \in BOOLEAN
    OBVIOUS
  <2> HIDE DEF b
  <2>2. [x EXCEPT !.ok = b] \in Suite!Streams
    BY <2>1 DEF Suite!Streams
  <2> QED BY <2>2 DEF b
<1> QED BY <1>1, <1>2, <1>3 DEF Suite!Others

\* An invocation with one of its files replaced is an invocation.
LEMMA FileMeans ==
    ASSUME NEW i \in Suite!Invocations, NEW x \in Suite!Streams
    PROVE  /\ i.raw \in Suite!Streams
           /\ [i EXCEPT !.raw = x] \in Suite!Invocations
           /\ [i EXCEPT !.sanitized = x] \in Suite!Invocations
           /\ [i EXCEPT !.process.out = x] \in Suite!Invocations
           /\ [i EXCEPT !.process.runtime = 3 - @] \in Suite!Invocations
           /\ [i EXCEPT !.envelope.of = x] \in Suite!Invocations
BY DEF Suite!Invocations, Suite!Processes, Suite!Envelopes

\* Every replacement, by whomever, is one of those.
LEMMA ReplacementsIInv ==
    ASSUME Suite!IInv,
           \/ Suite!Commit \/ Suite!Attest
           \/ \E p \in Suite!Protocols : Suite!ReplaceCache(p) \/ Suite!Republish(p)
           \/ \E p \in Suite!Protocols, s \in Suite!ShardSet : Suite!ReplaceFile(p, s) \/ Suite!RunAgain(p, s)
    PROVE  Suite!IInv'
<1>0. /\ tree \in 1..2 /\ caches \in [Suite!Protocols -> 1..2]
      /\ inv \in [Suite!Protocols -> [Suite!ShardSet -> Suite!Invocations]]
  BY DEF Suite!IInv, Suite!TypeOK, Suite!Typed
<1>1. CASE Suite!Commit
  <2>1. Suite!Edit /\ tree' \in 1..2 /\ caches' = caches /\ inv' = inv
    BY <1>0, <1>1 DEF Suite!Commit
  <2> QED BY <1>0, <2>1, ReplacementIInv
<1>2. CASE Suite!Attest
  <2>1. Suite!Edit /\ tree' = tree /\ caches' = caches /\ inv' = inv
    BY <1>2 DEF Suite!Attest
  <2> QED BY <1>0, <2>1, ReplacementIInv
<1>3. ASSUME NEW p \in Suite!Protocols, Suite!ReplaceCache(p) PROVE Suite!IInv'
  <2>1. Suite!Edit /\ tree' = tree /\ caches' \in [Suite!Protocols -> 1..2] /\ inv' = inv
    BY <1>0, <1>3 DEF Suite!ReplaceCache
  <2> QED BY <1>0, <2>1, ReplacementIInv
<1>4. ASSUME NEW p \in Suite!Protocols, Suite!Republish(p) PROVE Suite!IInv'
  <2>1. Suite!Edit /\ tree' = tree /\ caches' = caches /\ inv' = inv
    BY <1>4 DEF Suite!Republish
  <2> QED BY <1>0, <2>1, ReplacementIInv
<1>5. ASSUME NEW p \in Suite!Protocols, NEW s \in Suite!ShardSet, Suite!ReplaceFile(p, s) PROVE Suite!IInv'
  <2>1. Suite!Edit /\ tree' = tree /\ caches' = caches
    BY <1>5 DEF Suite!ReplaceFile
  <2>2. PICK x \in Suite!Others(inv[p][s].raw) :
          \/ inv' = [inv EXCEPT ![p][s].raw = x]
          \/ inv' = [inv EXCEPT ![p][s].sanitized = x]
          \/ inv' = [inv EXCEPT ![p][s].process.out = x]
          \/ inv' = [inv EXCEPT ![p][s].process.runtime = 3 - @]
          \/ inv' = [inv EXCEPT ![p][s].envelope.of = x]
    BY <1>5 DEF Suite!ReplaceFile
  <2>3. inv[p][s] \in Suite!Invocations /\ inv[p][s].raw \in Suite!Streams
    BY <1>0 DEF Suite!Invocations
  <2>4. x \in Suite!Streams
    BY <2>3, OthersMeans
  <2>5. \E i \in Suite!Invocations : inv' = [inv EXCEPT ![p][s] = i]
    BY <2>2, <2>3, <2>4, FileMeans
  <2>6. inv' \in [Suite!Protocols -> [Suite!ShardSet -> Suite!Invocations]]
    BY <1>0, <2>5
  <2> QED BY <1>0, <2>1, <2>6, ReplacementIInv
<1>6. ASSUME NEW p \in Suite!Protocols, NEW s \in Suite!ShardSet, Suite!RunAgain(p, s) PROVE Suite!IInv'
  <2>1. Suite!Edit /\ tree' = tree /\ caches' = caches
    BY <1>6 DEF Suite!RunAgain
  <2>2. PICK x \in Suite!Others(inv[p][s].raw) \cup {inv[p][s].raw}, r \in 1..2 :
          inv' = [inv EXCEPT ![p][s] = Suite!Invocation(x, r)]
    BY <1>6 DEF Suite!RunAgain
  <2>3. inv[p][s].raw \in Suite!Streams
    BY <1>0 DEF Suite!Invocations
  <2>4. Suite!Invocation(x, r) \in Suite!Invocations
    BY <2>3, OthersMeans, InvocationMeans
  <2>5. inv' \in [Suite!Protocols -> [Suite!ShardSet -> Suite!Invocations]]
    BY <1>0, <2>2, <2>4
  <2> QED BY <1>0, <2>1, <2>5, ReplacementIInv
<1> QED BY <1>1, <1>2, <1>3, <1>4, <1>5, <1>6

\* What every stage of the audit leaves alone.
LEMMA StageFrame ==
    ASSUME Suite!IInv, UNCHANGED Suite!disk, aedits' = aedits,
           proto' \in 1..2, shard' \in DOMAIN Shards,
           apc' \in {"public", "manifest", "freeze", "cache", "shard", "receipt", "pair",
                    "material", "gate", "done"},
           apc' \in {"material", "gate"} => \A p \in Suite!Protocols : ~Suite!Failed(p)',
           got' = [public |-> got'.public, manifest |-> got'.manifest, snap |-> got'.snap, packs |-> got'.packs,
                   caches |-> got'.caches, inv |-> got'.inv],
           got'.snap \in 1..2, got'.caches \in [Suite!Protocols -> 1..2],
           got'.inv \in [Suite!Protocols -> [Suite!ShardSet -> Suite!Invocations]],
           apc' \in {"public", "manifest", "freeze"} => proto' = 1,
           apc' \in {"pair", "material", "gate"} => proto' = 2,
           aedits = 0 => /\ issues' = {} /\ got'.public = public /\ got'.manifest = manifest /\ got'.snap = 1
                         /\ got'.packs = packs /\ got'.caches = caches /\ got'.inv = inv
    PROVE  Suite!TypeOK' /\ Suite!Typed' /\ Suite!UntouchedIsHonest'
<1>1. UNCHANGED <<tree, packs, public, caches, inv, manifest>>
  BY DEF Suite!disk
<1>2. Suite!TypeOK'
  BY <1>1 DEF Suite!IInv, Suite!TypeOK
<1>3. Suite!Typed'
  BY <1>1 DEF Suite!IInv, Suite!Typed
<1>4. Suite!UntouchedIsHonest'
  BY <1>1 DEF Suite!IInv, Suite!UntouchedIsHonest
<1> QED BY <1>2, <1>3, <1>4

\* What the audit has read, field by field, and where it is.
LEMMA GotMeans ==
    ASSUME Suite!IInv
    PROVE  /\ got = [public |-> got.public, manifest |-> got.manifest, snap |-> got.snap, packs |-> got.packs,
                     caches |-> got.caches, inv |-> got.inv]
           /\ got.snap \in 1..2 /\ got.caches \in [Suite!Protocols -> 1..2]
           /\ got.inv \in [Suite!Protocols -> [Suite!ShardSet -> Suite!Invocations]]
           /\ proto \in 1..2 /\ shard \in DOMAIN Shards
           /\ Suite!P \in Suite!Protocols /\ Suite!S \in Suite!ShardSet
           /\ tree \in 1..2 /\ caches \in [Suite!Protocols -> 1..2]
           /\ inv \in [Suite!Protocols -> [Suite!ShardSet -> Suite!Invocations]]
<1>1. got \in [public : {got.public}, manifest : {got.manifest}, packs : {got.packs}, snap : 1..2,
               caches : [Suite!Protocols -> 1..2],
               inv : [Suite!Protocols -> [Suite!ShardSet -> Suite!Invocations]]]
  BY DEF Suite!IInv, Suite!Typed
<1>2. proto \in 1..2 /\ shard \in DOMAIN Shards
  BY DEF Suite!IInv, Suite!TypeOK
<1>3. Suite!P \in Suite!Protocols /\ Suite!S \in Suite!ShardSet
  BY <1>2, SuiteOrder DEF Suite!P, Suite!S
<1> QED BY <1>1, <1>2, <1>3 DEF Suite!IInv, Suite!TypeOK, Suite!Typed

\* The audit has not come to a protocol's files.
LEMMA EarlyStages ==
    ASSUME proto' = 1, apc' \in {"public", "manifest", "freeze", "cache"} \/ (apc' = "done" /\ issues' # {})
    PROVE  Suite!ShardsAreReplayed' /\ Suite!StagesHold'
BY DEF Suite!ShardsAreReplayed, Suite!HasShard, Suite!Passed, Suite!StagesHold, Suite!HasCache

\* The results and receipts of the checkout are read.
LEMMA ReadPublicIInv == ASSUME Suite!IInv, Suite!ReadPublic PROVE Suite!IInv'
<1>1. /\ apc = "public" /\ apc' = "manifest" /\ UNCHANGED <<proto, shard, issues>> /\ UNCHANGED Suite!disk
      /\ aedits' = aedits /\ got' = [got EXCEPT !.public = public]
  BY DEF Suite!ReadPublic, Suite!Go
<1>2. proto = 1
  BY <1>1 DEF Suite!IInv, Suite!Typed
<1>3. /\ got' = [public |-> public, manifest |-> got.manifest, snap |-> got.snap, packs |-> got.packs,
                 caches |-> got.caches, inv |-> got.inv]
  BY <1>1, GotMeans
<1>4. aedits = 0 => /\ issues = {} /\ got.public = public /\ got.manifest = manifest /\ got.snap = 1
                    /\ got.packs = packs /\ got.caches = caches /\ got.inv = inv
  BY Untouched
<1>5. Suite!TypeOK' /\ Suite!Typed' /\ Suite!UntouchedIsHonest'
  BY <1>1, <1>2, <1>3, <1>4, GotMeans, StageFrame
<1> QED BY <1>1, <1>2, <1>5, EarlyStages DEF Suite!IInv

\* The manifest is read: one runtime for every shard, or the audit ends.
LEMMA LoadManifestIInv == ASSUME Suite!IInv, Suite!LoadManifest PROVE Suite!IInv'
<1>1. /\ apc = "manifest" /\ UNCHANGED <<proto, shard>> /\ UNCHANGED Suite!disk
      /\ aedits' = aedits /\ got' = [got EXCEPT !.manifest = manifest]
      /\ \/ Suite!ManifestOK(manifest) /\ apc' = "freeze" /\ issues' = issues
         \/ ~Suite!ManifestOK(manifest) /\ apc' = "done" /\ issues' = issues \cup {<<"suite", "manifest">>}
  BY DEF Suite!LoadManifest, Suite!Go, Suite!Note
<1>2. proto = 1
  BY <1>1 DEF Suite!IInv, Suite!Typed
<1>3. /\ got' = [public |-> got.public, manifest |-> manifest, snap |-> got.snap, packs |-> got.packs,
                 caches |-> got.caches, inv |-> got.inv]
  BY <1>1, GotMeans
<1>4. aedits = 0 => /\ issues' = {} /\ got.public = public /\ got.manifest = manifest /\ got.snap = 1
                    /\ got.packs = packs /\ got.caches = caches /\ got.inv = inv
  <2> SUFFICES ASSUME aedits = 0
               PROVE  /\ issues' = {} /\ got.public = public /\ got.manifest = manifest /\ got.snap = 1
                      /\ got.packs = packs /\ got.caches = caches /\ got.inv = inv
    OBVIOUS
  <2>1. /\ issues = {} /\ got.public = public /\ got.manifest = manifest /\ got.snap = 1
        /\ got.packs = packs /\ got.caches = caches /\ got.inv = inv
    BY Untouched
  <2>2. PICK raw, streams, receipts : LeftFrom(raw, streams, receipts)
    BY Untouched
  <2>3. /\ raw \in Suite!Streams /\ manifest.runtime = 1
        /\ \A p \in Suite!Protocols, s \in Suite!ShardSet :
             manifest.rows[p][s] = Suite!Row(Suite!Invocation(raw, 1))
    BY <2>2 DEF LeftFrom, MadeOf
  <2>4. Suite!ManifestOK(manifest)
    BY <2>3, InvocationMeans DEF Suite!ManifestOK
  <2> QED BY <1>1, <2>1, <2>4
<1>5. Suite!TypeOK' /\ Suite!Typed' /\ Suite!UntouchedIsHonest'
  BY <1>1, <1>2, <1>3, <1>4, GotMeans, StageFrame
<1> QED BY <1>1, <1>2, <1>5, EarlyStages DEF Suite!IInv

\* The packs are read and the snapshot is taken.
LEMMA FreezeIInv == ASSUME Suite!IInv, Suite!Freeze PROVE Suite!IInv'
<1>1. /\ apc = "freeze" /\ apc' = "cache" /\ UNCHANGED <<proto, shard, issues>> /\ UNCHANGED Suite!disk
      /\ aedits' = aedits /\ got' = [got EXCEPT !.snap = tree, !.packs = packs]
  BY DEF Suite!Freeze, Suite!Go
<1>2. proto = 1
  BY <1>1 DEF Suite!IInv, Suite!Typed
<1>3. /\ got' = [public |-> got.public, manifest |-> got.manifest, snap |-> tree, packs |-> packs,
                 caches |-> got.caches, inv |-> got.inv]
  BY <1>1, GotMeans
<1>4. aedits = 0 => /\ issues = {} /\ got.public = public /\ got.manifest = manifest /\ tree = 1
                    /\ got.packs = packs /\ got.caches = caches /\ got.inv = inv
  BY Untouched
<1>5. Suite!TypeOK' /\ Suite!Typed' /\ Suite!UntouchedIsHonest'
  BY <1>1, <1>2, <1>3, <1>4, GotMeans, StageFrame
<1> QED BY <1>1, <1>2, <1>5, EarlyStages DEF Suite!IInv

\* The documents of a protocol are read: those that its manifest row names.
LEMMA FullCacheIInv == ASSUME Suite!IInv, Suite!FullCache PROVE Suite!IInv'
<1> DEFINE new == [got.caches EXCEPT ![Suite!P] = caches[Suite!P]]
<1>1. /\ apc = "cache" /\ apc' = "shard" /\ shard' = 1 /\ proto' = proto /\ UNCHANGED Suite!disk
      /\ aedits' = aedits /\ got' = [got EXCEPT !.caches[Suite!P] = caches[Suite!P]]
      /\ issues' = issues \cup (Suite!If(got.manifest.full[Suite!P].snap # got.snap, <<Suite!P, "snapshot">>)
                     \cup Suite!If(got.manifest.full[Suite!P].docs # caches[Suite!P], <<Suite!P, "cache">>))
  BY DEF Suite!FullCache, Suite!Go, Suite!Note
<1>2. /\ got' = [public |-> got.public, manifest |-> got.manifest, snap |-> got.snap, packs |-> got.packs,
                 caches |-> new, inv |-> got.inv]
  BY <1>1, GotMeans
<1>3. new \in [Suite!Protocols -> 1..2] /\ \A p \in Suite!Protocols \ {Suite!P} : new[p] = got.caches[p]
  BY GotMeans
<1>4. 1 \in DOMAIN Shards /\ proto \in 1..2
  BY SuiteOrder, GotMeans
<1>5. aedits = 0 => /\ issues' = {} /\ got.public = public /\ got.manifest = manifest /\ got.snap = 1
                    /\ got.packs = packs /\ new = caches /\ got.inv = inv
  <2> SUFFICES ASSUME aedits = 0
               PROVE  /\ issues' = {} /\ got.public = public /\ got.manifest = manifest /\ got.snap = 1
                      /\ got.packs = packs /\ new = caches /\ got.inv = inv
    OBVIOUS
  <2>1. /\ issues = {} /\ got.public = public /\ got.manifest = manifest /\ got.snap = 1
        /\ got.packs = packs /\ got.caches = caches /\ got.inv = inv
    BY Untouched
  <2>2. PICK raw, streams, receipts : LeftFrom(raw, streams, receipts)
    BY Untouched
  <2>3. \A p \in Suite!Protocols : caches[p] = 1 /\ manifest.full[p].snap = 1 /\ manifest.full[p].docs = 1
    BY <2>2 DEF LeftFrom
  <2> QED BY <1>1, <2>1, <2>3, GotMeans DEF Suite!If
<1> HIDE DEF new
<1>6. Suite!TypeOK' /\ Suite!Typed' /\ Suite!UntouchedIsHonest'
  <2>1. /\ got'.public = got.public /\ got'.manifest = got.manifest /\ got'.snap = got.snap
        /\ got'.packs = got.packs /\ got'.caches = new /\ got'.inv = got.inv
    BY <1>2
  <2>2. got' = [public |-> got'.public, manifest |-> got'.manifest, snap |-> got'.snap, packs |-> got'.packs,
                caches |-> got'.caches, inv |-> got'.inv]
    BY <1>2
  <2>3. aedits = 0 => /\ issues' = {} /\ got'.public = public /\ got'.manifest = manifest /\ got'.snap = 1
                      /\ got'.packs = packs /\ got'.caches = caches /\ got'.inv = inv
    BY <1>5, <2>1
  <2>4. /\ got'.snap \in 1..2 /\ got'.caches \in [Suite!Protocols -> 1..2]
        /\ got'.inv \in [Suite!Protocols -> [Suite!ShardSet -> Suite!Invocations]]
    BY <1>3, <2>1, GotMeans
  <2>5. UNCHANGED Suite!disk /\ aedits' = aedits /\ proto' \in 1..2 /\ shard' \in DOMAIN Shards
    BY <1>1, <1>4
  <2>6. apc' \in {"shard", "receipt"}
    BY <1>1
  <2> QED BY <2>2, <2>3, <2>4, <2>5, <2>6, StageFrame
<1>7. issues \subseteq issues' /\ (issues' = {} => got.manifest.full[Suite!P].snap = got.snap)
  BY <1>1 DEF Suite!If
<1>8. \A n \in 1..2 : n < proto => Suite!Order[n] \in Suite!Protocols \ {Suite!P}
  BY <1>4, SuiteOrder DEF Suite!P
<1>9. Suite!ShardsAreReplayed'
  <2> SUFFICES ASSUME NEW n \in 1..2, NEW k \in DOMAIN Shards, Suite!HasShard(n, k)'
               PROVE  \/ <<Suite!Order[n], Shards[k]>> \in issues'
                      \/ Suite!Replays(got'.inv[Suite!Order[n]][Shards[k]],
                                       got'.manifest.rows[Suite!Order[n]][Shards[k]], got'.snap,
                                       got'.caches[Suite!Order[n]], got'.manifest.runtime)
    BY DEF Suite!ShardsAreReplayed
  <2>1. n < proto
    BY <1>1, SuiteOrder DEF Suite!HasShard, Suite!Passed
  <2>2. Suite!HasShard(n, k)
    BY <2>1 DEF Suite!HasShard, Suite!Passed
  <2> QED BY <1>2, <1>3, <1>7, <1>8, <2>1, <2>2 DEF Suite!IInv, Suite!ShardsAreReplayed
<1>10. Suite!StagesHold'
  <2> SUFFICES ASSUME issues' = {}, NEW n \in 1..2
               PROVE  /\ Suite!HasCache(n)' => got'.manifest.full[Suite!Order[n]].snap = got'.snap
                      /\ Suite!Passed(n)' => Suite!ResultOK(Suite!Order[n])' /\ Suite!ReceiptOK(Suite!Order[n])'
    BY <1>1 DEF Suite!StagesHold
  <2>1. issues = {}
    BY <1>7
  <2>2. CASE n < proto
    <3>1. Suite!Passed(n) /\ Suite!HasCache(n)
      BY <2>2 DEF Suite!Passed, Suite!HasCache
    <3>2. /\ got.manifest.full[Suite!Order[n]].snap = got.snap
          /\ Suite!ResultOK(Suite!Order[n]) /\ Suite!ReceiptOK(Suite!Order[n])
      BY <2>1, <3>1 DEF Suite!IInv, Suite!StagesHold
    <3> QED BY <1>2, <1>3, <1>8, <2>2, <3>2 DEF Suite!ResultOK, Suite!ReceiptOK, Suite!Raws
  <2>3. CASE ~(n < proto)
    <3>1. ~Suite!Passed(n)' /\ (Suite!HasCache(n)' => n = proto)
      BY <1>1, <2>3 DEF Suite!Passed, Suite!HasCache
    <3> QED BY <1>2, <1>7, <3>1 DEF Suite!P
  <2> QED BY <2>2, <2>3
<1> QED BY <1>6, <1>9, <1>10 DEF Suite!IInv

\* A shard is read and replayed from its raw stream, or its failure is noted.
LEMMA ReplayShardIInv == ASSUME Suite!IInv, Suite!ReplayShard PROVE Suite!IInv'
<1> DEFINE new == [got.inv EXCEPT ![Suite!P][Suite!S] = inv[Suite!P][Suite!S]]
           ok == Suite!Replays(inv[Suite!P][Suite!S], got.manifest.rows[Suite!P][Suite!S], got.snap,
                               got.caches[Suite!P], got.manifest.runtime)
<1>1. /\ apc = "shard" /\ proto' = proto /\ UNCHANGED Suite!disk
      /\ aedits' = aedits /\ got' = [got EXCEPT !.inv[Suite!P][Suite!S] = inv[Suite!P][Suite!S]]
      /\ issues' = issues \cup Suite!If(~ok, <<Suite!P, Suite!S>>)
      /\ \/ shard < Len(Shards) /\ shard' = shard + 1 /\ apc' = "shard"
         \/ ~(shard < Len(Shards)) /\ shard' = shard /\ apc' = "receipt"
  BY DEF Suite!ReplayShard, Suite!Go, Suite!Note
<1>2. /\ got' = [public |-> got.public, manifest |-> got.manifest, snap |-> got.snap, packs |-> got.packs,
                 caches |-> got.caches, inv |-> new]
  BY <1>1, GotMeans
<1>3. /\ new \in [Suite!Protocols -> [Suite!ShardSet -> Suite!Invocations]]
      /\ new[Suite!P][Suite!S] = inv[Suite!P][Suite!S]
      /\ \A p \in Suite!Protocols, s \in Suite!ShardSet :
           p # Suite!P \/ s # Suite!S => new[p][s] = got.inv[p][s]
  BY GotMeans
<1>4. shard' \in DOMAIN Shards /\ proto \in 1..2 /\ shard \in 1..Len(Shards) /\ Len(Shards) \in Nat
  BY <1>1, SuiteOrder, GotMeans
<1>5. aedits = 0 => /\ issues' = {} /\ got.public = public /\ got.manifest = manifest /\ got.snap = 1
                    /\ got.packs = packs /\ got.caches = caches /\ new = inv
  <2> SUFFICES ASSUME aedits = 0
               PROVE  /\ issues' = {} /\ got.public = public /\ got.manifest = manifest /\ got.snap = 1
                      /\ got.packs = packs /\ got.caches = caches /\ new = inv
    OBVIOUS
  <2>1. /\ issues = {} /\ got.public = public /\ got.manifest = manifest /\ got.snap = 1
        /\ got.packs = packs /\ got.caches = caches /\ got.inv = inv
    BY Untouched
  <2>2. ok
    <3>1. PICK raw, streams, receipts : LeftFrom(raw, streams, receipts)
      BY Untouched
    <3>2. /\ raw \in Suite!Streams /\ raw.snap = 1 /\ raw.docs = 1 /\ raw.whole /\ manifest.runtime = 1
          /\ \A p \in Suite!Protocols : caches[p] = 1
          /\ \A p \in Suite!Protocols, s \in Suite!ShardSet :
               /\ inv[p][s] = Suite!Invocation(raw, 1)
               /\ manifest.rows[p][s] = Suite!Row(Suite!Invocation(raw, 1))
      BY <3>1 DEF LeftFrom, MadeOf
    <3>3. /\ inv[Suite!P][Suite!S] = Suite!Invocation(raw, 1) /\ got.snap = 1
          /\ got.manifest.rows[Suite!P][Suite!S] = Suite!Row(Suite!Invocation(raw, 1))
          /\ got.caches[Suite!P] = 1 /\ got.manifest.runtime = 1
      BY <2>1, <3>2, GotMeans
    <3>4. Suite!Replays(Suite!Invocation(raw, 1), Suite!Row(Suite!Invocation(raw, 1)), 1, 1, 1)
      BY <3>2, InvocationMeans
    <3> QED BY <3>3, <3>4
  <2>3. new = inv
    BY <2>1, GotMeans
  <2> HIDE DEF ok, new
  <2> QED BY <1>1, <2>1, <2>2, <2>3 DEF Suite!If
<1> HIDE DEF new
<1>6. Suite!TypeOK' /\ Suite!Typed' /\ Suite!UntouchedIsHonest'
  <2>1. /\ got'.public = got.public /\ got'.manifest = got.manifest /\ got'.snap = got.snap
        /\ got'.packs = got.packs /\ got'.caches = got.caches /\ got'.inv = new
    BY <1>2
  <2>2. got' = [public |-> got'.public, manifest |-> got'.manifest, snap |-> got'.snap, packs |-> got'.packs,
                caches |-> got'.caches, inv |-> got'.inv]
    BY <1>2
  <2>3. aedits = 0 => /\ issues' = {} /\ got'.public = public /\ got'.manifest = manifest /\ got'.snap = 1
                      /\ got'.packs = packs /\ got'.caches = caches /\ got'.inv = inv
    BY <1>5, <2>1
  <2>4. /\ got'.snap \in 1..2 /\ got'.caches \in [Suite!Protocols -> 1..2]
        /\ got'.inv \in [Suite!Protocols -> [Suite!ShardSet -> Suite!Invocations]]
    BY <1>3, <2>1, GotMeans
  <2>5. UNCHANGED Suite!disk /\ aedits' = aedits /\ proto' \in 1..2 /\ shard' \in DOMAIN Shards
    BY <1>1, <1>4
  <2>6. apc' \in {"shard", "receipt"}
    BY <1>1
  <2> QED BY <2>2, <2>3, <2>4, <2>5, <2>6, StageFrame
<1>7. issues \subseteq issues' /\ (<<Suite!P, Suite!S>> \in issues' \/ ok)
  BY <1>1 DEF Suite!If
<1>8. \A n \in 1..2 : /\ Suite!Order[n] \in Suite!Protocols
                      /\ n < proto => Suite!Order[n] # Suite!P
                      /\ n = proto => Suite!Order[n] = Suite!P
  BY <1>4, SuiteOrder DEF Suite!P
<1>9. Suite!ShardsAreReplayed'
  <2> SUFFICES ASSUME NEW n \in 1..2, NEW k \in DOMAIN Shards, Suite!HasShard(n, k)'
               PROVE  \/ <<Suite!Order[n], Shards[k]>> \in issues'
                      \/ Suite!Replays(got'.inv[Suite!Order[n]][Shards[k]],
                                       got'.manifest.rows[Suite!Order[n]][Shards[k]], got'.snap,
                                       got'.caches[Suite!Order[n]], got'.manifest.runtime)
    BY DEF Suite!ShardsAreReplayed
  <2>0. Shards[k] \in Suite!ShardSet /\ k \in 1..Len(Shards)
    BY SuiteOrder
  <2>1. n < proto \/ (n = proto /\ k <= shard)
    BY <1>1, <1>4, <2>0 DEF Suite!HasShard, Suite!Passed
  <2>2. CASE Suite!Order[n] = Suite!P /\ Shards[k] = Suite!S
    BY <1>2, <1>3, <1>7, <2>2
  <2>3. CASE ~(Suite!Order[n] = Suite!P /\ Shards[k] = Suite!S)
    <3>1. n < proto \/ (n = proto /\ k < shard)
      BY <1>4, <1>8, <2>0, <2>1, <2>3 DEF Suite!S
    <3>2. Suite!HasShard(n, k)
      BY <1>1, <3>1 DEF Suite!HasShard, Suite!Passed
    <3>3. got'.inv[Suite!Order[n]][Shards[k]] = got.inv[Suite!Order[n]][Shards[k]]
      BY <1>2, <1>3, <1>8, <2>0, <2>3
    <3> QED BY <1>2, <1>7, <3>2, <3>3 DEF Suite!IInv, Suite!ShardsAreReplayed
  <2> QED BY <2>2, <2>3
<1>10. Suite!StagesHold'
  <2> SUFFICES ASSUME issues' = {}, NEW n \in 1..2
               PROVE  /\ Suite!HasCache(n)' => got'.manifest.full[Suite!Order[n]].snap = got'.snap
                      /\ Suite!Passed(n)' => Suite!ResultOK(Suite!Order[n])' /\ Suite!ReceiptOK(Suite!Order[n])'
    BY <1>1 DEF Suite!StagesHold
  <2>1. issues = {}
    BY <1>7
  <2>2. /\ Suite!HasCache(n)' => Suite!HasCache(n)
        /\ Suite!Passed(n)' => n < proto /\ Suite!Passed(n)
    BY <1>1 DEF Suite!Passed, Suite!HasCache
  <2>3. /\ Suite!HasCache(n) => got.manifest.full[Suite!Order[n]].snap = got.snap
        /\ Suite!Passed(n) => Suite!ResultOK(Suite!Order[n]) /\ Suite!ReceiptOK(Suite!Order[n])
    BY <2>1 DEF Suite!IInv, Suite!StagesHold
  <2>4. n < proto => Suite!Raws(Suite!Order[n])' = Suite!Raws(Suite!Order[n])
    BY <1>2, <1>3, <1>8 DEF Suite!Raws
  <2> QED BY <1>2, <2>2, <2>3, <2>4 DEF Suite!ResultOK, Suite!ReceiptOK
<1> QED BY <1>6, <1>9, <1>10 DEF Suite!IInv

\* A stage that reads no shard leaves those that were replayed.
LEMMA ReplayedStay ==
    ASSUME Suite!IInv, got' = got, issues \subseteq issues',
           \A n \in 1..2, k \in DOMAIN Shards : Suite!HasShard(n, k)' => Suite!HasShard(n, k)
    PROVE  Suite!ShardsAreReplayed'
BY DEF Suite!IInv, Suite!ShardsAreReplayed

\* Result and receipt are built again from the replayed streams and compared.
LEMMA CheckReceiptIInv == ASSUME Suite!IInv, Suite!CheckReceipt PROVE Suite!IInv'
<1>1. /\ apc = "receipt" /\ UNCHANGED <<shard, got>> /\ UNCHANGED Suite!disk /\ aedits' = aedits
      /\ issues' = issues \cup (IF Suite!Failed(Suite!P) THEN {}
            ELSE Suite!If(~Suite!ResultOK(Suite!P), <<Suite!P, "result">>)
                   \cup Suite!If(~Suite!ReceiptOK(Suite!P), <<Suite!P, "receipt">>))
      /\ \/ proto = 1 /\ proto' = 2 /\ apc' = "cache"
         \/ proto # 1 /\ proto' = proto /\ apc' = "pair"
  BY DEF Suite!CheckReceipt, Suite!Go, Suite!Note
<1>2. proto \in 1..2
  BY GotMeans
<1>3. aedits = 0 => /\ issues' = {} /\ got.public = public /\ got.manifest = manifest /\ got.snap = 1
                    /\ got.packs = packs /\ got.caches = caches /\ got.inv = inv
  <2> SUFFICES ASSUME aedits = 0
               PROVE  /\ issues' = {} /\ got.public = public /\ got.manifest = manifest /\ got.snap = 1
                      /\ got.packs = packs /\ got.caches = caches /\ got.inv = inv
    OBVIOUS
  <2>1. /\ issues = {} /\ got.public = public /\ got.manifest = manifest /\ got.snap = 1
        /\ got.packs = packs /\ got.caches = caches /\ got.inv = inv
    BY Untouched
  <2>2. PICK raw, streams, receipts : LeftFrom(raw, streams, receipts)
    BY Untouched
  <2>3. /\ receipts = [p \in Suite!Protocols |-> Suite!Receipt(p, 1, 1, 1, streams)]
        /\ manifest.runtime = 1
        /\ \A p \in Suite!Protocols :
             /\ caches[p] = 1 /\ Suite!Raws(p) = streams
             /\ public[p].result = Suite!Aggregate(streams) /\ public[p].receipt = receipts[p]
    BY <2>2 DEF LeftFrom, MadeOf
  <2>4. Suite!ResultOK(Suite!P)
    BY <2>1, <2>3, GotMeans DEF Suite!ResultOK
  <2>5. Suite!ReceiptOK(Suite!P)
    BY <2>1, <2>3, GotMeans DEF Suite!ReceiptOK
  <2> QED BY <1>1, <2>1, <2>4, <2>5 DEF Suite!If
<1>4. Suite!TypeOK' /\ Suite!Typed' /\ Suite!UntouchedIsHonest'
  <2>1. /\ got' = [public |-> got'.public, manifest |-> got'.manifest, snap |-> got'.snap, packs |-> got'.packs,
                   caches |-> got'.caches, inv |-> got'.inv]
        /\ got'.snap \in 1..2 /\ got'.caches \in [Suite!Protocols -> 1..2]
        /\ got'.inv \in [Suite!Protocols -> [Suite!ShardSet -> Suite!Invocations]]
    BY <1>1, GotMeans
  <2>2. aedits = 0 => /\ issues' = {} /\ got'.public = public /\ got'.manifest = manifest /\ got'.snap = 1
                      /\ got'.packs = packs /\ got'.caches = caches /\ got'.inv = inv
    BY <1>1, <1>3
  <2>3. UNCHANGED Suite!disk /\ aedits' = aedits /\ proto' \in 1..2 /\ shard' \in DOMAIN Shards
    BY <1>1, <1>2, GotMeans
  <2>4. apc' \in {"cache", "pair"} /\ (apc' = "pair" => proto' = 2)
    BY <1>1, <1>2
  <2> QED BY <2>1, <2>2, <2>3, <2>4, StageFrame
<1>5. issues \subseteq issues'
  BY <1>1
<1>6. issues' = {} => Suite!ResultOK(Suite!P) /\ Suite!ReceiptOK(Suite!P)
  BY <1>1 DEF Suite!If, Suite!Failed
<1>7. Suite!ShardsAreReplayed'
  <2>1. ASSUME NEW n \in 1..2, NEW k \in DOMAIN Shards, Suite!HasShard(n, k)' PROVE Suite!HasShard(n, k)
    BY <1>1, <1>2, <2>1 DEF Suite!HasShard, Suite!Passed
  <2> QED BY <1>1, <1>5, <2>1, ReplayedStay
<1>8. Suite!StagesHold'
  <2> SUFFICES ASSUME issues' = {}, NEW n \in 1..2
               PROVE  /\ Suite!HasCache(n)' => got'.manifest.full[Suite!Order[n]].snap = got'.snap
                      /\ Suite!Passed(n)' => Suite!ResultOK(Suite!Order[n])' /\ Suite!ReceiptOK(Suite!Order[n])'
    BY <1>1 DEF Suite!StagesHold
  <2>1. issues = {}
    BY <1>5
  <2>2. Suite!HasCache(n)' => Suite!HasCache(n)
    BY <1>1, <1>2 DEF Suite!Passed, Suite!HasCache
  <2>3. Suite!Passed(n)' => Suite!Passed(n) \/ n = proto
    BY <1>1, <1>2 DEF Suite!Passed
  <2>4. /\ Suite!HasCache(n) => got.manifest.full[Suite!Order[n]].snap = got.snap
        /\ Suite!Passed(n) => Suite!ResultOK(Suite!Order[n]) /\ Suite!ReceiptOK(Suite!Order[n])
    BY <2>1 DEF Suite!IInv, Suite!StagesHold
  <2>5. /\ Suite!ResultOK(Suite!Order[n])' <=> Suite!ResultOK(Suite!Order[n])
        /\ Suite!ReceiptOK(Suite!Order[n])' <=> Suite!ReceiptOK(Suite!Order[n])
    BY <1>1 DEF Suite!ResultOK, Suite!ReceiptOK, Suite!Raws
  <2> QED BY <1>1, <1>6, <2>2, <2>3, <2>4, <2>5 DEF Suite!P
<1> QED BY <1>4, <1>7, <1>8 DEF Suite!IInv

\* The two protocols have the same documents, one seal and no refusal.
LEMMA CheckPairIInv == ASSUME Suite!IInv, Suite!CheckPair PROVE Suite!IInv'
<1> DEFINE seal == Suite!PairSeal([p \in Suite!Protocols |-> got.public[p].receipt])
           whole == Suite!Products = Suite!Protocols
           mixed == got.caches["semantic"] # got.caches["adversarial"]
           broken == whole /\ got.manifest.seal # seal
           refused == whole /\ \E p \in Suite!Protocols, s \in Suite!ShardSet : ~Suite!Aggregate(Suite!Raws(p))[s]
<1>1. /\ apc = "pair" /\ UNCHANGED <<proto, shard, got>> /\ UNCHANGED Suite!disk /\ aedits' = aedits
      /\ issues' = issues \cup (Suite!If(mixed, <<"suite", "surface">>) \cup Suite!If(broken, <<"suite", "seal">>)
                                  \cup Suite!If(refused, <<"suite", "verdict">>))
      /\ apc' = (IF whole THEN "material" ELSE "done")
  BY DEF Suite!CheckPair, Suite!Go, Suite!Note
<1>2. proto = 2
  BY <1>1 DEF Suite!IInv, Suite!Typed
<1>3. aedits = 0 => /\ issues' = {} /\ got.public = public /\ got.manifest = manifest /\ got.snap = 1
                    /\ got.packs = packs /\ got.caches = caches /\ got.inv = inv
  <2> SUFFICES ASSUME aedits = 0
               PROVE  /\ issues' = {} /\ got.public = public /\ got.manifest = manifest /\ got.snap = 1
                      /\ got.packs = packs /\ got.caches = caches /\ got.inv = inv
    OBVIOUS
  <2>1. /\ issues = {} /\ got.public = public /\ got.manifest = manifest /\ got.snap = 1
        /\ got.packs = packs /\ got.caches = caches /\ got.inv = inv
    BY Untouched
  <2>2. PICK raw, streams, receipts : LeftFrom(raw, streams, receipts)
    BY Untouched
  <2>3. /\ raw \in Suite!Streams /\ raw.ok /\ streams = [s \in Suite!ShardSet |-> raw]
        /\ receipts = [p \in Suite!Protocols |-> Suite!Receipt(p, 1, 1, 1, streams)]
        /\ manifest.seal = Suite!PairSeal(receipts)
        /\ \A p \in Suite!Protocols :
             caches[p] = 1 /\ Suite!Raws(p) = streams /\ public[p].receipt = receipts[p]
    BY <2>2 DEF LeftFrom, MadeOf
  <2>4. [p \in Suite!Protocols |-> got.public[p].receipt] = receipts
    BY <2>1, <2>3
  <2>5. \A s \in Suite!ShardSet : Suite!Aggregate(streams)[s]
    BY <2>3 DEF Suite!Aggregate
  <2>6. ~mixed
    BY <2>1, <2>3, SuiteOrder
  <2>7. ~broken
    BY <2>1, <2>3, <2>4
  <2>8. ~refused
    BY <2>3, <2>5
  <2>9. ~mixed /\ ~broken /\ ~refused
    BY <2>6, <2>7, <2>8
  <2> HIDE DEF mixed, broken, refused
  <2> QED BY <1>1, <2>1, <2>9 DEF Suite!If
<1> HIDE DEF mixed, broken, refused
<1>4. issues \subseteq issues' /\ \A p \in Suite!Protocols : Suite!Failed(p)' <=> Suite!Failed(p)
  <2>1. \A p \in Suite!Protocols : \A s : <<p, s>> \in issues' <=> <<p, s>> \in issues
    BY <1>1, SuiteOrder DEF Suite!If
  <2> QED BY <1>1, <2>1 DEF Suite!Failed
<1>5. whole => \A p \in Suite!Protocols : ~Suite!Failed(p)
  BY DEF Suite!Products
<1>6. Suite!TypeOK' /\ Suite!Typed' /\ Suite!UntouchedIsHonest'
  <2> HIDE DEF whole
  <2> QED BY <1>1, <1>2, <1>3, <1>4, <1>5, GotMeans, StageFrame
<1>7. Suite!ShardsAreReplayed'
  <2>1. \A n \in 1..2, k \in DOMAIN Shards : Suite!HasShard(n, k)
    BY <1>1 DEF Suite!HasShard, Suite!Passed
  <2> QED BY <1>1, <1>4, <2>1, ReplayedStay
<1>8. Suite!StagesHold'
  <2> SUFFICES ASSUME issues' = {}
               PROVE  /\ \A n \in 1..2 :
                           /\ Suite!HasCache(n)' => got'.manifest.full[Suite!Order[n]].snap = got'.snap
                           /\ Suite!Passed(n)' =>
                                Suite!ResultOK(Suite!Order[n])' /\ Suite!ReceiptOK(Suite!Order[n])'
                      /\ got'.caches["semantic"] = got'.caches["adversarial"]
                      /\ got'.manifest.seal = Suite!PairSeal([p \in Suite!Protocols |-> got'.public[p].receipt])
                      /\ \A p \in Suite!Protocols, s \in Suite!ShardSet : got'.inv[p][s].raw.ok
                      /\ apc' # "done"
    BY DEF Suite!StagesHold
  <2>1. issues = {} /\ whole
    BY <1>4 DEF Suite!Products, Suite!Failed
  <2>2. ~mixed /\ ~broken /\ ~refused
    BY <1>1 DEF Suite!If
  <2>3. \A n \in 1..2 : /\ got.manifest.full[Suite!Order[n]].snap = got.snap
                        /\ Suite!ResultOK(Suite!Order[n]) /\ Suite!ReceiptOK(Suite!Order[n])
    BY <1>1, <2>1 DEF Suite!IInv, Suite!StagesHold, Suite!HasCache, Suite!Passed
  <2>4. \A n \in 1..2 : Suite!ResultOK(Suite!Order[n])' /\ Suite!ReceiptOK(Suite!Order[n])'
    BY <1>1, <2>3 DEF Suite!ResultOK, Suite!ReceiptOK, Suite!Raws
  <2>5. \A p \in Suite!Protocols, s \in Suite!ShardSet : got.inv[p][s].raw.ok
    BY <2>1, <2>2 DEF refused, Suite!Aggregate, Suite!Raws
  <2> QED BY <1>1, <2>1, <2>2, <2>3, <2>4, <2>5 DEF mixed, broken
<1> QED BY <1>6, <1>7, <1>8 DEF Suite!IInv

\* The material is built again from the checkout of the moment.
LEMMA RebuildIInv == ASSUME Suite!IInv, Suite!Rebuild PROVE Suite!IInv'
<1>1. /\ apc = "material" /\ apc' = "gate" /\ UNCHANGED <<proto, shard, got>> /\ UNCHANGED Suite!disk
      /\ aedits' = aedits /\ issues' = issues \cup Suite!If(tree # got.snap, <<"suite", "current">>)
  BY DEF Suite!Rebuild, Suite!Go, Suite!Note
<1>2. proto = 2 /\ \A p \in Suite!Protocols : ~Suite!Failed(p)
  BY <1>1 DEF Suite!IInv, Suite!Typed, Suite!TypeOK
<1>3. aedits = 0 => /\ issues' = {} /\ got.public = public /\ got.manifest = manifest /\ got.snap = 1
                    /\ got.packs = packs /\ got.caches = caches /\ got.inv = inv
  BY <1>1, Untouched DEF Suite!If
<1>4. issues \subseteq issues' /\ \A p \in Suite!Protocols : ~Suite!Failed(p)'
  <2>1. \A p \in Suite!Protocols : \A s : <<p, s>> \in issues' <=> <<p, s>> \in issues
    BY <1>1, SuiteOrder DEF Suite!If
  <2> QED BY <1>1, <1>2, <2>1 DEF Suite!Failed
<1>5. Suite!TypeOK' /\ Suite!Typed' /\ Suite!UntouchedIsHonest'
  BY <1>1, <1>2, <1>3, <1>4, GotMeans, StageFrame
<1>6. Suite!ShardsAreReplayed'
  <2>1. \A n \in 1..2, k \in DOMAIN Shards : Suite!HasShard(n, k)
    BY <1>1 DEF Suite!HasShard, Suite!Passed
  <2> QED BY <1>1, <1>4, <2>1, ReplayedStay
<1>7. Suite!StagesHold'
  <2>1. \A n \in 1..2 : Suite!HasCache(n) /\ Suite!Passed(n)
    BY <1>1 DEF Suite!HasCache, Suite!Passed
  <2> QED BY <1>1, <1>4, <2>1 DEF Suite!IInv, Suite!StagesHold, Suite!ResultOK, Suite!ReceiptOK, Suite!Raws
<1> QED BY <1>5, <1>6, <1>7 DEF Suite!IInv

\* The packs that were read attest what was built.
LEMMA GateIInv == ASSUME Suite!IInv, Suite!Gate PROVE Suite!IInv'
<1> DEFINE seal == Suite!PairSeal([p \in Suite!Protocols |-> got.public[p].receipt])
           unattested == issues = {} /\ ~Suite!Attested(got.packs, Suite!Material(got.snap, seal))
<1>1. /\ apc = "gate" /\ apc' = "done" /\ UNCHANGED <<proto, shard, got>> /\ UNCHANGED Suite!disk
      /\ aedits' = aedits /\ issues' = issues \cup Suite!If(unattested, <<"suite", "packs">>)
  BY DEF Suite!Gate, Suite!Go, Suite!Note
<1>2. aedits = 0 => /\ issues' = {} /\ got.public = public /\ got.manifest = manifest /\ got.snap = 1
                    /\ got.packs = packs /\ got.caches = caches /\ got.inv = inv
  <2> SUFFICES ASSUME aedits = 0
               PROVE  /\ issues' = {} /\ got.public = public /\ got.manifest = manifest /\ got.snap = 1
                      /\ got.packs = packs /\ got.caches = caches /\ got.inv = inv
    OBVIOUS
  <2>1. /\ issues = {} /\ got.public = public /\ got.manifest = manifest /\ got.snap = 1
        /\ got.packs = packs /\ got.caches = caches /\ got.inv = inv
    BY Untouched
  <2>2. PICK raw, streams, receipts : LeftFrom(raw, streams, receipts)
    BY Untouched
  <2>3. /\ raw \in Suite!Streams /\ receipts = [p \in Suite!Protocols |-> Suite!Receipt(p, 1, 1, 1, streams)]
        /\ packs = Suite!Material(1, Suite!PairSeal(receipts))
        /\ \A p \in Suite!Protocols : public[p].receipt = receipts[p]
    BY <2>2 DEF LeftFrom, MadeOf
  <2>4. [p \in Suite!Protocols |-> got.public[p].receipt] = receipts
    BY <2>1, <2>3
  <2>5. ~unattested
    BY <2>1, <2>3, <2>4 DEF Suite!Attested
  <2> HIDE DEF unattested
  <2> QED BY <1>1, <2>1, <2>5 DEF Suite!If
<1>3. issues \subseteq issues' /\ (issues' = {} => issues = {} /\ ~unattested)
  BY <1>1 DEF Suite!If
<1>4. Suite!TypeOK' /\ Suite!Typed' /\ Suite!UntouchedIsHonest'
  <2> HIDE DEF unattested
  <2> QED BY <1>1, <1>2, GotMeans, StageFrame
<1>5. Suite!ShardsAreReplayed'
  <2>1. \A n \in 1..2, k \in DOMAIN Shards : Suite!HasShard(n, k)
    BY <1>1 DEF Suite!HasShard, Suite!Passed
  <2> QED BY <1>1, <1>3, <2>1, ReplayedStay
<1>6. Suite!StagesHold'
  <2> SUFFICES ASSUME issues' = {} PROVE Suite!StagesHold'
    BY DEF Suite!StagesHold
  <2>1. \A n \in 1..2 : Suite!HasCache(n) /\ Suite!Passed(n)
    BY <1>1 DEF Suite!HasCache, Suite!Passed
  <2>2. /\ \A n \in 1..2 : /\ got.manifest.full[Suite!Order[n]].snap = got.snap
                           /\ Suite!ResultOK(Suite!Order[n]) /\ Suite!ReceiptOK(Suite!Order[n])
        /\ got.caches["semantic"] = got.caches["adversarial"] /\ got.manifest.seal = seal
        /\ \A p \in Suite!Protocols, s \in Suite!ShardSet : got.inv[p][s].raw.ok
    BY <1>1, <1>3, <2>1 DEF Suite!IInv, Suite!StagesHold
  <2>3. Suite!Attested(got.packs, Suite!Material(got.snap, got.manifest.seal))
    BY <1>3, <2>2
  <2>4. \A n \in 1..2 : Suite!ResultOK(Suite!Order[n])' /\ Suite!ReceiptOK(Suite!Order[n])'
    BY <1>1, <2>2 DEF Suite!ResultOK, Suite!ReceiptOK, Suite!Raws
  <2> QED BY <1>1, <2>2, <2>3, <2>4 DEF Suite!StagesHold
<1> QED BY <1>4, <1>5, <1>6 DEF Suite!IInv

\* Every step of the audit and of those who replace files keeps the invariant.
LEMMA SuiteStep == Suite!IInv /\ [Suite!Next]_(Suite!vars) => Suite!IInv'
<1> SUFFICES ASSUME Suite!IInv, [Suite!Next]_(Suite!vars) PROVE Suite!IInv'
  OBVIOUS
<1>1. CASE UNCHANGED Suite!vars
  <2>1. UNCHANGED <<tree, packs, public, caches, inv, manifest, apc, proto, shard, got, issues, aedits>>
    BY <1>1 DEF Suite!vars, Suite!disk
  <2>2. Suite!TypeOK' /\ Suite!Typed' /\ Suite!UntouchedIsHonest'
    BY <2>1 DEF Suite!IInv, Suite!TypeOK, Suite!Failed, Suite!Typed, Suite!UntouchedIsHonest
  <2>3. Suite!ShardsAreReplayed' /\ Suite!StagesHold'
    BY <2>1 DEF Suite!IInv, Suite!ShardsAreReplayed, Suite!HasShard, Suite!Passed, Suite!StagesHold,
                Suite!HasCache, Suite!ResultOK, Suite!ReceiptOK, Suite!Raws
  <2> QED BY <2>2, <2>3 DEF Suite!IInv
<1>2. CASE Suite!Audit
  BY <1>2, ReadPublicIInv, LoadManifestIInv, FreezeIInv, FullCacheIInv, ReplayShardIInv, CheckReceiptIInv,
     CheckPairIInv, RebuildIInv, GateIInv DEF Suite!Audit
<1> QED BY <1>1, <1>2, ReplacementsIInv DEF Suite!Next

\* It holds in every reachable state, for any sequence of shards and any replacements.
THEOREM SuiteInvariant == Suite!Spec => []Suite!IInv
  BY SuiteInit, SuiteStep, PTL DEF Suite!Spec

\* The invariant holds all that an audit without an issue promises.
LEMMA SuiteIsReplayed ==
    ASSUME Suite!IInv
    PROVE  /\ Suite!TypeOK /\ Suite!ApprovedIsReplayed /\ Suite!OneSuite /\ Suite!PacksAreOfTheReviewed
           /\ Suite!EveryFailureIsReported /\ Suite!HonestIsApproved
<1>1. ASSUME NEW p \in Suite!Protocols, NEW s \in Suite!ShardSet,
             \A n \in 1..2, k \in DOMAIN Shards : Suite!HasShard(n, k)
      PROVE  \/ <<p, s>> \in issues
             \/ Suite!Replays(got.inv[p][s], got.manifest.rows[p][s], got.snap, got.caches[p],
                              got.manifest.runtime)
  <2>1. PICK n \in 1..2, k \in DOMAIN Shards : p = Suite!Order[n] /\ s = Shards[k]
    BY SuiteOrder
  <2> QED BY <1>1, <2>1 DEF Suite!IInv, Suite!ShardsAreReplayed
<1>2. Suite!EveryFailureIsReported
  <2> SUFFICES ASSUME apc \in {"pair", "material", "gate"}, NEW p \in Suite!Protocols, NEW s \in Suite!ShardSet,
                      got.inv[p][s].sanitized # got.inv[p][s].raw \/ got.inv[p][s].raw.snap # got.snap
               PROVE  <<p, s>> \in issues
    BY DEF Suite!EveryFailureIsReported
  <2>1. \A n \in 1..2, k \in DOMAIN Shards : Suite!HasShard(n, k)
    BY DEF Suite!HasShard, Suite!Passed
  <2> QED BY <1>1, <2>1 DEF Suite!Replays, Suite!Sanitize
<1>3. Suite!HonestIsApproved
  BY DEF Suite!HonestIsApproved, Suite!IInv, Suite!UntouchedIsHonest
<1>4. ASSUME Suite!Approved
      PROVE  /\ \A p \in Suite!Protocols, s \in Suite!ShardSet :
                  /\ got.inv[p][s].raw.ok /\ got.inv[p][s].raw.whole
                  /\ got.public[p].result[s] = got.inv[p][s].raw.ok
                  /\ got.public[p].receipt.invocations[s].of = got.inv[p][s].raw
                  /\ got.inv[p][s].sanitized = got.inv[p][s].raw
                  /\ got.inv[p][s].raw.snap = got.snap
                  /\ got.inv[p][s].raw.docs = got.caches["semantic"]
                  /\ got.inv[p][s].process.runtime = got.manifest.runtime
             /\ got.packs.seal = got.manifest.seal /\ got.packs.sources = got.snap
             /\ got.manifest.full["semantic"].snap = got.snap
  <2>1. apc = "done" /\ issues = {} /\ \A n \in 1..2 : Suite!Passed(n) /\ Suite!HasCache(n)
    BY <1>4 DEF Suite!Approved, Suite!Passed, Suite!HasCache
  <2>2. \A n \in 1..2, k \in DOMAIN Shards : Suite!HasShard(n, k)
    BY <2>1 DEF Suite!HasShard
  <2>3. /\ \A n \in 1..2 : /\ got.manifest.full[Suite!Order[n]].snap = got.snap
                           /\ Suite!ResultOK(Suite!Order[n]) /\ Suite!ReceiptOK(Suite!Order[n])
        /\ got.caches["semantic"] = got.caches["adversarial"]
        /\ \A p \in Suite!Protocols, s \in Suite!ShardSet : got.inv[p][s].raw.ok
        /\ Suite!Attested(got.packs, Suite!Material(got.snap, got.manifest.seal))
    BY <2>1 DEF Suite!IInv, Suite!StagesHold
  <2>4. got.packs.seal = got.manifest.seal /\ got.packs.sources = got.snap
    BY <2>3 DEF Suite!Attested, Suite!Material
  <2>5. got.manifest.full["semantic"].snap = got.snap
    BY <2>3, SuiteOrder
  <2>6. ASSUME NEW p \in Suite!Protocols, NEW s \in Suite!ShardSet
        PROVE  /\ got.inv[p][s].raw.whole
               /\ got.public[p].result[s] = got.inv[p][s].raw.ok
               /\ got.public[p].receipt.invocations[s].of = got.inv[p][s].raw
               /\ got.inv[p][s].sanitized = got.inv[p][s].raw
               /\ got.inv[p][s].raw.snap = got.snap
               /\ got.inv[p][s].raw.docs = got.caches["semantic"]
               /\ got.inv[p][s].process.runtime = got.manifest.runtime
    <3>1. Suite!Replays(got.inv[p][s], got.manifest.rows[p][s], got.snap, got.caches[p], got.manifest.runtime)
      BY <1>1, <2>1, <2>2
    <3>2. Suite!ResultOK(p) /\ Suite!ReceiptOK(p) /\ got.caches[p] = got.caches["semantic"]
      BY <2>3, SuiteOrder
    <3>3. /\ got.inv[p][s].raw.whole /\ got.inv[p][s].sanitized = got.inv[p][s].raw
          /\ got.inv[p][s].raw.snap = got.snap /\ got.inv[p][s].raw.docs = got.caches["semantic"]
          /\ got.inv[p][s].process.runtime = got.manifest.runtime
      BY <3>1, <3>2 DEF Suite!Replays, Suite!Sanitize, Suite!Process
    <3>4. got.public[p].result[s] = got.inv[p][s].raw.ok
      BY <3>2 DEF Suite!ResultOK, Suite!Aggregate, Suite!Raws
    <3>5. got.public[p].receipt.invocations[s].of = got.inv[p][s].raw
      BY <3>2 DEF Suite!ReceiptOK, Suite!Receipt, Suite!Envelope, Suite!Raws
    <3> QED BY <3>3, <3>4, <3>5
  <2> QED BY <2>3, <2>4, <2>5, <2>6
<1> QED
  BY <1>2, <1>3, <1>4
  DEF Suite!IInv, Suite!ApprovedIsReplayed, Suite!OneSuite, Suite!PacksAreOfTheReviewed

\* An audit without an issue has replayed one whole suite: see AuditedIsReplayed.
THEOREM AuditedIsAlwaysReplayed == MCSpec => []AuditedIsReplayed
<1>1. MCInit => Suite!IInv
  BY SuiteInit DEF MCInit
<1>2. Suite!IInv /\ [MCNext]_<<part, gvars, rest>> => Suite!IInv'
  <2> SUFFICES ASSUME Suite!IInv, [MCNext]_<<part, gvars, rest>> PROVE [Suite!Next]_(Suite!vars)
    BY SuiteStep
  <2> QED BY DEF MCNext, rest, svars, Suite!vars, Suite!disk
<1>3. Suite!IInv => AuditedIsReplayed
  BY SuiteIsReplayed DEF AuditedIsReplayed
<1> QED BY <1>1, <1>2, <1>3, PTL DEF MCSpec

===============================================================================
