--------------------------- MODULE VerificationGates ---------------------------
(***************************************************************************)
(* CoreService.verification_gates (query.py) and the verdict Project.run    *)
(* draws from it (sdk.py): whether a design is verified.                    *)
(*                                                                          *)
(* The rows of a snapshot are append-only and committed in transactions.    *)
(* The reader takes one table after the other, each in a transaction of its *)
(* own, and asks for receipts and for the bytes of reports even later.  The *)
(* trust of a piece of evidence is recursive over verification, derivation, *)
(* observation, report and run.                                             *)
(*                                                                          *)
(* Item gives every row that may be committed; a plan says what is committed  *)
(* before the call and in which transactions others commit during it.        *)
(* Trust is "no", "static" (valid, but no tool stands behind it) or "tool". *)
(***************************************************************************)
EXTENDS Naturals, FiniteSets

CONSTANTS
    Item,        \* id -> row
    Plans,       \* what earlier commands have committed, and the transactions to come
    Fragile,     \* bound: the reports whose bytes may change
    Capacities   \* the resources whose capacity the target profile gives

Ids == DOMAIN Item
Tables == <<"obs", "der", "ver", "run", "art">>
Rows == [t \in {"obs", "der", "ver", "run", "art"} |-> {i \in Ids : Item[i].t = t}]
Runs == Rows["run"]

\* What a row cites, which is there when it is committed.
Cites(i) ==
    IF Item[i].t = "obs" THEN {Item[i].run, Item[i].art} \ {"none"}
    ELSE IF Item[i].t = "der" THEN Item[i].inputs
    ELSE IF Item[i].t = "ver" THEN ({Item[i].run} \ {"none"}) \cup Item[i].evidence
    ELSE IF Item[i].t = "run" THEN Item[i].outputs \cup UNION {x.evidence : x \in Item[i].gates}
    ELSE {Item[i].run} \ {"none"}
Closed(l) == \A i \in l : Cites(i) \subseteq l

\* What the constants are: rows cite rows of the right table, a derivation is about a
\* physical gate, if about any, and no verification cites another (with which it could
\* not pass).
ItemsOK ==
    /\ \A i \in Ids : Item[i].t \in DOMAIN Rows
    /\ \A v \in Rows["ver"] : Item[v].evidence \cap Rows["ver"] = {}
    /\ \A i \in Rows["obs"] \cup Rows["ver"] \cup Rows["art"] : Item[i].run \in Runs \cup {"none"}
    /\ \A o \in Rows["obs"] : Item[o].art \in Rows["art"] \cup {"none"}
    /\ \A d \in Rows["der"] : Item[d].inputs \subseteq Rows["obs"] /\ Item[d].gate # "correctness"
    /\ \A r \in Runs : Item[r].outputs \subseteq Rows["art"]
    /\ Fragile \subseteq Rows["art"] /\ "none" \notin Ids
    /\ \A p \in Plans : /\ p.earlier \subseteq Ids /\ Closed(p.earlier)
                         /\ p.batches \subseteq SUBSET Ids

VARIABLES
    plan,
    ledger,     \* the committed rows
    intact,     \* the reports whose managed bytes still match
    pc,         \* 0 idle, 1..5 tables read, 6 judged
    view,       \* table -> rows as read
    held,       \* TRUE once the committed rows would have verified the design
    failed,     \* the failures committed before the call
    verdict

vars == <<plan, ledger, intact, pc, view, held, failed, verdict>>

TypeOK ==
    /\ plan \in Plans /\ ledger \subseteq Ids /\ intact \subseteq Rows["art"]
    /\ pc \in 0..6
    /\ view \in [DOMAIN Rows -> SUBSET ledger]
    /\ \A k \in 1..5 : view[Tables[k]] \subseteq Rows[Tables[k]]
    /\ held \in BOOLEAN /\ failed \subseteq ledger /\ verdict \in BOOLEAN
    /\ \A i \in view["obs"] : Item[i].run # "none" /\ pc >= 4 => Item[i].run \in view["run"]

-------------------------------------------------------------------------------
(* Trust.                                                                     *)

ToolAuthorities == {"tool_observation", "verification_evidence", "physical_measurement"}
Hypotheses == {"synthetic", "prediction_hypothesis", "knowledge_rule"}

Combine(S) == IF S = {} \/ "no" \in S THEN "no" ELSE IF "tool" \in S THEN "tool" ELSE "static"
CombineTool(S) == IF Combine(S) = "tool" THEN "tool" ELSE "no"

\* run_trust: the run ended cleanly, claims fresh tool truth with a valid
\* receipt, is no fake or replay, follows the snapshot's manifest, and lists
\* exactly what it produced.
RunTrust(w, r) ==
    IF /\ r \in w["run"]
       /\ Item[r].clean /\ Item[r].claims /\ Item[r].attested /\ ~Item[r].denied /\ Item[r].manifest
       /\ \A a \in Item[r].outputs : a \in w["art"] /\ Item[a].run = r
    THEN "tool" ELSE "no"

\* artifact_trust: a report counts as long as its managed bytes match.
ArtifactTrust(w, good, a) ==
    IF a \notin w["art"] THEN "no"
    ELSE IF Item[a].run = "none" THEN "static"
    ELSE IF a \in good /\ Item[a].run \in w["run"] /\ a \in Item[Item[a].run].outputs
    THEN RunTrust(w, Item[a].run) ELSE "no"

\* The reports that an observation cites, and who produced them.
Cited(o) == {Item[o].art} \ {"none"}
ProducedBy(w, o) == {Item[a].run : a \in Cited(o) \cap w["art"]} \ {"none"}

ObservationTrust(w, good, o) ==
    LET refs == {RunTrust(w, r) : r \in {Item[o].run} \ {"none"}} \cup {ArtifactTrust(w, good, a) : a \in Cited(o)}
        by == ProducedBy(w, o) IN
    IF o \notin w["obs"] \/ Item[o].auth \in Hypotheses \cup {"derived_fact"} \/ ~Item[o].complete THEN "no"
    ELSE IF Item[o].auth \in ToolAuthorities
    THEN IF Item[o].run # "none" /\ by = {Item[o].run} THEN CombineTool(refs) ELSE "no"
    ELSE IF by # {} /\ by # {Item[o].run} THEN "no"
    ELSE IF refs = {} THEN "static" ELSE Combine(refs)

DerivationTrust(w, good, d) ==
    IF d \in w["der"] /\ Item[d].complete /\ Item[d].auth \notin Hypotheses
    THEN CombineTool({ObservationTrust(w, good, o) : o \in Item[d].inputs}) ELSE "no"

EvidenceTrust(w, good, e) ==
    IF e \in w["obs"] THEN ObservationTrust(w, good, e)
    ELSE IF e \in w["der"] THEN DerivationTrust(w, good, e)
    ELSE IF e \in w["art"] THEN ArtifactTrust(w, good, e)
    ELSE IF e \in w["run"] THEN RunTrust(w, e)
    ELSE "no"

\* evidence_observation_leaves and evidence_run_ids.
Leaves(w, e) == IF e \in w["der"] THEN Item[e].inputs ELSE {e}
ObservationRuns(w, o) == IF o \in w["obs"] THEN ({Item[o].run} \ {"none"}) \cup ProducedBy(w, o) ELSE {}
Producers(w, e) ==
    IF e \in w["run"] THEN {e}
    ELSE IF e \in w["art"] THEN {Item[e].run} \ {"none"}
    ELSE UNION {ObservationRuns(w, o) : o \in Leaves(w, e)}

-------------------------------------------------------------------------------
(* Typed evidence: what the reports say.                                      *)

RunStage == [csim |-> "csim", rtl_cosim |-> "rtl_cosim"]
ReportStage == [csim |-> "csim", rtl_cosim |-> "cosim"]
Required == [csim |-> {"csim.exit_code", "csim.mismatches", "csim.assertions_failed"},
             rtl_cosim |-> {"cosim.status"}]

\* One observation of every predicate in P.
OneOfEach(P, O) == \A p \in P : Cardinality({o \in O : Item[o].pred = p}) = 1

\* A complete tool observation of this run, from reports of its own.
Typed(w, o, r, kinds) ==
    /\ o \in w["obs"] /\ Item[o].complete /\ Item[o].auth \in ToolAuthorities /\ Item[o].run = r
    /\ Cited(o) # {} /\ Cited(o) \subseteq w["art"]
    /\ \A a \in Cited(o) : Item[a].run = r /\ Item[a].kind \in kinds

Workload(w, v) == IF Item[v].work # "none" THEN Item[v].work
                  ELSE IF Item[v].run \in w["run"] THEN Item[Item[v].run].work ELSE "none"

TypedVerification(w, v) ==
    LET r == Item[v].run
        O == UNION {Leaves(w, e) : e \in Item[v].evidence} IN
    /\ Item[v].kind \in DOMAIN RunStage
    /\ r \in w["run"] /\ Item[r].stage = RunStage[Item[v].kind]
    /\ \A e \in Item[v].evidence : e \in w["obs"] \cup w["der"] /\ Leaves(w, e) # {}
    /\ O # {} /\ \A o \in O : Typed(w, o, r, {Item[v].kind}) /\ Item[o].stage = ReportStage[Item[v].kind]
    /\ Workload(w, v) # "none" => \A o \in O : Item[o].work = Workload(w, v)
    /\ OneOfEach(Required[Item[v].kind], O)
    /\ \A o \in O : Item[o].pred \in Required[Item[v].kind] => Item[o].good

\* typed_physical_gate_evidence: the value, "pass", "fail" or something that is neither,
\* is recomputed from its inputs.
PassIf(p) == IF p THEN "pass" ELSE "fail"

TypedPhysical(w, d, r) ==
    LET O == Item[d].inputs IN
    /\ O # {} /\ \A o \in O : Producers(w, o) = {r} /\ Typed(w, o, r, {Item[d].gate}) /\ Item[o].stage = "post_route"
    /\ Item[d].recomputable
    /\ IF Item[d].gate = "post_route_timing"
       THEN /\ OneOfEach({"timing.wns_ns"}, O) /\ \A o \in O : Item[o].pred \in {"timing.wns_ns", "timing.tns_ns"}
            /\ Item[d].value = PassIf(\A o \in O : Item[o].pred = "timing.wns_ns" => Item[o].good)
       ELSE /\ OneOfEach(Capacities, O) /\ {Item[o].pred : o \in O} = Capacities /\ Capacities # {}
            /\ Item[d].value = PassIf(\A o \in O : Item[o].good)

VerificationTrust(w, good, v) ==
    LET r == Item[v].run
        E == Item[v].evidence
        pass == Item[v].status = "pass"
        runWork == IF r \in w["run"] THEN Item[r].work ELSE "none"
        works == {Item[o].work : o \in w["obs"] \cap UNION {Leaves(w, e) : e \in E}} \ {"none"} IN
    IF \/ v \notin w["ver"] \/ Item[v].synthetic
       \/ pass /\ (r = "none" \/ E = {})
       \/ pass /\ \E e \in E : e \notin w["obs"] \cup w["der"] \cup w["art"]
       \/ r # "none" /\ UNION {Producers(w, e) : e \in E} # {r}
       \/ Workload(w, v) # "none" /\ ~(works \subseteq {Workload(w, v)})
       \/ Item[v].work # "none" /\ runWork # "none" /\ Item[v].work # runWork
       \/ pass /\ ~TypedVerification(w, v)
    THEN "no"
    ELSE CombineTool({RunTrust(w, x) : x \in {r} \ {"none"}} \cup {EvidenceTrust(w, good, e) : e \in E})

-------------------------------------------------------------------------------
(* The three gates.                                                           *)

Checks == {"csim", "rtl_cosim", "assertion", "formal", "mismatch", "deadlock"}
GateKinds == {"correctness", "resource_fits", "post_route_timing"}
Verifications(w) == {v \in w["ver"] : Item[v].kind \in Checks}
GateDerivations(w, g) == {d \in w["der"] : Item[d].gate = g}
RunGates(w, g) ==
    {p \in w["run"] \X UNION {Item[r].gates : r \in w["run"]} : p[2] \in Item[p[1]].gates /\ p[2].kind = g}

\* A derivation of a physical gate that one trusted post-route run stands behind.
PhysicalTrust(w, good, d) ==
    LET P == Producers(w, d) IN
    /\ DerivationTrust(w, good, d) = "tool"
    /\ Item[d].stage = "post_route" /\ Cardinality(P) = 1
    /\ \A r \in P : r \in w["run"] /\ Item[r].stage = "post_route" /\ TypedPhysical(w, d, r)

ValidStages == [correctness |-> {"csim", "rtl_cosim"}, resource_fits |-> {"post_route"},
                post_route_timing |-> {"post_route"}]

\* A gate that the runner itself reported with its run, on any evidence.
GateEvidenceTrust(w, good, e) ==
    IF e \in w["ver"] THEN VerificationTrust(w, good, e) ELSE EvidenceTrust(w, good, e)
GateProducers(w, e) ==
    IF e \in w["ver"] THEN ({Item[e].run} \ {"none"}) \cup UNION {Producers(w, x) : x \in Item[e].evidence}
    ELSE Producers(w, e)
RunGateTrust(w, good, r, x) ==
    /\ x.evidence # {} /\ Item[r].stage \in ValidStages[x.kind]
    /\ CombineTool({RunTrust(w, r)} \cup {GateEvidenceTrust(w, good, e) : e \in x.evidence}) = "tool"
    /\ x.evidence \cap w["run"] = {} /\ UNION {GateProducers(w, e) : e \in x.evidence} = {r}
    /\ x.kind # "correctness" =>
         \A e \in x.evidence : e \in w["der"] /\ Item[e].gate = x.kind /\ TypedPhysical(w, e, r)

\* What is offered to a gate: statuses, whether a trusted pass is among them.
Statuses(w, g) ==
    {x[2].status : x \in RunGates(w, g)}
        \cup IF g = "correctness" THEN {Item[v].status : v \in Verifications(w)}
             ELSE {Item[d].value : d \in GateDerivations(w, g)}

\* A failure dominates a pass.
Status(S) == IF "fail" \in S THEN "fail" ELSE IF "pass" \in S THEN "pass" ELSE "unknown"

GateStatus(w, g) == Status(Statuses(w, g))

TrustedPass(w, good, g) ==
    \/ \E x \in RunGates(w, g) : x[2].status = "pass" /\ RunGateTrust(w, good, x[1], x[2])
    \/ g = "correctness"
         /\ \E v \in Verifications(w) : Item[v].status = "pass" /\ VerificationTrust(w, good, v) = "tool"
    \/ \E d \in GateDerivations(w, g) : Item[d].value = "pass" /\ PhysicalTrust(w, good, d)

\* csim and cosim count together only in one explicit campaign and workload.
Cohort(w, v) ==
    <<IF Item[v].run \in w["run"] THEN Item[Item[v].run].campaign ELSE "none", Workload(w, v)>>

InCohort(w, c, kind) == {v \in Verifications(w) : Item[v].kind = kind /\ Cohort(w, v) = c}

\* correctness_campaign_runs.
EligibleRuns(w, good, c, kind) ==
    {Item[v].run : v \in {u \in InCohort(w, c, kind) : Item[u].status = "pass" /\ VerificationTrust(w, good, u) = "tool"}}

\* (mutant) The kinds of check may come from different campaigns.
EligibleCampaignsAny(w, good) ==
    IF \A kind \in DOMAIN RunStage : \E c \in {Cohort(w, v) : v \in Verifications(w)} : EligibleRuns(w, good, c, kind) # {}
    THEN {Cohort(w, v) : v \in Verifications(w)} ELSE {}

EligibleCampaigns(w, good) ==
    {c \in {Cohort(w, v) : v \in Verifications(w)} :
        /\ c # <<"none", "none">>
        /\ \A kind \in DOMAIN RunStage :
             /\ Status({Item[v].status : v \in InCohort(w, c, kind)}) = "pass"
             /\ EligibleRuns(w, good, c, kind) # {}}

PhysicalRuns(w, good, g) ==
    {x[1] : x \in {y \in RunGates(w, g) : y[2].status = "pass" /\ RunGateTrust(w, good, y[1], y[2])}}
        \cup UNION {Producers(w, d) : d \in {x \in GateDerivations(w, g) :
                                              Item[x].value = "pass" /\ PhysicalTrust(w, good, x)}}

EligiblePhysical(w, good) ==
    PhysicalRuns(w, good, "resource_fits") \cap PhysicalRuns(w, good, "post_route_timing")

Verified(w, good) ==
    /\ \A g \in GateKinds : GateStatus(w, g) = "pass"
    /\ \A g \in GateKinds : TrustedPass(w, good, g)
    /\ EligibleCampaigns(w, good) # {} /\ EligiblePhysical(w, good) # {}

\* StageResult.verified: the runs of the invocation are themselves eligible.
InvocationVerified(w, good, mine) ==
    /\ mine # {} /\ Verified(w, good)
    /\ \E c \in EligibleCampaigns(w, good) :
         \A kind \in DOMAIN RunStage : EligibleRuns(w, good, c, kind) \cap mine # {}
    /\ EligiblePhysical(w, good) \cap mine # {}
    /\ \A r \in mine : Item[r].clean /\ Item[r].claims

-------------------------------------------------------------------------------
(* The ledger and the reader.                                                 *)

Now(l) == [obs |-> l \cap Rows["obs"], der |-> l \cap Rows["der"], ver |-> l \cap Rows["ver"],
           run |-> l \cap Rows["run"], art |-> l \cap Rows["art"]]

\* What makes a gate fail.
Failures(l) ==
    {i \in l : \/ Item[i].t = "ver" /\ Item[i].kind \in Checks /\ Item[i].status = "fail"
               \/ Item[i].t = "der" /\ Item[i].gate \in GateKinds /\ Item[i].value = "fail"
               \/ Item[i].t = "run" /\ \E x \in Item[i].gates : x.kind \in GateKinds /\ x.status = "fail"}

Init ==
    /\ plan \in Plans /\ ledger = plan.earlier /\ intact = Rows["art"]
    /\ pc = 0 /\ view = Now({}) /\ held = Verified(Now(ledger), intact) /\ failed = {} /\ verdict = FALSE

\* commit_run_result, add_verifications or add_derivations: one transaction, and
\* what it cites is there.
Commit ==
    /\ pc < 6
    /\ \E b \in plan.batches : \E l \in {ledger \cup b} :
         /\ ~(b \subseteq ledger)
         /\ \A i \in b : Cites(i) \subseteq l
         /\ ledger' = l
         /\ \E w \in {Now(l)} : held' = (held \/ Verified(w, intact))
    /\ UNCHANGED <<plan, intact, pc, view, failed, verdict>>

\* The bytes of a managed report change or vanish.
Damage ==
    /\ pc < 6 /\ intact = Rows["art"]
    /\ \E a \in ledger \cap Fragile : intact' = intact \ {a}
    /\ UNCHANGED <<plan, ledger, pc, view, held, failed, verdict>>

\* (mutant) The observations are read last.
ReadTableObservationsLast(k) ==
    /\ pc = k - 1
    /\ LET t == IF k = 5 THEN "obs" ELSE Tables[k + 1] IN
       view' = [view EXCEPT ![t] = ledger \cap Rows[t]]
    /\ failed' = IF k = 1 THEN Failures(ledger) ELSE failed
    /\ pc' = k
    /\ UNCHANGED <<plan, ledger, intact, held, verdict>>

ReadTable(k) ==
    /\ pc = k - 1
    /\ view' = [view EXCEPT ![Tables[k]] = ledger \cap Rows[Tables[k]]]
    /\ failed' = IF k = 1 THEN Failures(ledger) ELSE failed
    /\ pc' = k
    /\ UNCHANGED <<plan, ledger, intact, held, verdict>>

Judge ==
    /\ pc = 5
    /\ verdict' = Verified(view, intact)
    /\ pc' = 6
    /\ UNCHANGED <<plan, ledger, intact, view, held, failed>>

Next == Commit \/ Damage \/ Judge \/ \E k \in 1..5 : ReadTable(k)

Spec == Init /\ [][Next]_vars

-------------------------------------------------------------------------------
\* Observations in the ledger that really support what run r is taken for, of one
\* workload if there is one.
Measured(r, preds, work) ==
    \A p \in preds : \E o \in ledger \cap Rows["obs"] :
        /\ Item[o].run = r /\ Item[o].pred = p /\ Item[o].good /\ Item[o].auth \in ToolAuthorities
        /\ work # "none" => Item[o].work = work

Really(r, stage) == r \in ledger /\ Item[r].attested /\ ~Item[r].denied /\ Item[r].stage = stage

\* csim and cosim of one campaign and workload, at least one of which is named, and
\* one post-route run for both the resources and the timing.
MeasuredBy(M) ==
    /\ \E c, s \in M : \E work \in {Item[c].work, Item[s].work} \cup {Item[v].work : v \in ledger \cap Rows["ver"]} :
         /\ Really(c, "csim") /\ Really(s, "rtl_cosim")
         /\ {Item[c].work, Item[s].work} \subseteq {work, "none"}
         /\ Item[c].campaign = Item[s].campaign /\ {Item[c].campaign, work} # {"none"}
         /\ Measured(c, Required["csim"], work) /\ Measured(s, Required["rtl_cosim"], work)
    /\ \E p \in M : Really(p, "post_route") /\ Measured(p, Capacities \cup {"timing.wns_ns"}, "none")

\* Evidence is closed: a design is reported verified only when real tool runs
\* measured it (verification_gates).
VerifiedIsMeasured == pc = 6 /\ verdict => MeasuredBy(Runs)

\* No failure that was recorded before the call is outvoted or overlooked.
NoFailureOverlooked == pc = 6 /\ verdict => failed = {}

\* A partial rerun inherits nothing: whatever runs an invocation made, the runs that
\* verify the design are among them (Project.run).
NothingIsInherited ==
    pc = 6 /\ verdict => \A mine \in SUBSET view["run"] :
        InvocationVerified(view, intact, mine) => MeasuredBy(mine)

\* Each transaction has what its rows cite, and no row is in two.
RowsComeWhole ==
    \A b \in plan.batches \cup {plan.earlier} :
        Closed(b) /\ \A c \in plan.batches \cup {plan.earlier} : b = c \/ b \cap c = {}

\* The tables are read one by one, yet the verdict is one that the ledger gave at
\* some moment of the call.
VerdictIsOfOneMoment == pc = 6 /\ verdict => held

(* The invariant behind these: rows are there with what they cite; no failure  *)
(* that was there at the first read is missing from the tables read since; the  *)
(* verdict is of what was read; and if rows come whole, some ledger was there  *)
(* whose observations are those that were read and whose other rows were read  *)
(* too, so that a verdict about what was read is one about it.                 *)
FailuresAreRead ==
    /\ failed \subseteq Failures(ledger)
    /\ \A k \in 1..5 : pc >= k => failed \cap Rows[Tables[k]] \subseteq view[Tables[k]]
Transactions ==
    RowsComeWhole => \A b \in plan.batches \cup {plan.earlier} : b \subseteq ledger \/ b \cap ledger = {}
ReadAt(l) ==
    /\ l \subseteq ledger /\ Closed(l) /\ view["obs"] = l \cap Rows["obs"]
    /\ \A k \in 2..5 : pc >= k => l \cap Rows[Tables[k]] \subseteq view[Tables[k]]
    /\ \A i \in ledger : Cites(i) \cap l # {} => i \in l
    /\ Verified(Now(l), intact) => held
IInv ==
    /\ TypeOK /\ ledger \subseteq Ids /\ Closed(ledger) /\ FailuresAreRead /\ Transactions
    /\ Verified(Now(ledger), intact) => held
    /\ pc = 6 => verdict = Verified(view, intact)
    /\ RowsComeWhole /\ pc # 0 => \E l \in SUBSET ledger : ReadAt(l)
===============================================================================
