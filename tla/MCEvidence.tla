------------------------------ MODULE MCEvidence ------------------------------
(***************************************************************************)
(* What evidence is worth to those who judge it: whether a design is verified   *)
(* (VerificationGates), which counts of a parsed design may be believed         *)
(* (IndexAuthorization), whether the private evidence of a knowledge review     *)
(* replays (SuiteReplayAudit) and whether a release may go out (ReleaseGate).   *)
(* A behaviour is one of the four, the others rest in an initial state.         *)
(*                                                                          *)
(* The rows of VerificationGates are four stage runs that pass, one of them     *)
(* for another workload, a second post-route run that misses its timing, a     *)
(* fake runner's claims, and rows that users add on their own.  The suite has   *)
(* two shards for each protocol.                                              *)
(***************************************************************************)
EXTENDS Sequences, TLC

VARIABLES
    part,       \* which of the four
    plan, rows, intact, pc, view, held, failed, verdict,
    ix, active, ledger, attached, edited,
    tree, packs, public, caches, inv, manifest, apc, proto, shard, got, issues, aedits,
    checkout, suite, wheel, sdist, eval, notes, rpc, mode, given, bad, seen, read, redits, during

CONSTANTS
    Item, Plans, Fragile, Capacities,
    MaxEdits,                \* of the suite's evidence, of a release
    PackageVersions, Batches, NumCells,
    Indexers, Parser, Forged, SnapshotInputs, StageOutputs, MaxTries,
    Shards

Run(stage, work, out) ==
    [t |-> "run", stage |-> stage, clean |-> TRUE, claims |-> TRUE, attested |-> TRUE, denied |-> FALSE,
     manifest |-> TRUE, campaign |-> "none", work |-> work, outputs |-> {out}, gates |-> {}]
Fake(stage, out) == [Run(stage, "w1", out) EXCEPT !.attested = FALSE, !.denied = TRUE]
Art(run, kind) == [t |-> "art", run |-> run, kind |-> kind]
Obs(run, art, stage, pred, work, good) ==
    [t |-> "obs", run |-> run, art |-> art, stage |-> stage, pred |-> pred, work |-> work, good |-> good,
     auth |-> "tool_observation", complete |-> TRUE]
Der(gate, value, inputs) ==
    [t |-> "der", gate |-> gate, stage |-> "post_route", value |-> value, inputs |-> inputs,
     auth |-> "derived_fact", complete |-> TRUE, recomputable |-> TRUE]
Ver(kind, status, run, ev, work) ==
    [t |-> "ver", kind |-> kind, status |-> status, run |-> run, evidence |-> ev, work |-> work, synthetic |-> FALSE]

MCFragile == {"ca", "pw"}
MCCapacities == {"resource.lut"}

CsimBatch ==
    "c" :> Run("csim", "w1", "ca") @@ "ca" :> Art("c", "csim")
    @@ "c1" :> Obs("c", "ca", "csim", "csim.exit_code", "w1", TRUE)
    @@ "c2" :> Obs("c", "ca", "csim", "csim.mismatches", "w1", TRUE)
    @@ "c3" :> Obs("c", "ca", "csim", "csim.assertions_failed", "w1", TRUE)
    @@ "cv" :> Ver("csim", "pass", "c", {"c1", "c2", "c3"}, "w1")

CosimBatch(r, work) ==
    LET n(x) == r \o x IN
    r :> [Run("rtl_cosim", work, n("a")) EXCEPT !.gates =
             {[kind |-> "correctness", status |-> "pass", evidence |-> {n("v")}]}]
    @@ n("a") :> Art(r, "rtl_cosim")
    @@ n("o") :> Obs(r, n("a"), "cosim", "cosim.status", work, TRUE)
    @@ n("v") :> Ver("rtl_cosim", "pass", r, {n("o")}, work)

PhysicalBatch(r, run, wns, claimed) ==
    LET n(x) == r \o x IN
    r :> [run EXCEPT !.outputs = {n("u"), n("w")},
                     !.gates = {[kind |-> "post_route_timing", status |-> x, evidence |-> {n("dt")}] :
                                  x \in {claimed} \cap {"pass"}}]
    @@ n("u") :> Art(r, "resource_fits") @@ n("w") :> Art(r, "post_route_timing")
    @@ n("l") :> Obs(r, n("u"), "post_route", "resource.lut", "none", TRUE)
    @@ n("t") :> Obs(r, n("w"), "post_route", "timing.wns_ns", "none", wns)
    @@ n("dl") :> Der("resource_fits", "pass", {n("l")})
    @@ n("dt") :> Der("post_route_timing", claimed, {n("t")})

Post(out) == [Run("post_route", "none", out) EXCEPT !.work = "none"]

\* "p" passes; "q" misses its timing and says so; "x" misses it and says it passes; "f" is
\* a fake runner's.  Runs of cosim, and those said to meet their timing, report gates.
MCItem ==
    CsimBatch @@ CosimBatch("s", "w1") @@ CosimBatch("z", "w2")
    @@ PhysicalBatch("p", Post("u"), TRUE, "pass")
    @@ PhysicalBatch("q", Post("u"), FALSE, "fail")
    @@ PhysicalBatch("x", Post("u"), FALSE, "pass")
    @@ PhysicalBatch("f", Fake("post_route", "u"), TRUE, "pass")
    @@ "late" :> Ver("csim", "pass", "c", {"c1", "c2", "c3"}, "w1")
    @@ "formal" :> Ver("formal", "fail", "none", {}, "none")

Whole(r) ==
    {i \in DOMAIN MCItem :
        \/ i = r
        \/ MCItem[i].t \in {"obs", "art", "ver"} /\ MCItem[i].run = r /\ i # "late"
        \/ MCItem[i].t = "der" /\ \A o \in MCItem[i].inputs : MCItem[o].run = r}

\* After a passing post-route run: csim, cosim for two workloads and a second
\* post-route run that fails are committed while another command judges.
StagePlan == [earlier |-> Whole("p"), batches |-> {Whole(r) : r \in {"c", "s", "z", "q"}}]
\* After csim and cosim: a fake runner, a derivation that misstates its
\* observation and a failed proof beside the passing post-route run.
ForgedPlan == [earlier |-> Whole("c") \cup Whole("s"),
               batches |-> {Whole("p"), Whole("x"), Whole("f"), {"formal"}}]
\* The verification of a csim run comes on its own, through add_verifications.
SplitPlan == [earlier |-> (Whole("c") \ {"cv"}) \cup Whole("s") \cup Whole("p"),
              batches |-> {{"late"}, {"formal"}, Whole("q")}]
MCPlans == {StagePlan, ForgedPlan, SplitPlan}

\* Two entities of two parsers.
MCParser == "m" :> "mlir" @@ "l" :> "llvm"
\* Two shards in every protocol.
TwoShards == <<"a", "b">>

-------------------------------------------------------------------------------
\* What the cfg gives, evaluated once.
Row == Item
AllPlans == Plans
Gates == INSTANCE VerificationGates WITH
    ledger <- rows, Item <- Row, Plans <- AllPlans
Index == INSTANCE IndexAuthorization WITH
    Inputs <- SnapshotInputs, Outputs <- StageOutputs
Suite == INSTANCE SuiteReplayAudit WITH pc <- apc, edits <- aedits
Release == INSTANCE ReleaseGate WITH
    tree <- checkout, pc <- rpc, edits <- redits, Versions <- PackageVersions

ASSUME EvidenceAssumption ==
    /\ Gates!ItemsOK
    /\ Index!ConstantsOK /\ Suite!ShardsOK /\ Release!EditsOK

gvars == <<plan, rows, intact, pc, view, held, failed, verdict>>
ivars == <<ix, active, ledger, attached, edited>>
svars == <<tree, packs, public, caches, inv, manifest, apc, proto, shard, got, issues, aedits>>
rvars == <<checkout, suite, wheel, sdist, eval, notes, rpc, mode, given, bad, seen, read, redits, during>>
rest == <<ivars, svars, rvars>>

\* One of the initial states of a release.
FirstEvaluation ==
    Release!Evaluation(wheel, checkout, CHOOSE b \in Batches : TRUE, [c \in Release!Cells |-> TRUE])

MCInit ==
    /\ part \in {"gates", "index", "suite", "release"}
    /\ Gates!Init /\ Index!Init /\ Suite!Init /\ Release!Init
    /\ wheel.pkg = 1 /\ eval.runset.batch = FirstEvaluation.runset.batch    \* versions, batches are interchangeable
    /\ part = "gates" \/ plan = CHOOSE p \in AllPlans : TRUE
    /\ part = "release" \/ eval = FirstEvaluation

\* An issue is never taken back: an audit that has found one is followed to its verdict
\* only when nobody works beside it, where it might be an issue of a release in order.
\* The inputs are those of a mode, with one too few or too many.
InputsTried == {{}, {"suite", "notes"}, {"suite", "evidence", "notes"}, {"evidence", "notes"}, {"suite", "evidence"},
                Release!Inputs}
ReleaseNext ==
    /\ (~bad /\ Release!Next) \/ (bad /\ ~during /\ Release!Audit)
    /\ given' \in InputsTried

MCNext ==
    /\ \/ part = "gates" /\ Gates!Next /\ UNCHANGED rest
       \/ part = "index" /\ Index!Next /\ UNCHANGED <<gvars, svars, rvars>>
       \/ part = "suite" /\ Suite!Next /\ UNCHANGED <<gvars, ivars, rvars>>
       \/ part = "release" /\ ReleaseNext /\ UNCHANGED <<gvars, ivars, svars>>
    /\ UNCHANGED part

MCSpec == MCInit /\ [][MCNext]_<<part, gvars, rest>>

\* The same verdict while rows are added without the run that they are about.
SplitInit ==
    /\ part = "gates" /\ Gates!Init /\ Index!Init /\ Suite!Init /\ Release!Init
    /\ wheel.pkg = 1 /\ eval = FirstEvaluation
SplitNext == Gates!Next /\ UNCHANGED <<part, rest>>
SplitSpec == SplitInit /\ [][SplitNext]_<<part, gvars, rest>>

-------------------------------------------------------------------------------
\* verification_gates: a design is reported verified only when real tool runs
\* measured it and no recorded failure is overlooked, and a rerun of one stage
\* inherits nothing, whatever is committed, forged or damaged meanwhile.
VerdictIsHonest ==
    part = "gates" =>
    /\ Gates!TypeOK /\ Gates!VerifiedIsMeasured /\ Gates!NoFailureOverlooked /\ Gates!NothingIsInherited

\* The tables are read one by one, yet the verdict is one that the ledger gave at
\* some moment of the call, as long as rows come with their runs.
VerdictIsOfOneMoment == part = "gates" => Gates!VerdictIsOfOneMoment \/ ~Gates!RowsComeWhole

\* "A design is reported as verified only when all three gates pass": the same when
\* a verification is added on its own, without the run it is about.
SplitVerdictIsOfOneMoment == Gates!VerdictIsOfOneMoment

\* What the ledger lets readers believe of a design is what the built-in parsers
\* said of it, every complete aggregate is one that the receipt commits to, an
\* authorization reaches one commit, the first receipt of a snapshot stands, and
\* what may be believed stays so, whatever plugins, other indexers and editors do.
BelievedIsParsed ==
    /\ [](part = "index" => Index!TypeOK /\ Index!BelievedIsParsed /\ Index!NothingUnreceipted)
    /\ Index!SpentOnce /\ Index!FirstReceiptStands /\ Index!BelievedStays

\* audit_sharded_review: an audit without an issue has replayed every invocation of
\* one suite, whose documents, receipts and packs are those of the review; it lists
\* every failure, and approves evidence that nobody has touched.
AuditedIsReplayed ==
    part = "suite" =>
    /\ Suite!TypeOK /\ Suite!ApprovedIsReplayed /\ Suite!OneSuite /\ Suite!PacksAreOfTheReviewed
    /\ Suite!EveryFailureIsReported /\ Suite!HonestIsApproved

\* audit_release: the notes of an approved release claim what was measured, the
\* wheel that was evaluated is the one released, and package, sources and reviews
\* are of one tree, whatever maintainers rebuild, replace or edit around the audit.
ApprovedIsEarned ==
    part = "release" =>
    /\ Release!TypeOK /\ Release!ClaimsAreEarned /\ Release!EvaluatedWheelIsReleased
    /\ Release!ApprovedIsOnePackage /\ Release!ReadyIsApproved
===============================================================================
