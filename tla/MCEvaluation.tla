----------------------------- MODULE MCEvaluation -----------------------------
(***************************************************************************)
(* The evaluation, in its three stages: the environment is prepared            *)
(* (EvaluationPrepare), a batch of model processes runs in it and is scored     *)
(* (EvaluationBatch), and the scores are analyzed (EvaluationGates).  A         *)
(* behaviour is one of the three, the others rest in an initial state.          *)
(*                                                                          *)
(* The preparation has the baseline with an index and the candidate, on two     *)
(* corpora.  The batch asks one question in the baseline arm and in the arm     *)
(* with an audited server.  The analysis has two repetitions: every baseline    *)
(* plain, strong, uneven or cheap; the candidate better, uneven, slow on one    *)
(* metric, failing once or fabricating once.                                  *)
(***************************************************************************)
EXTENDS EvaluationPrepare, TLC

CONSTANTS
    CellOrder, ArmOf,                              \* the cells of a batch, and their arms
    Baselines, Reps, Costs, Margin, MinPositive,   \* what the analysis compares
    Outcomes, Reruns, Cases, Answers,              \* what it is given, by part
    Batches, Edits                                 \* bounds, by part

BatchParts == {"batch", "again"}
GatesParts == {"numbers", "artifacts"}

VARIABLES
    part,       \* which of the three, and of the instances of it
    lock, bworld, sandbox, canary, overlay, runset, dirs, archive, rpc, at, mem, batches, threads, touched,
    proved, spc, sat, sset, snap, rows, bedits,
    glock, cand, ws, raw, scores, static, gpc, env, grows, supplied, ran, cenv, payload, gat, senv, report,
    locks, gbatches, published, gedits

-------------------------------------------------------------------------------
TwoTreatments == <<"codegraph", "v03">>
TwoCorpora == <<"c1", "c2">>

TwoCells == <<"q1native", "q1v03">>
TwoArms == [c \in {"q1native", "q1v03"} |-> IF c = "q1native" THEN "native" ELSE "v03"]

Run(q, c1, c2) == [quality |-> q, cost |-> [m1 |-> c1, m2 |-> c2], ok |-> TRUE, fabricated |-> FALSE]
Plain == Run(1, 2, 2)
BaselineRuns ==
    {<<Plain, Plain>>, <<Run(3, 2, 2), Run(2, 2, 2)>>, <<Run(4, 2, 2), Run(0, 2, 2)>>,
      <<Run(1, 2, 0), Run(1, 2, 0)>>}
Best == Run(2, 1, 1)
CandidateRuns ==
    {<<Best, Best>>, <<Best, Run(0, 1, 1)>>, <<Run(2, 1, 3), Best>>,
     <<Best, [Best EXCEPT !.ok = FALSE]>>, <<Best, [Best EXCEPT !.fabricated = TRUE]>>}

ThreeBaselines == {"native", "codegraph", "hlsgraph-v02"}
Cells(n, g, v, c) ==
    [x \in (ThreeBaselines \cup {"hlsgraph-v03"}) \X {1, 2} |->
        CASE x[1] = "native" -> n[x[2]] [] x[1] = "codegraph" -> g[x[2]]
          [] x[1] = "hlsgraph-v02" -> v[x[2]] [] OTHER -> c[x[2]]]
AllMatrices == {Cells(n, g, v, c) : n \in BaselineRuns, g \in BaselineRuns, v \in BaselineRuns, c \in CandidateRuns}
\* The favourite is also the one the published scores may pretend.
Favourite == Cells(<<Plain, Plain>>, <<Plain, Plain>>, <<Plain, Plain>>, <<Best, Best>>)
TwoMatrices == {Favourite, Cells(<<Plain, Plain>>, <<Plain, Plain>>, <<Plain, Plain>>, <<Best, Run(0, 1, 1)>>)}

-------------------------------------------------------------------------------
\* One batch under two changes, and two batches under one.
MCBatches == [p \in BatchParts |-> IF p = "batch" THEN 1 ELSE 2]
\* What the numbers say, with two static cases under one change, and what they are
\* the numbers of, over five replacements of the artifacts.
MCEdits == [p \in BatchParts \cup GatesParts |->
              CASE p = "batch" -> 2 [] p = "artifacts" -> 5 [] OTHER -> 1]
MCOutcomes == [p \in GatesParts |-> IF p = "numbers" THEN AllMatrices ELSE TwoMatrices]
MCReruns == {Favourite}
MCCases == [p \in GatesParts |-> IF p = "numbers" THEN <<"s1", "s2">> ELSE <<"s1">>]
MCAnswers == [p \in GatesParts |->
                IF p = "numbers" THEN <<"miss", "gold", "gold">>
                                 ELSE <<"gold", "gold", "miss", "gold", "gold", "gold">>]

-------------------------------------------------------------------------------
Batch(p) == INSTANCE EvaluationBatch WITH
    world <- bworld, edits <- bedits, Plan <- CellOrder, MaxBatches <- Batches[p], MaxEdits <- Edits[p]
Gates(p) == INSTANCE EvaluationGates WITH
    lock <- glock, pc <- gpc, rows <- grows, at <- gat, batches <- gbatches, edits <- gedits,
    Matrices <- Outcomes[p], Cases <- Cases[p], Answers <- Answers[p], MaxEdits <- Edits[p]

ASSUME EvaluationAssumption ==
    /\ PrepareAssumption
    /\ \A p \in BatchParts : Batch(p)!BatchAssumption
    /\ \A p \in GatesParts : Gates(p)!GatesAssumption

bvars == <<lock, bworld, sandbox, canary, overlay, runset, dirs, archive, rpc, at, mem, batches, threads, touched,
           proved, spc, sat, sset, snap, rows, bedits>>
gvars == <<glock, cand, ws, raw, scores, static, gpc, env, grows, supplied, ran, cenv, payload, gat, senv, report,
           locks, gbatches, published, gedits>>

MCInit ==
    /\ Init /\ Batch("batch")!Init
    /\ \/ part \in {"prepare"} \cup BatchParts /\ Gates("artifacts")!Init
       \/ \E p \in GatesParts : part = p /\ Gates(p)!Init
    /\ part = "prepare" \/ stale = {}
    /\ part \in GatesParts \/
         (raw.cells = Favourite /\ scores = raw /\ static = Gates("artifacts")!StaticOf(glock, cand))

MCNext ==
    /\ \/ part = "prepare" /\ Next /\ UNCHANGED <<bvars, gvars>>
       \/ \E p \in BatchParts : part = p /\ Batch(p)!Next /\ UNCHANGED <<vars, gvars>>
       \/ \E p \in GatesParts : part = p /\ Gates(p)!Next /\ UNCHANGED <<vars, bvars>>
    /\ UNCHANGED part

mcvars == <<part, vars, bvars, gvars>>
MCSpec == MCInit /\ [][MCNext]_mcvars

-------------------------------------------------------------------------------
\* prepare.py: whatever is changed meanwhile, no time is taken over a stale index,
\* and a lock that is believed afterwards is of indexes that started cold, were
\* built by the runtime and from the input it pins, and of a clean revision.
LockIsBound ==
    part = "prepare" =>
    /\ TypeOK /\ NothingMeasuredOverStale /\ MeasuredCold
    /\ BuiltByTheLocked /\ IndexedTheLockedInput /\ BoundToSource

\* runner.py and score.py: a row that counts is of the process that this batch
\* started for this cell, in the environment of the lock, without a look at the
\* gold answers, with the accesses its server logged; every cell has a row; the
\* evidence of a batch is never replaced.
RowsAreEarned ==
    /\ [](\A p \in BatchParts : part = p =>
           /\ Batch(p)!TypeOK /\ Batch(p)!RowsAnswerTheirCell /\ Batch(p)!RanAsPrepared
           /\ Batch(p)!NoLeakIsScored /\ Batch(p)!CreditIsOneToOne /\ Batch(p)!EveryCellIsAccounted)
    /\ [][\A p \in BatchParts : part = p => Batch(p)!EvidenceIsWriteOnce]_mcvars

\* The bootstrap analysis: an advantage is claimed only if the runs of the batch it
\* names show it in every repetition, and runs, static report, candidate and
\* workspaces belong to the one lock it names, whatever is replaced on the way.
ReportIsEarned ==
    \A p \in GatesParts : part = p =>
        /\ Gates(p)!TypeOK /\ Gates(p)!ClaimIsEarned
        /\ Gates(p)!NumbersAreOfTheBatch /\ Gates(p)!OneEnvironment
        /\ Gates(p)!AnsweredByTheCandidate /\ Gates(p)!AnsweredFromThePrepared
        /\ Gates(p)!NamesWhatWasPublished
===============================================================================
