--------------------------- MODULE EvaluationGates --------------------------
(***************************************************************************)
(* The claim at the end of the agent evaluation: bootstrap.py scores the raw *)
(* runs again, has the candidate interpreter repeat the static retrieval     *)
(* (static_eval.py, two subprocesses), compares both with the published      *)
(* artifacts and decides if an advantage may be claimed.                    *)
(*                                                                          *)
(* The environment lock is read five times on the way, the run set twice,    *)
(* the workspaces before and after each query; wheels, workspaces, locks,    *)
(* runs and artifacts may be replaced between any two reads.  What is        *)
(* replaced gets a new version: old bytes never come back.                  *)
(*                                                                          *)
(* One question, so the percentile interval of a resampled mean spans the    *)
(* smallest and the largest paired difference: with two repetitions each of  *)
(* them alone is a quarter of the draws.                                    *)
(***************************************************************************)
EXTENDS Integers, Sequences, FiniteSets, FiniteSetsExt

CONSTANTS
    Baselines,   \* the three frozen baselines, "codegraph" and "native" among them
    Reps,        \* repetitions
    Costs,       \* the metrics of which less is better
    Margin,      \* quality the candidate may lose and still be non-inferior
    MinPositive, \* release_gates.minimum_positive_efficiency_metrics
    Matrices,    \* the outcomes a batch of runs may have
    Reruns,      \* the outcomes of a batch that is run again
    Cases,       \* sequence of the static retrieval cases
    Answers,     \* sequence: how the candidate of this version answers a case
    MaxEdits     \* bound: changes from outside

\* A run has a quality, costs, and may have failed or fabricated something.
Outcome == [quality : Int, cost : [Costs -> Int], ok : BOOLEAN, fabricated : BOOLEAN]

\* There are repetitions, finitely many, with an outcome of every arm in each; at
\* least one efficiency metric must be better; there are static cases, and every
\* version of the candidate that may be installed answers them.
GatesAssumption ==
    /\ {"codegraph", "native"} \subseteq Baselines
    /\ IsFiniteSet(Reps) /\ Reps # {}
    /\ Matrices \subseteq [(Baselines \cup {"hlsgraph-v03"}) \X Reps -> Outcome]
    /\ Reruns \subseteq Matrices
    /\ "quality" \notin Costs
    /\ Margin \in Int /\ MinPositive \in Nat \ {0}
    /\ Len(Cases) \in Nat \ {0}
    /\ MaxEdits \in Nat /\ Len(Answers) \in Nat /\ Len(Answers) > MaxEdits

VARIABLES
    lock,      \* environment.lock.json: [id, cand, ws]
    cand,      \* version of the candidate wheel that is installed
    ws,        \* version of the prepared workspaces
    raw,       \* the runs root: [batch, lock, cells]
    scores,    \* the published scores.jsonl
    static,    \* the published static-report.json
    pc,
    env,       \* the lock as main loaded it
    rows,      \* the raw runs scored again
    supplied,  \* the static report as main read it
    ran,       \* version of the candidate code the collector imported
    cenv,      \* the lock as the collector loaded it
    payload,   \* what the collector gathered: [lock, cand, cases]
    at,        \* workspace version each case was really answered from
    senv,      \* the lock as the static scorer loaded it
    report,    \* the bootstrap report, None until it is written
    locks,     \* every lock there ever was
    batches,   \* every batch there ever was
    published, \* every artifact there ever was
    edits

artifacts == <<lock, cand, ws, raw, scores, static>>
local == <<env, rows, supplied, ran, cenv, payload, at, senv>>
history == <<locks, batches, published, edits>>
vars == <<artifacts, pc, local, report, history>>

None == [none |-> TRUE]
Candidate == "hlsgraph-v03"
Arms == Baselines \cup {Candidate}
CaseSet == 1..Len(Cases)

-----------------------------------------------------------------------------
(* The statistics. *)

\* paired_differences: positive favours the candidate
Delta(cells, b, m, r) ==
    LET c == cells[<<Candidate, r>>]
        o == cells[<<b, r>>]
    IN  IF m = "quality" THEN c.quality - o.quality ELSE o.cost[m] - c.cost[m]

\* stratified_paired_bootstrap
CiLower(cells, b, m) == Min({Delta(cells, b, m, r) : r \in Reps})
CiUpper(cells, b, m) == Max({Delta(cells, b, m, r) : r \in Reps})

\* simultaneous_quality_noninferiority: against every baseline
QualityNoninferior(cells) ==
    \A b \in Baselines : CiLower(cells, b, "quality") >= -Margin

Efficient(cells) ==
    LET positive == {m \in Costs : \A b \in Baselines \ {"codegraph"} :
                                       CiLower(cells, b, m) > 0}
        worse == {m \in Costs : \E b \in Baselines \ {"codegraph"} :
                                    CiUpper(cells, b, m) < 0}
    IN  Cardinality(positive) >= MinPositive /\ worse = {}

\* complete: the matrix is exact by the rescoring; no cell of it failed
Complete(cells) == \A a \in Arms, r \in Reps : cells[<<a, r>>].ok
Fabricated(cells) == \E r \in Reps : cells[<<Candidate, r>>].fabricated

\* the gate on the static metrics: recall, citations and nothing fabricated
StaticPassed(cases) == \A i \in CaseSet : cases[i].out = "gold"

\* evaluate_gates
Supported(cells, cases) ==
    /\ Complete(cells)
    /\ StaticPassed(cases)
    /\ ~Fabricated(cells)
    /\ QualityNoninferior(cells)
    /\ CiLower(cells, "codegraph", "quality") > 0
    /\ Efficient(cells)

-----------------------------------------------------------------------------
(* The analysis. *)

Answered(code, w) == [i \in CaseSet |-> [ws |-> w, out |-> Answers[code]]]
StaticOf(l, code) == [lock |-> l.id, cand |-> l.cand, cases |-> Answered(code, l.ws)]

Step(from, to) == pc = from /\ pc' = to
Refuse(from, bad) ==
    /\ pc = from /\ bad /\ pc' = "refused"
    /\ UNCHANGED <<artifacts, local, report, history>>

\* main: load_environment_lock, the interpreter and the checkout
Load ==
    /\ Step("start", "rescore")
    /\ env' = lock
    /\ UNCHANGED <<artifacts, rows, supplied, ran, cenv, payload, at, senv, report, history>>

\* verify_scores_against_raw: score_runs takes only runs of the lock there is
RescoreOK == raw.lock = lock.id /\ scores = raw
Rescore ==
    \/ /\ Step("rescore", "read") /\ RescoreOK
       /\ rows' = raw
       /\ UNCHANGED <<artifacts, env, supplied, ran, cenv, payload, at, senv, report, history>>
    \/ Refuse("rescore", ~RescoreOK)

ReadStatic ==
    /\ Step("read", "import")
    /\ supplied' = static
    /\ UNCHANGED <<artifacts, env, rows, ran, cenv, payload, at, senv, report, history>>

\* collect: the candidate package is imported before anything is verified
Import ==
    /\ Step("import", "environment")
    /\ ran' = cand
    /\ UNCHANGED <<artifacts, env, rows, supplied, cenv, payload, at, senv, report, history>>

\* _environment_identity: the lock is loaded, then hashed, then the wheel inspected
CollectLoad ==
    /\ Step("environment", "hash")
    /\ cenv' = lock
    /\ UNCHANGED <<artifacts, env, rows, supplied, ran, payload, at, senv, report, history>>
CollectHash ==
    \/ /\ Step("hash", "verify") /\ cand = cenv.cand
       /\ payload' = [lock |-> lock.id, cand |-> cenv.cand, cases |-> << >>]
       /\ UNCHANGED <<artifacts, env, rows, supplied, ran, cenv, at, senv, report, history>>
    \/ Refuse("hash", cand # cenv.cand)

PreparedOK(e) == ws = e.ws
\* verify_prepared_workspace before the query
Verify ==
    \/ /\ Step("verify", "retrieve") /\ PreparedOK(cenv)
       /\ UNCHANGED <<artifacts, local, report, history>>
    \/ Refuse("verify", ~PreparedOK(cenv))
\* Project.open(workspace).retrieve on the pinned snapshot
Retrieve ==
    /\ Step("retrieve", "check")
    /\ payload' = [payload EXCEPT !.cases = Append(@, [ws |-> cenv.ws, out |-> Answers[ran]])]
    /\ at' = Append(at, ws)
    /\ UNCHANGED <<artifacts, env, rows, supplied, ran, cenv, senv, report, history>>
\* ... and again after it
Check ==
    \/ /\ pc = "check" /\ PreparedOK(cenv)
       /\ pc' = IF Len(payload.cases) = Len(Cases) THEN "score" ELSE "verify"
       /\ UNCHANGED <<artifacts, local, report, history>>
    \/ Refuse("check", ~PreparedOK(cenv))

\* score, the second subprocess: the lock is loaded, then hashed
ScoreLoad ==
    /\ Step("score", "bind")
    /\ senv' = lock
    /\ UNCHANGED <<artifacts, env, rows, supplied, ran, cenv, payload, at, report, history>>

BindOK ==
    /\ payload.lock = lock.id
    /\ payload.cand = senv.cand
    /\ PreparedOK(senv)
    /\ \A i \in CaseSet : payload.cases[i].ws = senv.ws
\* the report of the static scorer, and its comparison with the published one
Recomputed == payload
ScoreStatic ==
    \/ /\ Step("bind", "analyze")
       /\ BindOK /\ supplied = Recomputed
       /\ UNCHANGED <<artifacts, local, report, history>>
    \/ Refuse("bind", ~(BindOK /\ supplied = Recomputed))

\* analyze: the run set is read again, the lock hashed once more
RunSetOK == raw.lock = lock.id

\* (mutant) Rows of another batch of the lock are taken.
RowsAny == rows.lock = lock.id

\* _score_identity_issues: every row of this lock, this batch and this run set
RowsOK == rows.lock = lock.id /\ rows.batch = raw.batch
\* _validate_static_identity
StaticIdentityOK ==
    /\ supplied.lock = lock.id /\ supplied.cand = env.cand
    /\ StaticPassed(supplied.cases)
AnalyzeOK == RunSetOK /\ RowsOK /\ StaticIdentityOK

Analyze ==
    \/ /\ Step("analyze", "written") /\ AnalyzeOK
       /\ report' = [lock |-> lock.id, cand |-> env.cand, batch |-> raw.batch,
                     scores |-> rows, static |-> supplied,
                     supported |-> Supported(rows.cells, supplied.cases)]
       /\ UNCHANGED <<artifacts, local, history>>
    \/ Refuse("analyze", ~AnalyzeOK)

Analyst ==
    \/ Load \/ Rescore \/ ReadStatic \/ Import \/ CollectLoad \/ CollectHash
    \/ Verify \/ Retrieve \/ Check \/ ScoreLoad \/ ScoreStatic \/ Analyze

-----------------------------------------------------------------------------
(* The world outside. *)

Edit ==
    /\ edits < MaxEdits /\ pc \notin {"written", "refused"}
    /\ edits' = edits + 1
    /\ UNCHANGED <<pc, local, report>>

Reinstall ==
    /\ Edit /\ cand' = cand + 1
    /\ UNCHANGED <<lock, ws, raw, scores, static, locks, batches, published>>
EditWorkspace ==
    /\ Edit /\ ws' = ws + 1
    /\ UNCHANGED <<lock, cand, raw, scores, static, locks, batches, published>>
\* prepare.py is run again and locks what it finds
Relock ==
    /\ Edit
    /\ lock' = [id |-> lock.id + 1, cand |-> cand, ws |-> ws]
    /\ locks' = locks \cup {lock'}
    /\ UNCHANGED <<cand, ws, raw, scores, static, batches, published>>
\* runner.py is run again into the same root
Rerun ==
    /\ Edit
    /\ \E cells \in Reruns :
           raw' = [batch |-> raw.batch + 1, lock |-> lock.id, cells |-> cells]
    /\ batches' = batches \cup {raw'}
    /\ UNCHANGED <<lock, cand, ws, scores, static, locks, published>>
\* score.py and static_eval.py are run again
Publish ==
    /\ Edit
    /\ \/ scores' = raw /\ UNCHANGED static
       \/ static' = StaticOf(lock, cand) /\ UNCHANGED scores
    /\ published' = published \cup {scores', static'}
    /\ UNCHANGED <<lock, cand, ws, raw, locks, batches>>

Outside == Reinstall \/ EditWorkspace \/ Relock \/ Rerun \/ Publish

\* a finished evaluation; the artifacts beside it may be from elsewhere
Init ==
    /\ cand \in 1..(Len(Answers) - MaxEdits) /\ ws = 1
    /\ lock = [id |-> 1, cand |-> cand, ws |-> 1]
    /\ \E cells \in Matrices, cells2 \in Reruns :
           /\ raw = [batch |-> 1, lock |-> 1, cells |-> cells]
           /\ scores \in {raw, [raw EXCEPT !.cells = cells2]}
    /\ static \in {StaticOf(lock, cand),
                   [StaticOf(lock, cand) EXCEPT !.cases = [i \in CaseSet |-> [ws |-> 1, out |-> "gold"]]]}
    /\ pc = "start"
    /\ env = None /\ rows = None /\ supplied = None /\ ran = 0 /\ cenv = None
    /\ payload = None /\ at = << >> /\ senv = None /\ report = None
    /\ locks = {lock} /\ batches = {raw} /\ published = {scores, static}
    /\ edits = 0

Next == Analyst \/ Outside
Spec == Init /\ [][Next]_vars

-----------------------------------------------------------------------------
(* A report exists once it is written, names a lock and a batch that exist,  *)
(* and answers were taken from workspaces in the order of the cases           *)
(* (main and collect).                                                       *)
TypeOK ==
    /\ edits \in 0..MaxEdits
    /\ lock \in locks /\ raw \in batches /\ {scores, static} \subseteq published
    /\ (report # None) = (pc = "written")
    /\ report # None => /\ \E l \in locks : l.id = report.lock
                        /\ \E b \in batches : b.batch = report.batch
    /\ Len(at) <= Len(Cases)

Batch == CHOOSE b \in batches : b.batch = report.batch
LockOf == CHOOSE l \in locks : l.id = report.lock

(* The numbers of a report are those of the raw runs of the batch it names,   *)
(* also when the runs were replaced while they were analyzed                 *)
(* (verify_scores_against_raw, analyze).                                     *)
NumbersAreOfTheBatch == report # None => report.scores = Batch

(* An advantage is claimed only if every run of the batch succeeded, in no    *)
(* pair of runs the candidate lost to any baseline by more than the margin,   *)
(* it beat the code graph in each, and no baseline was cheaper throughout     *)
(* (evaluate_gates, simultaneous_quality_noninferiority).                    *)
ClaimIsEarned ==
    report # None /\ report.supported =>
        \A r \in Reps :
            LET mine == Batch.cells[<<Candidate, r>>] IN
            /\ mine.ok /\ ~mine.fabricated
            /\ \A b \in Baselines :
                   LET other == Batch.cells[<<b, r>>] IN
                   /\ other.ok
                   /\ mine.quality >= other.quality - Margin
                   /\ b = "codegraph" => mine.quality > other.quality
                   /\ b # "codegraph" => \E m \in Costs : mine.cost[m] < other.cost[m]

(* Runs, static report and candidate of a report belong to the one lock it    *)
(* names, however often the lock was replaced on the way (analyze,           *)
(* _environment_identity, score).                                            *)
OneEnvironment ==
    report # None =>
        /\ report.scores.lock = report.lock
        /\ report.static.lock = report.lock
        /\ report.cand = LockOf.cand

(* The code that answered the static cases is the candidate of the report,    *)
(* although it is imported before its wheel is inspected (collect).          *)
AnsweredByTheCandidate == report # None => ran = report.cand

(* Each case was answered from the workspace the lock pins (collect, score).  *)
AnsweredFromThePrepared == report # None => \A i \in CaseSet : at[i] = LockOf.ws

(* A report names only artifacts that were published as they are (main).     *)
NamesWhatWasPublished ==
    report # None => {report.scores, report.static} \subseteq published

-----------------------------------------------------------------------------
(* The inductive invariant.                                                  *)

LockType == [id : Nat, cand : Nat, ws : Nat]
RunsType == [batch : Nat, lock : Nat, cells : Matrices]
CaseType == [ws : Nat, out : {Answers[i] : i \in 1..Len(Answers)}]

\* Versions only grow, so a number names one lock, and one batch.
Versioned ==
    /\ edits \in 0..MaxEdits /\ ws \in Nat
    /\ cand \in Nat /\ cand >= 1 /\ cand <= Len(Answers) - MaxEdits + edits
    /\ lock \in locks /\ locks \subseteq LockType
    /\ raw \in batches /\ batches \subseteq RunsType
    /\ {scores, static} \subseteq published /\ scores \in RunsType
    /\ lock.cand <= cand
    /\ \A l \in locks : l.id <= lock.id
    /\ \A l, m \in locks : l.id = m.id => l = m
    /\ \A b \in batches : b.batch <= raw.batch /\ b.lock <= lock.id
    /\ \A b, d \in batches : b.batch = d.batch => b = d

\* How far the analysis is.
Phases ==
    <<"start", "rescore", "read", "import", "environment", "hash", "verify", "retrieve", "check", "score",
      "bind", "analyze", "written">>
Later(i) == {Phases[j] : j \in i..Len(Phases)}

\* The lock the runs were scored under is still there.
Current == rows.lock = lock.id

Gathered ==
    /\ pc \in Later(3) => rows \in batches /\ rows \in published
    /\ pc \in Later(4) => supplied \in published
    /\ pc \in Later(5) => ran \in 1..cand /\ (Current => lock.cand <= ran)
    /\ pc \in Later(6) => cenv \in locks /\ (Current => cenv = lock)
    /\ pc \in Later(7) => /\ payload \in [lock : Nat, cand : Nat, cases : Seq(CaseType)]
                          /\ payload.cand = cenv.cand
                          /\ (Current => payload.lock = lock.id /\ ran = lock.cand)
    /\ pc \in Later(11) => (Current => senv = lock)
    /\ pc \in Later(12) => supplied = payload

\* A case is answered between two looks at the workspace.
Answering ==
    /\ at \in Seq(Nat) /\ Len(at) <= Len(Cases)
    /\ pc \in Later(1) \ Later(7) => at = << >>
    /\ pc \in Later(7) => /\ Len(payload.cases) = Len(at)
                          /\ \A i \in DOMAIN at : at[i] = cenv.ws \/ (pc = "check" /\ i = Len(at))
    /\ pc \in {"verify", "retrieve"} => Len(at) < Len(Cases)
    /\ pc = "retrieve" => cenv.ws <= ws
    /\ pc = "check" => Len(at) > 0 /\ cenv.ws <= at[Len(at)] /\ at[Len(at)] <= ws
    /\ pc \in Later(10) => Len(at) = Len(Cases)

\* What is written is of one lock and one batch.
Written ==
    /\ pc \in {"refused"} \cup Later(1)
    /\ (report # None) = (pc = "written")
    /\ report # None =>
         /\ report.scores \in batches /\ report.scores.batch = report.batch
         /\ report.scores.lock = report.lock /\ report.static.lock = report.lock
         /\ {report.scores, report.static} \subseteq published
         /\ report.supported = Supported(report.scores.cells, report.static.cases)
         /\ \E l \in locks :
              /\ l.id = report.lock /\ l.cand = report.cand /\ ran = l.cand
              /\ \A i \in CaseSet : at[i] = l.ws

IInv == Versioned /\ Gathered /\ Answering /\ Written

=============================================================================
