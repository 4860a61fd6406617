----------------------------- MODULE ReleaseGate -----------------------------
(***************************************************************************)
(* The release audit, tools/audit_release.py: it reads the checkout, the     *)
(* wheel and the sdist, the evidence of the knowledge review, the evidence   *)
(* of the evaluation and the release notes, one after the other, collects    *)
(* issues and approves the release when there is none.                       *)
(*                                                                           *)
(* Maintainers edit, build, evaluate and write notes before and while the    *)
(* audit runs.  One version number stands for the bytes of a part of a tree  *)
(* or an archive; a digest is the content it is taken of.  Every file of the *)
(* evaluation is read in a step of its own, and so is every run directory,   *)
(* whose files are compared with their hashes once more after they were read. *)
(***************************************************************************)
EXTENDS Naturals, Sequences

CONSTANTS
    Versions,   \* versions of the package and of the other sources
    Batches,    \* identities of batches of runs
    NumCells,   \* the cells of the run plan, in their canonical order
    MaxEdits    \* bound: steps of the maintainers

\* What the constants are.
EditsOK == MaxEdits \in Nat /\ NumCells \in Nat \ {0}

VARIABLES
    tree,      \* checkout: [pkg, rest, clean], the package, the other bound sources, the scan
    suite,     \* private evidence of the knowledge review: the tree it reviewed
    wheel,     \* [pkg, sound]
    sdist,     \* [pkg, rest, sound]
    eval,      \* evaluation files: [env, runset, runs, scores, static, bootstrap]
    notes,     \* what the release notes say, a subset of {"preview", "advantage"}
    pc,        \* where the audit is
    mode,      \* "preflight", "preview" or "formal"
    given,     \* the inputs named on the command line
    bad,       \* an issue was found
    seen,      \* what the audit has read of the archives, the checkout and the notes
    read,      \* what it has read of the evaluation
    edits,
    during     \* the maintainers changed something while the audit ran

world == <<tree, suite, wheel, sdist, eval, notes>>
audit == <<pc, mode, given, bad, seen, read>>
vars == <<world, audit, edits, during>>

Inputs == {"suite", "legacy", "evidence", "notes"}
Claims == SUBSET {"preview", "advantage"}
Trees == [pkg : Versions, rest : Versions, clean : BOOLEAN]
Wheels == [pkg : Versions, sound : BOOLEAN]
Sdists == [pkg : Versions, rest : Versions, sound : BOOLEAN]

-------------------------------------------------------------------------------
(* An evaluation: the lock of its environment names the wheel under test and    *)
(* the checkout; a run is made in it for every cell, scored, analysed.         *)

Cells == 1..NumCells
EnvOf(w, t) == [wheel |-> w, pkg |-> t.pkg, rest |-> t.rest]

\* score_run: a run of another environment or batch is a failed cell.
Outcome(env, batch, run) ==
    IF <<run.env, run.batch>> # <<env, batch>> THEN "failed" ELSE IF run.wins THEN "win" ELSE "loss"

\* score_runs, from the raw runs and the run set that lists them.
Scored(env, runset, runs) ==
    [env |-> env, runset |-> runset, rows |-> [c \in Cells |-> Outcome(env, runset.batch, runs[c])]]

\* bootstrap.analyze takes scores and a static report of one environment and run set.
Analysable(scores, static, env, runset) ==
    scores.env = env /\ scores.runset = runset /\ runset.env = env /\ static.env = env

\* An advantage is supported by the static report and by the cells together.
Analyze(scores, static, env, runset) ==
    [env |-> env, runset |-> runset, static |-> static, scores |-> scores,
     supported |-> static.passed /\ \A c \in Cells : scores.rows[c] = "win"]

Evaluation(w, t, b, wins) ==
    LET env == EnvOf(w, t)
        runset == [env |-> env, batch |-> b]
        runs == [c \in Cells |-> [env |-> env, batch |-> b, wins |-> wins[c]]]
        static == [env |-> env, passed |-> TRUE]
        scores == Scored(env, runset, runs)
    IN [env |-> env, runset |-> runset, runs |-> runs, scores |-> scores, static |-> static,
        bootstrap |-> Analyze(scores, static, env, runset)]

-------------------------------------------------------------------------------
(* The maintainers.                                                            *)

Work ==
    /\ pc # "done" /\ edits < MaxEdits /\ edits' = edits + 1
    /\ during' = (during \/ pc # "start")
    /\ UNCHANGED audit

Commit ==
    Work /\ tree' \in Trees \ {tree} /\ UNCHANGED <<suite, wheel, sdist, eval, notes>>

Review == Work /\ suite' = tree /\ suite # tree /\ UNCHANGED <<tree, wheel, sdist, eval, notes>>

BuildWheel ==
    Work /\ wheel' \in Wheels \ {wheel} /\ UNCHANGED <<tree, suite, sdist, eval, notes>>

BuildSdist ==
    Work /\ sdist' \in Sdists \ {sdist} /\ UNCHANGED <<tree, suite, wheel, eval, notes>>

\* The harness evaluates only a wheel that holds the package of its source; an earlier
\* evaluation may be put back.
Evaluate ==
    /\ Work /\ wheel.pkg = tree.pkg
    /\ \E b \in Batches, wins \in [Cells -> BOOLEAN] :
         eval' = Evaluation(wheel, tree, b, wins) /\ eval' # eval
    /\ UNCHANGED <<tree, suite, wheel, sdist, notes>>

\* A file of the evaluation, or one run directory, is replaced.
Replacement ==
    \/ eval' = [eval EXCEPT !.static.passed = ~@]
    \/ eval' = [eval EXCEPT !.bootstrap.supported = ~@]
    \/ \E c \in Cells : eval' = [eval EXCEPT !.runs[c].wins = ~@]
    \/ \E c \in Cells, b \in Batches : eval' = [eval EXCEPT !.runs[c].batch = b]
    \/ \E b \in Batches : eval' = [eval EXCEPT !.runset.batch = b]
    \/ \E c \in Cells : eval' = [eval EXCEPT !.scores.rows[c] = "win"]
    \/ \E c \in Cells : eval' = [eval EXCEPT !.bootstrap.scores.rows[c] = "win", !.bootstrap.supported = TRUE]
    \/ \E w \in Wheels : eval' = [eval EXCEPT !.env.wheel = w]
    \/ \E w \in Wheels : eval' = [eval EXCEPT !.runset.env.wheel = w]

Replace ==
    Work /\ Replacement /\ eval' # eval /\ UNCHANGED <<tree, suite, wheel, sdist, notes>>

Announce ==
    Work /\ notes' \in Claims \ {notes} /\ UNCHANGED <<tree, suite, wheel, sdist, eval>>

-------------------------------------------------------------------------------
(* The audit.                                                                  *)

Step(from, to) == pc = from /\ pc' = to /\ UNCHANGED <<world, mode, given, edits, during>>
Note(issue) == bad' = (bad \/ issue)

\* The files of the checkout are scanned, and compared with its bill of materials.
SourceIssue == ~tree.clean

Start(m, g) ==
    /\ pc = "start" /\ pc' = "wheel" /\ mode' = m /\ given' = g
    /\ Note(SourceIssue)
    /\ UNCHANGED <<world, seen, read, edits, during>>

\* Member names are safe and unique, nothing private or forbidden is inside, the
\* archive is complete and its bill of materials is that of the checkout.
Sound(archive) == archive.sound

\* _audit_wheel: also RECORD, metadata, and the bytes of the package of the checkout.
WheelIssue == ~Sound(wheel) \/ wheel.pkg # tree.pkg

AuditWheel ==
    /\ Step("wheel", "sdist") /\ Note(WheelIssue)
    /\ seen' = [seen EXCEPT !.wheels = @ \cup {wheel}, !.tree = tree] /\ UNCHANGED read

\* _audit_sdist: also the build inputs and the sources the review is bound to.
SdistIssue == ~Sound(sdist) \/ sdist.pkg # tree.pkg \/ sdist.rest # tree.rest

AuditSdist ==
    /\ Step("sdist", "compare") /\ Note(SdistIssue)
    /\ seen' = [seen EXCEPT !.sdist = sdist] /\ UNCHANGED read

\* The installable packages of both archives are read again and compared.
Compare ==
    /\ Step("compare", IF mode = "preflight" THEN "verdict" ELSE "review")
    /\ Note(wheel.pkg # sdist.pkg \/ (mode = "preflight" /\ given # {}))
    /\ seen' = [seen EXCEPT !.wheels = @ \cup {wheel}] /\ UNCHANGED read

\* The formal gate takes the evidence of the suite, replays it against the checkout
\* and refuses the inputs of the earlier review.
ReviewGate ==
    /\ Step("review", IF mode = "preview" THEN "notes"
                      ELSE IF {"evidence", "notes"} \subseteq given THEN "env" ELSE "verdict")
    /\ Note(\/ "suite" \notin given \/ "legacy" \in given \/ suite # tree
            \/ IF mode = "preview" THEN "evidence" \in given ELSE ~({"evidence", "notes"} \subseteq given))
    /\ seen' = [seen EXCEPT !.suite = suite] /\ UNCHANGED read

\* The five files of the evaluation, each read whole.
Read(from, to) == Step(from, to) /\ UNCHANGED <<bad, seen>>
ReadEnvironment == Read("env", "static") /\ read' = [read EXCEPT !.env = eval.env]
ReadStatic == Read("static", "bootstrap") /\ read' = [read EXCEPT !.static = eval.static]
ReadBootstrap == Read("bootstrap", "runset") /\ read' = [read EXCEPT !.bootstrap = eval.bootstrap]
ReadRunSet == Read("runset", "scores") /\ read' = [read EXCEPT !.runset = eval.runset]
ReadScores == Read("scores", "load") /\ read' = [read EXCEPT !.scores = eval.scores]

\* load_environment_lock reads the file once more; so does the audit afterwards.
LoadLock == Read("load", "again") /\ read' = [read EXCEPT !.lock = eval.env]

\* A stage that compares: it goes on to the next, or gives up.
Check(from, ok, to, otherwise) ==
    Step(from, IF ok THEN to ELSE otherwise) /\ UNCHANGED <<seen, read>>

\* _candidate_identity_from_environment: the verified wheel holds the source package.
CandidateOK(env) == env.wheel.pkg = env.pkg

\* The reports name the environment, the static report, the scores, the run set.
Bound ==
    /\ read.static.env = read.env /\ read.static.passed
    /\ read.bootstrap.env = read.env /\ read.bootstrap.static = read.static
    /\ read.bootstrap.scores = read.scores /\ read.bootstrap.runset = read.runset

LockAgain ==
    LET ok == read.lock = read.env /\ eval.env = read.env /\ CandidateOK(read.env)
    IN Check("again", ok, "closure", "verdict") /\ Note(~ok \/ ~Bound)

\* _verify_evaluation_raw_closure: the run set is that of the environment and the one
\* that was supplied.
Closure ==
    LET ok == eval.runset = read.runset /\ eval.runset.env = read.env
    IN Check("closure", ok, "lock", "candidate") /\ Note(~ok)

\* score_runs loads the lock, checks that the checkout is the revision it names, takes
\* the digest of the lock, and loads the run set.
ScoreLock == Read("lock", "checkout") /\ read' = [read EXCEPT !.lock = eval.env]

VerifyCheckout ==
    LET ok == <<tree.pkg, tree.rest>> = <<read.lock.pkg, read.lock.rest>>
    IN Check("checkout", ok, "digest", "candidate") /\ Note(~ok)

ScoreDigest == Read("digest", "cells") /\ read' = [read EXCEPT !.digest = eval.env]

LoadCells ==
    LET ok == eval.runset.env = read.digest
    IN Step("cells", IF ok THEN "score" ELSE "candidate") /\ Note(~ok) /\ UNCHANGED seen
    /\ read' = [read EXCEPT !.cells = eval.runset]

\* score_run, cell by cell.
ScoreRun ==
    LET c == Len(read.runs) + 1
    IN Read("score", IF c = NumCells THEN "rows" ELSE "score")
       /\ read' = [read EXCEPT !.runs = Append(@, eval.runs[c])]

\* The scores are those of the runs; the lock and the run set are read once more; and
\* the analysis is made again.
CompareRows ==
    LET ok == read.scores = Scored(read.digest, read.cells, read.runs) /\ eval.env = read.env
    IN Check("rows", ok, "analysis", "candidate") /\ Note(~ok)

CompareAnalysis ==
    LET ok == /\ eval.runset = read.runset
              /\ Analysable(read.scores, read.static, read.env, read.runset)
              /\ read.bootstrap = Analyze(read.scores, read.static, read.env, read.runset)
    IN Check("analysis", ok, "candidate", "candidate") /\ Note(~ok)

\* (mutant) Only the package in the wheel is compared.
ReleasedLoosely(w, env) == w.pkg = env.pkg

\* The release wheel, read once more, is the evaluated one, byte for byte.
Released(w, env) == w = env.wheel /\ w.pkg = env.pkg

Candidate ==
    /\ Step("candidate", "notes") /\ Note(~Released(wheel, read.env)) /\ UNCHANGED read
    /\ seen' = [seen EXCEPT !.wheels = @ \cup {wheel}, !.last = wheel]

\* An advantage may be claimed only if it is supported; otherwise, and without an
\* evaluation, the notes say that this is a preview.
NotesIssue(claims) ==
    IF mode = "preview" THEN "notes" \notin given \/ claims # {"preview"}
    ELSE ~read.bootstrap.supported /\ claims # {"preview"}

ReadNotes ==
    /\ Step("notes", "verdict") /\ Note(NotesIssue(notes))
    /\ seen' = [seen EXCEPT !.notes = notes] /\ UNCHANGED read

Verdict == Step("verdict", "done") /\ UNCHANGED <<bad, seen, read>>

Audit ==
    \/ \E m \in {"preflight", "preview", "formal"}, g \in SUBSET Inputs : Start(m, g)
    \/ AuditWheel \/ AuditSdist \/ Compare \/ ReviewGate
    \/ ReadEnvironment \/ ReadStatic \/ ReadBootstrap \/ ReadRunSet \/ ReadScores \/ LoadLock \/ LockAgain
    \/ Closure \/ ScoreLock \/ VerifyCheckout \/ ScoreDigest \/ LoadCells \/ ScoreRun
    \/ CompareRows \/ CompareAnalysis \/ Candidate \/ ReadNotes \/ Verdict

Maintain == Commit \/ Review \/ BuildWheel \/ BuildSdist \/ Evaluate \/ Replace \/ Announce
Next == Audit \/ Maintain

\* A release that was built and evaluated in order.
Init ==
    \E v \in Versions, b \in Batches, wins \in [Cells -> BOOLEAN] :
        /\ tree = [pkg |-> v, rest |-> v, clean |-> TRUE] /\ suite = tree
        /\ wheel = [pkg |-> v, sound |-> TRUE]
        /\ sdist = [pkg |-> v, rest |-> v, sound |-> TRUE]
        /\ eval = Evaluation(wheel, tree, b, wins)
        /\ notes = {"preview"}
        /\ pc = "start" /\ mode = "preflight" /\ given = {} /\ bad = FALSE
        /\ seen = [wheels |-> {}, last |-> wheel, tree |-> tree, sdist |-> sdist, suite |-> tree, notes |-> {}]
        /\ read = [env |-> eval.env, static |-> eval.static, bootstrap |-> eval.bootstrap,
                   runset |-> eval.runset, scores |-> eval.scores,
                   lock |-> eval.env, digest |-> eval.env, cells |-> eval.runset, runs |-> <<>>]
        /\ edits = 0 /\ during = FALSE

Spec == Init /\ [][Next]_vars

-------------------------------------------------------------------------------
(* Properties.                                                                 *)

Approved(m) == pc = "done" /\ mode = m /\ ~bad

Formal == {"env", "static", "bootstrap", "runset", "scores", "load", "again", "closure", "lock", "checkout",
           "digest", "cells", "score", "rows", "analysis", "candidate"}

TypeOK ==
    /\ tree \in Trees /\ suite \in Trees /\ wheel \in Wheels /\ sdist \in Sdists /\ notes \in Claims
    /\ given \subseteq Inputs /\ edits \in 0..MaxEdits /\ seen.wheels \subseteq Wheels
    /\ pc \in Formal => mode = "formal" /\ {"evidence", "notes"} \subseteq given

\* What the scoring has found of every cell.
Found(c) == Outcome(read.digest, read.cells.batch, read.runs[c])

\* Whatever is edited while the audit runs, notes it approved claim an advantage only
\* when the run of every cell that it read supports one, and a release that was not
\* evaluated claims none.
ClaimsAreEarned ==
    /\ Approved("preview") => seen.notes = {"preview"}
    /\ Approved("formal") => (seen.notes = {"preview"} \/ \A c \in Cells : read.runs[c].wins)

\* Whatever is edited between any two of its readings, the wheel last read by an approved
\* formal audit is the one that every run was made with that counts, all of these runs are
\* of one batch, and the report speaks of these runs, cell by cell.
EvaluatedWheelIsReleased ==
    Approved("formal") =>
        \A c \in Cells :
            /\ Found(c) # "failed" =>
                 read.runs[c].env.wheel = seen.last /\ read.runs[c].batch = read.bootstrap.runset.batch
            /\ read.bootstrap.scores.rows[c] = Found(c)

\* If both archives stayed as they were, an approved release is one package: checkout,
\* review, sdist and wheel agree.
ApprovedIsOnePackage ==
    \A m \in {"preview", "formal"} : Approved(m) /\ ~during =>
        /\ seen.wheels = {[pkg |-> tree.pkg, sound |-> TRUE]}
        /\ seen.sdist = [pkg |-> tree.pkg, rest |-> tree.rest, sound |-> TRUE]
        /\ seen.suite = tree /\ tree.clean
        /\ m = "formal" => \A c \in Cells : Found(c) # "failed" =>
                             <<read.runs[c].env.pkg, read.runs[c].env.rest>> = <<tree.pkg, tree.rest>>

\* What a release needs, for a release that nobody touches during the audit.
Ready ==
    /\ wheel = [pkg |-> tree.pkg, sound |-> TRUE]
    /\ sdist = [pkg |-> tree.pkg, rest |-> tree.rest, sound |-> TRUE]
    /\ suite = tree /\ tree.clean
    /\ mode = "formal" => /\ given = {"suite", "evidence", "notes"}
                          /\ \E b \in Batches, wins \in [Cells -> BOOLEAN] :
                               /\ eval = Evaluation(wheel, tree, b, wins)
                               /\ (\E c \in Cells : ~wins[c]) => notes = {"preview"}
    /\ mode = "preview" => given = {"suite", "notes"} /\ notes = {"preview"}
    /\ mode = "preflight" => given = {}

\* The gates do not contradict one another: a release prepared in order is approved.
ReadyIsApproved == pc = "done" /\ ~during /\ Ready => ~bad

-------------------------------------------------------------------------------
(* What makes the safety properties inductive.                                *)

\* What an evaluation is made of.
Outcomes == {"win", "loss", "failed"}
Envs == [wheel : Wheels, pkg : Versions, rest : Versions]
RunSets == [env : Envs, batch : Batches]
Runs == [env : Envs, batch : Batches, wins : BOOLEAN]
Statics == [env : Envs, passed : BOOLEAN]
Scores == [env : Envs, runset : RunSets, rows : [Cells -> Outcomes]]
Reports == [env : Envs, runset : RunSets, static : Statics, scores : Scores, supported : BOOLEAN]
Evaluations ==
    [env : Envs, runset : RunSets, runs : [Cells -> Runs], scores : Scores, static : Statics, bootstrap : Reports]

Readings ==
    [wheels : SUBSET Wheels, last : Wheels, tree : Trees, sdist : Sdists, suite : Trees, notes : Claims]
Evidence ==
    [env : Envs, static : Statics, bootstrap : Reports, runset : RunSets, scores : Scores,
     lock : Envs, digest : Envs, cells : RunSets, runs : Seq(Runs)]

\* The stages that come after one, in the order of the audit.
AfterNotes == {"verdict", "done"}
AfterCandidate == AfterNotes \cup {"notes"}
AfterAnalysis == AfterCandidate \cup {"candidate"}
AfterRows == AfterAnalysis \cup {"analysis"}
AfterScore == AfterRows \cup {"rows"}
AfterCells == AfterScore \cup {"score"}
AfterDigest == AfterCells \cup {"cells"}
AfterCheckout == AfterDigest \cup {"digest"}
AfterLock == AfterCheckout \cup {"checkout"}
AfterClosure == AfterLock \cup {"lock"}
AfterAgain == AfterClosure \cup {"closure"}
AfterLoad == AfterAgain \cup {"again"}
AfterScores == AfterLoad \cup {"load"}
AfterRunSet == AfterScores \cup {"scores"}
AfterBootstrap == AfterRunSet \cup {"runset"}
AfterStatic == AfterBootstrap \cup {"bootstrap"}
AfterEnv == AfterStatic \cup {"static"}
AfterReview == AfterEnv \cup {"env"}
AfterCompare == AfterReview \cup {"review"}
AfterSdist == AfterCompare \cup {"compare"}
AfterWheel == AfterSdist \cup {"sdist"}

\* What the maintainers leave and what the audit has read of it; evidence is read
\* in a formal audit only.
Typed ==
    /\ eval \in Evaluations /\ mode \in {"preflight", "preview", "formal"} /\ bad \in BOOLEAN
    /\ during \in BOOLEAN /\ pc \in {"start", "wheel"} \cup AfterWheel
    /\ seen \in Readings /\ read \in Evidence
    /\ pc \in {"start", "wheel"} \cup (AfterWheel \ AfterCells) => read.runs = <<>>
    /\ pc = "score" => Len(read.runs) < NumCells
    /\ pc = "start" => ~bad
    /\ pc \in {"start", "wheel"} => seen.wheels = {}
    /\ pc \in AfterCompare \ AfterNotes => mode # "preflight"

\* What a stage without an issue has established of the evidence it read, which
\* later edits cannot change.
EvidenceHolds ==
    ~bad /\ mode = "formal" =>
        /\ pc \in AfterAgain => CandidateOK(read.env) /\ Bound
        /\ pc \in AfterRows => read.scores = Scored(read.digest, read.cells, read.runs)
        /\ pc \in AfterAnalysis =>
             /\ Analysable(read.scores, read.static, read.env, read.runset)
             /\ read.bootstrap = Analyze(read.scores, read.static, read.env, read.runset)
        /\ pc \in AfterCandidate => seen.last = read.env.wheel
        /\ pc \in AfterNotes => read.bootstrap.supported \/ seen.notes = {"preview"}

PreviewIsSaid == ~bad /\ mode = "preview" /\ pc \in AfterNotes => seen.notes = {"preview"}

\* What the audit has read is still there when nobody works beside it.
StillThere ==
    ~bad /\ ~during =>
        /\ pc # "start" => tree.clean
        /\ pc \in AfterWheel => seen.wheels = {wheel} /\ wheel = [pkg |-> tree.pkg, sound |-> TRUE]
        /\ pc \in AfterSdist => /\ seen.sdist = sdist
                                /\ sdist = [pkg |-> tree.pkg, rest |-> tree.rest, sound |-> TRUE]
        /\ pc \in AfterReview /\ mode # "preflight" => seen.suite = suite /\ suite = tree
        /\ mode = "formal" =>
             /\ pc \in AfterEnv => read.env = eval.env
             /\ pc \in AfterStatic => read.static = eval.static
             /\ pc \in AfterBootstrap => read.bootstrap = eval.bootstrap
             /\ pc \in AfterRunSet => read.runset = eval.runset
             /\ pc \in AfterScores => read.scores = eval.scores
             /\ pc \in AfterLoad => read.lock = eval.env
             /\ pc \in AfterCheckout => <<tree.pkg, tree.rest>> = <<eval.env.pkg, eval.env.rest>>
             /\ pc \in AfterDigest => read.digest = eval.env
             /\ pc \in AfterCells => read.cells = eval.runset /\ \A c \in DOMAIN read.runs : read.runs[c] = eval.runs[c]
             /\ pc \in AfterScore => Len(read.runs) = NumCells
             /\ pc \in AfterCandidate => seen.last = wheel

\* A release that is ready meets no issue at any stage.
ReadyMeetsNoIssue == pc # "start" /\ ~during /\ Ready => ~bad

IInv == TypeOK /\ Typed /\ EvidenceHolds /\ PreviewIsSaid /\ StillThere /\ ReadyMeetsNoIssue

=============================================================================
