---------------------------- MODULE ExecutionProofs ----------------------------
(***************************************************************************)
(* Theorems about a tool that runs locally (ToolExecution), about one that  *)
(* runs over SSH (RemoteRun), and about the stages whose runner is either   *)
(* (StageRun), for every value of the constants.  All three follow the same *)
(* path: an invariant IInv that says what is known at each step, the        *)
(* initial states have it, every step keeps it, and it implies what the     *)
(* runs check.                                                              *)
(***************************************************************************)
EXTENDS MCExecution, FiniteSetTheorems, TLAPS

-------------------------------------------------------------------------------
(* The tool on this machine (LocalRunner.execute).                            *)

\* What _validate_response asks, one implication per value of guard and monitor.
LEMMA ToolConsistentMeans ==
    ASSUME NEW a \in Tool!Answer
    PROVE  Tool!Consistent(a) <=>
             /\ a.truth => a.fresh
             /\ a.guard \in {"absent", "passed"} => (a.class = "guard" => a.mon = "triggered")
             /\ a.guard = "unchecked" => a.class # "guard" /\ ~a.fresh
             /\ a.guard = "rejected" => a.class = "guard" /\ ~a.fresh /\ ~a.truth
             /\ a.mon = "absent" => (a.class = "guard" => a.guard = "rejected") /\ a.class # "resource"
             /\ a.mon = "unchecked" => ~a.fresh /\ a.class # "resource"
             /\ a.mon = "passed" => a.class \notin {"guard", "resource"}
             /\ a.mon = "triggered" => /\ a.class \in {"guard", "resource", "infrastructure"}
                                       /\ a.fresh /\ ~a.truth /\ a.guard \in {"absent", "passed"}
<1>1. a.guard \in Tool!Guards /\ a.mon \in Tool!Monitors
  BY DEF Tool!Answer
<1>2. \/ a.guard = "absent" \/ a.guard = "unchecked" \/ a.guard = "passed" \/ a.guard = "rejected"
  BY <1>1 DEF Tool!Guards
<1>3. \/ a.mon = "absent" \/ a.mon = "unchecked" \/ a.mon = "passed" \/ a.mon = "triggered"
  BY <1>1 DEF Tool!Monitors
<1> QED BY <1>2, <1>3 DEF Tool!Consistent

\* A runner that has not been called.
LEMMA ToolInit == Tool!Init => Tool!IInv
<1> SUFFICES ASSUME Tool!Init PROVE Tool!IInv
  OBVIOUS
<1>1. /\ conf \in Tool!Configuration
      /\ mon = IF conf.monitored THEN "unchecked" ELSE "absent"
      /\ tpc = "idle" /\ procs = {} /\ open = {} /\ stuck = {} /\ code = "none" /\ why = "none" /\ dir = "none"
      /\ out = 0 /\ taken = 0 /\ published = 0 /\ due = TRUE /\ expired = FALSE
  BY DEF Tool!Init
<1>2. signalled = FALSE /\ answer = Tool!NoAnswer /\ ~answer.truth
  BY DEF Tool!Init, Tool!NoAnswer
<1>3. Tool!NoAnswer \in Tool!Answer
  BY DEF Tool!NoAnswer, Tool!Answer, Tool!Classes, Tool!Guards, Tool!Monitors
<1>4. Tool!TypeOK
  <2>1. mon \in Tool!Monitors /\ why \in Tool!Classes /\ signalled \in BOOLEAN /\ answer \in Tool!Answer
    BY <1>1, <1>2, <1>3 DEF Tool!Monitors, Tool!Classes
  <2>2. /\ tpc = "idle" /\ procs = {} /\ open = {} /\ stuck = {} /\ code = "none" /\ dir = "none"
        /\ out \in 0..MaxWrites /\ taken \in 0..MaxWrites /\ published \in 0..MaxWrites
    BY <1>1, RunnerAssumption DEF Tool!KidsOK
  <2>3. conf \in Tool!Configuration
    BY <1>1
  <2>4. due \in BOOLEAN /\ expired \in BOOLEAN
    BY <1>1
  <2> QED BY Zenon, <2>1, <2>2, <2>3, <2>4 DEF Tool!TypeOK
<1>5. Tool!Control /\ Tool!LeaderKnown /\ Tool!MonitorKnown /\ Tool!AnswerKnown
  BY <1>1, <1>2 DEF Tool!Control, Tool!LeaderKnown, Tool!MonitorKnown, Tool!AnswerKnown, Tool!Before, Tool!Watching, Tool!Stopping, Tool!Disturbed
<1>6. Tool!TruthIsUndisturbed /\ Tool!PublishedIsMeasured /\ Tool!OwnAnswersAreConsistent /\ Tool!GroupIsStopped
  BY <1>1, <1>2 DEF Tool!TruthIsUndisturbed, Tool!PublishedIsMeasured, Tool!OwnAnswersAreConsistent, Tool!GroupIsStopped
<1> QED BY <1>4, <1>5, <1>6 DEF Tool!IInv

\* An answer from before the tool was started keeps the invariant: nothing ran, so
\* it claims nothing and names no fresh check.
LEMMA EarlyReply ==
    ASSUME Tool!IInv, tpc \in Tool!Before, UNCHANGED <<conf, Tool!tool, mon, why, signalled, taken, published>>,
           dir' \in {"none", "made", "listed"},
           NEW class \in {"unsupported", "input", "infrastructure", "guard"},
           NEW guard \in Tool!Guards, guard = "rejected" <=> class = "guard",
           Tool!Reply(class, FALSE, FALSE, guard, mon)
    PROVE  Tool!IInv'
<1> USE RunnerAssumption DEF Tool!KidsOK, Tool!IInv, Tool!tool
<1>1. answer' = [class |-> class, truth |-> FALSE, fresh |-> FALSE, guard |-> guard, mon |-> mon] /\ tpc' = "validate"
  BY DEF Tool!Reply
<1>2. answer' \in Tool!Answer
  BY <1>1 DEF Tool!Answer, Tool!TypeOK, Tool!Classes
<1>3. ~answer'.truth /\ ~answer'.fresh
  BY <1>1
<1>4. answer'.guard = guard /\ answer'.mon = mon /\ answer'.class = class
  BY <1>1
<1>5. mon \in {"absent", "unchecked"}
  BY DEF Tool!MonitorKnown
<1>6. Tool!Consistent(answer')
  BY <1>2, <1>3, <1>4, <1>5, ToolConsistentMeans DEF Tool!Guards
<1>7. Tool!TypeOK'
  BY <1>1, <1>2 DEF Tool!TypeOK
<1>8. Tool!Control' /\ Tool!LeaderKnown' /\ Tool!MonitorKnown' /\ Tool!AnswerKnown'
  BY <1>1, <1>3 DEF Tool!Control, Tool!LeaderKnown, Tool!MonitorKnown, Tool!AnswerKnown, Tool!Before, Tool!Watching, Tool!Stopping, Tool!Disturbed
<1>9. Tool!TruthIsUndisturbed' /\ Tool!PublishedIsMeasured' /\ Tool!OwnAnswersAreConsistent' /\ Tool!GroupIsStopped'
  BY <1>1, <1>3, <1>6 DEF Tool!Control, Tool!TruthIsUndisturbed, Tool!PublishedIsMeasured, Tool!OwnAnswersAreConsistent, Tool!GroupIsStopped
<1> QED BY <1>7, <1>8, <1>9

\* An answer from after the tool's end keeps the invariant: truth is claimed only
\* when neither the monitor nor a timeout disturbed the tool.
LEMMA LateReply ==
    ASSUME Tool!IInv, tpc = "collect", UNCHANGED <<conf, Tool!tool, dir, mon, why, signalled, published>>,
           NEW class \in Tool!Classes, NEW truth \in BOOLEAN, Tool!Reply(class, truth, TRUE, Tool!Passed, mon),
           truth => ~Tool!Disturbed /\ code \in {"zero", "nonzero"},
           taken' = taken \/ (truth /\ taken' = out),
           mon = "triggered" => class = why,
           mon # "triggered" => class \notin {"guard", "resource"},
           class = "timeout" => Tool!Disturbed
    PROVE  Tool!IInv'
<1> USE RunnerAssumption DEF Tool!KidsOK, Tool!IInv, Tool!tool
<1>1. answer' = [class |-> class, truth |-> truth, fresh |-> TRUE, guard |-> Tool!Passed, mon |-> mon] /\ tpc' = "validate"
  BY DEF Tool!Reply
<1>2. Tool!Passed \in {"absent", "passed"} /\ Tool!Passed \in Tool!Guards
  BY DEF Tool!Passed, Tool!Guards
<1>3. answer' \in Tool!Answer
  BY <1>1, <1>2 DEF Tool!Answer, Tool!TypeOK
<1>4. (answer'.truth <=> truth) /\ answer'.fresh
  BY <1>1
<1>5. answer'.guard = Tool!Passed /\ answer'.mon = mon /\ answer'.class = class
  BY <1>1
<1>6. mon # "unchecked" /\ (mon = "triggered" => why \in {"guard", "resource", "infrastructure"})
  BY DEF Tool!MonitorKnown
<1>7. Tool!Consistent(answer')
  BY <1>2, <1>3, <1>4, <1>5, <1>6, ToolConsistentMeans DEF Tool!Disturbed
<1>8. Tool!TypeOK'
  BY <1>1, <1>3 DEF Tool!TypeOK
<1>9. Tool!Control' /\ Tool!LeaderKnown' /\ Tool!MonitorKnown'
  BY <1>1 DEF Tool!Control, Tool!LeaderKnown, Tool!MonitorKnown, Tool!Before, Tool!Watching, Tool!Stopping, Tool!Disturbed
<1>10. Tool!AnswerKnown' /\ Tool!TruthIsUndisturbed'
  BY <1>1, <1>2, <1>4, <1>5 DEF Tool!AnswerKnown, Tool!TruthIsUndisturbed, Tool!Control, Tool!LeaderKnown, Tool!Disturbed
<1>11. Tool!PublishedIsMeasured' /\ Tool!OwnAnswersAreConsistent'
  BY <1>1, <1>7 DEF Tool!PublishedIsMeasured, Tool!OwnAnswersAreConsistent, Tool!Control
<1>12. Tool!GroupIsStopped'
  BY <1>1, <1>5, <1>6 DEF Tool!GroupIsStopped, Tool!AnswerKnown, Tool!MonitorKnown, Tool!Disturbed, Tool!Stopped
<1> QED BY <1>8, <1>9, <1>10, <1>11, <1>12

\* Every step of the runner, of the tool's processes and of time keeps it.
LEMMA ToolStep == Tool!IInv /\ [Tool!Next]_(Tool!vars) => Tool!IInv'
<1> SUFFICES ASSUME Tool!IInv, [Tool!Next]_(Tool!vars) PROVE Tool!IInv'
  OBVIOUS
<1> USE RunnerAssumption DEF Tool!KidsOK, Tool!IInv, Tool!TypeOK, Tool!Configuration, Tool!Control, Tool!LeaderKnown, Tool!MonitorKnown, Tool!AnswerKnown, Tool!TruthIsUndisturbed, Tool!PublishedIsMeasured,
     Tool!OwnAnswersAreConsistent, Tool!GroupIsStopped, Tool!Procs, Tool!Before, Tool!Watching, Tool!Stopping, Tool!Disturbed, Tool!Stopped, Tool!tool
<1>1. CASE Tool!Disabled
  BY <1>1, EarlyReply DEF Tool!Disabled, Tool!Unchecked, Tool!Guards
<1>2. CASE Tool!Stage
  <2>1. CASE dir' = "made" /\ tpc' = "guard" /\ UNCHANGED answer
    BY <1>2, <2>1 DEF Tool!Stage
  <2>2. CASE dir' \in {"none", "made"} /\ \E class \in {"input", "infrastructure"} : Tool!Reply(class, FALSE, FALSE, Tool!Unchecked, mon)
    BY <1>2, <2>2, EarlyReply DEF Tool!Stage, Tool!Unchecked, Tool!Guards
  <2> QED BY <1>2, <2>1, <2>2 DEF Tool!Stage
<1>3. CASE Tool!CheckGuard
  <2>1. CASE tpc' = "spawn" /\ UNCHANGED answer
    BY <1>3, <2>1 DEF Tool!CheckGuard
  <2>2. CASE Tool!Reply("guard", FALSE, FALSE, "rejected", mon) \/ Tool!Reply("infrastructure", FALSE, FALSE, "unchecked", mon)
    BY <1>3, <2>2, EarlyReply DEF Tool!CheckGuard, Tool!Guards
  <2> QED BY <1>3, <2>1, <2>2 DEF Tool!CheckGuard
<1>4. CASE Tool!Spawn
  <2>1. CASE procs' = {"leader"} /\ tpc' = (IF conf.monitored THEN "loop" ELSE "pipes") /\ UNCHANGED answer
    BY <1>4, <2>1 DEF Tool!Spawn
  <2>2. CASE Tool!Reply("infrastructure", FALSE, FALSE, Tool!Passed, mon) /\ UNCHANGED <<procs, open>>
    BY <1>4, <2>2, EarlyReply DEF Tool!Spawn, Tool!Passed, Tool!Guards
  <2> QED BY <1>4, <2>1, <2>2 DEF Tool!Spawn
<1>5. CASE Tool!Probe
  <2>1. /\ tpc = "loop" /\ conf.monitored
        /\ UNCHANGED <<conf, procs, open, code, stuck, expired, out, dir, signalled, taken, answer, published>>
    BY <1>5 DEF Tool!Probe
  <2>2. CASE mon' = "passed" /\ due' = FALSE /\ tpc' = "poll" /\ UNCHANGED why
    BY <2>1, <2>2 DEF Tool!Monitors
  <2>3. CASE mon' = "triggered" /\ tpc' = "term" /\ why' \in {"guard", "resource", "infrastructure"} /\ UNCHANGED due
    BY <2>1, <2>3 DEF Tool!Monitors, Tool!Classes
  <2> QED BY <1>5, <2>2, <2>3 DEF Tool!Probe
<1>6. CASE Tool!NotDue
  BY <1>6 DEF Tool!NotDue
<1>7. CASE Tool!Poll
  BY <1>7 DEF Tool!Poll
<1>8. CASE Tool!Deadline
  BY <1>8 DEF Tool!Deadline, Tool!Classes
<1>9. CASE Tool!CloseStreams \/ Tool!PipesClosed \/ Tool!PipesEnd
  <2>1. CASE Tool!CloseStreams
    BY <2>1 DEF Tool!CloseStreams
  <2>2. CASE Tool!PipesClosed
    BY <2>2 DEF Tool!PipesClosed, Tool!Communicated
  <2>3. CASE Tool!PipesEnd
    BY <2>3 DEF Tool!PipesEnd
  <2> QED BY <1>9, <2>1, <2>2, <2>3
<1>10. CASE Tool!PipesTimeout
  <2>1. /\ tpc = "pipes" /\ tpc' = "drain" /\ why' = "timeout"
        /\ UNCHANGED <<conf, expired, due, out, dir, mon, taken, answer, published>>
    BY <1>10 DEF Tool!PipesTimeout
  <2>2. CASE /\ procs' = procs \ {"leader"} /\ open' = open \ {"leader"} /\ UNCHANGED stuck
             /\ code' = (IF "leader" \in procs THEN "killed" ELSE code) /\ signalled' = ("leader" \in procs)
    <3>1. CASE "leader" \in procs
      BY <2>1, <2>2, <3>1 DEF Tool!Classes
    <3>2. CASE "leader" \notin procs
      BY <2>1, <2>2, <3>2 DEF Tool!Classes
    <3> QED BY <3>1, <3>2
  <2>3. CASE "leader" \in procs /\ stuck' = {"leader"} /\ signalled' = TRUE /\ UNCHANGED <<procs, open, code>>
    BY <2>1, <2>3 DEF Tool!Classes
  <2> QED BY <1>10, <2>2, <2>3 DEF Tool!PipesTimeout
<1>11. CASE Tool!Terminate \/ Tool!TaskKill
  <2>1. CASE Tool!Terminate
    BY <2>1 DEF Tool!Terminate, Tool!Dies, Tool!Group
  <2>2. CASE Tool!TaskKill
    BY <2>2 DEF Tool!TaskKill, Tool!Dies
  <2> QED BY <1>11, <2>1, <2>2
<1>12. CASE Tool!Grace
  BY <1>12 DEF Tool!Grace
<1>13. CASE Tool!Kill
  BY <1>13 DEF Tool!Kill, Tool!Dies, Tool!Group
<1>14. CASE Tool!Reap
  BY <1>14 DEF Tool!Reap
<1>15. CASE Tool!Collect
  BY <1>15, LateReply DEF Tool!Collect, Tool!Classes
<1>16. CASE Tool!Validate
  BY <1>16 DEF Tool!Validate
<1>17. CASE Tool!Publish
  BY <1>17 DEF Tool!Publish, Tool!Unchanged
<1>18. CASE Tool!ListDirectory
  BY <1>18 DEF Tool!ListDirectory
<1>19. CASE Tool!RemoveDirectory
  BY <1>19 DEF Tool!RemoveDirectory
<1>20. CASE Tool!Fork
  BY <1>20 DEF Tool!Fork
<1>21. CASE Tool!Exit
  BY <1>21 DEF Tool!Exit
<1>22. CASE Tool!Write
  BY <1>22 DEF Tool!Write
<1>23. CASE Tool!Expire
  BY <1>23 DEF Tool!Expire
<1>24. CASE Tool!ProbeDue
  BY <1>24 DEF Tool!ProbeDue
<1>25. CASE UNCHANGED Tool!vars
  BY <1>25 DEF Tool!vars
<1> QED
  BY <1>1, <1>2, <1>3, <1>4, <1>5, <1>6, <1>7, <1>8, <1>9, <1>10, <1>11, <1>12, <1>13, <1>14, <1>15, <1>16, <1>17,
     <1>18, <1>19, <1>20, <1>21, <1>22, <1>23, <1>24, <1>25 DEF Tool!Next, Tool!RunnerStep

\* It holds in every reachable state, whatever processes the tool forks.
THEOREM ToolInvariant == Tool!Spec => []Tool!IInv
  BY ToolInit, ToolStep, PTL DEF Tool!Spec

\* LocalRunner.execute tells the truth: see ToolAnswerIsTrue.
THEOREM ToolAnswersAreTrue == Tool!Spec => []Tool!ToolAnswerIsTrue
<1>1. Tool!IInv => Tool!ToolAnswerIsTrue
  BY DEF Tool!IInv, Tool!ToolAnswerIsTrue
<1> QED BY <1>1, ToolInvariant, PTL

-------------------------------------------------------------------------------
(* The tool on another machine (SSHRunner.execute).                           *)

\* What is served again was an attempt.
LEMMA ReplayedIsAnAttempt ==
    ASSUME Remote!TypeOK
    PROVE  \A b \in Remote!Attempts : replayed[b] # 0 => replayed[b] \in Remote!Attempts
<1>1. replayed \in [Remote!Attempts -> 0..MaxAttempts]
  BY DEF Remote!TypeOK
<1>2. \A x \in 0..MaxAttempts : x # 0 => x \in Remote!Attempts
  BY RunnerAssumption DEF Remote!Attempts, Remote!MaxAttemptsOK
<1> QED
  BY <1>1, <1>2

\* What _validate_response asks, one implication per value of guard and monitor.
LEMMA RemoteConsistentMeans ==
    ASSUME NEW r \in Remote!Answer
    PROVE  Remote!Consistent(r) <=>
             /\ r.truth => r.fresh
             /\ r.guard \in {"absent", "passed"} => (r.class = "guard" => r.mon = "triggered")
             /\ r.guard = "unchecked" => r.class # "guard" /\ ~r.fresh
             /\ r.guard = "rejected" => r.class = "guard" /\ ~r.fresh /\ ~r.truth
             /\ r.mon = "absent" => (r.class = "guard" => r.guard = "rejected") /\ r.class # "resource"
             /\ r.mon = "unchecked" => ~r.fresh /\ r.class # "resource"
             /\ r.mon = "passed" => r.class \notin {"guard", "resource"}
             /\ r.mon = "triggered" => /\ r.class \in {"guard", "resource", "infrastructure"}
                                       /\ r.fresh /\ ~r.truth /\ r.guard \in {"absent", "passed"}
<1>1. r.guard \in Remote!Guards /\ r.mon \in Remote!Monitors
  BY DEF Remote!Answer
<1>2. \/ r.guard = "absent" \/ r.guard = "unchecked" \/ r.guard = "passed" \/ r.guard = "rejected"
  BY <1>1 DEF Remote!Guards
<1>3. \/ r.mon = "absent" \/ r.mon = "unchecked" \/ r.mon = "passed" \/ r.mon = "triggered"
  BY <1>1 DEF Remote!Monitors
<1> QED BY <1>2, <1>3 DEF Remote!Consistent

\* mkdtemp finds a name: an attempt that has no directory yet leaves one of the
\* MaxAttempts names unused, since each name in use belongs to another attempt.
LEMMA SomePlaceIsFree ==
    ASSUME Remote!TypeOK, Remote!DirectoriesAreOwn, NEW a \in Remote!Attempts, rem[a] = "stage"
    PROVE  Remote!Place(a) \in Remote!Attempts /\ Remote!Place(a) \notin rdirs
<1>1. ASSUME \A d \in Remote!Attempts : d \in rdirs PROVE FALSE
  <2> DEFINE owner == [d \in Remote!Attempts |-> CHOOSE b \in Remote!Attempts : Remote!Owns(b) /\ place[b] = d]
             Others == Remote!Attempts \ {a}
  <2>1. \A d \in Remote!Attempts : owner[d] \in Others /\ place[owner[d]] = d
    BY <1>1 DEF Remote!DirectoriesAreOwn, Remote!Owns, Remote!Working
  <2>2. owner \in [Remote!Attempts -> Others]
    BY <2>1
  <2>3. IsFiniteSet(Remote!Attempts) /\ Cardinality(Remote!Attempts) = MaxAttempts
    BY FS_Interval, RunnerAssumption DEF Remote!Attempts, Remote!MaxAttemptsOK
  <2>4. IsFiniteSet(Others) /\ Cardinality(Others) < Cardinality(Remote!Attempts)
    <3>1. IsFiniteSet(Others) /\ Cardinality(Others) = Cardinality(Remote!Attempts) - 1
      BY <2>3, FS_RemoveElement
    <3> QED BY <3>1, <2>3, RunnerAssumption DEF Remote!MaxAttemptsOK
  <2>5. \E x, y \in Remote!Attempts : x # y /\ owner[x] = owner[y]
    <3> HIDE DEF owner, Others
    <3> QED BY <2>2, <2>3, <2>4, FS_PigeonHole
  <2> QED BY <2>1, <2>5
<1> QED BY <1>1 DEF Remote!Place, Remote!FreshPlace

\* A response line reaches the caller or is lost, and the executor goes on to its
\* finally clause in both cases.
LEMMA EmitMeans ==
    ASSUME Remote!TypeOK, NEW a \in Remote!Attempts, NEW m \in Remote!Msg, Remote!Emit(a, m)
    PROVE  /\ msg' \in [Remote!Attempts -> Remote!Msg] /\ rem' = [rem EXCEPT ![a] = "clean"]
           /\ \A b \in Remote!Attempts \ {a} : msg'[b] = msg[b] /\ rem'[b] = rem[b]
           /\ rem'[a] = "clean"
           /\ \/ msg'[a] = msg[a]
              \/ /\ msg'[a].kind = m.kind /\ msg'[a].by = m.by /\ msg'[a].class = m.class
                 /\ (msg'[a].zero <=> m.zero) /\ (msg'[a].checked <=> checked[a])
<1> DEFINE n == [m EXCEPT !.checked = checked[a]]
<1>1. n \in Remote!Msg /\ n.kind = m.kind /\ n.by = m.by /\ n.class = m.class /\ n.zero = m.zero /\ n.checked = checked[a]
  BY DEF Remote!Msg, Remote!TypeOK
<1>2. msg' = [msg EXCEPT ![a] = n] \/ msg' = msg
  BY DEF Remote!Emit
<1> HIDE DEF n
<1> QED BY <1>1, <1>2 DEF Remote!Emit, Remote!TypeOK

\* A response that carries nothing but its kind.
LEMMA SayMeans ==
    ASSUME NEW kind \in Remote!Kinds
    PROVE  Remote!Say(kind) \in Remote!Msg /\ Remote!Say(kind).kind = kind /\ Remote!Say(kind).by = 0 /\ Remote!Say(kind).class = "none"
<1>1. Remote!NoMsg \in Remote!Msg /\ Remote!NoMsg.by = 0 /\ Remote!NoMsg.class = "none"
  BY RunnerAssumption DEF Remote!NoMsg, Remote!Msg, Remote!MaxAttemptsOK
<1> QED BY <1>1 DEF Remote!Say, Remote!Msg

\* No call, no connection and an empty remote file system.
LEMMA RemoteInit == Remote!Init => Remote!IInv
<1> SUFFICES ASSUME Remote!Init PROVE Remote!IInv
  OBVIOUS
<1>1. Remote!NoAnswer \in Remote!Answer /\ Remote!NoMsg \in Remote!Msg /\ ~Remote!NoAnswer.truth /\ ~Remote!NoAnswer.fresh /\ Remote!NoMsg.kind = "none" /\ Remote!NoMsg.by = 0
  BY RunnerAssumption DEF Remote!NoAnswer, Remote!Answer, Remote!Classes, Remote!Guards, Remote!Monitors, Remote!NoMsg, Remote!Msg, Remote!MaxAttemptsOK
<1>2. Remote!Consistent(Remote!NoAnswer)
  BY <1>1, RemoteConsistentMeans DEF Remote!NoAnswer
<1>3. /\ rconf \in Configurations /\ attempt = 0 /\ lpc = "idle" /\ hung = {} /\ rdirs = {}
      /\ answers \in [Remote!Attempts -> Remote!Answer] /\ got \in [Remote!Attempts -> {0}] /\ conn \in [Remote!Attempts -> {"none"}]
      /\ msg \in [Remote!Attempts -> Remote!Msg] /\ rem \in [Remote!Attempts -> {"none"}] /\ passed \in [Remote!Attempts -> {{}}]
      /\ rdue \in [Remote!Attempts -> {TRUE}] /\ checked \in [Remote!Attempts -> {FALSE}] /\ place \in [Remote!Attempts -> {0}]
      /\ tool \in [Remote!Attempts -> {"none"}] /\ rexpired \in [Remote!Attempts -> {FALSE}] /\ wrote \in [Remote!Attempts -> {0}]
      /\ replayed \in [Remote!Attempts -> {0}]
  BY <1>1 DEF Remote!Init, Remote!All
<1>4. \A a \in Remote!Attempts : answers[a] = Remote!NoAnswer /\ msg[a] = Remote!NoMsg
  BY DEF Remote!Init, Remote!All
<1>5. Remote!TypeOK
  <2> HIDE DEF Remote!Attempts
  <2>1. 0 \in 0..MaxAttempts
    BY RunnerAssumption DEF Remote!MaxAttemptsOK
  <2>2. /\ got \in [Remote!Attempts -> 0..MaxAttempts] /\ place \in [Remote!Attempts -> 0..MaxAttempts]
        /\ wrote \in [Remote!Attempts -> 0..MaxAttempts] /\ replayed \in [Remote!Attempts -> 0..MaxAttempts]
    BY <1>3, <2>1
  <2>3. passed \in [Remote!Attempts -> SUBSET Remote!Phases] /\ attempt \in 0..MaxAttempts
    BY <1>3, <2>1
  <2>4. rdue \in [Remote!Attempts -> BOOLEAN] /\ checked \in [Remote!Attempts -> BOOLEAN] /\ rexpired \in [Remote!Attempts -> BOOLEAN]
    BY <1>3
  <2> QED BY <1>3, <2>2, <2>3, <2>4 DEF Remote!TypeOK
<1>6. Remote!CallsInOrder /\ Remote!ExecutorInOrder /\ Remote!DirectoriesAreOwn
  BY <1>3, <1>4 DEF Remote!CallsInOrder, Remote!ExecutorInOrder, Remote!DirectoriesAreOwn, Remote!Owns, Remote!Working, Remote!Unstarted
<1>7. Remote!MessagesAreTrue /\ Remote!AnswersStand
  BY <1>1, <1>2, <1>3, <1>4, RunnerAssumption DEF Remote!MessagesAreTrue, Remote!AnswersStand, Remote!FreshKinds, Remote!Attempts, Remote!MaxAttemptsOK
<1>8. Remote!TruthIsEarned /\ Remote!OutputsAreOwn /\ Remote!NothingIsLaundered
  BY <1>1, <1>3, <1>4 DEF Remote!TruthIsEarned, Remote!OutputsAreOwn, Remote!NothingIsLaundered
<1> QED BY <1>5, <1>6, <1>7, <1>8 DEF Remote!IInv

\* A step of a working executor that stays among the working ones, or leaves for its
\* finally clause, disturbs neither the answers nor the directories.
LEMMA ExecutorStep ==
    ASSUME Remote!IInv, NEW a \in Remote!Attempts, rem[a] \in Remote!Working, UNCHANGED <<rconf, Remote!local, conn, place, rdirs, wrote, replayed>>,
           DOMAIN rem' = Remote!Attempts, rem'[a] \in Remote!Working \cup {"clean"},
           \A b \in Remote!Attempts \ {a} : rem'[b] = rem[b] /\ tool'[b] = tool[b],
           passed[a] \subseteq passed'[a], \A b \in Remote!Attempts \ {a} : passed'[b] = passed[b]
    PROVE  /\ Remote!CallsInOrder' /\ Remote!DirectoriesAreOwn' /\ Remote!AnswersStand'
           /\ Remote!TruthIsEarned' /\ Remote!OutputsAreOwn' /\ Remote!NothingIsLaundered'
<1> USE DEF Remote!IInv
<1>0. attempt' = attempt /\ lpc' = lpc /\ answers' = answers /\ got' = got
  BY DEF Remote!local
<1>1. Remote!CallsInOrder'
  BY <1>0 DEF Remote!CallsInOrder, Remote!Working
<1>2. Remote!DirectoriesAreOwn'
  <2>1. \A b \in Remote!Attempts : Remote!Owns(b)' <=> Remote!Owns(b)
    BY DEF Remote!Owns, Remote!Working
  <2>2. \A b \in Remote!Attempts : rem'[b] \in Remote!Unstarted => rem[b] \in Remote!Unstarted
    BY DEF Remote!Unstarted, Remote!Working
  <2>3. \A b \in Remote!Attempts : rem'[b] \in Remote!Working => rem[b] \in Remote!Working
    OBVIOUS
  <2> QED BY <2>1, <2>2, <2>3 DEF Remote!DirectoriesAreOwn
<1>3. \A b \in Remote!Attempts : answers[b].truth => b # a
  BY DEF Remote!AnswersStand, Remote!Working
<1>4. Remote!AnswersStand'
  BY <1>0, <1>3 DEF Remote!AnswersStand
<1>5. Remote!TruthIsEarned'
  BY <1>0, <1>3 DEF Remote!TruthIsEarned
<1>6. Remote!OutputsAreOwn'
  BY <1>0 DEF Remote!OutputsAreOwn
<1>7. Remote!NothingIsLaundered'
  <2>1. \A b \in Remote!Attempts : replayed[b] # 0 => replayed[b] \in Remote!Attempts
    BY ReplayedIsAnAttempt
  <2> QED BY <1>0, <1>3, <2>1 DEF Remote!NothingIsLaundered
<1> QED BY <1>1, <1>2, <1>4, <1>5, <1>6, <1>7

\* The last word of a working executor keeps the invariant if it is true of its tool
\* and of what the executor has checked.
LEMMA Emitted ==
    ASSUME Remote!IInv, NEW a \in Remote!Attempts, rem[a] \in Remote!Working, NEW m \in Remote!Msg, Remote!Emit(a, m),
           UNCHANGED <<rconf, Remote!local, conn, passed, rdue, place, rexpired, hung, rdirs, wrote, replayed>>,
           tool' \in [Remote!Attempts -> {"none", "running", "zero", "nonzero", "stopped"}], tool'[a] # "running",
           checked' \in [Remote!Attempts -> BOOLEAN],
           \A b \in Remote!Attempts \ {a} : tool'[b] = tool[b] /\ checked'[b] = checked[b],
           m.by \in {0, a},
           m.kind \in Remote!FreshKinds => passed[a] = Remote!Phases,
           m.kind \in {"tool", "timeout"} /\ rconf.monitored => checked[a],
           m.kind = "tool" => tool'[a] \in {"zero", "nonzero"} /\ (m.zero <=> tool'[a] = "zero"),
           m.kind = "runtime_guard" => m.class \in {"guard", "resource"}
    PROVE  Remote!IInv'
<1> USE DEF Remote!IInv
<1>1. /\ msg' \in [Remote!Attempts -> Remote!Msg] /\ rem' = [rem EXCEPT ![a] = "clean"]
      /\ \A b \in Remote!Attempts \ {a} : msg'[b] = msg[b] /\ rem'[b] = rem[b]
      /\ rem'[a] = "clean"
      /\ \/ msg'[a] = msg[a]
         \/ /\ msg'[a].kind = m.kind /\ msg'[a].by = m.by /\ msg'[a].class = m.class
            /\ (msg'[a].zero <=> m.zero) /\ (msg'[a].checked <=> checked[a])
  BY EmitMeans
<1>2. rem' \in [Remote!Attempts -> {"none", "stage", "attest", "guard", "spawn", "loop", "collect", "clean", "end", "dead"}]
  BY <1>1 DEF Remote!TypeOK
<1>3. /\ Remote!CallsInOrder' /\ Remote!DirectoriesAreOwn' /\ Remote!AnswersStand'
      /\ Remote!TruthIsEarned' /\ Remote!OutputsAreOwn' /\ Remote!NothingIsLaundered'
  BY <1>1, <1>2, ExecutorStep
<1>4. Remote!TypeOK'
  BY <1>1, <1>2 DEF Remote!TypeOK, Remote!local
<1>5. Remote!ExecutorInOrder'
  BY <1>1 DEF Remote!ExecutorInOrder, Remote!Unstarted
<1>6. Remote!MessagesAreTrue'
  BY <1>1 DEF Remote!MessagesAreTrue, Remote!Working, Remote!FreshKinds
<1> QED BY <1>3, <1>4, <1>5, <1>6

\* A phase that was passed keeps the invariant: phases are passed in their order.
LEMMA Entered ==
    ASSUME Remote!IInv, NEW a \in Remote!Attempts, rem[a] \in {"attest", "guard", "spawn"},
           NEW phase \in Remote!Phases, NEW next \in {"guard", "spawn", "loop"}, Remote!Enter(a, phase, next),
           UNCHANGED <<rconf, Remote!local, conn, rdue, checked, place, rexpired, hung, rdirs, wrote, replayed>>,
           \/ rem[a] = "attest" /\ phase = "attested" /\ next = "guard" /\ tool' = tool
           \/ rem[a] = "guard" /\ phase = "guarded" /\ next = "spawn" /\ tool' = tool
           \/ rem[a] = "spawn" /\ phase = "started" /\ next = "loop" /\ tool' = [tool EXCEPT ![a] = "running"]
    PROVE  Remote!IInv'
<1> USE DEF Remote!IInv
<1>1. /\ passed' = [passed EXCEPT ![a] = passed[a] \cup {phase}]
      /\ rem' = [rem EXCEPT ![a] = next] /\ msg' = msg
  BY DEF Remote!Enter
<1>2. /\ rem' \in [Remote!Attempts -> {"none", "stage", "attest", "guard", "spawn", "loop", "collect", "clean", "end", "dead"}]
      /\ passed' \in [Remote!Attempts -> SUBSET Remote!Phases]
      /\ rem'[a] = next /\ passed'[a] = passed[a] \cup {phase}
      /\ \A b \in Remote!Attempts \ {a} : rem'[b] = rem[b] /\ passed'[b] = passed[b] /\ tool'[b] = tool[b]
  BY <1>1 DEF Remote!TypeOK
<1>3. /\ Remote!CallsInOrder' /\ Remote!DirectoriesAreOwn' /\ Remote!AnswersStand'
      /\ Remote!TruthIsEarned' /\ Remote!OutputsAreOwn' /\ Remote!NothingIsLaundered'
  BY <1>2, ExecutorStep DEF Remote!Working
<1>4. Remote!TypeOK'
  BY <1>1, <1>2 DEF Remote!TypeOK, Remote!local
<1>5. Remote!ExecutorInOrder'
  BY <1>1, <1>2 DEF Remote!ExecutorInOrder, Remote!Unstarted, Remote!Phases
<1>6. Remote!MessagesAreTrue'
  BY <1>1, <1>2 DEF Remote!MessagesAreTrue, Remote!FreshKinds
<1> QED BY <1>3, <1>4, <1>5, <1>6

\* A refusal claims nothing, so it is always true.
LEMMA RefusalIsEmitted ==
    ASSUME Remote!IInv, NEW a \in Remote!Attempts, rem[a] \in Remote!Working, tool[a] # "running",
           NEW kind \in {"attestation", "input", "infrastructure", "resource_guard"}, Remote!Emit(a, Remote!Say(kind)),
           UNCHANGED <<rconf, Remote!local, conn, passed, rdue, checked, place, tool, rexpired, hung, rdirs, wrote, replayed>>
    PROVE  Remote!IInv'
<1>1. kind \in Remote!Kinds /\ kind \notin Remote!FreshKinds
  BY DEF Remote!Kinds, Remote!FreshKinds
<1>2. Remote!Say(kind) \in Remote!Msg /\ Remote!Say(kind).kind = kind /\ Remote!Say(kind).by = 0
  BY <1>1, SayMeans
<1>3. tool \in [Remote!Attempts -> {"none", "running", "zero", "nonzero", "stopped"}] /\ checked \in [Remote!Attempts -> BOOLEAN]
  BY DEF Remote!IInv, Remote!TypeOK
<1> QED BY <1>1, <1>2, <1>3, Emitted DEF Remote!FreshKinds

\* The attestation of the environment, passed, refused or failed.
LEMMA AttestIInv == ASSUME Remote!IInv, NEW a \in Remote!Attempts, Remote!RemoteAttest(a) PROVE Remote!IInv'
<1>1. rem[a] \in Remote!Working /\ tool[a] # "running"
  BY DEF Remote!RemoteAttest, Remote!IInv, Remote!TypeOK, Remote!Working
<1>2. CASE Remote!Enter(a, "attested", "guard")
  BY <1>2, Entered DEF Remote!RemoteAttest, Remote!Phases
<1>3. CASE Remote!Refuse(a, {"attestation", "infrastructure"})
  BY <1>1, <1>3, RefusalIsEmitted DEF Remote!RemoteAttest, Remote!Refuse
<1> QED BY <1>2, <1>3 DEF Remote!RemoteAttest

\* The resource guard, absent, passed, refused or failed.
LEMMA GuardIInv == ASSUME Remote!IInv, NEW a \in Remote!Attempts, Remote!RemoteGuard(a) PROVE Remote!IInv'
<1>1. rem[a] \in Remote!Working /\ tool[a] # "running"
  BY DEF Remote!RemoteGuard, Remote!IInv, Remote!TypeOK, Remote!Working
<1>2. CASE Remote!Enter(a, "guarded", "spawn")
  BY <1>2, Entered DEF Remote!RemoteGuard, Remote!Phases
<1>3. CASE Remote!Refuse(a, {"resource_guard", "infrastructure"})
  BY <1>1, <1>3, RefusalIsEmitted DEF Remote!RemoteGuard, Remote!Refuse
<1> QED BY <1>2, <1>3 DEF Remote!RemoteGuard

\* The tool is started, after everything else was checked.
LEMMA SpawnIInv == ASSUME Remote!IInv, NEW a \in Remote!Attempts, Remote!RemoteSpawn(a) PROVE Remote!IInv'
<1>1. rem[a] \in Remote!Working /\ tool[a] # "running"
  BY DEF Remote!RemoteSpawn, Remote!IInv, Remote!TypeOK, Remote!Working
<1>2. CASE Remote!Enter(a, "started", "loop") /\ tool' = [tool EXCEPT ![a] = "running"]
  BY <1>2, Entered DEF Remote!RemoteSpawn, Remote!Phases
<1>3. CASE Remote!Refuse(a, {"infrastructure"}) /\ UNCHANGED tool
  BY <1>1, <1>3, RefusalIsEmitted DEF Remote!RemoteSpawn, Remote!Refuse
<1> QED BY <1>2, <1>3 DEF Remote!RemoteSpawn

\* stop_group leaves no running tool, and no other executor's tool is touched.
LEMMA StopMeans ==
    ASSUME Remote!TypeOK, NEW a \in Remote!Attempts, Remote!Stop(a)
    PROVE  /\ tool' \in [Remote!Attempts -> {"none", "running", "zero", "nonzero", "stopped"}] /\ tool'[a] # "running"
           /\ \A b \in Remote!Attempts \ {a} : tool'[b] = tool[b]
  BY DEF Remote!Stop, Remote!TypeOK

\* A monitor probe that passes, or that stops the tool.
LEMMA ProbeIInv == ASSUME Remote!IInv, NEW a \in Remote!Attempts, Remote!RemoteProbe(a) PROVE Remote!IInv'
<1> USE DEF Remote!IInv
<1>1. /\ rem[a] = "loop" /\ rem[a] \in Remote!Working /\ passed[a] = Remote!Phases /\ rconf.monitored /\ Remote!TypeOK
      /\ checked' \in [Remote!Attempts -> BOOLEAN] /\ checked'[a]
      /\ \A b \in Remote!Attempts \ {a} : checked'[b] = checked[b]
  BY DEF Remote!RemoteProbe, Remote!TypeOK, Remote!Working, Remote!ExecutorInOrder
<1>2. CASE rdue' = [rdue EXCEPT ![a] = FALSE] /\ UNCHANGED <<rem, msg, tool>>
  <2>1. Remote!TypeOK'
    BY <1>1, <1>2 DEF Remote!RemoteProbe, Remote!TypeOK, Remote!local
  <2>2. /\ Remote!CallsInOrder' /\ Remote!DirectoriesAreOwn' /\ Remote!AnswersStand'
        /\ Remote!TruthIsEarned' /\ Remote!OutputsAreOwn' /\ Remote!NothingIsLaundered'
    BY <1>1, <1>2, ExecutorStep DEF Remote!RemoteProbe, Remote!TypeOK
  <2>3. Remote!ExecutorInOrder' /\ Remote!MessagesAreTrue'
    BY <1>1, <1>2 DEF Remote!RemoteProbe, Remote!ExecutorInOrder, Remote!MessagesAreTrue, Remote!TypeOK, Remote!Unstarted
  <2> QED BY <2>1, <2>2, <2>3
<1>3. CASE Remote!Stop(a) /\ UNCHANGED rdue
  <2> DEFINE Verdict(c) == [Remote!Say("runtime_guard") EXCEPT !.class = c]
  <2>1. /\ tool' \in [Remote!Attempts -> {"none", "running", "zero", "nonzero", "stopped"}] /\ tool'[a] # "running"
        /\ \A b \in Remote!Attempts \ {a} : tool'[b] = tool[b]
    BY <1>1, <1>3, StopMeans
  <2>2. \A c \in {"guard", "resource"} : Verdict(c) \in Remote!Msg /\ Verdict(c).kind = "runtime_guard" /\ Verdict(c).by = 0 /\ Verdict(c).class = c
    BY SayMeans DEF Remote!Kinds, Remote!Msg
  <2>3. /\ Remote!Say("runtime_guard_infrastructure") \in Remote!Msg /\ Remote!Say("runtime_guard_infrastructure").by = 0
        /\ Remote!Say("runtime_guard_infrastructure").kind = "runtime_guard_infrastructure"
    BY SayMeans DEF Remote!Kinds
  <2>4. CASE Remote!Emit(a, Remote!Say("runtime_guard_infrastructure"))
    BY <1>1, <1>3, <2>1, <2>3, <2>4, Emitted DEF Remote!RemoteProbe
  <2>5. ASSUME NEW c \in {"guard", "resource"}, Remote!Emit(a, Verdict(c)) PROVE Remote!IInv'
    <3>1. Verdict(c) \in Remote!Msg /\ Verdict(c).kind = "runtime_guard" /\ Verdict(c).by = 0 /\ Verdict(c).class = c
      BY <2>2, <2>5
    <3> HIDE DEF Verdict
    <3> QED BY <1>1, <1>3, <2>1, <2>5, <3>1, Emitted DEF Remote!RemoteProbe
  <2> QED BY <1>1, <1>2, <1>3, <2>4, <2>5 DEF Remote!RemoteProbe
<1> QED BY <1>2, <1>3 DEF Remote!RemoteProbe

\* The tool has ended, or its time has.
LEMMA PollIInv == ASSUME Remote!IInv, NEW a \in Remote!Attempts, Remote!RemotePoll(a) PROVE Remote!IInv'
<1> USE DEF Remote!IInv
<1>1. /\ rem[a] = "loop" /\ rem[a] \in Remote!Working /\ passed[a] = Remote!Phases /\ Remote!TypeOK /\ (rconf.monitored => checked[a])
      /\ checked \in [Remote!Attempts -> BOOLEAN]
  BY DEF Remote!RemotePoll, Remote!TypeOK, Remote!Working, Remote!ExecutorInOrder
<1>2. CASE tool[a] \in {"zero", "nonzero"} /\ rem' = [rem EXCEPT ![a] = "collect"] /\ UNCHANGED <<msg, tool>>
  <2>1. Remote!TypeOK'
    BY <1>1, <1>2 DEF Remote!RemotePoll, Remote!TypeOK, Remote!local
  <2>2. /\ Remote!CallsInOrder' /\ Remote!DirectoriesAreOwn' /\ Remote!AnswersStand'
        /\ Remote!TruthIsEarned' /\ Remote!OutputsAreOwn' /\ Remote!NothingIsLaundered'
    BY <1>1, <1>2, ExecutorStep DEF Remote!RemotePoll, Remote!TypeOK, Remote!Working
  <2>3. Remote!ExecutorInOrder' /\ Remote!MessagesAreTrue'
    BY <1>1, <1>2 DEF Remote!RemotePoll, Remote!ExecutorInOrder, Remote!MessagesAreTrue, Remote!TypeOK, Remote!Unstarted
  <2> QED BY <2>1, <2>2, <2>3
<1>3. CASE Remote!Stop(a) /\ Remote!Emit(a, Remote!Say("timeout"))
  <2>1. /\ tool' \in [Remote!Attempts -> {"none", "running", "zero", "nonzero", "stopped"}] /\ tool'[a] # "running"
        /\ \A b \in Remote!Attempts \ {a} : tool'[b] = tool[b]
    BY <1>1, <1>3, StopMeans
  <2>2. Remote!Say("timeout") \in Remote!Msg /\ Remote!Say("timeout").by = 0 /\ Remote!Say("timeout").kind = "timeout"
    BY SayMeans DEF Remote!Kinds
  <2> QED BY <1>1, <1>3, <2>1, <2>2, Emitted DEF Remote!RemotePoll
<1> QED BY <1>2, <1>3 DEF Remote!RemotePoll

\* The output is read from the executor's own directory.
LEMMA CollectIInv == ASSUME Remote!IInv, NEW a \in Remote!Attempts, Remote!RemoteCollect(a) PROVE Remote!IInv'
<1> USE DEF Remote!IInv
<1>1. /\ rem[a] = "collect" /\ rem[a] \in Remote!Working /\ passed[a] = Remote!Phases /\ Remote!TypeOK /\ (rconf.monitored => checked[a])
      /\ checked \in [Remote!Attempts -> BOOLEAN] /\ tool[a] \in {"zero", "nonzero"}
      /\ tool \in [Remote!Attempts -> {"none", "running", "zero", "nonzero", "stopped"}]
  BY DEF Remote!RemoteCollect, Remote!TypeOK, Remote!Working, Remote!ExecutorInOrder
<1>2. place[a] \in Remote!Attempts /\ wrote[place[a]] \in {0, a}
  BY <1>1, RunnerAssumption DEF Remote!DirectoriesAreOwn, Remote!Owns, Remote!TypeOK, Remote!Attempts, Remote!MaxAttemptsOK
<1> DEFINE by == IF tool[a] = "zero" THEN wrote[place[a]] ELSE 0
           Response == [Remote!Say("tool") EXCEPT !.zero = (tool[a] = "zero"), !.by = by]
<1>3. by \in {0, a} /\ by \in 0..MaxAttempts
  BY <1>2, RunnerAssumption DEF Remote!TypeOK, Remote!MaxAttemptsOK
<1>4. Response \in Remote!Msg /\ Response.kind = "tool" /\ Response.by = by /\ (Response.zero <=> tool[a] = "zero")
  <2> HIDE DEF by
  <2>1. Remote!Say("tool") \in Remote!Msg /\ Remote!Say("tool").kind = "tool"
    BY SayMeans DEF Remote!Kinds
  <2> QED BY <1>3, <2>1 DEF Remote!Msg
<1>5. CASE Remote!Emit(a, Response)
  <2> HIDE DEF Response, by
  <2> QED BY <1>1, <1>3, <1>4, <1>5, Emitted DEF Remote!RemoteCollect
<1>6. CASE Remote!Emit(a, Remote!Say("input"))
  BY <1>1, <1>6, RefusalIsEmitted DEF Remote!RemoteCollect
<1> QED BY <1>5, <1>6 DEF Remote!RemoteCollect

\* The directory is made under a name that nobody has, and the inputs are checked.
LEMMA StageIInv == ASSUME Remote!IInv, NEW a \in Remote!Attempts, Remote!RemoteStage(a) PROVE Remote!IInv'
<1> USE DEF Remote!IInv
<1>1. /\ rem[a] = "stage" /\ place[a] = 0 /\ passed[a] = {} /\ rdue[a] /\ tool[a] # "running" /\ Remote!TypeOK
      /\ ~answers[a].truth /\ msg[a].kind = "none"
  BY DEF Remote!RemoteStage, Remote!TypeOK, Remote!ExecutorInOrder, Remote!DirectoriesAreOwn, Remote!Unstarted, Remote!AnswersStand, Remote!MessagesAreTrue
<1>2. UNCHANGED <<rconf, attempt, lpc, answers, got, conn, rdue, checked, tool, rexpired, hung, replayed>>
  BY DEF Remote!RemoteStage, Remote!local
<1>3. /\ place' = place /\ rdirs' = rdirs /\ wrote' = wrote
      \/ /\ place' = [place EXCEPT ![a] = Remote!Place(a)] /\ rdirs' = rdirs \cup {Remote!Place(a)}
         /\ wrote' = [wrote EXCEPT ![Remote!Place(a)] = IF Remote!Place(a) \in rdirs THEN @ ELSE 0]
  BY DEF Remote!RemoteStage
<1>4. Remote!Place(a) \in Remote!Attempts /\ Remote!Place(a) \notin rdirs
  BY <1>1, SomePlaceIsFree
<1>5. \/ /\ rem' = [rem EXCEPT ![a] = "attest"] /\ passed' = [passed EXCEPT ![a] = {"inputs"}] /\ msg' = msg
         /\ place' = [place EXCEPT ![a] = Remote!Place(a)]
      \/ /\ rem' = [rem EXCEPT ![a] = "clean"] /\ passed' = passed /\ msg' \in [Remote!Attempts -> Remote!Msg]
         /\ \A b \in Remote!Attempts \ {a} : msg'[b] = msg[b]
         /\ (msg'[a] = msg[a] \/ (msg'[a].kind \in {"input", "infrastructure"} /\ msg'[a].by = 0))
  <2>1. CASE Remote!Enter(a, "inputs", "attest") /\ place' = [place EXCEPT ![a] = Remote!Place(a)]
    BY <1>1, <2>1 DEF Remote!Enter, Remote!TypeOK
  <2>2. ASSUME NEW k \in {"input", "infrastructure"}, Remote!Emit(a, Remote!Say(k)), UNCHANGED passed
        PROVE  /\ rem' = [rem EXCEPT ![a] = "clean"] /\ passed' = passed /\ msg' \in [Remote!Attempts -> Remote!Msg]
               /\ \A b \in Remote!Attempts \ {a} : msg'[b] = msg[b]
               /\ (msg'[a] = msg[a] \/ (msg'[a].kind \in {"input", "infrastructure"} /\ msg'[a].by = 0))
    <3>1. Remote!Say(k) \in Remote!Msg /\ Remote!Say(k).kind = k /\ Remote!Say(k).by = 0
      BY SayMeans DEF Remote!Kinds
    <3>2. /\ msg' \in [Remote!Attempts -> Remote!Msg] /\ rem' = [rem EXCEPT ![a] = "clean"]
          /\ \A b \in Remote!Attempts \ {a} : msg'[b] = msg[b]
          /\ \/ msg'[a] = msg[a]
             \/ msg'[a].kind = Remote!Say(k).kind /\ msg'[a].by = Remote!Say(k).by
      BY <1>1, <2>2, <3>1, EmitMeans
    <3> QED BY <2>2, <3>1, <3>2
  <2> QED BY <2>1, <2>2 DEF Remote!RemoteStage, Remote!Refuse
<1>6. /\ place' \in [Remote!Attempts -> 0..MaxAttempts] /\ rdirs' \subseteq Remote!Attempts /\ wrote' \in [Remote!Attempts -> 0..MaxAttempts]
      /\ \A b \in Remote!Attempts \ {a} : place'[b] = place[b]
      /\ place'[a] \in {0, Remote!Place(a)} /\ rdirs' = rdirs \cup ({place'[a]} \ {0})
      /\ place'[a] # 0 => wrote'[place'[a]] = 0
      /\ \A d \in rdirs : wrote'[d] = wrote[d]
  <2>1. Remote!Place(a) \in 0..MaxAttempts /\ Remote!Place(a) # 0 /\ 0 \in 0..MaxAttempts
    BY <1>4, RunnerAssumption DEF Remote!Attempts, Remote!MaxAttemptsOK
  <2>2. CASE place' = place /\ rdirs' = rdirs /\ wrote' = wrote
    BY <1>1, <2>2 DEF Remote!TypeOK
  <2>3. CASE /\ place' = [place EXCEPT ![a] = Remote!Place(a)] /\ rdirs' = rdirs \cup {Remote!Place(a)}
             /\ wrote' = [wrote EXCEPT ![Remote!Place(a)] = IF Remote!Place(a) \in rdirs THEN @ ELSE 0]
    <3>1. place' \in [Remote!Attempts -> 0..MaxAttempts] /\ place'[a] = Remote!Place(a) /\ \A b \in Remote!Attempts \ {a} : place'[b] = place[b]
      BY <1>1, <2>1, <2>3 DEF Remote!TypeOK
    <3>2. wrote' = [wrote EXCEPT ![Remote!Place(a)] = 0]
      BY <1>4, <2>3
    <3>3. /\ wrote' \in [Remote!Attempts -> 0..MaxAttempts] /\ wrote'[Remote!Place(a)] = 0
          /\ \A d \in rdirs : wrote'[d] = wrote[d]
      BY <1>1, <1>4, <2>1, <3>2 DEF Remote!TypeOK
    <3>4. rdirs' \subseteq Remote!Attempts /\ rdirs' = rdirs \cup ({place'[a]} \ {0})
      BY <1>1, <1>4, <2>1, <2>3, <3>1 DEF Remote!TypeOK
    <3> QED BY <3>1, <3>3, <3>4
  <2> QED BY <1>3, <2>2, <2>3
<1>7. /\ rem' \in [Remote!Attempts -> {"none", "stage", "attest", "guard", "spawn", "loop", "collect", "clean", "end", "dead"}]
      /\ passed' \in [Remote!Attempts -> SUBSET Remote!Phases]
      /\ \A b \in Remote!Attempts \ {a} : rem'[b] = rem[b] /\ passed'[b] = passed[b]
      /\ \/ rem'[a] = "attest" /\ passed'[a] = {"inputs"} /\ place'[a] = Remote!Place(a)
         \/ rem'[a] = "clean" /\ passed'[a] = {}
      /\ msg' \in [Remote!Attempts -> Remote!Msg]
  BY <1>1, <1>4, <1>5 DEF Remote!TypeOK, Remote!Phases
<1>8. Remote!TypeOK'
  BY <1>1, <1>2, <1>6, <1>7 DEF Remote!TypeOK
<1>9. Remote!CallsInOrder' /\ Remote!ExecutorInOrder'
  BY <1>1, <1>2, <1>7 DEF Remote!CallsInOrder, Remote!ExecutorInOrder, Remote!Unstarted
<1>10. Remote!DirectoriesAreOwn'
  <2>1. \A b \in Remote!Attempts \ {a} : Remote!Owns(b)' <=> Remote!Owns(b)
    BY <1>6, <1>7 DEF Remote!Owns
  <2>2. ~Remote!Owns(a) /\ (Remote!Owns(a)' <=> place'[a] # 0)
    BY <1>1, <1>7 DEF Remote!Owns, Remote!Working
  <2>3. \A b \in Remote!Attempts : Remote!Owns(b) => place[b] \in rdirs
    BY DEF Remote!DirectoriesAreOwn
  <2>4. \A b \in Remote!Attempts : Remote!Owns(b)' => place'[b] \in rdirs' /\ wrote'[place'[b]] \in {0, b}
    BY <1>6, <2>1, <2>2, <2>3 DEF Remote!DirectoriesAreOwn
  <2>5. \A b, c \in Remote!Attempts : Remote!Owns(b)' /\ Remote!Owns(c)' /\ place'[b] = place'[c] => b = c
    BY <1>4, <1>6, <2>1, <2>2, <2>3 DEF Remote!DirectoriesAreOwn
  <2>6. \A d \in rdirs' : \E b \in Remote!Attempts : Remote!Owns(b)' /\ place'[b] = d
    BY <1>6, <2>1, <2>2 DEF Remote!DirectoriesAreOwn
  <2>7. \A b \in Remote!Attempts : (rem'[b] \in Remote!Unstarted => place'[b] = 0) /\ (rem'[b] \in Remote!Working => place'[b] # 0)
    <3>1. Remote!Place(a) # 0
      BY <1>4, RunnerAssumption DEF Remote!Attempts, Remote!MaxAttemptsOK
    <3> QED BY <1>6, <1>7, <3>1 DEF Remote!DirectoriesAreOwn, Remote!Unstarted, Remote!Working
  <2> QED BY <2>4, <2>5, <2>6, <2>7 DEF Remote!DirectoriesAreOwn
<1>11. Remote!MessagesAreTrue'
  BY <1>1, <1>2, <1>5, <1>7 DEF Remote!MessagesAreTrue, Remote!FreshKinds
<1>12. Remote!AnswersStand' /\ Remote!OutputsAreOwn' /\ Remote!NothingIsLaundered'
  BY <1>1, <1>2, <1>7 DEF Remote!AnswersStand, Remote!OutputsAreOwn, Remote!NothingIsLaundered
<1>13. Remote!TruthIsEarned'
  BY <1>1, <1>2, <1>7 DEF Remote!TruthIsEarned
<1> QED BY <1>8, <1>9, <1>10, <1>11, <1>12, <1>13

\* The finally clause removes the executor's own directory and no other's.
LEMMA CleanIInv == ASSUME Remote!IInv, NEW a \in Remote!Attempts, Remote!RemoteClean(a) PROVE Remote!IInv'
<1> USE DEF Remote!IInv
<1>1. /\ rem[a] = "clean" /\ Remote!TypeOK /\ ~answers[a].truth /\ tool[a] # "running"
      /\ UNCHANGED <<rconf, attempt, lpc, answers, got, conn, msg, passed, place, tool, hung, replayed>>
      /\ rdirs' = rdirs \ {place[a]} /\ wrote' = [d \in Remote!Attempts |-> IF d = place[a] THEN 0 ELSE wrote[d]]
  BY DEF Remote!RemoteClean, Remote!local, Remote!wire, Remote!AnswersStand, Remote!TypeOK
<1>2. /\ rem' \in [Remote!Attempts -> {"none", "stage", "attest", "guard", "spawn", "loop", "collect", "clean", "end", "dead"}]
      /\ rem'[a] = "end" /\ \A b \in Remote!Attempts \ {a} : rem'[b] = rem[b] /\ rdue'[b] = rdue[b] /\ checked'[b] = checked[b]
      /\ rdue' \in [Remote!Attempts -> BOOLEAN] /\ checked' \in [Remote!Attempts -> BOOLEAN] /\ rexpired' \in [Remote!Attempts -> BOOLEAN]
  BY <1>1 DEF Remote!RemoteClean, Remote!Forget, Remote!TypeOK
<1>3. Remote!TypeOK'
  BY <1>1, <1>2, RunnerAssumption DEF Remote!TypeOK, Remote!MaxAttemptsOK
<1>4. Remote!CallsInOrder' /\ Remote!ExecutorInOrder'
  BY <1>1, <1>2 DEF Remote!CallsInOrder, Remote!ExecutorInOrder, Remote!Unstarted
<1>5. Remote!DirectoriesAreOwn'
  <2>1. ~Remote!Owns(a)' /\ \A b \in Remote!Attempts \ {a} : Remote!Owns(b)' <=> Remote!Owns(b)
    BY <1>1, <1>2 DEF Remote!Owns, Remote!Working
  <2>2. \A b \in Remote!Attempts \ {a} : Remote!Owns(b) => place[b] # place[a]
    <3>1. CASE place[a] = 0
      BY <3>1 DEF Remote!Owns
    <3>2. CASE place[a] # 0
      BY <1>1, <3>2 DEF Remote!DirectoriesAreOwn, Remote!Owns
    <3> QED BY <3>1, <3>2
  <2>3. \A b \in Remote!Attempts : Remote!Owns(b)' => place'[b] \in rdirs' /\ wrote'[place'[b]] \in {0, b}
    BY <1>1, <2>1, <2>2 DEF Remote!DirectoriesAreOwn, Remote!TypeOK
  <2>4. \A d \in rdirs' : \E b \in Remote!Attempts : Remote!Owns(b)' /\ place'[b] = d
    BY <1>1, <2>1 DEF Remote!DirectoriesAreOwn
  <2>5. \A b, c \in Remote!Attempts : Remote!Owns(b)' /\ Remote!Owns(c)' /\ place'[b] = place'[c] => b = c
    BY <1>1, <2>1 DEF Remote!DirectoriesAreOwn
  <2>6. \A b \in Remote!Attempts : (rem'[b] \in Remote!Unstarted => place'[b] = 0) /\ (rem'[b] \in Remote!Working => place'[b] # 0)
    BY <1>1, <1>2 DEF Remote!DirectoriesAreOwn, Remote!Unstarted, Remote!Working
  <2> QED BY <2>3, <2>4, <2>5, <2>6 DEF Remote!DirectoriesAreOwn
<1>6. Remote!MessagesAreTrue' /\ Remote!OutputsAreOwn' /\ Remote!NothingIsLaundered' /\ Remote!TruthIsEarned'
  BY <1>1, <1>2 DEF Remote!MessagesAreTrue, Remote!OutputsAreOwn, Remote!NothingIsLaundered, Remote!TruthIsEarned
<1>7. Remote!AnswersStand'
  BY <1>1, <1>2 DEF Remote!AnswersStand
<1> QED BY <1>3, <1>4, <1>5, <1>6, <1>7

\* An executor that is killed leaves its directory behind, and no answer.
LEMMA DieIInv == ASSUME Remote!IInv, NEW a \in Remote!Attempts, Remote!Die(a) PROVE Remote!IInv'
<1> USE DEF Remote!IInv
<1>1. /\ rem[a] \notin {"none", "end", "dead"} /\ Remote!TypeOK /\ ~answers[a].truth
      /\ UNCHANGED <<rconf, attempt, lpc, answers, got, msg, passed, place, hung, rdirs, wrote, replayed>>
  BY DEF Remote!Die, Remote!local, Remote!AnswersStand, Remote!TypeOK
<1>2. /\ rem' \in [Remote!Attempts -> {"none", "stage", "attest", "guard", "spawn", "loop", "collect", "clean", "end", "dead"}]
      /\ rem'[a] = "dead" /\ \A b \in Remote!Attempts \ {a} : rem'[b] = rem[b] /\ rdue'[b] = rdue[b] /\ checked'[b] = checked[b]
      /\ rdue' \in [Remote!Attempts -> BOOLEAN] /\ checked' \in [Remote!Attempts -> BOOLEAN] /\ rexpired' \in [Remote!Attempts -> BOOLEAN]
      /\ conn' \in [Remote!Attempts -> {"none", "up", "down"}] /\ \A b \in Remote!Attempts \ {a} : conn'[b] = conn[b]
      /\ tool' \in [Remote!Attempts -> {"none", "running", "zero", "nonzero", "stopped"}]
      /\ (tool[a] # "running" => tool'[a] = tool[a])
      /\ \A b \in Remote!Attempts \ {a} : tool'[b] = tool[b]
  BY <1>1 DEF Remote!Die, Remote!Forget, Remote!Stop, Remote!TypeOK
<1>3. a <= attempt
  BY <1>1 DEF Remote!CallsInOrder, Remote!TypeOK, Remote!Attempts
<1>4. Remote!TypeOK'
  BY <1>1, <1>2 DEF Remote!TypeOK
<1>5. Remote!CallsInOrder' /\ Remote!ExecutorInOrder'
  BY <1>1, <1>2, <1>3 DEF Remote!CallsInOrder, Remote!ExecutorInOrder, Remote!Unstarted
<1>6. Remote!DirectoriesAreOwn'
  <2>1. \A b \in Remote!Attempts : Remote!Owns(b)' <=> Remote!Owns(b)
    BY <1>1, <1>2 DEF Remote!Owns, Remote!Working, Remote!DirectoriesAreOwn, Remote!Unstarted, Remote!TypeOK
  <2>2. \A b \in Remote!Attempts : (rem'[b] \in Remote!Unstarted => place'[b] = 0) /\ (rem'[b] \in Remote!Working => place'[b] # 0)
    BY <1>1, <1>2 DEF Remote!DirectoriesAreOwn, Remote!Unstarted, Remote!Working
  <2> QED BY <1>1, <2>1, <2>2 DEF Remote!DirectoriesAreOwn
<1>7. Remote!MessagesAreTrue'
  <2>1. \A b \in Remote!Attempts : msg[b].kind = "tool" => tool'[b] = tool[b]
    BY <1>2 DEF Remote!MessagesAreTrue
  <2> QED BY <1>1, <1>2, <2>1 DEF Remote!MessagesAreTrue
<1>8. Remote!OutputsAreOwn' /\ Remote!TruthIsEarned'
  BY <1>1, <1>2 DEF Remote!OutputsAreOwn, Remote!TruthIsEarned
<1>9. Remote!NothingIsLaundered' /\ Remote!AnswersStand'
  <2>1. \A b \in Remote!Attempts : replayed[b] # 0 => replayed[b] \in Remote!Attempts
    BY ReplayedIsAnAttempt
  <2>2. \A b \in Remote!Attempts : answers[b].truth => b # a
    BY <1>1
  <2> QED BY <1>1, <1>2, <2>1, <2>2 DEF Remote!NothingIsLaundered, Remote!AnswersStand
<1> QED BY <1>4, <1>5, <1>6, <1>7, <1>8, <1>9

\* The fields of an answer that was recorded.
LEMMA RecordMeans ==
    ASSUME Remote!TypeOK, NEW a \in Remote!Attempts, NEW class \in Remote!Classes, NEW truth \in BOOLEAN, NEW fresh \in BOOLEAN,
           NEW guard \in Remote!Guards, NEW mn \in Remote!Monitors, NEW by \in {0, a},
           Remote!Record(a, class, truth, fresh, guard, mn, by)
    PROVE  /\ answers' \in [Remote!Attempts -> Remote!Answer] /\ got' \in [Remote!Attempts -> 0..MaxAttempts] /\ lpc' = "idle"
           /\ answers'[a].class = class /\ (answers'[a].truth <=> truth) /\ (answers'[a].fresh <=> fresh)
           /\ answers'[a].guard = guard /\ answers'[a].mon = mn /\ got'[a] = by
           /\ \A b \in Remote!Attempts \ {a} : answers'[b] = answers[b] /\ got'[b] = got[b]
<1> DEFINE r == [class |-> class, truth |-> truth, fresh |-> fresh, guard |-> guard, mon |-> mn]
<1>1. r \in Remote!Answer
  BY DEF Remote!Answer
<1>2. r.class = class /\ r.truth = truth /\ r.fresh = fresh /\ r.guard = guard /\ r.mon = mn
  OBVIOUS
<1>3. answers' = [answers EXCEPT ![a] = r] /\ got' = [got EXCEPT ![a] = by] /\ lpc' = "idle"
  BY DEF Remote!Record
<1>4. by \in 0..MaxAttempts
  BY RunnerAssumption DEF Remote!Attempts, Remote!MaxAttemptsOK
<1> HIDE DEF r
<1> QED BY <1>1, <1>2, <1>3, <1>4 DEF Remote!TypeOK

\* The mark for "no response".
LEMMA NoMsgMeans == Remote!NoMsg \in Remote!Msg /\ Remote!NoMsg.kind = "none" /\ Remote!NoMsg.by = 0
  BY RunnerAssumption DEF Remote!NoMsg, Remote!Msg, Remote!MaxAttemptsOK

\* An answer to the call under way keeps the invariant if it is consistent and
\* claims no more than what the remote executor did.
LEMMA AnsweredIInv ==
    ASSUME Remote!IInv, NEW a \in Remote!Attempts, a = attempt, lpc = "wait",
           NEW class \in Remote!Classes, NEW truth \in BOOLEAN, NEW fresh \in BOOLEAN,
           NEW guard \in Remote!Guards, NEW mn \in Remote!Monitors, NEW by \in {0, a},
           Remote!Record(a, class, truth, fresh, guard, mn, by),
           msg' = [msg EXCEPT ![a] = Remote!NoMsg], conn' \in {conn, [conn EXCEPT ![a] = "down"]},
           UNCHANGED <<rconf, attempt, Remote!remote, replayed>>,
           Remote!Consistent(answers'[a]),
           truth => passed[a] = Remote!Phases /\ tool[a] \in {"zero", "nonzero"} /\ rem[a] = "end",
           fresh => "started" \in passed[a],
           class = "none" => truth /\ tool[a] = "zero"
    PROVE  Remote!IInv'
<1> USE DEF Remote!IInv
<1>1. /\ answers' \in [Remote!Attempts -> Remote!Answer] /\ got' \in [Remote!Attempts -> 0..MaxAttempts] /\ lpc' = "idle"
      /\ answers'[a].class = class /\ (answers'[a].truth <=> truth) /\ (answers'[a].fresh <=> fresh)
      /\ answers'[a].guard = guard /\ answers'[a].mon = mn /\ got'[a] = by
      /\ \A b \in Remote!Attempts \ {a} : answers'[b] = answers[b] /\ got'[b] = got[b]
  BY RecordMeans
<1>2. /\ UNCHANGED <<rconf, attempt, rem, passed, rdue, checked, place, tool, rexpired, hung, rdirs, wrote, replayed>>
      /\ Remote!TypeOK
  BY DEF Remote!remote
<1>3. /\ msg' \in [Remote!Attempts -> Remote!Msg] /\ msg'[a].kind = "none" /\ msg'[a].by = 0
      /\ \A b \in Remote!Attempts \ {a} : msg'[b] = msg[b]
  BY <1>2, NoMsgMeans DEF Remote!TypeOK
<1>4. conn' \in [Remote!Attempts -> {"none", "up", "down"}] /\ \A b \in Remote!Attempts \ {a} : conn'[b] = conn[b]
  BY <1>2 DEF Remote!TypeOK
<1>5. Remote!TypeOK'
  BY <1>1, <1>2, <1>3, <1>4 DEF Remote!TypeOK
<1>6. Remote!CallsInOrder'
  BY <1>1, <1>2, <1>4, RunnerAssumption DEF Remote!CallsInOrder, Remote!TypeOK, Remote!Attempts, Remote!MaxAttemptsOK
<1>7. Remote!ExecutorInOrder' /\ Remote!DirectoriesAreOwn'
  BY <1>2 DEF Remote!ExecutorInOrder, Remote!DirectoriesAreOwn, Remote!Owns
<1>8. Remote!MessagesAreTrue'
  BY <1>2, <1>3 DEF Remote!MessagesAreTrue, Remote!FreshKinds
<1>9. Remote!AnswersStand'
  BY <1>1, <1>2 DEF Remote!AnswersStand
<1>10. Remote!TruthIsEarned' /\ Remote!OutputsAreOwn'
  BY <1>1, <1>2 DEF Remote!TruthIsEarned, Remote!OutputsAreOwn
<1>11. Remote!NothingIsLaundered'
  <2>1. replayed[a] = 0 /\ ~answers[a].truth
    BY DEF Remote!CallsInOrder, Remote!NoAnswer
  <2>2. \A b \in Remote!Attempts : replayed[b] # 0 => replayed[b] \in Remote!Attempts
    BY <1>2, ReplayedIsAnAttempt
  <2> QED BY <1>1, <1>2, <2>1, <2>2 DEF Remote!NothingIsLaundered
<1> QED BY <1>5, <1>6, <1>7, <1>8, <1>9, <1>10, <1>11

\* Without a response, guard and monitor are absent or unchecked.
LEMMA NothingSeenMeans ==
    ASSUME Remote!TypeOK
    PROVE  /\ Remote!GuardOf("none") = (IF rconf.guarded THEN "unchecked" ELSE "absent")
           /\ Remote!MonitorOf(Remote!NoMsg) = (IF rconf.monitored THEN "unchecked" ELSE "absent")
           /\ Remote!GuardOf("none") \in Remote!Guards /\ Remote!MonitorOf(Remote!NoMsg) \in Remote!Monitors
  BY NoMsgMeans DEF Remote!GuardOf, Remote!MonitorOf, Remote!FreshKinds, Remote!Guards, Remote!Monitors

\* An answer that claims nothing passes _validate_response.
LEMMA FailureIsConsistent ==
    ASSUME NEW r \in Remote!Answer, ~r.truth, ~r.fresh, r.class \notin {"guard", "resource"},
           r.guard \in {"unchecked", "absent"}, r.mon \in {"unchecked", "absent"}
    PROVE  Remote!Consistent(r)
  BY RemoteConsistentMeans

\* The fields of an answer that reports a failure of the local side.
LEMMA FailureMeans ==
    ASSUME Remote!TypeOK, NEW a \in Remote!Attempts, NEW classes \in SUBSET {"input", "infrastructure", "ssh"}, Remote!Fails(a, classes)
    PROVE  /\ answers' \in [Remote!Attempts -> Remote!Answer] /\ got' \in [Remote!Attempts -> 0..MaxAttempts] /\ lpc' = "idle"
           /\ answers'[a].class # "none" /\ ~answers'[a].truth /\ ~answers'[a].fresh
           /\ Remote!Consistent(answers'[a]) /\ got'[a] = 0
           /\ \A b \in Remote!Attempts \ {a} : answers'[b] = answers[b] /\ got'[b] = got[b]
<1>1. /\ Remote!GuardOf("none") \in {"unchecked", "absent"} /\ Remote!MonitorOf(Remote!NoMsg) \in {"unchecked", "absent"}
      /\ Remote!GuardOf("none") \in Remote!Guards /\ Remote!MonitorOf(Remote!NoMsg) \in Remote!Monitors
  BY NothingSeenMeans
<1>2. PICK c \in classes : Remote!Record(a, c, FALSE, FALSE, Remote!GuardOf("none"), Remote!MonitorOf(Remote!NoMsg), 0)
  BY DEF Remote!Fails
<1>3. c \in Remote!Classes /\ c \notin {"none", "guard", "resource"} /\ 0 \in {0, a} /\ FALSE \in BOOLEAN
  BY DEF Remote!Classes
<1>4. /\ answers' \in [Remote!Attempts -> Remote!Answer] /\ got' \in [Remote!Attempts -> 0..MaxAttempts] /\ lpc' = "idle"
      /\ answers'[a].class = c /\ (answers'[a].truth <=> FALSE) /\ (answers'[a].fresh <=> FALSE)
      /\ answers'[a].guard = Remote!GuardOf("none") /\ answers'[a].mon = Remote!MonitorOf(Remote!NoMsg) /\ got'[a] = 0
      /\ \A b \in Remote!Attempts \ {a} : answers'[b] = answers[b] /\ got'[b] = got[b]
  BY <1>1, <1>2, <1>3, RecordMeans, Zenon
<1>5. Remote!Consistent(answers'[a])
  <2>1. answers'[a] \in Remote!Answer
    BY <1>4
  <2> QED BY <1>1, <1>3, <1>4, <2>1, FailureIsConsistent
<1> QED BY <1>3, <1>4, <1>5

\* A failure of the local side keeps the invariant.
LEMMA FailedIInv ==
    ASSUME Remote!IInv, NEW a \in Remote!Attempts, a = attempt, lpc = "wait",
           NEW classes \in SUBSET {"input", "infrastructure", "ssh"}, Remote!Fails(a, classes),
           msg' = [msg EXCEPT ![a] = Remote!NoMsg], conn' \in {conn, [conn EXCEPT ![a] = "down"]},
           UNCHANGED <<rconf, attempt, Remote!remote, replayed>>
    PROVE  Remote!IInv'
<1> DEFINE guard == Remote!GuardOf("none")
           mn == Remote!MonitorOf(Remote!NoMsg)
<1>1. Remote!TypeOK /\ guard \in Remote!Guards /\ mn \in Remote!Monitors
  BY NothingSeenMeans DEF Remote!IInv
<1>2. PICK c \in classes : Remote!Record(a, c, FALSE, FALSE, guard, mn, 0)
  BY DEF Remote!Fails
<1>3. c \in Remote!Classes /\ c # "none" /\ 0 \in {0, a} /\ FALSE \in BOOLEAN
  BY DEF Remote!Classes
<1>4. Remote!Consistent(answers'[a])
  BY <1>1, FailureMeans
<1> HIDE DEF guard, mn
<1> QED BY <1>1, <1>2, <1>3, <1>4, AnsweredIInv

\* The failure class SSHRunner derives from each kind of response.
LEMMA ClassMeans ==
    ASSUME Remote!TypeOK, NEW m \in Remote!Msg, m.kind = "runtime_guard" => m.class \in {"guard", "resource"}
    PROVE  /\ Remote!ClassOf(m) \in Remote!Classes
           /\ Remote!ClassOf(m) = "none" => m.kind = "tool" /\ m.zero
           /\ Remote!ClassOf(m) = "guard" =>
                (m.kind = "runtime_guard" /\ rconf.monitored) \/ (m.kind = "resource_guard" /\ rconf.guarded)
           /\ Remote!ClassOf(m) = "resource" => m.kind = "runtime_guard" /\ rconf.monitored
           /\ m.kind = "resource_guard" /\ rconf.guarded => Remote!ClassOf(m) = "guard"
           /\ m.kind \in {"runtime_guard", "runtime_guard_infrastructure"} /\ rconf.monitored =>
                Remote!ClassOf(m) \in {"guard", "resource", "infrastructure"}
<1>1. m.kind \in Remote!Kinds \cup {"none"}
  BY DEF Remote!Msg
<1>2. CASE m.kind = "tool"
  BY <1>2 DEF Remote!ClassOf, Remote!Classes
<1>3. CASE m.kind = "timeout"
  BY <1>3 DEF Remote!ClassOf, Remote!Classes
<1>4. CASE m.kind = "runtime_guard" /\ rconf.monitored
  BY <1>4 DEF Remote!ClassOf, Remote!Classes
<1>5. CASE m.kind = "resource_guard" /\ rconf.guarded
  BY <1>5 DEF Remote!ClassOf, Remote!Classes
<1>6. CASE m.kind = "input"
  BY <1>6 DEF Remote!ClassOf, Remote!Classes
<1>7. CASE /\ m.kind \notin {"tool", "timeout", "input"} /\ ~(m.kind = "runtime_guard" /\ rconf.monitored)
           /\ ~(m.kind = "resource_guard" /\ rconf.guarded)
  <2>1. Remote!ClassOf(m) = "infrastructure"
    BY <1>7 DEF Remote!ClassOf
  <2> QED BY <1>7, <2>1 DEF Remote!Classes
<1> QED BY <1>1, <1>2, <1>3, <1>4, <1>5, <1>6, <1>7 DEF Remote!Kinds

\* The response is decoded: truth is claimed for a "tool" response only, whose
\* executor has ended and whose tool ended by itself.
LEMMA ReceiveIInv == ASSUME Remote!IInv, Remote!Receive PROVE Remote!IInv'
<1> USE DEF Remote!IInv
<1>1. /\ lpc = "wait" /\ attempt \in Remote!Attempts /\ conn[attempt] = "up" /\ rem[attempt] = "end" /\ Remote!TypeOK
      /\ msg' = [msg EXCEPT ![attempt] = Remote!NoMsg] /\ conn' = [conn EXCEPT ![attempt] = "down"]
      /\ UNCHANGED <<rconf, attempt, Remote!remote, replayed>>
  BY DEF Remote!Receive, Remote!CallsInOrder
<1> DEFINE m == msg[attempt]
           kind == m.kind
           mo == Remote!MonitorOf(m)
           class == Remote!ClassOf(m)
<1>2. /\ m \in Remote!Msg /\ m.by \in {0, attempt} /\ kind \in Remote!Kinds \cup {"none"}
      /\ (kind \in Remote!FreshKinds => passed[attempt] = Remote!Phases)
      /\ (kind \in {"tool", "timeout"} /\ rconf.monitored => m.checked)
      /\ (kind = "tool" => tool[attempt] \in {"zero", "nonzero"} /\ (m.zero <=> tool[attempt] = "zero"))
      /\ (kind = "runtime_guard" => m.class \in {"guard", "resource"})
  BY <1>1 DEF Remote!MessagesAreTrue, Remote!TypeOK, Remote!Msg
<1>3. /\ class \in Remote!Classes
      /\ class = "none" => kind = "tool" /\ m.zero
      /\ class = "guard" =>
           (kind = "runtime_guard" /\ rconf.monitored) \/ (kind = "resource_guard" /\ rconf.guarded)
      /\ class = "resource" => kind = "runtime_guard" /\ rconf.monitored
      /\ kind = "resource_guard" /\ rconf.guarded => class = "guard"
      /\ kind \in {"runtime_guard", "runtime_guard_infrastructure"} /\ rconf.monitored =>
           class \in {"guard", "resource", "infrastructure"}
  BY <1>1, <1>2, ClassMeans
<1>4. /\ Remote!GuardOf(kind) = IF ~rconf.guarded THEN "absent" ELSE IF kind \in Remote!FreshKinds THEN "passed"
                         ELSE IF kind = "resource_guard" THEN "rejected" ELSE "unchecked"
      /\ Remote!GuardOf(kind) \in Remote!Guards
  BY DEF Remote!GuardOf, Remote!Guards
<1>5. /\ mo = IF ~rconf.monitored THEN "absent"
              ELSE IF kind \in {"tool", "timeout"} THEN (IF m.checked THEN "passed" ELSE "unchecked")
              ELSE IF kind \in {"runtime_guard", "runtime_guard_infrastructure"} THEN "triggered" ELSE "unchecked"
      /\ mo \in Remote!Monitors
  BY DEF Remote!MonitorOf, Remote!Monitors
<1> HIDE DEF class, mo, kind, m
<1>6. CASE Remote!Record(attempt, class, kind = "tool", kind \in Remote!FreshKinds, Remote!GuardOf(kind), mo, m.by)
  <2>1. PICK truth \in BOOLEAN, fresh \in BOOLEAN :
          /\ truth <=> kind = "tool"
          /\ fresh <=> kind \in Remote!FreshKinds
          /\ Remote!Record(attempt, class, truth, fresh, Remote!GuardOf(kind), mo, m.by)
    <3>1. CASE kind = "tool"
      <4>1. Remote!Record(attempt, class, TRUE, TRUE, Remote!GuardOf(kind), mo, m.by)
        BY <1>6, <3>1 DEF Remote!Record, Remote!FreshKinds
      <4> QED BY <3>1, <4>1 DEF Remote!FreshKinds
    <3>2. CASE kind \in Remote!FreshKinds \ {"tool"}
      <4>1. Remote!Record(attempt, class, FALSE, TRUE, Remote!GuardOf(kind), mo, m.by)
        BY <1>6, <3>2 DEF Remote!Record
      <4> QED BY <3>2, <4>1
    <3>3. CASE kind \notin Remote!FreshKinds
      <4>1. kind # "tool"
        BY <3>3 DEF Remote!FreshKinds
      <4>2. (kind = "tool") = FALSE /\ (kind \in Remote!FreshKinds) = FALSE
        BY <3>3, <4>1
      <4>3. Remote!Record(attempt, class, FALSE, FALSE, Remote!GuardOf(kind), mo, m.by)
        BY <1>6, <4>2, Zenon
      <4> QED BY <3>3, <4>1, <4>3
    <3> QED BY <3>1, <3>2, <3>3
  <2>2. /\ answers' \in [Remote!Attempts -> Remote!Answer] /\ got' \in [Remote!Attempts -> 0..MaxAttempts] /\ lpc' = "idle"
        /\ answers'[attempt].class = class /\ (answers'[attempt].truth <=> truth) /\ (answers'[attempt].fresh <=> fresh)
        /\ answers'[attempt].guard = Remote!GuardOf(kind) /\ answers'[attempt].mon = mo /\ got'[attempt] = m.by
        /\ \A b \in Remote!Attempts \ {attempt} : answers'[b] = answers[b] /\ got'[b] = got[b]
    <3> HIDE DEF Remote!IInv
    <3> QED BY <1>1, <1>2, <1>3, <1>4, <1>5, <2>1, RecordMeans
  <2>3. answers'[attempt] \in Remote!Answer
    BY <1>1, <2>2
  <2>4. Remote!Consistent(answers'[attempt])
    <3> HIDE DEF Remote!IInv
    <3>1. kind \in Remote!Kinds \cup {"none"}
      BY <1>2
    <3>2. /\ Remote!GuardOf(kind) \in {"absent", "passed"} => (class = "guard" => mo = "triggered")
          /\ Remote!GuardOf(kind) = "unchecked" => class # "guard" /\ kind \notin Remote!FreshKinds
          /\ Remote!GuardOf(kind) = "rejected" => class = "guard" /\ kind \notin Remote!FreshKinds /\ kind # "tool"
      BY <1>3, <1>4, <1>5, <3>1 DEF Remote!FreshKinds, Remote!Kinds
    <3>3. /\ mo = "absent" => (class = "guard" => Remote!GuardOf(kind) = "rejected") /\ class # "resource"
          /\ mo = "unchecked" => kind \notin Remote!FreshKinds /\ class # "resource"
          /\ mo = "passed" => class \notin {"guard", "resource"}
          /\ mo = "triggered" => /\ class \in {"guard", "resource", "infrastructure"}
                                 /\ kind \in Remote!FreshKinds /\ kind # "tool" /\ Remote!GuardOf(kind) \in {"absent", "passed"}
      BY <1>2, <1>3, <1>4, <1>5, <3>1 DEF Remote!FreshKinds, Remote!Kinds
    <3>4. kind = "tool" => kind \in Remote!FreshKinds
      BY DEF Remote!FreshKinds
    <3> QED BY <2>1, <2>2, <2>3, <3>2, <3>3, <3>4, RemoteConsistentMeans
  <2>5. kind \in Remote!FreshKinds => "started" \in passed[attempt]
    BY <1>2 DEF Remote!Phases
  <2>6. kind = "tool" => passed[attempt] = Remote!Phases /\ tool[attempt] \in {"zero", "nonzero"} /\ rem[attempt] = "end"
    BY <1>1, <1>2 DEF Remote!FreshKinds
  <2>7. class = "none" => kind = "tool" /\ tool[attempt] = "zero"
    BY <1>2, <1>3
  <2>8. conn' \in {conn, [conn EXCEPT ![attempt] = "down"]}
    BY <1>1
  <2>9. /\ truth => passed[attempt] = Remote!Phases /\ tool[attempt] \in {"zero", "nonzero"} /\ rem[attempt] = "end"
        /\ fresh => "started" \in passed[attempt]
        /\ class = "none" => truth /\ tool[attempt] = "zero"
    BY <2>1, <2>5, <2>6, <2>7
  <2> HIDE DEF Remote!IInv
  <2>10. m.by \in {0, attempt} /\ class \in Remote!Classes /\ Remote!GuardOf(kind) \in Remote!Guards /\ mo \in Remote!Monitors
    BY <1>2, <1>3, <1>4, <1>5
  <2> QED BY <1>1, <2>1, <2>4, <2>8, <2>9, <2>10, AnsweredIInv, ZenonT(60)
<1>7. CASE Remote!Fails(attempt, {"input", "infrastructure"})
  BY <1>1, <1>7, FailedIInv
<1> QED BY <1>6, <1>7 DEF Remote!Receive, class, mo, kind, m

\* A broken connection and a transport timeout claim nothing.
LEMMA LocalIInv == ASSUME Remote!IInv, Remote!Broken \/ Remote!TransportTimeout PROVE Remote!IInv'
<1>1. attempt \in Remote!Attempts /\ lpc = "wait"
  BY DEF Remote!Broken, Remote!TransportTimeout, Remote!IInv, Remote!CallsInOrder
<1>2. CASE Remote!Broken
  <2>1. UNCHANGED <<rconf, attempt, Remote!remote, replayed>> /\ conn' = conn
    BY <1>2 DEF Remote!Broken
  <2> QED BY <1>1, <1>2, <2>1, FailedIInv DEF Remote!Broken
<1>3. CASE Remote!TransportTimeout
  BY <1>1, <1>3, FailedIInv DEF Remote!TransportTimeout
<1> QED BY <1>2, <1>3

\* A new call, refused at once or under way.
LEMMA SubmitIInv == ASSUME Remote!IInv, Remote!Submit PROVE Remote!IInv'
<1> USE DEF Remote!IInv
<1> DEFINE a == attempt + 1
<1>1. /\ lpc = "idle" /\ attempt' = a /\ a \in Remote!Attempts /\ attempt \in Nat /\ attempt \notin {a} /\ attempt' \in 0..MaxAttempts
      /\ Remote!TypeOK /\ rem[a] = "none" /\ conn[a] = "none" /\ answers[a] = Remote!NoAnswer /\ replayed[a] = 0
      /\ UNCHANGED <<rconf, msg, passed, rdue, checked, place, tool, rexpired, hung, rdirs, wrote, replayed>>
  <2>1. /\ lpc = "idle" /\ attempt < MaxAttempts /\ attempt' = attempt + 1 /\ Remote!TypeOK /\ attempt \in 0..MaxAttempts
        /\ UNCHANGED <<rconf, msg, passed, rdue, checked, place, tool, rexpired, hung, rdirs, wrote, replayed>>
    BY DEF Remote!Submit, Remote!TypeOK
  <2>2. a \in Remote!Attempts /\ a > attempt /\ a \in 0..MaxAttempts /\ attempt \in Nat
    BY <2>1, RunnerAssumption DEF Remote!Attempts, Remote!MaxAttemptsOK
  <2>3. rem[a] = "none" /\ conn[a] = "none" /\ answers[a] = Remote!NoAnswer /\ replayed[a] = 0
    BY <2>2 DEF Remote!CallsInOrder
  <2> QED BY <2>1, <2>2, <2>3
<1>2. \A b \in Remote!Attempts : (b <= a <=> b <= attempt \/ b = a) /\ (b > a => b > attempt /\ b # a)
  BY <1>1, RunnerAssumption DEF Remote!Attempts, Remote!MaxAttemptsOK
<1>3. ~Remote!NoAnswer.truth
  BY DEF Remote!NoAnswer
<1> HIDE DEF a
<1>4. CASE Remote!Fails(a, {"input", "infrastructure"}) /\ UNCHANGED <<conn, rem>>
  <2>1. /\ answers' \in [Remote!Attempts -> Remote!Answer] /\ got' \in [Remote!Attempts -> 0..MaxAttempts] /\ lpc' = "idle"
        /\ answers'[a].class # "none" /\ ~answers'[a].truth /\ ~answers'[a].fresh
        /\ Remote!Consistent(answers'[a]) /\ got'[a] = 0
        /\ \A b \in Remote!Attempts \ {a} : answers'[b] = answers[b] /\ got'[b] = got[b]
    BY <1>1, <1>4, FailureMeans
  <2>2. Remote!TypeOK'
    BY <1>1, <1>4, <2>1 DEF Remote!TypeOK
  <2>3. Remote!CallsInOrder'
    BY <1>1, <1>2, <1>4, <2>1 DEF Remote!CallsInOrder
  <2>4. Remote!ExecutorInOrder' /\ Remote!DirectoriesAreOwn' /\ Remote!MessagesAreTrue'
    BY <1>1, <1>4 DEF Remote!ExecutorInOrder, Remote!DirectoriesAreOwn, Remote!Owns, Remote!MessagesAreTrue
  <2>5. Remote!AnswersStand'
    BY <1>1, <1>2, <1>4, <2>1 DEF Remote!AnswersStand
  <2>6. Remote!TruthIsEarned' /\ Remote!OutputsAreOwn'
    BY <1>1, <2>1 DEF Remote!TruthIsEarned, Remote!OutputsAreOwn
  <2>7. Remote!NothingIsLaundered'
    <3>1. \A b \in Remote!Attempts : replayed[b] # 0 => replayed[b] \in Remote!Attempts
      BY <1>1, ReplayedIsAnAttempt
    <3> QED BY <1>1, <1>3, <2>1, <3>1 DEF Remote!NothingIsLaundered
  <2> QED BY <2>2, <2>3, <2>4, <2>5, <2>6, <2>7
<1>5. CASE /\ lpc' = "wait" /\ UNCHANGED <<answers, got>>
           /\ \/ conn' = [conn EXCEPT ![a] = "up"] /\ rem' = [rem EXCEPT ![a] = "stage"]
              \/ conn' = [conn EXCEPT ![a] = "down"] /\ UNCHANGED rem
  <2>1. /\ rem' \in [Remote!Attempts -> {"none", "stage", "attest", "guard", "spawn", "loop", "collect", "clean", "end", "dead"}]
        /\ conn' \in [Remote!Attempts -> {"none", "up", "down"}]
        /\ rem'[a] \in Remote!Unstarted /\ \A b \in Remote!Attempts \ {a} : rem'[b] = rem[b] /\ conn'[b] = conn[b]
    BY <1>1, <1>5 DEF Remote!TypeOK, Remote!Unstarted
  <2>2. Remote!TypeOK'
    BY <1>1, <1>5, <2>1 DEF Remote!TypeOK
  <2>3. Remote!CallsInOrder'
    BY <1>1, <1>2, <1>5, <2>1 DEF Remote!CallsInOrder
  <2>4. Remote!ExecutorInOrder' /\ Remote!MessagesAreTrue'
    BY <1>1, <2>1 DEF Remote!ExecutorInOrder, Remote!MessagesAreTrue, Remote!Unstarted
  <2>5. Remote!DirectoriesAreOwn'
    <3>1. \A b \in Remote!Attempts : Remote!Owns(b)' <=> Remote!Owns(b)
      BY <1>1, <2>1 DEF Remote!Owns, Remote!Unstarted, Remote!Working
    <3>2. \A b \in Remote!Attempts : (rem'[b] \in Remote!Unstarted => rem[b] \in Remote!Unstarted) /\ (rem'[b] \in Remote!Working => rem[b] \in Remote!Working)
      BY <1>1, <2>1 DEF Remote!Unstarted, Remote!Working
    <3> QED BY <1>1, <3>1, <3>2 DEF Remote!DirectoriesAreOwn
  <2>6. Remote!AnswersStand' /\ Remote!TruthIsEarned' /\ Remote!OutputsAreOwn' /\ Remote!NothingIsLaundered'
    BY <1>1, <1>2, <1>3, <1>5, <2>1 DEF Remote!AnswersStand, Remote!TruthIsEarned, Remote!OutputsAreOwn, Remote!NothingIsLaundered
  <2> QED BY <2>2, <2>3, <2>4, <2>5, <2>6
<1> QED BY <1>4, <1>5 DEF Remote!Submit, a

\* A replay takes an answer that was true, and claims no truth of its own.
LEMMA ReplayIInv == ASSUME Remote!IInv, Remote!Replay PROVE Remote!IInv'
<1> USE DEF Remote!IInv
<1> DEFINE n == attempt + 1
<1>1. /\ lpc = "idle" /\ attempt' = n /\ n \in Remote!Attempts /\ attempt \in Nat /\ attempt' \in 0..MaxAttempts
      /\ Remote!TypeOK /\ rem[n] = "none" /\ conn[n] = "none" /\ answers[n] = Remote!NoAnswer
      /\ UNCHANGED <<rconf, lpc, answers, got, conn, msg, rem, passed, rdue, checked, place, tool, rexpired, hung, rdirs, wrote>>
  <2>1. /\ lpc = "idle" /\ attempt < MaxAttempts /\ attempt' = attempt + 1 /\ Remote!TypeOK /\ attempt \in 0..MaxAttempts
        /\ UNCHANGED <<rconf, lpc, answers, got, conn, msg, rem, passed, rdue, checked, place, tool, rexpired, hung, rdirs, wrote>>
    BY DEF Remote!Replay, Remote!TypeOK, Remote!wire, Remote!remote
  <2>2. n \in Remote!Attempts /\ n > attempt /\ n \in 0..MaxAttempts /\ attempt \in Nat
    BY <2>1, RunnerAssumption DEF Remote!Attempts, Remote!MaxAttemptsOK
  <2>3. rem[n] = "none" /\ conn[n] = "none" /\ answers[n] = Remote!NoAnswer
    BY <2>2 DEF Remote!CallsInOrder
  <2> QED BY <2>1, <2>2, <2>3
<1>2. PICK a \in 1..attempt : /\ answers[a].class = "none" /\ replayed[a] = 0
                              /\ replayed' = [replayed EXCEPT ![n] = a]
  BY DEF Remote!Replay
<1>3. a \in Remote!Attempts /\ a \in 0..MaxAttempts /\ a <= attempt /\ a # 0
  BY <1>1, <1>2, RunnerAssumption DEF Remote!Attempts, Remote!MaxAttemptsOK
<1>4. answers[a].truth /\ tool[a] = "zero"
  BY <1>1, <1>2, <1>3 DEF Remote!AnswersStand
<1>5. \A b \in Remote!Attempts : (b <= n <=> b <= attempt \/ b = n) /\ (b > n => b > attempt /\ b # n)
  BY <1>1, RunnerAssumption DEF Remote!Attempts, Remote!MaxAttemptsOK
<1>6. ~Remote!NoAnswer.truth
  BY DEF Remote!NoAnswer
<1> HIDE DEF n
<1>7. replayed' \in [Remote!Attempts -> 0..MaxAttempts] /\ replayed'[n] = a /\ \A b \in Remote!Attempts \ {n} : replayed'[b] = replayed[b]
  BY <1>1, <1>2, <1>3 DEF Remote!TypeOK
<1>8. Remote!TypeOK'
  BY <1>1, <1>7 DEF Remote!TypeOK
<1>9. Remote!CallsInOrder' /\ Remote!ExecutorInOrder' /\ Remote!DirectoriesAreOwn' /\ Remote!MessagesAreTrue'
  BY <1>1, <1>5, <1>7 DEF Remote!CallsInOrder, Remote!ExecutorInOrder, Remote!DirectoriesAreOwn, Remote!Owns, Remote!MessagesAreTrue
<1>10. Remote!AnswersStand' /\ Remote!TruthIsEarned' /\ Remote!OutputsAreOwn'
  BY <1>1, <1>3, <1>5, <1>7 DEF Remote!AnswersStand, Remote!TruthIsEarned, Remote!OutputsAreOwn
<1>11. Remote!NothingIsLaundered'
  BY <1>1, <1>4, <1>6, <1>7 DEF Remote!NothingIsLaundered
<1> QED BY <1>8, <1>9, <1>10, <1>11

\* Connections break, executors die, tools write, end and hang, and time passes.
LEMMA EnvironmentIInv == ASSUME Remote!IInv, NEW a \in Remote!Attempts, Remote!Environment(a) PROVE Remote!IInv'
<1> USE DEF Remote!IInv
<1>1. CASE Remote!Break(a)
  <2>1. a <= attempt /\ Remote!TypeOK
    BY <1>1 DEF Remote!Break, Remote!CallsInOrder, Remote!TypeOK, Remote!Attempts
  <2>2. conn' \in [Remote!Attempts -> {"none", "up", "down"}] /\ \A b \in Remote!Attempts \ {a} : conn'[b] = conn[b]
    BY <1>1, <2>1 DEF Remote!Break, Remote!TypeOK
  <2>3. UNCHANGED <<rconf, attempt, lpc, answers, got, msg, rem, passed, rdue, checked, place, tool, rexpired, hung, rdirs, wrote, replayed>>
    BY <1>1 DEF Remote!Break, Remote!local, Remote!remote
  <2>4. Remote!TypeOK'
    BY <2>1, <2>2, <2>3 DEF Remote!TypeOK
  <2>5. Remote!CallsInOrder'
    BY <2>1, <2>2, <2>3, RunnerAssumption DEF Remote!CallsInOrder, Remote!TypeOK, Remote!Attempts, Remote!MaxAttemptsOK
  <2> QED BY <2>3, <2>4, <2>5 DEF Remote!ExecutorInOrder, Remote!DirectoriesAreOwn, Remote!Owns, Remote!MessagesAreTrue,
               Remote!AnswersStand, Remote!TruthIsEarned, Remote!OutputsAreOwn, Remote!NothingIsLaundered
<1>2. CASE Remote!Die(a)
  BY <1>2, DieIInv
<1>3. CASE Remote!ToolWrites(a)
  <2>1. /\ tool[a] = "running" /\ rem[a] \in {"loop", "dead"} /\ Remote!Owns(a) /\ Remote!TypeOK /\ place[a] \in Remote!Attempts
        /\ UNCHANGED <<rconf, attempt, lpc, answers, got, conn, msg, rem, passed, rdue, checked, place, tool, rexpired, hung, rdirs, replayed>>
        /\ wrote' = [wrote EXCEPT ![place[a]] = a]
    BY <1>3, RunnerAssumption DEF Remote!ToolWrites, Remote!TypeOK, Remote!Owns, Remote!Working, Remote!local, Remote!wire, Remote!DirectoriesAreOwn
  <2>2. a \in 0..MaxAttempts
    BY RunnerAssumption DEF Remote!Attempts, Remote!MaxAttemptsOK
  <2>3. Remote!TypeOK'
    BY <2>1, <2>2 DEF Remote!TypeOK
  <2>4. Remote!DirectoriesAreOwn'
    BY <2>1 DEF Remote!DirectoriesAreOwn, Remote!Owns, Remote!TypeOK
  <2>5. Remote!CallsInOrder' /\ Remote!ExecutorInOrder' /\ Remote!MessagesAreTrue' /\ Remote!AnswersStand' /\ Remote!TruthIsEarned' /\ Remote!OutputsAreOwn' /\ Remote!NothingIsLaundered'
    BY <2>1 DEF Remote!CallsInOrder, Remote!ExecutorInOrder, Remote!MessagesAreTrue, Remote!AnswersStand, Remote!TruthIsEarned, Remote!OutputsAreOwn, Remote!NothingIsLaundered
  <2> QED BY <2>3, <2>4, <2>5
<1>4. CASE Remote!ToolEnds(a)
  <2>1. /\ tool[a] = "running" /\ rem[a] \in {"loop", "dead"} /\ Remote!TypeOK /\ ~answers[a].truth /\ msg[a].kind # "tool"
        /\ UNCHANGED <<rconf, attempt, lpc, answers, got, conn, msg, rem, passed, rdue, checked, place, rexpired, hung, rdirs, wrote, replayed>>
        /\ tool' \in [Remote!Attempts -> {"none", "running", "zero", "nonzero", "stopped"}]
        /\ tool'[a] \in {"zero", "nonzero"} /\ \A b \in Remote!Attempts \ {a} : tool'[b] = tool[b]
    BY <1>4 DEF Remote!ToolEnds, Remote!TypeOK, Remote!local, Remote!wire, Remote!AnswersStand, Remote!MessagesAreTrue
  <2>2. Remote!TypeOK'
    BY <2>1 DEF Remote!TypeOK
  <2>3. Remote!CallsInOrder' /\ Remote!ExecutorInOrder' /\ Remote!DirectoriesAreOwn' /\ Remote!MessagesAreTrue'
    BY <2>1 DEF Remote!CallsInOrder, Remote!ExecutorInOrder, Remote!DirectoriesAreOwn, Remote!Owns, Remote!MessagesAreTrue
  <2>4. Remote!AnswersStand' /\ Remote!TruthIsEarned' /\ Remote!OutputsAreOwn'
    BY <2>1 DEF Remote!AnswersStand, Remote!TruthIsEarned, Remote!OutputsAreOwn
  <2>5. Remote!NothingIsLaundered'
    <3>1. \A b \in Remote!Attempts : replayed[b] # 0 => replayed[b] \in Remote!Attempts
      BY <2>1, ReplayedIsAnAttempt
    <3> QED BY <2>1, <3>1 DEF Remote!NothingIsLaundered
  <2> QED BY <2>2, <2>3, <2>4, <2>5
<1>5. CASE Remote!Hang(a)
  BY <1>5 DEF Remote!Hang, Remote!local, Remote!wire, Remote!TypeOK, Remote!CallsInOrder, Remote!ExecutorInOrder, Remote!DirectoriesAreOwn, Remote!Owns, Remote!MessagesAreTrue,
               Remote!AnswersStand, Remote!TruthIsEarned, Remote!OutputsAreOwn, Remote!NothingIsLaundered
<1>6. CASE Remote!Expire(a)
  BY <1>6 DEF Remote!Expire, Remote!local, Remote!wire, Remote!TypeOK, Remote!CallsInOrder, Remote!ExecutorInOrder, Remote!DirectoriesAreOwn, Remote!Owns, Remote!MessagesAreTrue,
               Remote!AnswersStand, Remote!TruthIsEarned, Remote!OutputsAreOwn, Remote!NothingIsLaundered
<1>7. CASE Remote!ProbeDue(a)
  BY <1>7 DEF Remote!ProbeDue, Remote!local, Remote!wire, Remote!TypeOK, Remote!CallsInOrder, Remote!ExecutorInOrder, Remote!Unstarted, Remote!DirectoriesAreOwn, Remote!Owns, Remote!MessagesAreTrue,
               Remote!AnswersStand, Remote!TruthIsEarned, Remote!OutputsAreOwn, Remote!NothingIsLaundered
<1> QED BY <1>1, <1>2, <1>3, <1>4, <1>5, <1>6, <1>7 DEF Remote!Environment

\* Every step keeps the invariant.
LEMMA RemoteStepIInv == Remote!IInv /\ [Remote!Next]_(Remote!vars) => Remote!IInv'
<1> SUFFICES ASSUME Remote!IInv, [Remote!Next]_(Remote!vars) PROVE Remote!IInv'
  OBVIOUS
<1>1. CASE Remote!Submit
  BY <1>1, SubmitIInv
<1>2. CASE Remote!LocalStep
  BY <1>2, LocalIInv, ReceiveIInv DEF Remote!LocalStep
<1>3. CASE Remote!Replay
  BY <1>3, ReplayIInv
<1>4. ASSUME NEW a \in Remote!Attempts, Remote!RemoteStep(a) PROVE Remote!IInv'
  BY <1>4, StageIInv, AttestIInv, GuardIInv, SpawnIInv, ProbeIInv, PollIInv, CollectIInv, CleanIInv DEF Remote!RemoteStep
<1>5. ASSUME NEW a \in Remote!Attempts, Remote!Environment(a) PROVE Remote!IInv'
  BY <1>5, EnvironmentIInv
<1>6. CASE UNCHANGED Remote!vars
  <2>1. UNCHANGED <<rconf, attempt, lpc, answers, got, conn, msg, rem, passed, rdue, checked, place, tool, rexpired, hung, rdirs, wrote, replayed>>
    BY <1>6 DEF Remote!vars, Remote!local, Remote!wire, Remote!remote
  <2> QED BY <2>1 DEF Remote!IInv, Remote!TypeOK, Remote!CallsInOrder, Remote!ExecutorInOrder, Remote!DirectoriesAreOwn, Remote!Owns, Remote!MessagesAreTrue,
               Remote!AnswersStand, Remote!TruthIsEarned, Remote!OutputsAreOwn, Remote!NothingIsLaundered
<1> QED BY <1>1, <1>2, <1>3, <1>4, <1>5, <1>6 DEF Remote!Next

\* It holds in every reachable state, for any number of attempts whose executors
\* overlap.
THEOREM RemoteInvariant == Remote!Spec => []Remote!IInv
  BY RemoteInit, RemoteStepIInv, PTL DEF Remote!Spec

\* SSHRunner.execute tells the truth: see RemoteAnswerIsTrue.
THEOREM RemoteAnswersAreTrue == Remote!Spec => []Remote!RemoteAnswerIsTrue
<1>1. Remote!IInv => Remote!RemoteAnswerIsTrue
  <2> SUFFICES ASSUME Remote!IInv PROVE Remote!RemoteAnswerIsTrue
    OBVIOUS
  <2>1. \A a \in 1..attempt : a \in Remote!Attempts
    BY RunnerAssumption DEF Remote!IInv, Remote!TypeOK, Remote!Attempts, Remote!MaxAttemptsOK
  <2>2. Remote!AnswersAreConsistent
    BY <2>1 DEF Remote!IInv, Remote!AnswersStand, Remote!AnswersAreConsistent
  <2> QED BY <2>2 DEF Remote!IInv, Remote!RemoteAnswerIsTrue
<1> QED BY <1>1, RemoteInvariant, PTL

-------------------------------------------------------------------------------
(* The group, of which a behaviour runs one part.                             *)

\* What a local runner reports is true in every behaviour the group has: truth
\* needs a tool that ended by itself, what is published is what was measured, and
\* nothing of a stopped process group is left.
THEOREM LocalAnswersAreTrue == MCSpec => []ToolAnswerIsTrue
<1>1. MCInit => Tool!Init
  BY DEF MCInit
<1>2. [MCNext]_<<part, vars, tvars, rvars>> => [Tool!Next]_(Tool!vars)
  BY DEF MCNext, tvars, Tool!vars, Tool!tool
<1>3. MCSpec => Tool!Spec
  BY <1>1, <1>2, PTL DEF MCSpec, Tool!Spec
<1> QED BY <1>3, ToolAnswersAreTrue, PTL DEF ToolAnswerIsTrue

\* What an SSH runner reports is true in every behaviour the group has, whatever
\* is lost between the two machines: truth and output are of the attempt that
\* claims them, and a replay launders nothing.
THEOREM SSHAnswersAreTrue == MCSpec => []RemoteAnswerIsTrue
<1>1. MCInit => Remote!Init
  BY DEF MCInit
<1>2. [MCNext]_<<part, vars, tvars, rvars>> => [Remote!Next]_(Remote!vars)
  BY DEF MCNext, rvars, Remote!vars, Remote!local, Remote!wire, Remote!remote
<1>3. MCSpec => Remote!Spec
  BY <1>1, <1>2, PTL DEF MCSpec, Remote!Spec
<1> QED BY <1>3, RemoteAnswersAreTrue, PTL DEF RemoteAnswerIsTrue

-------------------------------------------------------------------------------
(* The stages of a snapshot (Project.run), for any number of stages and any   *)
(* bounds.  IInv is proved inductive conjunct by conjunct: each lemma about a  *)
(* step names the actions that can disturb its conjunct; the others are        *)
(* together in its last case.                                                *)

\* The bounds admit the initial values.
LEMMA Bounds == /\ N \in Nat /\ 0 \in 0..N
                /\ 0 \in 0..MaxAttach /\ 0 \in 0..MaxEdits /\ 0 \in 0..MaxFaults
                /\ MaxAttach \in Nat /\ MaxEdits \in Nat /\ MaxFaults \in Nat
  BY StagesOK

\* The record that stands for no run.
LEMMA NoRunType == NoRun \in Run
  BY DEF NoRun, Run

\* The record of a run that was requested.
LEMMA RequestType ==
  ASSUME NEW i \in Nat, NEW c \in Nat, NEW s \in Nat, NEW b \in Nat, NEW ins \in SUBSET Nat
  PROVE  [NoRun EXCEPT !.id = i, !.call = c, !.stage = s, !.ins = ins, !.base = b] \in Run
  BY DEF NoRun, Run

\* The initial state of a bundle in which no stage has been run.
LEMMA InitIInv == Init => IInv
  <1> SUFFICES ASSUME Init PROVE IInv
    OBVIOUS
  <1>1. TypeOK
    BY NoRunType, Bounds DEF Init, TypeOK, PC
  <1>2. Fresh /\ Claims /\ Outputs /\ Directories
    BY DEF Init, Fresh, Claims, Outputs, Directories, Uncommitted, Answered, Staged, NoRun, RunIds
  <1>3. Progress
    BY DEF Init, Progress, GoesOn, Uncommitted
  <1>4. TruthIsAttested /\ AuthorizationIsSpent /\ OutputsAreBacked
    BY DEF Init, TruthIsAttested, AuthorizationIsSpent, OutputsAreBacked, RunIds
  <1>5. StagesInOrder /\ CompleteMeansCommitted
    BY DEF Init, StagesInOrder, CompleteMeansCommitted
  <1> QED
    BY <1>1, <1>2, <1>3, <1>4, <1>5 DEF IInv

\* Every step keeps the types: stages stay in range and runs are well-formed.
LEMMA TypeStep == TypeOK /\ [Next]_vars => TypeOK'
  <1> SUFFICES ASSUME TypeOK, [Next]_vars PROVE TypeOK'
    OBVIOUS
  <1> USE Bounds DEF TypeOK, PC
  <1>1. CASE Begin
    BY <1>1 DEF Begin, files, ledger, rest
  <1>2. CASE Refuse \/ RejectResponse \/ CommitRejected
    BY <1>2, NoRunType DEF Refuse, RejectResponse, CommitRejected, ClearLocals, files, ledger, rest
  <1>3. CASE Accept
    BY <1>3 DEF Accept, files, ledger, rest
  <1>4. CASE NextStage
    <2>1. run' \in Run
      <3>1. \A r \in chained : r.id \in Nat
        BY DEF Run
      <3> DEFINE ins == {r.id : r \in ChainedInto(stage + 1)}
      <3>2. ins \in SUBSET Nat
        BY <3>1 DEF ChainedInto
      <3> HIDE DEF ins
      <3>3. nextId \in Nat /\ call \in Nat /\ stage + 1 \in Nat /\ base \in Nat
        OBVIOUS
      <3>4. run' = [NoRun EXCEPT !.id = nextId, !.call = call, !.stage = stage + 1,
                                !.ins = ins, !.base = base]
        BY <1>4 DEF NextStage, ins
      <3> QED
        BY <3>2, <3>3, <3>4, RequestType, Zenon
    <2>2. stage + 1 \in 0..N /\ nextId + 1 \in Nat
      BY <1>4 DEF NextStage
    <2> QED
      BY <1>4, <2>1, <2>2 DEF NextStage, files, ledger
  <1>5. CASE Look
    BY <1>5 DEF Look, files, ledger, rest
  <1>6. CASE InputFailure
    <2>1. run' \in Run
      BY <1>6 DEF InputFailure, Run
    <2> QED
      BY <1>6, <2>1 DEF InputFailure, files, rest
  <1>7. CASE Launch \/ AcceptResponse
    BY <1>7 DEF Launch, AcceptResponse, files, ledger, locals, rest
  <1>8. CASE StageInputs
    <2>1. run' \in Run
      BY <1>8 DEF StageInputs, Run
    <2>2. run.id \in Nat
      BY DEF Run
    <2> QED
      BY <1>8, <2>1, <2>2, Zenon DEF StageInputs, ledger, rest
  <1>9. CASE ToolEnds
    <2>1. PICK status \in {"succeeded", "failed"}, truth \in BOOLEAN, gate \in BOOLEAN :
            run' = [run EXCEPT !.status = status, !.truth = truth, !.gate = gate]
      BY <1>9, Zenon DEF ToolEnds
    <2>2. run' \in Run
      BY <2>1 DEF Run
    <2>3. outs' \in BOOLEAN /\ pc' = "validate"
      BY <1>9 DEF ToolEnds
    <2> QED
      BY <1>9, <2>2, <2>3 DEF ToolEnds, files, ledger, rest
  <1>10. CASE Classify
    BY <1>10 DEF Classify, files, ledger, rest
  <1>11. CASE Publish
    <2>1. run' \in Run
      <3>1. PICK status \in {"succeeded", "failed"}, gate \in BOOLEAN :
              run' = [run EXCEPT !.status = status, !.gate = gate]
        BY <1>11, Zenon DEF Publish, Run
      <3> QED
        BY <3>1 DEF Run
    <2>2. run.id \in Nat
      BY DEF Run
    <2> QED
      BY <1>11, <2>1, <2>2 DEF Publish, ledger, rest
  <1>12. CASE Authorize \/ Consume
    <2>1. run.id \in Nat
      BY DEF Run
    <2> QED
      BY <1>12, <2>1 DEF Authorize, Consume, files, ledger, locals, rest
  <1>13. CASE Commit
    <2>1. run.id \in Nat
      BY DEF Run
    <2> QED
      BY <1>13, <2>1 DEF Commit, StopNow, files, rest
  <1>14. CASE Cleanup
    BY <1>14 DEF Cleanup, ledger, locals, rest
  <1>15. CASE Return
    <2>1. Returned \in [call : Nat, complete : BOOLEAN, truth : BOOLEAN]
      BY DEF Returned
    <2> QED
      BY <1>15, <2>1, NoRunType DEF Return, ClearLocals, files, ledger
  <1>16. CASE Fault \/ Interrupt
    <2>1. faults' \in 0..MaxFaults
      BY <1>16 DEF Fault, Interrupt
    <2> QED
      BY <1>16, <2>1, NoRunType DEF Fault, Interrupt, ClearLocals, files, ledger
  <1>17. CASE Edit \/ Attach
    <2>1. live' \in Nat /\ attached' \in 0..MaxAttach /\ edits' \in 0..MaxEdits
      BY <1>17 DEF Edit, Attach, rest
    <2>2. UNCHANGED <<cas, dirs, ledger, auth, pc, locals, results, lost, nextId, faults>>
      BY <1>17 DEF Edit, Attach, rest
    <2> QED
      BY <2>1, <2>2 DEF ledger, locals
  <1>18. CASE UNCHANGED vars
    BY <1>18 DEF vars, files, ledger, locals, rest
  <1> QED
    BY <1>1, <1>2, <1>3, <1>4, <1>5, <1>6, <1>7, <1>8, <1>9, <1>10, <1>11, <1>12, <1>13,
       <1>14, <1>15, <1>16, <1>17, <1>18 DEF Next, CallStep

-------------------------------------------------------------------------------
\* The tables of runs, outputs and receipts are written by two actions.
LEMMA Recorders ==
  ASSUME [Next]_vars
  PROVE  InputFailure \/ Commit \/ UNCHANGED ledger
  BY Zenon DEF Next, CallStep, Begin, Refuse, RejectResponse, CommitRejected, Accept, NextStage, Look,
         Launch, AcceptResponse, StageInputs, ToolEnds, Classify, Publish, Authorize, Consume,
         Cleanup, Return, Fault, Interrupt, Edit, Attach, vars, ledger

\* Identifiers are new, and authorizations are for runs that are not recorded.
LEMMA FreshStep ==
  ASSUME TypeOK, Fresh, [Next]_vars
  PROVE  Fresh'
  <1> USE DEF TypeOK, Fresh, RunIds
  <1>0. run.id \in Nat /\ (\A r \in runs : r.id \in Nat /\ r.call \in Nat) /\ NoRun.id = 0
    BY DEF Run, NoRun
  <1>1. CASE Begin
    BY <1>0, <1>1 DEF Begin, Uncommitted, ledger, rest
  <1>2. CASE NextStage
    <2>1. run'.id = nextId /\ run'.call = call /\ run'.stage = stage'
      BY <1>2 DEF NextStage, NoRun
    <2> QED
      BY <1>0, <1>2, <2>1 DEF NextStage, Uncommitted, ledger
  <1>3. CASE InputFailure
    <2>1. run'.id = run.id /\ run'.call = run.call
      BY <1>3 DEF InputFailure, Run
    <2>2. pc \in Uncommitted \ {"consume"} /\ pc' \notin Uncommitted
      BY <1>3 DEF InputFailure, Uncommitted
    <2>3. \A r \in runs' : r \in runs \/ r = run'
      BY <1>3 DEF InputFailure
    <2>4. auth' = auth /\ call' = call /\ nextId' = nextId
      BY <1>3 DEF InputFailure, rest
    <2>5. \A r \in runs' : r.id < nextId' /\ r.call <= call'
      BY <1>0, <2>1, <2>2, <2>3, <2>4
    <2>6. run.id \notin auth
      BY <2>2
    <2>7. \A a \in auth' : a < nextId' /\ a \notin RunIds'
      BY <2>1, <2>3, <2>4, <2>6
    <2> QED
      BY <2>1, <2>2, <2>4, <2>5, <2>7
  <1>4. CASE Authorize
    BY <1>0, <1>4 DEF Authorize, Uncommitted, ledger, rest
  <1>5. CASE Consume
    BY <1>0, <1>5 DEF Consume, Uncommitted, ledger, locals, rest
  <1>6. CASE Commit
    BY <1>0, <1>6 DEF Commit, Uncommitted, rest
  <1>7. CASE Refuse \/ RejectResponse \/ CommitRejected \/ Return \/ Fault \/ Interrupt
    <2>1. run' = NoRun /\ pc' = "idle" /\ auth' \subseteq auth
      BY <1>7 DEF Refuse, RejectResponse, CommitRejected, Return, Fault, Interrupt, ClearLocals
    <2>2. runs' = runs /\ call' = call /\ nextId' = nextId
      BY <1>7 DEF Refuse, RejectResponse, CommitRejected, Return, Fault, Interrupt, ledger, rest
    <2> QED
      BY <1>0, <2>1, <2>2 DEF Uncommitted
  <1>8. CASE StageInputs
    <2>1. run'.id = run.id /\ run'.call = run.call /\ run'.stage = run.stage
      BY <1>8 DEF StageInputs, Run
    <2> QED
      BY <1>0, <1>8, <2>1 DEF StageInputs, Uncommitted, ledger, rest
  <1>9. CASE ToolEnds
    <2>1. run'.id = run.id /\ run'.call = run.call /\ run'.stage = run.stage
      BY <1>9 DEF ToolEnds, Run
    <2> QED
      BY <1>0, <1>9, <2>1 DEF ToolEnds, Uncommitted, ledger, rest
  <1>10. CASE Publish
    <2>1. run'.id = run.id /\ run'.call = run.call /\ run'.stage = run.stage
      BY <1>10 DEF Publish, Run
    <2> QED
      BY <1>0, <1>10, <2>1 DEF Publish, Uncommitted, ledger, rest
  <1>11. CASE Accept \/ Look \/ Launch \/ AcceptResponse \/ Classify \/ Cleanup
    BY <1>0, <1>11 DEF Accept, Look, Launch, AcceptResponse, Classify, Cleanup, Uncommitted,
       ledger, locals, rest
  <1>12. CASE Edit \/ Attach \/ UNCHANGED vars
    BY <1>0, <1>12 DEF Edit, Attach, vars, Uncommitted, ledger, locals, rest
  <1> QED
    BY <1>1, <1>2, <1>3, <1>4, <1>5, <1>6, <1>7, <1>8, <1>9, <1>10, <1>11, <1>12 DEF Next, CallStep

\* The tool read the snapshot's bytes, and only a trusted runner's claim goes on.
LEMMA ClaimsStep ==
  ASSUME TypeOK, Claims, [Next]_vars
  PROVE  Claims'
  <1> USE DEF TypeOK, Claims
  <1>1. CASE Refuse \/ RejectResponse \/ CommitRejected \/ Return \/ Fault \/ Interrupt
    BY <1>1 DEF Refuse, RejectResponse, CommitRejected, Return, Fault, Interrupt, ClearLocals,
       Answered, NoRun
  <1>2. CASE NextStage
    BY <1>2 DEF NextStage, Answered, NoRun
  <1>3. CASE InputFailure
    BY <1>3 DEF InputFailure, Answered, Run
  <1>4. CASE StageInputs
    BY <1>4 DEF StageInputs, Answered, Run
  <1>5. CASE ToolEnds
    BY <1>5 DEF ToolEnds, Answered, Run
  <1>6. CASE AcceptResponse
    BY <1>6 DEF AcceptResponse, Answered
  <1>7. CASE Publish
    BY <1>7 DEF Publish, Answered, Run
  <1>8. CASE Begin \/ Accept \/ Look \/ Launch \/ Classify \/ Authorize \/ Consume \/ Commit \/ Cleanup
    BY <1>8 DEF Begin, Accept, Look, Launch, Classify, Authorize, Consume, Commit, Cleanup,
       Answered, locals
  <1>9. CASE Edit \/ Attach \/ UNCHANGED vars
    BY <1>9 DEF Edit, Attach, vars, Answered, locals
  <1> QED
    BY <1>1, <1>2, <1>3, <1>4, <1>5, <1>6, <1>7, <1>8, <1>9 DEF Next, CallStep

\* Outputs come from succeeded executions, and are stored before the commit.
LEMMA OutputsStep ==
  ASSUME TypeOK, Outputs, Fresh, [Next]_vars
  PROVE  Outputs'
  <1> USE DEF TypeOK, Outputs
  <1>1. CASE Refuse \/ RejectResponse \/ CommitRejected \/ Return \/ Fault \/ Interrupt
    BY <1>1 DEF Refuse, RejectResponse, CommitRejected, Return, Fault, Interrupt, ClearLocals
  <1>2. CASE NextStage
    BY <1>2 DEF NextStage
  <1>3. CASE InputFailure
    BY <1>3 DEF InputFailure
  <1>4. CASE StageInputs
    BY <1>4 DEF StageInputs
  <1>5. CASE ToolEnds
    BY <1>5 DEF ToolEnds, Run
  <1>6. CASE Classify
    BY <1>6 DEF Classify, files
  <1>7. CASE Publish
    BY <1>7 DEF Publish, Run
  <1>8. CASE Begin \/ Accept \/ Look \/ Launch \/ AcceptResponse
    BY <1>8 DEF Begin, Accept, Look, Launch, AcceptResponse, files, locals
  <1>9. CASE Authorize \/ Consume \/ Commit \/ Cleanup
    BY <1>9 DEF Authorize, Consume, Commit, Cleanup, files, locals
  <1>10. CASE Edit \/ Attach \/ UNCHANGED vars
    BY <1>10 DEF Edit, Attach, vars, files, locals
  <1> QED
    BY <1>1, <1>2, <1>3, <1>4, <1>5, <1>6, <1>7, <1>8, <1>9, <1>10 DEF Next, CallStep

\* At most the directory of the run under way is not yet given up.
LEMMA DirectoriesStep ==
  ASSUME TypeOK, Directories, [Next]_vars
  PROVE  Directories'
  <1> USE DEF TypeOK, Directories
  <1>1. CASE Refuse \/ RejectResponse \/ CommitRejected \/ Return \/ Fault
    BY <1>1 DEF Refuse, RejectResponse, CommitRejected, Return, Fault, Raises, ClearLocals, Staged,
       Answered, files, rest
  <1>2. CASE Interrupt
    BY <1>2 DEF Interrupt, ClearLocals, Staged, Answered, files
  <1>3. CASE NextStage
    BY <1>3 DEF NextStage, Staged, Answered, files
  <1>4. CASE InputFailure
    BY <1>4 DEF InputFailure, Staged, Answered, files, rest, Run
  <1>5. CASE StageInputs
    BY <1>5 DEF StageInputs, Staged, Answered, rest, Run
  <1>6. CASE ToolEnds
    BY <1>6 DEF ToolEnds, Staged, Answered, files, rest, Run
  <1>7. CASE Publish
    BY <1>7 DEF Publish, Staged, Answered, rest, Run
  <1>8. CASE Begin \/ Accept \/ Look \/ Launch \/ AcceptResponse
    BY <1>8 DEF Begin, Accept, Look, Launch, AcceptResponse, Staged, Answered, files, locals, rest
  <1>9. CASE Classify \/ Authorize \/ Consume \/ Commit
    BY <1>9 DEF Classify, Authorize, Consume, Commit, Staged, Answered, files, locals, rest
  <1>10. CASE Cleanup
    BY <1>10 DEF Cleanup, Staged, Answered, locals, rest
  <1>11. CASE Edit \/ Attach \/ UNCHANGED vars
    BY <1>11 DEF Edit, Attach, vars, Staged, Answered, files, locals, rest
  <1> QED
    BY <1>1, <1>2, <1>3, <1>4, <1>5, <1>6, <1>7, <1>8, <1>9, <1>10, <1>11 DEF Next, CallStep

\* Stages follow each other: a step of the call keeps what is known of the stages
\* that passed, and only a committed run that passed adds to it.
LEMMA ProgressStep ==
  ASSUME TypeOK, Fresh, Progress, [Next]_vars
  PROVE  Progress'
  <1> USE DEF TypeOK, Progress, GoesOn
  <1>0. N \in Nat /\ stage \in Nat
    BY Bounds
  <1>1. CASE Begin
    <2>1. \A q \in runs : q.call <= call /\ q.call \in Nat
      BY DEF Fresh, Run
    <2> QED
      BY <1>1, <2>1 DEF Begin, Uncommitted, ledger
  <1>2. CASE Refuse \/ RejectResponse \/ CommitRejected \/ Return \/ Fault \/ Interrupt
    BY <1>2 DEF Refuse, RejectResponse, CommitRejected, Return, Fault, Interrupt, ClearLocals,
       Uncommitted
  <1>3. CASE Accept
    BY <1>3, <1>0 DEF Accept, Passed, Uncommitted, ledger
  <1>4. CASE NextStage
    <2>1. run'.ins = {r.id : r \in ChainedInto(stage + 1)}
      BY <1>4 DEF NextStage, NoRun
    <2>2. stage' = stage + 1 /\ stage' \in Stages /\ stage' - 1 = stage
      BY <1>4, <1>0 DEF NextStage, Stages
    <2>3. Passed(stage) /\ UNCHANGED <<runs, arts, chained, done, call, stop>>
      BY <1>4 DEF NextStage, ledger
    <2>4. \A r \in chained : r \in runs /\ r.id \in arts /\ r.call = call /\ r.stage < stage'
      BY <1>0, <2>2, <2>3 DEF Passed, Run
    <2>5. \A i \in run'.ins : i \in arts' /\
            \E q \in runs' : q.id = i /\ q.call = call' /\ q.stage < stage'
      BY <2>1, <2>3, <2>4 DEF ChainedInto
    <2>6. Passed(stage - 1)'
      BY <2>2, <2>3 DEF Passed
    <2>7. pc = "next" /\ pc' = "pre"
      BY <1>4 DEF NextStage
    <2> QED
      BY <2>2, <2>3, <2>5, <2>6, <2>7 DEF Uncommitted
  <1>5. CASE InputFailure
    BY <1>5 DEF InputFailure, Uncommitted
  <1>6. CASE StageInputs
    <2>1. run'.ins = run.ins
      BY <1>6 DEF StageInputs, Run
    <2> QED
      BY <1>6, <2>1 DEF StageInputs, Passed, Uncommitted, ledger
  <1>7. CASE ToolEnds
    <2>1. run'.ins = run.ins
      BY <1>7 DEF ToolEnds, Run
    <2> QED
      BY <1>7, <2>1 DEF ToolEnds, Passed, Uncommitted, ledger
  <1>8. CASE Classify
    BY <1>8 DEF Classify, Passed, Uncommitted, ledger
  <1>9. CASE Publish
    <2>1. run'.ins = run.ins
      BY <1>9 DEF Publish, Run
    <2>2. run \notin runs
      BY <1>9 DEF Publish, Fresh, RunIds, Uncommitted
    <2>3. Passed(stage - 1)'
      BY <1>9, <2>2 DEF Publish, Passed, Uncommitted, ledger
    <2> QED
      BY <1>9, <2>1, <2>3 DEF Publish, Uncommitted, ledger
  <1>10. CASE Commit
    <2>1. run.call = call /\ run.stage = stage /\ stage \in Stages /\ Passed(stage - 1) /\ run \in done
      BY <1>10 DEF Commit, Fresh, Uncommitted
    <2>2. ASSUME ~stop' PROVE Passed(stage)'
      <3>1. run.status = "succeeded" /\ run.gate
        BY <1>10, <2>2 DEF Commit, StopNow
      <3>2. \A q \in runs' : q.call = call' => q.stage <= stage' /\ q.status = "succeeded" /\ q.gate
        BY <1>0, <1>10, <2>1, <3>1 DEF Commit, Passed, Run
      <3>3. \A r \in chained' : r \in runs' /\ r.id \in arts' /\ r.call = call'
        BY <1>10, <2>1 DEF Commit, Passed
      <3>4. \A s \in 1..stage' : \E r \in done' : r \in runs' /\ r.stage = s /\ r.call = call'
        <4> SUFFICES ASSUME NEW s \in 1..stage
                     PROVE  \E r \in done : r \in runs' /\ r.stage = s /\ r.call = call
          BY <1>10 DEF Commit
        <4>1. CASE s = stage
          BY <4>1, <2>1, <1>10 DEF Commit
        <4>2. CASE s \in 1..(stage - 1)
          BY <4>2, <2>1, <1>10 DEF Commit, Passed
        <4> QED
          BY <4>1, <4>2, <1>0
      <3> QED
        BY <3>2, <3>3, <3>4 DEF Passed
    <2> QED
      BY <1>10, <2>2 DEF Commit, Uncommitted
  <1>11. CASE Cleanup
    BY <1>11 DEF Cleanup, Passed, Uncommitted, ledger, locals
  <1>12. CASE Look
    BY <1>12 DEF Look, Passed, Uncommitted, ledger
  <1>13. CASE Launch \/ AcceptResponse
    BY <1>13 DEF Launch, AcceptResponse, Passed, Uncommitted, ledger, locals
  <1>14. CASE Authorize \/ Consume
    BY <1>14 DEF Authorize, Consume, Passed, Uncommitted, ledger, locals
  <1>15. CASE Edit \/ Attach \/ UNCHANGED vars
    BY <1>15 DEF Edit, Attach, vars, Passed, ledger, locals
  <1> QED
    BY <1>1, <1>2, <1>3, <1>4, <1>5, <1>6, <1>7, <1>8, <1>9, <1>10, <1>11, <1>12, <1>13, <1>14,
       <1>15 DEF Next, CallStep

-------------------------------------------------------------------------------
\* What the two recording actions do to the ledger: one row is added, that of
\* the run under way, and it is new.
LEMMA OneRow ==
  ASSUME TypeOK, Fresh, Claims, Progress, InputFailure \/ Commit
  PROVE  /\ run' \in Run /\ run'.id = run.id /\ run'.call = call /\ run'.stage = stage
         /\ run'.ins = run.ins /\ run'.used = 0
         /\ run.id \notin RunIds
         /\ runs' = runs \cup {run'} /\ run' \notin runs
         /\ RunIds' = RunIds \cup {run.id}
         /\ \A r \in runs : r.id # run.id
         /\ Passed(stage - 1) /\ stage \in Stages
         /\ \A i \in run.ins : i \in arts /\
              \E q \in runs : q.id = i /\ q.call = call /\ q.stage < stage
  <1>1. pc \in Uncommitted
    BY DEF InputFailure, Commit, Uncommitted
  <1>2. run.call = call /\ run.stage = stage /\ run.id \notin RunIds /\ run.used = 0
    BY <1>1 DEF Fresh, Claims
  <1>3. /\ run' \in Run /\ run'.id = run.id /\ run'.call = run.call /\ run'.stage = run.stage
        /\ run'.ins = run.ins /\ run'.used = run.used
    BY DEF InputFailure, Commit, TypeOK, Run
  <1>4. runs' = runs \cup {run'}
    BY DEF InputFailure, Commit
  <1>5. RunIds' = RunIds \cup {run.id} /\ (\A r \in runs : r.id # run.id) /\ run' \notin runs
    BY <1>2, <1>3, <1>4 DEF RunIds
  <1> QED
    BY <1>1, <1>2, <1>3, <1>4, <1>5 DEF Progress

\* Truth is recorded together with its receipt, or not at all.
LEMMA TruthStep ==
  ASSUME TypeOK, Fresh, Claims, Progress, TruthIsAttested, [Next]_vars
  PROVE  TruthIsAttested'
  <1> USE DEF TruthIsAttested
  <1>1. CASE InputFailure
    <2>1. ~run'.truth /\ receipts' = receipts
      BY <1>1 DEF InputFailure, TypeOK, Run
    <2> QED
      BY <1>1, <2>1, OneRow
  <1>2. CASE Commit
    <2>1. run' = run /\ receipts' = IF run.truth THEN receipts \cup {run.id} ELSE receipts
      BY <1>2 DEF Commit
    <2>2. run.truth => Trusted
      BY <1>2 DEF Commit, Claims, Answered
    <2> QED
      BY <1>2, <2>1, <2>2, OneRow
  <1>3. CASE UNCHANGED ledger
    BY <1>3 DEF ledger, RunIds
  <1> QED
    BY <1>1, <1>2, <1>3, Recorders

\* An output's bytes are in the store when its row is committed, and stay there.
LEMMA BackedStep ==
  ASSUME TypeOK, Fresh, Claims, Outputs, Progress, OutputsAreBacked, [Next]_vars
  PROVE  OutputsAreBacked'
  <1> USE DEF OutputsAreBacked
  <1>1. cas \subseteq cas'
    BY Zenon DEF Next, CallStep, Begin, Refuse, RejectResponse, CommitRejected, Accept, NextStage, Look,
         Launch, InputFailure, AcceptResponse, StageInputs, ToolEnds, Classify, Publish, Authorize,
         Consume, Commit, Cleanup, Return, Fault, Interrupt, Edit, Attach, vars, files
  <1>2. CASE InputFailure
    <2>1. arts' = arts
      BY <1>2 DEF InputFailure
    <2> QED
      BY <1>1, <1>2, <2>1, OneRow
  <1>3. CASE Commit
    <2>1. arts' = IF outs THEN arts \cup {run.id} ELSE arts
      BY <1>3 DEF Commit
    <2>2. outs => run.id \in cas
      BY <1>3 DEF Commit, Outputs
    <2> QED
      BY <1>1, <1>3, <2>1, <2>2, OneRow
  <1>4. CASE UNCHANGED ledger
    BY <1>1, <1>4 DEF ledger, RunIds
  <1> QED
    BY <1>2, <1>3, <1>4, Recorders

\* A new row comes after every row of its call, all of which passed.
LEMMA OrderStep ==
  ASSUME TypeOK, Fresh, Claims, Progress, StagesInOrder, [Next]_vars
  PROVE  StagesInOrder'
  <1> USE DEF StagesInOrder
  <1>1. CASE InputFailure \/ Commit
    <2>1. arts \subseteq arts' /\ runs' = runs \cup {run'}
      BY <1>1, OneRow DEF InputFailure, Commit
    <2>2. \A q \in runs : q.stage \in Nat /\ q.call \in Nat
      BY DEF TypeOK, Run
    <2>3. stage \in Nat
      BY Bounds DEF TypeOK
    <2>4. \A q \in runs : q.call = call => q.stage < stage /\ q.status = "succeeded" /\ q.gate
      BY <1>1, <2>2, <2>3, OneRow DEF Passed
    <2>5. \A r \in runs' : \A i \in r.ins :
            i \in arts' /\ \E q \in runs' : q.id = i /\ q.call = r.call /\ q.stage < r.stage
      <3>1. ASSUME NEW r \in runs, NEW i \in r.ins
            PROVE  i \in arts' /\ \E q \in runs' : q.id = i /\ q.call = r.call /\ q.stage < r.stage
        BY <2>1
      <3>2. ASSUME NEW i \in run'.ins
            PROVE  i \in arts' /\ \E q \in runs' : q.id = i /\ q.call = run'.call /\ q.stage < run'.stage
        BY <1>1, <2>1, OneRow
      <3> QED
        BY <2>1, <3>1, <3>2
    <2>6. ASSUME NEW r \in runs', NEW q \in runs', r.call = q.call, r.stage < q.stage
          PROVE  r.status = "succeeded" /\ r.gate
      <3>1. run'.call = call /\ run'.stage = stage
        BY <1>1, OneRow
      <3>2. CASE r \in runs /\ q \in runs
        BY <2>6, <3>2
      <3>3. CASE r \in runs /\ q = run'
        BY <2>4, <2>6, <3>1, <3>3
      <3>4. CASE r = run'
        BY <2>1, <2>2, <2>3, <2>4, <2>6, <3>1, <3>4
      <3> QED
        BY <2>1, <3>2, <3>3, <3>4
    <2> QED
      BY <2>5, <2>6
  <1>2. CASE UNCHANGED ledger
    BY <1>2 DEF ledger
  <1> QED
    BY <1>1, <1>2, Recorders

\* A call that returns "complete" did not stop, so every stage of it passed.
LEMMA CompleteStep ==
  ASSUME TypeOK, Progress, TruthIsAttested, CompleteMeansCommitted, [Next]_vars
  PROVE  CompleteMeansCommitted'
  <1>1. runs \subseteq runs' /\ receipts \subseteq receipts'
    BY Recorders DEF InputFailure, Commit, ledger
  <1>2. ASSUME NEW x \in results, x.complete, NEW s \in Stages
        PROVE  \E r \in runs' : /\ r.call = x.call /\ r.stage = s /\ r.status = "succeeded"
                                /\ x.truth => r.id \in receipts'
    BY <1>1, <1>2 DEF CompleteMeansCommitted
  <1>3. CASE Return
    <2>1. ASSUME Returned.complete, NEW s \in Stages
          PROVE  \E r \in runs : /\ r.call = Returned.call /\ r.stage = s /\ r.status = "succeeded"
                                 /\ Returned.truth => r.id \in receipts
      <3>1. /\ ~stop /\ Returned.call = call
            /\ \A r \in done : r.status = "succeeded" /\ (Returned.truth => r.truth)
        BY <2>1 DEF Returned
      <3>2. pc = "next" /\ stage = N
        BY <1>3, <3>1 DEF Return, Progress
      <3>3. Passed(N)
        BY <3>2 DEF Progress, GoesOn
      <3>4. PICK r \in done : r \in runs /\ r.stage = s /\ r.call = call
        BY <3>3 DEF Passed, Stages
      <3> QED
        BY <3>1, <3>4 DEF TruthIsAttested
    <2>2. results' = results \cup {Returned} /\ UNCHANGED <<runs, receipts>>
      BY <1>3 DEF Return, ledger
    <2> QED
      BY <1>2, <2>1, <2>2 DEF CompleteMeansCommitted
  <1>4. CASE UNCHANGED results
    BY <1>2, <1>4 DEF CompleteMeansCommitted
  <1>5. Return \/ UNCHANGED results
    BY Zenon DEF Next, CallStep, Begin, Refuse, RejectResponse, CommitRejected, Accept, NextStage,
       Look, Launch, InputFailure, AcceptResponse, StageInputs, ToolEnds, Classify, Publish,
       Authorize, Consume, Commit, Cleanup, Fault, Interrupt, Edit, Attach, vars, rest
  <1> QED
    BY <1>3, <1>4, <1>5

\* Every step keeps the whole invariant.
LEMMA StepIInv ==
  ASSUME IInv, [Next]_vars
  PROVE  IInv'
  <1> USE DEF IInv
  <1>1. TypeOK' /\ Fresh' /\ Claims' /\ Outputs' /\ Progress' /\ Directories'
    BY TypeStep, FreshStep, ClaimsStep, OutputsStep, ProgressStep, DirectoriesStep
  <1>2. TruthIsAttested' /\ OutputsAreBacked' /\ StagesInOrder' /\ CompleteMeansCommitted'
    BY TruthStep, BackedStep, OrderStep, CompleteStep
  <1>3. AuthorizationIsSpent'
    BY <1>1, <1>2 DEF Fresh, TruthIsAttested, AuthorizationIsSpent
  <1> QED
    BY <1>1, <1>2, <1>3

-------------------------------------------------------------------------------
\* The invariant that the properties of Project.run rest on holds in every
\* reachable state, for any number of stages, calls, edits and failures.
THEOREM StageInvariant == Spec => []IInv
  BY InitIInv, StepIInv, PTL DEF Spec

\* A run in the ledger claims tool truth exactly when it has a receipt, and then
\* a built-in runner's tool read the bytes that the snapshot records.
THEOREM TruthAlwaysAttested == Spec => []TruthIsAttested
  <1>1. IInv => TruthIsAttested
    BY DEF IInv
  <1> QED
    BY <1>1, StageInvariant, PTL

\* No authorization is left for a run that was committed with a receipt.
THEOREM AuthorizationAlwaysSpent == Spec => []AuthorizationIsSpent
  <1>1. IInv => AuthorizationIsSpent
    BY DEF IInv
  <1> QED
    BY <1>1, StageInvariant, PTL

\* Every output row has its producer's row and its bytes in the store.
THEOREM OutputsAlwaysBacked == Spec => []OutputsAreBacked
  <1>1. IInv => OutputsAreBacked
    BY DEF IInv
  <1> QED
    BY <1>1, StageInvariant, PTL

\* Stages consume outputs of earlier passed stages of their own call only.
THEOREM StagesAlwaysInOrder == Spec => []StagesInOrder
  <1>1. IInv => StagesInOrder
    BY DEF IInv
  <1> QED
    BY <1>1, StageInvariant, PTL

\* "complete" is returned only when the ledger holds every stage's passed run.
THEOREM CompleteIsCommitted == Spec => []CompleteMeansCommitted
  <1>1. IInv => CompleteMeansCommitted
    BY DEF IInv
  <1> QED
    BY <1>1, StageInvariant, PTL

\* No call leaves a staging directory behind unless it was interrupted.
THEOREM StagingAlwaysCleaned == Spec => []StagingIsCleaned
  <1>1. IInv => StagingIsCleaned
    BY DEF IInv, Directories, Staged, Answered, StagingIsCleaned
  <1> QED
    BY <1>1, StageInvariant, PTL

===============================================================================
