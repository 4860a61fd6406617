----------------------------- MODULE ToolExecution -----------------------------
(***************************************************************************)
(* One execution of a tool by LocalRunner (runner/core.py), its process     *)
(* group, the orchestrator's validation of the answer and the removal of    *)
(* the staging directory.                                                   *)
(*                                                                          *)
(* The tool is a leader process that may start others.  They share its      *)
(* process group unless they leave it, and write the declared output in the *)
(* staging directory for as long as they live.  The runner learns about     *)
(* them by polling the leader, by the exit status of a probe, or, without a *)
(* monitor, by the end of the pipes that they hold.  Time is two flags: the *)
(* deadline has passed, the next probe is due.                              *)
(***************************************************************************)
EXTENDS Naturals, FiniteSets, RunnerAnswer

CONSTANTS
    Kids,        \* processes that the leader may start
    Escaped,     \* those of them that leave its process group
    MaxWrites    \* bound on writes to the output

\* What the constants are.
KidsOK == Escaped \subseteq Kids /\ "leader" \notin Kids /\ MaxWrites \in Nat

Procs == Kids \cup {"leader"}

VARIABLES
    conf,       \* how the runner was built and where it runs
    live,       \* processes of the tool that run
    open,       \* those that hold a pipe which the runner reads
    code,       \* what the leader's exit status is or will be
    stuck,      \* processes that the kernel does not let die
    expired, due,
    out,        \* version of the output file, 0 when there is none
    dir,        \* the staging directory: "none", "made", "listed"
    \* the runner
    pc, mon, why, signalled, taken, answer, published

vars == <<conf, live, open, code, stuck, expired, due, out, dir, pc, mon, why, signalled, taken, answer, published>>
tool == <<live, open, code, stuck, expired, due, out>>

Configuration == [allowed : BOOLEAN, guarded : BOOLEAN, monitored : BOOLEAN, windows : BOOLEAN]

TypeOK ==
    /\ conf \in Configuration
    /\ live \subseteq Procs /\ open \subseteq live /\ stuck \subseteq live
    /\ code \in {"none", "zero", "nonzero", "killed"}
    /\ expired \in BOOLEAN /\ due \in BOOLEAN
    /\ out \in 0..MaxWrites /\ taken \in 0..MaxWrites /\ published \in 0..MaxWrites
    /\ dir \in {"none", "made", "listed"}
    /\ pc \in {"idle", "guard", "spawn", "loop", "poll", "deadline", "pipes", "drain", "term", "grace",
               "kill", "reap", "collect", "validate", "publish", "list", "remove", "done"}
    /\ mon \in Monitors /\ why \in Classes /\ signalled \in BOOLEAN
    /\ answer \in Answer

Init ==
    /\ conf \in Configuration
    /\ live = {} /\ open = {} /\ code = "none" /\ stuck = {} /\ expired = FALSE /\ due = TRUE
    /\ out = 0 /\ dir = "none"
    /\ pc = "idle" /\ why = "none" /\ signalled = FALSE /\ taken = 0 /\ published = 0
    /\ mon = IF conf.monitored THEN "unchecked" ELSE "absent"
    /\ answer = NoAnswer

-------------------------------------------------------------------------------
(* Before the tool runs.                                                      *)

Unchecked == IF conf.guarded THEN "unchecked" ELSE "absent"
Passed == IF conf.guarded THEN "passed" ELSE "absent"

\* The runner's answer goes to the orchestrator.
Reply(class, truth, fresh, guard, m) ==
    /\ answer' = [class |-> class, truth |-> truth, fresh |-> fresh, guard |-> guard, mon |-> m]
    /\ pc' = "validate"

\* Execution is not enabled: a skipped run.
Disabled ==
    /\ pc = "idle" /\ ~conf.allowed
    /\ Reply("unsupported", FALSE, FALSE, Unchecked, mon)
    /\ UNCHANGED <<conf, tool, dir, mon, why, signalled, taken, published>>

\* create_run_directory and the verified copies of the inputs.
Stage ==
    /\ pc = "idle" /\ conf.allowed
    /\ \/ dir' = "made" /\ pc' = "guard" /\ UNCHANGED answer
       \/ /\ dir' \in {"none", "made"}
          /\ \E class \in {"input", "infrastructure"} : Reply(class, FALSE, FALSE, Unchecked, mon)
    /\ UNCHANGED <<conf, tool, mon, why, signalled, taken, published>>

\* The resource guard passes, rejects or times out, or cannot start.
CheckGuard ==
    /\ pc = "guard"
    /\ \/ pc' = "spawn" /\ UNCHANGED answer
       \/ conf.guarded /\ Reply("guard", FALSE, FALSE, "rejected", mon)
       \/ conf.guarded /\ Reply("infrastructure", FALSE, FALSE, "unchecked", mon)
    /\ UNCHANGED <<conf, tool, dir, mon, why, signalled, taken, published>>

\* Popen; the first probe is due at once.
Spawn ==
    /\ pc = "spawn"
    /\ \/ /\ live' = {"leader"}
          /\ open' = IF conf.monitored THEN {} ELSE {"leader"}
          /\ pc' = IF conf.monitored THEN "loop" ELSE "pipes"
          /\ UNCHANGED answer
       \/ /\ Reply("infrastructure", FALSE, FALSE, Passed, mon)
          /\ UNCHANGED <<live, open>>
    /\ UNCHANGED <<conf, code, stuck, expired, due, out, dir, mon, why, signalled, taken, published>>

-------------------------------------------------------------------------------
(* _run_monitored_process.                                                    *)

\* The probe of the process group, whether or not its leader still runs.
Probe ==
    /\ pc = "loop" /\ due
    /\ \/ mon' = "passed" /\ due' = FALSE /\ pc' = "poll" /\ UNCHANGED why
       \/ /\ mon' = "triggered" /\ pc' = "term"
          /\ why' \in {"guard", "resource", "infrastructure"}
          /\ UNCHANGED due
    /\ UNCHANGED <<conf, live, open, code, stuck, expired, out, dir, signalled, taken, answer, published>>

NotDue ==
    /\ pc = "loop" /\ ~due
    /\ pc' = "poll"
    /\ UNCHANGED <<conf, tool, dir, mon, why, signalled, taken, answer, published>>

Poll ==
    /\ pc = "poll"
    /\ pc' = IF "leader" \in live THEN "deadline" ELSE "collect"
    /\ UNCHANGED <<conf, tool, dir, mon, why, signalled, taken, answer, published>>

\* (mutant) A leader that has ended by the deadline is still a success.
DeadlineLenient ==
    /\ pc = "deadline"
    /\ IF expired THEN pc' = "term" /\ UNCHANGED why ELSE pc' = "loop" /\ UNCHANGED why
    /\ UNCHANGED <<conf, tool, dir, mon, signalled, taken, answer, published>>

Deadline ==
    /\ pc = "deadline"
    /\ IF expired THEN pc' = "term" /\ why' = "timeout" ELSE pc' = "loop" /\ UNCHANGED why
    /\ UNCHANGED <<conf, tool, dir, mon, signalled, taken, answer, published>>

-------------------------------------------------------------------------------
(* subprocess.run without a monitor.  communicate() reads the pipes, which    *)
(* every descendant inherits, to their end and then waits for the leader.     *)

\* A tool may close its standard streams and go on.
CloseStreams ==
    /\ pc \in {"pipes", "drain"}
    /\ \E p \in open \ stuck : open' = open \ {p}
    /\ UNCHANGED <<conf, live, code, stuck, expired, due, out, dir, pc, mon, why, signalled, taken, answer, published>>

Communicated == open = {} /\ "leader" \notin live

PipesClosed ==
    /\ pc = "pipes" /\ Communicated
    /\ pc' = "collect"
    /\ UNCHANGED <<conf, tool, dir, mon, why, signalled, taken, answer, published>>

\* The leader alone is killed, if the kernel lets it die.
PipesTimeout ==
    /\ pc = "pipes"
    /\ expired /\ ~Communicated
    /\ why' = "timeout"
    /\ \/ /\ live' = live \ {"leader"} /\ open' = open \ {"leader"}
          /\ code' = IF "leader" \in live THEN "killed" ELSE code
          /\ signalled' = ("leader" \in live)
          /\ UNCHANGED stuck
       \/ /\ "leader" \in live
          /\ stuck' = {"leader"} /\ signalled' = TRUE
          /\ UNCHANGED <<live, open, code>>
    /\ pc' = "drain"
    /\ UNCHANGED <<conf, expired, due, out, dir, mon, taken, answer, published>>

\* (mutant) communicate() again, wherever the runner runs.
DrainedAnywhere == Communicated

\* What ends the call after the kill: a wait for the leader, and on Windows the
\* end of the pipes as well.  Neither has a timeout.
Drained == IF conf.windows THEN Communicated ELSE "leader" \notin live

PipesEnd ==
    /\ pc = "drain" /\ Drained
    /\ pc' = "collect"
    /\ open' = {}
    /\ UNCHANGED <<conf, live, code, stuck, expired, due, out, dir, mon, why, signalled, taken, answer, published>>

-------------------------------------------------------------------------------
(* _terminate_process_group.                                                  *)

Group == live \ Escaped

Dies(S) ==
    /\ live' = live \ S
    /\ code' = IF "leader" \in S THEN "killed" ELSE code
    /\ signalled' = TRUE

\* SIGTERM to the group: a process may catch it.
Terminate ==
    /\ pc = "term" /\ ~conf.windows
    /\ \E S \in SUBSET Group : Dies(S)
    /\ pc' = "grace"
    /\ UNCHANGED <<conf, open, stuck, expired, due, out, dir, mon, why, taken, answer, published>>

\* taskkill of the tree below the leader, which finds nobody when the leader has
\* ended and may fail; or the leader alone.
TaskKill ==
    /\ pc = "term" /\ conf.windows
    /\ \E S \in SUBSET live : Dies(S)
    /\ pc' = "reap"
    /\ UNCHANGED <<conf, open, stuck, expired, due, out, dir, mon, why, taken, answer, published>>

\* The grace period: wait for the leader, or half a second.
Grace ==
    /\ pc = "grace"
    /\ pc' = "kill"
    /\ UNCHANGED <<conf, tool, dir, mon, why, signalled, taken, answer, published>>

\* SIGKILL to the group, also when its leader has ended.
Kill ==
    /\ pc = "kill"
    /\ \E S \in SUBSET Group :
         /\ stuck' = S
         /\ Dies(Group \ S)
    /\ pc' = "reap"
    /\ UNCHANGED <<conf, open, expired, due, out, dir, mon, why, taken, answer, published>>

\* Bounded waits for the leader, which may be in vain.
Reap ==
    /\ pc = "reap"
    /\ pc' = "collect"
    /\ UNCHANGED <<conf, tool, dir, mon, why, signalled, taken, answer, published>>

-------------------------------------------------------------------------------
(* The answer, its validation, and what becomes of the output.                *)

\* A trigger is reported before a timeout, and that before an exit status.  The
\* declared output is read and hashed when the leader returned 0; it may be
\* missing, or no regular file.
Collect ==
    /\ pc = "collect"
    /\ \/ /\ mon = "triggered"
          /\ Reply(why, FALSE, TRUE, Passed, mon) /\ UNCHANGED taken
       \/ /\ mon # "triggered" /\ why = "timeout"
          /\ Reply("timeout", FALSE, TRUE, Passed, mon) /\ UNCHANGED taken
       \/ /\ mon # "triggered" /\ why # "timeout" /\ code # "zero"
          /\ Reply("design", TRUE, TRUE, Passed, mon) /\ UNCHANGED taken
       \/ /\ mon # "triggered" /\ why # "timeout" /\ code = "zero"
          /\ \/ Reply("none", TRUE, TRUE, Passed, mon) /\ taken' = out
             \/ out # 0 /\ Reply("input", FALSE, TRUE, Passed, mon) /\ UNCHANGED taken
    /\ UNCHANGED <<conf, tool, dir, mon, why, signalled, published>>

\* The staged bytes are read again and compared with the answer's hash.
Unchanged == taken # 0 => out = taken

Validate ==
    /\ pc = "validate"
    /\ IF Consistent(answer) /\ Unchanged
       THEN pc' = IF answer.class = "none" /\ taken # 0 THEN "publish" ELSE "list"
       ELSE pc' = "list"
    /\ UNCHANGED <<conf, tool, dir, mon, why, signalled, taken, answer, published>>

\* _commit_declared_run_outputs reads them a third time; "staged output changed
\* before commit" leaves the call.
Publish ==
    /\ pc = "publish"
    /\ published' = IF Unchanged THEN out ELSE 0
    /\ pc' = "list"
    /\ UNCHANGED <<conf, tool, dir, mon, why, signalled, taken, answer>>

\* remove_run_directory: the entries are listed, each one is removed, and then
\* the directory, which fails if something was written to it meanwhile, and on
\* Windows also while a process has a file of it open.
ListDirectory ==
    /\ pc = "list"
    /\ dir' = IF dir = "none" THEN "none" ELSE "listed"
    /\ pc' = "remove"
    /\ UNCHANGED <<conf, tool, mon, why, signalled, taken, answer, published>>

RemoveDirectory ==
    /\ pc = "remove"
    /\ \/ /\ dir' = IF dir = "listed" THEN "none" ELSE dir
          /\ out' = IF dir = "listed" THEN 0 ELSE out
       \/ conf.windows /\ live # {} /\ UNCHANGED <<dir, out>>
    /\ pc' = "done"
    /\ UNCHANGED <<conf, live, open, code, stuck, expired, due, mon, why, signalled, taken, answer, published>>

-------------------------------------------------------------------------------
(* The tool's processes, and time.                                            *)

Fork ==
    /\ "leader" \in live \ stuck
    /\ \E k \in Kids \ live :
         /\ live' = live \cup {k}
         /\ open' = IF "leader" \in open THEN open \cup {k} ELSE open
    /\ UNCHANGED <<conf, code, stuck, expired, due, out, dir, pc, mon, why, signalled, taken, answer, published>>

Exit ==
    /\ \E p \in live \ stuck :
         /\ live' = live \ {p} /\ open' = open \ {p}
         /\ IF p = "leader" THEN code' \in {"zero", "nonzero"} ELSE UNCHANGED code
    /\ UNCHANGED <<conf, stuck, expired, due, out, dir, pc, mon, why, signalled, taken, answer, published>>

\* A write makes a directory that is being removed non-empty again.
Write ==
    /\ live \ stuck # {} /\ dir # "none" /\ out < MaxWrites
    /\ out' = out + 1
    /\ dir' = "made"
    /\ UNCHANGED <<conf, live, open, code, stuck, expired, due, pc, mon, why, signalled, taken, answer, published>>

Expire ==
    /\ live # {} /\ ~expired /\ expired' = TRUE
    /\ UNCHANGED <<conf, live, open, code, stuck, due, out, dir, pc, mon, why, signalled, taken, answer, published>>

ProbeDue ==
    /\ pc = "deadline" /\ ~due /\ due' = TRUE
    /\ UNCHANGED <<conf, live, open, code, stuck, expired, out, dir, pc, mon, why, signalled, taken, answer, published>>

-------------------------------------------------------------------------------
RunnerStep ==
    \/ Disabled \/ Stage \/ CheckGuard \/ Spawn \/ Probe \/ NotDue \/ Poll \/ Deadline
    \/ PipesClosed \/ PipesTimeout \/ PipesEnd \/ Terminate \/ TaskKill \/ Grace \/ Kill \/ Reap \/ Collect
    \/ Validate \/ Publish \/ ListDirectory \/ RemoveDirectory

Next == RunnerStep \/ Fork \/ Exit \/ CloseStreams \/ Write \/ Expire \/ ProbeDue

Spec == Init /\ [][Next]_vars

\* The runner goes on and time passes; nothing is assumed of the tool.
FairSpec == Spec /\ WF_vars(RunnerStep) /\ WF_vars(Expire)

\* What the runner waits for without a bound: a process that the kernel does not
\* let die and, on Windows, one that keeps the pipes of a tool that was killed.
Waits == pc = "drain" /\ ("leader" \in stuck \/ (conf.windows /\ open # {}))

-------------------------------------------------------------------------------
\* Tool truth is claimed only for a tool that ended by itself: no signal of the
\* runner took part, the guard had passed, and no probe had objected.
TruthIsUndisturbed ==
    answer.truth => /\ ~signalled /\ code \in {"zero", "nonzero"}
                    /\ answer.guard \in {"absent", "passed"} /\ mon # "triggered"

\* The orchestrator never refuses what its own LocalRunner says of guard and
\* monitor, whichever of exit, timeout, probe and staging failure came first.
OwnAnswersAreConsistent == pc = "validate" => Consistent(answer)

\* The published output is what was hashed when the leader had returned, however
\* long its descendants go on writing.
PublishedIsMeasured == published # 0 => published = taken /\ answer.truth

\* When the runner has stopped the tool because of a monitor or of a timeout
\* under a monitor, nothing of the process group goes on (POSIX: there is no
\* such group on Windows).
GroupIsStopped ==
    pc = "validate" /\ conf.monitored /\ ~conf.windows /\ answer.class \in {"timeout", "guard", "resource"} /\ answer.fresh
        => live \ (Escaped \cup stuck) = {}

\* All of it.
ToolAnswerIsTrue ==
    TypeOK /\ TruthIsUndisturbed /\ PublishedIsMeasured /\ OwnAnswersAreConsistent /\ GroupIsStopped

-------------------------------------------------------------------------------
(* What makes the safety properties inductive.                                *)

Before == {"idle", "guard", "spawn"}
Watching == {"loop", "poll", "deadline", "pipes"}
Stopping == {"drain", "term", "grace", "kill", "reap"}

\* The runner has, or had, a reason to stop the tool.
Disturbed == mon = "triggered" \/ why = "timeout"

\* Only stuck processes are left of the group.
Stopped == live \subseteq Escaped \cup stuck

\* Nothing has happened before the tool is started, and nothing has gone wrong
\* while it is watched.
Control ==
    /\ pc \in Before => live = {} /\ code = "none"
    /\ pc \in Before \cup Watching => why = "none" /\ mon # "triggered" /\ ~signalled
    /\ pc \in Before \cup Watching \cup Stopping \cup {"collect"} => taken = 0 /\ published = 0 /\ ~answer.truth
    /\ pc \in Before \cup Watching \cup {"term", "grace", "kill"} => stuck = {}
    /\ pc \in Watching \cup Stopping => (conf.monitored <=> pc \notin {"pipes", "drain"})
    /\ pc \in Stopping => Disturbed
    /\ pc \in {"grace", "kill"} => ~conf.windows
    /\ pc \notin {"pipes", "drain"} => open = {}

\* The leader's exit status, and who may have caused it.
LeaderKnown ==
    /\ "leader" \in live => code = "none"
    /\ pc \in Watching \cup Stopping \cup {"collect"} /\ "leader" \notin live => code # "none"
    /\ code = "killed" => signalled
    /\ signalled => Disturbed
    /\ pc = "collect" /\ ~Disturbed => "leader" \notin live

\* A monitored tool is probed before anything is concluded from its end.
MonitorKnown ==
    /\ conf.monitored <=> mon # "absent"
    /\ pc \in Before => mon \in {"absent", "unchecked"} /\ due
    /\ pc = "loop" /\ mon = "unchecked" => due
    /\ pc \in {"poll", "deadline", "collect"} \cup Stopping => mon # "unchecked"
    /\ mon = "triggered" => why \in {"guard", "resource", "infrastructure"}

\* What the answer claims stays true when the processes go on.
AnswerKnown ==
    /\ answer.truth => "leader" \notin live
    /\ taken # 0 => answer.truth
    /\ pc = "publish" => taken # 0
    /\ pc = "reap" /\ ~conf.windows => Stopped
    /\ pc = "collect" /\ conf.monitored /\ ~conf.windows /\ Disturbed => Stopped

\* All of it together, and with it every safety property above.
IInv ==
    /\ TypeOK /\ Control /\ LeaderKnown /\ MonitorKnown /\ AnswerKnown
    /\ TruthIsUndisturbed /\ PublishedIsMeasured /\ OwnAnswersAreConsistent /\ GroupIsStopped

===============================================================================
