------------------------------- MODULE RemoteRun -------------------------------
(***************************************************************************)
(* SSHRunner (runner/core.py): a request is sent with its input bytes to a  *)
(* remote executor, which stages, attests, guards and runs the tool, sends  *)
(* one response line and removes its directory.  The connection may break   *)
(* at any moment; the executor does not notice before it writes, and the    *)
(* caller may ask again while the earlier executor still works.  A recorded *)
(* run may be served again by a ReplayRunner.                               *)
(*                                                                          *)
(* Attempts are the calls of SSHRunner.execute, one after the other.  Their *)
(* executors are concurrent.  A process group is one tool here and obeys    *)
(* its signals: ToolExecution has the details.                              *)
(***************************************************************************)
EXTENDS Naturals, FiniteSets, RunnerAnswer

CONSTANTS
    MaxAttempts,    \* bound on calls of execute
    Configurations  \* how the runner may have been built

\* What the constants are.
MaxAttemptsOK == MaxAttempts \in Nat \ {0}
\* What the constants are.
ConfigurationsOK == Configurations \subseteq [guarded : BOOLEAN, monitored : BOOLEAN]

Attempts == 1..MaxAttempts
Kinds == {"tool", "timeout", "runtime_guard", "runtime_guard_infrastructure",
          "resource_guard", "attestation", "input", "infrastructure"}
Phases == {"inputs", "attested", "guarded", "started"}

VARIABLES
    conf,       \* how the runner was built: [guarded, monitored]
    \* the caller
    attempt, lpc, answers, got,
    \* the connections and what they have carried
    conn, msg,
    \* the executors
    rem, passed, due, checked, place, tool, expired, hung,
    \* the remote file system: per directory, who wrote the output last
    dirs, wrote,
    replayed

local == <<attempt, lpc, answers, got>>
wire == <<conn, msg>>
remote == <<rem, passed, due, checked, place, tool, expired, hung, dirs, wrote>>
vars == <<conf, local, wire, remote, replayed>>

NoMsg == [kind |-> "none", zero |-> FALSE, by |-> 0, checked |-> FALSE, class |-> "none"]
Msg == [kind : Kinds \cup {"none"}, zero : BOOLEAN, by : 0..MaxAttempts, checked : BOOLEAN,
        class : {"none", "guard", "resource"}]

TypeOK ==
    /\ conf \in Configurations
    /\ attempt \in 0..MaxAttempts /\ lpc \in {"idle", "wait"}
    /\ answers \in [Attempts -> Answer] /\ got \in [Attempts -> 0..MaxAttempts]
    /\ conn \in [Attempts -> {"none", "up", "down"}] /\ msg \in [Attempts -> Msg]
    /\ rem \in [Attempts -> {"none", "stage", "attest", "guard", "spawn", "loop", "collect", "clean", "end", "dead"}]
    /\ passed \in [Attempts -> SUBSET Phases]
    /\ due \in [Attempts -> BOOLEAN] /\ checked \in [Attempts -> BOOLEAN]
    /\ place \in [Attempts -> 0..MaxAttempts]
    /\ tool \in [Attempts -> {"none", "running", "zero", "nonzero", "stopped"}]
    /\ \A a \in Attempts : tool[a] = "running" => rem[a] \in {"loop", "dead"}
    /\ expired \in [Attempts -> BOOLEAN] /\ hung \subseteq Attempts
    /\ dirs \subseteq Attempts /\ wrote \in [Attempts -> 0..MaxAttempts]
    /\ replayed \in [Attempts -> 0..MaxAttempts]

All(v) == [a \in Attempts |-> v]

Init ==
    /\ conf \in Configurations
    /\ attempt = 0 /\ lpc = "idle" /\ answers = All(NoAnswer) /\ got = All(0)
    /\ conn = All("none") /\ msg = All(NoMsg)
    /\ rem = All("none") /\ passed = All({}) /\ due = All(TRUE) /\ checked = All(FALSE)
    /\ place = All(0) /\ tool = All("none") /\ expired = All(FALSE) /\ hung = {}
    /\ dirs = {} /\ wrote = All(0)
    /\ replayed = All(0)

-------------------------------------------------------------------------------
(* The executor of attempt a.                                                 *)

\* emit: the line is lost when nobody reads it any more.
Emit(a, m) ==
    /\ msg' = IF conn[a] = "up" THEN [msg EXCEPT ![a] = [m EXCEPT !.checked = checked[a]]] ELSE msg
    /\ rem' = [rem EXCEPT ![a] = "clean"]

Say(kind) == [NoMsg EXCEPT !.kind = kind]
Enter(a, phase, next) ==
    /\ passed' = [passed EXCEPT ![a] = @ \cup {phase}]
    /\ rem' = [rem EXCEPT ![a] = next]
    /\ UNCHANGED msg
Refuse(a, kinds) == (\E k \in kinds : Emit(a, Say(k))) /\ UNCHANGED passed

\* mkdtemp gives a name that no directory has.
FreshPlace(a) == CHOOSE d \in Attempts : d \notin dirs

\* (mutant) The directory is named after the request.
SharedPlace(a) == 1

Place(a) == FreshPlace(a)

\* The payload is parsed, the directory made, and the input bytes compared with
\* the manifest.
RemoteStage(a) ==
    /\ rem[a] = "stage"
    /\ \/ Refuse(a, {"input", "infrastructure"}) /\ UNCHANGED <<place, dirs, wrote>>
       \/ /\ place' = [place EXCEPT ![a] = Place(a)]
          /\ dirs' = dirs \cup {Place(a)}
          /\ wrote' = [wrote EXCEPT ![Place(a)] = IF Place(a) \in dirs THEN @ ELSE 0]
          /\ Enter(a, "inputs", "attest") \/ Refuse(a, {"input", "infrastructure"})
    /\ UNCHANGED <<conf, local, conn, due, checked, tool, expired, hung, replayed>>

\* The attestation command has no timeout.
RemoteAttest(a) ==
    /\ rem[a] = "attest" /\ a \notin hung
    /\ Enter(a, "attested", "guard") \/ Refuse(a, {"attestation", "infrastructure"})
    /\ UNCHANGED <<conf, local, conn, due, checked, place, tool, expired, hung, dirs, wrote, replayed>>

RemoteGuard(a) ==
    /\ rem[a] = "guard"
    /\ \/ Enter(a, "guarded", "spawn")
       \/ conf.guarded /\ Refuse(a, {"resource_guard", "infrastructure"})
    /\ UNCHANGED <<conf, local, conn, due, checked, place, tool, expired, hung, dirs, wrote, replayed>>

RemoteSpawn(a) ==
    /\ rem[a] = "spawn"
    /\ \/ Enter(a, "started", "loop") /\ tool' = [tool EXCEPT ![a] = "running"]
       \/ Refuse(a, {"infrastructure"}) /\ UNCHANGED tool
    /\ UNCHANGED <<conf, local, conn, due, checked, place, expired, hung, dirs, wrote, replayed>>

\* stop_group.
Stop(a) == tool' = [tool EXCEPT ![a] = IF @ = "running" THEN "stopped" ELSE @]

\* A probe that is due comes before the poll, and its verdict before an end
\* that was not polled yet.
RemoteProbe(a) ==
    /\ rem[a] = "loop" /\ conf.monitored /\ due[a]
    /\ checked' = [checked EXCEPT ![a] = TRUE]
    /\ \/ due' = [due EXCEPT ![a] = FALSE] /\ UNCHANGED <<rem, msg, tool>>
       \/ /\ \/ \E c \in {"guard", "resource"} : Emit(a, [Say("runtime_guard") EXCEPT !.class = c])
             \/ Emit(a, Say("runtime_guard_infrastructure"))
          /\ Stop(a) /\ UNCHANGED due
    /\ UNCHANGED <<conf, local, conn, passed, place, expired, hung, dirs, wrote, replayed>>

RemotePoll(a) ==
    /\ rem[a] = "loop" /\ (conf.monitored => ~due[a])
    /\ \/ /\ tool[a] \in {"zero", "nonzero"}
          /\ rem' = [rem EXCEPT ![a] = "collect"]
          /\ UNCHANGED <<msg, tool>>
       \/ /\ tool[a] = "running" /\ expired[a]
          /\ Stop(a)
          /\ Emit(a, Say("timeout"))
    /\ UNCHANGED <<conf, local, conn, passed, due, checked, place, expired, hung, dirs, wrote, replayed>>

\* The declared output is read when the tool returned 0; a link or a file that
\* is too large is a ValueError.
RemoteCollect(a) ==
    /\ rem[a] = "collect"
    /\ \/ Emit(a, [Say("tool") EXCEPT !.zero = (tool[a] = "zero"),
                                       !.by = IF tool[a] = "zero" THEN wrote[place[a]] ELSE 0])
       \/ tool[a] = "zero" /\ Emit(a, Say("input"))
    /\ UNCHANGED <<conf, local, conn, passed, due, checked, place, tool, expired, hung, dirs, wrote, replayed>>

\* The state of an executor that has ended.
Forget(a) ==
    /\ due' = [due EXCEPT ![a] = TRUE]
    /\ checked' = [checked EXCEPT ![a] = FALSE]
    /\ expired' = [expired EXCEPT ![a] = FALSE]

\* The finally clause.
RemoteClean(a) ==
    /\ rem[a] = "clean"
    /\ dirs' = dirs \ {place[a]}
    /\ wrote' = [d \in Attempts |-> IF d = place[a] THEN 0 ELSE wrote[d]]
    /\ rem' = [rem EXCEPT ![a] = "end"]
    /\ Forget(a)
    /\ UNCHANGED <<conf, local, wire, passed, place, tool, hung, replayed>>

-------------------------------------------------------------------------------
(* The caller.                                                                *)

FreshKinds == {"runtime_guard", "runtime_guard_infrastructure", "tool", "timeout"}

GuardOf(kind) ==
    IF ~conf.guarded THEN "absent"
    ELSE IF kind \in FreshKinds THEN "passed"
    ELSE IF kind = "resource_guard" THEN "rejected" ELSE "unchecked"

MonitorOf(m) ==
    IF ~conf.monitored THEN "absent"
    ELSE IF m.kind \in {"tool", "timeout"} THEN IF m.checked THEN "passed" ELSE "unchecked"
    ELSE IF m.kind \in {"runtime_guard", "runtime_guard_infrastructure"} THEN "triggered"
    ELSE "unchecked"

ClassOf(m) ==
    CASE m.kind = "tool" -> IF m.zero THEN "none" ELSE "design"
      [] m.kind = "timeout" -> "timeout"
      [] m.kind = "runtime_guard" /\ conf.monitored -> m.class
      [] m.kind = "resource_guard" /\ conf.guarded -> "guard"
      [] m.kind = "input" -> "input"
      [] OTHER -> "infrastructure"

Record(a, class, truth, fresh, guard, mon, by) ==
    /\ answers' = [answers EXCEPT ![a] = [class |-> class, truth |-> truth, fresh |-> fresh,
                                          guard |-> guard, mon |-> mon]]
    /\ got' = [got EXCEPT ![a] = by]
    /\ lpc' = "idle"

\* The local side fails: nothing is claimed of the remote one.
Fails(a, classes) ==
    \E c \in classes : Record(a, c, FALSE, FALSE, GuardOf("none"), MonitorOf(NoMsg), 0)

\* The inputs are read and verified, and ssh is started.
Submit ==
    /\ lpc = "idle" /\ attempt < MaxAttempts
    /\ attempt' = attempt + 1
    /\ \/ /\ Fails(attempt + 1, {"input", "infrastructure"})
          /\ UNCHANGED <<conn, rem>>
       \/ /\ lpc' = "wait"
          /\ \/ /\ conn' = [conn EXCEPT ![attempt + 1] = "up"]
                /\ rem' = [rem EXCEPT ![attempt + 1] = "stage"]
             \/ /\ conn' = [conn EXCEPT ![attempt + 1] = "down"]
                /\ UNCHANGED rem
          /\ UNCHANGED <<answers, got>>
    /\ UNCHANGED <<conf, msg, passed, due, checked, place, tool, expired, hung, dirs, wrote, replayed>>

\* ssh ends with an error: 255, or what a remote shell without python3 returns.
\* A response line that was received is not looked at.
Broken ==
    /\ lpc = "wait" /\ conn[attempt] = "down"
    /\ Fails(attempt, {"ssh", "infrastructure"})
    /\ msg' = [msg EXCEPT ![attempt] = NoMsg]
    /\ UNCHANGED <<conf, attempt, conn, remote, replayed>>

\* The transport timeout, which also counts what has no timeout of its own.
TransportTimeout ==
    /\ lpc = "wait" /\ conn[attempt] = "up" /\ rem[attempt] # "end"
    /\ conn' = [conn EXCEPT ![attempt] = "down"]
    /\ Fails(attempt, {"ssh"})
    /\ msg' = [msg EXCEPT ![attempt] = NoMsg]
    /\ UNCHANGED <<conf, attempt, remote, replayed>>

\* ssh has returned 0: the last response line is decoded, and the outputs it
\* carries are checked, written and read back.
Receive ==
    /\ lpc = "wait" /\ conn[attempt] = "up" /\ rem[attempt] = "end"
    /\ LET m == msg[attempt] IN
       \/ Record(attempt, ClassOf(m), m.kind = "tool", m.kind \in FreshKinds,
                 GuardOf(m.kind), MonitorOf(m), m.by)
       \/ m.by # 0 /\ Fails(attempt, {"input", "infrastructure"})
    /\ msg' = [msg EXCEPT ![attempt] = NoMsg]
    /\ conn' = [conn EXCEPT ![attempt] = "down"]
    /\ UNCHANGED <<conf, attempt, remote, replayed>>

\* A call of ReplayRunner.execute: a failed run, or one of another runner, is no
\* cache entry, and a cached run is no tool truth.
Replay ==
    /\ lpc = "idle" /\ attempt < MaxAttempts
    /\ attempt' = attempt + 1
    /\ \E a \in 1..attempt :
         /\ answers[a].class = "none" /\ replayed[a] = 0
         /\ replayed' = [replayed EXCEPT ![attempt + 1] = a]
    /\ UNCHANGED <<conf, lpc, answers, got, wire, remote>>

-------------------------------------------------------------------------------
(* Network, remote host and tool.                                             *)

Break(a) ==
    /\ conn[a] = "up" /\ conn' = [conn EXCEPT ![a] = "down"]
    /\ UNCHANGED <<conf, local, msg, remote, replayed>>

\* The executor is killed, and its tool goes on in a session of its own; or the
\* whole host stops.
Die(a) ==
    /\ rem[a] \notin {"none", "end", "dead"}
    /\ rem' = [rem EXCEPT ![a] = "dead"]
    /\ UNCHANGED tool \/ Stop(a)
    /\ conn' = [conn EXCEPT ![a] = "down"]
    /\ Forget(a)
    /\ UNCHANGED <<conf, local, msg, passed, place, hung, dirs, wrote, replayed>>

ToolWrites(a) ==
    /\ tool[a] = "running" /\ place[a] \in dirs
    /\ wrote' = [wrote EXCEPT ![place[a]] = a]
    /\ UNCHANGED <<conf, local, wire, rem, passed, due, checked, place, tool, expired, hung, dirs, replayed>>

ToolEnds(a) ==
    /\ tool[a] = "running"
    /\ \E c \in {"zero", "nonzero"} : tool' = [tool EXCEPT ![a] = c]
    /\ UNCHANGED <<conf, local, wire, rem, passed, due, checked, place, expired, hung, dirs, wrote, replayed>>

Hang(a) ==
    /\ rem[a] = "attest" /\ a \notin hung /\ hung' = hung \cup {a}
    /\ UNCHANGED <<conf, local, wire, rem, passed, due, checked, place, tool, expired, dirs, wrote, replayed>>

Expire(a) ==
    /\ tool[a] = "running" /\ rem[a] = "loop" /\ ~expired[a] /\ expired' = [expired EXCEPT ![a] = TRUE]
    /\ UNCHANGED <<conf, local, wire, rem, passed, due, checked, place, tool, hung, dirs, wrote, replayed>>

ProbeDue(a) ==
    /\ rem[a] = "loop" /\ ~due[a] /\ due' = [due EXCEPT ![a] = TRUE]
    /\ UNCHANGED <<conf, local, wire, rem, passed, checked, place, tool, expired, hung, dirs, wrote, replayed>>

-------------------------------------------------------------------------------
RemoteStep(a) ==
    RemoteStage(a) \/ RemoteAttest(a) \/ RemoteGuard(a) \/ RemoteSpawn(a) \/ RemoteProbe(a)
        \/ RemotePoll(a) \/ RemoteCollect(a) \/ RemoteClean(a)

LocalStep == Broken \/ TransportTimeout \/ Receive

Environment(a) == Break(a) \/ Die(a) \/ ToolWrites(a) \/ ToolEnds(a) \/ Hang(a) \/ Expire(a) \/ ProbeDue(a)

Next == Submit \/ LocalStep \/ Replay \/ \E a \in Attempts : RemoteStep(a) \/ Environment(a)

Spec == Init /\ [][Next]_vars

\* The executor and the caller go on, and time passes.  A poll is reached
\* between two probes (SF): a probe's interval is positive.
FairSpec ==
    /\ Spec
    /\ WF_vars(LocalStep)
    /\ \A a \in Attempts : WF_vars(RemoteStep(a)) /\ SF_vars(RemotePoll(a)) /\ WF_vars(Expire(a))

-------------------------------------------------------------------------------
\* Tool truth is claimed only when the remote tool of that very attempt was
\* started after the inputs, the environment and the guard had been checked,
\* and ended by itself: no broken connection, late response or stop counts.
TruthIsEarned ==
    \A a \in Attempts :
        /\ answers[a].truth => tool[a] \in {"zero", "nonzero"} /\ passed[a] = Phases
        /\ answers[a].fresh => "started" \in passed[a]

\* The bytes taken from a remote directory were written by the tool of that
\* attempt, also when the executor of an abandoned attempt works beside it.
OutputsAreOwn == \A a \in Attempts : got[a] \in {0, a}

\* Whatever was lost, the orchestrator's own rules hold for the answer.
AnswersAreConsistent == \A a \in 1..attempt : lpc = "idle" => Consistent(answers[a])

\* A cached run stands for a tool that returned 0.
NothingIsLaundered ==
    \A a \in Attempts : LET b == replayed[a] IN
        b # 0 => ~answers[a].truth /\ answers[b].truth /\ tool[b] = "zero"

\* All of it.
RemoteAnswerIsTrue ==
    TypeOK /\ TruthIsEarned /\ OutputsAreOwn /\ AnswersAreConsistent /\ NothingIsLaundered

-------------------------------------------------------------------------------
(* What makes the safety properties inductive.                                *)

Unstarted == {"none", "stage"}
Working == {"attest", "guard", "spawn", "loop", "collect"}

\* Calls to come have left no trace, and the one under way has no answer yet.
CallsInOrder ==
    /\ \A a \in Attempts : a > attempt =>
         rem[a] = "none" /\ conn[a] = "none" /\ answers[a] = NoAnswer /\ replayed[a] = 0
    /\ lpc = "wait" => attempt \in Attempts /\ answers[attempt] = NoAnswer /\ replayed[attempt] = 0

\* What an executor has checked when it gets to a step.
ExecutorInOrder ==
    \A a \in Attempts :
        /\ rem[a] = "attest" => passed[a] = {"inputs"}
        /\ rem[a] = "guard" => passed[a] = {"inputs", "attested"}
        /\ rem[a] = "spawn" => passed[a] = {"inputs", "attested", "guarded"}
        /\ rem[a] \in {"loop", "collect"} => passed[a] = Phases
        /\ rem[a] \in Unstarted => passed[a] = {}
        /\ rem[a] \in Unstarted \cup {"attest", "guard", "spawn"} => due[a]
        /\ rem[a] = "loop" /\ conf.monitored /\ ~due[a] => checked[a]
        /\ rem[a] = "collect" => tool[a] \in {"zero", "nonzero"} /\ (conf.monitored => checked[a])

\* The attempts that have a directory, which is theirs alone.
Owns(a) == rem[a] \in Working \cup {"clean", "dead"} /\ place[a] # 0

DirectoriesAreOwn ==
    /\ \A a \in Attempts : rem[a] \in Unstarted => place[a] = 0
    /\ \A a \in Attempts : rem[a] \in Working => place[a] # 0
    /\ \A d \in dirs : \E a \in Attempts : Owns(a) /\ place[a] = d
    /\ \A a \in Attempts : Owns(a) => place[a] \in dirs /\ wrote[place[a]] \in {0, a}
    /\ \A a, b \in Attempts : Owns(a) /\ Owns(b) /\ place[a] = place[b] => a = b

\* A response line says what its executor saw.
MessagesAreTrue ==
    \A a \in Attempts :
        /\ msg[a].kind # "none" => rem[a] \in {"clean", "end", "dead"}
        /\ msg[a].by \in {0, a}
        /\ msg[a].kind \in FreshKinds => passed[a] = Phases
        /\ msg[a].kind \in {"tool", "timeout"} /\ conf.monitored => msg[a].checked
        /\ msg[a].kind = "tool" => tool[a] \in {"zero", "nonzero"} /\ (msg[a].zero <=> tool[a] = "zero")
        /\ msg[a].kind = "runtime_guard" => msg[a].class \in {"guard", "resource"}

\* What was answered stays answered, and success means an exit status 0.
AnswersStand ==
    \A a \in Attempts :
        /\ Consistent(answers[a])
        /\ answers[a].truth => rem[a] = "end"
        /\ a <= attempt /\ answers[a].class = "none" =>
             \/ lpc = "wait" /\ a = attempt
             \/ replayed[a] # 0
             \/ answers[a].truth /\ tool[a] = "zero"

\* All of it together, and with it every safety property above.
IInv ==
    /\ TypeOK /\ CallsInOrder /\ ExecutorInOrder /\ DirectoriesAreOwn /\ MessagesAreTrue /\ AnswersStand
    /\ TruthIsEarned /\ OutputsAreOwn /\ NothingIsLaundered

===============================================================================
