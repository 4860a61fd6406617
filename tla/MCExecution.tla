----------------------------- MODULE MCExecution -----------------------------
(***************************************************************************)
(* Executing the stages of a snapshot: Project.run (StageRun, whose runner     *)
(* answers in one step), and what happens inside of that step with a local     *)
(* tool (ToolExecution) or over SSH (RemoteRun).  A behaviour is one of the     *)
(* three; the others rest in an initial state.                               *)
(***************************************************************************)
EXTENDS StageRun

VARIABLES
    part,       \* which of the three
    conf, procs, open, code, stuck, expired, due, out, dir, tpc, mon, why, signalled, taken, answer, published,
    rconf, attempt, lpc, answers, got, conn, msg, rem, passed, rdue, checked, place, tool, rexpired,
    hung, rdirs, wrote, replayed

CONSTANTS Kids, Escaped, MaxWrites, MaxAttempts, Configurations

Guarded == [guarded |-> TRUE, monitored |-> TRUE]
Bare == [guarded |-> FALSE, monitored |-> FALSE]
\* With a guard command and a monitor, and with neither.
BothConfigurations == {Guarded, Bare}

Tool == INSTANCE ToolExecution WITH live <- procs, pc <- tpc
Remote == INSTANCE RemoteRun WITH conf <- rconf, due <- rdue, expired <- rexpired, dirs <- rdirs

ASSUME RunnerAssumption == Tool!KidsOK /\ Remote!MaxAttemptsOK /\ Remote!ConfigurationsOK

tvars == <<conf, procs, open, code, stuck, expired, due, out, dir, tpc, mon, why, signalled, taken, answer, published>>
rvars == <<rconf, attempt, lpc, answers, got, conn, msg, rem, passed, rdue, checked, place, tool, rexpired,
           hung, rdirs, wrote, replayed>>

\* The first stage has an output that the second one consumes.
FeedsNext == [s \in 1..N |-> IF s < N THEN {s + 1} ELSE {}]

MCInit ==
    /\ part \in {"stages", "tool", "remote"}
    /\ Init /\ Tool!Init /\ Remote!Init
    /\ part = "tool" \/ conf = [allowed |-> TRUE, guarded |-> TRUE, monitored |-> TRUE, windows |-> FALSE]
    /\ part = "remote" \/ rconf = Bare

MCNext ==
    /\ \/ part = "stages" /\ Next /\ UNCHANGED <<tvars, rvars>>
       \/ part = "tool" /\ Tool!Next /\ UNCHANGED <<vars, rvars>>
       \/ part = "remote" /\ Remote!Next /\ UNCHANGED <<vars, tvars>>
    /\ UNCHANGED part

\* Calls, runners and executors go on and time passes; nothing is assumed of a
\* tool.  A poll is reached between two probes, whose interval is positive.
MCFairness ==
    /\ WF_vars(CallStep)
    /\ WF_tvars(part = "tool" /\ Tool!RunnerStep) /\ WF_tvars(part = "tool" /\ Tool!Expire)
    /\ WF_rvars(part = "remote" /\ Remote!LocalStep)
    /\ \A a \in 1..MaxAttempts :
         /\ WF_rvars(part = "remote" /\ Remote!RemoteStep(a))
         /\ SF_rvars(part = "remote" /\ Remote!RemotePoll(a))
         /\ WF_rvars(part = "remote" /\ Remote!Expire(a))

MCSpec == MCInit /\ [][MCNext]_<<part, vars, tvars, rvars>> /\ MCFairness

-------------------------------------------------------------------------------
\* LocalRunner.execute against the processes of the tool: truth is claimed only
\* for a tool that ended by itself, what is published is what was measured, the
\* orchestrator never refuses its own runner's answer, and nothing of the process
\* group survives a stopped tool (_terminate_process_group).
ToolAnswerIsTrue == Tool!ToolAnswerIsTrue

\* SSHRunner with its executor, retried and replayed: truth and outputs are of
\* the very attempt that claims them, and a replay launders nothing.
RemoteAnswerIsTrue == Remote!RemoteAnswerIsTrue

\* Every call of Project.run, of LocalRunner and of SSHRunner comes to its end,
\* and remote directories go away without the caller's help.  LocalRunner may
\* wait for ever for a killed leader that does not die and, on Windows alone, for
\* descendants that keep the pipes of a killed tool.
ExecutionsEnd ==
    <>[](/\ pc = "idle" /\ lpc = "idle" /\ (part = "tool" => tpc = "done" \/ Tool!Waits)
         /\ \A d \in rdirs : \E a \in 1..MaxAttempts : place[a] = d /\ (a \in hung \/ rem[a] = "dead"))
===============================================================================
