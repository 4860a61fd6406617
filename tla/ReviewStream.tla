----------------------------- MODULE ReviewStream -----------------------------
(***************************************************************************)
(* Replaying the event stream of a knowledge review                         *)
(* (tools/knowledge_review_suite_replay.py, and the unsharded protocol of    *)
(* tools/run_knowledge_review.py).                                          *)
(*                                                                          *)
(* A reviewing process emits one line per event: a thread and a turn begin, *)
(* commands start and complete, the connection is retried, a final message  *)
(* carries the verdict, the turn completes.  Nothing keeps the process from *)
(* emitting anything in any order.  The replay reads the lines one by one   *)
(* and accepts or rejects the review; only an accepted review is evidence.  *)
(* "chunks" are the pieces of source and of cited documents the process     *)
(* must have read.  The stream itself is a variable, so that what an        *)
(* accepted stream says can be stated without the replay's bookkeeping.     *)
(***************************************************************************)
EXTENDS Naturals, Sequences, FiniteSets

CONSTANTS
    SourceChunks, CitationChunks, Calls, Threads,
    MaxEvents,    \* bound: length of the stream
    MaxNoise,     \* bound: events beside the opening, the readings, the message and the ends
    MaxRetries    \* MAX_RECOVERABLE_TRANSPORT_RETRY_EVENTS

Chunks == SourceChunks \cup CitationChunks
Kinds == {"full", "shard"}

VARIABLES
    kind,       \* which of the two protocols
    stream,     \* the events so far
    started,    \* call -> its command
    completed,  \* calls
    reads,      \* chunk -> how often it was read (a hash is no reading)
    message,    \* the final messages so far
    threads,    \* the thread of every thread.started
    named,      \* threads that any event names
    turns,      \* [started, completed] turns
    retries,    \* connection retries
    verdict     \* "reading", "accepted" or "rejected"

vars == <<kind, stream, started, completed, reads, message, threads, named, turns, retries, verdict>>

Outputs == {"exact", "marker", "other", "failed"}
Messages == [verified : SUBSET CitationChunks, issues : BOOLEAN, approved : BOOLEAN]

\* The approved commands: `head` prints one chunk to its end, `sha256sum` prints the
\* hashes of some.
Reading(c) == [does |-> "head", of |-> {c}]
Commands == {Reading(c) : c \in Chunks} \cup [does : {"sha256sum"}, of : SUBSET Chunks \ {{}}]

Event(t) == [type |-> t]
Noise == [type : {"thread", "note"}, th : Threads] \cup [type : {"turn", "retry"}]
CommandEvents ==
    [type : {"start"}, call : Calls, cmd : Commands]
        \cup [type : {"done"}, call : Calls, cmd : Commands, out : Outputs]
Events == Noise \cup CommandEvents \cup [type : {"message"}, body : Messages] \cup {Event("end")}

TypeOK ==
    /\ kind \in Kinds /\ verdict \in {"reading", "accepted", "rejected"}
    /\ Len(stream) <= MaxEvents
    /\ completed \subseteq DOMAIN started /\ DOMAIN started \subseteq Calls
    /\ verdict = "reading" => \A c \in Chunks : reads[c] = Cardinality({k \in completed : started[k] = Reading(c)})
    /\ Len(message) <= 1 /\ retries <= MaxRetries

-------------------------------------------------------------------------------
(* The replay of one event: Accepts says whether it may come now.             *)

Final == message # <<>>

\* _expected_command, _command_operations: what the command printed is the chunk, or
\* the hashes; the text of a cited document may, and in the full protocol must, have
\* been replaced by its digest.
OutputOK(c, out) ==
    IF c \in {Reading(d) : d \in CitationChunks}
    THEN out = "marker" \/ (kind = "shard" /\ out = "exact")
    ELSE out = "exact"

Started(e) == [k \in DOMAIN started \cup {e.call} |-> IF k = e.call THEN e.cmd ELSE started[k]]

StartOK(e) == ~Final /\ e.call \notin DOMAIN started

DoneOK(e) ==
    /\ ~Final /\ e.call \notin completed
    /\ e.call \in DOMAIN started /\ started[e.call] = e.cmd
    /\ OutputOK(e.cmd, e.out)

\* (mutant) Whatever a command names counts as read.
ReadsNamed(e) == [c \in Chunks |-> IF e.type = "done" /\ c \in e.cmd.of THEN reads[c] + 1 ELSE reads[c]]

\* The *_chunk_read rows are counted, the *_chunk_hash rows are not.
Reads(e) == [c \in Chunks |-> IF e.type = "done" /\ e.cmd = Reading(c) THEN reads[c] + 1 ELSE reads[c]]

\* _recoverable_transport_retry: only in a shard, before the verdict, a few times.
RetryOK(e) == kind = "shard" /\ ~Final /\ retries < MaxRetries

MessageOK(e) == ~Final

\* A shard's turn completes once; the full protocol counts and compares at the end.
EndOK(e) == kind = "shard" => turns.completed = 0

NoteOK(e) == ~Final

Accepts(e) ==
    \/ e.type = "start" /\ StartOK(e)
    \/ e.type = "done" /\ DoneOK(e)
    \/ e.type = "retry" /\ RetryOK(e)
    \/ e.type = "message" /\ MessageOK(e)
    \/ e.type = "note" /\ NoteOK(e)
    \/ e.type = "end" /\ EndOK(e)
    \/ e.type \in {"thread", "turn"}

Reject ==
    /\ verdict' = "rejected" /\ stream' = <<>> /\ started' = [k \in {} |-> 0] /\ completed' = {}
    /\ reads' = [c \in Chunks |-> 0] /\ message' = <<>> /\ threads' = <<>> /\ named' = {}
    /\ turns' = [started |-> 0, completed |-> 0] /\ retries' = 0 /\ UNCHANGED kind

Take(e) ==
    /\ Accepts(e)
    /\ stream' = Append(stream, e)
    /\ started' = IF e.type = "start" THEN Started(e) ELSE started
    /\ completed' = IF e.type = "done" THEN completed \cup {e.call} ELSE completed
    /\ reads' = Reads(e)
    /\ message' = IF e.type = "message" THEN Append(message, e.body) ELSE message
    /\ threads' = IF e.type = "thread" THEN Append(threads, e.th) ELSE threads
    /\ named' = IF e.type \in {"thread", "note"} THEN named \cup {e.th} ELSE named
    /\ turns' = [started |-> turns.started + (IF e.type = "turn" THEN 1 ELSE 0),
                 completed |-> turns.completed + (IF e.type = "end" THEN 1 ELSE 0)]
    /\ retries' = IF e.type = "retry" THEN retries + 1 ELSE retries
    /\ UNCHANGED <<kind, verdict>>

\* The stream opens with its thread and its turn, or is rejected at once.
Opening(e) == CASE stream = <<>> -> e.type = "thread" [] Len(stream) = 1 -> e.type = "turn" [] OTHER -> TRUE

\* Bounds: what an accepted review can do without (hashes, repeated readings and other
\* events), and room for what is still missing.
Beside ==
    Cardinality({i \in 3..Len(stream) : stream[i].type \in {"thread", "note", "turn", "retry"}})
        + Cardinality(DOMAIN started) - Cardinality({c \in Chunks : \E k \in DOMAIN started : started[k] = Reading(c)})
Missing ==
    Cardinality(DOMAIN started \ completed) + (IF message = <<>> THEN 1 ELSE 0)
        + (IF Len(stream) > 0 /\ stream[Len(stream)].type = "end" THEN 0 ELSE 1)
InBounds == Beside <= MaxNoise /\ Len(stream) + Missing <= MaxEvents

Emit(e) == verdict = "reading" /\ Len(stream) < MaxEvents /\ Opening(e) /\ Take(e) /\ InBounds'

\* Any other event ends the replay.
Refuse ==
    /\ verdict = "reading" /\ Len(stream) < MaxEvents
    /\ ~\A e \in Events : Opening(e) /\ Accepts(e)
    /\ Reject

-------------------------------------------------------------------------------
(* The end of the stream.                                                     *)

\* validate_shard_result: approval is the conjunction of the single verdicts.
\* _review_result_issues: a verified citation was read in full, an approval
\* needs all of them and all of the source.
ResultOK(m) ==
    IF kind = "shard"
    THEN m.approved = (m.verified = CitationChunks /\ ~m.issues) /\ (~m.approved => m.issues)
    ELSE /\ \A c \in m.verified : reads[c] > 0
         /\ m.approved => m.verified = CitationChunks /\ ~m.issues /\ \A c \in SourceChunks : reads[c] > 0

\* Every assigned chunk exactly once (a shard's budget counts on it).
Inventory == kind = "shard" => \A c \in Chunks : reads[c] = 1

Closed ==
    /\ Len(threads) = 1 /\ named = {threads[1]}
    /\ turns = [started |-> 1, completed |-> 1]
    /\ completed = DOMAIN started /\ Len(message) = 1

Close ==
    /\ verdict = "reading" /\ stream # <<>> /\ stream[Len(stream)].type = "end"
    /\ IF Len(stream) >= 4 /\ Closed /\ Inventory /\ ResultOK(message[1])
       THEN /\ verdict' = "accepted"
            /\ UNCHANGED <<kind, stream, started, completed, reads, message, threads, named, turns, retries>>
       ELSE Reject

Init ==
    /\ kind \in Kinds /\ stream = <<>> /\ started = [k \in {} |-> 0] /\ completed = {}
    /\ reads = [c \in Chunks |-> 0] /\ message = <<>> /\ threads = <<>> /\ named = {}
    /\ turns = [started |-> 0, completed |-> 0] /\ retries = 0 /\ verdict = "reading"

Next == (\E e \in Events : Emit(e)) \/ Refuse \/ Close

Spec == Init /\ [][Next]_vars

-------------------------------------------------------------------------------
(* What an accepted stream says, read off the stream alone.                   *)

Accepted == verdict = "accepted"
At(t) == {i \in 1..Len(stream) : stream[i].type = t}

\* An approval was given after every chunk, of source and of citation, had been
\* read by a command that succeeded and printed that chunk.
ApprovalFollowsReading ==
    Accepted => \A i \in At("message") : stream[i].body.approved =>
        \A c \in Chunks : \E j \in At("done") :
            j < i /\ stream[j].cmd = Reading(c) /\ stream[j].out \in {"exact", "marker"}

\* Every command of an accepted stream is a pair of events that agree, in order,
\* and no call stands for two commands.
CommandsArePaired ==
    Accepted =>
        /\ \A j \in At("done") : \E i \in At("start") :
             i < j /\ stream[i].call = stream[j].call /\ stream[i].cmd = stream[j].cmd
        /\ \A i \in At("start") : \E j \in At("done") : i < j /\ stream[i].call = stream[j].call
        /\ \A t \in {"start", "done"} : \A i, j \in At(t) : stream[i].call = stream[j].call => i = j

\* A shard is read with the budget that was computed for it: one reading of every
\* assigned chunk, and no other, whatever was hashed beside them.
ReadingsAt == {j \in At("done") : stream[j].cmd.does = "head"}
ShardReadsItsBudget ==
    Accepted /\ kind = "shard" =>
        /\ Cardinality(ReadingsAt) = Cardinality(Chunks)
        /\ {stream[j].cmd : j \in ReadingsAt} = {Reading(c) : c \in Chunks}

\* The verdict is the one last thing that the process says; a connection that
\* broke after it leaves no evidence.
VerdictIsLast ==
    Accepted =>
        /\ Cardinality(At("message")) = 1 /\ Cardinality(At("end")) = 1
        /\ \A i \in At("message") : \A j \in i + 1..Len(stream) : stream[j].type = "end"

-------------------------------------------------------------------------------
(* What the replay knows of the stream, for any chunks, calls and threads.    *)

StreamOK == IsFiniteSet(Chunks) /\ MaxEvents \in Nat /\ MaxRetries \in Nat

Types ==
    /\ kind \in Kinds /\ verdict \in {"reading", "accepted", "rejected"}
    /\ stream \in Seq(Events) /\ Len(stream) <= MaxEvents /\ (verdict = "rejected" => stream = <<>>)
    /\ DOMAIN started \subseteq Calls /\ \A k \in DOMAIN started : started[k] \in Commands
    /\ completed \subseteq DOMAIN started /\ IsFiniteSet(completed)
    /\ reads \in [Chunks -> Nat] /\ message \in Seq(Messages) /\ Len(message) <= 1
    /\ threads \in Seq(Threads) /\ turns \in [started : Nat, completed : Nat] /\ retries \in 0..MaxRetries

\* A thread and then a turn begin the stream.
Opened ==
    verdict # "rejected" =>
        /\ stream = <<>> <=> Len(threads) = 0
        /\ Len(stream) < 2 <=> turns.started = 0
        /\ stream # <<>> => stream[1].type = "thread"
        /\ Len(stream) >= 2 => stream[2].type = "turn"
        /\ Len(threads) = 1 => \A i \in At("thread") : i = 1
        /\ turns.started = 1 => \A i \in At("turn") : i = 2

\* The calls are those of the events, each once, and its command is what both say.
StartsAreKnown ==
    verdict # "rejected" =>
        /\ \A i \in At("start") : stream[i].call \in DOMAIN started /\ stream[i].cmd = started[stream[i].call]
        /\ \A k \in DOMAIN started : \E i \in At("start") : stream[i].call = k
        /\ \A i, j \in At("start") : stream[i].call = stream[j].call => i = j
DonesAreKnown ==
    verdict # "rejected" =>
        /\ \A j \in At("done") :
             /\ stream[j].call \in completed /\ stream[j].cmd = started[stream[j].call]
             /\ OutputOK(stream[j].cmd, stream[j].out)
             /\ \E i \in At("start") : i < j /\ stream[i].call = stream[j].call
        /\ \A k \in completed : \E j \in At("done") : stream[j].call = k
        /\ \A i, j \in At("done") : stream[i].call = stream[j].call => i = j
ReadsAreCounted == \A c \in Chunks : reads[c] = Cardinality({k \in completed : started[k] = Reading(c)})

\* After the message there are only ends, threads and turns.
MessageIsKnown ==
    verdict # "rejected" =>
        /\ \A i \in At("message") : message # <<>> /\ stream[i].body = message[1]
        /\ message # <<>> => At("message") # {}
        /\ \A i, j \in At("message") : i = j
        /\ \A i \in At("message") : \A j \in DOMAIN stream : j > i => stream[j].type \in {"end", "thread", "turn"}
EndsAreCounted ==
    verdict # "rejected" =>
        /\ turns.completed = 0 <=> At("end") = {}
        /\ turns.completed = 1 => \A i, j \in At("end") : i = j

AcceptedIsClosed == Accepted => Closed /\ Inventory /\ ResultOK(message[1])

IInv == /\ Types /\ Opened /\ StartsAreKnown /\ DonesAreKnown /\ ReadsAreCounted
        /\ MessageIsKnown /\ EndsAreCounted /\ AcceptedIsClosed
=============================================================================
