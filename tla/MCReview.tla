------------------------------- MODULE MCReview -------------------------------
(***************************************************************************)
(* The knowledge review, step by step: the documents it cites are cached       *)
(* (ReviewCache), a suite of model processes reads them (ReviewSuite), the      *)
(* events of every process are judged (ReviewStream), and the packs that were   *)
(* approved are attested (PackAttestation).  A behaviour is one of the four,    *)
(* the others rest in an initial state.                                       *)
(***************************************************************************)
EXTENDS Sequences, FiniteSets, TLC

VARIABLES
    part,       \* which of the four, and for the cache of which citations
    kind, stream, started, completed, reads, message, threads, named, turns, retries, verdict,
    cphase, cat, attempt, primary, failed, support, rows, files, requests, ctampers,
    world, full, shard, mem, phase, job, seen, ran, out, seals, ended, raw, sealed, public, at,
    edits, tampers, faults,
    tool, review, disk, writer, start, aphase, aat, snap, original, update, saved, replaced, undo, broken,
    aedits, afaults, touched

CONSTANTS
    SourceChunks, CitationChunks, Threads, Calls, MaxEvents, MaxNoise, MaxRetries, MaxAttempts,
    Shards, Artifacts, Ids, MaxEdits, MaxTampers, MaxFaults,
    PackNames, Surfaces, Invocations, Reviewed, MaxPackEdits,
    Cited, MaxDamages    \* the citations of a cache and the changes on disk, by part

-------------------------------------------------------------------------------
(* The map of a publication with two of its topics, served in charsets of their  *)
(* own; and a range of lines with the document of the same file, and a topic.   *)

Cite(k, u, cs, m, p, i) ==
    [resolver |-> k, url |-> u, charset |-> cs, map |-> m, pages |-> p, inspect |-> i]

Publication ==
    <<Cite("map", "map", "utf-8", "map", "none", FALSE),
      Cite("topic", "topic1", "ascii", "map", "pages", TRUE),
      Cite("topic", "topic2", "latin", "map", "pages", TRUE)>>

Documents ==
    <<Cite("lines", "file", "ascii", "none", "none", TRUE),
      Cite("direct", "file", "ascii", "none", "none", FALSE),
      Cite("topic", "topic", "utf-8", "map", "pages", TRUE)>>

CacheParts == {"topics", "lines"}
MCCited == [p \in CacheParts |-> IF p = "topics" THEN Publication ELSE Documents]
MCMaxDamages == [p \in CacheParts |-> IF p = "topics" THEN 0 ELSE 1]

\* Two packs; the reviews were made of one or another content of the first.
MCPackNames == <<"p1", "p2">>
MCReviewed == {[p \in {"p1", "p2"} |-> "a"], [p \in {"p1", "p2"} |-> IF p = "p1" THEN "b" ELSE "a"]}

\* The calls of a stream are interchangeable, and no other part has any.
CallSymmetry == Permutations(Calls)

MCArtifacts == <<"result", "trace", "receipt">>

-------------------------------------------------------------------------------
Stream == INSTANCE ReviewStream
Cache(p) == INSTANCE ReviewCache WITH
    phase <- cphase, at <- cat, tampers <- ctampers, Citations <- Cited[p], MaxTampers <- MaxDamages[p]
Suite == INSTANCE ReviewSuite
Packs == INSTANCE PackAttestation WITH
    kind <- tool, phase <- aphase, at <- aat, edits <- aedits, faults <- afaults,
    Packs <- PackNames, Calls <- Invocations, MaxEdits <- MaxPackEdits

\* There are packs, in an order, and a review is of contents of them all; a suite has
\* shards, and files to publish; the chunks to be read are a finite set; citations are
\* sorted.
ASSUME ReviewAssumption ==
    /\ Packs!AttestationOK /\ Suite!SuiteOK /\ Stream!StreamOK
    /\ \A p \in CacheParts : Cache(p)!CitationsOK

evars == <<kind, stream, started, completed, reads, message, threads, named, turns, retries, verdict>>
cvars == <<cphase, cat, attempt, primary, failed, support, rows, files, requests, ctampers>>
svars == <<world, full, shard, mem, phase, job, seen, ran, out, seals, ended, raw, sealed, public, at,
           edits, tampers, faults>>
pvars == <<tool, review, disk, writer, start, aphase, aat, snap, original, update, saved, replaced, undo, broken,
           aedits, afaults, touched>>

\* One of the initial states of those that have several.
AtRest ==
    /\ part = "stream" \/ kind = "full"
    /\ part = "suite" \/ \A f \in DOMAIN public : public[f] = "none"
    /\ part = "packs" \/
         /\ tool = "suite" /\ \A p \in DOMAIN start : start[p].surface = "a"
         /\ \A k \in DOMAIN review : review[k] = [approved |-> TRUE, surfaces |-> [p \in {"p1", "p2"} |-> "a"], call |-> 1]

MCInit ==
    /\ part \in {"stream", "suite", "packs"} \cup CacheParts
    /\ Stream!Init /\ Suite!Init /\ Packs!Init
    /\ \/ part \notin CacheParts /\ Cache("topics")!Init
       \/ \E p \in CacheParts : part = p /\ Cache(p)!Init
    /\ AtRest

MCNext ==
    /\ \/ part = "stream" /\ Stream!Next /\ UNCHANGED <<cvars, svars, pvars>>
       \/ \E p \in CacheParts : part = p /\ Cache(p)!Next /\ UNCHANGED <<evars, svars, pvars>>
       \/ part = "suite" /\ Suite!Next /\ UNCHANGED <<evars, cvars, pvars>>
       \/ part = "packs" /\ Packs!Next /\ UNCHANGED <<evars, cvars, svars>>
    /\ UNCHANGED part

mcvars == <<part, evars, cvars, svars, pvars>>
MCSpec == MCInit /\ [][MCNext]_mcvars

-------------------------------------------------------------------------------
\* validate_event_trace: an accepted stream has read every chunk to its end with
\* commands that were started and completed one by one, before one final verdict.
AcceptedHasRead ==
    part = "stream" =>
    /\ Stream!TypeOK /\ Stream!ApprovalFollowsReading /\ Stream!CommandsArePaired
    /\ Stream!ShardReadsItsBudget /\ Stream!VerdictIsLast

\* The evidence cache: one response answers all citations of a locator, the
\* manifest replays to itself offline, what was created loads, what loads is what
\* was pinned, and requests stay bounded, over transport failures and damage.
CacheIsPinned ==
    \A p \in CacheParts : part = p =>
        /\ Cache(p)!TypeOK /\ Cache(p)!OneResponsePerLocator /\ Cache(p)!ReplayReproduces
        /\ Cache(p)!CreatedLoads /\ Cache(p)!LoadedIsPinned /\ Cache(p)!RequestsAreBounded

\* The suite: a sealed pair has read the frozen documents of one surface and one
\* runtime, the output of every process is kept, and its files are published as a
\* whole or not at all.
SealedIsWhole ==
    part = "suite" =>
    /\ Suite!TypeOK /\ Suite!SealedWasRead /\ Suite!PairSharesOneSurface
    /\ Suite!PublicationIsWhole /\ Suite!OutputIsKept

\* Attestation: a pack is attested only with the content that both reviews saw,
\* and all packs are, or none, unless an editor is in between.
AttestedIsReviewed ==
    part = "packs" =>
    /\ Packs!TypeOK /\ Packs!AttestedIsReviewed /\ Packs!FailureLeavesNothing /\ Packs!SuccessIsWhole
===============================================================================
