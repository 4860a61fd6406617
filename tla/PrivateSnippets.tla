--------------------------- MODULE PrivateSnippets --------------------------
(***************************************************************************)
(* Private text in a retrieval: the excerpts of the local knowledge sidecar   *)
(* and of the project sources, and the access log that must record them      *)
(* (retrieval.py: LocalKnowledgeRetrievalAdapter,                            *)
(* SourceSnippetRetrievalAdapter, _append_private_access, and the part of     *)
(* HybridRetriever.retrieve that accepts what they return).                  *)
(*                                                                          *)
(* Sources and the sidecar change, and the log is replaced or made unsafe,    *)
(* between any two steps.  Version 1 of a source is the one the snapshot      *)
(* pins; a change gives a new version or brings the first one back.  The       *)
(* sidecar holds one document; to build it again gives another one, another     *)
(* version, or the same version with other bytes.  Each hit is of a search of    *)
(* its own.                                                                  *)
(***************************************************************************)
EXTENDS Integers, Sequences, FiniteSets, TLC

CONSTANTS
    Anchors,   \* sequence of [file, form]: the anchors of the ranked entities
    Hits,      \* sequence of the chunks the sidecar finds
    Library,   \* what it may be built from: set of [doc, hash], doc is id and version
    Limit,     \* spec.top_k
    MaxEdits   \* bound: changes from outside

\* What the constants are.  Without an anchor, or without a hit, the adapter would
\* have nothing to return; SearchFails is a search without hits.
SnippetsAssumption ==
    /\ Anchors # << >> /\ Anchors \in Seq({Anchors[n] : n \in DOMAIN Anchors})
    /\ Hits # << >> /\ Hits \in Seq({Hits[n] : n \in DOMAIN Hits})
    /\ Library # {} /\ Library \subseteq [doc : Nat, hash : Nat]
    /\ \A n \in DOMAIN Anchors : Anchors[n].form \in {"lines", "unplaced", "outside", "managed"}
    /\ Limit \in Nat \ {0} /\ MaxEdits \in Nat

VARIABLES
    request,   \* spec.include_private_snippets
    policy,    \* privacy.mcp_source_snippets of the manifest: "bounded" or "denied"
    allow,     \* the flag of the source adapter, which its caller chose
    leave,     \* that of the local adapter
    src,       \* file -> [ver, link]
    side,      \* the documents of the sidecar, none if it cannot be read
    known,     \* those it had when the adapter was made
    hits,      \* the documents of the hits
    path,      \* what is at the path of the log: a file, 0 (nothing) or Unsafe
    logs,      \* file -> its records
    pc, i,     \* the step, and the hit or anchor it is about
    seen,      \* the source as it was when it was opened
    intent,    \* the record to append: [what, result, ver], ver a content hash
    fd,        \* the log file that was opened, 0 if the append failed
    found,     \* snippets of the source adapter
    excerpts,  \* what the retrieval returns: {[of, doc, ver]}
    warned,    \* a failed append was reported
    reads,     \* anchors whose file was opened
    witnessed, \* records that stood in the log when it was looked at again
    edits

inputs == <<request, policy, allow, leave>>
world == <<src, side, path>>
vars == <<inputs, world, known, hits, logs, pc, i, seen, intent, fd, found, excerpts, warned,
          reads, witnessed, edits>>

Unsafe == -1
Files == {Anchors[n].file : n \in DOMAIN Anchors}
AnchorSet == DOMAIN Anchors
HitSet == DOMAIN Hits
Pinned == [ver |-> 1, link |-> FALSE]

Hit(n) == <<"hit", n>>
Anchor(n) == <<"anchor", n>>
Document == <<"document", 0>>

-----------------------------------------------------------------------------
(* _append_private_access: the path is checked, the file opened and written,  *)
(* the path looked at again.                                                 *)

Append_(what, result, from, ver) ==
    /\ intent' = [what |-> what, result |-> result, from |-> from, ver |-> ver]
    /\ pc' = "log.check"

LogCheck ==
    /\ pc = "log.check"
    /\ IF path = Unsafe THEN fd' = 0 /\ pc' = "log.end" ELSE fd' = fd /\ pc' = "log.write"
    /\ UNCHANGED <<inputs, world, known, hits, logs, i, seen, intent, found, excerpts, warned,
                   reads, witnessed, edits>>

\* O_CREAT and O_NOFOLLOW; a short write or a full disk fails the append
LogWrite ==
    /\ pc = "log.write"
    /\ \/ /\ path = Unsafe
          /\ fd' = 0 /\ pc' = "log.end"
          /\ UNCHANGED <<path, logs>>
       \/ /\ path # Unsafe
          /\ \E file \in {IF path = 0 THEN Len(logs) + 1 ELSE path} :
                /\ path' = file
                /\ \E whole \in BOOLEAN :
                      /\ logs' = IF path = 0
                                 THEN Append(logs, IF whole THEN {intent} ELSE {})
                                 ELSE [logs EXCEPT ![file] = IF whole THEN @ \cup {intent} ELSE @]
                      /\ fd' = IF whole THEN file ELSE 0
                      /\ pc' = IF whole THEN "log.verify" ELSE "log.end"
    /\ UNCHANGED <<inputs, src, side, known, hits, i, seen, intent, found, excerpts, warned,
                   reads, witnessed, edits>>

StandsInTheLog == path \in DOMAIN logs /\ intent \in logs[path]
Witness == IF StandsInTheLog THEN witnessed \cup {intent} ELSE witnessed

\* (mutant) The path is not looked up again after the write.
LogTrust ==
    /\ pc = "log.verify"
    /\ fd' = fd
    /\ witnessed' = Witness
    /\ pc' = "log.end"
    /\ UNCHANGED <<inputs, world, known, hits, logs, i, seen, intent, found, excerpts, warned, reads, edits>>

\* the file that was written must still be the one at the path
LogVerify ==
    /\ pc = "log.verify"
    /\ fd' = IF path = fd THEN fd ELSE 0
    /\ witnessed' = Witness
    /\ pc' = "log.end"
    /\ UNCHANGED <<inputs, world, known, hits, logs, i, seen, intent, found, excerpts, warned, reads, edits>>

Logged == fd # 0

-----------------------------------------------------------------------------
(* LocalKnowledgeRetrievalAdapter.search. *)

\* an adapter is made: it keeps the hashes of the documents the sidecar has now
Begin ==
    /\ pc = "start"
    /\ known' = side
    /\ pc' = IF request THEN "search" ELSE "done"
    /\ UNCHANGED <<inputs, world, hits, logs, i, seen, intent, fd, found, excerpts, warned, reads,
                   witnessed, edits>>

\* a search raises: the attempt is recorded for the documents the adapter knows
SearchFails ==
    /\ pc = "search" /\ side = {}
    /\ IF known = {}
       THEN pc' = "policy" /\ UNCHANGED intent
       ELSE \E d \in known : Append_(Document, "search_failed", "local", d.hash)
    /\ UNCHANGED <<inputs, world, known, hits, logs, i, seen, fd, found, excerpts, warned, reads,
                   witnessed, edits>>

\* each search reads the sidecar as it is then
LocalSearch ==
    /\ pc = "search"
    /\ \E d \in side : hits' = Append(hits, d)
    /\ pc' = IF Len(hits') = Len(Hits) THEN "local" ELSE "search"
    /\ UNCHANGED <<inputs, world, known, logs, i, seen, intent, fd, found, excerpts, warned, reads,
                   witnessed, edits>>

NextHit(n) == pc' = (IF n < Len(Hits) THEN "local" ELSE "policy")
              /\ i' = (IF n < Len(Hits) THEN n + 1 ELSE 1)

\* what the adapter knows of the document and version of a hit
Known(n) == {d \in known : d.doc = hits[n].doc}

\* a hit is recorded under the hash the adapter knows, or not at all
LocalHit ==
    /\ pc = "local"
    /\ \/ \E d \in Known(i) :
             /\ Append_(Hit(i), IF leave THEN "returned" ELSE "denied_policy", "local", d.hash)
             /\ UNCHANGED <<i, warned>>
       \/ Known(i) = {} /\ NextHit(i) /\ warned' = TRUE /\ UNCHANGED intent
    /\ UNCHANGED <<inputs, world, known, hits, logs, seen, fd, found, excerpts, reads, witnessed, edits>>

\* the record was appended, or not; only then the excerpt goes into the item
LocalReturns ==
    /\ pc = "log.end" /\ intent.from = "local"
    /\ warned' = (warned \/ ~Logged)
    /\ excerpts' = IF Logged /\ intent.result = "returned"
                   THEN excerpts \cup {[of |-> intent.what, doc |-> hits[i].doc, ver |-> hits[i].hash]}
                   ELSE excerpts
    /\ IF intent.result = "search_failed" THEN pc' = "policy" /\ i' = 1 ELSE NextHit(i)
    /\ UNCHANGED <<inputs, world, known, hits, logs, seen, intent, fd, found, reads, witnessed, edits>>

-----------------------------------------------------------------------------
(* SourceSnippetRetrievalAdapter.source_snippets. *)

\* an adapter whose caller allows what the policy denies is not run at all
Policy ==
    /\ pc = "policy"
    /\ pc' = IF policy = "denied" /\ allow THEN "done" ELSE "source"
    /\ UNCHANGED <<inputs, world, known, hits, logs, i, seen, intent, fd, found, excerpts, warned, reads,
                   witnessed, edits>>

AfterAnchor(n) ==
    /\ i' = IF n < Len(Anchors) /\ Len(found') < Limit THEN n + 1 ELSE 1
    /\ pc' = IF n < Len(Anchors) /\ Len(found') < Limit THEN "source" ELSE "accept"

SourceDenied ==
    /\ pc = "source" /\ ~allow
    /\ Append_(Anchor(i), "denied_policy", "source", Pinned.ver)
    /\ UNCHANGED <<inputs, world, known, hits, logs, i, seen, fd, found, excerpts, warned, reads,
                   witnessed, edits>>

\* _verified_bytes: what is not an external source is refused unopened
SourceOpen ==
    /\ pc = "source" /\ allow
    /\ IF Anchors[i].form = "managed" \/ src[Anchors[i].file].link
       THEN /\ Append_(Anchor(i), "refused", "source", Pinned.ver)
            /\ UNCHANGED <<seen, reads>>
       ELSE /\ seen' = src[Anchors[i].file]
            /\ reads' = reads \cup {i}
            /\ pc' = "read"
            /\ UNCHANGED intent
    /\ UNCHANGED <<inputs, world, known, hits, logs, i, fd, found, excerpts, warned, witnessed, edits>>

\* the file stayed the same while it was read and has the pinned hash
Verified(f) == src[f] = seen /\ seen = Pinned

SourceRead ==
    /\ pc = "read"
    /\ LET a == Anchors[i] IN
       \/ /\ ~Verified(a.file)
          /\ Append_(Anchor(i), "refused", "source", Pinned.ver)
          /\ UNCHANGED <<i, found>>
       \/ /\ Verified(a.file) /\ a.form = "unplaced"
          /\ UNCHANGED <<intent, found>>
          /\ AfterAnchor(i)
       \/ /\ Verified(a.file) /\ a.form # "unplaced"
          /\ Append_(Anchor(i), IF a.form = "outside" THEN "refused" ELSE "returned", "source", Pinned.ver)
          /\ UNCHANGED <<i, found>>
    /\ UNCHANGED <<inputs, world, known, hits, logs, seen, fd, excerpts, warned, reads, witnessed, edits>>

SourceReturns ==
    /\ pc = "log.end" /\ intent.from = "source"
    /\ warned' = (warned \/ ~Logged)
    /\ found' = IF Logged /\ intent.result = "returned"
                THEN Append(found, [of |-> intent.what, doc |-> 0, ver |-> seen.ver]) ELSE found
    /\ AfterAnchor(i)
    /\ UNCHANGED <<inputs, world, known, hits, logs, seen, intent, fd, excerpts, reads, witnessed, edits>>

\* _verified_source_snippet_item: the file is read and compared again
Revalidated(s) == src[Anchors[s.of[2]].file] = Pinned /\ s.ver = 1

\* retrieve takes the snippets one by one; with a denied policy it discards them
Accept ==
    /\ pc = "accept"
    /\ IF found = << >> \/ policy = "denied"
       THEN pc' = "done" /\ UNCHANGED <<found, excerpts>>
       ELSE /\ excerpts' = IF Revalidated(Head(found)) THEN excerpts \cup {Head(found)} ELSE excerpts
            /\ found' = Tail(found)
            /\ UNCHANGED pc
    /\ UNCHANGED <<inputs, world, known, hits, logs, i, seen, intent, fd, warned, reads, witnessed, edits>>

Retriever ==
    \/ Begin \/ SearchFails \/ LocalSearch \/ LocalHit \/ LocalReturns
    \/ LogCheck \/ LogWrite \/ LogVerify
    \/ Policy \/ SourceDenied \/ SourceOpen \/ SourceRead \/ SourceReturns \/ Accept

-----------------------------------------------------------------------------
(* The world outside. *)

Edit ==
    /\ edits < MaxEdits /\ pc # "done"
    /\ edits' = edits + 1
    /\ UNCHANGED <<inputs, known, hits, logs, pc, i, seen, intent, fd, found, excerpts, warned, reads,
                   witnessed>>

EditSource ==
    /\ Edit
    /\ \E f \in Files : \E s \in {[ver |-> src[f].ver + 1, link |-> FALSE], [src[f] EXCEPT !.link = TRUE], Pinned} :
           src' = [src EXCEPT ![f] = s]
    /\ UNCHANGED <<side, path>>
EditSidecar ==
    /\ Edit /\ side' \in {{}} \cup {{d} : d \in Library} /\ side' # side
    /\ UNCHANGED <<src, path>>
\* the log is moved away, or its place made unsafe
EditLog ==
    /\ Edit /\ path' \in {0, Unsafe}
    /\ UNCHANGED <<src, side>>

Outside == EditSource \/ EditSidecar \/ EditLog

Init ==
    /\ request \in BOOLEAN /\ policy \in {"bounded", "denied"} /\ allow \in BOOLEAN /\ leave \in BOOLEAN
    /\ src = [f \in Files |-> Pinned] /\ side = {CHOOSE d \in Library : TRUE} /\ known = {} /\ hits = << >>
    /\ path = 0 /\ logs = << >>
    /\ pc = "start" /\ i = 1 /\ seen = Pinned
    /\ intent = [what |-> Document, result |-> "none", from |-> "none", ver |-> 0] /\ fd = 0
    /\ found = << >> /\ excerpts = {} /\ warned = FALSE /\ reads = {} /\ witnessed = {}
    /\ edits = 0

Next == Retriever \/ Outside
Spec == Init /\ [][Next]_vars /\ WF_vars(Retriever)

-----------------------------------------------------------------------------
Records == UNION {logs[n] : n \in DOMAIN logs}

(* The log knows only of hits, anchors and documents that were asked for, and  *)
(* no excerpt appears that no adapter offered (retrieve).                     *)
TypeOK ==
    /\ edits \in 0..MaxEdits /\ (path = Unsafe \/ path \in 0..Len(logs))
    /\ Len(found) <= Limit
    /\ reads \subseteq AnchorSet
    /\ \A e \in excerpts : e.of \in {Hit(n) : n \in HitSet} \cup {Anchor(n) : n \in reads}
    /\ ~request => Records = {}

(* An excerpt leaves only when its record stood, as "returned", in the file at  *)
(* the path of the log after it was written: moving the log away or making     *)
(* its place unsafe withholds the text (_append_private_access).  The record of  *)
(* source text has its hash.  That of a document has the hash which the version *)
(* had when the adapter was made: the text may be newer, never of a version the  *)
(* adapter did not know.                                                      *)
FromSource(e) == e.of[1] = "anchor"
Witnesses(r, e) ==
    /\ r.what = e.of /\ r.result = "returned"
    /\ IF FromSource(e) THEN r.ver = e.ver ELSE [doc |-> e.doc, hash |-> r.ver] \in known
ReturnedIsOnRecord == \A e \in excerpts : \E r \in witnessed : Witnesses(r, e)

(* Source text is that of the snapshot, from a file that did not change while   *)
(* it was read, was not a link and was still so afterwards (_verified_bytes,   *)
(* _verified_source_snippet_item).                                           *)
ExcerptIsOfTheSnapshot ==
    /\ \A e \in excerpts : FromSource(e) => e.ver = 1
    /\ \A n \in DOMAIN found : found[n].ver = 1

(* Unasked nothing private is returned.  Under a denying policy no source is      *)
(* even opened, also for a caller who made an adapter that allows it; document    *)
(* text leaves only by an adapter that was made with leave, which those of the    *)
(* project are under a permitting policy only (retrieve,                       *)
(* default_retrieval_adapters).                                              *)
DeniedReadsNothing ==
    /\ ~request => excerpts = {} /\ reads = {}
    /\ policy = "denied" \/ ~allow => reads = {}
    /\ \A e \in excerpts : IF FromSource(e) THEN policy = "bounded" /\ allow ELSE leave

(* Every anchor that was opened is on record in the end, or its file is one of  *)
(* those with no place in it, or a warning says that a record is missing        *)
(* (source_snippets).                                                         *)
OpenedIsOnRecord ==
    pc = "done" => \A n \in reads :
        \/ \E r \in Records : r.what = Anchor(n)
        \/ Anchors[n].form = "unplaced"
        \/ warned

(* A retrieval comes to an end however the files change (retrieve).            *)
RetrievalEnds == <>(pc = "done")

-------------------------------------------------------------------------------
(* What makes the safety properties inductive.                                *)

Logging == {"log.check", "log.write", "log.verify", "log.end"}
Results == {"none", "search_failed", "returned", "denied_policy", "refused"}
Things == {Document} \cup {Hit(n) : n \in HitSet} \cup {Anchor(n) : n \in AnchorSet}
Intents == [what : Things, result : Results, from : {"none", "local", "source"}, ver : Nat]
FoundSnippets == [of : {Anchor(n) : n \in AnchorSet}, doc : {0}, ver : {1}]

\* An adapter is at work, or an append on its behalf.
InLocal == pc \in {"search", "local"} \/ (pc \in Logging /\ intent.from = "local")
InSource == pc \in {"source", "read"} \/ (pc \in Logging /\ intent.from = "source")

\* The local adapter goes first, then the anchors are visited up to the limit.
Control ==
    /\ pc \in Logging \cup {"start", "search", "local", "policy", "source", "read", "accept", "done"}
    /\ policy \in {"bounded", "denied"} /\ allow \in BOOLEAN /\ request \in BOOLEAN /\ warned \in BOOLEAN
    /\ intent \in Intents /\ found \in Seq(FoundSnippets) /\ logs \in Seq(SUBSET Intents)
    /\ pc \in Logging => intent.from # "none"
    /\ InLocal => i \in HitSet
    /\ InSource => i \in AnchorSet /\ Len(found) < Limit
    /\ InLocal \/ pc \in {"start", "policy"} => found = << >>
    /\ pc \in {"start", "search", "policy"} => i = 1
    /\ pc = "read" => i \in reads

\* The searches end with all hits, before any is recorded.
Searching ==
    /\ leave \in BOOLEAN /\ side \subseteq Library /\ known \subseteq Library /\ hits \in Seq(Library)
    /\ pc \in {"start", "search"} => Len(hits) < Len(Hits) /\ excerpts = {}
    /\ pc = "local" \/ (pc \in Logging /\ intent.from = "local" /\ intent.result # "search_failed")
          => Len(hits) = Len(Hits)

\* What an append is about.
IntentIsOwn ==
    pc \in Logging =>
        /\ intent.from = "local" /\ intent.result = "returned" =>
             intent.what = Hit(i) /\ leave /\ [doc |-> hits[i].doc, hash |-> intent.ver] \in known
        /\ intent.from = "source" =>
             /\ intent.what = Anchor(i)
             /\ intent.ver = Pinned.ver
             /\ intent.result = "returned" => i \in reads /\ seen = Pinned

\* A record that stood stays in its file, wherever the file is moved.
RecordsStand ==
    /\ witnessed \subseteq Records
    /\ pc = "log.verify" => fd \in DOMAIN logs /\ intent \in logs[fd]
    /\ pc = "log.end" /\ fd # 0 => intent \in witnessed

\* What the source adapter has found is on record before retrieve takes it.
FoundIsOnRecord ==
    \A n \in DOMAIN found :
        /\ \E m \in reads : found[n].of = Anchor(m)
        /\ \E r \in witnessed : Witnesses(r, found[n])

\* Who has no leave does nothing.
DeniedDoesNothing ==
    /\ ~request => pc \in {"start", "done"} /\ logs = << >> /\ reads = {} /\ excerpts = {}
    /\ policy = "denied" => reads = {} /\ (InSource => ~allow)
    /\ ~allow => reads = {}

\* An opened anchor is on record, or it is the one under way.
OpenedIsCovered ==
    \A n \in reads :
        \/ \E r \in Records : r.what = Anchor(n)
        \/ Anchors[n].form = "unplaced"
        \/ warned
        \/ n = i /\ pc = "read"
        \/ n = i /\ pc \in {"log.check", "log.write"} /\ intent.from = "source"
        \/ n = i /\ pc = "log.end" /\ intent.from = "source" /\ fd = 0

\* All of it together, and with it every safety property above.
IInv ==
    /\ TypeOK /\ Control /\ Searching /\ IntentIsOwn /\ RecordsStand /\ FoundIsOnRecord /\ DeniedDoesNothing
    /\ OpenedIsCovered /\ ReturnedIsOnRecord /\ ExcerptIsOfTheSnapshot /\ DeniedReadsNothing

=============================================================================
