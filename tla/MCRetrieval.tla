----------------------------- MODULE MCRetrieval -----------------------------
(***************************************************************************)
(* A retrieval (Retrieval, whose adapters answer in one step), and what happens *)
(* inside of that step when private text is asked for (PrivateSnippets).  A     *)
(* behaviour is one of the two, the other rests in an initial state.           *)
(*                                                                          *)
(* The ledger has two entities of hardware, a connected and a lone one of the    *)
(* source, one of software, two derivations of which one rests on the other, two *)
(* that rest on each other, a verification of each of the former, a diagnostic   *)
(* about nothing, two rules, one prediction.                                  *)
(* The anchors are two with lines in two files, one beyond the end of its file,  *)
(* one of a managed artifact and one without a line; the sidecar has two hits.   *)
(***************************************************************************)
EXTENDS Retrieval, TLC

VARIABLES
    part,       \* which of the two
    asked, policy, allow, leave, src, side, known, hits, path, logs, spc, at, seen, intent, fd, found, excerpts,
    warned, reads, witnessed, edits

CONSTANTS Anchors, Hits, Library, Limit, MaxEdits

MCLayer == <<"hls", "hls", "source", "software", "source">>
Rel(i, s, d, k) == [id |-> i, src |-> s, dst |-> d, kind |-> k]
MCRelations == {Rel(51, 1, 2, "contains"), Rel(52, 2, 3, "streams"), Rel(53, 3, 2, "streams"),
                Rel(54, 1, 4, "contains"), Rel(55, 4, 3, "calls"), Rel(56, 2, 3, "contains")}
MCHardware == [contains |-> 7, streams |-> 10, calls |-> 0]
MCTerms == 1 :> {"a"} @@ 2 :> {"b"} @@ 3 :> {"a", "b"} @@ 4 :> {"c"} @@ 5 :> {"c"} @@ 11 :> {"b"} @@ 12 :> {"a"}
           @@ 13 :> {"b"} @@ 14 :> {"a"} @@ 15 :> {"d"} @@ 16 :> {"d"} @@ 17 :> {"a"}
           @@ 21 :> {"a", "b"} @@ 22 :> {"a", "c"} @@ 31 :> {"b"} @@ [r \in 51..56 |-> {"r"}]
MCNames == 1 :> {"a"} @@ 3 :> {"a"} @@ 4 :> {"c"}
           @@ [r \in ({2, 5} \cup 11..17 \cup {21, 22, 31} \cup 51..56) |-> {"x"}]
MCRefs == 11 :> {12} @@ 12 :> {} @@ 16 :> {17} @@ 17 :> {16}
MCSubject == 11 :> 2 @@ 12 :> 1 @@ 16 :> 2 @@ 17 :> 1
\* the chain beside a received circle, and beside what is partial, unreceived or empty
MCReceipts ==
    {11 :> s @@ 12 :> t @@ 16 :> "valid" @@ 17 :> "valid" :
        s \in {"valid", "empty"}, t \in {"valid", "invalid", "partial"}}
    \cup {11 :> s @@ 12 :> "valid" @@ 16 :> s @@ 17 :> "empty" : s \in {"partial", "invalid"}}
MCEvidence == 13 :> {11} @@ 14 :> {12}
MCDiagnosed == 15 :> 0
MCPredicted == 31 :> 2
MCScores == {<<3, 2, 1, 1, 1>>, <<1, 2, 2, 1, 1>>}
Item(i, p, h, e) == [id |-> i, plane |-> p, honest |-> h, excerpt |-> e]
MCOutputs == {{Item(41, "local", TRUE, "bounded")},
              {Item(41, "local", FALSE, "none"), Item(42, "facts", TRUE, "none"),
               Item(43, "predictions", TRUE, "none")}}
MCSnippets == {{}, {1, 3}}
MCQueries == {{"a"}, {"b", "d"}, {"z"}}

FiveAnchors == <<[file |-> "f", form |-> "lines"], [file |-> "g", form |-> "outside"],
                 [file |-> "g", form |-> "managed"], [file |-> "f", form |-> "unplaced"],
                 [file |-> "g", form |-> "lines"]>>
TwoHits == <<"h1", "h2">>
\* a version, the same with other bytes, another version
MCLibrary == {[doc |-> 1, hash |-> 1], [doc |-> 1, hash |-> 2], [doc |-> 2, hash |-> 3]}

-------------------------------------------------------------------------------
Private == INSTANCE PrivateSnippets WITH
    request <- asked, pc <- spc, i <- at

ASSUME PrivateAssumption == Private!SnippetsAssumption

svars == <<asked, policy, allow, leave, src, side, known, hits, path, logs, spc, at, seen, intent, fd, found, excerpts,
           warned, reads, witnessed, edits>>

MCInit ==
    /\ part \in {"retrieval", "private"}
    /\ Init /\ Private!Init
    /\ part = "retrieval" \/
         (query = {"z"} /\ view = "evidence" /\ scope = 0 /\ ~private /\ ~withPredictions /\ budget = 6)
    /\ part = "private" \/ (~asked /\ policy = "denied" /\ ~allow /\ ~leave)
    /\ allow = leave \/ policy = "denied"  \* the adapters differ where the policy denies

MCNext ==
    /\ \/ part = "retrieval" /\ Next /\ UNCHANGED svars
       \/ part = "private" /\ Private!Next /\ UNCHANGED vars
    /\ UNCHANGED part

\* A retrieval goes on; nothing is assumed of those who change files.
MCFairness == WF_vars(part = "retrieval" /\ Next) /\ WF_svars(part = "private" /\ Private!Retriever)

MCSpec == MCInit /\ [][MCNext]_<<part, vars, svars>> /\ MCFairness

-------------------------------------------------------------------------------
\* retrieve: what adapters return never becomes a fact or a rule, nor a prediction
\* unasked; facts stay in the scope, the trace tells what private text is there,
\* and the flow is a simple path.
PlanesAreKept ==
    part = "retrieval" => TypeOK /\ PlanesStayApart /\ FactsAreInScope /\ TraceTellsWhatIsThere /\ FlowIsAPath

\* How facts rank does not depend on what stands beside them, and a fact is given
\* up only when the barest answer with it would exceed the budget (_apply_budget).
FactsComeFirst == part = "retrieval" => RanksIgnoreGuidance /\ FactsGoLast

\* A value is shown as complete only with valid receipts for all it rests on, and an
\* answer is called certain only of complete facts of a current snapshot, also after
\* trimming (_derivation_receipt_chain_valid, retrieve).
CertaintyIsEarned == part = "retrieval" => ValuesAreGrounded /\ ConfidenceIsEarned

\* Private text leaves only after its record stood in the log; source text is that of
\* the snapshot and not even opened without the project's leave, document text needs
\* that of its adapter; what was opened is on record (retrieve, _append_private_access).
PrivateIsOnRecord ==
    part = "private" =>
    /\ Private!TypeOK /\ Private!ReturnedIsOnRecord /\ Private!ExcerptIsOfTheSnapshot
    /\ Private!DeniedReadsNothing /\ Private!OpenedIsOnRecord

\* Every retrieval returns, however its answer must be trimmed and the files change.
RetrievalEnds == <>[](IF part = "retrieval" THEN pc = "done" ELSE spc = "done")
===============================================================================
