------------------------------ MODULE MCKnowledge ------------------------------
(***************************************************************************)
(* Knowledge and where it comes from: which binding matches (KnowledgeMatching),*)
(* what an evaluation session delivers (KnowledgeActivation), which packs a      *)
(* ledger serves (KnowledgePacks), and what is quoted from local documents       *)
(* (LocalSidecar).  A behaviour is one of the four, the others rest.            *)
(***************************************************************************)
EXTENDS KnowledgeMatching, Sequences, TLC

VARIABLES
    part,       \* which of the four
    live, phase, reg, issued, handles, lock, call, out,
    ruleRow, bindingRow, packRow, coverage, broken, todo, pcall, reader, seen, served, shipped, touched,
    early, edits, faults,
    file, writes, rd, meta, embedder, build, builds, database, manifest, search, sout

CONSTANTS Threads, Sessions, MaxHandles, Docs, Builders, Searchers, MaxWrites, MaxEmbedder, MaxBuilds,
    MaxEdits, MaxFaults, Rules, Bindings, PackIds, Registry, Catalogs, LooseRules, Edited

-------------------------------------------------------------------------------
(* Matching: every constraint over two values, for one key that the binding      *)
(* constrains and one that its target derives.                               *)

MCValues == {"v1", "v2"}
MCVersion == "v1" :> 1 @@ "v2" :> 2
MCWitness == "derived" :> "witness"

One(S) == {{}} \cup {{x} : x \in S}
AllOps == [kind : {"ops"}, equals : One(MCValues), oneOf : One((SUBSET MCValues) \ {{}}), min : One({2}), max : One({1}),
           required : BOOLEAN, unknown : {FALSE}]
\* bounds alone, of two versions
Bounds == [kind : {"ops"}, equals : {{}}, oneOf : {{}}, min : One({1, 2}), max : One({1, 2}),
           required : {FALSE}, unknown : {FALSE}]
Needed == [kind |-> "ops", equals |-> {}, oneOf |-> {}, min |-> {}, max |-> {}, required |-> TRUE, unknown |-> FALSE]
Scalars == [kind : {"scalar"}, value : MCValues]
All == AllOps \cup Bounds \cup Scalars \cup {Absent}

Pair(S, D, W) == {"direct" :> c @@ "derived" :> d @@ "witness" :> w : c \in S, d \in D, w \in W}
MCConditions == Pair(All, {Absent} \cup Scalars, {Absent})
MCRequireds == Pair(All, {Absent}, {Absent, Needed})
MCContexts == Pair(SUBSET MCValues, {{}}, {{}, {"v1"}})
Rest == "direct" :> Absent @@ "derived" :> Absent @@ "witness" :> Absent

-------------------------------------------------------------------------------
(* Two releases.  Packs a and b share a rule, and pack b changed its text between *)
(* them; the first release has a citation-only pack without review and a pack    *)
(* whose metadata does not repeat the review of its coverage, the second a pack  *)
(* whose bindings nobody reviewed.                                             *)

Entry(rs, bs) == [status |-> "rule", rules |-> rs, bindings |-> bs]
Binding(r, t) == [rule |-> r, target |-> t, entails |-> TRUE, text |-> 1]
NoBindings == [x \in {} |-> [rule |-> "none"]]

PackA == [id |-> "a", legacy |-> FALSE, covered |-> TRUE, scope |-> "s", status |-> "reviewed", declared |-> "reviewed",
          rules |-> "r1" :> 1, bindings |-> "b1" :> Binding("r1", "t"),
          entries |-> <<Entry({"r1"}, {"b1"})>>, targets |-> "t" :> {"b1"}]
PackB(text) == [id |-> "b", legacy |-> FALSE, covered |-> TRUE, scope |-> "u", status |-> "reviewed", declared |-> "reviewed",
          rules |-> "r1" :> 1 @@ "r2" :> text, bindings |-> "b2" :> Binding("r2", "u"),
          entries |-> <<Entry({"r1"}, {}), Entry({"r2"}, {"b2"})>>, targets |-> "u" :> {"b2"} @@ "v" :> {}]
PackC == [id |-> "c", legacy |-> TRUE, covered |-> FALSE, scope |-> "s", status |-> "unreviewed", declared |-> "unreviewed",
          rules |-> "r3" :> 1, bindings |-> NoBindings, entries |-> << >>, targets |-> [t \in {} |-> {}]]
PackE == [id |-> "e", legacy |-> FALSE, covered |-> TRUE, scope |-> "s", status |-> "reviewed", declared |-> "none",
          rules |-> "r4" :> 1, bindings |-> NoBindings, entries |-> <<Entry({"r4"}, {})>>, targets |-> "t" :> {}]
PackD == [id |-> "d", legacy |-> FALSE, covered |-> TRUE, scope |-> "s", status |-> "unreviewed", declared |-> "unreviewed",
          rules |-> "r3" :> 1, bindings |-> "b3" :> Binding("r3", "t"),
          entries |-> <<Entry({"r3"}, {"b3"})>>, targets |-> "t" :> {"b3"}]

MCRegistry == "s" :> {"t"} @@ "u" :> {"u", "v"}
MCCatalogs == "old" :> <<PackB(1), PackC, PackE>> @@ "new" :> <<PackA, PackB(2), PackD>>
MCLoose == "r3" :> 2

-------------------------------------------------------------------------------
Activation == INSTANCE KnowledgeActivation
Packs == INSTANCE KnowledgePacks WITH call <- pcall
Sidecar == INSTANCE LocalSidecar WITH out <- sout

\* The bounds are numbers, and processes are told apart.
ASSUME KnowledgeAssumption == Activation!ActivationOK /\ Packs!PacksOK /\ Sidecar!SidecarOK

avars == <<live, phase, reg, issued, handles, lock, call, out>>
pvars == <<ruleRow, bindingRow, packRow, coverage, broken, todo, pcall, reader, seen, served, shipped, touched,
           early, edits, faults>>
svars == <<file, writes, rd, meta, embedder, build, builds, database, manifest, search, sout>>

MCInit ==
    /\ part \in {"matching", "activation", "packs", "sidecar"}
    /\ IF part = "matching" THEN Init
       ELSE /\ condition = Rest /\ required = Rest /\ loaded = FALSE /\ matched = FALSE /\ active = FALSE
            /\ context = [k \in Keys |-> {}]
    /\ Activation!Init /\ Packs!Init /\ Sidecar!Init

MCNext ==
    /\ \/ part = "matching" /\ Next /\ UNCHANGED <<avars, pvars, svars>>
       \/ part = "activation" /\ Activation!Next /\ UNCHANGED <<vars, pvars, svars>>
       \/ part = "packs" /\ Packs!Next /\ UNCHANGED <<vars, avars, svars>>
       \/ part = "sidecar" /\ Sidecar!Next /\ UNCHANGED <<vars, avars, pvars>>
    /\ UNCHANGED part

\* The processes that install their release go on.
MCFairness == \A p \in DOMAIN Catalogs : WF_pvars(part = "packs" /\ Packs!Installs(p))

MCSpec == MCInit /\ [][MCNext]_<<part, vars, avars, pvars, svars>> /\ MCFairness

-------------------------------------------------------------------------------
\* KnowledgeActivationSession: whatever callbacks and threads change, issue or
\* close around it, a result is of the reviewed rule for a context that its own
\* session issued, one evaluation runs in a session, and the result leaves only
\* while the session is open and all behind it is as it was reviewed.
DeliveredIsReviewed ==
    /\ [](Activation!TypeOK /\ Activation!DeliveredIsReviewed /\ Activation!OneInside)
    /\ Activation!DeliveredWhileValid

\* install_knowledge_pack and the retrieval that reads it back: what is served was
\* part of one reviewed pack, as a whole, whatever rows users and releases add
\* before or between the reads, and an installation changes no row.
ServedIsReviewed ==
    /\ [](/\ Packs!TypeOK /\ Packs!ServedWasReviewed /\ Packs!ServedIsWhole
          /\ Packs!InstalledIsServed /\ Packs!NoBindingUnreviewed)
    /\ Packs!InstallAppends

\* The local document index: rows and vectors are of what the manifest declares,
\* a query reads one build, and an excerpt is what its document says when quoted.
QuotesTheDocument ==
    /\ [](Sidecar!TypeOK /\ Sidecar!RowsAreDeclared /\ Sidecar!VectorsAreDeclared /\ Sidecar!OneBuildPerQuery)
    /\ Sidecar!QuotesTheDocument

\* KnowledgeCatalog.sync: a release that agrees with the ledger is installed in
\* the end, also if its installation is interrupted between two packs.
SyncConverges ==
    \A p \in Packs!Installable :
        <>[](part = "packs" /\ Packs!Agrees(p)) => <>[](part = "packs" => Packs!Installed(p))
===============================================================================
