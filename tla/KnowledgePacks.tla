--------------------------- MODULE KnowledgePacks ---------------------------
(***************************************************************************)
(* Knowledge packs in the ledger: catalogs of different releases install      *)
(* them pack by pack (knowledge/core.py, store/sqlite.py), users edit and add   *)
(* rows, and a retrieval reads rules, bindings, inventories and coverage in     *)
(* four reads and serves what belongs to a reviewed pack (retrieval.py).       *)
(*                                                                          *)
(* A hash is the value it is taken of.  The identifiers of bindings and of      *)
(* coverage fix all of their fields except free text; an edit of anything else  *)
(* breaks the row, so that reading the table raises.                          *)
(***************************************************************************)
EXTENDS Integers, Sequences, FiniteSets, SequencesExt

CONSTANTS
    Rules, Bindings, PackIds,
    Registry,     \* scope -> the targets a pack of it must list
    Catalogs,     \* process -> the sequence of packs of its release, by id
    LooseRules,   \* rules a user adds outside of any pack: rule -> text
    Edited,       \* the text of an edit, in no pack
    MaxEdits, MaxFaults

Procs == DOMAIN Catalogs
At(f, S) == [x \in S |-> f[x]]
NoText == 0
NoRow == [pack |-> "none"]
NoBinding == [rule |-> "none"]

VARIABLES
    ruleRow,     \* rule -> its text, NoText if there is no row
    bindingRow,  \* binding -> [rule, target, entails, text] or NoBinding
    packRow,     \* pack id -> its inventory or NoRow
    coverage,    \* set of coverage manifests
    broken,      \* tables with a row that does not parse
    todo,        \* process -> packs it has still to install
    call,        \* process -> "idle", "install", "raised", "done"
    reader,      \* where the retrieval is
    seen,        \* what it has read
    served,      \* what it may use, nothing if it was rejected
    shipped,     \* history: packs that were installed
    touched,     \* history: tables the users edited
    early,       \* history: what was installed when the retrieval began
    edits, faults

tables == <<ruleRow, bindingRow, packRow, coverage, broken>>
reading == <<reader, seen, served, early>>
vars == <<tables, todo, call, reading, shipped, touched, edits, faults>>

-----------------------------------------------------------------------------
(* Packs. *)

\* each of ids is in exactly one of the parts, and nothing else is
Once(parts, ids) ==
    /\ UNION Range(parts) = ids
    /\ \A i \in ids : Cardinality({n \in DOMAIN parts : i \in parts[n]}) = 1
RulesOf(e) == IF e.status = "rule" THEN e.rules ELSE {}
BindingsOf(e) == IF e.status = "rule" THEN e.bindings ELSE {}

\* CoverageManifest.review_ready
ReviewReady(c) ==
    /\ c.entries # << >> /\ \A n \in DOMAIN c.entries : c.entries[n].status # "deferred"
    /\ c.status # "unreviewed"

CoverageOf(p) == [pack |-> p.id, scope |-> p.scope, entries |-> p.entries, targets |-> p.targets,
                  status |-> p.status, text |-> NoText]

\* the coverage of rules and bindings: entries and targets
Covers(c, rules, bindings) ==
    /\ Once([n \in DOMAIN c.entries |-> RulesOf(c.entries[n])], DOMAIN rules)
    /\ Once([n \in DOMAIN c.entries |-> BindingsOf(c.entries[n])], DOMAIN bindings)
    /\ \A n \in DOMAIN c.entries : \A b \in BindingsOf(c.entries[n]) : bindings[b].rule \in c.entries[n].rules
    /\ DOMAIN bindings # {} \/ DOMAIN c.targets # {} => DOMAIN c.targets = Registry[c.scope]
    /\ UNION {c.targets[t] : t \in DOMAIN c.targets} = DOMAIN bindings
    /\ \A t \in DOMAIN c.targets : \A b \in c.targets[t] : bindings[b].target = t

\* KnowledgePack.__post_init__
WellFormed(p) ==
    /\ \A b \in DOMAIN p.bindings : p.bindings[b].rule \in DOMAIN p.rules /\ p.bindings[b].entails
    /\ p.legacy => DOMAIN p.bindings = {} /\ ~p.covered
    /\ p.covered => Covers(CoverageOf(p), p.rules, p.bindings) /\ p.declared \in {"none", p.status}
    /\ ~p.covered /\ ~p.legacy => DOMAIN p.rules = {}

\* KnowledgePack.review_ready
PackReady(p) == p.covered /\ ReviewReady(CoverageOf(p)) /\ p.declared = p.status

\* KnowledgePack.inventory
Inventory(p) ==
    [pack |-> p.id, content |-> p, rules |-> DOMAIN p.rules, bindings |-> DOMAIN p.bindings,
     status |-> p.status, ready |-> PackReady(p),
     activation |-> <<p.rules, p.bindings, CoverageOf(p)>>]

\* install_knowledge_pack, before it opens the transaction
StoreAccepts(p) == WellFormed(p) /\ (DOMAIN p.bindings # {} => PackReady(p))

-----------------------------------------------------------------------------
(* Installing. *)

\* (mutant) After a failure the pack that failed is passed over.
SyncSkips(p) ==
    /\ call[p] \in {"idle", "raised"}
    /\ call' = [call EXCEPT ![p] = "install"]
    /\ todo' = [todo EXCEPT ![p] = IF @ = << >> THEN Catalogs[p] ELSE Tail(@)]
    /\ UNCHANGED <<tables, reading, shipped, touched, edits, faults>>

\* KnowledgeCatalog.sync, from the first pack each time
SyncStart(p) ==
    /\ call[p] \in {"idle", "raised"}
    /\ call' = [call EXCEPT ![p] = "install"]
    /\ todo' = [todo EXCEPT ![p] = Catalogs[p]]
    /\ UNCHANGED <<tables, reading, shipped, touched, edits, faults>>

\* _immutable_payload: a row that exists must be the same
Immutable(p) ==
    /\ \A r \in DOMAIN p.rules : ruleRow[r] \in {NoText, p.rules[r]}
    /\ \A b \in DOMAIN p.bindings : bindingRow[b] \in {NoBinding, p.bindings[b]}
    /\ p.covered => \A c \in coverage : [c EXCEPT !.text = NoText] = CoverageOf(p) => c = CoverageOf(p)

\* one pack, one transaction; the same pack again changes nothing
InstallPack(p) ==
    /\ call[p] = "install" /\ todo[p] # << >>
    /\ UNCHANGED <<reading, touched, edits, faults>>
    /\ LET k == Head(todo[p])
           old == packRow[k.id]
       IN  IF ~StoreAccepts(k) \/ (old # NoRow /\ old # Inventory(k)) \/ (old = NoRow /\ ~Immutable(k))
           THEN /\ call' = [call EXCEPT ![p] = "raised"]
                /\ UNCHANGED <<tables, todo, shipped>>
           ELSE /\ todo' = [todo EXCEPT ![p] = Tail(@)]
                /\ call' = [call EXCEPT ![p] = IF todo'[p] = << >> THEN "done" ELSE @]
                /\ IF old # NoRow THEN UNCHANGED <<tables, shipped>>
                   ELSE /\ ruleRow' = [r \in Rules |-> IF r \in DOMAIN k.rules THEN k.rules[r] ELSE ruleRow[r]]
                        /\ bindingRow' = [b \in Bindings |-> IF b \in DOMAIN k.bindings THEN k.bindings[b]
                                                             ELSE bindingRow[b]]
                        /\ packRow' = [packRow EXCEPT ![k.id] = Inventory(k)]
                        /\ coverage' = IF k.covered THEN coverage \cup {CoverageOf(k)} ELSE coverage
                        /\ shipped' = shipped \cup {k}
                        /\ UNCHANGED broken

\* a busy ledger, a full disk or a death: the transaction is rolled back
InstallFails(p) ==
    /\ call[p] = "install" /\ faults < MaxFaults
    /\ call' = [call EXCEPT ![p] = "raised"]
    /\ faults' = faults + 1
    /\ UNCHANGED <<tables, todo, reading, shipped, touched, edits>>

\* add_knowledge_rules
AddRules ==
    /\ edits < MaxEdits /\ edits' = edits + 1
    /\ \A r \in DOMAIN LooseRules : ruleRow[r] \in {NoText, LooseRules[r]}
    /\ ruleRow' = [r \in Rules |-> IF r \in DOMAIN LooseRules THEN LooseRules[r] ELSE ruleRow[r]]
    /\ UNCHANGED <<bindingRow, packRow, coverage, broken, todo, call, reading, shipped, touched, faults>>

-----------------------------------------------------------------------------
(* Users with a database tool. *)

Edit(t) == edits < MaxEdits /\ edits' = edits + 1 /\ touched' = touched \cup {t}
           /\ UNCHANGED <<todo, call, reading, shipped, faults>>

EditRule ==
    \E r \in Rules :
        /\ ruleRow[r] # NoText /\ Edit("rules")
        /\ ruleRow' = [ruleRow EXCEPT ![r] = Edited]
        /\ UNCHANGED <<bindingRow, packRow, coverage, broken>>
EditBinding ==
    \E b \in Bindings :
        /\ bindingRow[b] # NoBinding /\ Edit("bindings")
        /\ bindingRow' = [bindingRow EXCEPT ![b].text = Edited]
        /\ UNCHANGED <<ruleRow, packRow, coverage, broken>>
InjectBinding ==
    \E b \in Bindings, r \in Rules :
        /\ bindingRow[b] = NoBinding /\ ruleRow[r] # NoText /\ Edit("bindings")
        /\ bindingRow' = [bindingRow EXCEPT ![b] = [rule |-> r, target |-> "t", entails |-> FALSE, text |-> Edited]]
        /\ UNCHANGED <<ruleRow, packRow, coverage, broken>>
EditInventory ==
    \E k \in PackIds :
        /\ packRow[k] # NoRow /\ Edit("packs")
        /\ \/ packRow' = [packRow EXCEPT ![k].ready = TRUE]
           \/ packRow' = [packRow EXCEPT ![k].bindings = {b \in Bindings : bindingRow[b] # NoBinding}]
        /\ UNCHANGED <<ruleRow, bindingRow, coverage, broken>>
EditCoverage ==
    \E c \in coverage :
        /\ Edit("coverage")
        /\ coverage' = (coverage \ {c}) \cup {[c EXCEPT !.text = Edited]}
        /\ UNCHANGED <<ruleRow, bindingRow, packRow, broken>>
BreakRow ==
    \E t \in {"rules", "bindings", "coverage"} :
        /\ Edit(t)
        /\ broken' = broken \cup {t}
        /\ UNCHANGED <<ruleRow, bindingRow, packRow, coverage>>

-----------------------------------------------------------------------------
(* Reading. *)

\* all guidance is given up
Raises == /\ reader' = "done"
          /\ UNCHANGED <<seen, served, early>>

ReadRules ==
    /\ reader = "start"
    /\ IF "rules" \in broken THEN Raises
       ELSE /\ reader' = "bindings"
            /\ seen' = [seen EXCEPT !.rules = ruleRow]
            /\ early' = {k \in shipped : packRow[k.id] = Inventory(k)}
            /\ UNCHANGED served
    /\ UNCHANGED <<tables, todo, call, shipped, touched, edits, faults>>
ReadBindings ==
    /\ reader = "bindings"
    /\ IF "bindings" \in broken THEN Raises
       ELSE /\ reader' = "packs"
            /\ seen' = [seen EXCEPT !.bindings = bindingRow]
            /\ UNCHANGED <<served, early>>
    /\ UNCHANGED <<tables, todo, call, shipped, touched, edits, faults>>
ReadPacks ==
    /\ reader = "packs" /\ reader' = "coverage"
    /\ seen' = [seen EXCEPT !.packs = packRow]
    /\ UNCHANGED <<tables, todo, call, served, early, shipped, touched, edits, faults>>

\* knowledge_activation_hash over the rows that were read
Activated(inv, c) == inv.activation = <<At(seen.rules, inv.rules), At(seen.bindings, inv.bindings), c>>

\* (mutant) The rows are there; that they are the reviewed ones is not compared.
ClosesByIds(c) ==
    /\ seen.packs[c.pack] # NoRow
    /\ LET inv == seen.packs[c.pack] IN
       /\ ReviewReady(c) /\ inv.ready /\ inv.status = c.status
       /\ \A r \in inv.rules : seen.rules[r] # NoText
       /\ \A b \in inv.bindings : seen.bindings[b] # NoBinding
       /\ Covers(c, At(seen.rules, inv.rules), At(seen.bindings, inv.bindings))
       /\ DOMAIN c.targets = Registry[c.scope]

\* _review_ready_surface_unchecked: does this coverage close an installed pack
Closes(c) ==
    /\ seen.packs[c.pack] # NoRow
    /\ LET inv == seen.packs[c.pack] IN
       /\ ReviewReady(c) /\ inv.ready /\ inv.status = c.status
       /\ \A r \in inv.rules : seen.rules[r] # NoText
       /\ \A b \in inv.bindings : seen.bindings[b] # NoBinding
       /\ Activated(inv, c)
       /\ Covers(c, At(seen.rules, inv.rules), At(seen.bindings, inv.bindings))
       /\ DOMAIN c.targets = Registry[c.scope]
       /\ \A b \in inv.bindings : seen.bindings[b].entails

ReadCoverage ==
    /\ reader = "coverage"
    /\ IF "coverage" \in broken THEN Raises
       ELSE /\ reader' = "done"
            /\ LET packs == {seen.packs[c.pack] : c \in {d \in coverage : Closes(d)}}
               IN  served' = [rules |-> At(seen.rules, UNION {k.rules : k \in packs}),
                              bindings |-> At(seen.bindings, UNION {k.bindings : k \in packs})]
            /\ UNCHANGED <<seen, early>>
    /\ UNCHANGED <<tables, todo, call, shipped, touched, edits, faults>>

-----------------------------------------------------------------------------
Init ==
    /\ ruleRow = [r \in Rules |-> NoText] /\ bindingRow = [b \in Bindings |-> NoBinding]
    /\ packRow = [k \in PackIds |-> NoRow] /\ coverage = {} /\ broken = {}
    /\ todo = [p \in Procs |-> << >>] /\ call = [p \in Procs |-> "idle"]
    /\ reader = "start" /\ served = [rules |-> At(ruleRow, {}), bindings |-> At(bindingRow, {})]
    /\ seen = [rules |-> ruleRow, bindings |-> bindingRow, packs |-> packRow]
    /\ shipped = {} /\ touched = {} /\ early = {} /\ edits = 0 /\ faults = 0

Installs(p) == SyncStart(p) \/ InstallPack(p)
Users == AddRules \/ EditRule \/ EditBinding \/ InjectBinding \/ EditInventory \/ EditCoverage \/ BreakRow
Retrieves == ReadRules \/ ReadBindings \/ ReadPacks \/ ReadCoverage
Next == (\E p \in Procs : Installs(p) \/ InstallFails(p)) \/ Users \/ Retrieves
Spec == Init /\ [][Next]_vars /\ \A p \in Procs : WF_vars(Installs(p))

-----------------------------------------------------------------------------
(* An inventory that is in the ledger has its rules, bindings and coverage as    *)
(* rows, unless a user edited the table (install_knowledge_pack).              *)
TypeOK ==
    /\ \A k \in PackIds : packRow[k] # NoRow =>
           /\ "packs" \notin touched => packRow[k] \in {Inventory(s) : s \in shipped}
           /\ \A r \in packRow[k].rules : ruleRow[r] # NoText
    /\ \A c \in coverage : packRow[c.pack] # NoRow
    /\ DOMAIN seen = {"rules", "bindings", "packs"}

(* What a retrieval uses was, word for word, part of one pack with a completed     *)
(* review that was installed, whatever rows were edited or added, before or       *)
(* between its reads; unless inventories were edited, the pack itself declared     *)
(* the review; every binding entails the condition of its rule                   *)
(* (_review_ready_surface).                                                    *)
Reviewed(k) == k.covered /\ ReviewReady(CoverageOf(k)) /\ ("packs" \notin touched => PackReady(k))
ServedWasReviewed ==
    reader = "done" =>
        /\ \A r \in DOMAIN served.rules :
               \E k \in shipped : Reviewed(k) /\ r \in DOMAIN k.rules /\ k.rules[r] = served.rules[r]
        /\ \A b \in DOMAIN served.bindings :
               \E k \in shipped : /\ Reviewed(k) /\ b \in DOMAIN k.bindings
                                  /\ k.bindings[b] = served.bindings[b] /\ k.bindings[b].entails
                                  /\ served.bindings[b].rule \in DOMAIN served.rules

(* A pack is served as a whole or not at all: never rules of one state of the     *)
(* ledger with bindings of another.                                           *)
ServedIsWhole ==
    reader = "done" =>
        \A b \in DOMAIN served.bindings :
            \E k \in shipped : /\ b \in DOMAIN k.bindings
                               /\ DOMAIN k.bindings \subseteq DOMAIN served.bindings
                               /\ \A r \in DOMAIN k.rules : r \in DOMAIN served.rules
                                                            /\ served.rules[r] = k.rules[r]

(* A reviewed pack that lists the targets of its scope and was installed when the  *)
(* retrieval began is served, however many packs and rules are installed during   *)
(* its reads, if nobody edits rows.                                            *)
InstalledIsServed ==
    reader = "done" /\ touched = {} =>
        \A k \in early : PackReady(k) /\ DOMAIN k.targets = Registry[k.scope] =>
            /\ DOMAIN k.rules \subseteq DOMAIN served.rules
            /\ DOMAIN k.bindings \subseteq DOMAIN served.bindings

(* Installing never changes a row that is there, whichever releases install       *)
(* (_immutable_payload, install_knowledge_pack).                               *)
InstallAppends ==
    [][edits' = edits =>
          /\ \A r \in Rules : ruleRow[r] \in {NoText, ruleRow'[r]}
          /\ \A b \in Bindings : bindingRow[b] \in {NoBinding, bindingRow'[b]}
          /\ \A k \in PackIds : packRow[k] \in {NoRow, packRow'[k]}
          /\ coverage \subseteq coverage']_vars

(* No executable binding gets into an unedited ledger without a completed         *)
(* review (install_knowledge_pack).                                            *)
NoBindingUnreviewed ==
    "bindings" \notin touched =>
        \A b \in Bindings : bindingRow[b] # NoBinding =>
            \E k \in shipped : b \in DOMAIN k.bindings /\ PackReady(k)

(* A release whose packs are all acceptable and disagree with no row of the        *)
(* ledger is installed as a whole in the end, also if its installation is         *)
(* interrupted between two packs (KnowledgeCatalog.sync).                      *)
Installable == {p \in Procs : \A n \in DOMAIN Catalogs[p] : StoreAccepts(Catalogs[p][n])}
Agrees(p) == \A n \in DOMAIN Catalogs[p] :
                 LET k == Catalogs[p][n] IN
                 packRow[k.id] \in {NoRow, Inventory(k)} /\ (packRow[k.id] = NoRow => Immutable(k))
Installed(p) == \A n \in DOMAIN Catalogs[p] : packRow[Catalogs[p][n].id] # NoRow
SyncConverges == \A p \in Installable : <>[]Agrees(p) => <>[]Installed(p)
-----------------------------------------------------------------------------
(* What makes these hold, for any releases.                                    *)

AllPacks == UNION {Range(Catalogs[p]) : p \in Procs}

\* Rows that exist are told from none; a pack is made of known rules and bindings.
PacksOK ==
    /\ MaxEdits \in Nat /\ Edited # NoText
    /\ \A p \in Procs : Catalogs[p] \in Seq(AllPacks)
    /\ \A r \in DOMAIN LooseRules : LooseRules[r] # NoText
    /\ \A k \in AllPacks :
           /\ k.id \in PackIds /\ k.id # "none" /\ DOMAIN k.rules \subseteq Rules /\ DOMAIN k.bindings \subseteq Bindings
           /\ k.covered \in BOOLEAN
           /\ k.rules = At(k.rules, DOMAIN k.rules) /\ k.bindings = At(k.bindings, DOMAIN k.bindings)
           /\ \A r \in DOMAIN k.rules : k.rules[r] # NoText
           /\ \A b \in DOMAIN k.bindings : k.bindings[b] # NoBinding

\* An inventory as it may look after edits: what the activation hash fixes is as installed.
Versions(s) ==
    [pack : {s.id}, content : {s}, rules : {DOMAIN s.rules}, bindings : SUBSET Bindings,
     status : {s.status}, ready : BOOLEAN, activation : {Inventory(s).activation}]
OfShipped(rows) ==
    \A k \in PackIds : rows[k] # NoRow =>
        \E s \in shipped : /\ s.id = k /\ rows[k] \in Versions(s)
                           /\ "packs" \notin touched => rows[k] = Inventory(s)

Shapes ==
    /\ DOMAIN ruleRow = Rules /\ DOMAIN bindingRow = Bindings /\ DOMAIN packRow = PackIds
    /\ seen = [rules |-> seen.rules, bindings |-> seen.bindings, packs |-> seen.packs]
    /\ DOMAIN seen.rules = Rules /\ DOMAIN seen.bindings = Bindings /\ DOMAIN seen.packs = PackIds
    /\ todo \in [Procs -> Seq(AllPacks)]
    /\ broken \subseteq touched /\ edits \in Nat
\* What is installed was accepted, and there is one pack of an id.
ShippedIsAccepted ==
    \A s \in shipped : /\ s \in AllPacks /\ StoreAccepts(s) /\ packRow[s.id] # NoRow
                       /\ \A t \in shipped : s.id = t.id => s = t
\* The rows of an installed pack are there, as shipped if their table is unedited.
RowsAreKept ==
    \A s \in shipped :
        /\ \A r \in DOMAIN s.rules : ruleRow[r] # NoText /\ ("rules" \notin touched => ruleRow[r] = s.rules[r])
        /\ "bindings" \notin touched => \A b \in DOMAIN s.bindings : bindingRow[b] = s.bindings[b]
        /\ s.covered /\ "coverage" \notin touched => CoverageOf(s) \in coverage
CoverageIsShipped ==
    \A c \in coverage : \E s \in shipped : s.covered /\ c \in {CoverageOf(s), [CoverageOf(s) EXCEPT !.text = Edited]}
\* What a retrieval has read of the packs it began with, as long as nobody edits.
EarlyIsSeen ==
    touched = {} => \A k \in early :
        /\ reader # "start" => k \in shipped /\ \A r \in DOMAIN k.rules : seen.rules[r] = k.rules[r]
        /\ reader \notin {"start", "bindings"} => \A b \in DOMAIN k.bindings : seen.bindings[b] = k.bindings[b]
        /\ reader \notin {"start", "bindings", "packs"} => seen.packs[k.id] = Inventory(k)
NothingServedYet == reader # "done" => DOMAIN served.rules = {} /\ DOMAIN served.bindings = {}

IInv == /\ Shapes /\ ShippedIsAccepted /\ OfShipped(packRow) /\ OfShipped(seen.packs) /\ RowsAreKept
        /\ CoverageIsShipped /\ EarlyIsSeen /\ NothingServedYet
        /\ ServedWasReviewed /\ ServedIsWhole /\ InstalledIsServed /\ NoBindingUnreviewed
=============================================================================
