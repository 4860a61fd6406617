--------------------------- MODULE IndexAuthorization ---------------------------
(***************************************************************************)
(* Which counts of a parsed design may be believed: the origin capability   *)
(* of ExtractionPipeline.run, the one-use authorization that Project.index  *)
(* trades it for, the commit that consumes it and the receipt the ledger    *)
(* keeps (extract/index_authorization.py, static_aggregate.py, sdk.py and   *)
(* store/sqlite.py).                                                        *)
(*                                                                          *)
(* Several indexers work on one snapshot.  A graph maps entities to what is *)
(* recorded of them; the aggregate of an entity restates it, so that        *)
(* "parsed" is what the built-in parser says of the bytes.  A plugin runs   *)
(* after the parsers, in the same process: it may restate, forge, rewrite   *)
(* or claim, and may keep the graph and change it later.  Hashes stand for  *)
(* the content they are of.                                                 *)
(***************************************************************************)
EXTENDS Naturals

CONSTANTS
    Indexers,
    Parser,      \* entity of the design -> the parser that reads it
    Forged,      \* an entity that only a plugin speaks of
    Inputs,      \* the artifacts of the snapshot
    Outputs,     \* artifacts that stage runs attach to it later
    MaxTries     \* bound: indexings of one indexer

Real == DOMAIN Parser
Entities == Real \cup {Forged}
Contents == {"parsed", "other", "none"}
Plugins == {"none", "restates", "forges", "rewrites", "claims", "blank", "conflicts"}

\* What the constants are.
ConstantsOK ==
    /\ Forged \notin Real /\ Real # {} /\ MaxTries \in Nat
    /\ Inputs \cap Outputs = {}

VARIABLES
    ix,          \* indexer -> its attempt
    active,      \* nonces of the capabilities and authorizations not consumed
    ledger,      \* what is committed of the snapshot
    attached,    \* its artifacts
    edited       \* TRUE once somebody changed the ledger by hand

vars == <<ix, active, ledger, attached, edited>>

NoGraph == [e \in Entities |-> "none"]
NoReceipt == [run |-> <<>>, graph |-> NoGraph, counts |-> {}, arts |-> {}]

\* An aggregate: whose it is, who derived it, the value, and its receipt.
Count(e, id, value) == [of |-> e, id |-> id, value |-> value, complete |-> TRUE, receipt |-> FALSE]

Idle(n) == [pc |-> "idle", tries |-> n, arts |-> {}, graph |-> NoGraph, origins |-> {}, sealed |-> NoGraph,
            counts |-> {}, auth |-> NoReceipt, fatal |-> FALSE]

Complete(D) == {d \in D : d.complete /\ d.value # "none"}

\* The nonce of what indexer i holds: fresh in every attempt.
Nonce(i, what) == <<i, ix[i].tries, what>>

TypeOK ==
    /\ \A i \in Indexers :
         /\ ix[i].pc \in {"idle", "extracted", "final", "consumed"} /\ ix[i].tries \in 0..MaxTries
         /\ ix[i].arts \subseteq attached
         /\ ix[i].pc = "consumed" => Complete(ix[i].counts) = {} \/ Nonce(i, "index") \notin active
         /\ ix[i].pc # "extracted" => Nonce(i, "origin") \notin active
    /\ attached \subseteq Inputs \cup Outputs
    /\ ledger.receipt # NoReceipt => ledger.receipt.run \in ledger.runs
    /\ edited \in BOOLEAN

-------------------------------------------------------------------------------
(* Extraction.                                                                *)

\* _record_extractor_result: what each extractor said, under which name, and
\* whether it is the built-in class itself.
OriginsOf(plugin) ==
    {[of |-> e, name |-> Parser[e], exact |-> TRUE, says |-> "parsed"] : e \in Real}
        \cup IF plugin \in {"restates", "forges", "conflicts"}
             THEN LET e == IF plugin = "forges" THEN Forged ELSE CHOOSE x \in Real : TRUE IN
                  {[of |-> e, name |-> Parser[CHOOSE x \in Real : TRUE], exact |-> FALSE,
                    says |-> IF plugin = "conflicts" THEN "other" ELSE "parsed"]}
             ELSE {}

\* add_entity keeps the first record of a name; the plugin sees the merged graph.
Merged(plugin) ==
    [e \in Entities |->
        IF e = Forged THEN IF plugin = "forges" THEN "parsed" ELSE "none"
        ELSE IF plugin = "rewrites" /\ e = CHOOSE x \in Real : TRUE THEN "other" ELSE "parsed"]

\* derive_static_features: one aggregate for every entity with the marks of a
\* complete parser domain.
Derived(g) == {Count(e, "standard", g[e]) : e \in {x \in Entities : g[x] # "none"}}

PluginCounts(plugin) ==
    IF plugin \in {"claims", "blank"}
    THEN {Count(CHOOSE x \in Real : TRUE, "own", IF plugin = "claims" THEN "other" ELSE "none")} ELSE {}

Extract(i) ==
    /\ ix[i].pc = "idle" /\ ix[i].tries < MaxTries
    /\ \E plugin \in Plugins : \E g \in {Merged(plugin)} :
         /\ ix' = [ix EXCEPT ![i] =
                    [Idle(@.tries + 1) EXCEPT !.pc = "extracted", !.arts = attached, !.graph = g,
                        !.sealed = g, !.origins = OriginsOf(plugin),
                        !.counts = Derived(g) \cup PluginCounts(plugin), !.fatal = plugin = "conflicts"]]
         /\ active' = active \cup {<<i, ix[i].tries + 1, "origin">>}
    /\ UNCHANGED <<ledger, attached, edited>>

\* The plugin kept the graph and changes it while the index goes on.
Tamper(i) ==
    /\ ix[i].pc \in {"extracted", "final", "consumed"} /\ ix[i].graph = ix[i].sealed
    /\ \E e \in Real : ix[i].graph[e] = "parsed" /\ ix' = [ix EXCEPT ![i].graph[e] = "other"]
    /\ UNCHANGED <<active, ledger, attached, edited>>

-------------------------------------------------------------------------------
(* Finalization.                                                              *)

\* _origin_for and _domain_proof: one origin, unchanged since, the exact parser.
Proved(a, d) ==
    \E o \in a.origins :
        {x \in a.origins : x.of = d.of} = {o} /\ o.exact /\ o.says = a.graph[d.of]

\* validate_static_aggregate: the value is recomputed.
Validates(g, d) == d.complete /\ d.value # "none" /\ d.value = g[d.of]

\* attach_static_aggregate_receipt or _downgrade_untrusted_aggregate.
Judged(a, d) ==
    IF Validates(a.graph, d) /\ Proved(a, d) THEN [d EXCEPT !.receipt = TRUE] ELSE [d EXCEPT !.complete = FALSE]

\* _finalize_index_authorization.  A capability that does not fit fails the index.
Finalize(i) ==
    /\ ix[i].pc = "extracted"
    /\ LET a == ix[i]
           good == Nonce(i, "origin") \in active /\ a.graph = a.sealed
           D == {Judged(a, d) : d \in a.counts} IN
       \E auth \in {[run |-> <<>>, graph |-> a.graph, counts |-> Complete(D), arts |-> a.arts]} :
         /\ ix' = [ix EXCEPT ![i].pc = "final",
                    ![i].fatal = @ \/ ~good,
                    ![i].counts = IF good THEN D ELSE @,
                    ![i].auth = IF good /\ Complete(D) # {} THEN auth ELSE NoReceipt]
         /\ active' = (active \ {Nonce(i, "origin")})
                        \cup IF good /\ Complete(D) # {} THEN {Nonce(i, "index")} ELSE {}
    /\ UNCHANGED <<ledger, attached, edited>>

-------------------------------------------------------------------------------
(* Commit.                                                                    *)

\* verify_static_aggregate_receipts.
Reverified(g, D) == \A d \in Complete(D) : d.receipt /\ Validates(g, d)

\* _consume_index_authorization: nothing has changed since it was issued.
Unchanged(a, arts) ==
    /\ Reverified(a.graph, a.counts)
    /\ a.auth.graph = a.graph /\ a.auth.arts = arts /\ a.auth.counts = Complete(a.counts)

\* commit_index_failure, or an exception out of commit_index_success.
GiveUp(i) == ix' = [ix EXCEPT ![i] = Idle(@.tries)]

\* commit_index_success before its transaction: a complete aggregate needs the
\* authorization and the authorization a complete aggregate.
Consume(i) ==
    /\ ix[i].pc = "final"
    /\ active' = active \ {Nonce(i, "index")}
    /\ LET a == ix[i]
           ok == IF Complete(a.counts) = {} THEN a.auth = NoReceipt
                 ELSE Nonce(i, "index") \in active /\ Unchanged(a, attached) IN
       IF ok /\ ~a.fatal THEN ix' = [ix EXCEPT ![i].pc = "consumed", ![i].arts = attached] ELSE GiveUp(i)
    /\ UNCHANGED <<ledger, attached, edited>>

\* _save_graph and _immutable_payload: what is there is never changed.
Compatible(a) ==
    /\ ledger.graph \in {NoGraph, a.graph}
    /\ \A d \in a.counts, k \in ledger.counts : d.of = k.of /\ d.id = k.id => d = k

\* The receipt of this run.
ReceiptOf(i, a) == [run |-> <<i, a.tries>>, graph |-> a.auth.graph, counts |-> a.auth.counts, arts |-> a.arts]

\* _add_index_commit_receipt: the first one stands; a later one must agree.
Agrees(a) ==
    LET p == ledger.receipt IN
    p = NoReceipt \/ (p.graph = a.auth.graph /\ p.counts = a.auth.counts /\ p.arts \subseteq a.arts)

\* (mutant) Any later receipt replaces the first.
AddReceiptLatest(i, a) == IF a.auth = NoReceipt THEN ledger.receipt ELSE ReceiptOf(i, a)

AddReceipt(i, a) ==
    IF a.auth = NoReceipt \/ ledger.receipt # NoReceipt THEN ledger.receipt ELSE ReceiptOf(i, a)

\* The transaction commits, or rolls everything back.
Write(i) ==
    /\ ix[i].pc = "consumed"
    /\ LET a == ix[i] IN
       ledger' = IF Compatible(a) /\ (a.auth # NoReceipt => Agrees(a))
                 THEN [graph |-> a.graph, counts |-> ledger.counts \cup a.counts,
                       runs |-> ledger.runs \cup {<<i, a.tries>>}, receipt |-> AddReceipt(i, a)]
                 ELSE ledger
    /\ GiveUp(i)
    /\ UNCHANGED <<active, attached, edited>>

\* The database is busy: the transaction rolls back and the caller retries the
\* commit with the authorization it has.
WriteFails(i) ==
    /\ ix[i].pc = "consumed"
    /\ ix' = [ix EXCEPT ![i].pc = "final"]
    /\ UNCHANGED <<active, ledger, attached, edited>>

\* commit_run_result attaches the outputs of a stage.
Attach ==
    /\ ledger.graph # NoGraph
    /\ \E o \in Outputs : o \notin attached /\ attached' = attached \cup {o}
    /\ UNCHANGED <<ix, active, ledger, edited>>

\* add_derivations: a complete aggregate is refused, another is not.
AddCounts ==
    /\ ledger.graph # NoGraph
    /\ \E e \in Real, complete \in BOOLEAN : \E d \in {[Count(e, "added", "other") EXCEPT !.complete = complete]} :
         /\ Complete({d}) = {} /\ d \notin ledger.counts
         /\ ledger' = [ledger EXCEPT !.counts = @ \cup {d}]
    /\ UNCHANGED <<ix, active, attached, edited>>

\* Somebody edits a row of the database.
Edit ==
    /\ ~edited /\ edited' = TRUE
    /\ \/ \E e \in Real : ledger.graph[e] = "parsed" /\ ledger' = [ledger EXCEPT !.graph[e] = "other"]
       \/ \E d \in ledger.counts :
            ledger' = [ledger EXCEPT !.counts = (@ \ {d}) \cup {[d EXCEPT !.value = "other", !.complete = TRUE]}]
    /\ UNCHANGED <<ix, active, attached>>

\* valid_static_aggregate_ids: the receipt is revalidated as a whole.
ValidCounts(L) ==
    IF /\ L.receipt # NoReceipt /\ L.receipt.run \in L.runs
       /\ L.graph = L.receipt.graph /\ L.receipt.arts \subseteq attached
       /\ Complete(L.counts) = L.receipt.counts
       /\ Reverified(L.graph, L.counts)
    THEN Complete(L.counts) ELSE {}

-------------------------------------------------------------------------------
Init ==
    /\ ix = [i \in Indexers |-> Idle(0)]
    /\ active = {}
    /\ ledger = [graph |-> NoGraph, counts |-> {}, runs |-> {}, receipt |-> NoReceipt]
    /\ attached = Inputs /\ edited = FALSE

Next ==
    \/ \E i \in Indexers : Extract(i) \/ Tamper(i) \/ Finalize(i) \/ Consume(i) \/ Write(i) \/ WriteFails(i)
    \/ Attach \/ AddCounts \/ Edit

Spec == Init /\ [][Next]_vars

-------------------------------------------------------------------------------
\* Whatever plugins do, whoever indexes beside, and even when rows are edited, a
\* count that the ledger lets readers believe is what the built-in parser said of
\* an entity of the design.
BelievedIsParsed ==
    \A d \in ValidCounts(ledger) : d.of \in Real /\ d.value = "parsed"

\* Every complete aggregate of the ledger is one that its receipt commits to: no
\* other way leads in.
NothingUnreceipted == ~edited => Complete(ledger.counts) = ledger.receipt.counts

\* An authorization reaches the transaction of one commit only, also when that
\* commit fails and is retried.
SpentOnce == [][\A i \in Indexers : ix[i].pc = "final" /\ ix'[i].pc = "consumed" /\ Complete(ix[i].counts) # {}
                  => Nonce(i, "index") \in active /\ Nonce(i, "index") \notin active']_vars

\* The first receipt of a snapshot stands for good.
FirstReceiptStands == [][ledger.receipt # NoReceipt => ledger'.receipt = ledger.receipt]_vars

\* What may be believed stays so: neither another index, a stage's outputs nor
\* further derivations take it away.
BelievedStays == [][~edited' => ValidCounts(ledger) \subseteq ValidCounts(ledger)']_vars
-------------------------------------------------------------------------------
(* What makes the safety properties inductive.                                *)

Graphs == [Entities -> Contents]
Counts == [of : Entities, id : {"standard", "own", "added"}, value : Contents, complete : BOOLEAN, receipt : BOOLEAN]
Receipts == [run : {<<>>} \cup (Indexers \X Nat), graph : Graphs, counts : SUBSET Counts,
             arts : SUBSET (Inputs \cup Outputs)]
Origins == [of : Entities, name : {Parser[e] : e \in Real}, exact : BOOLEAN, says : Contents]
Attempts == [pc : {"idle", "extracted", "final", "consumed"}, tries : 0..MaxTries, arts : SUBSET (Inputs \cup Outputs),
             graph : Graphs, origins : SUBSET Origins, sealed : Graphs, counts : SUBSET Counts,
             auth : Receipts, fatal : BOOLEAN]

Typed ==
    /\ ix \in [Indexers -> Attempts]
    /\ ledger \in [graph : Graphs, counts : SUBSET Counts, runs : SUBSET (Indexers \X Nat), receipt : Receipts]

\* Only a built-in parser has an exact origin, and it says what it parsed.
ParsersAreExact == \A i \in Indexers : \A o \in ix[i].origins : o.exact => o.of \in Real /\ o.says = "parsed"

\* What a receipt may commit to.
Parsed(D) == \A d \in D : d.of \in Real /\ d.value = "parsed"

\* An authorization and a receipt commit to parsed aggregates only; an authorization
\* is issued for at least one, and what is consumed is what it was issued for.
AuthorizedIsParsed ==
    /\ \A i \in Indexers :
         /\ Parsed(ix[i].auth.counts)
         /\ ix[i].auth # NoReceipt => ix[i].auth.counts # {}
         /\ ix[i].pc = "consumed" => ix[i].auth.counts = Complete(ix[i].counts)
    /\ Parsed(ledger.receipt.counts)

IInv == TypeOK /\ Typed /\ ParsersAreExact /\ AuthorizedIsParsed /\ NothingUnreceipted
===============================================================================
