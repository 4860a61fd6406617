------------------------------ MODULE Retrieval -----------------------------
(***************************************************************************)
(* One retrieval of the hybrid retriever (retrieval.py): documents are        *)
(* gathered from the pinned snapshot in four planes, untrusted adapters add    *)
(* theirs, each plane is ranked in a corpus of its own, and the answer is      *)
(* trimmed until it fits its budget.  The reading of private text is module    *)
(* PrivateSnippets; here it is the choice of snippets that come back.         *)
(*                                                                          *)
(* Records are numbers (keys sort as numbers do), terms are model values, a     *)
(* size counts items and not characters.                                      *)
(***************************************************************************)
EXTENDS Integers, Sequences, FiniteSets, FiniteSetsExt, SequencesExt

CONSTANTS
    Layer,       \* entity -> "hls", "source" (shown only if connected) or "software"
    Relations,   \* set of [id, src, dst, kind]
    Containing,  \* the kinds of relation that contain
    Hardware,    \* kind of relation -> its weight, 0 for software
    TermsOf,     \* record -> its terms
    NamesOf,     \* record -> the terms that are a whole field of it
    Refs,        \* derivation -> the derivations its evidence names
    SubjectOf,   \* derivation -> entity
    Receipts,    \* what the ledger may hold of each derivation, as receipt below
    EvidenceOf,  \* verification or gate -> the derivations it names
    Diagnosed,   \* diagnostic -> entity, 0 for none
    Predicted,   \* prediction envelope -> entity
    Rules,       \* the rules of reviewed packs that apply
    Bound,       \* those with a matching binding
    Scores,      \* the outcomes of the random walk: functions entity -> number
    Queries,     \* the sets of terms that are asked for
    Outputs,     \* what an untrusted adapter may return: set of sets of items
    Snippets,    \* sets of entities for which source text may come back
    Scopes,      \* entities a request may be limited to, 0 for none
    TopK, Depth, MaxEdges, Budgets

Entities == DOMAIN Layer
Derivs == DOMAIN Refs

ItemIds == {o.id : o \in UNION Outputs}

\* The key of a record or of an item begins with its kind: no two kinds share one.
Kinds == <<Entities, {r.id : r \in Relations}, Derivs, DOMAIN EvidenceOf, DOMAIN Diagnosed,
           Rules, DOMAIN Predicted, ItemIds>>

\* A snapshot is finite and its records are numbers, 0 is none; what a relation,
\* a derivation or a diagnostic is about is an entity of it.  Of the items with one
\* key an adapter's last counts: it returns one of each.
ASSUME RetrievalAssumption ==
    /\ IsFiniteSet(Entities) /\ IsFiniteSet(Relations) /\ IsFiniteSet(Derivs)
    /\ IsFiniteSet(DOMAIN EvidenceOf) /\ IsFiniteSet(DOMAIN Diagnosed)
    /\ IsFiniteSet(Rules) /\ IsFiniteSet(DOMAIN Predicted)
    /\ \A k \in 1..8 : Kinds[k] \subseteq Nat \ {0} /\ \A l \in 1..8 : k # l => Kinds[k] \cap Kinds[l] = {}
    /\ \A r \in Relations : {r.src, r.dst} \subseteq Entities /\ Hardware[r.kind] \in Nat
    /\ \A d \in Derivs : SubjectOf[d] \in Entities
    /\ Receipts \subseteq [Derivs -> {"valid", "invalid", "partial", "empty"}]
    /\ \A g \in DOMAIN Diagnosed : Diagnosed[g] \in Entities \cup {0}
    /\ \A out \in Outputs : IsFiniteSet(out) /\ \A o, q \in out : o.id = q.id => o = q
    /\ Scores \subseteq [Entities -> Int] /\ Snippets \subseteq SUBSET Entities
    /\ \A asked \in Queries : IsFiniteSet(asked)
    /\ TopK \in Nat /\ Budgets \subseteq Nat

VARIABLES
    query, view, scope, private, withPredictions, budget,  \* the request
    receipt,   \* derivation -> "valid" or "invalid" (complete with a value, and so is its
               \* receipt), "partial" (not complete), "empty" (complete without a value)
    score,     \* entity -> what the random walk gives it
    stale,
    pc,
    allowed,   \* entities of the scope
    reached, over, hop,  \* what the seeds reach, over which relations, how far
    docs,      \* plane -> set of records
    items,     \* accepted adapter items
    refused,   \* adapter items that were refused
    facts, guidance, predictions, flow, ambiguities, citations,
    warnings,
    truncated, traced, compacted,  \* state of the trimming
    privateFlag, incomplete, confidence,
    ranked     \* the facts before anything was trimmed

request == <<query, view, scope, private, withPredictions, budget>>
ledger == <<receipt, score>>
answer == <<facts, guidance, predictions, flow, ambiguities, citations>>
verdict == <<truncated, traced, compacted, privateFlag, incomplete, confidence, stale>>
graph == <<allowed, reached, over, hop>>
vars == <<request, ledger, graph, pc, docs, items, refused, answer, warnings, verdict, ranked>>

-----------------------------------------------------------------------------
(* The graph of a view and of a scope. *)

Along(edges, S) == S \cup {r.dst : r \in {q \in edges : q.src \in S}}

\* _view_graph: without software, and without sources nothing is connected to
Projected == {r \in Relations : /\ Hardware[r.kind] > 0
                                /\ Layer[r.src] # "software" /\ Layer[r.dst] # "software"}
Connected == {r.src : r \in Projected} \cup {r.dst : r \in Projected}
ViewRelations == IF view = "evidence" THEN Relations ELSE Projected
ViewEntities == IF view = "evidence" THEN Entities
                ELSE {e \in Entities : Layer[e] = "hls" \/ (Layer[e] = "source" /\ e \in Connected)}

\* the relations _typed_ppr spreads over
Weighted == {r \in ViewRelations : Hardware[r.kind] > 0 /\ {r.src, r.dst} \subseteq allowed}

-----------------------------------------------------------------------------
(* Documents. *)

\* (mutant) Only the derivation's own receipt counts.
OwnReceipt(d) == receipt[d] = "valid"

\* _derivation_receipt_chain_valid: complete, received, and so is all it rests on
Closed(valid) ==
    LET Within[n \in 0..Cardinality(Derivs)] ==
            IF n = 0 THEN {} ELSE {x \in valid : Refs[x] \subseteq Within[n - 1]}
    IN  Within[Cardinality(Derivs)]
ChainValid(d) == d \in Closed({x \in Derivs : receipt[x] = "valid"})
\* what claims a complete value without a closed chain becomes incomplete and
\* loses the value; a partial value is shown as it is, no receipt is asked for
Withheld(d) == receipt[d] \in {"valid", "invalid"} /\ ~ChainValid(d)
ShowsValue(d) == receipt[d] # "empty" /\ ~Withheld(d)
ShownComplete(d) == receipt[d] # "partial" /\ ~Withheld(d)

RelationsWithin == {r \in ViewRelations : {r.src, r.dst} \subseteq allowed}
DerivsWithin == {d \in Derivs : SubjectOf[d] \in allowed}
\* the entities a verification is linked to
Linked(v) == {SubjectOf[d] : d \in EvidenceOf[v] \cap DerivsWithin}

\* (mutant) A scope does not bind verifications.
VerificationsAll == DOMAIN EvidenceOf

VerificationsWithin == {v \in DOMAIN EvidenceOf : scope = 0 \/ Linked(v) # {}}
DiagnosticsWithin == {g \in DOMAIN Diagnosed : Diagnosed[g] \in allowed \cup {0}}
Facts == allowed \cup {r.id : r \in RelationsWithin} \cup DerivsWithin
         \cup VerificationsWithin \cup DiagnosticsWithin
PredictionsWithin == {p \in DOMAIN Predicted : withPredictions /\ Predicted[p] \in allowed}

\* the entities a record is about: one or none
About(d) ==
    IF d \in Entities THEN {d}
    ELSE IF d \in Derivs THEN {SubjectOf[d]}
    ELSE IF d \in DOMAIN EvidenceOf THEN (IF Cardinality(Linked(d)) = 1 THEN Linked(d) ELSE {})
    ELSE IF d \in DOMAIN Diagnosed THEN {Diagnosed[d]} \ {0}
    ELSE {r.src : r \in {q \in Relations : q.id = d}}

-----------------------------------------------------------------------------
(* Ranking. *)

\* _bm25: a term counts the more the fewer documents of the corpus have it
Bm25(corpus, d) ==
    SumFunction([t \in query \cap TermsOf[d] |->
                    Cardinality(corpus) + 1 - Cardinality({e \in corpus : t \in TermsOf[e]})])

Exact(corpus) == {d \in corpus : \E t \in NamesOf[d] : query = {t}}
Lexical(corpus) == {d \in corpus : query \cap TermsOf[d] # {}}

\* p comes before q: by score, then by key
Before(p, q) == p[2] > q[2] \/ (p[2] = q[2] /\ p[1] < q[1])
Place(scored, p) == Cardinality({q \in scored : Before(q, p)})
InOrder(scored) ==
    CHOOSE order \in {[k \in 1..Cardinality(S) |-> (CHOOSE p \in S : Place(S, p) = k - 1)[1]] : S \in {scored}} : TRUE

\* _rrf: a channel gives each of its members a share by its place, shares add up
Channel(weight, scored) ==
    UNION {{<<p[1], (weight * 10000) \div (61 + Place(S, p))>> : p \in S} : S \in {scored}}
Share(channels, d) ==
    SumFunction([n \in DOMAIN channels |-> SumFunction([p \in {q \in channels[n] : q[1] = d} |-> p[2]])])
Fused(channels) ==
    UNION {{<<d, Share(C, d)>> : d \in {p[1] : p \in UNION ToSet(C)}} : C \in {channels}}

TextChannels(corpus) ==
    <<Channel(20, {<<d, 1>> : d \in Exact(corpus)}),
      Channel(10, {<<d, Bm25(corpus, d)>> : d \in Lexical(corpus)})>>
\* what is about an entity that was reached
Near(corpus) == {d \in corpus : About(d) \cap reached # {}}
Walked(S) == {<<d, score[CHOOSE e \in About(d) : TRUE]>> : d \in S}
GraphChannels(corpus) ==
    <<Channel(12, Walked(Near(corpus) \cap Entities)), Channel(7, Walked(Near(corpus) \ Entities))>>

UpTo(s, n) == SubSeq(s, 1, IF Len(s) < n THEN Len(s) ELSE n)

\* facts and evidence own a closed corpus
FactCorpus == docs.facts

SeedsOf(corpus) == UNION {About(d) : d \in Exact(corpus) \cup Lexical(corpus)}
FactRanking(corpus) == InOrder(Fused(TextChannels(corpus) \o GraphChannels(corpus \cap docs.facts)))

-----------------------------------------------------------------------------
(* The retrieval. *)

Excerpted(x) == x \in ItemIds /\ \E o \in items : o.id = x /\ o.excerpt # "none"
Snippet(e) == -e       \* the source snippet of entity e
Of(x) == IF x < 0 THEN -x ELSE x
IsPrivate(x) == x < 0 \/ Excerpted(x)

\* _scope_ids: the scope and what it contains, to any depth
Open ==
    /\ pc = "start" /\ pc' = "scope"
    /\ allowed' = IF scope = 0 THEN ViewEntities ELSE {scope}
    /\ UNCHANGED <<request, ledger, reached, over, hop, docs, items, refused, answer, warnings, verdict, ranked>>
Inner == Along({r \in ViewRelations : r.kind \in Containing}, allowed)
Widen ==
    /\ pc = "scope" /\ scope # 0 /\ Inner # allowed
    /\ allowed' = Inner
    /\ UNCHANGED <<request, ledger, pc, reached, over, hop, docs, items, refused, answer, warnings, verdict, ranked>>

\* _documents: what it reads of the ledger; guidance is dropped as a whole if
\* its review or its activation is rejected
Collect ==
    /\ pc = "scope" /\ (scope = 0 \/ Inner = allowed) /\ pc' = "walk"
    /\ receipt' \in Receipts
    /\ score' \in Scores
    /\ \E rules \in {Rules, {}} :
           /\ docs' = [facts |-> Facts, knowledge |-> rules, predictions |-> PredictionsWithin]
           /\ warnings' = IF rules = Rules THEN warnings ELSE warnings \cup {"activation_rejected"}
    /\ reached' = SeedsOf(docs'.facts) \cap allowed
    /\ UNCHANGED <<request, allowed, over, hop, items, refused, answer, verdict, ranked>>

\* _typed_ppr: breadth first, to a bounded depth
Spread ==
    /\ pc = "walk"
    /\ hop' = hop + 1
    /\ over' = over \cup {r \in Weighted : r.src \in reached}
    /\ reached' = Along(Weighted, reached)
    /\ pc' = IF hop' = Depth THEN "adapters" ELSE pc
    /\ UNCHANGED <<request, ledger, allowed, docs, items, refused, answer, warnings, verdict, ranked>>

\* an adapter may add local text that says it is unreviewed, or predictions
Accepts(o) ==
    /\ o.plane \in {"local"} \cup (IF withPredictions THEN {"predictions"} ELSE {})
    /\ o.honest
    /\ o.excerpt = "none" \/ (private /\ o.excerpt = "bounded")

Asked(o) == o.plane # "predictions" \/ withPredictions

Adapter ==
    /\ pc = "adapters" /\ pc' = "rank"
    /\ \/ \E out \in Outputs :
             /\ items' = {o \in out : Accepts(o)}
             /\ refused' = {o.id : o \in {q \in out : ~Accepts(q)}}
             /\ warnings' = IF \A o \in out : Asked(o) => Accepts(o) THEN warnings
                            ELSE warnings \cup {"refused"}
       \/ /\ warnings' = warnings \cup {"adapter_failed"}
          /\ UNCHANGED <<items, refused>>
    /\ UNCHANGED <<request, ledger, graph, docs, answer, verdict, ranked>>

\* a snippet goes behind its entity; the facts are cut to the limit again
WithSnippets(order, ents) ==
    LET Group(d) == IF d \in ents THEN <<d, Snippet(d)>> ELSE <<d>>
    IN  UpTo(FlattenSeq([n \in DOMAIN order |-> Group(order[n])]), TopK)

RankFacts ==
    /\ pc = "rank" /\ pc' = "flow"
    /\ \E top \in {UpTo(FactRanking(FactCorpus), TopK)}, ents \in Snippets :
           /\ ents # {} => private
           /\ ranked' = WithSnippets(top, ents \cap ToSet(top))
           /\ facts' = ranked'
    /\ UNCHANGED <<request, ledger, graph, docs, items, refused, guidance, predictions, flow,
                   ambiguities, citations, warnings, verdict>>

\* _flow_spine: from the first fact about a reached entity along what was
\* reached, never twice
Starts == {n \in DOMAIN facts : About(Of(facts[n])) \cap reached # {}}
Source == CHOOSE e \in About(Of(facts[Min(Starts)])) : TRUE
Current == IF flow = << >> THEN Source ELSE Last(flow).dst
Onward == IF Starts = {} \/ Len(flow) = MaxEdges THEN {}
          ELSE {r \in over : r.src = Current /\ r.dst \notin {Source} \cup {flow[n].dst : n \in DOMAIN flow}}
\* by the walk's score, then by weight, then by keys
FlowKey(r) == <<-score[r.dst], -Hardware[r.kind], r.dst, r.id>>
NoLater(k, l) == \E n \in 1..4 : k[n] <= l[n] /\ (k[n] < l[n] \/ n = 4) /\ \A m \in 1..(n - 1) : k[m] = l[m]
Follow ==
    /\ pc = "flow" /\ Onward # {}
    /\ flow' = Append(flow, CHOOSE r \in Onward : \A q \in Onward : NoLater(FlowKey(r), FlowKey(q)))
    /\ UNCHANGED <<request, ledger, graph, pc, docs, items, refused, facts, guidance, predictions,
                   ambiguities, citations, warnings, verdict, ranked>>

Offered(plane) == {<<o.id, 1>> : o \in {q \in items : q.plane = plane}}
\* scores are set in relation to the best of the same corpus
Normal(scored) ==
    UNION {{<<p[1], (1000 * p[2]) \div Max({q[2] : q \in S})>> : p \in S} : S \in {scored}}

\* _rank_guidance: rules and local items each in their own corpus, then merged;
\* the keys of rules are lower
GuidanceOrder ==
    UpTo(InOrder(Normal(Fused(TextChannels(docs.knowledge)))
                 \cup Normal(Fused(<<Channel(10, Offered("local"))>>))), TopK)

\* _rank_predictions: hypotheses of the ledger and of adapters
PredictionOrder ==
    IF ~withPredictions THEN << >>
    ELSE UpTo(InOrder(Fused(Append(TextChannels(docs.predictions), Channel(10, Offered("predictions"))))), TopK)

\* _citations: of rules and of local items
CitationsOf(g) == ToSet(g)

\* the guidance, the ambiguities and the warnings of both
Guide ==
    /\ pc = "flow" /\ Onward = {} /\ pc' = "judge"
    /\ guidance' = GuidanceOrder
    /\ predictions' = PredictionOrder
    /\ citations' = CitationsOf(guidance')
    /\ ambiguities' = IF Cardinality(Exact(docs.facts) \cap Entities) > 1 THEN <<"exact">> ELSE << >>
    /\ warnings' = warnings
           \cup (IF ToSet(guidance') \cap (Rules \ Bound) # {} THEN {"lexical_only"} ELSE {})
           \cup (IF ambiguities' # << >> THEN {"ambiguous"} ELSE {})
           \cup (IF /\ private
                 /\ \A x \in ToSet(facts) : x > 0
                 /\ \A o \in items : o.plane = "local" => o.excerpt = "none"
                 THEN {"private_unavailable"} ELSE {})
    /\ UNCHANGED <<request, ledger, graph, docs, items, refused, facts, flow, verdict, ranked>>

\* entities, relations and snippets are complete here, a diagnostic never is
CompleteFact(x) == x \notin DOMAIN Diagnosed /\ (x \in Derivs => ShownComplete(x))
\* the first fact has the name that is asked for, or two channels agree on it:
\* an entity that is found is found by two, any record that has all the terms too
Strong == facts # << >> /\ facts[1] \in Exact(docs.facts)
              \cup {d \in Lexical(docs.facts) : d \in Entities \/ query \subseteq TermsOf[d]}

\* staleness, completeness and confidence
Judge ==
    /\ pc = "judge" /\ pc' = "trim"
    /\ stale' \in BOOLEAN
    /\ incomplete' = (stale' \/ facts = << >> \/ \E x \in ToSet(facts) : ~CompleteFact(x))
    /\ confidence' = IF Strong THEN (IF incomplete' THEN "incomplete" ELSE "high") ELSE "low"
    /\ warnings' = warnings \cup (IF stale' THEN {"stale"} ELSE {})
                            \cup (IF facts = << >> THEN {"no_match"} ELSE {})
    /\ privateFlag' = \E x \in ToSet(facts \o guidance \o predictions) : IsPrivate(x)
    /\ UNCHANGED <<request, ledger, graph, docs, items, refused, answer, ranked, truncated, traced, compacted>>

-----------------------------------------------------------------------------
(* _apply_budget *)

WarningSize(w, compact) == IF compact THEN 2 ELSE Cardinality(w)
Size == 2 + 4 * Len(facts) + 3 * Len(guidance) + 2 * Len(predictions) + Len(flow)
          + Len(ambiguities) + (IF traced THEN 1 ELSE 3) + WarningSize(warnings, compacted)

FullyTrimmed ==
    predictions = << >> /\ guidance = << >> /\ flow = << >> /\ ambiguities = << >>
    /\ traced /\ (compacted \/ warnings = {"truncated"}) /\ facts = << >>

\* synchronize_private_flag
Flagged(f, g, p) == \E x \in ToSet(f) \cup ToSet(g) \cup ToSet(p) : IsPrivate(x)

\* (mutant) Facts go first.
TrimFactsFirst ==
    LET f == IF facts # << >> THEN Front(facts) ELSE facts
        g == IF facts = << >> /\ guidance # << >> THEN Front(guidance) ELSE guidance
    IN  [facts |-> f, guidance |-> g, predictions |-> << >>, flow |-> << >>,
         ambiguities |-> << >>, traced |-> TRUE, compacted |-> compacted \/ warnings # {"truncated"}]

\* (mutant) The warnings are compacted as long as there are some.
TrimCompactsAgain ==
    LET now == [facts |-> facts, guidance |-> guidance, predictions |-> predictions, flow |-> flow,
                ambiguities |-> ambiguities, traced |-> traced, compacted |-> compacted]
    IN  CASE predictions # << >> -> [now EXCEPT !.predictions = Front(@)]
          [] predictions = << >> /\ guidance # << >> -> [now EXCEPT !.guidance = Front(@)]
          [] predictions \o guidance = << >> /\ flow # << >> -> [now EXCEPT !.flow = Front(@)]
          [] predictions \o guidance \o flow = << >> /\ ambiguities # << >>
                -> [now EXCEPT !.ambiguities = Front(@)]
          [] predictions \o guidance \o flow \o ambiguities = << >>
                -> IF ~traced THEN [now EXCEPT !.traced = TRUE]
                   ELSE IF warnings # {"truncated"} THEN [now EXCEPT !.compacted = TRUE]
                   ELSE [now EXCEPT !.facts = Front(@)]

\* the next thing to go: predictions, guidance, flow, ambiguities, detail, facts
Trimmed ==
    LET now == [facts |-> facts, guidance |-> guidance, predictions |-> predictions, flow |-> flow,
                ambiguities |-> ambiguities, traced |-> traced, compacted |-> compacted]
    IN  IF predictions # << >> THEN [now EXCEPT !.predictions = Front(@)]
        ELSE IF guidance # << >> THEN [now EXCEPT !.guidance = Front(@)]
        ELSE IF flow # << >> THEN [now EXCEPT !.flow = Front(@)]
        ELSE IF ambiguities # << >> THEN [now EXCEPT !.ambiguities = Front(@)]
        ELSE IF ~traced THEN [now EXCEPT !.traced = TRUE]
        ELSE IF ~compacted /\ warnings # {"truncated"} THEN [now EXCEPT !.compacted = TRUE]
        ELSE [now EXCEPT !.facts = Front(@)]

Trim ==
    /\ pc = "trim" /\ Size > budget /\ ~FullyTrimmed
    /\ \E t \in {Trimmed} :
           /\ facts' = t.facts /\ guidance' = t.guidance /\ predictions' = t.predictions
           /\ flow' = t.flow /\ ambiguities' = t.ambiguities
           /\ traced' = t.traced /\ compacted' = t.compacted
           /\ citations' = CitationsOf(t.guidance)
           /\ privateFlag' = Flagged(t.facts, t.guidance, t.predictions)
           /\ IF facts # << >> /\ t.facts = << >>
              THEN incomplete' = TRUE /\ confidence' = "low"
              ELSE UNCHANGED <<incomplete, confidence>>
    /\ truncated' = TRUE
    /\ warnings' = warnings \cup {"truncated"}
    /\ UNCHANGED <<request, ledger, graph, pc, docs, items, refused, ranked, stale>>

Return ==
    /\ pc = "trim" /\ (Size <= budget \/ FullyTrimmed) /\ pc' = "done"
    /\ UNCHANGED <<request, ledger, graph, docs, items, refused, answer, warnings, verdict, ranked>>

Init ==
    /\ query \in Queries /\ view \in {"architecture", "evidence"}
    /\ scope \in Scopes /\ scope \in ViewEntities \cup {0}
    /\ private \in BOOLEAN /\ withPredictions \in BOOLEAN /\ budget \in Budgets
    /\ receipt = [d \in Derivs |-> "partial"] /\ score = [e \in Entities |-> 0] /\ stale = FALSE
    /\ pc = "start"
    /\ allowed = {} /\ reached = {} /\ over = {} /\ hop = 0
    /\ docs = [facts |-> {}, knowledge |-> {}, predictions |-> {}]
    /\ items = {} /\ refused = {}
    /\ facts = << >> /\ guidance = << >> /\ predictions = << >> /\ flow = << >>
    /\ ambiguities = << >> /\ citations = {} /\ warnings = {}
    /\ truncated = FALSE /\ traced = FALSE /\ compacted = FALSE
    /\ privateFlag = FALSE /\ incomplete = FALSE /\ confidence = "low" /\ ranked = << >>

Next == Open \/ Widen \/ Collect \/ Spread \/ Adapter \/ RankFacts \/ Follow \/ Guide \/ Judge \/ Trim \/ Return
Spec == Init /\ [][Next]_vars /\ WF_vars(Next)

-----------------------------------------------------------------------------
(* Each list of an answer holds its own plane, is within the limit and has no   *)
(* record twice (retrieve).                                                   *)
TypeOK ==
    /\ Len(facts) <= TopK /\ Len(guidance) <= TopK /\ Len(predictions) <= TopK
    /\ IsInjective(facts) /\ IsInjective(guidance) /\ IsInjective(predictions)
    /\ confidence \in {"high", "low", "incomplete"}
    /\ (compacted => traced) /\ (traced => truncated)

(* No adapter gets anything into facts, rules or, unasked, into predictions;    *)
(* a snippet is there only with its entity (retrieve).                         *)
PlanesStayApart ==
    /\ ToSet(facts) \subseteq docs.facts \cup {Snippet(e) : e \in ToSet(ranked) \cap Entities}
    /\ ToSet(guidance) \subseteq docs.knowledge \cup {o.id : o \in {q \in items : q.plane = "local"}}
    /\ ToSet(predictions) \subseteq docs.predictions \cup {o.id : o \in {q \in items : q.plane = "predictions"}}
    /\ ~withPredictions => predictions = << >>
    /\ refused \cap (ToSet(facts) \cup ToSet(guidance) \cup ToSet(predictions)) = {}

(* With a scope every fact is about something the scope contains, except a       *)
(* diagnostic that is about nothing (_scope_ids, _documents).                  *)
Contained ==
    {e \in Entities : \A S \in SUBSET Entities :
        scope \in S /\ Along({r \in Relations : r.kind \in Containing}, S) \subseteq S => e \in S}
FactsAreInScope ==
    scope # 0 =>
        \A x \in ToSet(facts) :
            \/ x \in DOMAIN Diagnosed /\ Diagnosed[x] = 0
            \/ x \in DOMAIN EvidenceOf /\ \E d \in EvidenceOf[x] : SubjectOf[d] \in Contained
            \/ About(Of(x)) \cap Contained # {}

(* How facts rank does not depend on the rules, local texts and predictions     *)
(* beside them: the order is the one of a ledger that has none (retrieve,      *)
(* _bm25, _rrf).                                                              *)
RecordsUpTo(n) == Cardinality({m \in 1..n : facts[m] > 0})
RanksIgnoreGuidance ==
    pc \in {"flow", "judge"} =>
        \A ranking \in {FactRanking(Facts)} :
            \A n \in DOMAIN facts : facts[n] > 0 => facts[n] = ranking[RecordsUpTo(n)]

(* A fact is given up only if the barest answer with it would not fit: neither   *)
(* guidance nor detail ever stays in its place (_apply_budget).                *)
Barest(n) == 2 + 4 * n + 1 + (IF compacted THEN 2 ELSE 1)
FactsGoLast ==
    pc = "done" /\ Len(facts) < Len(ranked) =>
        /\ Barest(Len(facts) + 1) > budget
        /\ facts = SubSeq(ranked, 1, Len(facts))

(* The trace says that private text was returned exactly if some of it is       *)
(* still in the answer, and citations are those of the guidance that is left    *)
(* (synchronize_private_flag, _citations).                                     *)
TraceTellsWhatIsThere ==
    pc = "done" =>
        /\ privateFlag <=> \E x \in ToSet(facts \o guidance \o predictions) : IsPrivate(x)
        /\ privateFlag => private
        /\ citations = CitationsOf(guidance)

(* A derivation is shown as complete with a value only if it and everything it   *)
(* rests on is complete with a value and a valid receipt, with no circle in      *)
(* between; a partial one never comes back as complete, and a value is taken     *)
(* away only from what claimed to be complete (_derivation_receipt_chain_valid). *)
Rests(d) == {x \in Derivs : \A S \in SUBSET Derivs :
                    Refs[d] \subseteq S /\ (\A y \in S : Refs[y] \subseteq S) => x \in S}
ValuesAreGrounded ==
    \A d \in ToSet(facts) \cap Derivs :
        /\ ShowsValue(d) /\ ShownComplete(d) =>
               \A x \in {d} \cup Rests(d) : receipt[x] = "valid" /\ x \notin Rests(x)
        /\ receipt[d] = "partial" => ShowsValue(d) /\ ~ShownComplete(d)

(* An answer is called certain only if it has facts, the snapshot is current and *)
(* every derivation in it is complete, those with a value with valid receipts    *)
(* for all they rest on; also after facts were trimmed (retrieve).             *)
ConfidenceIsEarned ==
    pc = "done" =>
        /\ confidence = "high" => /\ facts # << >> /\ ~stale
                                  /\ \A x \in ToSet(facts) \cap Derivs :
                                         receipt[x] # "empty" => \A y \in {x} \cup Rests(x) : receipt[y] = "valid"
        /\ facts = << >> => incomplete /\ confidence = "low"

(* The invariant behind the order of the facts, what is given up for them and   *)
(* the verdict: the corpus is that of the scope, finite, so that its ranking is a *)
(* list; what is left are the first of the ranked, and once one is gone nothing  *)
(* else but facts is left; the verdict is one about the facts that are left      *)
(* (_documents, retrieve, _apply_budget).                                      *)
CorpusOK ==
    /\ scope \in Entities \cup {0} /\ allowed \subseteq Entities
    /\ IsFiniteSet(docs.facts) /\ docs.facts \subseteq Nat \ {0}
    /\ pc \notin {"start", "scope"} => docs.facts = Facts
TrimmedOK ==
    /\ Len(facts) <= Len(ranked) /\ \A n \in 1..Len(facts) : facts[n] = ranked[n]
    /\ Len(facts) < Len(ranked) =>
           /\ predictions = << >> /\ guidance = << >> /\ flow = << >> /\ ambiguities = << >>
           /\ traced /\ (compacted \/ warnings = {"truncated"})
           /\ Barest(Len(facts) + 1) > budget
VerdictOK ==
    /\ confidence = "high" => facts # << >> /\ ~stale /\ \A x \in ToSet(facts) : CompleteFact(x)
    /\ facts = << >> => incomplete /\ confidence = "low"
IInv ==
    /\ pc \in {"start", "scope", "walk", "adapters", "rank", "flow", "judge", "trim", "done"}
    /\ CorpusOK /\ budget \in Nat /\ facts \in Seq(Int) /\ ranked \in Seq(Int)
    /\ pc \in {"flow", "judge"} => facts = ranked /\ RanksIgnoreGuidance
    /\ pc \in {"trim", "done"} => TrimmedOK /\ VerdictOK

(* The flow is a simple path of hardware relations within the scope             *)
(* (_flow_spine).                                                             *)
FlowIsAPath ==
    /\ \A n \in DOMAIN flow : /\ Hardware[flow[n].kind] > 0
                              /\ {flow[n].src, flow[n].dst} \subseteq allowed
                              /\ n > 1 => flow[n].src = flow[n - 1].dst
    /\ \A n, m \in DOMAIN flow : n <= m => flow[m].dst # flow[n].src

(* The invariant behind the planes: an answer is of one scope, one reading of    *)
(* the ledger and one answer of the adapters; each list is of its own plane,      *)
(* snippets stand behind their entities, and the flow goes on from where it       *)
(* began (retrieve, _rank_guidance, _flow_spine, synchronize_private_flag).      *)
ListFrom(s, S) == s \in Seq(S) /\ IsInjective(s) /\ Len(s) <= TopK
Given(plane) == {o.id : o \in {q \in items : q.plane = plane}}
RequestOK == query \in Queries /\ private \in BOOLEAN /\ withPredictions \in BOOLEAN
GraphOK ==
    /\ scope # 0 => allowed \subseteq Contained
    /\ over \subseteq Weighted /\ (pc \in {"start", "scope"} => over = {})
    /\ pc \notin {"start", "scope"} => score \in Scores
SourcesOK ==
    /\ docs.knowledge \in {{}, Rules}
    /\ docs.predictions \subseteq {p \in DOMAIN Predicted : withPredictions}
    /\ \E out \in Outputs \cup {{}} :
           /\ items = {o \in out : Accepts(o)}
           /\ refused = {o.id : o \in {q \in out : ~Accepts(q)}}
RankedOK ==
    /\ IsInjective(ranked) /\ Len(ranked) <= TopK
    /\ \A n \in DOMAIN ranked :
           \/ ranked[n] \in docs.facts
           \/ n > 1 /\ ranked[n - 1] \in docs.facts \cap Entities /\ ranked[n] = Snippet(ranked[n - 1]) /\ private
    /\ Len(facts) <= Len(ranked) /\ \A n \in 1..Len(facts) : facts[n] = ranked[n]
ListsOK ==
    /\ ListFrom(guidance, docs.knowledge \cup Given("local"))
    /\ ListFrom(predictions, docs.predictions \cup Given("predictions"))
FlowOK ==
    /\ flow \in Seq(over) /\ \A n \in 2..Len(flow) : flow[n].src = flow[n - 1].dst
    /\ \A n, m \in 1..Len(flow) : n <= m => flow[m].dst # flow[n].src
    /\ pc = "flow" /\ flow # << >> => flow[1].src = Source
TraceOK ==
    /\ pc \in {"trim", "done"} => (privateFlag <=> Flagged(facts, guidance, predictions))
    /\ citations = CitationsOf(guidance)
    /\ confidence \in {"high", "low", "incomplete"} /\ (compacted => traced) /\ (traced => truncated)
Unranked ==
    /\ pc \in {"start", "scope", "walk", "adapters", "rank"} => ranked = << >> /\ flow = << >>
    /\ pc \in {"start", "scope", "walk", "adapters", "rank", "flow"} => guidance = << >> /\ predictions = << >>
PlanesIInv ==
    RequestOK /\ GraphOK /\ SourcesOK /\ RankedOK /\ ListsOK /\ FlowOK /\ TraceOK /\ Unranked

=============================================================================
