--------------------------- MODULE KnowledgeMatching ---------------------------
(***************************************************************************)
(* When guidance may speak (knowledge/core.py).  A pack's author binds a    *)
(* rule to a target and lists what a design context must hold; the loader   *)
(* accepts the binding only if that list entails the rule's condition       *)
(* (binding_entails_rule_condition); later the matcher compares the list    *)
(* with the context of a design instance.                                   *)
(*                                                                          *)
(* A constraint on one key is a record of its kind: "any", a "scalar", a    *)
(* "list" (which never matches), or "ops", where each operator has at most  *)
(* one operand.  Values are canonical scalars (casefolded strings; booleans *)
(* are tokens of their own) and Version[v] is the rank of v as a version.   *)
(***************************************************************************)
EXTENDS Naturals

CONSTANTS
    Values,
    Version,     \* value -> its rank as a version
    Direct,      \* keys that a binding must constrain itself
    Derived,     \* keys whose premise the target itself derives
    Witness,     \* derived key -> the key that vouches for its evidence
    Conditions, Requireds, Contexts   \* bounds: what is enumerated

Keys == Direct \cup Derived \cup {Witness[d] : d \in Derived}

AtMostOne(S) == {T \in SUBSET S : \A x, y \in T : x = y}

Ops == [kind : {"ops"}, equals : AtMostOne(Values), oneOf : AtMostOne(SUBSET Values),
        min : AtMostOne(Nat), max : AtMostOne(Nat), required : BOOLEAN, unknown : BOOLEAN]
Constraints == [kind : {"any", "list"}] \cup [kind : {"scalar"}, value : Values] \cup Ops

ASSUME VersionsOK ==
    /\ Version \in [Values -> Nat]
    /\ Direct \cap Derived = {} /\ Witness \in [Derived -> Keys]

ASSUME BoundsOK ==
    /\ Conditions \subseteq [Keys -> Constraints] /\ Requireds \subseteq [Keys -> Constraints]
    /\ Contexts \subseteq [Keys -> SUBSET Values]

-------------------------------------------------------------------------------
\* _matches_constraint for one value.  An unknown operator raises.
MatchesOps(c, a) ==
    /\ ~c.unknown
    /\ \A v \in c.equals : v = a
    /\ \A S \in c.oneOf : a \in S
    /\ \A v \in c.min : Version[a] >= v
    /\ \A v \in c.max : Version[a] =< v

MatchesOne(c, a) ==
    CASE c.kind = "any" -> TRUE
      [] c.kind = "list" -> FALSE
      [] c.kind = "scalar" -> c.value = a
      [] OTHER -> MatchesOps(c, a)

\* A context gives every key a set of values.  For pack authors one of them must
\* match; where there is none only "any" does.
Matches(c, A) == c.kind = "any" \/ \E a \in A : MatchesOne(c, a)

\* _constraint_matches of retrieval: a design instance has one value for a key.
MatchesInstance(c, A) == c.kind = "any" \/ \E a \in A : A = {a} /\ MatchesOne(c, a)

\* An empty mapping asks for no value at all.
Present(r) == r.required \/ r.equals # {} \/ r.oneOf # {} \/ r.min # {} \/ r.max # {}

\* _validate_knowledge_constraints.
Valid(c) == c.kind # "list" /\ (c.kind = "ops" => ~c.unknown /\ {} \notin c.oneOf /\ Present(c))

\* What equals asks for is among the choices.
Satisfiable(c) == c.kind = "ops" => \A S \in c.oneOf : c.equals \subseteq S

\* candidates in _constraint_entails: the values that equals, or else one_of, allows.
HasCandidates(c) == c.equals # {} \/ \E S \in c.oneOf : S # {}
Candidates(c) == IF c.equals # {} THEN c.equals ELSE UNION c.oneOf

\* (mutant) The least version is compared the other way round.
KeepsMinTurned(r, c) == \A v \in c.min : \E w \in r.min : w =< v

\* The bound that c gives is kept by r.
KeepsMin(r, c) == \A v \in c.min : \E w \in r.min : w >= v
KeepsMax(r, c) == \A v \in c.max : \E w \in r.max : w =< v

\* Both constraints are mappings.
EntailsOps(r, c) ==
    /\ ~r.unknown /\ ~c.unknown
    /\ c.required => Present(r)
    /\ HasCandidates(c) => HasCandidates(r) /\ Candidates(r) \subseteq Candidates(c)
    /\ KeepsMin(r, c) /\ KeepsMax(r, c)

\* A mapping that pins a single value down.
PinsTo(r, v) ==
    /\ ~r.unknown
    /\ IF r.equals # {} THEN r.equals = {v} ELSE \E S \in r.oneOf : S = {v}

\* _constraint_entails: required r is at least as strong as condition c.
Entails(r, c) ==
    \/ c.kind = "any"
    \/ /\ r.kind \notin {"list", "any"} /\ c.kind # "list"
       /\ CASE c.kind = "ops" /\ r.kind = "ops" -> EntailsOps(r, c)
            [] c.kind = "ops" /\ r.kind = "scalar" -> MatchesOps(c, r.value)
            [] c.kind = "scalar" /\ r.kind = "ops" -> PinsTo(r, c.value)
            [] OTHER -> r.value = c.value

-------------------------------------------------------------------------------
(* Bindings.                                                                  *)

Absent == [kind |-> "any"]

\* _requires_value.
RequiresValue(c) == c.kind = "ops" /\ c.required

\* binding_entails_rule_condition: a premise is constrained by the binding or,
\* where the target derives it, the key that vouches for it is required.
Loadable(c, r) ==
    \A k \in Keys : Valid(c[k]) /\ Valid(r[k]) /\
        (c[k] # Absent =>
            IF r[k] # Absent THEN k \in Direct /\ Entails(r[k], c[k])
            ELSE k \in Derived /\ RequiresValue(r[Witness[k]]))

\* matches_binding_constraints, and what an activation session evaluates.
MatchesBinding(r, x) == \A k \in Keys : Matches(r[k], x[k])
ActivatesBinding(r, x) == \A k \in Keys : MatchesInstance(r[k], x[k])

VARIABLES
    condition,   \* of the rule: key -> constraint
    required,    \* of the binding
    loaded,
    context,     \* of a design instance: key -> values
    matched,     \* the author's matcher accepts it
    active       \* the guidance is shown

vars == <<condition, required, loaded, context, matched, active>>

TypeOK ==
    /\ condition \in [Keys -> Constraints] /\ required \in [Keys -> Constraints]
    /\ context \in [Keys -> SUBSET Values]
    /\ loaded \in BOOLEAN /\ matched \in BOOLEAN /\ active \in BOOLEAN
    /\ active => matched

Init ==
    /\ condition \in Conditions /\ required \in Requireds
    /\ loaded = FALSE /\ matched = FALSE /\ active = FALSE
    /\ context = [k \in Keys |-> {}]

\* KnowledgePack: a binding that does not entail its rule is refused.
Load ==
    /\ ~loaded /\ Loadable(condition, required)
    /\ loaded' = TRUE
    /\ UNCHANGED <<condition, required, context, matched, active>>

\* A design instance with this context asks for guidance.
Evaluate ==
    /\ loaded
    /\ \E x \in Contexts :
         /\ context' = x
         /\ matched' = MatchesBinding(required, x)
         /\ active' = ActivatesBinding(required, x)
    /\ UNCHANGED <<condition, required, loaded>>

Next == Load \/ Evaluate

Spec == Init /\ [][Next]_vars

-------------------------------------------------------------------------------
\* Guidance that a context lets through meets every premise of its rule: the
\* binding is never weaker than the rule, whose condition says something, and a
\* premise that the target derives has its evidence.
PremisesHold ==
    matched => \A k \in Keys :
        \/ Matches(condition[k], context[k]) \/ ~Satisfiable(condition[k])
        \/ k \in Derived /\ context[Witness[k]] # {}

\* The same for a design instance, which has one value for every key.
InstancePremisesHold ==
    active => \A k \in Keys :
        \/ MatchesInstance(condition[k], context[k]) \/ ~Satisfiable(condition[k])
        \/ k \in Derived /\ context[Witness[k]] # {}

===============================================================================
