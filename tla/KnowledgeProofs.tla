------------------------------ MODULE KnowledgeProofs ------------------------------
(***************************************************************************)
(* Theorems about knowledge: the loader's proof that a binding entails its  *)
(* rule is sound for every set of values, versions and keys, so that the    *)
(* premises of guidance that is let through hold (KnowledgeMatching); what   *)
(* an evaluation session delivers was reviewed, for any threads, sessions   *)
(* and contexts (KnowledgeActivation); what is quoted is what the document   *)
(* says, for any documents, builders, searchers and writes (LocalSidecar);   *)
(* and what a ledger serves was reviewed, for any releases, users and        *)
(* orders of reading (KnowledgePacks).                                      *)
(***************************************************************************)
EXTENDS MCKnowledge, FiniteSetTheorems, TLAPS

-------------------------------------------------------------------------------
(* Matching.                                                                  *)

(* What each kind of constraint carries.                                    *)
LEMMA OpsType ==
    ASSUME NEW c \in Constraints, c.kind = "ops"
    PROVE  /\ c \in Ops
           /\ c.equals \subseteq Values /\ c.min \subseteq Nat /\ c.max \subseteq Nat
           /\ \A x, y \in c.equals : x = y
           /\ \A x, y \in c.oneOf : x = y
           /\ \A x, y \in c.min : x = y
           /\ \A x, y \in c.max : x = y
<1>1. c \in Ops
  BY DEF Constraints
<1> QED BY <1>1 DEF Ops, AtMostOne

\* The kinds of a constraint, and what a scalar carries.
LEMMA KindOf ==
    ASSUME NEW c \in Constraints
    PROVE  c.kind \in {"any", "list", "scalar", "ops"} /\ (c.kind = "scalar" => c.value \in Values)
BY DEF Constraints, Ops

(* A value that meets the stronger mapping is one of its candidates.        *)
LEMMA MatchIsCandidate ==
    ASSUME NEW r \in Constraints, r.kind = "ops", HasCandidates(r), NEW a \in Values, MatchesOps(r, a)
    PROVE  a \in Candidates(r)
<1>1. CASE r.equals # {}
  BY <1>1 DEF MatchesOps, Candidates
<1>2. CASE r.equals = {}
  <2>1. PICK S \in r.oneOf : S # {}
    BY <1>2 DEF HasCandidates
  <2>2. a \in S
    BY <2>1 DEF MatchesOps
  <2> QED BY <1>2, <2>1, <2>2 DEF Candidates
<1> QED BY <1>1, <1>2

(* The bounds of the stronger mapping keep the value within the weaker ones. *)
LEMMA BoundsKept ==
    ASSUME NEW r \in Constraints, NEW c \in Constraints, r.kind = "ops", c.kind = "ops",
           KeepsMin(r, c), KeepsMax(r, c), NEW a \in Values, MatchesOps(r, a)
    PROVE  /\ \A v \in c.min : Version[a] >= v
           /\ \A v \in c.max : Version[a] =< v
<1>0. Version[a] \in Nat
  BY VersionsOK
<1>1. ASSUME NEW v \in c.min PROVE Version[a] >= v
  <2>1. PICK w \in r.min : w >= v
    BY <1>1 DEF KeepsMin
  <2>2. Version[a] >= w
    BY <2>1 DEF MatchesOps
  <2>3. w \in Nat /\ v \in Nat
    BY <1>1, <2>1, OpsType
  <2> QED BY <1>0, <2>1, <2>2, <2>3
<1>2. ASSUME NEW v \in c.max PROVE Version[a] =< v
  <2>1. PICK w \in r.max : w =< v
    BY <1>2 DEF KeepsMax
  <2>2. Version[a] =< w
    BY <2>1 DEF MatchesOps
  <2>3. w \in Nat /\ v \in Nat
    BY <1>2, <2>1, OpsType
  <2> QED BY <1>0, <2>1, <2>2, <2>3
<1> QED BY <1>1, <1>2

(* Two mappings.                                                            *)
LEMMA OpsSound ==
    ASSUME NEW r \in Constraints, NEW c \in Constraints, r.kind = "ops", c.kind = "ops",
           EntailsOps(r, c), Valid(c), Satisfiable(c), NEW a \in Values, MatchesOps(r, a)
    PROVE  MatchesOps(c, a)
<1>1. /\ \A v \in c.min : Version[a] >= v
      /\ \A v \in c.max : Version[a] =< v
  BY BoundsKept DEF EntailsOps
<1>2. ASSUME HasCandidates(c) PROVE a \in Candidates(c)
  BY <1>2, MatchIsCandidate DEF EntailsOps
<1>3. \A v \in c.equals : v = a
  BY <1>2, OpsType DEF HasCandidates, Candidates
<1>4. ASSUME NEW S \in c.oneOf PROVE a \in S
  <2>1. S # {} /\ c.equals \subseteq S
    BY <1>4 DEF Valid, Satisfiable
  <2>2. a \in Candidates(c)
    BY <1>2, <1>4, <2>1 DEF HasCandidates
  <2>3. CASE c.equals # {}
    BY <2>1, <2>2, <2>3 DEF Candidates
  <2>4. CASE c.equals = {}
    <3>1. PICK T \in c.oneOf : a \in T
      BY <2>2, <2>4 DEF Candidates
    <3> QED BY <1>4, <3>1, OpsType
  <2> QED BY <2>3, <2>4
<1>5. ~c.unknown
  BY DEF Valid
<1> QED BY <1>1, <1>3, <1>4, <1>5 DEF MatchesOps

(***************************************************************************)
(* A value that meets what a binding requires meets what the rule asks for, *)
(* whenever _constraint_entails accepts the pair and the rule's condition   *)
(* can be met at all.                                                       *)
(***************************************************************************)
THEOREM EntailmentIsSound ==
    ASSUME NEW r \in Constraints, NEW c \in Constraints, Entails(r, c), Valid(c), Satisfiable(c),
           NEW a \in Values, MatchesOne(r, a)
    PROVE  MatchesOne(c, a)
<1>0. r.kind \in {"any", "list", "scalar", "ops"} /\ c.kind \in {"any", "list", "scalar", "ops"}
  BY KindOf
<1>1. CASE c.kind = "any"
  BY <1>1 DEF MatchesOne
<1>2. CASE c.kind = "ops" /\ r.kind = "ops"
  <2>1. EntailsOps(r, c) /\ MatchesOps(r, a)
    BY <1>2 DEF Entails, MatchesOne
  <2> QED BY <1>2, <2>1, OpsSound DEF MatchesOne
<1>3. CASE c.kind = "ops" /\ r.kind = "scalar"
  BY <1>3 DEF Entails, MatchesOne
<1>4. CASE c.kind = "scalar" /\ r.kind = "ops"
  <2>1. PinsTo(r, c.value) /\ MatchesOps(r, a)
    BY <1>4 DEF Entails, MatchesOne
  <2>2. a = c.value
    BY <2>1 DEF PinsTo, MatchesOps
  <2> QED BY <1>4, <2>2 DEF MatchesOne
<1>5. CASE c.kind = "scalar" /\ r.kind = "scalar"
  BY <1>5 DEF Entails, MatchesOne
<1> QED BY <1>0, <1>1, <1>2, <1>3, <1>4, <1>5 DEF Entails

Inv ==
    /\ TypeOK
    /\ loaded => Loadable(condition, required)
    /\ matched => loaded /\ MatchesBinding(required, context)
    /\ active => ActivatesBinding(required, context)

\* A context that meets the stronger constraint meets the weaker one.
LEMMA MatchesLift ==
    ASSUME NEW r \in Constraints, NEW c \in Constraints, Entails(r, c), Valid(c), Satisfiable(c),
           NEW A \in SUBSET Values
    PROVE  /\ Matches(r, A) => Matches(c, A)
           /\ MatchesInstance(r, A) => MatchesInstance(c, A)
<1>1. r.kind = "any" => c.kind = "any"
  BY DEF Entails
<1> QED BY <1>1, EntailmentIsSound DEF Matches, MatchesInstance

\* What matches an instance matches.
LEMMA InstanceIsStricter ==
    ASSUME NEW c, NEW A, MatchesInstance(c, A)
    PROVE  Matches(c, A)
BY DEF Matches, MatchesInstance

\* Guidance was matched by a mapping that the loader accepted, in every state.
LEMMA InvInductive == (Init => Inv) /\ (Inv /\ [Next]_vars => Inv')
<1>1. Init => Inv
  BY BoundsOK DEF Init, Inv, TypeOK
<1>2. ASSUME Inv, [Next]_vars PROVE Inv'
  <2>1. CASE Load
    BY <1>2, <2>1 DEF Load, Inv, TypeOK
  <2>2. CASE Evaluate
    <3>1. PICK x \in Contexts : context' = x /\ matched' = MatchesBinding(required, x)
                                /\ active' = ActivatesBinding(required, x)
      BY <2>2 DEF Evaluate
    <3>2. ActivatesBinding(required, x) => MatchesBinding(required, x)
      BY InstanceIsStricter DEF ActivatesBinding, MatchesBinding
    <3>3. context' \in [Keys -> SUBSET Values]
      BY <3>1, BoundsOK
    <3>4. matched' \in BOOLEAN /\ active' \in BOOLEAN
      BY <3>1 DEF MatchesBinding, ActivatesBinding
    <3> QED BY <1>2, <2>2, <3>1, <3>2, <3>3, <3>4 DEF Evaluate, Inv, TypeOK
  <2>3. CASE UNCHANGED vars
    BY <1>2, <2>3 DEF vars, Inv, TypeOK
  <2> QED BY <1>2, <2>1, <2>2, <2>3 DEF Next
<1> QED BY <1>1, <1>2

(* A required witness is there when the binding is met.                     *)
LEMMA WitnessPresent ==
    ASSUME NEW c, NEW A, RequiresValue(c), Matches(c, A)
    PROVE  A # {}
BY DEF RequiresValue, Matches

\* What was matched so has its premises met.
LEMMA InvPremises == Inv => PremisesHold /\ InstancePremisesHold
<1> SUFFICES ASSUME Inv PROVE PremisesHold /\ InstancePremisesHold
  OBVIOUS
<1>1. ASSUME matched, NEW k \in Keys, Satisfiable(condition[k])
      PROVE  \/ Matches(condition[k], context[k]) /\ (active => MatchesInstance(condition[k], context[k]))
             \/ k \in Derived /\ context[Witness[k]] # {}
  <2>1. Loadable(condition, required) /\ MatchesBinding(required, context)
    BY <1>1 DEF Inv
  <2>2. condition[k] \in Constraints /\ required[k] \in Constraints /\ context[k] \in SUBSET Values
    BY <1>1 DEF Inv, TypeOK
  <2>3. CASE condition[k] = Absent
    BY <2>3 DEF Matches, MatchesInstance, Absent
  <2>4. CASE condition[k] # Absent /\ required[k] # Absent
    <3>1. Entails(required[k], condition[k]) /\ Valid(condition[k])
      BY <2>1, <2>4 DEF Loadable
    <3>2. Matches(required[k], context[k])
      BY <2>1 DEF MatchesBinding
    <3>3. active => MatchesInstance(required[k], context[k])
      BY DEF Inv, ActivatesBinding
    <3> QED BY <1>1, <2>2, <3>1, <3>2, <3>3, MatchesLift
  <2>5. CASE condition[k] # Absent /\ required[k] = Absent
    <3>1. k \in Derived /\ RequiresValue(required[Witness[k]])
      BY <2>1, <2>5 DEF Loadable
    <3>2. Witness[k] \in Keys
      BY <3>1, VersionsOK
    <3>3. Matches(required[Witness[k]], context[Witness[k]])
      BY <2>1, <3>2 DEF MatchesBinding
    <3> QED BY <3>1, <3>3, WitnessPresent
  <2> QED BY <2>3, <2>4, <2>5
<1>2. active => matched
  BY DEF Inv, TypeOK
<1> QED BY <1>1, <1>2 DEF PremisesHold, InstancePremisesHold

(***************************************************************************)
(* Guidance that a context lets through, for authors and for instances,     *)
(* meets the premises of its rule.                                          *)
(***************************************************************************)
THEOREM PremisesAlwaysHold == Spec => [](PremisesHold /\ InstancePremisesHold)
<1>1. Init => Inv
  BY InvInductive
<1>2. Inv /\ [Next]_vars => Inv'
  BY InvInductive
<1> QED BY <1>1, <1>2, InvPremises, PTL DEF Spec

------------------------------------------------------------
(* Evaluation sessions.                                                       *)

USE DEF Activation!Objects, Activation!Versions, Activation!Idle, Activation!Handle, Activation!Free

\* The sessions count contexts as the library does.
LEMMA FiniteHandles == \A S : Activation!IsFiniteSet(S) <=> IsFiniteSet(S)
  BY DEF Activation!IsFiniteSet, IsFiniteSet

\* Their number is the library's, too.
LEMMA CountedHandles == \A S : Activation!Cardinality(S) = Cardinality(S)
  BY Zenon DEF Activation!Cardinality, Cardinality

\* A number that is free for a context.
LEMMA FreeNumber ==
    ASSUME NEW H, IsFiniteSet(H), NEW n \in Nat, Cardinality({h \in H : h.real}) < n
    PROVE  Cardinality({h \in H : h.real}) + 1 \in 1..n
<1>1. IsFiniteSet({h \in H : h.real})
  BY FS_Subset
<1>2. Cardinality({h \in H : h.real}) \in Nat
  BY <1>1, FS_CardinalityType
<1> QED BY <1>2

\* No session is open at first.
LEMMA ActivationInit == Activation!Init => Activation!IInv
  BY FS_EmptySet, FiniteHandles DEF Activation!Init, Activation!IInv, Activation!TypeOK, Activation!IssuedAreReal,
     Activation!EvaluatesTheReviewed, Activation!DeliveredIsReviewed

\* A session is opened, step by step.
LEMMA OpenIInv ==
    ASSUME Activation!IInv, NEW s \in Sessions,
           Activation!OpenBindings(s) \/ Activation!OpenRules(s) \/ Activation!OpenCheck(s)
    PROVE  Activation!IInv'
<1> USE DEF Activation!IInv, Activation!OpenBindings, Activation!OpenRules, Activation!OpenCheck
<1>1. Activation!TypeOK'
  BY DEF Activation!TypeOK, Activation!EvaluatesTheReviewed
<1>2. Activation!IssuedAreReal' /\ Activation!DeliveredIsReviewed'
  BY DEF Activation!IssuedAreReal, Activation!DeliveredIsReviewed
<1>3. Activation!EvaluatesTheReviewed'
  BY DEF Activation!TypeOK, Activation!EvaluatesTheReviewed
<1> QED BY <1>1, <1>2, <1>3

\* A context is issued.
LEMMA IssueIInv ==
    ASSUME Activation!IInv, NEW t \in Threads, NEW s \in Sessions, Activation!Issue(t, s)
    PROVE  Activation!IInv'
<1> USE DEF Activation!IInv, Activation!Issue
<1> DEFINE n == Activation!Cardinality({x \in handles : x.real}) + 1
           h == Activation!Handle(s, n, live["raw"], TRUE)
<1>1. n \in 1..MaxHandles
  BY FreeNumber, FiniteHandles, CountedHandles, KnowledgeAssumption
     DEF Activation!ActivationOK, Activation!IssuedAreReal
<1>2. h.n = n /\ h.values \in Activation!Versions /\ h.real /\ h.s = s
  BY DEF Activation!TypeOK
<1>3. issued' = [issued EXCEPT ![s] = @ \cup {h}] /\ handles' = handles \cup {h}
  OBVIOUS
<1> HIDE DEF h, n
<1>4. Activation!IsFiniteSet(handles')
  <2>1. IsFiniteSet(handles)
    BY FiniteHandles DEF Activation!IssuedAreReal
  <2>2. IsFiniteSet(handles \cup {h})
    BY <2>1, FS_AddElement
  <2> QED BY <1>3, <2>2, FiniteHandles
<1>5. Activation!TypeOK'
  BY <1>1, <1>2, <1>3 DEF Activation!TypeOK, Activation!IssuedAreReal
<1>6. Activation!IssuedAreReal'
  BY <1>2, <1>3, <1>4 DEF Activation!IssuedAreReal
<1>7. Activation!EvaluatesTheReviewed' /\ Activation!DeliveredIsReviewed'
  BY DEF Activation!EvaluatesTheReviewed, Activation!DeliveredIsReviewed
<1> QED BY <1>5, <1>6, <1>7

\* A caller copies a context, or somebody changes a live object.
LEMMA CallersIInv ==
    ASSUME Activation!IInv, Activation!Copy \/ \E o \in Activation!Objects : Activation!Mutate(o)
    PROVE  Activation!IInv'
<1>1. CASE Activation!Copy
  <2> USE <1>1 DEF Activation!Copy
  <2>1. PICK h \in handles, v \in Activation!Versions, s \in Sessions :
          handles' = handles \cup {Activation!Handle(s, h.n, v, FALSE)}
    OBVIOUS
  <2> DEFINE c == Activation!Handle(s, h.n, v, FALSE)
  <2>2. c.n \in 1..MaxHandles /\ c.values \in Activation!Versions
    BY DEF Activation!IInv, Activation!TypeOK
  <2>3. Activation!IsFiniteSet(handles')
    BY <2>1, FS_AddElement, FiniteHandles DEF Activation!IInv, Activation!IssuedAreReal
  <2> HIDE DEF c
  <2>4. handles' = handles \cup {c}
    BY <2>1 DEF c
  <2>5. Activation!TypeOK' /\ Activation!IssuedAreReal'
    BY <2>2, <2>3, <2>4 DEF Activation!IInv, Activation!TypeOK, Activation!IssuedAreReal
  <2>6. Activation!EvaluatesTheReviewed' /\ Activation!DeliveredIsReviewed'
    BY DEF Activation!IInv, Activation!EvaluatesTheReviewed, Activation!DeliveredIsReviewed
  <2> QED BY <2>5, <2>6 DEF Activation!IInv
<1>2. ASSUME NEW o \in Activation!Objects, Activation!Mutate(o) PROVE Activation!IInv'
  BY <1>2 DEF Activation!Mutate, Activation!IInv, Activation!TypeOK, Activation!IssuedAreReal,
              Activation!EvaluatesTheReviewed, Activation!DeliveredIsReviewed
<1> QED BY <1>1, <1>2

\* An evaluation begins under the lock of its session.
LEMMA BeginIInv ==
    ASSUME Activation!IInv, NEW t \in Threads, NEW s \in Sessions, NEW h \in handles, Activation!Start(t, s, h)
    PROVE  Activation!IInv'
<1> USE DEF Activation!IInv, Activation!Start, Activation!Validated
<1> DEFINE new == Activation!Result(s, h)
<1>1. new.s = s /\ new.rule = 0 /\ new.binding = 0 /\ new.h = h /\ new.values = h.values
  BY DEF Activation!Result, Activation!TypeOK
<1>2. h.real /\ h.s = s
  BY DEF Activation!IssuedAreReal
<1>3. /\ call' = [call EXCEPT ![t] = new] /\ lock' = [lock EXCEPT ![s] = t] /\ lock[s] = Activation!None
      /\ UNCHANGED <<live, phase, reg, issued, handles, out>>
  OBVIOUS
<1> HIDE DEF new
<1>4. Activation!TypeOK'
  BY <1>1, <1>3, KnowledgeAssumption
     DEF Activation!ActivationOK, Activation!TypeOK, Activation!EvaluatesTheReviewed
<1>5. Activation!EvaluatesTheReviewed'
  BY <1>1, <1>2, <1>3 DEF Activation!EvaluatesTheReviewed
<1>6. Activation!IssuedAreReal' /\ Activation!DeliveredIsReviewed'
  BY <1>3 DEF Activation!IssuedAreReal, Activation!DeliveredIsReviewed
<1> QED BY <1>4, <1>5, <1>6

\* The thread that leaves a session frees its lock; nobody else holds it.
LEMMA ReturnKeeps ==
    ASSUME Activation!IInv, NEW t \in Threads, call[t] # Activation!Idle, Activation!Return(t)
    PROVE  Activation!TypeOK' /\ Activation!IssuedAreReal' /\ Activation!EvaluatesTheReviewed'
<1> USE DEF Activation!IInv, Activation!Return
<1>1. call[t].s \in Sessions
  BY DEF Activation!EvaluatesTheReviewed
<1>2. Activation!TypeOK'
  BY <1>1 DEF Activation!TypeOK, Activation!EvaluatesTheReviewed
<1>3. Activation!IssuedAreReal' /\ Activation!EvaluatesTheReviewed'
  BY <1>1 DEF Activation!IssuedAreReal, Activation!EvaluatesTheReviewed
<1> QED BY <1>2, <1>3

\* What an evaluation delivers: at its end, or to an evaluator inside it.
LEMMA EndIInv ==
    ASSUME Activation!IInv, NEW t \in Threads,
           \/ Activation!End(t) \/ Activation!Raise(t) \/ \E h \in handles : Activation!Nested(t, h)
    PROVE  Activation!IInv'
<1>1. CASE Activation!End(t) \/ Activation!Raise(t)
  <2>1. call[t] # Activation!Idle /\ Activation!Return(t) /\ out' \in {out, call[t]}
    BY <1>1 DEF Activation!End, Activation!Raise
  <2>2. Activation!DeliveredIsReviewed'
    BY <2>1 DEF Activation!IInv, Activation!DeliveredIsReviewed, Activation!EvaluatesTheReviewed
  <2> QED BY <2>1, <2>2, ReturnKeeps DEF Activation!IInv
<1>2. ASSUME NEW h \in handles, Activation!Nested(t, h) PROVE Activation!IInv'
  <2> USE <1>2 DEF Activation!Nested, Activation!IInv
  <2>1. Activation!DeliveredIsReviewed'
    BY DEF Activation!DeliveredIsReviewed, Activation!Result, Activation!Validated, Activation!TypeOK,
           Activation!IssuedAreReal, Activation!EvaluatesTheReviewed
  <2>2. Activation!TypeOK' /\ Activation!IssuedAreReal' /\ Activation!EvaluatesTheReviewed'
    BY DEF Activation!TypeOK, Activation!IssuedAreReal, Activation!EvaluatesTheReviewed
  <2> QED BY <2>1, <2>2
<1> QED BY <1>1, <1>2

\* A session is closed, also by the evaluator that runs in it.
LEMMA CloseIInv ==
    ASSUME Activation!IInv, NEW t \in Threads, NEW s \in Sessions, Activation!Close(t, s)
    PROVE  Activation!IInv'
  BY DEF Activation!Close, Activation!IInv, Activation!TypeOK, Activation!IssuedAreReal,
         Activation!EvaluatesTheReviewed, Activation!DeliveredIsReviewed

\* Every step keeps the invariant.
LEMMA ActivationStep == Activation!IInv /\ [Activation!Next]_(Activation!vars) => Activation!IInv'
<1> SUFFICES ASSUME Activation!IInv, [Activation!Next]_(Activation!vars) PROVE Activation!IInv'
  OBVIOUS
<1>1. CASE UNCHANGED Activation!vars
  BY <1>1 DEF Activation!vars, Activation!IInv, Activation!TypeOK, Activation!IssuedAreReal,
              Activation!EvaluatesTheReviewed, Activation!DeliveredIsReviewed
<1>2. CASE Activation!Next
  BY <1>2, OpenIInv, IssueIInv, CallersIInv, BeginIInv, EndIInv, CloseIInv DEF Activation!Next
<1> QED BY <1>1, <1>2

\* One evaluation at a time: the lock has one holder.
LEMMA LockIsExclusive == Activation!IInv => Activation!TypeOK /\ Activation!DeliveredIsReviewed /\ Activation!OneInside
  BY DEF Activation!IInv, Activation!TypeOK, Activation!OneInside

\* A result leaves while everything behind it is valid.
LEMMA DeliversWhileValid ==
    ASSUME Activation!IInv, [Activation!Next]_(Activation!vars), out' # out
    PROVE  /\ phase[out'.s] = "open" /\ out'.h \in issued[out'.s]
           /\ live = [rule |-> 0, binding |-> 0, raw |-> out'.values]
<1>1. PICK t \in Threads : Activation!End(t) \/ \E h \in handles : Activation!Nested(t, h)
  BY DEF Activation!Next, Activation!vars, Activation!OpenBindings, Activation!OpenRules,
         Activation!OpenCheck, Activation!Issue, Activation!Close, Activation!Start, Activation!Raise,
         Activation!Copy, Activation!Mutate
<1>2. call[t] # Activation!Idle /\ call[t].s \in Sessions
  BY <1>1 DEF Activation!End, Activation!Nested, Activation!IInv, Activation!EvaluatesTheReviewed
<1>3. \/ out' = call[t] /\ Activation!Validated(call[t].s, call[t].h)
      \/ \E h \in handles : out' = Activation!Result(call[t].s, h) /\ Activation!Validated(call[t].s, h)
  BY <1>1 DEF Activation!End, Activation!Nested
<1>4. /\ out'.s = call[t].s /\ Activation!Validated(out'.s, out'.h) /\ out'.values = out'.h.values
  BY <1>2, <1>3 DEF Activation!Result, Activation!IInv, Activation!EvaluatesTheReviewed
<1>5. live["rule"] = 0 /\ live["binding"] = 0 /\ live["raw"] = out'.values
  BY <1>2, <1>4 DEF Activation!Validated, Activation!Registered, Activation!IInv, Activation!TypeOK
<1>6. live = [rule |-> 0, binding |-> 0, raw |-> out'.values]
  BY <1>5 DEF Activation!IInv, Activation!TypeOK
<1> QED BY <1>4, <1>6 DEF Activation!Validated

(***************************************************************************)
(* The invariant of the sessions holds in every behaviour.                  *)
(***************************************************************************)
THEOREM ActivationInvariant == MCSpec => []Activation!IInv
<1>1. MCInit => Activation!IInv
  BY ActivationInit DEF MCInit
<1>2. Activation!IInv /\ [MCNext]_<<part, vars, avars, pvars, svars>> => Activation!IInv'
  <2> SUFFICES ASSUME Activation!IInv, [MCNext]_<<part, vars, avars, pvars, svars>>
               PROVE  [Activation!Next]_(Activation!vars)
    BY ActivationStep
  <2> QED BY DEF MCNext, avars, Activation!vars
<1> QED BY <1>1, <1>2, PTL DEF MCSpec

(***************************************************************************)
(* A result of a session is of the reviewed rule, for a context of its own, *)
(* and leaves only while all behind it is valid (evaluate_atomically).      *)
(***************************************************************************)
THEOREM DeliveredIsAlwaysReviewed == MCSpec => DeliveredIsReviewed
<1>1. Activation!IInv /\ [MCNext]_<<part, vars, avars, pvars, svars>> =>
        [out' # out => /\ phase[out'.s] = "open" /\ out'.h \in issued[out'.s]
                       /\ live = [rule |-> 0, binding |-> 0, raw |-> out'.values]]_(Activation!vars)
  <2> SUFFICES ASSUME Activation!IInv, [MCNext]_<<part, vars, avars, pvars, svars>>
               PROVE  [Activation!Next]_(Activation!vars)
    BY DeliversWhileValid
  <2> QED BY DEF MCNext, avars, Activation!vars
<1> QED BY <1>1, ActivationInvariant, LockIsExclusive, PTL
        DEF MCSpec, DeliveredIsReviewed, Activation!DeliveredWhileValid

------------------------------------------------------------
(* Quoting local documents.                                                   *)

USE DEF Sidecar!Content, Sidecar!Procs, Sidecar!owned, Sidecar!published, Sidecar!Identities,
        Sidecar!Entries, Sidecar!Reads

\* The bounds of the documents' index.
LEMMA SidecarBounds ==
    /\ MaxWrites \in Nat /\ MaxEmbedder \in Nat /\ MaxBuilds \in Nat
    /\ "indexer" \notin Searchers /\ Builders \cap Searchers = {}
  BY KnowledgeAssumption DEF Sidecar!SidecarOK

\* Nothing is indexed, built or searched at first.
LEMMA SidecarInit == Sidecar!Init => Sidecar!IInv
<1> SUFFICES ASSUME Sidecar!Init PROVE Sidecar!IInv
  OBVIOUS
<1> USE SidecarBounds DEF Sidecar!Init
<1>1. Sidecar!TypeOK /\ Sidecar!RowsAreDeclared
  BY DEF Sidecar!TypeOK, Sidecar!RowsAreDeclared
<1>2. Sidecar!Shapes
  BY DEF Sidecar!Shapes
<1>3. Sidecar!ReadIsOfItsIdentity /\ Sidecar!RowsAreOfTheBuild /\ Sidecar!ManifestsDescribe
      /\ Sidecar!VerifiesWhatItHas
  BY DEF Sidecar!ReadIsOfItsIdentity, Sidecar!RowsAreOfTheBuild, Sidecar!ManifestsDescribe,
         Sidecar!VerifiesWhatItHas
<1> QED BY <1>1, <1>2, <1>3 DEF Sidecar!IInv

\* The parts of the invariant stay as long as what they are about does.
LEMMA SidecarFrame ==
    ASSUME Sidecar!IInv
    PROVE  /\ UNCHANGED <<file, writes, rd>> => Sidecar!ReadIsOfItsIdentity'
           /\ UNCHANGED <<build, database>> => Sidecar!RowsAreDeclared'
           /\ UNCHANGED build => Sidecar!RowsAreOfTheBuild'
           /\ UNCHANGED <<manifest, search>> => Sidecar!ManifestsDescribe'
           /\ UNCHANGED <<rd, search>> => Sidecar!VerifiesWhatItHas'
<1> USE DEF Sidecar!IInv
<1>1. UNCHANGED <<file, writes, rd>> => Sidecar!ReadIsOfItsIdentity'
  BY DEF Sidecar!ReadIsOfItsIdentity, Sidecar!Stable, Sidecar!Identity
<1>2. UNCHANGED <<build, database>> => Sidecar!RowsAreDeclared'
  BY DEF Sidecar!RowsAreDeclared
<1>3. UNCHANGED build => Sidecar!RowsAreOfTheBuild'
  BY DEF Sidecar!RowsAreOfTheBuild
<1>4. UNCHANGED <<manifest, search>> => Sidecar!ManifestsDescribe'
  BY DEF Sidecar!ManifestsDescribe, Sidecar!Describes
<1>5. UNCHANGED <<rd, search>> => Sidecar!VerifiesWhatItHas'
  BY DEF Sidecar!VerifiesWhatItHas
<1> QED BY <1>1, <1>2, <1>3, <1>4, <1>5

\* The owner writes a document: its identity was never there before.
LEMMA WriteIInv ==
    ASSUME Sidecar!IInv, NEW d \in Docs, Sidecar!Edit(d) \/ Sidecar!Replace(d)
    PROVE  Sidecar!IInv'
<1> USE SidecarBounds
<1>1. /\ writes' = writes + 1 /\ writes' \in 0..MaxWrites
      /\ UNCHANGED <<rd, meta, embedder, build, builds, database, manifest, search, sout>>
  BY DEF Sidecar!Edit, Sidecar!Replace, Sidecar!IInv, Sidecar!TypeOK
<1>2. /\ file' \in [Docs -> [ino : 0..MaxWrites, mtime : 0..MaxWrites, content : Sidecar!Content]]
      /\ \A x \in Docs \ {d} : file'[x] = file[x]
      /\ file'[d].ino <= writes' /\ file'[d].mtime <= writes'
      /\ file'[d].ino = writes + 1 \/ file'[d].mtime = writes + 1
  <2>1. /\ file \in [Docs -> [ino : 0..MaxWrites, mtime : 0..MaxWrites, content : Sidecar!Content]]
        /\ file[d].ino <= writes /\ file[d].mtime <= writes /\ writes \in 0..MaxWrites
    BY DEF Sidecar!IInv, Sidecar!TypeOK, Sidecar!Shapes
  <2>2. CASE Sidecar!Edit(d)
    BY <1>1, <2>1, <2>2 DEF Sidecar!Edit
  <2>3. CASE Sidecar!Replace(d)
    BY <1>1, <2>1, <2>3 DEF Sidecar!Replace
  <2> QED BY <2>2, <2>3
<1>3. Sidecar!TypeOK' /\ Sidecar!Shapes'
  BY <1>1, <1>2 DEF Sidecar!IInv, Sidecar!TypeOK, Sidecar!Shapes
<1>4. Sidecar!ReadIsOfItsIdentity'
  <2> SUFFICES ASSUME NEW p \in Sidecar!Procs, rd[p] # Sidecar!None
               PROVE  /\ rd[p].before[1] <= writes' /\ rd[p].before[2] <= writes'
                      /\ Sidecar!Stable(p)' => rd[p].bytes = file'[rd[p].doc].content
    BY <1>1 DEF Sidecar!ReadIsOfItsIdentity
  <2>1. /\ rd[p].before[1] <= writes /\ rd[p].before[2] <= writes /\ rd[p] \in Sidecar!Reads
        /\ Sidecar!Stable(p) => rd[p].bytes = file[rd[p].doc].content
        /\ writes \in 0..MaxWrites /\ file \in [Docs -> [ino : 0..MaxWrites, mtime : 0..MaxWrites, content : Sidecar!Content]]
    BY DEF Sidecar!IInv, Sidecar!ReadIsOfItsIdentity, Sidecar!Shapes, Sidecar!TypeOK
  <2>2. CASE rd[p].doc = d
    <3>1. ~Sidecar!Stable(p)'
      BY <1>1, <1>2, <2>1, <2>2 DEF Sidecar!Stable, Sidecar!Identity
    <3> QED BY <1>1, <2>1, <3>1
  <2>3. CASE rd[p].doc # d
    <3>1. file'[rd[p].doc] = file[rd[p].doc]
      BY <1>2, <2>1, <2>3
    <3> QED BY <1>1, <2>1, <3>1 DEF Sidecar!Stable, Sidecar!Identity
  <2> QED BY <2>2, <2>3
<1> QED BY <1>1, <1>3, <1>4, SidecarFrame DEF Sidecar!IInv

\* A read begins: it has the identity and the bytes of the document as it is.
LEMMA OpenReadKeeps ==
    ASSUME Sidecar!IInv, NEW p \in Sidecar!Procs, NEW d \in Docs, Sidecar!OpenRead(p, d),
           p \in Searchers => search[p] # Sidecar!None /\ search[p].db # Sidecar!None,
           UNCHANGED <<file, writes, meta, embedder, build, builds, database, manifest, search, sout>>
    PROVE  Sidecar!IInv'
<1> USE SidecarBounds
<1> DEFINE r == [doc |-> d, before |-> Sidecar!Identity(file[d]), bytes |-> file[d].content]
<1>1. rd' = [rd EXCEPT ![p] = r] /\ rd \in [Sidecar!Procs -> Sidecar!Reads \cup {Sidecar!None}]
  BY DEF Sidecar!OpenRead, Sidecar!IInv, Sidecar!Shapes
<1>2. /\ r \in Sidecar!Reads /\ r.before[1] <= writes /\ r.before[2] <= writes
      /\ r.doc = d /\ r.before = Sidecar!Identity(file[d]) /\ r.bytes = file[d].content
  BY DEF Sidecar!Identity, Sidecar!IInv, Sidecar!TypeOK, Sidecar!Shapes
<1> HIDE DEF r
<1>3. Sidecar!TypeOK' /\ Sidecar!Shapes'
  BY <1>1, <1>2 DEF Sidecar!IInv, Sidecar!TypeOK, Sidecar!Shapes
<1>4. Sidecar!ReadIsOfItsIdentity'
  BY <1>1, <1>2 DEF Sidecar!IInv, Sidecar!ReadIsOfItsIdentity, Sidecar!Stable, Sidecar!Identity
<1>5. Sidecar!VerifiesWhatItHas'
  BY <1>1 DEF Sidecar!IInv, Sidecar!VerifiesWhatItHas
<1> QED BY <1>3, <1>4, <1>5, SidecarFrame DEF Sidecar!IInv

\* A read ends, or none does: what is known of the others stays.
LEMMA EndReadKeeps ==
    ASSUME Sidecar!IInv, NEW p \in Sidecar!Procs, Sidecar!EndRead(p) \/ UNCHANGED rd,
           UNCHANGED <<file, writes>>
    PROVE  /\ rd' \in [Sidecar!Procs -> Sidecar!Reads \cup {Sidecar!None}]
           /\ Sidecar!ReadIsOfItsIdentity' /\ (UNCHANGED search => Sidecar!VerifiesWhatItHas')
<1>1. rd \in [Sidecar!Procs -> Sidecar!Reads \cup {Sidecar!None}]
  BY DEF Sidecar!IInv, Sidecar!Shapes
<1> QED BY <1>1 DEF Sidecar!IInv, Sidecar!EndRead, Sidecar!ReadIsOfItsIdentity, Sidecar!Stable,
                   Sidecar!Identity, Sidecar!VerifiesWhatItHas

\* What a read returns, if the document did not change: what the document says.
LEMMA StableReads ==
    ASSUME Sidecar!IInv, NEW p \in Sidecar!Procs, rd[p] # Sidecar!None, NEW h \in Sidecar!Bytes(p)
    PROVE  /\ rd[p] \in Sidecar!Reads /\ h \in Sidecar!Content
           /\ Sidecar!Stable(p) => h = file[rd[p].doc].content
  BY DEF Sidecar!IInv, Sidecar!Shapes, Sidecar!ReadIsOfItsIdentity, Sidecar!Bytes, Sidecar!Stable

\* A document is recorded in the index.
LEMMA IndexIInv == ASSUME Sidecar!IInv, Sidecar!IndexDone PROVE Sidecar!IInv'
<1> USE SidecarBounds
<1> DEFINE d == rd["indexer"].doc
<1>1. /\ rd["indexer"] # Sidecar!None /\ Sidecar!EndRead("indexer")
      /\ UNCHANGED <<file, writes, embedder, build, builds, database, manifest, search, sout>>
  BY DEF Sidecar!IndexDone
<1>2. PICK h \in Sidecar!Bytes("indexer") :
        meta' = IF Sidecar!Stable("indexer") THEN [meta EXCEPT ![d] = Sidecar!Entry(h, file[d].mtime)] ELSE meta
  BY DEF Sidecar!IndexDone
<1>3. d \in Docs /\ h \in Sidecar!Content
  BY <1>1, StableReads
<1>4. /\ rd' \in [Sidecar!Procs -> Sidecar!Reads \cup {Sidecar!None}] /\ Sidecar!ReadIsOfItsIdentity'
      /\ Sidecar!VerifiesWhatItHas'
  BY <1>1, EndReadKeeps
<1> HIDE DEF d
<1>5. Sidecar!Entry(h, file[d].mtime) \in Sidecar!Entries /\ file[d].mtime <= writes
  BY <1>3 DEF Sidecar!IInv, Sidecar!TypeOK, Sidecar!Shapes, Sidecar!Entry
<1>6. /\ meta' \in [Docs -> Sidecar!Entries \cup {Sidecar!None}]
      /\ \A x \in Docs : meta'[x] # Sidecar!None => meta'[x].mtime <= writes
  BY <1>2, <1>3, <1>5 DEF Sidecar!IInv, Sidecar!TypeOK, Sidecar!Shapes, Sidecar!Entry
<1>7. Sidecar!TypeOK' /\ Sidecar!Shapes'
  BY <1>1, <1>4, <1>6 DEF Sidecar!IInv, Sidecar!TypeOK, Sidecar!Shapes
<1> QED BY <1>1, <1>4, <1>7, SidecarFrame DEF Sidecar!IInv

\* The embedder is upgraded.
LEMMA UpgradeIInv == ASSUME Sidecar!IInv, Sidecar!Upgrade PROVE Sidecar!IInv'
<1> USE SidecarBounds DEF Sidecar!Upgrade
<1>1. Sidecar!TypeOK' /\ Sidecar!Shapes'
  <2>1. embedder' \in 0..MaxEmbedder /\ embedder <= embedder' /\ embedder \in 0..MaxEmbedder
    BY DEF Sidecar!IInv, Sidecar!TypeOK
  <2>2. \A b \in Builders : build[b] # Sidecar!None => build[b].embedder <= embedder'
    BY <2>1 DEF Sidecar!IInv, Sidecar!TypeOK, Sidecar!RowsAreOfTheBuild
  <2> QED BY <2>1, <2>2 DEF Sidecar!IInv, Sidecar!TypeOK, Sidecar!Shapes
<1> QED BY <1>1, SidecarFrame DEF Sidecar!IInv

\* What is known of a build.
BuildOK(k) ==
    /\ Sidecar!IsBuild(k)
    /\ k.pc \in {"read", "embed", "embedding", "publish", "manifest"}
    /\ k.entries \in [Docs -> Sidecar!Entries] /\ k.embedder \in 0..MaxEmbedder /\ k.embedder <= embedder
    /\ DOMAIN k.rows \subseteq Docs /\ (k.pc # "read" => DOMAIN k.rows = Docs)
    /\ k.pc \in {"publish", "manifest"} => k.vectors = {k.embedder}
    /\ \A d \in DOMAIN k.rows : k.rows[d].hash = k.entries[d].hash /\ k.rows[d].text = k.rows[d].hash

\* Every build of a state that satisfies the invariant is such a build.
LEMMA BuildMeans ==
    ASSUME Sidecar!IInv, NEW b \in Builders, build[b] # Sidecar!None
    PROVE  BuildOK(build[b])
  BY DEF Sidecar!IInv, Sidecar!TypeOK, Sidecar!RowsAreDeclared, Sidecar!RowsAreOfTheBuild, BuildOK

\* A build makes a step, or ends; a file that it publishes is what it should be.
LEMMA BuildKeeps ==
    ASSUME Sidecar!IInv, NEW b \in Builders, DOMAIN build' = Builders,
           \A c \in Builders \ {b} : build'[c] = build[c], build'[b] = Sidecar!None \/ BuildOK(build'[b]),
           Sidecar!EndRead(b) \/ UNCHANGED rd, builds' \in 0..MaxBuilds,
           UNCHANGED <<file, writes, meta, embedder, search, sout>>,
           \/ UNCHANGED database
           \/ DOMAIN database'.rows = Docs /\ \A d \in Docs : database'.rows[d].text = database'.rows[d].hash,
           UNCHANGED manifest \/ Sidecar!Describes(manifest')
    PROVE  Sidecar!IInv'
<1>1. /\ rd' \in [Sidecar!Procs -> Sidecar!Reads \cup {Sidecar!None}]
      /\ Sidecar!ReadIsOfItsIdentity' /\ Sidecar!VerifiesWhatItHas'
  BY EndReadKeeps
<1>2. \A c \in Builders : build'[c] # Sidecar!None => BuildOK(build'[c])
  BY BuildMeans
<1>3. Sidecar!TypeOK'
  BY <1>2 DEF Sidecar!IInv, Sidecar!TypeOK, BuildOK
<1>4. Sidecar!Shapes'
  BY <1>1 DEF Sidecar!IInv, Sidecar!Shapes
<1>5. Sidecar!RowsAreDeclared'
  BY <1>2 DEF Sidecar!IInv, Sidecar!RowsAreDeclared, BuildOK
<1>6. Sidecar!RowsAreOfTheBuild'
  BY <1>2 DEF Sidecar!RowsAreOfTheBuild, BuildOK
<1>7. Sidecar!ManifestsDescribe'
  BY DEF Sidecar!IInv, Sidecar!ManifestsDescribe, Sidecar!Describes
<1> QED BY <1>1, <1>3, <1>4, <1>5, <1>6, <1>7 DEF Sidecar!IInv

\* A build begins with the entries of the index as they are.
LEMMA BuildStartIInv == ASSUME Sidecar!IInv, NEW b \in Builders, Sidecar!Start(b) PROVE Sidecar!IInv'
<1> USE SidecarBounds
<1> USE DEF Sidecar!IsBuild
<1> DEFINE k == [pc |-> "read", entries |-> meta, embedder |-> embedder, rows |-> Sidecar!NoRows, vectors |-> {}]
<1>1. /\ build' = [build EXCEPT ![b] = k] /\ builds' = builds + 1 /\ builds < MaxBuilds
      /\ \A d \in Docs : meta[d] # Sidecar!None
      /\ UNCHANGED <<file, writes, rd, meta, embedder, database, manifest, search, sout>>
  BY DEF Sidecar!Start
<1>2. BuildOK(k)
  <2>1. meta \in [Docs -> Sidecar!Entries] /\ embedder \in 0..MaxEmbedder
    BY <1>1 DEF Sidecar!IInv, Sidecar!Shapes, Sidecar!TypeOK
  <2>2. DOMAIN k.rows = {}
    BY DEF Sidecar!NoRows
  <2> QED BY <2>1, <2>2 DEF BuildOK
<1> HIDE DEF k
<1>3. DOMAIN build = Builders /\ builds' \in 0..MaxBuilds
  BY <1>1 DEF Sidecar!IInv, Sidecar!Shapes, Sidecar!TypeOK
<1> QED BY <1>1, <1>2, <1>3, BuildKeeps

\* A build fails, or its process dies.
LEMMA BuildEndIInv ==
    ASSUME Sidecar!IInv, NEW b \in Builders, Sidecar!Fail(b),
           UNCHANGED <<file, writes, meta, embedder, builds, database, search, sout>>,
           UNCHANGED manifest \/ Sidecar!Describes(manifest')
    PROVE  Sidecar!IInv'
<1>1. DOMAIN build = Builders /\ builds' \in 0..MaxBuilds
  BY DEF Sidecar!IInv, Sidecar!Shapes, Sidecar!TypeOK
<1> QED BY <1>1, BuildKeeps DEF Sidecar!Fail

\* A document is read for the build: its row is what the index declared.
LEMMA DocIInv == ASSUME Sidecar!IInv, NEW b \in Builders, Sidecar!DocDone(b) PROVE Sidecar!IInv'
<1> DEFINE d == rd[b].doc
           e == build[b].entries[d]
           k == [build[b] EXCEPT !.rows = Sidecar!With(build[b].rows, d, Sidecar!Row(e, e.hash)),
                                 !.pc = IF DOMAIN build[b].rows \cup {d} = Docs THEN "embed" ELSE "read"]
<1>1. /\ build[b] # Sidecar!None /\ build[b].pc = "read" /\ rd[b] # Sidecar!None
      /\ UNCHANGED <<file, writes, meta, embedder, builds, database, manifest, search, sout>>
      /\ DOMAIN build = Builders /\ builds' \in 0..MaxBuilds
  BY DEF Sidecar!DocDone, Sidecar!IInv, Sidecar!Shapes, Sidecar!TypeOK
<1>2. PICK h \in Sidecar!Bytes(b) :
        IF Sidecar!Stable(b) /\ Sidecar!AsDeclared(e, h, file[d].mtime)
        THEN /\ build' = [build EXCEPT
                   ![b].rows = Sidecar!With(@, d, Sidecar!Row(e, h)),
                   ![b].pc = IF DOMAIN build[b].rows \cup {d} = Docs THEN "embed" ELSE "read"]
             /\ Sidecar!EndRead(b)
        ELSE Sidecar!Fail(b)
  BY DEF Sidecar!DocDone
<1>3. BuildOK(build[b]) /\ d \in Docs
  BY <1>1, BuildMeans DEF Sidecar!IInv, Sidecar!Shapes
<1>4. CASE Sidecar!Stable(b) /\ Sidecar!AsDeclared(e, h, file[d].mtime)
  <2>1. /\ build' = [build EXCEPT
                  ![b].rows = Sidecar!With(@, d, Sidecar!Row(e, e.hash)),
                  ![b].pc = IF DOMAIN build[b].rows \cup {d} = Docs THEN "embed" ELSE "read"]
        /\ Sidecar!EndRead(b)
    BY <1>2, <1>4 DEF Sidecar!AsDeclared
  <2>2. build'[b] = k /\ DOMAIN build' = Builders /\ \A c \in Builders \ {b} : build'[c] = build[c]
    BY <1>1, <2>1
  <2>3. /\ DOMAIN Sidecar!With(build[b].rows, d, Sidecar!Row(e, e.hash)) = DOMAIN build[b].rows \cup {d}
        /\ \A x \in DOMAIN build[b].rows \cup {d} :
             Sidecar!With(build[b].rows, d, Sidecar!Row(e, e.hash))[x]
               = IF x = d THEN Sidecar!Row(e, e.hash) ELSE build[b].rows[x]
    BY DEF Sidecar!With
  <2>4. Sidecar!Row(e, e.hash).hash = e.hash /\ Sidecar!Row(e, e.hash).text = e.hash
    BY DEF Sidecar!Row
  <2>5. /\ k.rows = Sidecar!With(build[b].rows, d, Sidecar!Row(e, e.hash))
        /\ k.pc = IF DOMAIN build[b].rows \cup {d} = Docs THEN "embed" ELSE "read"
        /\ k.entries = build[b].entries /\ k.embedder = build[b].embedder /\ k.vectors = build[b].vectors
        /\ Sidecar!IsBuild(k)
    BY <1>3 DEF BuildOK, Sidecar!IsBuild
  <2> HIDE DEF k
  <2>6. BuildOK(k)
    <3>1. ASSUME NEW x \in DOMAIN k.rows
          PROVE  k.rows[x].hash = k.entries[x].hash /\ k.rows[x].text = k.rows[x].hash
      <4>1. CASE x = d
        BY <2>3, <2>4, <2>5, <4>1
      <4>2. CASE x # d
        <5>1. x \in DOMAIN build[b].rows /\ k.rows[x] = build[b].rows[x]
          BY <2>3, <2>5, <4>2
        <5>2. build[b].rows[x].hash = build[b].entries[x].hash /\ build[b].rows[x].text = build[b].rows[x].hash
          BY <1>3, <5>1 DEF BuildOK
        <5> QED BY <2>5, <5>1, <5>2
      <4> QED BY <4>1, <4>2
    <3>2. /\ k.pc \in {"read", "embed"} /\ DOMAIN k.rows \subseteq Docs
          /\ k.pc # "read" => DOMAIN k.rows = Docs
      BY <1>3, <2>3, <2>5 DEF BuildOK
    <3> QED BY <1>3, <2>5, <3>1, <3>2 DEF BuildOK
  <2> QED BY <1>1, <2>1, <2>2, <2>6, BuildKeeps
<1>5. CASE ~(Sidecar!Stable(b) /\ Sidecar!AsDeclared(e, h, file[d].mtime))
  BY <1>1, <1>2, <1>5, BuildEndIInv
<1> QED BY <1>4, <1>5

\* The vectors are made by the embedder that the build began with.
LEMMA EmbedIInv ==
    ASSUME Sidecar!IInv, NEW b \in Builders, Sidecar!EmbedCall(b) \/ Sidecar!EmbedDone(b)
    PROVE  Sidecar!IInv'
<1>1. /\ build[b] # Sidecar!None /\ build[b].pc \in {"embed", "embedding"}
      /\ UNCHANGED <<file, writes, meta, embedder, builds, database, manifest, search, sout>>
      /\ DOMAIN build = Builders /\ builds' \in 0..MaxBuilds
  BY DEF Sidecar!EmbedCall, Sidecar!EmbedDone, Sidecar!IInv, Sidecar!Shapes, Sidecar!TypeOK
<1>2. BuildOK(build[b])
  BY <1>1, BuildMeans
<1>3. CASE ~Sidecar!SameEmbedder(b)
  BY <1>1, <1>3, BuildEndIInv DEF Sidecar!EmbedCall, Sidecar!EmbedDone
<1>4. CASE Sidecar!SameEmbedder(b)
  <2>1. /\ UNCHANGED rd
        /\ \/ build' = [build EXCEPT ![b].pc = "embedding"]
           \/ build' = [build EXCEPT ![b].pc = "publish", ![b].vectors = {embedder}]
    BY <1>4 DEF Sidecar!EmbedCall, Sidecar!EmbedDone
  <2>2. /\ DOMAIN build' = Builders /\ \A c \in Builders \ {b} : build'[c] = build[c]
        /\ build'[b].entries = build[b].entries /\ build'[b].embedder = build[b].embedder
        /\ build'[b].rows = build[b].rows
        /\ Sidecar!IsBuild(build'[b])
        /\ \/ build'[b].pc = "embedding" /\ build'[b].vectors = build[b].vectors
           \/ build'[b].pc = "publish" /\ build'[b].vectors = {embedder}
    <3>1. Sidecar!IsBuild(build[b])
      BY <1>2 DEF BuildOK
    <3>2. CASE build' = [build EXCEPT ![b].pc = "embedding"]
      BY <1>1, <3>1, <3>2 DEF Sidecar!IsBuild
    <3>3. CASE build' = [build EXCEPT ![b].pc = "publish", ![b].vectors = {embedder}]
      BY <1>1, <3>1, <3>3 DEF Sidecar!IsBuild
    <3> QED BY <2>1, <3>2, <3>3
  <2>3. BuildOK(build'[b])
    BY <1>1, <1>2, <1>4, <2>2 DEF BuildOK, Sidecar!SameEmbedder
  <2> QED BY <1>1, <2>1, <2>2, <2>3, BuildKeeps
<1> QED BY <1>3, <1>4

\* The two files are published, or the process dies before one of them.
LEMMA PublishIInv ==
    ASSUME Sidecar!IInv, NEW b \in Builders,
           Sidecar!Publish(b) \/ Sidecar!PublishManifest(b) \/ Sidecar!Crash(b)
    PROVE  Sidecar!IInv'
<1>1. /\ build[b] # Sidecar!None
      /\ UNCHANGED <<file, writes, meta, embedder, builds, search, sout>>
      /\ DOMAIN build = Builders /\ builds' \in 0..MaxBuilds
  BY DEF Sidecar!Publish, Sidecar!PublishManifest, Sidecar!Crash, Sidecar!IInv, Sidecar!Shapes, Sidecar!TypeOK
<1>2. BuildOK(build[b])
  BY <1>1, BuildMeans
<1>3. Sidecar!Db(b).rows = build[b].rows /\ Sidecar!Db(b).vectors = build[b].vectors
  BY DEF Sidecar!Db
<1>4. CASE Sidecar!Crash(b)
  BY <1>1, <1>4, BuildEndIInv DEF Sidecar!Crash
<1>5. CASE Sidecar!PublishManifest(b)
  <2> DEFINE m == [index |-> Sidecar!Db(b), embedder |-> build[b].embedder,
                   hashes |-> [d \in Docs |-> build[b].entries[d].hash]]
  <2>1. Sidecar!Fail(b) /\ UNCHANGED database /\ build[b].pc = "manifest" /\ (UNCHANGED manifest \/ manifest' = m)
    BY <1>5 DEF Sidecar!PublishManifest
  <2>2. Sidecar!Describes(m)
    BY <1>2, <1>3, <2>1 DEF Sidecar!Describes, BuildOK
  <2> HIDE DEF m
  <2> QED BY <1>1, <2>1, <2>2, BuildEndIInv
<1>6. CASE Sidecar!Publish(b)
  <2>1. UNCHANGED manifest /\ build[b].pc = "publish"
    BY <1>6 DEF Sidecar!Publish
  <2>2. CASE Sidecar!SameEmbedder(b)
    <3>1. database' = Sidecar!Db(b) /\ build' = [build EXCEPT ![b].pc = "manifest"] /\ UNCHANGED rd
      BY <1>6, <2>2 DEF Sidecar!Publish
    <3>2. DOMAIN database'.rows = Docs /\ \A d \in Docs : database'.rows[d].text = database'.rows[d].hash
      BY <1>2, <1>3, <2>1, <3>1 DEF BuildOK
    <3>3. BuildOK(build'[b]) /\ DOMAIN build' = Builders /\ \A c \in Builders \ {b} : build'[c] = build[c]
      BY <1>1, <1>2, <2>1, <3>1 DEF BuildOK, Sidecar!IsBuild
    <3> QED BY <1>1, <2>1, <3>1, <3>2, <3>3, BuildKeeps
  <2>3. CASE ~Sidecar!SameEmbedder(b)
    BY <1>1, <1>6, <2>1, <2>3, BuildEndIInv DEF Sidecar!Publish
  <2> QED BY <2>2, <2>3
<1> QED BY <1>4, <1>5, <1>6

\* A query reads the manifest, then a database that is the one it names.
LEMMA SearchIInv ==
    ASSUME Sidecar!IInv, NEW s \in Searchers,
           Sidecar!SearchManifest(s) \/ Sidecar!SearchDatabase(s) \/ Sidecar!SearchEnd(s)
    PROVE  Sidecar!IInv'
<1>1. UNCHANGED <<file, writes, rd, meta, embedder, build, builds, database, manifest>>
  BY DEF Sidecar!SearchManifest, Sidecar!SearchDatabase, Sidecar!SearchEnd
<1>2. DOMAIN search = Searchers /\ DOMAIN sout = Searchers /\ DOMAIN search' = Searchers /\ DOMAIN sout' = Searchers
  BY DEF Sidecar!SearchManifest, Sidecar!SearchDatabase, Sidecar!SearchEnd, Sidecar!IInv, Sidecar!Shapes
<1>3. Sidecar!TypeOK' /\ Sidecar!Shapes'
  BY <1>1, <1>2 DEF Sidecar!IInv, Sidecar!TypeOK, Sidecar!Shapes
<1>4. /\ \A t \in Searchers \ {s} : search'[t] = search[t]
      /\ \/ search'[s] = Sidecar!None
         \/ /\ search'[s].manifest = manifest /\ manifest # Sidecar!None /\ search'[s].db = Sidecar!None
            /\ Sidecar!IsQuery(search'[s])
         \/ /\ search[s] # Sidecar!None /\ Sidecar!IsQuery(search'[s]) /\ search'[s].manifest = search[s].manifest
            /\ search'[s].db = search'[s].manifest.index
  <2>1. CASE Sidecar!SearchManifest(s)
    BY <1>2, <2>1 DEF Sidecar!SearchManifest, Sidecar!IsQuery
  <2>2. CASE Sidecar!SearchDatabase(s)
    <3>1. search[s] # Sidecar!None /\ Sidecar!IsQuery(search[s])
      BY <2>2 DEF Sidecar!SearchDatabase, Sidecar!IInv, Sidecar!ManifestsDescribe
    <3> QED BY <1>2, <2>2, <3>1 DEF Sidecar!SearchDatabase, Sidecar!Accept, Sidecar!IsQuery
  <2>3. CASE Sidecar!SearchEnd(s)
    BY <1>2, <2>3 DEF Sidecar!SearchEnd
  <2> QED BY <2>1, <2>2, <2>3
<1>5. Sidecar!ManifestsDescribe'
  BY <1>1, <1>4 DEF Sidecar!IInv, Sidecar!ManifestsDescribe, Sidecar!Describes
<1>6. rd[s] = Sidecar!None
  BY DEF Sidecar!SearchManifest, Sidecar!SearchDatabase, Sidecar!SearchEnd, Sidecar!IInv,
         Sidecar!VerifiesWhatItHas
<1>7. Sidecar!VerifiesWhatItHas'
  BY <1>1, <1>4, <1>6 DEF Sidecar!IInv, Sidecar!VerifiesWhatItHas
<1> QED BY <1>1, <1>3, <1>5, <1>7, SidecarFrame DEF Sidecar!IInv

\* A document is read again before it is quoted.
LEMMA QuoteIInv == ASSUME Sidecar!IInv, NEW s \in Searchers, Sidecar!Quote(s) PROVE Sidecar!IInv'
<1>1. /\ UNCHANGED <<file, writes, meta, embedder, build, builds, database, manifest>>
      /\ Sidecar!EndRead(s) /\ search[s] # Sidecar!None
      /\ \/ \E x : search' = [search EXCEPT ![s].verified = x] 
         \/ search' = [search EXCEPT ![s] = Sidecar!None]
      /\ DOMAIN sout' = DOMAIN sout
  BY DEF Sidecar!Quote
<1>2. rd' \in [Sidecar!Procs -> Sidecar!Reads \cup {Sidecar!None}] /\ Sidecar!ReadIsOfItsIdentity'
  BY <1>1, EndReadKeeps
<1>3. DOMAIN search = Searchers /\ DOMAIN search' = Searchers /\ DOMAIN sout' = Searchers
  BY <1>1 DEF Sidecar!IInv, Sidecar!Shapes
<1>4. Sidecar!TypeOK' /\ Sidecar!Shapes'
  BY <1>1, <1>2, <1>3 DEF Sidecar!IInv, Sidecar!TypeOK, Sidecar!Shapes
<1>5. /\ \A t \in Searchers \ {s} : search'[t] = search[t] /\ rd'[t] = rd[t]
      /\ rd'[s] = Sidecar!None
      /\ \/ search'[s] = Sidecar!None
         \/ /\ search'[s].manifest = search[s].manifest /\ search'[s].db = search[s].db
            /\ Sidecar!IsQuery(search'[s])
  <2>1. \A t \in Searchers \ {s} : search'[t] = search[t] /\ rd'[t] = rd[t]
    BY <1>1, <1>3 DEF Sidecar!EndRead, Sidecar!IInv, Sidecar!Shapes
  <2>2. rd'[s] = Sidecar!None
    BY <1>1 DEF Sidecar!EndRead, Sidecar!IInv, Sidecar!Shapes
  <2>3. \/ search'[s] = Sidecar!None
        \/ /\ search'[s].manifest = search[s].manifest /\ search'[s].db = search[s].db
           /\ Sidecar!IsQuery(search'[s])
    <3>1. ASSUME NEW x, search' = [search EXCEPT ![s].verified = x]
          PROVE  /\ search'[s].manifest = search[s].manifest /\ search'[s].db = search[s].db
                 /\ Sidecar!IsQuery(search'[s])
      <4>1. Sidecar!IsQuery(search[s])
        BY <1>1 DEF Sidecar!IInv, Sidecar!ManifestsDescribe
      <4> QED BY <1>3, <3>1, <4>1 DEF Sidecar!IsQuery
    <3> QED BY <1>1, <1>3, <3>1
  <2> QED BY <2>1, <2>2, <2>3
<1>6. Sidecar!ManifestsDescribe'
  BY <1>1, <1>5 DEF Sidecar!IInv, Sidecar!ManifestsDescribe, Sidecar!Describes
<1>7. Sidecar!VerifiesWhatItHas'
  BY <1>5 DEF Sidecar!IInv, Sidecar!VerifiesWhatItHas
<1> QED BY <1>1, <1>2, <1>4, <1>6, <1>7, SidecarFrame DEF Sidecar!IInv

\* Every step keeps the invariant.
LEMMA SidecarStep == Sidecar!IInv /\ [Sidecar!Next]_(Sidecar!vars) => Sidecar!IInv'
<1> SUFFICES ASSUME Sidecar!IInv, [Sidecar!Next]_(Sidecar!vars) PROVE Sidecar!IInv'
  OBVIOUS
<1>1. CASE UNCHANGED Sidecar!vars
  <2>1. Sidecar!TypeOK' /\ Sidecar!Shapes'
    BY <1>1 DEF Sidecar!vars, Sidecar!IInv, Sidecar!TypeOK, Sidecar!Shapes
  <2> QED BY <1>1, <2>1, SidecarFrame DEF Sidecar!vars, Sidecar!IInv
<1>2. ASSUME NEW d \in Docs, NEW p \in Sidecar!Procs,
             \/ Sidecar!IndexOpen(d) /\ p = "indexer"
             \/ Sidecar!DocOpen(p, d) /\ p \in Builders
             \/ Sidecar!VerifyOpen(p, d) /\ p \in Searchers
      PROVE  Sidecar!IInv'
  BY <1>2, OpenReadKeeps, SidecarBounds DEF Sidecar!IndexOpen, Sidecar!DocOpen, Sidecar!VerifyOpen
<1>3. ASSUME NEW b \in Builders,
             \/ Sidecar!Start(b) \/ Sidecar!DocDone(b) \/ Sidecar!EmbedCall(b) \/ Sidecar!EmbedDone(b)
             \/ Sidecar!Publish(b) \/ Sidecar!PublishManifest(b) \/ Sidecar!Crash(b)
      PROVE  Sidecar!IInv'
  BY <1>3, BuildStartIInv, DocIInv, EmbedIInv, PublishIInv
<1>4. ASSUME NEW s \in Searchers,
             Sidecar!SearchManifest(s) \/ Sidecar!SearchDatabase(s) \/ Sidecar!Quote(s) \/ Sidecar!SearchEnd(s)
      PROVE  Sidecar!IInv'
  BY <1>4, SearchIInv, QuoteIInv
<1>5. CASE Sidecar!Next
  <2>1. CASE \E d \in Docs : Sidecar!Edit(d) \/ Sidecar!Replace(d)
    BY <2>1, WriteIInv
  <2>2. CASE Sidecar!IndexDone \/ Sidecar!Upgrade
    BY <2>2, IndexIInv, UpgradeIInv
  <2> QED BY <1>2, <1>3, <1>4, <1>5, <2>1, <2>2 DEF Sidecar!Next
<1> QED BY <1>1, <1>5

\* An excerpt is what its document says when it is quoted.
LEMMA QuotedIsThere ==
    ASSUME Sidecar!IInv, [Sidecar!Next]_(Sidecar!vars), NEW s \in Searchers,
           sout'[s] # Sidecar!None, sout'[s] # sout[s]
    PROVE  sout'[s].text = file[sout'[s].doc].content
<1>1. \/ Sidecar!Quote(s)
      \/ \E t \in Searchers \ {s} : Sidecar!Quote(t)
      \/ \E t \in Searchers : Sidecar!SearchEnd(t)
  BY DEF Sidecar!Next, Sidecar!vars, Sidecar!Edit, Sidecar!Replace, Sidecar!Upgrade, Sidecar!IndexOpen,
     Sidecar!IndexDone, Sidecar!Start, Sidecar!DocOpen, Sidecar!DocDone, Sidecar!EmbedCall,
     Sidecar!EmbedDone, Sidecar!Publish, Sidecar!PublishManifest, Sidecar!Crash,
     Sidecar!SearchManifest, Sidecar!SearchDatabase, Sidecar!VerifyOpen
<1>2. Sidecar!Quote(s)
  BY <1>1 DEF Sidecar!Quote, Sidecar!SearchEnd, Sidecar!IInv, Sidecar!Shapes
<1> DEFINE d == rd[s].doc
           row == search[s].db.rows[d]
<1>3. PICK h \in Sidecar!Bytes(s) :
        /\ Sidecar!Stable(s) /\ Sidecar!VerifiedRow(search[s].manifest, row, d, h, file[d].mtime)
        /\ sout' = [sout EXCEPT ![s] = [doc |-> d, text |-> row.text]]
  BY <1>2 DEF Sidecar!Quote
<1>4. rd[s] # Sidecar!None /\ search[s] # Sidecar!None
  BY <1>2 DEF Sidecar!Quote
<1>5. d \in Docs /\ h = file[d].content /\ h = row.hash
  BY <1>3, <1>4, StableReads DEF Sidecar!VerifiedRow, Sidecar!AsDeclared
<1>6. search[s].db # Sidecar!None
  BY <1>4 DEF Sidecar!IInv, Sidecar!VerifiesWhatItHas
<1>7. row.text = row.hash
  BY <1>4, <1>5, <1>6 DEF Sidecar!IInv, Sidecar!ManifestsDescribe, Sidecar!Describes
<1> QED BY <1>3, <1>5, <1>7 DEF Sidecar!IInv, Sidecar!Shapes

(***************************************************************************)
(* The invariant of the documents' index holds in every behaviour.          *)
(***************************************************************************)
THEOREM SidecarInvariant == MCSpec => []Sidecar!IInv
<1>1. MCInit => Sidecar!IInv
  BY SidecarInit DEF MCInit
<1>2. Sidecar!IInv /\ [MCNext]_<<part, vars, avars, pvars, svars>> => Sidecar!IInv'
  <2> SUFFICES ASSUME Sidecar!IInv, [MCNext]_<<part, vars, avars, pvars, svars>>
               PROVE  [Sidecar!Next]_(Sidecar!vars)
    BY SidecarStep
  <2> QED BY DEF MCNext, svars, Sidecar!vars
<1> QED BY <1>1, <1>2, PTL DEF MCSpec

\* The properties that speak of one state.
LEMMA SidecarHolds ==
    ASSUME Sidecar!IInv
    PROVE  /\ Sidecar!TypeOK /\ Sidecar!RowsAreDeclared /\ Sidecar!VectorsAreDeclared
           /\ Sidecar!OneBuildPerQuery
  BY DEF Sidecar!IInv, Sidecar!VectorsAreDeclared, Sidecar!OneBuildPerQuery, Sidecar!ManifestsDescribe,
         Sidecar!Describes

(***************************************************************************)
(* An excerpt is what its document says when it is quoted, rows and vectors *)
(* are of what the manifest declares, and a query reads one build           *)
(* (LocalKnowledgeSidecar.build and search).                                *)
(***************************************************************************)
THEOREM ExcerptsAreOfTheDocument == MCSpec => QuotesTheDocument
<1>1. Sidecar!IInv /\ [MCNext]_<<part, vars, avars, pvars, svars>> =>
        [\A s \in Searchers : sout'[s] # Sidecar!None /\ sout'[s] # sout[s]
                               => sout'[s].text = file[sout'[s].doc].content]_(Sidecar!vars)
  <2> SUFFICES ASSUME Sidecar!IInv, [MCNext]_<<part, vars, avars, pvars, svars>>
               PROVE  [Sidecar!Next]_(Sidecar!vars)
    BY QuotedIsThere
  <2> QED BY DEF MCNext, svars, Sidecar!vars
<1>2. Sidecar!IInv => /\ Sidecar!TypeOK /\ Sidecar!RowsAreDeclared /\ Sidecar!VectorsAreDeclared
                      /\ Sidecar!OneBuildPerQuery
  BY SidecarHolds
<1> QED BY <1>1, <1>2, SidecarInvariant, PTL DEF MCSpec, QuotesTheDocument, Sidecar!QuotesTheDocument

-------------------------------------------------------------------------------
(* Knowledge packs.                                                           *)

\* What is assumed of releases and rows.
LEMMA PacksAssumed == Packs!PacksOK
BY KnowledgeAssumption

(* What the rows of a pack still say of it after any edits.                    *)
LEMMA VersionMeans ==
    ASSUME NEW s \in Packs!AllPacks, NEW v \in Packs!Versions(s)
    PROVE  /\ v # Packs!NoRow /\ v.pack = s.id /\ v.rules = DOMAIN s.rules /\ v.bindings \subseteq Bindings
           /\ v.status = s.status /\ v.ready \in BOOLEAN
           /\ v.activation = <<s.rules, s.bindings, Packs!CoverageOf(s)>>
<1>1. s.id # "none"
  BY PacksAssumed DEF Packs!PacksOK
<1>2. /\ v.pack = s.id /\ v.rules = DOMAIN s.rules /\ v.bindings \subseteq Bindings
      /\ v.status = s.status /\ v.ready \in BOOLEAN /\ v.activation = Packs!Inventory(s).activation
  BY DEF Packs!Versions
<1>3. v # Packs!NoRow
  BY <1>1, <1>2 DEF Packs!NoRow
<1>4. Packs!Inventory(s).activation = <<s.rules, s.bindings, Packs!CoverageOf(s)>>
  BY DEF Packs!Inventory
<1> QED BY <1>2, <1>3, <1>4

\* An edit of an inventory gives another version of it, and so is what was installed.
LEMMA VersionsAreEdited ==
    ASSUME NEW s \in Packs!AllPacks
    PROVE  /\ Packs!Inventory(s) \in Packs!Versions(s)
           /\ \A v \in Packs!Versions(s) : /\ [v EXCEPT !.ready = TRUE] \in Packs!Versions(s)
                                           /\ \A bs \in SUBSET Bindings :
                                                [v EXCEPT !.bindings = bs] \in Packs!Versions(s)
<1>1. DOMAIN s.bindings \subseteq Bindings
  BY PacksAssumed DEF Packs!PacksOK
<1>2. Packs!PackReady(s) \in BOOLEAN
  BY PacksAssumed, Zenon DEF Packs!PackReady, Packs!PacksOK
<1>3. Packs!Inventory(s) \in Packs!Versions(s)
  BY <1>1, <1>2 DEF Packs!Versions, Packs!Inventory
<1>4. ASSUME NEW v \in Packs!Versions(s)
      PROVE  /\ [v EXCEPT !.ready = TRUE] \in Packs!Versions(s)
             /\ \A bs \in SUBSET Bindings : [v EXCEPT !.bindings = bs] \in Packs!Versions(s)
  BY DEF Packs!Versions
<1> QED BY <1>3, <1>4

\* An empty ledger that no retrieval has read.
LEMMA PacksInit == Packs!Init => Packs!IInv
<1> SUFFICES ASSUME Packs!Init PROVE Packs!IInv
  OBVIOUS
<1> USE PacksAssumed DEF Packs!Init
<1>1. Packs!Shapes
  BY DEF Packs!Shapes, Packs!Procs
<1>2. \A k \in PackIds : packRow[k] = Packs!NoRow /\ seen.packs[k] = Packs!NoRow
  OBVIOUS
<1>3. Packs!OfShipped(packRow) /\ Packs!OfShipped(seen.packs)
  BY <1>2 DEF Packs!OfShipped
<1>4. Packs!ShippedIsAccepted /\ Packs!RowsAreKept /\ Packs!CoverageIsShipped /\ Packs!EarlyIsSeen
  BY DEF Packs!ShippedIsAccepted, Packs!RowsAreKept, Packs!CoverageIsShipped, Packs!EarlyIsSeen
<1>5. Packs!NothingServedYet
  BY DEF Packs!NothingServedYet, Packs!At
<1>6. Packs!ServedWasReviewed /\ Packs!ServedIsWhole /\ Packs!InstalledIsServed
  BY DEF Packs!ServedWasReviewed, Packs!ServedIsWhole, Packs!InstalledIsServed
<1>7. Packs!NoBindingUnreviewed
  BY DEF Packs!NoBindingUnreviewed
<1> QED BY <1>1, <1>3, <1>4, <1>5, <1>6, <1>7 DEF Packs!IInv

(* What was read and served stays as it was when others install or edit.        *)
LEMMA ReadingKeeps ==
    ASSUME Packs!IInv, UNCHANGED <<reader, seen, served, early>>,
           shipped \subseteq shipped', touched \subseteq touched'
    PROVE  /\ Packs!OfShipped(seen.packs)' /\ Packs!EarlyIsSeen' /\ Packs!NothingServedYet'
           /\ Packs!ServedWasReviewed' /\ Packs!ServedIsWhole' /\ Packs!InstalledIsServed'
<1> USE DEF Packs!IInv
<1>1. Packs!OfShipped(seen.packs)'
  BY DEF Packs!OfShipped
<1>2. Packs!EarlyIsSeen'
  BY DEF Packs!EarlyIsSeen
<1>3. Packs!NothingServedYet'
  BY DEF Packs!NothingServedYet
<1>4. \A k : Packs!Reviewed(k) => Packs!Reviewed(k)'
  BY DEF Packs!Reviewed
<1>5. Packs!ServedWasReviewed'
  BY <1>4 DEF Packs!ServedWasReviewed
<1>6. Packs!ServedIsWhole'
  BY DEF Packs!ServedIsWhole
<1>7. Packs!InstalledIsServed'
  BY DEF Packs!InstalledIsServed
<1> QED BY <1>1, <1>2, <1>3, <1>5, <1>6, <1>7

(* What is installed stays as it was while others read.                          *)
LEMMA LedgerKeeps ==
    ASSUME Packs!IInv, UNCHANGED <<ruleRow, bindingRow, packRow, coverage, shipped, touched>>
    PROVE  /\ Packs!ShippedIsAccepted' /\ Packs!OfShipped(packRow)' /\ Packs!RowsAreKept'
           /\ Packs!CoverageIsShipped' /\ Packs!NoBindingUnreviewed'
<1> USE DEF Packs!IInv
<1>1. Packs!ShippedIsAccepted' /\ Packs!OfShipped(packRow)'
  BY DEF Packs!ShippedIsAccepted, Packs!OfShipped
<1>2. Packs!RowsAreKept' /\ Packs!CoverageIsShipped'
  BY DEF Packs!RowsAreKept, Packs!CoverageIsShipped
<1>3. Packs!NoBindingUnreviewed'
  BY DEF Packs!NoBindingUnreviewed
<1> QED BY <1>1, <1>2, <1>3

(* The next pack of a release, as its process is to install it.                  *)
LEMMA NextPack ==
    ASSUME Packs!IInv, NEW p \in Packs!Procs, todo[p] # << >>
    PROVE  /\ Head(todo[p]) \in Packs!AllPacks
           /\ [todo EXCEPT ![p] = Tail(@)] \in [Packs!Procs -> Seq(Packs!AllPacks)]
<1>1. todo \in [Packs!Procs -> Seq(Packs!AllPacks)] /\ todo[p] \in Seq(Packs!AllPacks)
  BY DEF Packs!IInv, Packs!Shapes
<1>2. Head(todo[p]) \in Packs!AllPacks /\ Tail(todo[p]) \in Seq(Packs!AllPacks)
  BY <1>1
<1> QED BY <1>1, <1>2

\* A pack that is new to the ledger.
LEMMA NewPackIInv ==
    ASSUME Packs!IInv, NEW k \in Packs!AllPacks, Packs!StoreAccepts(k), packRow[k.id] = Packs!NoRow,
           Packs!Immutable(k), todo' \in [Packs!Procs -> Seq(Packs!AllPacks)],
           UNCHANGED <<reader, seen, served, early, touched, edits, broken>>,
           ruleRow' = [r \in Rules |-> IF r \in DOMAIN k.rules THEN k.rules[r] ELSE ruleRow[r]],
           bindingRow' = [b \in Bindings |-> IF b \in DOMAIN k.bindings THEN k.bindings[b] ELSE bindingRow[b]],
           packRow' = [packRow EXCEPT ![k.id] = Packs!Inventory(k)],
           coverage' = IF k.covered THEN coverage \cup {Packs!CoverageOf(k)} ELSE coverage,
           shipped' = shipped \cup {k}
    PROVE  Packs!IInv'
<1> USE DEF Packs!IInv
<1>0. /\ k.id \in PackIds /\ DOMAIN k.rules \subseteq Rules /\ DOMAIN k.bindings \subseteq Bindings
      /\ \A r \in DOMAIN k.rules : k.rules[r] # Packs!NoText
  BY PacksAssumed DEF Packs!PacksOK
<1>1. Packs!Shapes'
  BY DEF Packs!Shapes
<1>2. Packs!Inventory(k) \in Packs!Versions(k) /\ Packs!Inventory(k) # Packs!NoRow
  BY VersionsAreEdited, VersionMeans
<1>3. \A i \in PackIds : packRow'[i] = IF i = k.id THEN Packs!Inventory(k) ELSE packRow[i]
  BY <1>0 DEF Packs!Shapes
<1>4. \A s \in shipped : s \in Packs!AllPacks /\ s.id \in PackIds /\ s.id # k.id
  BY PacksAssumed DEF Packs!ShippedIsAccepted, Packs!PacksOK
<1>5. Packs!ShippedIsAccepted'
  BY <1>0, <1>2, <1>3, <1>4 DEF Packs!ShippedIsAccepted
<1>6. Packs!OfShipped(packRow)'
  BY <1>2, <1>3 DEF Packs!OfShipped
<1>7. Packs!RowsAreKept'
  <2> SUFFICES ASSUME NEW s \in shipped'
               PROVE  /\ \A r \in DOMAIN s.rules : /\ ruleRow'[r] # Packs!NoText
                                                   /\ "rules" \notin touched => ruleRow'[r] = s.rules[r]
                      /\ "bindings" \notin touched => \A b \in DOMAIN s.bindings : bindingRow'[b] = s.bindings[b]
                      /\ s.covered /\ "coverage" \notin touched => Packs!CoverageOf(s) \in coverage'
    BY DEF Packs!RowsAreKept
  <2>1. DOMAIN s.rules \subseteq Rules /\ DOMAIN s.bindings \subseteq Bindings
    BY <1>0, <1>4, PacksAssumed DEF Packs!PacksOK
  <2>2. CASE s = k
    BY <1>0, <2>2
  <2>3. CASE s \in shipped
    <3>1. \A r \in DOMAIN s.rules : /\ ruleRow[r] # Packs!NoText
                                    /\ "rules" \notin touched => ruleRow[r] = s.rules[r]
      BY <2>3 DEF Packs!RowsAreKept
    <3>2. "bindings" \notin touched => \A b \in DOMAIN s.bindings : bindingRow[b] = s.bindings[b]
      BY <2>3 DEF Packs!RowsAreKept
    <3>3. \A b \in DOMAIN s.bindings : s.bindings[b] # Packs!NoBinding
      BY <1>4, <2>3, PacksAssumed DEF Packs!PacksOK
    <3>4. \A r \in DOMAIN s.rules : ruleRow'[r] = ruleRow[r]
      BY <1>0, <2>1, <3>1 DEF Packs!Immutable
    <3>5. "bindings" \notin touched => \A b \in DOMAIN s.bindings : bindingRow'[b] = bindingRow[b]
      BY <1>0, <2>1, <3>2, <3>3 DEF Packs!Immutable
    <3>6. s.covered /\ "coverage" \notin touched => Packs!CoverageOf(s) \in coverage
      BY <2>3 DEF Packs!RowsAreKept
    <3> QED BY <3>1, <3>2, <3>4, <3>5, <3>6
  <2> QED BY <2>2, <2>3
<1>8. Packs!CoverageIsShipped'
  BY DEF Packs!CoverageIsShipped
<1>9. Packs!NoBindingUnreviewed'
  <2> SUFFICES ASSUME "bindings" \notin touched, NEW b \in Bindings, bindingRow'[b] # Packs!NoBinding
               PROVE  \E s \in shipped' : b \in DOMAIN s.bindings /\ Packs!PackReady(s)
    BY DEF Packs!NoBindingUnreviewed
  <2>1. CASE b \in DOMAIN k.bindings
    BY <2>1 DEF Packs!StoreAccepts
  <2>2. CASE b \notin DOMAIN k.bindings
    BY <2>2 DEF Packs!NoBindingUnreviewed
  <2> QED BY <2>1, <2>2
<1> QED BY <1>1, <1>5, <1>6, <1>7, <1>8, <1>9, ReadingKeeps

\* What leaves ledger and retrieval alone.
LEMMA RestKeeps ==
    ASSUME Packs!IInv, UNCHANGED <<Packs!tables, Packs!reading, shipped, touched, edits>>,
           todo' \in [Packs!Procs -> Seq(Packs!AllPacks)]
    PROVE  Packs!IInv'
<1> USE DEF Packs!tables, Packs!reading
<1>1. Packs!Shapes'
  BY DEF Packs!IInv, Packs!Shapes
<1> QED BY <1>1, ReadingKeeps, LedgerKeeps DEF Packs!IInv

\* Installing releases, with failures.
LEMMA InstallIInv ==
    ASSUME Packs!IInv, NEW p \in Packs!Procs, Packs!Installs(p) \/ Packs!InstallFails(p)
    PROVE  Packs!IInv'
<1>1. CASE Packs!SyncStart(p)
  <2>1. todo' \in [Packs!Procs -> Seq(Packs!AllPacks)]
    BY <1>1, PacksAssumed DEF Packs!SyncStart, Packs!PacksOK, Packs!IInv, Packs!Shapes
  <2> QED BY <1>1, <2>1, RestKeeps DEF Packs!SyncStart
<1>2. CASE Packs!InstallFails(p)
  BY <1>2, RestKeeps DEF Packs!InstallFails, Packs!IInv, Packs!Shapes
<1>3. CASE Packs!InstallPack(p)
  <2> DEFINE k == Head(todo[p])
  <2>1. k \in Packs!AllPacks /\ [todo EXCEPT ![p] = Tail(@)] \in [Packs!Procs -> Seq(Packs!AllPacks)]
    BY <1>3, NextPack DEF Packs!InstallPack
  <2>2. todo' \in [Packs!Procs -> Seq(Packs!AllPacks)]
    BY <1>3, <2>1 DEF Packs!InstallPack, Packs!IInv, Packs!Shapes
  <2>3. UNCHANGED <<Packs!reading, touched, edits>>
    BY <1>3 DEF Packs!InstallPack
  <2>4. CASE UNCHANGED <<Packs!tables, shipped>>
    BY <2>2, <2>3, <2>4, RestKeeps
  <2>5. CASE ~UNCHANGED <<Packs!tables, shipped>>
    <3>1. /\ Packs!StoreAccepts(k) /\ packRow[k.id] = Packs!NoRow /\ Packs!Immutable(k)
          /\ ruleRow' = [r \in Rules |-> IF r \in DOMAIN k.rules THEN k.rules[r] ELSE ruleRow[r]]
          /\ bindingRow' = [b \in Bindings |-> IF b \in DOMAIN k.bindings THEN k.bindings[b] ELSE bindingRow[b]]
          /\ packRow' = [packRow EXCEPT ![k.id] = Packs!Inventory(k)]
          /\ coverage' = IF k.covered THEN coverage \cup {Packs!CoverageOf(k)} ELSE coverage
          /\ shipped' = shipped \cup {k} /\ broken' = broken
      BY <1>3, <2>5 DEF Packs!InstallPack
    <3> HIDE DEF k
    <3> QED BY <2>1, <2>2, <2>3, <3>1, NewPackIInv DEF Packs!reading
  <2> QED BY <2>4, <2>5
<1> QED BY <1>1, <1>2, <1>3 DEF Packs!Installs

(* Users.                                                                       *)
LEMMA UsersIInv == ASSUME Packs!IInv, Packs!Users PROVE Packs!IInv'
<1> USE DEF Packs!IInv
<1>0. Edited # Packs!NoText
  BY PacksAssumed DEF Packs!PacksOK
<1>1. /\ UNCHANGED <<reader, seen, served, early, todo, shipped>>
      /\ touched \subseteq touched' /\ edits' = edits + 1
  BY DEF Packs!Users, Packs!AddRules, Packs!EditRule, Packs!EditBinding, Packs!InjectBinding,
         Packs!EditInventory, Packs!EditCoverage, Packs!BreakRow, Packs!Edit, Packs!reading
<1>2. /\ Packs!OfShipped(seen.packs)' /\ Packs!EarlyIsSeen' /\ Packs!NothingServedYet'
      /\ Packs!ServedWasReviewed' /\ Packs!ServedIsWhole' /\ Packs!InstalledIsServed'
  BY <1>1, ReadingKeeps
<1>3. CASE Packs!AddRules
  <2>1. /\ ruleRow' = [r \in Rules |-> IF r \in DOMAIN LooseRules THEN LooseRules[r] ELSE ruleRow[r]]
        /\ \A r \in DOMAIN LooseRules : ruleRow[r] \in {Packs!NoText, LooseRules[r]}
        /\ UNCHANGED <<bindingRow, packRow, coverage, broken, touched>>
    BY <1>3 DEF Packs!AddRules
  <2>2. \A r \in DOMAIN LooseRules : LooseRules[r] # Packs!NoText
    BY PacksAssumed DEF Packs!PacksOK
  <2>3. \A s \in shipped : DOMAIN s.rules \subseteq Rules
    BY PacksAssumed DEF Packs!ShippedIsAccepted, Packs!PacksOK
  <2>4. Packs!Shapes'
    BY <1>1, <2>1 DEF Packs!Shapes
  <2>5. \A s \in shipped : \A r \in DOMAIN s.rules : ruleRow[r] # Packs!NoText /\ ruleRow'[r] = ruleRow[r]
    BY <2>1, <2>2, <2>3 DEF Packs!RowsAreKept
  <2>6. Packs!RowsAreKept'
    BY <1>1, <2>1, <2>5 DEF Packs!RowsAreKept
  <2>7. Packs!ShippedIsAccepted' /\ Packs!OfShipped(packRow)' /\ Packs!CoverageIsShipped'
    BY <1>1, <2>1 DEF Packs!ShippedIsAccepted, Packs!OfShipped, Packs!CoverageIsShipped
  <2>8. Packs!NoBindingUnreviewed'
    BY <1>1, <2>1 DEF Packs!NoBindingUnreviewed
  <2> QED BY <1>2, <2>4, <2>6, <2>7, <2>8
<1>4. CASE Packs!EditRule
  <2>1. PICK r \in Rules : /\ ruleRow' = [ruleRow EXCEPT ![r] = Edited]
                           /\ UNCHANGED <<bindingRow, packRow, coverage, broken>> /\ touched' = touched \cup {"rules"}
    BY <1>4 DEF Packs!EditRule, Packs!Edit
  <2>2. Packs!Shapes'
    BY <1>1, <2>1 DEF Packs!Shapes
  <2>3. \A s \in shipped : DOMAIN s.rules \subseteq Rules
    BY PacksAssumed DEF Packs!ShippedIsAccepted, Packs!PacksOK
  <2>4. Packs!RowsAreKept'
    BY <1>0, <1>1, <2>1, <2>3 DEF Packs!RowsAreKept, Packs!Shapes
  <2>5. Packs!ShippedIsAccepted' /\ Packs!OfShipped(packRow)' /\ Packs!CoverageIsShipped'
    BY <1>1, <2>1 DEF Packs!ShippedIsAccepted, Packs!OfShipped, Packs!CoverageIsShipped
  <2>6. Packs!NoBindingUnreviewed'
    BY <1>1, <2>1 DEF Packs!NoBindingUnreviewed
  <2> QED BY <1>2, <2>2, <2>4, <2>5, <2>6
<1>5. CASE Packs!EditBinding \/ Packs!InjectBinding
  <2>1. /\ DOMAIN bindingRow' = DOMAIN bindingRow /\ UNCHANGED <<ruleRow, packRow, coverage, broken>>
        /\ touched' = touched \cup {"bindings"}
    BY <1>5 DEF Packs!EditBinding, Packs!InjectBinding, Packs!Edit
  <2>2. Packs!Shapes'
    BY <1>1, <2>1 DEF Packs!Shapes
  <2>3. Packs!RowsAreKept'
    BY <1>1, <2>1 DEF Packs!RowsAreKept
  <2>4. Packs!ShippedIsAccepted' /\ Packs!OfShipped(packRow)' /\ Packs!CoverageIsShipped'
    BY <1>1, <2>1 DEF Packs!ShippedIsAccepted, Packs!OfShipped, Packs!CoverageIsShipped
  <2>5. Packs!NoBindingUnreviewed'
    BY <2>1 DEF Packs!NoBindingUnreviewed
  <2> QED BY <1>2, <2>2, <2>3, <2>4, <2>5
<1>6. CASE Packs!EditInventory
  <2>1. PICK k \in PackIds :
          /\ packRow[k] # Packs!NoRow /\ UNCHANGED <<ruleRow, bindingRow, coverage, broken>>
          /\ touched' = touched \cup {"packs"}
          /\ \/ packRow' = [packRow EXCEPT ![k].ready = TRUE]
             \/ packRow' = [packRow EXCEPT ![k].bindings = {b \in Bindings : bindingRow[b] # Packs!NoBinding}]
    BY <1>6 DEF Packs!EditInventory, Packs!Edit
  <2>2. PICK s \in shipped : s.id = k /\ packRow[k] \in Packs!Versions(s) /\ s \in Packs!AllPacks
    BY <2>1 DEF Packs!OfShipped, Packs!ShippedIsAccepted
  <2>3. DOMAIN packRow' = PackIds /\ \A i \in PackIds : i # k => packRow'[i] = packRow[i]
    BY <2>1 DEF Packs!Shapes
  <2>4. packRow'[k] \in Packs!Versions(s)
    <3>1. \/ packRow'[k] = [packRow[k] EXCEPT !.ready = TRUE]
          \/ packRow'[k] = [packRow[k] EXCEPT !.bindings = {b \in Bindings : bindingRow[b] # Packs!NoBinding}]
      BY <2>1 DEF Packs!Shapes
    <3> QED BY <2>2, <3>1, VersionsAreEdited
  <2>5. packRow'[k] # Packs!NoRow
    BY <2>2, <2>4, VersionMeans
  <2>6. Packs!Shapes'
    BY <1>1, <2>1, <2>3 DEF Packs!Shapes
  <2>7. Packs!OfShipped(packRow)'
    BY <1>1, <2>1, <2>2, <2>3, <2>4 DEF Packs!OfShipped
  <2>8. Packs!ShippedIsAccepted'
    <3>1. \A t \in shipped : t.id \in PackIds
      BY PacksAssumed DEF Packs!ShippedIsAccepted, Packs!PacksOK
    <3> QED BY <1>1, <2>3, <2>5, <3>1 DEF Packs!ShippedIsAccepted
  <2>9. Packs!RowsAreKept' /\ Packs!CoverageIsShipped' /\ Packs!NoBindingUnreviewed'
    BY <1>1, <2>1 DEF Packs!RowsAreKept, Packs!CoverageIsShipped, Packs!NoBindingUnreviewed
  <2> QED BY <1>2, <2>6, <2>7, <2>8, <2>9
<1>7. CASE Packs!EditCoverage
  <2>1. PICK c \in coverage : /\ coverage' = (coverage \ {c}) \cup {[c EXCEPT !.text = Edited]}
                              /\ UNCHANGED <<ruleRow, bindingRow, packRow, broken>>
                              /\ touched' = touched \cup {"coverage"}
    BY <1>7 DEF Packs!EditCoverage, Packs!Edit
  <2>2. PICK s \in shipped : s.covered /\ c \in {Packs!CoverageOf(s), [Packs!CoverageOf(s) EXCEPT !.text = Edited]}
    BY DEF Packs!CoverageIsShipped
  <2>3. [c EXCEPT !.text = Edited] = [Packs!CoverageOf(s) EXCEPT !.text = Edited]
    BY <2>2 DEF Packs!CoverageOf
  <2>4. Packs!CoverageIsShipped'
    BY <1>1, <2>1, <2>2, <2>3 DEF Packs!CoverageIsShipped
  <2>5. Packs!Shapes'
    BY <1>1, <2>1 DEF Packs!Shapes
  <2>6. Packs!ShippedIsAccepted' /\ Packs!OfShipped(packRow)'
    BY <1>1, <2>1 DEF Packs!ShippedIsAccepted, Packs!OfShipped
  <2>7. Packs!RowsAreKept' /\ Packs!NoBindingUnreviewed'
    BY <1>1, <2>1 DEF Packs!RowsAreKept, Packs!NoBindingUnreviewed
  <2> QED BY <1>2, <2>4, <2>5, <2>6, <2>7
<1>8. CASE Packs!BreakRow
  <2>1. /\ UNCHANGED <<ruleRow, bindingRow, packRow, coverage>>
        /\ \E t \in {"rules", "bindings", "coverage"} : touched' = touched \cup {t} /\ broken' = broken \cup {t}
    BY <1>8 DEF Packs!BreakRow, Packs!Edit
  <2>2. Packs!Shapes'
    BY <1>1, <2>1 DEF Packs!Shapes
  <2>3. Packs!ShippedIsAccepted' /\ Packs!OfShipped(packRow)' /\ Packs!CoverageIsShipped'
    BY <1>1, <2>1 DEF Packs!ShippedIsAccepted, Packs!OfShipped, Packs!CoverageIsShipped
  <2>4. Packs!RowsAreKept' /\ Packs!NoBindingUnreviewed'
    BY <1>1, <2>1 DEF Packs!RowsAreKept, Packs!NoBindingUnreviewed
  <2> QED BY <1>2, <2>2, <2>3, <2>4
<1> QED BY <1>3, <1>4, <1>5, <1>6, <1>7, <1>8 DEF Packs!Users

(* A coverage that closes an installed pack: the rows read are the pack's.         *)
LEMMA ClosedIsShipped ==
    ASSUME Packs!IInv, NEW c \in coverage, Packs!Closes(c)
    PROVE  \E s \in shipped :
             /\ s.id = c.pack /\ Packs!Reviewed(s) /\ Packs!StoreAccepts(s)
             /\ seen.packs[c.pack].rules = DOMAIN s.rules /\ seen.packs[c.pack].bindings = DOMAIN s.bindings
             /\ DOMAIN s.rules \subseteq Rules /\ DOMAIN s.bindings \subseteq Bindings
             /\ \A r \in DOMAIN s.rules : seen.rules[r] = s.rules[r]
             /\ \A b \in DOMAIN s.bindings : seen.bindings[b] = s.bindings[b]
<1> USE DEF Packs!IInv
<1>1. PICK t \in shipped : t.covered /\ c \in {Packs!CoverageOf(t), [Packs!CoverageOf(t) EXCEPT !.text = Edited]}
  BY DEF Packs!CoverageIsShipped
<1>2. t \in Packs!AllPacks /\ Packs!StoreAccepts(t) /\ t.id \in PackIds
  BY PacksAssumed DEF Packs!ShippedIsAccepted, Packs!PacksOK
<1>3. c.pack = t.id
  BY <1>1 DEF Packs!CoverageOf
<1> DEFINE inv == seen.packs[c.pack]
<1>4. inv # Packs!NoRow /\ Packs!ReviewReady(c) /\ inv.ready /\ Packs!Activated(inv, c)
  BY DEF Packs!Closes
<1>5. PICK s \in shipped : /\ s.id = c.pack /\ inv \in Packs!Versions(s)
                           /\ "packs" \notin touched => inv = Packs!Inventory(s)
  BY <1>2, <1>3, <1>4 DEF Packs!OfShipped
<1>6. s = t
  BY <1>3, <1>5 DEF Packs!ShippedIsAccepted
<1>7. /\ inv.rules = DOMAIN s.rules /\ inv.bindings \subseteq Bindings
      /\ inv.activation = <<s.rules, s.bindings, Packs!CoverageOf(s)>>
  BY <1>2, <1>5, <1>6, VersionMeans
<1>8. /\ s.rules = Packs!At(seen.rules, inv.rules) /\ s.bindings = Packs!At(seen.bindings, inv.bindings)
      /\ c = Packs!CoverageOf(s)
  BY <1>4, <1>7 DEF Packs!Activated
<1>9. inv.bindings = DOMAIN s.bindings
  BY <1>8 DEF Packs!At
<1>10. /\ \A r \in DOMAIN s.rules : seen.rules[r] = s.rules[r]
       /\ \A b \in DOMAIN s.bindings : seen.bindings[b] = s.bindings[b]
  BY <1>7, <1>8, <1>9 DEF Packs!At
<1>11. "packs" \notin touched => Packs!PackReady(s)
  BY <1>4, <1>5 DEF Packs!Inventory
<1>12. Packs!Reviewed(s)
  BY <1>1, <1>4, <1>6, <1>8, <1>11 DEF Packs!Reviewed
<1>13. DOMAIN s.rules \subseteq Rules /\ DOMAIN s.bindings \subseteq Bindings
  BY <1>2, <1>6, PacksAssumed DEF Packs!PacksOK
<1> QED BY <1>2, <1>5, <1>6, <1>7, <1>9, <1>10, <1>12, <1>13

\* A pack that a retrieval began with is closed by its coverage if nobody edits.
LEMMA EarlyIsClosed ==
    ASSUME Packs!IInv, touched = {}, reader = "coverage", NEW k \in early,
           Packs!PackReady(k), DOMAIN k.targets = Registry[k.scope]
    PROVE  Packs!CoverageOf(k) \in coverage /\ Packs!Closes(Packs!CoverageOf(k))
<1> USE DEF Packs!IInv
<1> DEFINE c == Packs!CoverageOf(k)
<1>1. /\ k \in shipped /\ \A r \in DOMAIN k.rules : seen.rules[r] = k.rules[r]
      /\ \A b \in DOMAIN k.bindings : seen.bindings[b] = k.bindings[b]
      /\ seen.packs[k.id] = Packs!Inventory(k)
  BY DEF Packs!EarlyIsSeen
<1>2. k \in Packs!AllPacks /\ Packs!StoreAccepts(k) /\ k.covered
  BY <1>1 DEF Packs!ShippedIsAccepted, Packs!PackReady
<1>3. c \in coverage
  BY <1>1, <1>2 DEF Packs!RowsAreKept
<1>4. /\ k.rules = [r \in DOMAIN k.rules |-> k.rules[r]] /\ k.bindings = [b \in DOMAIN k.bindings |-> k.bindings[b]]
      /\ \A r \in DOMAIN k.rules : k.rules[r] # Packs!NoText
      /\ \A b \in DOMAIN k.bindings : k.bindings[b] # Packs!NoBinding
  BY <1>2, PacksAssumed DEF Packs!PacksOK, Packs!At
<1>5. Packs!At(seen.rules, DOMAIN k.rules) = k.rules /\ Packs!At(seen.bindings, DOMAIN k.bindings) = k.bindings
  BY <1>1, <1>4 DEF Packs!At
<1> DEFINE inv == Packs!Inventory(k)
<1>6. /\ inv.rules = DOMAIN k.rules /\ inv.bindings = DOMAIN k.bindings /\ inv.status = k.status
      /\ inv.ready = Packs!PackReady(k) /\ inv.activation = <<k.rules, k.bindings, c>>
  BY DEF Packs!Inventory
<1>7. c.pack = k.id /\ c.status = k.status /\ c.scope = k.scope /\ c.targets = k.targets
  BY DEF Packs!CoverageOf
<1>8. Packs!WellFormed(k) /\ Packs!ReviewReady(c)
  BY <1>2 DEF Packs!StoreAccepts, Packs!PackReady
<1>9. Packs!Covers(c, k.rules, k.bindings) /\ \A b \in DOMAIN k.bindings : k.bindings[b].entails
  BY <1>2, <1>8 DEF Packs!WellFormed
<1>10. inv # Packs!NoRow
  BY <1>2, VersionsAreEdited, VersionMeans
<1>11. seen.packs[c.pack] = inv
  BY <1>1, <1>7
<1>12. /\ \A r \in inv.rules : seen.rules[r] # Packs!NoText
       /\ \A b \in inv.bindings : seen.bindings[b] # Packs!NoBinding /\ seen.bindings[b].entails
  BY <1>1, <1>4, <1>6, <1>9
<1>13. /\ Packs!Activated(inv, c)
       /\ Packs!Covers(c, Packs!At(seen.rules, inv.rules), Packs!At(seen.bindings, inv.bindings))
  BY <1>5, <1>6, <1>9 DEF Packs!Activated
<1>14. inv.ready /\ inv.status = c.status /\ DOMAIN c.targets = Registry[c.scope]
  <2>1. inv.ready
    BY <1>6, Zenon
  <2> QED BY <1>6, <1>7, <2>1
<1> HIDE DEF inv, c
<1>15. Packs!Closes(c)
  BY <1>8, <1>10, <1>11, <1>12, <1>13, <1>14 DEF Packs!Closes
<1> QED BY <1>3, <1>15 DEF c

\* The last read of a retrieval, which decides what it serves.
LEMMA ServeIInv == ASSUME Packs!IInv, Packs!ReadCoverage, "coverage" \notin broken PROVE Packs!IInv'
<1> USE DEF Packs!IInv
<1> DEFINE cs == {d \in coverage : Packs!Closes(d)}
           packs == {seen.packs[c.pack] : c \in cs}
<1>1. /\ reader = "coverage" /\ reader' = "done"
      /\ UNCHANGED <<ruleRow, bindingRow, packRow, coverage, broken, todo, shipped, touched, edits, seen, early>>
      /\ served' = [rules |-> Packs!At(seen.rules, UNION {k.rules : k \in packs}),
                    bindings |-> Packs!At(seen.bindings, UNION {k.bindings : k \in packs})]
  BY DEF Packs!ReadCoverage, Packs!tables
<1>2. Packs!Shapes'
  BY <1>1 DEF Packs!Shapes
<1>3. /\ Packs!ShippedIsAccepted' /\ Packs!OfShipped(packRow)' /\ Packs!RowsAreKept'
      /\ Packs!CoverageIsShipped' /\ Packs!NoBindingUnreviewed'
  BY <1>1, LedgerKeeps
<1>4. Packs!OfShipped(seen.packs)' /\ Packs!EarlyIsSeen' /\ Packs!NothingServedYet'
  BY <1>1 DEF Packs!OfShipped, Packs!EarlyIsSeen, Packs!NothingServedYet
<1>5. /\ DOMAIN served'.rules = UNION {k.rules : k \in packs}
      /\ \A r \in DOMAIN served'.rules : served'.rules[r] = seen.rules[r]
      /\ DOMAIN served'.bindings = UNION {k.bindings : k \in packs}
      /\ \A b \in DOMAIN served'.bindings : served'.bindings[b] = seen.bindings[b]
  <2> HIDE DEF packs
  <2> QED BY <1>1 DEF Packs!At
<1>6. /\ \A r \in DOMAIN served'.rules : \E c \in cs : r \in seen.packs[c.pack].rules
      /\ \A b \in DOMAIN served'.bindings : \E c \in cs : b \in seen.packs[c.pack].bindings
      /\ \A c \in cs : /\ seen.packs[c.pack].rules \subseteq DOMAIN served'.rules
                       /\ seen.packs[c.pack].bindings \subseteq DOMAIN served'.bindings
  BY <1>5
<1> HIDE DEF packs
<1>7. \A c \in cs : \E s \in shipped :
             /\ Packs!Reviewed(s) /\ Packs!StoreAccepts(s)
             /\ seen.packs[c.pack].rules = DOMAIN s.rules /\ seen.packs[c.pack].bindings = DOMAIN s.bindings
             /\ \A r \in DOMAIN s.rules : seen.rules[r] = s.rules[r]
             /\ \A b \in DOMAIN s.bindings : seen.bindings[b] = s.bindings[b]
  BY ClosedIsShipped
<1>8. \A s \in shipped : Packs!StoreAccepts(s) =>
        \A b \in DOMAIN s.bindings : s.bindings[b].rule \in DOMAIN s.rules /\ s.bindings[b].entails
  BY DEF Packs!StoreAccepts, Packs!WellFormed
<1>9. \A s : Packs!Reviewed(s)' = Packs!Reviewed(s)
  BY <1>1 DEF Packs!Reviewed
<1>10. Packs!ServedWasReviewed'
  <2>1. ASSUME NEW r \in DOMAIN served'.rules
        PROVE  \E k \in shipped : Packs!Reviewed(k) /\ r \in DOMAIN k.rules /\ k.rules[r] = served'.rules[r]
    BY <1>5, <1>6, <1>7
  <2>2. ASSUME NEW b \in DOMAIN served'.bindings
        PROVE  \E k \in shipped : /\ Packs!Reviewed(k) /\ b \in DOMAIN k.bindings
                                  /\ k.bindings[b] = served'.bindings[b] /\ k.bindings[b].entails
                                  /\ served'.bindings[b].rule \in DOMAIN served'.rules
    <3>1. PICK c \in cs : b \in seen.packs[c.pack].bindings
      BY <1>6
    <3>2. PICK s \in shipped :
             /\ Packs!Reviewed(s) /\ Packs!StoreAccepts(s)
             /\ seen.packs[c.pack].rules = DOMAIN s.rules /\ seen.packs[c.pack].bindings = DOMAIN s.bindings
             /\ \A i \in DOMAIN s.bindings : seen.bindings[i] = s.bindings[i]
      BY <1>7
    <3>3. b \in DOMAIN s.bindings /\ s.bindings[b] = served'.bindings[b]
      BY <1>5, <3>1, <3>2
    <3>4. s.bindings[b].entails /\ s.bindings[b].rule \in DOMAIN served'.rules
      BY <1>6, <1>8, <3>2, <3>3
    <3> QED BY <3>2, <3>3, <3>4
  <2> QED BY <1>1, <1>9, <2>1, <2>2 DEF Packs!ServedWasReviewed
<1>11. Packs!ServedIsWhole'
  <2>1. ASSUME NEW b \in DOMAIN served'.bindings
        PROVE  \E k \in shipped : /\ b \in DOMAIN k.bindings /\ DOMAIN k.bindings \subseteq DOMAIN served'.bindings
                                  /\ \A r \in DOMAIN k.rules : r \in DOMAIN served'.rules
                                                               /\ served'.rules[r] = k.rules[r]
    <3>1. PICK c \in cs : b \in seen.packs[c.pack].bindings
      BY <1>6
    <3>2. PICK s \in shipped :
             /\ seen.packs[c.pack].rules = DOMAIN s.rules /\ seen.packs[c.pack].bindings = DOMAIN s.bindings
             /\ \A r \in DOMAIN s.rules : seen.rules[r] = s.rules[r]
      BY <1>7
    <3>3. \A r \in DOMAIN s.rules : r \in DOMAIN served'.rules /\ served'.rules[r] = s.rules[r]
      BY <1>5, <1>6, <3>2
    <3>4. b \in DOMAIN s.bindings /\ DOMAIN s.bindings \subseteq DOMAIN served'.bindings
      BY <1>6, <3>1, <3>2
    <3> QED BY <3>3, <3>4
  <2> QED BY <1>1, <2>1 DEF Packs!ServedIsWhole
<1>12. Packs!InstalledIsServed'
  <2> SUFFICES ASSUME touched = {}, NEW k \in early, Packs!PackReady(k), DOMAIN k.targets = Registry[k.scope]
               PROVE  /\ DOMAIN k.rules \subseteq DOMAIN served'.rules
                      /\ DOMAIN k.bindings \subseteq DOMAIN served'.bindings
    BY <1>1 DEF Packs!InstalledIsServed
  <2>1. Packs!CoverageOf(k) \in cs
    BY <1>1, EarlyIsClosed
  <2>2. Packs!CoverageOf(k).pack = k.id
    BY DEF Packs!CoverageOf
  <2>3. seen.packs[k.id] = Packs!Inventory(k)
    BY <1>1 DEF Packs!EarlyIsSeen
  <2>4. Packs!Inventory(k).rules = DOMAIN k.rules /\ Packs!Inventory(k).bindings = DOMAIN k.bindings
    BY DEF Packs!Inventory
  <2> QED BY <1>6, <2>1, <2>2, <2>3, <2>4
<1> QED BY <1>2, <1>3, <1>4, <1>10, <1>11, <1>12

(* A retrieval.                                                                  *)
LEMMA RetrievesIInv == ASSUME Packs!IInv, Packs!Retrieves PROVE Packs!IInv'
<1> USE DEF Packs!IInv
<1>1. UNCHANGED <<ruleRow, bindingRow, packRow, coverage, broken, todo, shipped, touched, edits>>
  BY DEF Packs!Retrieves, Packs!ReadRules, Packs!ReadBindings, Packs!ReadPacks, Packs!ReadCoverage, Packs!tables
<1>2. /\ Packs!ShippedIsAccepted' /\ Packs!OfShipped(packRow)' /\ Packs!RowsAreKept'
      /\ Packs!CoverageIsShipped' /\ Packs!NoBindingUnreviewed'
  BY <1>1, LedgerKeeps
<1>3. ASSUME reader # "done", reader' = "done", broken # {}, UNCHANGED <<seen, served, early>>
      PROVE  Packs!IInv'
  <2>1. touched # {} /\ touched' # {}
    BY <1>1, <1>3 DEF Packs!Shapes
  <2>2. DOMAIN served'.rules = {} /\ DOMAIN served'.bindings = {}
    BY <1>3 DEF Packs!NothingServedYet
  <2>3. Packs!Shapes'
    BY <1>1, <1>3 DEF Packs!Shapes
  <2>4. Packs!OfShipped(seen.packs)'
    BY <1>1, <1>3 DEF Packs!OfShipped
  <2>5. Packs!EarlyIsSeen' /\ Packs!NothingServedYet'
    BY <1>3, <2>1 DEF Packs!EarlyIsSeen, Packs!NothingServedYet
  <2>6. Packs!ServedWasReviewed' /\ Packs!ServedIsWhole' /\ Packs!InstalledIsServed'
    BY <2>1, <2>2 DEF Packs!ServedWasReviewed, Packs!ServedIsWhole, Packs!InstalledIsServed
  <2> QED BY <1>2, <2>3, <2>4, <2>5, <2>6
<1>4. ASSUME reader # "done", reader' # "done", UNCHANGED served
      PROVE  /\ Packs!NothingServedYet' /\ Packs!ServedWasReviewed' /\ Packs!ServedIsWhole'
             /\ Packs!InstalledIsServed'
  BY <1>4 DEF Packs!NothingServedYet, Packs!ServedWasReviewed, Packs!ServedIsWhole, Packs!InstalledIsServed
<1>5. CASE Packs!ReadRules
  <2>1. CASE "rules" \in broken
    BY <1>3, <1>5, <2>1 DEF Packs!ReadRules, Packs!Raises
  <2>2. CASE "rules" \notin broken
    <3>1. /\ reader = "start" /\ reader' = "bindings" /\ served' = served
          /\ seen' = [seen EXCEPT !.rules = ruleRow]
          /\ early' = {k \in shipped : packRow[k.id] = Packs!Inventory(k)}
      BY <1>5, <2>2 DEF Packs!ReadRules
    <3>2. Packs!Shapes' /\ Packs!OfShipped(seen.packs)'
      BY <1>1, <3>1 DEF Packs!Shapes, Packs!OfShipped
    <3>3. Packs!EarlyIsSeen'
      <4> SUFFICES ASSUME touched = {}, NEW k \in early'
                   PROVE  k \in shipped /\ \A r \in DOMAIN k.rules : seen'.rules[r] = k.rules[r]
        BY <1>1, <3>1 DEF Packs!EarlyIsSeen
      <4>1. k \in shipped /\ seen'.rules = ruleRow
        BY <3>1 DEF Packs!Shapes
      <4> QED BY <4>1 DEF Packs!RowsAreKept
    <3> QED BY <1>2, <1>4, <3>1, <3>2, <3>3
  <2> QED BY <2>1, <2>2
<1>6. CASE Packs!ReadBindings
  <2>1. CASE "bindings" \in broken
    BY <1>3, <1>6, <2>1 DEF Packs!ReadBindings, Packs!Raises
  <2>2. CASE "bindings" \notin broken
    <3>1. /\ reader = "bindings" /\ reader' = "packs" /\ served' = served /\ early' = early
          /\ seen' = [seen EXCEPT !.bindings = bindingRow]
      BY <1>6, <2>2 DEF Packs!ReadBindings
    <3>2. Packs!Shapes' /\ Packs!OfShipped(seen.packs)'
      BY <1>1, <3>1 DEF Packs!Shapes, Packs!OfShipped
    <3>3. Packs!EarlyIsSeen'
      <4> SUFFICES ASSUME touched = {}, NEW k \in early
                   PROVE  /\ k \in shipped /\ \A r \in DOMAIN k.rules : seen'.rules[r] = k.rules[r]
                          /\ \A b \in DOMAIN k.bindings : seen'.bindings[b] = k.bindings[b]
        BY <1>1, <3>1 DEF Packs!EarlyIsSeen
      <4>1. seen'.rules = seen.rules /\ seen'.bindings = bindingRow
        BY <3>1 DEF Packs!Shapes
      <4>2. k \in shipped /\ \A r \in DOMAIN k.rules : seen.rules[r] = k.rules[r]
        BY <3>1 DEF Packs!EarlyIsSeen
      <4> QED BY <4>1, <4>2 DEF Packs!RowsAreKept
    <3> QED BY <1>2, <1>4, <3>1, <3>2, <3>3
  <2> QED BY <2>1, <2>2
<1>7. CASE Packs!ReadPacks
  <2>1. /\ reader = "packs" /\ reader' = "coverage" /\ served' = served /\ early' = early
        /\ seen' = [seen EXCEPT !.packs = packRow]
    BY <1>7 DEF Packs!ReadPacks
  <2>2. seen'.rules = seen.rules /\ seen'.bindings = seen.bindings /\ seen'.packs = packRow
    BY <2>1 DEF Packs!Shapes
  <2>3. Packs!Shapes'
    BY <1>1, <2>1 DEF Packs!Shapes
  <2>4. Packs!OfShipped(seen.packs)'
    BY <1>1, <2>2 DEF Packs!OfShipped
  <2>5. Packs!EarlyIsSeen'
    <3> SUFFICES ASSUME touched = {}, NEW k \in early
                 PROVE  /\ k \in shipped /\ \A r \in DOMAIN k.rules : seen.rules[r] = k.rules[r]
                        /\ \A b \in DOMAIN k.bindings : seen.bindings[b] = k.bindings[b]
                        /\ packRow[k.id] = Packs!Inventory(k)
      BY <1>1, <2>1, <2>2 DEF Packs!EarlyIsSeen
    <3>1. /\ k \in shipped /\ \A r \in DOMAIN k.rules : seen.rules[r] = k.rules[r]
          /\ \A b \in DOMAIN k.bindings : seen.bindings[b] = k.bindings[b]
      BY <2>1 DEF Packs!EarlyIsSeen
    <3>2. k.id \in PackIds /\ packRow[k.id] # Packs!NoRow
      BY <3>1, PacksAssumed DEF Packs!ShippedIsAccepted, Packs!PacksOK
    <3>3. PICK s \in shipped : s.id = k.id /\ packRow[k.id] = Packs!Inventory(s)
      BY <3>2 DEF Packs!OfShipped
    <3>4. s = k
      BY <3>1, <3>3 DEF Packs!ShippedIsAccepted
    <3> QED BY <3>1, <3>3, <3>4
  <2> QED BY <1>2, <1>4, <2>1, <2>3, <2>4, <2>5
<1>8. CASE Packs!ReadCoverage
  <2>1. CASE "coverage" \in broken
    BY <1>3, <1>8, <2>1 DEF Packs!ReadCoverage, Packs!Raises
  <2> QED BY <1>8, <2>1, ServeIInv
<1> QED BY <1>5, <1>6, <1>7, <1>8 DEF Packs!Retrieves

\* Every step keeps the invariant.
LEMMA PacksStep == Packs!IInv /\ [Packs!Next]_(Packs!vars) => Packs!IInv'
<1> SUFFICES ASSUME Packs!IInv, [Packs!Next]_(Packs!vars) PROVE Packs!IInv'
  OBVIOUS
<1>1. CASE UNCHANGED Packs!vars
  BY <1>1, RestKeeps DEF Packs!vars, Packs!IInv, Packs!Shapes
<1>2. CASE Packs!Next
  BY <1>2, InstallIInv, UsersIInv, RetrievesIInv DEF Packs!Next
<1> QED BY <1>1, <1>2

\* An installation changes no row that is there.
LEMMA InstallsAppend ==
    ASSUME Packs!IInv, Packs!Next, edits' = edits
    PROVE  /\ \A r \in Rules : ruleRow[r] \in {Packs!NoText, ruleRow'[r]}
           /\ \A b \in Bindings : bindingRow[b] \in {Packs!NoBinding, bindingRow'[b]}
           /\ \A k \in PackIds : packRow[k] \in {Packs!NoRow, packRow'[k]}
           /\ coverage \subseteq coverage'
<1>1. edits' # edits + 1
  BY DEF Packs!IInv, Packs!Shapes
<1>2. ~Packs!Users
  BY <1>1 DEF Packs!Users, Packs!AddRules, Packs!EditRule, Packs!EditBinding, Packs!InjectBinding,
              Packs!EditInventory, Packs!EditCoverage, Packs!BreakRow, Packs!Edit
<1>3. CASE \E p \in Packs!Procs : Packs!InstallPack(p)
  <2>1. PICK p \in Packs!Procs : Packs!InstallPack(p)
    BY <1>3
  <2> DEFINE k == Head(todo[p])
  <2>2. CASE UNCHANGED <<Packs!tables, shipped>>
    BY <2>2 DEF Packs!tables
  <2>3. CASE ~UNCHANGED <<Packs!tables, shipped>>
    <3>1. /\ packRow[k.id] = Packs!NoRow /\ Packs!Immutable(k)
          /\ ruleRow' = [r \in Rules |-> IF r \in DOMAIN k.rules THEN k.rules[r] ELSE ruleRow[r]]
          /\ bindingRow' = [b \in Bindings |-> IF b \in DOMAIN k.bindings THEN k.bindings[b] ELSE bindingRow[b]]
          /\ packRow' = [packRow EXCEPT ![k.id] = Packs!Inventory(k)]
          /\ coverage \subseteq coverage'
      BY <2>1, <2>3 DEF Packs!InstallPack
    <3> HIDE DEF k
    <3>2. /\ \A r \in Rules : ruleRow[r] \in {Packs!NoText, ruleRow'[r]}
          /\ \A b \in Bindings : bindingRow[b] \in {Packs!NoBinding, bindingRow'[b]}
      BY <3>1 DEF Packs!Immutable
    <3>3. \A i \in PackIds : packRow[i] \in {Packs!NoRow, packRow'[i]}
      BY <3>1 DEF Packs!IInv, Packs!Shapes
    <3> QED BY <3>1, <3>2, <3>3
  <2> QED BY <2>2, <2>3
<1>4. CASE \E p \in Packs!Procs : Packs!SyncStart(p) \/ Packs!InstallFails(p)
  BY <1>4 DEF Packs!SyncStart, Packs!InstallFails, Packs!tables
<1>5. CASE Packs!Retrieves
  BY <1>5 DEF Packs!Retrieves, Packs!ReadRules, Packs!ReadBindings, Packs!ReadPacks, Packs!ReadCoverage, Packs!tables
<1> QED BY <1>2, <1>3, <1>4, <1>5 DEF Packs!Next, Packs!Installs

(* What holds of one state.                                                      *)
LEMMA PacksHold ==
    ASSUME Packs!IInv
    PROVE  /\ Packs!TypeOK /\ Packs!ServedWasReviewed /\ Packs!ServedIsWhole
           /\ Packs!InstalledIsServed /\ Packs!NoBindingUnreviewed
<1> USE DEF Packs!IInv
<1>1. ASSUME NEW k \in PackIds, packRow[k] # Packs!NoRow
      PROVE  /\ "packs" \notin touched => packRow[k] \in {Packs!Inventory(s) : s \in shipped}
             /\ \A r \in packRow[k].rules : ruleRow[r] # Packs!NoText
  <2>1. PICK s \in shipped : /\ packRow[k] \in Packs!Versions(s) /\ s \in Packs!AllPacks
                             /\ "packs" \notin touched => packRow[k] = Packs!Inventory(s)
    BY <1>1 DEF Packs!OfShipped, Packs!ShippedIsAccepted
  <2>2. packRow[k].rules = DOMAIN s.rules
    BY <2>1, VersionMeans
  <2> QED BY <2>1, <2>2 DEF Packs!RowsAreKept
<1>2. ASSUME NEW c \in coverage PROVE packRow[c.pack] # Packs!NoRow
  <2>1. PICK s \in shipped : c \in {Packs!CoverageOf(s), [Packs!CoverageOf(s) EXCEPT !.text = Edited]}
    BY DEF Packs!CoverageIsShipped
  <2>2. c.pack = s.id
    BY <2>1 DEF Packs!CoverageOf
  <2> QED BY <2>2 DEF Packs!ShippedIsAccepted
<1>3. DOMAIN seen = {"rules", "bindings", "packs"}
  BY DEF Packs!Shapes
<1> QED BY <1>1, <1>2, <1>3 DEF Packs!TypeOK

(***************************************************************************)
(* The invariant of installed packs holds in every behaviour.               *)
(***************************************************************************)
THEOREM PacksInvariant == MCSpec => []Packs!IInv
<1>1. MCInit => Packs!IInv
  BY PacksInit DEF MCInit
<1>2. Packs!IInv /\ [MCNext]_<<part, vars, avars, pvars, svars>> => Packs!IInv'
  <2> SUFFICES ASSUME Packs!IInv, [MCNext]_<<part, vars, avars, pvars, svars>>
               PROVE  [Packs!Next]_(Packs!vars)
    BY PacksStep
  <2> QED BY DEF MCNext, pvars, Packs!vars, Packs!tables, Packs!reading
<1> QED BY <1>1, <1>2, PTL DEF MCSpec

(***************************************************************************)
(* What a retrieval uses was part of a pack with a completed review, as a   *)
(* whole, whatever is installed and edited between its reads; an            *)
(* installation changes no row (_review_ready_surface,                      *)
(* install_knowledge_pack).                                                 *)
(***************************************************************************)
THEOREM ServedIsAlwaysReviewed == MCSpec => ServedIsReviewed
<1>1. Packs!IInv /\ [MCNext]_<<part, vars, avars, pvars, svars>> =>
        [edits' = edits =>
            /\ \A r \in Rules : ruleRow[r] \in {Packs!NoText, ruleRow'[r]}
            /\ \A b \in Bindings : bindingRow[b] \in {Packs!NoBinding, bindingRow'[b]}
            /\ \A k \in PackIds : packRow[k] \in {Packs!NoRow, packRow'[k]}
            /\ coverage \subseteq coverage']_(Packs!vars)
  <2> SUFFICES ASSUME Packs!IInv, [MCNext]_<<part, vars, avars, pvars, svars>>
               PROVE  [Packs!Next]_(Packs!vars)
    BY InstallsAppend
  <2> QED BY DEF MCNext, pvars, Packs!vars, Packs!tables, Packs!reading
<1>2. Packs!IInv => /\ Packs!TypeOK /\ Packs!ServedWasReviewed /\ Packs!ServedIsWhole
                    /\ Packs!InstalledIsServed /\ Packs!NoBindingUnreviewed
  BY PacksHold
<1> QED BY <1>1, <1>2, PacksInvariant, PTL DEF MCSpec, ServedIsReviewed, Packs!InstallAppends
===============================================================================
