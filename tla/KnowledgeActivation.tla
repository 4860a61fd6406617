-------------------------- MODULE KnowledgeActivation --------------------------
(***************************************************************************)
(* BindingActivationSession (knowledge/activation.py): the short-lived       *)
(* object through which reviewed guidance is applied to a design instance.  *)
(*                                                                          *)
(* The rule, the binding and the raw context are live Python objects that   *)
(* anybody may change at any time; version 0 is the reviewed one.  Several  *)
(* threads use several sessions.  An evaluator is a callback that runs      *)
(* under the session's reentrant lock and may itself change objects, issue, *)
(* evaluate again or close the session it runs in.                          *)
(***************************************************************************)
EXTENDS Naturals, FiniteSets

CONSTANTS
    Threads, Sessions,
    MaxHandles    \* bound: contexts issued

Objects == {"rule", "binding", "raw"}
Versions == 0..1
None == [s |-> "none"]

\* The owner of a free lock is no thread.
ActivationOK == MaxHandles \in Nat /\ None \notin Threads

VARIABLES
    live,       \* object -> version
    phase,      \* session -> "new", "bound", "ruled", "open" or "closed"
    reg,        \* session -> the versions whose canonical bytes it keeps
    issued,     \* session -> the contexts in its registry
    handles,    \* the contexts that callers hold, copies included
    lock,       \* session -> the thread inside, or None
    call,       \* thread -> its evaluation, or None
    out         \* the last result that an evaluation delivered

vars == <<live, phase, reg, issued, handles, lock, call, out>>

Handle(s, n, v, real) == [s |-> s, n |-> n, values |-> v, real |-> real]
Idle == [s |-> None]

TypeOK ==
    /\ live \in [Objects -> Versions]
    /\ phase \in [Sessions -> {"new", "bound", "ruled", "open", "closed"}]
    /\ \A s \in Sessions :
         /\ issued[s] \subseteq handles /\ (phase[s] # "open" => issued[s] = {})
         /\ phase[s] \in {"ruled", "open"} => reg[s] = [rule |-> 0, binding |-> 0]
         /\ lock[s] \in Threads \cup {None}
    /\ \A t \in Threads : call[t] # Idle => lock[call[t].s] = t
    /\ \A h \in handles : h.n \in 1..MaxHandles /\ h.values \in Versions

Free(s, t) == lock[s] \in {None, t}

-------------------------------------------------------------------------------
(* Opening a session.                                                         *)

\* The reviewed fingerprint of the binding is compared with the live object.
OpenBindings(s) ==
    /\ phase[s] = "new"
    /\ IF live["binding"] = 0
       THEN phase' = [phase EXCEPT ![s] = "bound"] /\ reg' = [reg EXCEPT ![s].binding = live["binding"]]
       ELSE phase' = [phase EXCEPT ![s] = "closed"] /\ UNCHANGED reg
    /\ UNCHANGED <<live, issued, handles, lock, call, out>>

OpenRules(s) ==
    /\ phase[s] = "bound"
    /\ IF live["rule"] = 0
       THEN phase' = [phase EXCEPT ![s] = "ruled"] /\ reg' = [reg EXCEPT ![s].rule = live["rule"]]
       ELSE phase' = [phase EXCEPT ![s] = "closed"] /\ UNCHANGED reg
    /\ UNCHANGED <<live, issued, handles, lock, call, out>>

\* The binding must entail the rule.  It is the live objects that are compared:
\* the reviewed versions do; changed ones may or may not.
OpenCheck(s) ==
    /\ phase[s] = "ruled"
    /\ \/ phase' = [phase EXCEPT ![s] = "open"]
       \/ (live["rule"] # 0 \/ live["binding"] # 0) /\ phase' = [phase EXCEPT ![s] = "closed"]
    /\ UNCHANGED <<live, reg, issued, handles, lock, call, out>>

-------------------------------------------------------------------------------
(* Contexts.                                                                  *)

Registered(s) == live["rule"] = reg[s].rule /\ live["binding"] = reg[s].binding

\* issue: the values are frozen as they are now.
Issue(t, s) ==
    /\ Free(s, t) /\ phase[s] = "open" /\ Registered(s)
    /\ Cardinality({h \in handles : h.real}) < MaxHandles
    /\ LET h == Handle(s, Cardinality({x \in handles : x.real}) + 1, live["raw"], TRUE) IN
       issued' = [issued EXCEPT ![s] = @ \cup {h}] /\ handles' = handles \cup {h}
    /\ UNCHANGED <<live, phase, reg, lock, call, out>>

\* A caller copies a context and makes the copy say what it likes.
Copy ==
    /\ \E h \in handles, v \in Versions, s \in Sessions :
         /\ h.real /\ Cardinality(handles) < MaxHandles + 1
         /\ handles' = handles \cup {Handle(s, h.n, v, FALSE)}
    /\ UNCHANGED <<live, phase, reg, issued, lock, call, out>>

\* Somebody changes a live object, or changes it back.
Mutate(o) ==
    /\ live' = [live EXCEPT ![o] = 1 - @]
    /\ UNCHANGED <<phase, reg, issued, handles, lock, call, out>>

\* _validated_records: issued here, unchanged, and so are the rule, the binding
\* and the raw context behind it.
Validated(s, h) ==
    /\ phase[s] = "open"
    /\ h.s = s /\ h \in issued[s]
    /\ Registered(s)
    /\ live["raw"] = h.values

-------------------------------------------------------------------------------
(* Evaluation.                                                                *)

Result(s, h) == [s |-> s, h |-> h, rule |-> reg[s].rule, binding |-> reg[s].binding, values |-> h.values]

\* evaluate_atomically up to the evaluator, which gets copies of the canonical
\* bytes.  A context that does not validate yields nothing.
Start(t, s, h) ==
    /\ call[t] = Idle /\ lock[s] = None
    /\ Validated(s, h)
    /\ call' = [call EXCEPT ![t] = Result(s, h)] /\ lock' = [lock EXCEPT ![s] = t]
    /\ UNCHANGED <<live, phase, reg, issued, handles, out>>

\* An evaluation from inside the evaluator: a copy is delivered at once
\* (binding_snapshot_for, condition_for).
Nested(t, h) ==
    /\ call[t] # Idle /\ Validated(call[t].s, h)
    /\ out' = Result(call[t].s, h)
    /\ UNCHANGED <<live, phase, reg, issued, handles, lock, call>>

Return(t) ==
    /\ lock' = [lock EXCEPT ![call[t].s] = None] /\ call' = [call EXCEPT ![t] = Idle]
    /\ UNCHANGED <<live, phase, reg, issued, handles>>

\* (mutant) What was validated before the evaluator ran is taken to hold.
EndUnchecked(t) == call[t] # Idle /\ out' = call[t] /\ Return(t)

\* The evaluator returns; the records are validated again.
End(t) ==
    /\ call[t] # Idle
    /\ out' = IF Validated(call[t].s, call[t].h) THEN call[t] ELSE out
    /\ Return(t)

\* It raises: the exception leaves through the lock.
Raise(t) == call[t] # Idle /\ UNCHANGED out /\ Return(t)

\* close: every registry is cleared.
Close(t, s) ==
    /\ Free(s, t) /\ phase[s] = "open"
    /\ phase' = [phase EXCEPT ![s] = "closed"] /\ issued' = [issued EXCEPT ![s] = {}]
    /\ UNCHANGED <<live, reg, handles, lock, call, out>>

-------------------------------------------------------------------------------
Init ==
    /\ live = [o \in Objects |-> 0]
    /\ phase = [s \in Sessions |-> "new"]
    /\ reg = [s \in Sessions |-> [rule |-> 0, binding |-> 0]]
    /\ issued = [s \in Sessions |-> {}] /\ handles = {}
    /\ lock = [s \in Sessions |-> None] /\ call = [t \in Threads |-> Idle] /\ out = Idle

Next ==
    \/ \E s \in Sessions : OpenBindings(s) \/ OpenRules(s) \/ OpenCheck(s)
    \/ \E t \in Threads, s \in Sessions : Issue(t, s) \/ Close(t, s) \/ \E h \in handles : Start(t, s, h)
    \/ \E t \in Threads : End(t) \/ Raise(t) \/ \E h \in handles : Nested(t, h)
    \/ Copy \/ \E o \in Objects : Mutate(o)

Spec == Init /\ [][Next]_vars

-------------------------------------------------------------------------------
\* Whatever is changed and changed back around it, a result was computed from the
\* reviewed rule and binding, for a context that the session itself issued.
DeliveredIsReviewed ==
    out # Idle => out.rule = 0 /\ out.binding = 0 /\ out.h.s = out.s /\ out.h.real /\ out.values = out.h.values

\* A result leaves only while its session is open and everything behind it is as
\* reviewed: not when the evaluator closed the session or changed the rule.
DeliveredWhileValid ==
    [][out' # out => phase[out'.s] = "open" /\ out'.h \in issued[out'.s]
                     /\ live = [rule |-> 0, binding |-> 0, raw |-> out'.values]]_vars

\* One evaluation at a time in a session.
OneInside == \A t, u \in Threads : call[t] # Idle /\ call[u] # Idle /\ t # u => call[t].s # call[u].s

-------------------------------------------------------------------------------
(* What makes the properties inductive.                                       *)

\* Every context in a registry was issued by that session; there are finitely many.
IssuedAreReal ==
    /\ IsFiniteSet(handles) /\ issued \in [Sessions -> SUBSET handles]
    /\ \A s \in Sessions : \A h \in issued[s] : h.real /\ h.s = s

\* An evaluation under way has the reviewed rule and binding, and a context that
\* its session issued.
EvaluatesTheReviewed ==
    /\ reg \in [Sessions -> [rule : Versions, binding : Versions]]
    /\ lock \in [Sessions -> Threads \cup {None}] /\ DOMAIN call = Threads
    /\ \A s \in Sessions : phase[s] = "bound" => reg[s].binding = 0
    /\ \A t \in Threads : call[t] # Idle =>
         /\ call[t].s \in Sessions /\ call[t].rule = 0 /\ call[t].binding = 0
         /\ call[t].h.real /\ call[t].h.s = call[t].s /\ call[t].values = call[t].h.values

IInv == TypeOK /\ IssuedAreReal /\ EvaluatesTheReviewed /\ DeliveredIsReviewed
===============================================================================
