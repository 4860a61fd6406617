----------------------------- MODULE RetrievalProofs -----------------------------
(***************************************************************************)
(* Theorems about a retrieval (Retrieval), for every finite snapshot,       *)
(* request and limit, and about private text in one (PrivateSnippets), for  *)
(* every list of hits and anchors, any limit and any number of edits.  The  *)
(* first invariant follows the facts from a finite corpus through ranking   *)
(* and verdict to what is left of them when an answer is trimmed; the       *)
(* second keeps the kinds of items in their planes, within one scope, one   *)
(* reading of the sources and one answer of the adapters; the third follows *)
(* a record from the intent of an append to the file it stands in, and an   *)
(* anchor from its opening to its record.                                   *)
(***************************************************************************)
EXTENDS MCRetrieval, TLAPS, FiniteSetTheorems, WellFoundedInduction

\* Records and items are numbers, and what is of one kind is of no other.
LEMMA KindsMean ==
    /\ Entities \cup {r.id : r \in Relations} \cup Derivs \cup DOMAIN EvidenceOf \cup DOMAIN Diagnosed
           \subseteq Nat \ {0}
    /\ Rules \cup DOMAIN Predicted \cup ItemIds \subseteq Nat \ {0}
    /\ {r.id : r \in Relations} \cap (Entities \cup Derivs \cup DOMAIN EvidenceOf \cup DOMAIN Diagnosed) = {}
    /\ Derivs \cap Entities = {} /\ DOMAIN EvidenceOf \cap (Entities \cup Derivs) = {}
    /\ DOMAIN Diagnosed \cap (Entities \cup Derivs \cup DOMAIN EvidenceOf) = {}
    /\ ItemIds \cap (Entities \cup {r.id : r \in Relations} \cup Derivs \cup DOMAIN EvidenceOf
                     \cup DOMAIN Diagnosed \cup Rules \cup DOMAIN Predicted) = {}
<1> DEFINE Ids == {r.id : r \in Relations}
<1>1. \A k \in 1..8 : Kinds[k] \subseteq Nat \ {0} /\ \A l \in 1..8 : k # l => Kinds[k] \cap Kinds[l] = {}
  BY RetrievalAssumption
<1>2. /\ Kinds[1] = Entities /\ Kinds[2] = Ids /\ Kinds[3] = Derivs /\ Kinds[4] = DOMAIN EvidenceOf
      /\ Kinds[5] = DOMAIN Diagnosed /\ Kinds[6] = Rules /\ Kinds[7] = DOMAIN Predicted /\ Kinds[8] = ItemIds
  BY DEF Kinds
<1> HIDE DEF Ids
<1>3. /\ Entities \subseteq Nat \ {0} /\ Ids \subseteq Nat \ {0} /\ Derivs \subseteq Nat \ {0}
      /\ DOMAIN EvidenceOf \subseteq Nat \ {0} /\ DOMAIN Diagnosed \subseteq Nat \ {0}
      /\ Rules \subseteq Nat \ {0} /\ DOMAIN Predicted \subseteq Nat \ {0} /\ ItemIds \subseteq Nat \ {0}
  BY <1>1, <1>2
<1>4. /\ Ids \cap Entities = {} /\ Ids \cap Derivs = {} /\ Ids \cap DOMAIN EvidenceOf = {}
      /\ Ids \cap DOMAIN Diagnosed = {} /\ Derivs \cap Entities = {}
      /\ DOMAIN EvidenceOf \cap Entities = {} /\ DOMAIN EvidenceOf \cap Derivs = {}
      /\ DOMAIN Diagnosed \cap Entities = {} /\ DOMAIN Diagnosed \cap Derivs = {}
      /\ DOMAIN Diagnosed \cap DOMAIN EvidenceOf = {}
  BY <1>1, <1>2
<1>5. /\ ItemIds \cap Entities = {} /\ ItemIds \cap Ids = {} /\ ItemIds \cap Derivs = {}
      /\ ItemIds \cap DOMAIN EvidenceOf = {} /\ ItemIds \cap DOMAIN Diagnosed = {}
      /\ ItemIds \cap Rules = {} /\ ItemIds \cap DOMAIN Predicted = {}
  BY <1>1, <1>2
<1> QED BY <1>3, <1>4, <1>5 DEF Ids

\* Of some naturals one is the least.
LEMMA NaturalsHaveLeast ==
    ASSUME NEW T, T \subseteq Nat, T # {}
    PROVE  \E n \in T : \A m \in T : n <= m
<1>1. PICK n \in T : \A m \in T : ~(<<m, n>> \in OpToRel(<, Nat))
  BY NatLessThanWellFounded, WFMin
<1>2. ASSUME NEW m \in T, m < n PROVE FALSE
  <2>1. m \in Nat /\ n \in Nat
    OBVIOUS
  <2>2. <<m, n>> \in OpToRel(<, Nat)
    BY <1>2, <2>1 DEF OpToRel
  <2> QED BY <1>1, <2>2
<1>3. \A m \in T : n <= m
  BY <1>2
<1> QED BY <1>3

\* f is a value and what step after step makes of it.
Follows(f, N, v0, step) == f[0] = v0 /\ \A n \in 1..N : f[n] = step[n][f[n - 1]]

\* There is such a function for every value and every steps.
LEMMA StepsMakeAFunction ==
    ASSUME NEW N \in Nat, NEW V, NEW v0 \in V, NEW step \in [1..N -> [V -> V]]
    PROVE  \E f \in [0..N -> V] : Follows(f, N, v0, step)
<1> DEFINE Upto(n, f) == Follows(f, n, v0, step)
           Stuck == {n \in 0..N : ~\E f \in [0..n -> V] : Upto(n, f)}
<1>1. SUFFICES ASSUME Stuck # {} PROVE FALSE
  <2>1. N \notin Stuck => \E f \in [0..N -> V] : Upto(N, f)
    OBVIOUS
  <2> QED BY <2>1
<1>2. PICK n \in Stuck : \A m \in Stuck : n <= m
  <2>1. Stuck \subseteq Nat
    OBVIOUS
  <2> HIDE DEF Stuck
  <2> QED BY <1>1, <2>1, NaturalsHaveLeast
<1>3. CASE n = 0
  <2>1. [m \in 0..0 |-> v0] \in [0..0 -> V] /\ Upto(0, [m \in 0..0 |-> v0])
    BY DEF Follows
  <2> QED BY <1>2, <1>3, <2>1
<1>4. CASE n # 0
  <2>1. n \in 1..N /\ n - 1 \in 0..N /\ n - 1 < n
    BY <1>2, <1>4
  <2>0. n - 1 \notin Stuck
    <3> HIDE DEF Stuck
    <3> QED BY <1>2, <2>1
  <2>2. PICK f \in [0..(n - 1) -> V] : Upto(n - 1, f)
    <3> HIDE DEF Upto
    <3> QED BY <2>0, <2>1
  <2> DEFINE g == [m \in 0..n |-> IF m = n THEN step[n][f[n - 1]] ELSE f[m]]
  <2>3. g \in [0..n -> V]
    BY <2>1, <2>2
  <2>4. g[0] = v0
    BY <2>1, <2>2 DEF Follows
  <2>5. ASSUME NEW m \in 1..n PROVE g[m] = step[m][g[m - 1]]
    <3>1. g[m - 1] = f[m - 1]
      BY <2>1, <2>5
    <3> QED BY <2>1, <2>2, <2>5, <3>1 DEF Follows
  <2>6. Upto(n, g)
    BY <2>4, <2>5 DEF Follows
  <2> HIDE DEF g, Upto
  <2> QED BY <1>2, <2>3, <2>6
<1> QED BY <1>3, <1>4

\* f[n] is what closes within n steps.
Stages(f, N, valid) ==
    /\ f \in [0..N -> SUBSET valid] /\ f[0] = {}
    /\ \A n \in 1..N : f[n] = {x \in valid : Refs[x] \subseteq f[n - 1]}

\* The chains that close, by their length.
LEMMA ClosedMeans ==
    ASSUME NEW valid
    PROVE  \E N \in Nat : \E f : Stages(f, N, valid) /\ Closed(valid) = f[N]
<1> DEFINE N == Cardinality(Derivs)
           step == [n \in 1..N |-> [S \in SUBSET valid |-> {x \in valid : Refs[x] \subseteq S}]]
           Is(f) == f = [n \in 0..N |-> IF n = 0 THEN {} ELSE {x \in valid : Refs[x] \subseteq f[n - 1]}]
           Within == CHOOSE f : Is(f)
<1>1. N \in Nat
  BY RetrievalAssumption, FS_CardinalityType
<1>2. Closed(valid) = Within[N]
  BY DEF Closed
<1> HIDE DEF N
<1>3. step \in [1..N -> [SUBSET valid -> SUBSET valid]]
  OBVIOUS
<1>4. PICK f \in [0..N -> SUBSET valid] : Follows(f, N, {}, step)
  <2> DEFINE V == SUBSET valid
             v0 == {}
  <2>1. v0 \in V /\ step \in [1..N -> [V -> V]]
    BY <1>3
  <2> HIDE DEF step, V, v0
  <2>2. \E f \in [0..N -> V] : Follows(f, N, v0, step)
    BY <1>1, <2>1, StepsMakeAFunction
  <2> QED BY <2>2 DEF V, v0
<1>5. \A n \in 1..N : f[n] = {x \in valid : Refs[x] \subseteq f[n - 1]}
  <2> SUFFICES ASSUME NEW n \in 1..N PROVE f[n] = {x \in valid : Refs[x] \subseteq f[n - 1]}
    OBVIOUS
  <2>1. f[n] = step[n][f[n - 1]] /\ f[n - 1] \in SUBSET valid
    <3> HIDE DEF step
    <3> QED BY <1>1, <1>4 DEF Follows
  <2> QED BY <2>1
<1> HIDE DEF step
<1>6. Is(f)
  <2>1. \A n \in 0..N : f[n] = IF n = 0 THEN {} ELSE {x \in valid : Refs[x] \subseteq f[n - 1]}
    BY <1>1, <1>4, <1>5 DEF Follows
  <2> QED BY <1>4, <2>1
<1>7. Is(Within)
  <2> HIDE DEF Is
  <2> QED BY <1>6
<1>8. Stages(Within, N, valid)
  <2> SUFFICES ASSUME NEW W, Is(W) PROVE Stages(W, N, valid)
    <3> HIDE DEF Is
    <3> QED BY <1>7
  <2>1. DOMAIN W = 0..N /\ W[0] = {}
    BY <1>1
  <2>2. ASSUME NEW n \in 1..N PROVE W[n] = {x \in valid : Refs[x] \subseteq W[n - 1]}
    <3>1. n \in 0..N /\ n # 0
      BY <1>1
    <3> QED BY <3>1
  <2>3. \A n \in 0..N : W[n] \subseteq valid
    BY <1>1, <2>1, <2>2
  <2>4. W = [n \in 0..N |-> W[n]]
    OBVIOUS
  <2> HIDE DEF Is
  <2> QED BY <2>1, <2>2, <2>3, <2>4 DEF Stages
<1> HIDE DEF Within
<1> QED BY <1>1, <1>2, <1>8

\* A chain that closes has only valid members, and comes back to none of them.
LEMMA ClosedIsGrounded ==
    ASSUME NEW valid \in SUBSET Derivs, NEW d \in Closed(valid)
    PROVE  \A x \in {d} \cup Rests(d) : x \in valid /\ x \notin Rests(x)
<1>0. PICK N \in Nat : \E f : Stages(f, N, valid) /\ Closed(valid) = f[N]
  BY ClosedMeans
<1>10. PICK f : Stages(f, N, valid) /\ Closed(valid) = f[N]
  BY <1>0
<1>1. /\ f \in [0..N -> SUBSET valid] /\ f[0] = {} /\ Closed(valid) = f[N]
      /\ \A n \in 1..N : f[n] = {x \in valid : Refs[x] \subseteq f[n - 1]}
  BY <1>10 DEF Stages
<1> DEFINE Shorter(n) == UNION {f[m] : m \in 0..n}
<1>2. ASSUME NEW n \in 0..N, NEW x \in Shorter(n)
      PROVE  x \in valid /\ \E m \in 1..n : x \in f[m] /\ Refs[x] \subseteq f[m - 1]
  <2>1. PICK m \in 0..n : x \in f[m]
    OBVIOUS
  <2>2. m \in 1..N
    BY <1>0, <1>1, <2>1
  <2> QED BY <1>0, <1>1, <2>1, <2>2
<1>3. ASSUME NEW n \in 0..N, NEW x \in Derivs, Refs[x] \subseteq Shorter(n) PROVE Rests(x) \subseteq Shorter(n)
  <2>1. Shorter(n) \in SUBSET Derivs
    BY <1>2
  <2>2. ASSUME NEW y \in Shorter(n) PROVE Refs[y] \subseteq Shorter(n)
    <3>1. PICK m \in 1..n : Refs[y] \subseteq f[m - 1]
      BY <1>2
    <3>2. m - 1 \in 0..n
      BY <1>0, <3>1
    <3> QED BY <3>1, <3>2
  <2> HIDE DEF Shorter
  <2> QED BY <1>3, <2>1, <2>2 DEF Rests
<1>4. ASSUME NEW x \in Shorter(N) PROVE x \in valid /\ x \notin Rests(x)
  <2> DEFINE T == {n \in 0..N : x \in f[n]}
  <2>1. T # {} /\ T \subseteq Nat
    BY <1>0, <1>4
  <2>2. PICK n \in T : \A m \in T : n <= m
    <3> HIDE DEF T
    <3> QED BY <2>1, NaturalsHaveLeast
  <2>3. n \in 1..N /\ n - 1 \in 0..N /\ Refs[x] \subseteq f[n - 1] /\ x \in valid
    BY <1>0, <1>1, <2>2
  <2>4. Refs[x] \subseteq Shorter(n - 1)
    <3>1. n - 1 \in 0..(n - 1)
      BY <2>3
    <3> QED BY <2>3, <3>1
  <2>5. x \notin Shorter(n - 1)
    <3> SUFFICES ASSUME NEW m \in 0..(n - 1), x \in f[m] PROVE FALSE
      OBVIOUS
    <3>1. m \in T /\ m < n
      BY <1>0, <2>3
    <3> QED BY <2>2, <2>3, <3>1
  <2> HIDE DEF Shorter
  <2> QED BY <1>3, <2>3, <2>4, <2>5
<1>5. d \in Shorter(N) /\ d \in Derivs /\ Refs[d] \subseteq Shorter(N)
  <2>1. d \in f[N] /\ N \in 0..N
    BY <1>0, <1>1
  <2>2. d \in Shorter(N)
    BY <2>1
  <2>3. PICK m \in 1..N : Refs[d] \subseteq f[m - 1]
    BY <1>0, <1>2, <2>1, <2>2
  <2>4. m - 1 \in 0..N
    BY <1>0
  <2> QED BY <1>0, <1>1, <2>1, <2>2, <2>3, <2>4
<1>6. Rests(d) \subseteq Shorter(N)
  <2> HIDE DEF Shorter
  <2> QED BY <1>0, <1>3, <1>5
<1> HIDE DEF Shorter
<1> QED BY <1>4, <1>5, <1>6

\* f[n] is what the first n lists make together.
Flattens(f, V, lists) ==
    /\ f \in [0..Len(lists) -> Seq(V)] /\ f[0] = << >> /\ f[Len(lists)] = FlattenSeq(lists)
    /\ \A n \in 1..Len(lists) : f[n] = f[n - 1] \o lists[n]

\* The lists of a list make one list, one after the other.
LEMMA FlatMeans ==
    ASSUME NEW V, NEW lists \in Seq(Seq(V))
    PROVE  \E f : Flattens(f, V, lists)
<1> DEFINE N == Len(lists)
           step == [n \in 1..N |-> [s \in Seq(V) |-> s \o lists[n]]]
           Is(f) == f = [i \in 1..N |-> IF i = 1 THEN lists[i] ELSE f[i - 1] \o lists[i]]
           flatten == CHOOSE f : Is(f)
<1>1. N \in Nat /\ \A n \in 1..N : lists[n] \in Seq(V)
  OBVIOUS
<1>2. CASE N = 0
  <2>1. lists = << >>
    BY <1>2
  <2>2. FlattenSeq(lists) = << >>
    BY <1>2, <2>1 DEF FlattenSeq
  <2>3. Flattens([n \in 0..0 |-> << >>], V, lists)
    BY <1>2, <2>2 DEF Flattens
  <2> QED BY <2>3
<1>3. CASE N # 0
  <2>1. FlattenSeq(lists) = flatten[N]
    BY <1>3 DEF FlattenSeq
  <2> HIDE DEF N
  <2>2. step \in [1..N -> [Seq(V) -> Seq(V)]]
    BY <1>1
  <2>3. PICK f \in [0..N -> Seq(V)] : Follows(f, N, << >>, step)
    <3> DEFINE S == Seq(V)
               e == << >>
    <3>1. e \in S /\ step \in [1..N -> [S -> S]]
      BY <2>2
    <3> HIDE DEF S, e, step
    <3>2. \E f \in [0..N -> S] : Follows(f, N, e, step)
      BY <1>1, <3>1, StepsMakeAFunction
    <3> QED BY <3>2 DEF S, e
  <2> DEFINE g == [n \in 1..N |-> f[n]]
  <2>4. ASSUME NEW n \in 1..N PROVE f[n] = IF n = 1 THEN lists[n] ELSE f[n - 1] \o lists[n]
    <3>1. f[n] = step[n][f[n - 1]] /\ f[n - 1] \in Seq(V) /\ f[0] = << >>
      <4> HIDE DEF step
      <4> QED BY <1>1, <2>3 DEF Follows
    <3>2. f[n] = f[n - 1] \o lists[n]
      BY <3>1
    <3>3. n = 1 => f[n] = << >> \o lists[n]
      <4>1. n = 1 => f[n - 1] = << >>
        BY <3>1
      <4> HIDE DEF step
      <4> QED BY <3>2, <4>1
    <3>4. << >> \o lists[n] = lists[n]
      BY <1>1
    <3> HIDE DEF step
    <3> QED BY <3>2, <3>3, <3>4
  <2>5. Is(g)
    <3>1. \A n \in 1..N : g[n] = IF n = 1 THEN lists[n] ELSE g[n - 1] \o lists[n]
      <4> SUFFICES ASSUME NEW n \in 1..N PROVE g[n] = IF n = 1 THEN lists[n] ELSE g[n - 1] \o lists[n]
        OBVIOUS
      <4>1. n # 1 => n - 1 \in 1..N
        BY <1>1
      <4> HIDE DEF step
      <4> QED BY <2>4, <4>1
    <3> QED BY <3>1
  <2>6. Is(flatten)
    <3> HIDE DEF Is
    <3> QED BY <2>5
  <2> HIDE DEF g, step
  <2>7. ASSUME NEW h, Is(h) PROVE \A n \in 1..N : h[n] \in Seq(V)
    <3> DEFINE Off == {n \in 1..N : h[n] \notin Seq(V)}
    <3>1. SUFFICES ASSUME Off # {} PROVE FALSE
      OBVIOUS
    <3>2. PICK n \in Off : \A m \in Off : n <= m
      <4>1. Off \subseteq Nat
        BY <1>1
      <4> HIDE DEF Off
      <4> QED BY <3>1, <4>1, NaturalsHaveLeast
    <3>3. CASE n = 1
      BY <1>1, <2>7, <3>2, <3>3
    <3>4. CASE n # 1
      <4>1. n - 1 \in 1..N /\ n - 1 < n /\ n \in 1..N
        BY <1>1, <3>2, <3>4
      <4>2. h[n - 1] \in Seq(V)
        BY <3>2, <4>1
      <4>3. h[n] = h[n - 1] \o lists[n]
        BY <2>7, <3>4, <4>1
      <4>4. lists[n] \in Seq(V)
        BY <1>1, <4>1
      <4>5. h[n - 1] \o lists[n] \in Seq(V)
        BY <4>2, <4>4
      <4> QED BY <3>2, <4>3, <4>5
    <3> QED BY <3>3, <3>4
  <2>8. \A n \in 1..N : flatten[n] = IF n = 1 THEN lists[n] ELSE flatten[n - 1] \o lists[n]
    <3> SUFFICES ASSUME NEW h, Is(h)
                 PROVE  \A n \in 1..N : h[n] = IF n = 1 THEN lists[n] ELSE h[n - 1] \o lists[n]
      <4> HIDE DEF Is
      <4> QED BY <2>6
    <3> QED OBVIOUS
  <2>9. \A n \in 1..N : flatten[n] \in Seq(V)
    <3> HIDE DEF Is
    <3> QED BY <2>6, <2>7
  <2> HIDE DEF Is, flatten
  <2> DEFINE k == [n \in 0..N |-> IF n = 0 THEN << >> ELSE flatten[n]]
  <2>10. k \in [0..N -> Seq(V)] /\ k[0] = << >> /\ k[N] = FlattenSeq(lists)
    BY <1>1, <1>3, <2>1, <2>9
  <2>11. ASSUME NEW n \in 1..N PROVE k[n] = k[n - 1] \o lists[n]
    <3>1. CASE n = 1
      <4>1. k[n] = lists[n] /\ k[n - 1] = << >> /\ lists[n] \in Seq(V)
        BY <1>1, <2>8, <3>1
      <4> HIDE DEF k
      <4> QED BY <4>1
    <3>2. CASE n # 1
      <4>1. n - 1 \in 1..N /\ n \in 1..N /\ n # 0 /\ n - 1 # 0
        BY <1>1, <3>2
      <4>2. k[n] = flatten[n] /\ k[n - 1] = flatten[n - 1]
        BY <1>1, <4>1
      <4>3. flatten[n] = flatten[n - 1] \o lists[n]
        BY <2>8, <3>2
      <4> HIDE DEF k
      <4> QED BY <4>2, <4>3
    <3> QED BY <3>1, <3>2
  <2> HIDE DEF k
  <2>12. Flattens(k, V, lists)
    BY <2>10, <2>11 DEF Flattens, N
  <2> QED BY <2>12
<1> QED BY <1>2, <1>3

\* A set that a function makes of a finite one is finite.
LEMMA ImageIsFinite ==
    ASSUME NEW S, IsFiniteSet(S), NEW f
    PROVE  IsFiniteSet({f[x] : x \in S})
<1> DEFINE T == {f[x] : x \in S}
           g == [x \in S |-> f[x]]
<1>1. g \in Surjection(S, T)
  BY DEF Surjection
<1> HIDE DEF T, g
<1>2. IsFiniteSet(T)
  BY <1>1, FS_Surjection
<1> QED BY <1>2 DEF T

\* val[x] and what comes of the rest, for an element x of each set.
Adds(sum, S, val) ==
    sum = [s \in SUBSET S |->
              IF s = {} THEN 0 ELSE val[CHOOSE x \in s : TRUE] + sum[s \ {CHOOSE x \in s : TRUE}]]

\* Numbers of finitely many can be added up.
LEMMA SumExists ==
    ASSUME NEW S, IsFiniteSet(S), NEW val \in [S -> Int]
    PROVE  \E sum : Adds(sum, S, val)
<1> DEFINE N == Cardinality(S)
           one(s) == CHOOSE x \in s : TRUE
           V == [SUBSET S -> Int]
           v0 == [s \in SUBSET S |-> 0]
           next(h) == [s \in SUBSET S |-> IF s = {} THEN 0 ELSE val[one(s)] + h[s \ {one(s)}]]
           step == [n \in 1..N |-> [h \in V |-> next(h)]]
<1>1. N \in Nat /\ \A s \in SUBSET S : IsFiniteSet(s) /\ Cardinality(s) \in 0..N
  BY FS_CardinalityType, FS_Subset
<1>2. \A s \in SUBSET S : s # {} => one(s) \in s
  OBVIOUS
<1>3. \A s \in SUBSET S : s # {} => Cardinality(s) \in 1..N /\ Cardinality(s \ {one(s)}) = Cardinality(s) - 1
  <2> SUFFICES ASSUME NEW s \in SUBSET S, s # {}
               PROVE  Cardinality(s) \in 1..N /\ Cardinality(s \ {one(s)}) = Cardinality(s) - 1
    OBVIOUS
  <2>1. Cardinality(s \ {one(s)}) = Cardinality(s) - 1
    BY <1>1, <1>2, FS_RemoveElement
  <2>2. Cardinality(s) # 0
    BY <1>1, FS_EmptySet
  <2> QED BY <1>1, <2>1, <2>2
<1>4. \A h \in V : next(h) \in V
  <2> SUFFICES ASSUME NEW h \in V, NEW s \in SUBSET S, s # {} PROVE val[one(s)] + h[s \ {one(s)}] \in Int
    OBVIOUS
  <2>1. one(s) \in S /\ s \ {one(s)} \in SUBSET S
    BY <1>2
  <2> HIDE DEF one
  <2> QED BY <2>1
<1>5. v0 \in V /\ step \in [1..N -> [V -> V]]
  <2>2. v0 \in V
    OBVIOUS
  <2> HIDE DEF V, v0, next
  <2>1. step \in [1..N -> [V -> V]]
    BY <1>4
  <2> QED BY <2>1, <2>2
<1>6. PICK f \in [0..N -> V] : Follows(f, N, v0, step)
  <2> HIDE DEF V, v0, step, N
  <2> QED BY <1>1, <1>5, StepsMakeAFunction
<1> DEFINE sum == [s \in SUBSET S |-> f[Cardinality(s)][s]]
<1>7. ASSUME NEW s \in SUBSET S PROVE sum[s] = IF s = {} THEN 0 ELSE val[one(s)] + sum[s \ {one(s)}]
  <2>1. CASE s = {}
    <3>1. Cardinality(s) = 0
      BY <2>1, FS_EmptySet
    <3>2. f[0] = v0
      <4> HIDE DEF v0, step
      <4> QED BY <1>6 DEF Follows
    <3> QED BY <2>1, <3>1, <3>2
  <2>2. CASE s # {}
    <3>1. Cardinality(s) \in 1..N /\ Cardinality(s \ {one(s)}) = Cardinality(s) - 1
      BY <1>3, <2>2
    <3> HIDE DEF N, one
    <3> PICK n : n = Cardinality(s)
      OBVIOUS
    <3>2. f[n] = step[n][f[n - 1]] /\ f[n - 1] \in V
      <4> HIDE DEF V, v0, step
      <4> QED BY <1>1, <1>6, <3>1 DEF Follows
    <3>3. f[n] = next(f[n - 1])
      <4> HIDE DEF V, next
      <4> QED BY <3>1, <3>2
    <3>4. f[n][s] = val[one(s)] + f[n - 1][s \ {one(s)}]
      BY <2>2, <3>3
    <3>5. s \ {one(s)} \in SUBSET S
      OBVIOUS
    <3> HIDE DEF V, v0, step, next
    <3> QED BY <2>2, <3>1, <3>4, <3>5
  <2> QED BY <2>1, <2>2
<1>8. Adds(sum, S, val)
  <2>1. sum = [s \in SUBSET S |-> sum[s]]
    OBVIOUS
  <2> HIDE DEF sum
  <2>2. sum = [s \in SUBSET S |-> IF s = {} THEN 0 ELSE val[one(s)] + sum[s \ {one(s)}]]
    BY <1>7, <2>1
  <2> QED BY <2>2 DEF Adds
<1> HIDE DEF sum
<1> QED BY <1>8

\* Their sum is a number.
LEMMA SumIsNumber ==
    ASSUME NEW S, IsFiniteSet(S), NEW val \in [S -> Int]
    PROVE  SumFunction(val) \in Int
<1> DEFINE sum == CHOOSE f : Adds(f, S, val)
           one(s) == CHOOSE x \in s : TRUE
<1>1. DOMAIN val = S
  OBVIOUS
<1>2. SumFunction(val) = sum[S]
  BY <1>1 DEF SumFunction, SumFunctionOnSet, FoldFunctionOnSet, MapThenFoldSet, Adds
<1>3. Adds(sum, S, val)
  BY SumExists
<1> HIDE DEF sum
<1> DEFINE Off == {s \in SUBSET S : sum[s] \notin Int}
           sizes == {Cardinality(s) : s \in Off}
<1>4. SUFFICES ASSUME Off # {} PROVE FALSE
  <2>1. S \in SUBSET S
    OBVIOUS
  <2> QED BY <1>2, <2>1
<1>5. \A s \in SUBSET S : IsFiniteSet(s) /\ Cardinality(s) \in Nat
  BY FS_CardinalityType, FS_Subset
<1>6. PICK n \in sizes : \A m \in sizes : n <= m
  <2>1. sizes # {} /\ sizes \subseteq Nat
    BY <1>4, <1>5
  <2> HIDE DEF sizes
  <2> QED BY <2>1, NaturalsHaveLeast
<1>7. PICK s \in Off : n = Cardinality(s)
  BY <1>6
<1>8. sum[s] = IF s = {} THEN 0 ELSE val[one(s)] + sum[s \ {one(s)}]
  BY <1>3, <1>7 DEF Adds
<1>9. s # {} /\ one(s) \in s /\ s \ {one(s)} \in SUBSET S
  BY <1>7, <1>8
<1>10. Cardinality(s \ {one(s)}) < n
  <2>1. IsFiniteSet(s) /\ Cardinality(s) \in Nat
    BY <1>5, <1>7
  <2> HIDE DEF one, Off
  <2>2. Cardinality(s \ {one(s)}) = Cardinality(s) - 1
    BY <1>9, <2>1, FS_RemoveElement
  <2> QED BY <1>7, <2>1, <2>2
<1>11. s \ {one(s)} \notin Off
  <2> HIDE DEF Off, one
  <2>1. n \in Nat /\ Cardinality(s \ {one(s)}) \in Nat
    BY <1>5, <1>7, <1>9 DEF Off
  <2> QED BY <1>6, <1>10, <2>1
<1> HIDE DEF one
<1> QED BY <1>7, <1>8, <1>9, <1>11

\* What is in order has its places: each is taken once, by a member.
LEMMA OrderMeans ==
    ASSUME NEW scored \in SUBSET (Int \X Int), IsFiniteSet(scored)
    PROVE  /\ Cardinality(scored) \in Nat /\ DOMAIN InOrder(scored) = 1..Cardinality(scored)
           /\ \A k \in 1..Cardinality(scored) :
                  \E p \in scored : Place(scored, p) = k - 1 /\ InOrder(scored)[k] = p[1]
           /\ \A p \in scored : \E k \in 1..Cardinality(scored) : Place(scored, p) = k - 1
           /\ \A p, q \in scored : Place(scored, p) = Place(scored, q) => p = q
<1> DEFINE N == Cardinality(scored)
           ahead(p) == {q \in scored : Before(q, p)}
           places == 0..(N - 1)
           place == [p \in scored |-> Place(scored, p)]
<1>1. N \in Nat
  BY FS_CardinalityType
<1>2. \A p \in scored : IsFiniteSet(ahead(p)) /\ Cardinality(ahead(p)) \in Nat
  BY FS_CardinalityType, FS_Subset
<1>3. ASSUME NEW p \in scored PROVE Place(scored, p) \in places
  <2>1. ahead(p) \in SUBSET scored /\ p \notin ahead(p)
    BY DEF Before
  <2> HIDE DEF ahead
  <2>2. Cardinality(ahead(p)) <= N /\ Cardinality(ahead(p)) # N
    BY <2>1, FS_Subset
  <2>3. Place(scored, p) = Cardinality(ahead(p))
    BY DEF Place, ahead
  <2> HIDE DEF N
  <2> QED BY <1>1, <1>2, <2>2, <2>3
<1>4. ASSUME NEW p \in scored, NEW q \in scored, Before(p, q) PROVE Place(scored, p) < Place(scored, q)
  <2>1. ahead(p) \in SUBSET ahead(q)
    <3> SUFFICES ASSUME NEW r \in scored, Before(r, p) PROVE Before(r, q)
      OBVIOUS
    <3>1. /\ p[1] \in Int /\ p[2] \in Int /\ q[1] \in Int /\ q[2] \in Int /\ r[1] \in Int /\ r[2] \in Int
      OBVIOUS
    <3> QED BY <1>4, <3>1 DEF Before
  <2>2. p \in ahead(q) /\ p \notin ahead(p)
    BY <1>4 DEF Before
  <2> HIDE DEF ahead
  <2>3. Cardinality(ahead(p)) <= Cardinality(ahead(q)) /\ Cardinality(ahead(p)) # Cardinality(ahead(q))
    BY <1>2, <2>1, <2>2, FS_Subset
  <2>4. Place(scored, p) = Cardinality(ahead(p)) /\ Place(scored, q) = Cardinality(ahead(q))
    BY DEF Place, ahead
  <2> QED BY <1>2, <2>3, <2>4
<1>5. ASSUME NEW p \in scored, NEW q \in scored, p # q PROVE Before(p, q) \/ Before(q, p)
  <2>1. /\ p[1] \in Int /\ p[2] \in Int /\ q[1] \in Int /\ q[2] \in Int
        /\ p[1] # q[1] \/ p[2] # q[2]
    BY <1>5
  <2> QED BY <2>1 DEF Before
<1>6. \A p, q \in scored : Place(scored, p) = Place(scored, q) => p = q
  <2> SUFFICES ASSUME NEW p \in scored, NEW q \in scored, Place(scored, p) = Place(scored, q), p # q PROVE FALSE
    OBVIOUS
  <2>1. Place(scored, p) \in Int /\ Place(scored, q) \in Int
    BY <1>1, <1>3
  <2> QED BY <1>4, <1>5, <2>1
<1>7. place \in Injection(scored, places)
  <2>1. place \in [scored -> places]
    BY <1>3
  <2>2. \A p, q \in scored : place[p] = place[q] => p = q
    BY <1>6
  <2> HIDE DEF place, places
  <2> QED BY <2>1, <2>2 DEF Injection, IsInjective
<1>8. IsFiniteSet(places) /\ Cardinality(places) = N
  <2> HIDE DEF N
  <2>1. 0 \in Int /\ N - 1 \in Int
    BY <1>1
  <2>2. IsFiniteSet(places) /\ Cardinality(places) = IF 0 > N - 1 THEN 0 ELSE (N - 1) - 0 + 1
    BY <2>1, FS_Interval
  <2> HIDE DEF places
  <2> QED BY <1>1, <2>2
<1>9. place \in Surjection(scored, places)
  <2> HIDE DEF place, places
  <2> QED BY <1>7, <1>8, FS_Injection
<1>10. \A k \in 1..N : \E p \in scored : Place(scored, p) = k - 1
  <2> SUFFICES ASSUME NEW k \in 1..N PROVE \E p \in scored : place[p] = k - 1
    OBVIOUS
  <2>1. k - 1 \in places
    <3> HIDE DEF N
    <3> QED BY <1>1
  <2> HIDE DEF place, places
  <2> QED BY <1>9, <2>1 DEF Surjection
<1>11. /\ DOMAIN InOrder(scored) = 1..N
       /\ \A k \in 1..N : InOrder(scored)[k] = (CHOOSE p \in scored : Place(scored, p) = k - 1)[1]
  <2>1. InOrder(scored) = [k \in 1..N |-> (CHOOSE p \in scored : Place(scored, p) = k - 1)[1]]
    BY DEF InOrder
  <2> QED BY <2>1
<1>12. \A k \in 1..N : \E p \in scored : Place(scored, p) = k - 1 /\ InOrder(scored)[k] = p[1]
  BY <1>10, <1>11
<1>13. \A p \in scored : \E k \in 1..N : Place(scored, p) = k - 1
  <2> SUFFICES ASSUME NEW p \in scored PROVE \E k \in 1..N : Place(scored, p) = k - 1
    OBVIOUS
  <2>1. Place(scored, p) + 1 \in 1..N
    <3> HIDE DEF N
    <3> QED BY <1>1, <1>3
  <2>2. Place(scored, p) = (Place(scored, p) + 1) - 1
    BY <1>1, <1>3
  <2> QED BY <2>1, <2>2
<1> QED BY <1>1, <1>6, <1>11, <1>12, <1>13

\* A channel has the records that were scored, each with a number.
LEMMA ChannelMeans ==
    ASSUME NEW R, NEW weight \in Nat, NEW scored, IsFiniteSet(scored), \A p \in scored : p[1] \in R
    PROVE  IsFiniteSet(Channel(weight, scored)) /\ Channel(weight, scored) \subseteq R \X Int
<1> DEFINE f == [p \in scored |-> <<p[1], (weight * 10000) \div (61 + Place(scored, p))>>]
<1>1. Channel(weight, scored) = {f[p] : p \in scored}
  BY DEF Channel
<1>2. ASSUME NEW p \in scored PROVE f[p] \in R \X Int
  <2> DEFINE ahead == {q \in scored : Before(q, p)}
  <2>1. ahead \subseteq scored /\ Place(scored, p) = Cardinality(ahead)
    BY DEF Place
  <2> HIDE DEF ahead
  <2>2. Place(scored, p) \in Nat
    BY <2>1, FS_Subset, FS_CardinalityType
  <2> DEFINE a == weight * 10000
             b == 61 + Place(scored, p)
  <2>3. a \in Int /\ b \in Int /\ b > 0
    BY <2>2
  <2> HIDE DEF a, b
  <2>4. a \div b \in Int
    BY <2>3
  <2> QED BY <2>4 DEF a, b
<1> HIDE DEF f
<1> QED BY <1>1, <1>2, ImageIsFinite

\* Channels together give each of their records one number.
LEMMA FusedMeans ==
    ASSUME NEW R, NEW channels, IsFiniteSet(DOMAIN channels),
           \A n \in DOMAIN channels : IsFiniteSet(channels[n]) /\ channels[n] \subseteq R \X Int
    PROVE  /\ IsFiniteSet(Fused(channels)) /\ Fused(channels) \subseteq R \X Int
           /\ \A p, q \in Fused(channels) : p[1] = q[1] => p = q
           /\ \A p \in Fused(channels) : \E n \in DOMAIN channels : \E q \in channels[n] : q[1] = p[1]
<1> DEFINE U == UNION ToSet(channels)
           D == {p[1] : p \in U}
<1>1. IsFiniteSet(U)
  <2> DEFINE f == [n \in DOMAIN channels |-> channels[n]]
  <2>1. ToSet(channels) = {f[n] : n \in DOMAIN channels}
    BY DEF ToSet
  <2> HIDE DEF f
  <2>2. IsFiniteSet(ToSet(channels))
    BY <2>1, ImageIsFinite
  <2>3. \A c \in ToSet(channels) : IsFiniteSet(c)
    BY DEF ToSet
  <2> QED BY <2>2, <2>3, FS_UNION
<1>2. IsFiniteSet(D) /\ D \subseteq R
  <2> DEFINE f == [p \in U |-> p[1]]
  <2>1. D = {f[p] : p \in U}
    OBVIOUS
  <2>2. D \subseteq R
    BY DEF ToSet
  <2> HIDE DEF f, U, D
  <2> QED BY <1>1, <2>1, <2>2, ImageIsFinite
<1>3. ASSUME NEW d PROVE Share(channels, d) \in Int
  <2> DEFINE own(n) == {q \in channels[n] : q[1] = d}
             each(n) == [p \in own(n) |-> p[2]]
             all == [n \in DOMAIN channels |-> SumFunction(each(n))]
  <2>1. ASSUME NEW n \in DOMAIN channels PROVE SumFunction(each(n)) \in Int
    <3>1. IsFiniteSet(own(n)) /\ own(n) \subseteq R \X Int
      BY FS_Subset
    <3>2. each(n) \in [own(n) -> Int]
      BY <3>1
    <3> HIDE DEF own, each
    <3> QED BY <3>1, <3>2, SumIsNumber
  <2>2. all \in [DOMAIN channels -> Int]
    BY <2>1
  <2>3. Share(channels, d) = SumFunction(all)
    BY DEF Share
  <2> HIDE DEF all
  <2> QED BY <2>2, <2>3, SumIsNumber
<1> DEFINE f == [d \in D |-> <<d, Share(channels, d)>>]
<1>4. Fused(channels) = {f[d] : d \in D}
  <2>1. {f[d] : d \in D} = {<<d, Share(channels, d)>> : d \in D}
    OBVIOUS
  <2> HIDE DEF f
  <2>2. Fused(channels) = {<<d, Share(channels, d)>> : d \in {p[1] : p \in U}}
    BY DEF Fused
  <2> QED BY <2>1, <2>2
<1>5. \A d \in D : f[d][1] = d /\ f[d] \in R \X Int
  BY <1>2, <1>3
<1>6. \A d \in D : \E n \in DOMAIN channels : \E q \in channels[n] : q[1] = d
  BY DEF ToSet
<1> HIDE DEF D, f
<1> QED BY <1>2, <1>4, <1>5, <1>6, ImageIsFinite

\* Scored records in order are a list in which each stands once.
LEMMA OrderIsListOf ==
    ASSUME NEW R \in SUBSET Int, NEW scored \in SUBSET (R \X Int), IsFiniteSet(scored),
           \A p, q \in scored : p[1] = q[1] => p = q
    PROVE  InOrder(scored) \in Seq({p[1] : p \in scored}) /\ IsInjective(InOrder(scored))
<1> DEFINE N == Cardinality(scored)
           order == InOrder(scored)
<1>1. /\ N \in Nat /\ DOMAIN order = 1..N
      /\ \A k \in 1..N : \E p \in scored : Place(scored, p) = k - 1 /\ order[k] = p[1]
  <2>1. scored \in SUBSET (Int \X Int)
    OBVIOUS
  <2> QED BY <2>1, OrderMeans
<1>2. order = [k \in 1..N |-> order[k]]
  <2>1. InOrder(scored) = [k \in 1..Cardinality(scored) |-> (CHOOSE p \in scored : Place(scored, p) = k - 1)[1]]
    BY DEF InOrder
  <2> QED BY <2>1
<1> HIDE DEF N, order
<1>3. \A k \in 1..N : order[k] \in {p[1] : p \in scored}
  BY <1>1
<1>4. order \in Seq({p[1] : p \in scored})
  BY <1>1, <1>2, <1>3
<1>5. ASSUME NEW k \in 1..N, NEW l \in 1..N, order[k] = order[l] PROVE k = l
  <2>1. PICK p \in scored : Place(scored, p) = k - 1 /\ order[k] = p[1]
    BY <1>1
  <2>2. PICK q \in scored : Place(scored, q) = l - 1 /\ order[l] = q[1]
    BY <1>1
  <2>3. p = q
    BY <1>5, <2>1, <2>2
  <2> QED BY <1>1, <2>1, <2>2, <2>3
<1>6. IsInjective(order)
  BY <1>1, <1>5 DEF IsInjective
<1> QED BY <1>4, <1>6 DEF order

\* How many of the first n entries are records, not snippets.
Records(s, n) == Cardinality({m \in 1..n : s[m] > 0})

\* The first i of an order with some of their snippets: the records keep their
\* order, and a snippet stands behind its entity.
Interleaved(s, order, ents, i) ==
    /\ s \in Seq(Int) /\ Records(s, Len(s)) = i
    /\ \A n \in DOMAIN s : s[n] # 0
    /\ \A n \in DOMAIN s : s[n] > 0 => Records(s, n) \in 1..i /\ s[n] = order[Records(s, n)]
    /\ \A n \in DOMAIN s : s[n] < 0 => n > 1 /\ s[n - 1] = -s[n] /\ -s[n] \in ents

\* Records are counted one by one.
LEMMA RecordsMeans ==
    ASSUME NEW s, NEW n \in Nat
    PROVE  /\ Records(s, n) \in Nat /\ Records(s, 0) = 0
           /\ Records(s, n + 1) = Records(s, n) + (IF s[n + 1] > 0 THEN 1 ELSE 0)
<1> DEFINE C(k) == {m \in 1..k : s[m] > 0}
<1>1. \A k \in Nat : IsFiniteSet(C(k)) /\ Cardinality(C(k)) \in Nat
  <2> SUFFICES ASSUME NEW k \in Nat PROVE IsFiniteSet(C(k)) /\ Cardinality(C(k)) \in Nat
    OBVIOUS
  <2>1. IsFiniteSet(1..k) /\ C(k) \subseteq 1..k
    BY FS_Interval
  <2> HIDE DEF C
  <2> QED BY <2>1, FS_Subset, FS_CardinalityType
<1>2. C(0) = {}
  OBVIOUS
<1>0. \A k : Records(s, k) = Cardinality(C(k))
  BY DEF Records
<1>5. Records(s, n) \in Nat /\ Records(s, 0) = 0
  <2> HIDE DEF C
  <2> QED BY <1>0, <1>1, <1>2, FS_EmptySet
<1>3. CASE s[n + 1] > 0
  <2>1. C(n + 1) = C(n) \cup {n + 1} /\ n + 1 \notin C(n)
    BY <1>3
  <2> HIDE DEF C
  <2>2. Cardinality(C(n + 1)) = Cardinality(C(n)) + 1
    BY <1>1, <2>1, FS_AddElement
  <2> QED BY <1>0, <1>3, <1>5, <2>2
<1>4. CASE ~(s[n + 1] > 0)
  <2>1. C(n + 1) = C(n)
    BY <1>4
  <2> HIDE DEF C
  <2> QED BY <1>0, <1>4, <1>5, <2>1
<1> QED BY <1>3, <1>4

\* The count is that of the entries, whatever else there is.
LEMMA RecordsOfPrefix ==
    ASSUME NEW s, NEW t, NEW n \in Nat, \A m \in 1..n : s[m] = t[m]
    PROVE  Records(s, n) = Records(t, n)
<1>1. {m \in 1..n : s[m] > 0} = {m \in 1..n : t[m] > 0}
  OBVIOUS
<1> QED BY <1>1 DEF Records

\* The next record comes.
LEMMA RecordComes ==
    ASSUME NEW s, NEW order, NEW ents, NEW i \in Nat, Interleaved(s, order, ents, i),
           NEW d \in Int, d > 0, d = order[i + 1]
    PROVE  Interleaved(Append(s, d), order, ents, i + 1)
<1> DEFINE t == Append(s, d)
           L == Len(s)
<1>1. /\ t \in Seq(Int) /\ L \in Nat /\ Len(t) = L + 1 /\ t[L + 1] = d /\ DOMAIN t = 1..(L + 1)
      /\ DOMAIN s = 1..L /\ \A n \in 1..L : t[n] = s[n]
  BY DEF Interleaved
<1> HIDE DEF t, L
<1>2. \A n \in 0..L : Records(t, n) = Records(s, n)
  <2> SUFFICES ASSUME NEW n \in 0..L PROVE Records(t, n) = Records(s, n)
    OBVIOUS
  <2>1. n \in Nat /\ \A m \in 1..n : t[m] = s[m]
    BY <1>1
  <2> QED BY <2>1, RecordsOfPrefix
<1>3. Records(s, L) = i
  BY DEF Interleaved, L
<1>4. Records(t, L + 1) = i + 1
  <2>1. L \in 0..L
    BY <1>1
  <2>2. Records(t, L + 1) = Records(t, L) + (IF t[L + 1] > 0 THEN 1 ELSE 0)
    BY <1>1, RecordsMeans
  <2> QED BY <1>1, <1>2, <1>3, <2>1, <2>2
<1>5. \A n \in DOMAIN t : t[n] # 0
  BY <1>1 DEF Interleaved
<1>6. ASSUME NEW n \in DOMAIN t, t[n] > 0 PROVE Records(t, n) \in 1..(i + 1) /\ t[n] = order[Records(t, n)]
  <2>1. CASE n = L + 1
    BY <1>1, <1>4, <2>1
  <2>2. CASE n # L + 1
    <3>1. n \in DOMAIN s /\ t[n] = s[n] /\ Records(t, n) = Records(s, n)
      BY <1>1, <1>2, <2>2
    <3> QED BY <1>6, <3>1 DEF Interleaved
  <2> QED BY <2>1, <2>2
<1>7. ASSUME NEW n \in DOMAIN t, t[n] < 0 PROVE n > 1 /\ t[n - 1] = -t[n] /\ -t[n] \in ents
  <2>1. n \in 1..L /\ n \in DOMAIN s /\ t[n] = s[n]
    BY <1>1, <1>7
  <2>2. n > 1 /\ s[n - 1] = -s[n] /\ -s[n] \in ents
    BY <1>7, <2>1 DEF Interleaved
  <2>3. n - 1 \in 1..L
    BY <1>1, <2>1, <2>2
  <2> QED BY <1>1, <2>1, <2>2, <2>3
<1>8. Interleaved(t, order, ents, i + 1)
  BY <1>1, <1>4, <1>5, <1>6, <1>7 DEF Interleaved
<1> QED BY <1>8 DEF t

\* The snippet of the last record comes.
LEMMA SnippetComes ==
    ASSUME NEW s, NEW order, NEW ents, NEW i \in Nat, Interleaved(s, order, ents, i),
           NEW d \in Int, d > 0, d \in ents, Len(s) > 0, s[Len(s)] = d
    PROVE  Interleaved(Append(s, -d), order, ents, i)
<1> DEFINE t == Append(s, -d)
           L == Len(s)
<1>1. /\ t \in Seq(Int) /\ L \in Nat \ {0} /\ Len(t) = L + 1 /\ t[L + 1] = -d /\ DOMAIN t = 1..(L + 1)
      /\ DOMAIN s = 1..L /\ \A n \in 1..L : t[n] = s[n]
  BY DEF Interleaved
<1>0. s[L] = d
  OBVIOUS
<1> HIDE DEF t, L
<1>2. \A n \in 0..L : Records(t, n) = Records(s, n)
  <2> SUFFICES ASSUME NEW n \in 0..L PROVE Records(t, n) = Records(s, n)
    OBVIOUS
  <2>1. n \in Nat /\ \A m \in 1..n : t[m] = s[m]
    BY <1>1
  <2> QED BY <2>1, RecordsOfPrefix
<1>3. Records(s, L) = i
  BY DEF Interleaved, L
<1>4. Records(t, L + 1) = i
  <2>1. L \in 0..L /\ ~(t[L + 1] > 0)
    BY <1>1
  <2>2. Records(t, L + 1) = Records(t, L) + (IF t[L + 1] > 0 THEN 1 ELSE 0)
    BY <1>1, RecordsMeans
  <2> QED BY <1>1, <1>2, <1>3, <2>1, <2>2
<1>5. \A n \in DOMAIN t : t[n] # 0
  BY <1>1 DEF Interleaved
<1>6. ASSUME NEW n \in DOMAIN t, t[n] > 0 PROVE Records(t, n) \in 1..i /\ t[n] = order[Records(t, n)]
  <2>1. n \in DOMAIN s /\ t[n] = s[n] /\ Records(t, n) = Records(s, n)
    BY <1>1, <1>2, <1>6
  <2> QED BY <1>6, <2>1 DEF Interleaved
<1>7. ASSUME NEW n \in DOMAIN t, t[n] < 0 PROVE n > 1 /\ t[n - 1] = -t[n] /\ -t[n] \in ents
  <2>1. CASE n = L + 1
    <3>1. t[n - 1] = d /\ t[n] = -d /\ n > 1
      BY <1>0, <1>1, <2>1
    <3> QED BY <3>1
  <2>2. CASE n # L + 1
    <3>1. n \in 1..L /\ n \in DOMAIN s /\ t[n] = s[n]
      BY <1>1, <2>2
    <3>2. n > 1 /\ s[n - 1] = -s[n] /\ -s[n] \in ents
      BY <1>7, <3>1 DEF Interleaved
    <3>3. n - 1 \in 1..L
      BY <1>1, <3>1, <3>2
    <3> QED BY <1>1, <3>1, <3>2, <3>3
  <2> QED BY <2>1, <2>2
<1>8. Interleaved(t, order, ents, i)
  BY <1>1, <1>4, <1>5, <1>6, <1>7 DEF Interleaved
<1> QED BY <1>8 DEF t

\* Two lists in a row are as long as both.
LEMMA JoinMeans ==
    ASSUME NEW V, NEW s \in Seq(V), NEW t \in Seq(V)
    PROVE  s \o t \in Seq(V) /\ Len(s \o t) = Len(s) + Len(t)
  OBVIOUS

\* Two elements are appended one after the other.
LEMMA AppendTwo ==
    ASSUME NEW V, NEW s \in Seq(V), NEW a \in V, NEW b \in V
    PROVE  s \o <<a, b>> = Append(Append(s, a), b)
<1> DEFINE t == s \o <<a, b>>
           u == Append(Append(s, a), b)
<1>1. t \in Seq(V) /\ Len(t) = Len(s) + 2
  OBVIOUS
<1>2. u \in Seq(V) /\ Len(u) = Len(s) + 2
  OBVIOUS
<1>3. ASSUME NEW n \in 1..(Len(s) + 2) PROVE t[n] = u[n]
  OBVIOUS
<1>4. t = [n \in 1..(Len(s) + 2) |-> t[n]] /\ u = [n \in 1..(Len(s) + 2) |-> u[n]]
  <2> HIDE DEF t, u
  <2> QED BY <1>1, <1>2
<1> HIDE DEF t, u
<1>5. t = u
  BY <1>3, <1>4
<1> QED BY <1>5 DEF t, u

\* The records in order, with snippets of some of them.
LEMMA SnippetsMean ==
    ASSUME NEW R \in SUBSET (Nat \ {0}), NEW order \in Seq(R), NEW ents
    PROVE  \E all : Interleaved(all, order, ents, Len(order)) /\ WithSnippets(order, ents) = UpTo(all, TopK)
<1> DEFINE Group(d) == IF d \in ents THEN <<d, Snippet(d)>> ELSE <<d>>
           groups == [n \in DOMAIN order |-> Group(order[n])]
           L == Len(order)
<1>1. L \in Nat /\ DOMAIN order = 1..L /\ \A n \in 1..L : order[n] \in Int /\ order[n] > 0
  <2>1. L \in Nat /\ DOMAIN order = 1..L /\ \A n \in 1..L : order[n] \in R
    OBVIOUS
  <2>2. \A d \in R : d \in Int /\ d > 0
    OBVIOUS
  <2> QED BY <2>1, <2>2
<1>2. ASSUME NEW d \in Int PROVE Group(d) \in Seq(Int)
  <2>1. Snippet(d) \in Int
    BY DEF Snippet
  <2> QED BY <2>1
<1>3. groups \in Seq(Seq(Int)) /\ Len(groups) = L
  <2> HIDE DEF Group
  <2>1. \A n \in 1..L : Group(order[n]) \in Seq(Int)
    BY <1>1, <1>2
  <2> QED BY <1>1, <2>1
<1>4. WithSnippets(order, ents) = UpTo(FlattenSeq(groups), TopK)
  BY DEF WithSnippets
<1>5. \A n \in 1..L : groups[n] = Group(order[n])
  BY <1>1
<1> HIDE DEF groups, L
<1>6. PICK f : Flattens(f, Int, groups)
  BY <1>3, FlatMeans
<1>7. /\ f \in [0..L -> Seq(Int)] /\ f[0] = << >> /\ f[L] = FlattenSeq(groups)
      /\ \A n \in 1..L : f[n] = f[n - 1] \o groups[n]
  BY <1>3, <1>6 DEF Flattens
<1> DEFINE Off == {n \in 0..L : ~Interleaved(f[n], order, ents, n)}
<1>8. Off = {}
  <2> SUFFICES ASSUME Off # {} PROVE FALSE
    OBVIOUS
  <2>1. PICK n \in Off : \A m \in Off : n <= m
    <3>1. Off \subseteq Nat
      BY <1>1
    <3> HIDE DEF Off
    <3> QED BY <3>1, NaturalsHaveLeast
  <2>2. CASE n = 0
    <3> DEFINE e == << >>
    <3>1. e \in Seq(Int) /\ Len(e) = 0 /\ DOMAIN e = {}
      OBVIOUS
    <3> HIDE DEF e
    <3>2. Records(e, Len(e)) = 0
      BY <3>1, RecordsMeans
    <3>3. Interleaved(e, order, ents, 0)
      BY <3>1, <3>2 DEF Interleaved
    <3> QED BY <1>7, <2>1, <2>2, <3>3 DEF e
  <2>3. CASE n # 0
    <3>1. n \in 1..L /\ n - 1 \in 0..L /\ n - 1 < n /\ n - 1 \in Nat
      BY <1>1, <2>1, <2>3
    <3> PICK i : i = n - 1
      OBVIOUS
    <3> PICK s : s = f[i]
      OBVIOUS
    <3> PICK d : d = order[n]
      OBVIOUS
    <3>2. Interleaved(s, order, ents, i) /\ i \in Nat /\ n = i + 1 /\ i \notin Off
      BY <1>1, <2>1, <3>1
    <3>3. d \in Int /\ d > 0 /\ d = order[i + 1]
      BY <1>1, <3>1, <3>2
    <3>4. Interleaved(Append(s, d), order, ents, n)
      BY <3>2, <3>3, RecordComes
    <3>5. f[n] = s \o Group(d) /\ s \in Seq(Int)
      BY <1>5, <1>7, <3>1
    <3> HIDE DEF Off
    <3>6. CASE d \in ents
      <4> DEFINE t == Append(s, d)
      <4>1. t \in Seq(Int) /\ Len(t) > 0 /\ t[Len(t)] = d
        BY <3>3, <3>5
      <4>2. Interleaved(Append(t, -d), order, ents, n)
        <5> HIDE DEF t
        <5>1. Interleaved(t, order, ents, n) /\ n \in Nat
          BY <3>1, <3>4 DEF t
        <5> QED BY <3>3, <3>6, <4>1, <5>1, SnippetComes
      <4>3. s \o <<d, -d>> = Append(t, -d)
        <5>1. d \in Int /\ -d \in Int /\ s \in Seq(Int)
          BY <3>3, <3>5
        <5> PICK m \in Int : m = -d
          BY <5>1
        <5>2. s \o <<d, m>> = Append(Append(s, d), m)
          <6> HIDE DEF t
          <6> QED BY ONLY <5>1, d \in Int, m \in Int, AppendTwo
        <5> QED BY <5>2
      <4>4. Group(d) = <<d, -d>>
        BY <3>6 DEF Snippet
      <4> HIDE DEF Group, t
      <4> QED BY <2>1, <3>1, <3>5, <4>2, <4>3, <4>4 DEF Off
    <3>7. CASE d \notin ents
      <4>1. s \o <<d>> = Append(s, d)
        BY <3>3, <3>5
      <4>2. Group(d) = <<d>>
        BY <3>7
      <4> HIDE DEF Group
      <4> QED BY <2>1, <3>1, <3>4, <3>5, <4>1, <4>2 DEF Off
    <3> QED BY <3>6, <3>7
  <2> QED BY <2>2, <2>3
<1>9. Interleaved(f[L], order, ents, L)
  BY <1>1, <1>8
<1> QED BY <1>4, <1>7, <1>9 DEF L

\* The first of a list.
LEMMA CutMeans ==
    ASSUME NEW V, NEW s \in Seq(V), NEW n \in Nat
    PROVE  /\ UpTo(s, n) \in Seq(V) /\ Len(UpTo(s, n)) <= n /\ Len(UpTo(s, n)) <= Len(s)
           /\ \A k \in 1..Len(UpTo(s, n)) : k \in DOMAIN s /\ UpTo(s, n)[k] = s[k]
<1>1. CASE Len(s) < n
  BY <1>1 DEF UpTo
<1>2. CASE ~(Len(s) < n)
  <2>1. n \in 0..Len(s)
    BY <1>2
  <2> QED BY <1>2, <2>1 DEF UpTo
<1> QED BY <1>1, <1>2

\* A finite corpus of records is ranked into a list in which each stands once.
LEMMA RankingMeans ==
    ASSUME NEW corpus \in SUBSET (Nat \ {0}), IsFiniteSet(corpus)
    PROVE  FactRanking(corpus) \in Seq(corpus) /\ IsInjective(FactRanking(corpus))
<1> DEFINE near == corpus \cap docs.facts
           a == Channel(20, {<<d, 1>> : d \in Exact(corpus)})
           b == Channel(10, {<<d, Bm25(corpus, d)>> : d \in Lexical(corpus)})
           c == Channel(12, Walked(Near(near) \cap Entities))
           e == Channel(7, Walked(Near(near) \ Entities))
           channels == TextChannels(corpus) \o GraphChannels(near)
           OK(x) == IsFiniteSet(x) /\ x \subseteq corpus \X Int
<1>1. OK(a)
  <2> DEFINE S == Exact(corpus)
             T == {<<d, 1>> : d \in S}
             f == [d \in S |-> <<d, 1>>]
  <2>1. IsFiniteSet(S) /\ S \subseteq corpus
    BY FS_Subset DEF Exact
  <2>2. T = {f[d] : d \in S} /\ \A p \in T : p[1] \in S
    OBVIOUS
  <2> HIDE DEF S, T, f
  <2>3. IsFiniteSet(T) /\ \A p \in T : p[1] \in corpus
    BY <2>1, <2>2, ImageIsFinite
  <2>4. a = Channel(20, T)
    BY DEF S, T
  <2> HIDE DEF a
  <2> QED BY <2>3, <2>4, ChannelMeans
<1>2. OK(b)
  <2> DEFINE S == Lexical(corpus)
             T == {<<d, Bm25(corpus, d)>> : d \in S}
             f == [d \in S |-> <<d, Bm25(corpus, d)>>]
  <2>1. IsFiniteSet(S) /\ S \subseteq corpus
    BY FS_Subset DEF Lexical
  <2>2. T = {f[d] : d \in S} /\ \A p \in T : p[1] \in S
    OBVIOUS
  <2> HIDE DEF S, T, f
  <2>3. IsFiniteSet(T) /\ \A p \in T : p[1] \in corpus
    BY <2>1, <2>2, ImageIsFinite
  <2>4. b = Channel(10, T)
    BY DEF S, T
  <2> HIDE DEF b
  <2> QED BY <2>3, <2>4, ChannelMeans
<1>3. ASSUME NEW S, S \subseteq corpus PROVE IsFiniteSet(Walked(S)) /\ \A p \in Walked(S) : p[1] \in corpus
  <2> DEFINE f == [d \in S |-> <<d, score[CHOOSE x \in About(d) : TRUE]>>]
  <2>1. IsFiniteSet(S)
    BY <1>3, FS_Subset
  <2>2. Walked(S) = {f[d] : d \in S} /\ \A p \in Walked(S) : p[1] \in S
    BY DEF Walked
  <2> HIDE DEF f
  <2>3. IsFiniteSet({f[d] : d \in S})
    BY <2>1, ImageIsFinite
  <2> QED BY <1>3, <2>2, <2>3
<1>4. OK(c) /\ OK(e)
  <2>1. Near(near) \cap Entities \subseteq corpus /\ Near(near) \ Entities \subseteq corpus
    BY DEF Near
  <2>2. /\ IsFiniteSet(Walked(Near(near) \cap Entities)) /\ \A p \in Walked(Near(near) \cap Entities) : p[1] \in corpus
        /\ IsFiniteSet(Walked(Near(near) \ Entities)) /\ \A p \in Walked(Near(near) \ Entities) : p[1] \in corpus
    BY <1>3, <2>1
  <2> QED BY <2>2, ChannelMeans
<1>5. channels = <<a, b>> \o <<c, e>>
  BY DEF TextChannels, GraphChannels
<1>6. FactRanking(corpus) = InOrder(Fused(channels))
  BY DEF FactRanking, channels, near
<1> HIDE DEF a, b, c, e, channels
<1>7. DOMAIN channels = 1..4 /\ \A n \in 1..4 : channels[n] \in {a, b, c, e}
  <2> DEFINE s == <<a, b>>
             t == <<c, e>>
             V == {a, b, c, e}
  <2>1. s \in Seq(V) /\ t \in Seq(V) /\ Len(s) = 2 /\ Len(t) = 2
    OBVIOUS
  <2> HIDE DEF s, t, V
  <2>2. s \o t \in Seq(V) /\ Len(s \o t) = 4
    <3>1. s \o t \in Seq(V)
      BY <2>1
    <3>2. Len(s \o t) = Len(s) + Len(t)
      BY <2>1, JoinMeans
    <3> QED BY <2>1, <3>1, <3>2
  <2>3. channels = s \o t
    BY <1>5 DEF s, t
  <2>4. \A n \in 1..4 : channels[n] \in V
    BY <2>2, <2>3
  <2> QED BY <2>2, <2>3, <2>4 DEF V
<1>8. IsFiniteSet(DOMAIN channels) /\ \A n \in DOMAIN channels : OK(channels[n])
  <2>1. IsFiniteSet(1..4)
    <3>1. 1 \in Int /\ 4 \in Int
      OBVIOUS
    <3> QED BY <3>1, FS_Interval, Zenon
  <2>2. \A n \in 1..4 : OK(channels[n])
    <3> HIDE DEF OK
    <3> QED BY <1>1, <1>2, <1>4, <1>7
  <2> QED BY <1>7, <2>1, <2>2
<1>9. /\ IsFiniteSet(Fused(channels)) /\ Fused(channels) \subseteq corpus \X Int
      /\ \A p, q \in Fused(channels) : p[1] = q[1] => p = q
  BY <1>8, FusedMeans
<1>10. {p[1] : p \in Fused(channels)} \subseteq corpus /\ corpus \in SUBSET Int
  BY <1>9
<1>11. InOrder(Fused(channels)) \in Seq({p[1] : p \in Fused(channels)}) /\ IsInjective(InOrder(Fused(channels)))
  BY <1>9, <1>10, OrderIsListOf
<1> QED BY <1>6, <1>10, <1>11

\* The facts of a scope are finitely many records.
LEMMA FactsAreRecords ==
    ASSUME allowed \subseteq Entities
    PROVE  IsFiniteSet(Facts) /\ Facts \subseteq Nat \ {0}
<1>1. IsFiniteSet(allowed) /\ IsFiniteSet(DerivsWithin) /\ IsFiniteSet(VerificationsWithin)
      /\ IsFiniteSet(DiagnosticsWithin)
  BY RetrievalAssumption, FS_Subset DEF DerivsWithin, VerificationsWithin, DiagnosticsWithin
<1>2. IsFiniteSet({r.id : r \in RelationsWithin})
  <2> DEFINE f == [r \in Relations |-> r.id]
  <2>1. IsFiniteSet({f[r] : r \in Relations})
    <3>1. IsFiniteSet(Relations)
      BY RetrievalAssumption
    <3> HIDE DEF f
    <3> QED BY <3>1, ImageIsFinite
  <2>2. {r.id : r \in RelationsWithin} \subseteq {f[r] : r \in Relations}
    BY DEF RelationsWithin, ViewRelations, Projected
  <2> HIDE DEF f
  <2> QED BY <2>1, <2>2, FS_Subset
<1>3. Facts \subseteq Nat \ {0}
  BY KindsMean DEF Facts, DerivsWithin, VerificationsWithin, DiagnosticsWithin,
     RelationsWithin, ViewRelations, Projected
<1> QED BY <1>1, <1>2, <1>3, FS_Union DEF Facts

\* What is read of the ledger stays what it was.
LEMMA FactsStay == ASSUME UNCHANGED <<scope, view, allowed>> PROVE UNCHANGED Facts
  BY DEF Facts, DerivsWithin, VerificationsWithin, DiagnosticsWithin, RelationsWithin, ViewRelations,
     Projected, Linked

\* So does its ranking.
LEMMA RankingStays ==
    ASSUME NEW corpus, UNCHANGED <<query, scope, view, allowed, reached, score, docs>>
    PROVE  UNCHANGED FactRanking(corpus)
  BY DEF FactRanking, TextChannels, GraphChannels, Exact, Lexical, Bm25, Near, About, Linked,
     DerivsWithin, Walked

\* The ranking of the facts is of the corpus, the request and the graph.
LEMMA FactRankingStays ==
    ASSUME UNCHANGED <<query, scope, view, allowed, reached, score, docs>>
    PROVE  UNCHANGED FactRanking(Facts)
<1>1. UNCHANGED Facts
  BY FactsStay
<1>2. PICK S : S = Facts
  OBVIOUS
<1>3. UNCHANGED FactRanking(S)
  BY RankingStays
<1> QED BY <1>1, <1>2, <1>3

\* A fact that is complete stays so: nothing is received any more.
LEMMA CompleteStays == ASSUME UNCHANGED receipt, NEW x PROVE CompleteFact(x)' <=> CompleteFact(x)
  BY DEF CompleteFact, ShownComplete, Withheld, ChainValid

\* Before anything is collected there are no facts.
LEMMA RetrievalInit == Init => IInv
<1> SUFFICES ASSUME Init PROVE IInv
  OBVIOUS
<1>1. CorpusOK
  BY FS_EmptySet DEF Init, CorpusOK, ViewEntities
<1>2. budget \in Nat
  BY RetrievalAssumption DEF Init
<1> QED BY <1>1, <1>2 DEF Init, IInv

\* What comes before the ranking changes neither facts nor budget.
LEMMA EarlyStep ==
    ASSUME IInv, CorpusOK', UNCHANGED <<budget, facts, ranked>>, pc' \in {"start", "scope", "walk", "adapters", "rank"}
    PROVE  IInv'
  BY DEF IInv

\* A scope holds entities only, however it is widened.
LEMMA OpenIInv == ASSUME IInv, Open PROVE IInv'
<1>1. allowed' \subseteq Entities
  BY DEF IInv, CorpusOK, Open, ViewEntities
<1>2. pc' = "scope" /\ UNCHANGED <<scope, docs, budget, facts, ranked>>
  BY DEF Open, request, answer
<1>3. CorpusOK'
  BY <1>1, <1>2 DEF IInv, CorpusOK
<1> QED BY <1>2, <1>3, EarlyStep

\* The scope widens along what contains: nothing is ranked yet.
LEMMA WidenIInv == ASSUME IInv, Widen PROVE IInv'
<1>1. allowed' \subseteq Entities
  <2>1. ViewRelations \subseteq Relations
    BY DEF ViewRelations, Projected
  <2> QED BY <2>1, RetrievalAssumption DEF IInv, CorpusOK, Widen, Inner, Along
<1>2. pc' = "scope" /\ UNCHANGED <<scope, docs, budget, facts, ranked>>
  BY DEF Widen, request, answer
<1>3. CorpusOK'
  BY <1>1, <1>2 DEF IInv, CorpusOK
<1> QED BY <1>2, <1>3, EarlyStep

\* The corpus is that of the scope.
LEMMA CollectIInv == ASSUME IInv, Collect PROVE IInv'
<1>1. docs'.facts = Facts /\ pc' = "walk" /\ UNCHANGED <<view, scope, allowed, budget, facts, ranked>>
  BY DEF Collect, request, answer
<1>2. Facts' = Facts
  BY <1>1, FactsStay
<1>3. IsFiniteSet(Facts) /\ Facts \subseteq Nat \ {0}
  BY FactsAreRecords DEF IInv, CorpusOK
<1>4. CorpusOK'
  BY <1>1, <1>2, <1>3 DEF IInv, CorpusOK
<1> QED BY <1>1, <1>4, EarlyStep

\* From then on nothing changes it.
LEMMA CorpusStays ==
    ASSUME CorpusOK, pc \notin {"start", "scope"}, pc' \notin {"start", "scope"},
           UNCHANGED <<view, scope, allowed, docs>>
    PROVE  CorpusOK'
<1>1. Facts' = Facts
  BY FactsStay
<1> QED BY <1>1 DEF CorpusOK

\* The scores move along the edges: nothing is ranked yet.
LEMMA SpreadIInv == ASSUME IInv, Spread PROVE IInv'
<1>1. pc = "walk" /\ pc' \in {"walk", "adapters"} /\ UNCHANGED <<view, scope, allowed, docs, budget, facts, ranked>>
  BY DEF Spread, request, answer
<1>2. CorpusOK'
  BY <1>1, CorpusStays DEF IInv
<1> QED BY <1>1, <1>2, EarlyStep

\* An adapter adds its answers: the corpus of facts is as it was.
LEMMA AdapterIInv == ASSUME IInv, Adapter PROVE IInv'
<1>1. pc = "adapters" /\ pc' = "rank" /\ UNCHANGED <<view, scope, allowed, docs, budget, facts, ranked>>
  BY DEF Adapter, request, graph, answer
<1>2. CorpusOK'
  BY <1>1, CorpusStays DEF IInv
<1> QED BY <1>1, <1>2, EarlyStep

\* A list of some is one of more.
LEMMA ListOfMore == ASSUME NEW S, NEW T, S \subseteq T, NEW s \in Seq(S) PROVE s \in Seq(T)
  OBVIOUS

\* The records among the facts are the first of the ranking.
LEMMA RankFactsIInv == ASSUME IInv, RankFacts PROVE IInv'
<1> DEFINE ranking == FactRanking(Facts)
<1>1. pc = "rank" /\ pc' = "flow" /\ facts' = ranked'
      /\ UNCHANGED <<query, view, scope, allowed, reached, score, docs, budget>>
  BY DEF RankFacts, request, graph, ledger
<1>2. CorpusOK' /\ docs.facts = Facts
  BY <1>1, CorpusStays DEF IInv, CorpusOK
<1>3. PICK top, ents : top = UpTo(FactRanking(FactCorpus), TopK)
                       /\ facts' = WithSnippets(top, ents \cap ToSet(top))
  BY Zenon DEF RankFacts
<1>4. top = UpTo(ranking, TopK)
  BY <1>2, <1>3 DEF FactCorpus
<1>5. ranking \in Seq(Nat \ {0})
  <2>1. IsFiniteSet(Facts) /\ Facts \in SUBSET (Nat \ {0})
    BY FactsAreRecords DEF IInv, CorpusOK
  <2>2. ranking \in Seq(Facts)
    BY <2>1, RankingMeans
  <2> HIDE DEF ranking
  <2> QED BY <2>1, <2>2, ListOfMore
<1>6. ranking' = ranking
  BY <1>1, FactRankingStays
<1> HIDE DEF ranking
<1>7. /\ top \in Seq(Nat \ {0}) /\ Len(top) \in Nat
      /\ \A k \in 1..Len(top) : top[k] = ranking[k]
  <2>1. TopK \in Nat
    BY RetrievalAssumption
  <2> PICK V : V = Nat \ {0}
    OBVIOUS
  <2> PICK s : s = ranking
    OBVIOUS
  <2>2. s \in Seq(V) /\ top = UpTo(s, TopK)
    BY <1>4, <1>5
  <2>3. top \in Seq(V) /\ \A k \in 1..Len(top) : top[k] = s[k]
    BY <2>1, <2>2, CutMeans
  <2> QED BY <2>3
<1>8. PICK all : Interleaved(all, top, ents \cap ToSet(top), Len(top)) /\ facts' = UpTo(all, TopK)
  <2>1. Nat \ {0} \in SUBSET (Nat \ {0})
    OBVIOUS
  <2> QED BY <1>3, <1>7, <2>1, SnippetsMean
<1> PICK F : F = facts'
  OBVIOUS
<1>9. F \in Seq(Int) /\ Len(F) <= Len(all) /\ \A k \in 1..Len(F) : k \in DOMAIN all /\ F[k] = all[k]
  <2>1. all \in Seq(Int) /\ TopK \in Nat
    BY <1>8, RetrievalAssumption DEF Interleaved
  <2> QED BY <1>8, <2>1, CutMeans
<1>10. ASSUME NEW n \in DOMAIN F, F[n] > 0 PROVE F[n] = ranking[Records(F, n)]
  <2>1. n \in Nat /\ n \in 1..Len(F)
    BY <1>9
  <2>2. \A m \in 1..n : F[m] = all[m]
    BY <1>9, <2>1
  <2>3. Records(F, n) = Records(all, n)
    BY <2>1, <2>2, RecordsOfPrefix
  <2>4. n \in DOMAIN all /\ all[n] > 0 /\ F[n] = all[n]
    BY <1>9, <1>10, <2>1
  <2>5. Records(all, n) \in 1..Len(top) /\ all[n] = top[Records(all, n)]
    BY <1>8, <2>4 DEF Interleaved
  <2> QED BY <1>7, <2>3, <2>4, <2>5
<1>11. \A n : RecordsUpTo(n)' = Records(F, n)
  BY DEF RecordsUpTo, Records
<1>12. RanksIgnoreGuidance'
  BY <1>6, <1>10, <1>11 DEF RanksIgnoreGuidance, ranking
<1> QED BY <1>1, <1>2, <1>9, <1>12 DEF IInv

\* What follows neither ranks again nor changes the facts.
LEMMA RankedStays ==
    ASSUME IInv, pc = "flow", pc' \in {"flow", "judge"},
           UNCHANGED <<query, view, scope, allowed, reached, score, docs, budget, facts, ranked>>
    PROVE  IInv'
<1>1. CorpusOK'
  BY CorpusStays DEF IInv
<1>2. FactRanking(Facts)' = FactRanking(Facts)
  BY FactRankingStays
<1>3. \A n : RecordsUpTo(n)' = RecordsUpTo(n)
  BY DEF RecordsUpTo
<1>4. RanksIgnoreGuidance'
  BY <1>2, <1>3 DEF IInv, RanksIgnoreGuidance
<1> QED BY <1>1, <1>4 DEF IInv

\* A path is followed: the ranking and the facts stand.
LEMMA FollowIInv == ASSUME IInv, Follow PROVE IInv'
<1>1. pc = "flow" /\ pc' = "flow" /\ UNCHANGED <<query, view, scope, allowed, reached, score, docs, budget, facts, ranked>>
  BY DEF Follow, request, graph, ledger
<1> QED BY <1>1, RankedStays

\* Guidance is chosen: the ranking and the facts stand.
LEMMA GuideIInv == ASSUME IInv, Guide PROVE IInv'
<1>1. pc = "flow" /\ pc' = "judge" /\ UNCHANGED <<query, view, scope, allowed, reached, score, docs, budget, facts, ranked>>
  BY DEF Guide, request, graph, ledger
<1> QED BY <1>1, RankedStays

\* Confidence is high only of complete facts of a current snapshot.
LEMMA JudgeIInv == ASSUME IInv, Judge PROVE IInv'
<1>1. pc = "judge" /\ pc' = "trim" /\ UNCHANGED <<view, scope, allowed, docs, budget, facts, ranked, receipt>>
  BY DEF Judge, request, graph, answer, ledger
<1>2. confidence' = "high" => facts # << >> /\ ~incomplete'
  BY DEF Judge, Strong
<1>3. facts = << >> => incomplete' /\ confidence' = "low"
  BY DEF Judge, Strong
<1>4. ~incomplete' => ~stale' /\ \A x \in ToSet(facts) : CompleteFact(x)
  BY DEF Judge
<1>5. \A x : CompleteFact(x)' <=> CompleteFact(x)
  BY <1>1, CompleteStays
<1>6. VerdictOK'
  BY <1>1, <1>2, <1>3, <1>4, <1>5 DEF VerdictOK
<1>7. TrimmedOK'
  BY <1>1 DEF IInv, TrimmedOK
<1>8. CorpusOK'
  BY <1>1, CorpusStays DEF IInv
<1> QED BY <1>1, <1>6, <1>7, <1>8 DEF IInv

\* What is left of a nonempty list without its last.
LEMMA FrontMeans ==
    ASSUME NEW V, NEW s \in Seq(V), s # << >>
    PROVE  /\ Front(s) \in Seq(V) /\ Len(Front(s)) = Len(s) - 1
           /\ \A n \in 1..Len(Front(s)) : Front(s)[n] = s[n]
<1>1. Len(s) \in Nat /\ Len(s) # 0
  <2>1. Len(s) = 0 => s = << >>
    OBVIOUS
  <2> QED BY <2>1
<1>2. Len(s) - 1 \in 0..Len(s) /\ 1 \in Int
  BY <1>1
<1>3. PICK t : t = SubSeq(s, 1, Len(s) - 1)
  OBVIOUS
<1>4. /\ t \in Seq(V) /\ Len(t) = Len(s) - 1
      /\ \A n \in 1..Len(t) : t[n] = s[n]
  <2>1. \A n \in 1..Len(s) : s[n] \in V
    OBVIOUS
  <2>2. Len(s) - 1 \in Nat
    BY <1>1
  <2>3. t = [n \in 1..(Len(s) - 1) |-> s[n]]
    BY <1>1, <1>3
  <2>4. t \in Seq(V) /\ Len(t) = Len(s) - 1
    BY <2>1, <2>2, <2>3
  <2> QED BY <2>3, <2>4
<1> QED BY <1>3, <1>4 DEF Front

\* Nothing is left but facts, detail and warnings are at their barest.
OnlyFacts ==
    /\ predictions = << >> /\ guidance = << >> /\ flow = << >> /\ ambiguities = << >>
    /\ traced /\ (compacted \/ warnings = {"truncated"})

\* What goes next: a fact only if nothing else is left.
LEMMA TrimMeans ==
    \/ ~OnlyFacts /\ Trimmed.facts = facts
    \/ /\ OnlyFacts /\ Trimmed.facts = Front(facts)
       /\ Trimmed.predictions = predictions /\ Trimmed.guidance = guidance /\ Trimmed.flow = flow
       /\ Trimmed.ambiguities = ambiguities /\ Trimmed.traced = traced /\ Trimmed.compacted = compacted
  BY DEF Trimmed, OnlyFacts

\* The barest answer with the facts that are left.
LEMMA BarestSize ==
    ASSUME OnlyFacts, facts \in Seq(Int)
    PROVE  Size = Barest(Len(facts))
<1>1. Len(predictions) = 0 /\ Len(guidance) = 0 /\ Len(flow) = 0 /\ Len(ambiguities) = 0
  BY DEF OnlyFacts
<1>2. WarningSize(warnings, compacted) = IF compacted THEN 2 ELSE 1
  <2>1. ~compacted => Cardinality(warnings) = 1
    BY FS_Singleton DEF OnlyFacts
  <2> QED BY <2>1 DEF WarningSize
<1>3. traced
  BY DEF OnlyFacts
<1> QED BY <1>1, <1>2, <1>3 DEF Size, Barest

\* A fact goes only if the barest answer with it does not fit, and an answer that
\* loses its last fact is no longer certain.
LEMMA TrimIInv == ASSUME IInv, Trim PROVE IInv'
<1>1. pc = "trim" /\ pc' = "trim" /\ UNCHANGED <<view, scope, allowed, docs, budget, ranked, receipt, stale>>
  BY DEF Trim, request, graph, ledger
<1>2. /\ facts' = Trimmed.facts /\ predictions' = Trimmed.predictions /\ guidance' = Trimmed.guidance
      /\ flow' = Trimmed.flow /\ ambiguities' = Trimmed.ambiguities
      /\ traced' = Trimmed.traced /\ compacted' = Trimmed.compacted
      /\ warnings' = warnings \cup {"truncated"} /\ Size > budget /\ ~FullyTrimmed
      /\ IF facts # << >> /\ facts' = << >> THEN incomplete' = TRUE /\ confidence' = "low"
         ELSE UNCHANGED <<incomplete, confidence>>
  BY DEF Trim
<1>3. TrimmedOK /\ VerdictOK /\ facts \in Seq(Int) /\ ranked \in Seq(Int) /\ budget \in Nat
  BY <1>1 DEF IInv
<1>4. CorpusOK'
  BY <1>1, CorpusStays DEF IInv
<1>5. \A x : CompleteFact(x)' <=> CompleteFact(x)
  BY <1>1, CompleteStays
<1>6. CASE ~OnlyFacts /\ facts' = facts
  <2>1. Len(facts) = Len(ranked)
    BY <1>3, <1>6 DEF TrimmedOK, OnlyFacts
  <2>2. TrimmedOK'
    BY <1>1, <1>3, <1>6, <2>1 DEF TrimmedOK
  <2>3. VerdictOK'
    BY <1>1, <1>2, <1>3, <1>5, <1>6 DEF VerdictOK
  <2> QED BY <1>1, <1>3, <1>4, <1>6, <2>2, <2>3 DEF IInv
<1>7. CASE /\ OnlyFacts /\ facts' = Front(facts)
           /\ UNCHANGED <<predictions, guidance, flow, ambiguities, traced, compacted>>
  <2>1. facts # << >>
    BY <1>2, <1>7 DEF FullyTrimmed, OnlyFacts
  <2>2. PICK F : F = facts'
    OBVIOUS
  <2>3. F \in Seq(Int) /\ Len(F) = Len(facts) - 1 /\ \A n \in 1..Len(F) : F[n] = facts[n]
    BY <1>3, <1>7, <2>1, <2>2, FrontMeans
  <2>4. Barest(Len(facts)) > budget
    BY <1>2, <1>3, <1>7, BarestSize
  <2>5. Len(facts) \in Nat /\ Len(ranked) \in Nat /\ Len(F) \in Nat
    BY <1>3, <2>3
  <2>6. \A n \in 1..Len(F) : n \in 1..Len(facts)
    BY <2>3, <2>5
  <2>7. TrimmedOK'
    <3>1. Len(facts) <= Len(ranked) /\ \A n \in 1..Len(facts) : facts[n] = ranked[n]
      BY <1>3 DEF TrimmedOK
    <3>2. /\ Len(F) + 1 = Len(facts) /\ Len(F) <= Len(ranked)
          /\ \A n \in 1..Len(F) : F[n] = ranked[n]
      BY <2>3, <2>5, <2>6, <3>1
    <3>3. Barest(Len(facts) + 1)' > budget'
      BY <1>1, <1>7, <2>2, <2>4, <3>2 DEF Barest
    <3>4. /\ predictions' = << >> /\ guidance' = << >> /\ flow' = << >> /\ ambiguities' = << >>
          /\ traced' /\ (compacted' \/ warnings' = {"truncated"})
      BY <1>2, <1>7 DEF OnlyFacts
    <3> QED BY <1>1, <2>2, <3>2, <3>3, <3>4 DEF TrimmedOK
  <2>8. ToSet(F) \subseteq ToSet(facts)
    <3>1. DOMAIN F = 1..Len(F) /\ DOMAIN facts = 1..Len(facts)
      BY <1>3, <2>3
    <3> QED BY <2>3, <2>6, <3>1 DEF ToSet
  <2>9. VerdictOK'
    <3>1. ASSUME confidence' = "high"
          PROVE  facts' # << >> /\ ~stale' /\ \A x \in ToSet(facts)' : CompleteFact(x)'
      <4>1. confidence = "high" /\ ~(facts' = << >>)
        BY <1>2, <2>1, <3>1
      <4>2. ~stale /\ \A x \in ToSet(facts) : CompleteFact(x)
        BY <1>3, <4>1 DEF VerdictOK
      <4>3. ToSet(facts)' = ToSet(F)
        BY <2>2
      <4> QED BY <1>1, <1>5, <2>8, <4>1, <4>2, <4>3
    <3>2. facts' = << >> => incomplete' /\ confidence' = "low"
      BY <1>2, <2>1
    <3> QED BY <3>1, <3>2 DEF VerdictOK
  <2> QED BY <1>1, <1>3, <1>4, <2>2, <2>3, <2>7, <2>9 DEF IInv
<1> QED BY <1>2, <1>6, <1>7, TrimMeans

\* The answer is returned as it was trimmed.
LEMMA ReturnIInv == ASSUME IInv, Return PROVE IInv'
<1>1. /\ pc = "trim" /\ pc' = "done"
      /\ UNCHANGED <<view, scope, allowed, docs, budget, facts, ranked, receipt, stale, incomplete, confidence,
                     predictions, guidance, flow, ambiguities, traced, compacted, warnings>>
  BY DEF Return, request, graph, answer, verdict, ledger
<1>2. \A x : CompleteFact(x)' <=> CompleteFact(x)
  BY <1>1, CompleteStays
<1>3. CorpusOK'
  BY <1>1, CorpusStays DEF IInv
<1>4. TrimmedOK' /\ VerdictOK'
  BY <1>1, <1>2 DEF IInv, TrimmedOK, VerdictOK, Barest
<1> QED BY <1>1, <1>3, <1>4 DEF IInv

\* Every step of a retrieval keeps the invariant.
LEMMA RetrievalStep == IInv /\ [Next]_vars => IInv'
<1> SUFFICES ASSUME IInv, [Next]_vars PROVE IInv'
  OBVIOUS
<1>1. CASE UNCHANGED vars
  <2>1. UNCHANGED <<pc, query, view, scope, allowed, reached, score, docs, budget, facts, ranked, receipt, stale,
                    incomplete, confidence, predictions, guidance, flow, ambiguities, traced, compacted,
                    warnings>>
    BY <1>1 DEF vars, request, graph, answer, verdict, ledger
  <2>2. \A x : CompleteFact(x)' <=> CompleteFact(x)
    BY <2>1, CompleteStays
  <2>3. Facts' = Facts /\ FactRanking(Facts)' = FactRanking(Facts) /\ \A n : RecordsUpTo(n)' = RecordsUpTo(n)
    BY <2>1, FactsStay, FactRankingStays DEF RecordsUpTo
  <2>4. CorpusOK'
    BY <2>1, <2>3 DEF IInv, CorpusOK
  <2>5. pc \in {"flow", "judge"} => RanksIgnoreGuidance'
    BY <2>1, <2>3 DEF IInv, RanksIgnoreGuidance
  <2>6. pc \in {"trim", "done"} => TrimmedOK' /\ VerdictOK'
    BY <2>1, <2>2 DEF IInv, TrimmedOK, VerdictOK, Barest
  <2> QED BY <2>1, <2>4, <2>5, <2>6 DEF IInv
<1> QED BY <1>1, OpenIInv, WidenIInv, CollectIInv, SpreadIInv, AdapterIInv, RankFactsIInv, FollowIInv,
           GuideIInv, JudgeIInv, TrimIInv, ReturnIInv DEF Next

\* The invariant of a retrieval, for every snapshot, request, budget and limit.
THEOREM RetrievalInvariant == MCSpec => []IInv
<1>1. MCInit => IInv
  BY RetrievalInit DEF MCInit
<1>2. IInv /\ [MCNext]_<<part, vars, svars>> => IInv'
  <2> SUFFICES ASSUME IInv, [MCNext]_<<part, vars, svars>> PROVE [Next]_vars
    BY RetrievalStep
  <2> QED BY Zenon DEF MCNext
<1> QED BY <1>1, <1>2, PTL DEF MCSpec

\* What is shown as complete with a value rests on valid receipts only, without a circle.
LEMMA ShownIsGrounded ==
    ASSUME NEW d, d \in Derivs, receipt[d] # "empty", receipt[d] \in {"valid", "invalid", "partial", "empty"},
           ShownComplete(d)
    PROVE  \A x \in {d} \cup Rests(d) : receipt[x] = "valid" /\ x \notin Rests(x)
<1> DEFINE valid == {x \in Derivs : receipt[x] = "valid"}
<1>1. valid \in SUBSET Derivs /\ d \in Closed(valid)
  BY DEF ShownComplete, Withheld, ChainValid
<1>2. \A x \in {d} \cup Rests(d) : x \in valid /\ x \notin Rests(x)
  <2> HIDE DEF valid
  <2> QED BY <1>1, ClosedIsGrounded
<1> QED BY <1>2

\* A derivation is received, unreceived, partial or empty, whenever it is looked at.
ReceiptsOK == receipt \in [Derivs -> {"valid", "invalid", "partial", "empty"}]
LEMMA ReceiptsAlwaysOK == MCSpec => []ReceiptsOK
<1>1. MCInit => ReceiptsOK
  BY DEF MCInit, Init, ReceiptsOK
<1>2. ReceiptsOK /\ [MCNext]_<<part, vars, svars>> => ReceiptsOK'
  <2> SUFFICES ASSUME ReceiptsOK, [MCNext]_<<part, vars, svars>> PROVE ReceiptsOK'
    OBVIOUS
  <2>1. ASSUME Next PROVE receipt' = receipt \/ receipt' \in Receipts
    <3>1. CASE Collect
      BY <3>1 DEF Collect
    <3>2. CASE ~Collect
      BY <2>1, <3>2 DEF Next, Open, Widen, Spread, Adapter, RankFacts, Follow, Guide, Judge, Trim, Return, ledger
    <3> QED BY <3>1, <3>2
  <2>2. ASSUME UNCHANGED vars PROVE receipt' = receipt
    BY <2>2 DEF vars, ledger
  <2>3. Next \/ UNCHANGED vars
    BY DEF MCNext
  <2> QED BY <2>1, <2>2, <2>3, RetrievalAssumption DEF ReceiptsOK
<1> QED BY <1>1, <1>2, PTL DEF MCSpec

\* What is shown is grounded, and certainty is earned: see CertaintyIsEarned.
THEOREM CertaintyIsAlwaysEarned == MCSpec => []CertaintyIsEarned
<1>1. ReceiptsOK => ValuesAreGrounded
  <2> SUFFICES ASSUME ReceiptsOK, NEW d \in ToSet(facts) \cap Derivs
               PROVE  /\ ShowsValue(d) /\ ShownComplete(d) =>
                             \A x \in {d} \cup Rests(d) : receipt[x] = "valid" /\ x \notin Rests(x)
                      /\ receipt[d] = "partial" => ShowsValue(d) /\ ~ShownComplete(d)
    BY DEF ValuesAreGrounded
  <2>1. receipt[d] \in {"valid", "invalid", "partial", "empty"}
    BY DEF ReceiptsOK
  <2>2. ShowsValue(d) => receipt[d] # "empty"
    BY DEF ShowsValue
  <2>3. receipt[d] = "partial" => ShowsValue(d) /\ ~ShownComplete(d)
    BY DEF ShowsValue, ShownComplete, Withheld
  <2> QED BY <2>1, <2>2, <2>3, ShownIsGrounded
<1>2. IInv /\ ReceiptsOK => ConfidenceIsEarned
  <2> SUFFICES ASSUME IInv, ReceiptsOK, pc = "done" PROVE
          /\ confidence = "high" => /\ facts # << >> /\ ~stale
                                    /\ \A x \in ToSet(facts) \cap Derivs :
                                           receipt[x] # "empty" => \A y \in {x} \cup Rests(x) : receipt[y] = "valid"
          /\ facts = << >> => incomplete /\ confidence = "low"
    BY DEF ConfidenceIsEarned
  <2>1. VerdictOK
    BY DEF IInv
  <2>2. ASSUME confidence = "high", NEW x \in ToSet(facts) \cap Derivs, receipt[x] # "empty"
        PROVE  \A y \in {x} \cup Rests(x) : receipt[y] = "valid"
    <3>1. ShownComplete(x)
      BY <2>1, <2>2 DEF VerdictOK, CompleteFact
    <3>2. receipt[x] \in {"valid", "invalid", "partial", "empty"}
      BY DEF ReceiptsOK
    <3> QED BY <2>2, <3>1, <3>2, ShownIsGrounded
  <2> QED BY <2>1, <2>2 DEF VerdictOK
<1>3. IInv /\ ReceiptsOK => CertaintyIsEarned
  BY <1>1, <1>2 DEF CertaintyIsEarned
<1> QED BY <1>3, RetrievalInvariant, ReceiptsAlwaysOK, PTL

\* Facts are ranked by themselves and given up last: see FactsComeFirst.
THEOREM FactsAlwaysComeFirst == MCSpec => []FactsComeFirst
<1>1. IInv => RanksIgnoreGuidance
  BY DEF IInv, RanksIgnoreGuidance
<1>2. IInv => FactsGoLast
  <2> SUFFICES ASSUME IInv, pc = "done", Len(facts) < Len(ranked)
               PROVE  Barest(Len(facts) + 1) > budget /\ facts = SubSeq(ranked, 1, Len(facts))
    BY DEF FactsGoLast
  <2>1. TrimmedOK /\ facts \in Seq(Int) /\ ranked \in Seq(Int)
    BY DEF IInv
  <2>2. facts = SubSeq(ranked, 1, Len(facts))
    BY <2>1 DEF TrimmedOK
  <2> QED BY <2>1, <2>2 DEF TrimmedOK
<1>3. IInv => FactsComeFirst
  BY <1>1, <1>2 DEF FactsComeFirst
<1> QED BY <1>3, RetrievalInvariant, PTL

-------------------------------------------------------------------------------

\* What naturals add up to is a natural, and no less than any of them.
LEMMA SumIsNatural ==
    ASSUME NEW S, IsFiniteSet(S), NEW val \in [S -> Nat]
    PROVE  SumFunction(val) \in Nat /\ \A x \in S : SumFunction(val) >= val[x]
<1> DEFINE sum == CHOOSE f : Adds(f, S, val)
           one(s) == CHOOSE x \in s : TRUE
           Bounds(s) == sum[s] \in Nat /\ \A x \in s : sum[s] >= val[x]
<1>1. DOMAIN val = S /\ val \in [S -> Int]
  OBVIOUS
<1>2. SumFunction(val) = sum[S]
  BY <1>1 DEF SumFunction, SumFunctionOnSet, FoldFunctionOnSet, MapThenFoldSet, Adds
<1>3. Adds(sum, S, val)
  BY <1>1, SumExists
<1> HIDE DEF sum
<1> DEFINE Off == {s \in SUBSET S : ~Bounds(s)}
           sizes == {Cardinality(s) : s \in Off}
<1>4. SUFFICES ASSUME Off # {} PROVE FALSE
  <2>1. S \in SUBSET S
    OBVIOUS
  <2> QED BY <1>2, <2>1
<1>5. \A s \in SUBSET S : IsFiniteSet(s) /\ Cardinality(s) \in Nat
  BY FS_CardinalityType, FS_Subset
<1>6. PICK n \in sizes : \A m \in sizes : n <= m
  <2>1. sizes # {} /\ sizes \subseteq Nat
    BY <1>4, <1>5
  <2> HIDE DEF sizes
  <2> QED BY <2>1, NaturalsHaveLeast
<1>7. PICK s \in Off : n = Cardinality(s)
  BY <1>6
<1>8. sum[s] = IF s = {} THEN 0 ELSE val[one(s)] + sum[s \ {one(s)}]
  BY <1>3, <1>7 DEF Adds
<1>9. s # {} /\ one(s) \in s /\ s \ {one(s)} \in SUBSET S
  BY <1>7, <1>8
<1>10. Cardinality(s \ {one(s)}) < n
  <2>1. IsFiniteSet(s) /\ Cardinality(s) \in Nat
    BY <1>5, <1>7
  <2> HIDE DEF one, Off
  <2>2. Cardinality(s \ {one(s)}) = Cardinality(s) - 1
    BY <1>9, <2>1, FS_RemoveElement
  <2> QED BY <1>7, <2>1, <2>2
<1>11. s \ {one(s)} \notin Off
  <2> HIDE DEF Off, one
  <2>1. n \in Nat /\ Cardinality(s \ {one(s)}) \in Nat
    BY <1>5, <1>7, <1>9 DEF Off
  <2> QED BY <1>6, <1>10, <2>1
<1>12. Bounds(s \ {one(s)}) /\ val[one(s)] \in Nat /\ \A x \in s : val[x] \in Nat
  <2> HIDE DEF one, Bounds
  <2> QED BY <1>7, <1>9, <1>11 DEF Off
<1> PICK a : a = one(s)
  OBVIOUS
<1> HIDE DEF one
<1>13. Bounds(s)
  <2>1. sum[s] = val[a] + sum[s \ {a}] /\ sum[s \ {a}] \in Nat
    BY <1>8, <1>9, <1>12
  <2>2. \A x \in s : x = a \/ x \in s \ {a}
    OBVIOUS
  <2> QED BY <1>12, <2>1, <2>2
<1> QED BY <1>7, <1>13

\* A channel gives shares, and the first of its records some.
LEMMA ChannelShares ==
    ASSUME NEW R \in SUBSET Int, NEW weight \in {10, 20}, NEW scored \in SUBSET (R \X Int), IsFiniteSet(scored)
    PROVE  /\ IsFiniteSet(Channel(weight, scored)) /\ Channel(weight, scored) \subseteq R \X Nat
           /\ Channel(weight, scored) # {} => \E p \in Channel(weight, scored) : p[2] > 0
<1> DEFINE f == [p \in scored |-> <<p[1], (weight * 10000) \div (61 + Place(scored, p))>>]
<1>1. Channel(weight, scored) = {f[p] : p \in scored}
  BY DEF Channel
<1>2. ASSUME NEW p \in scored
      PROVE  /\ f[p] \in R \X Nat /\ Place(scored, p) \in Nat
             /\ f[p][2] = (weight * 10000) \div (61 + Place(scored, p))
  <2> DEFINE ahead == {q \in scored : Before(q, p)}
  <2>1. ahead \subseteq scored /\ Place(scored, p) = Cardinality(ahead)
    BY DEF Place
  <2> HIDE DEF ahead
  <2>2. Place(scored, p) \in Nat
    BY <2>1, FS_Subset, FS_CardinalityType
  <2>3. PICK b \in Nat : b = 61 + Place(scored, p) /\ b > 0
    BY <2>2
  <2>4. (weight * 10000) \div b \in Nat
    BY <2>3
  <2> QED BY <2>2, <2>3, <2>4
<1>3. ASSUME scored # {} PROVE \E p \in scored : f[p][2] > 0
  <2>1. scored \in SUBSET (Int \X Int)
    OBVIOUS
  <2>2. \A k \in 1..Cardinality(scored) : \E p \in scored : Place(scored, p) = k - 1
    BY <2>1, OrderMeans
  <2>3. Cardinality(scored) \in Nat /\ Cardinality(scored) # 0
    BY <1>3, FS_EmptySet, FS_CardinalityType
  <2>4. PICK p \in scored : Place(scored, p) = 0
    BY <2>2, <2>3
  <2>5. f[p][2] = (weight * 10000) \div 61
    BY <1>2, <2>4
  <2>6. (10 * 10000) \div 61 = 1639 /\ (20 * 10000) \div 61 = 3278
    OBVIOUS
  <2> QED BY <2>5, <2>6
<1> HIDE DEF f
<1>4. IsFiniteSet({f[p] : p \in scored})
  BY ImageIsFinite
<1> QED BY <1>1, <1>2, <1>3, <1>4

\* Shares add up: of what some channel gives a share, one gets some.
LEMMA FusedShares ==
    ASSUME NEW R \in SUBSET Int, NEW channels, IsFiniteSet(DOMAIN channels),
           \A n \in DOMAIN channels : /\ IsFiniteSet(channels[n]) /\ channels[n] \subseteq R \X Nat
                                      /\ channels[n] # {} => \E p \in channels[n] : p[2] > 0
    PROVE  /\ IsFiniteSet(Fused(channels)) /\ Fused(channels) \subseteq R \X Nat
           /\ \A p, q \in Fused(channels) : p[1] = q[1] => p = q
           /\ Fused(channels) # {} => \E p \in Fused(channels) : p[2] > 0
<1> DEFINE own(d, n) == {q \in channels[n] : q[1] = d}
           each(d, n) == [p \in own(d, n) |-> p[2]]
           all(d) == [n \in DOMAIN channels |-> SumFunction(each(d, n))]
<1>1. /\ IsFiniteSet(Fused(channels)) /\ Fused(channels) \subseteq R \X Int
      /\ \A p, q \in Fused(channels) : p[1] = q[1] => p = q
  <2>1. \A n \in DOMAIN channels : IsFiniteSet(channels[n]) /\ channels[n] \subseteq R \X Int
    OBVIOUS
  <2> QED BY <2>1, FusedMeans
<1>2. ASSUME NEW d, NEW n \in DOMAIN channels
      PROVE  SumFunction(each(d, n)) \in Nat /\ \A q \in own(d, n) : SumFunction(each(d, n)) >= q[2]
  <2>1. IsFiniteSet(own(d, n)) /\ own(d, n) \subseteq R \X Nat
    BY FS_Subset
  <2>2. each(d, n) \in [own(d, n) -> Nat] /\ \A q \in own(d, n) : each(d, n)[q] = q[2]
    BY <2>1
  <2> HIDE DEF own, each
  <2> QED BY <2>1, <2>2, SumIsNatural
<1>3. ASSUME NEW d
      PROVE  Share(channels, d) \in Nat /\ \A n \in DOMAIN channels : \A q \in own(d, n) : Share(channels, d) >= q[2]
  <2>1. all(d) \in [DOMAIN channels -> Nat] /\ \A n \in DOMAIN channels : all(d)[n] = SumFunction(each(d, n))
    BY <1>2
  <2>2. Share(channels, d) = SumFunction(all(d))
    BY DEF Share
  <2>3. \A n \in DOMAIN channels : \A q \in own(d, n) : q[2] \in Nat
    OBVIOUS
  <2> HIDE DEF all, own, each
  <2>4. Share(channels, d) \in Nat /\ \A n \in DOMAIN channels : Share(channels, d) >= all(d)[n]
    BY <2>1, <2>2, SumIsNatural
  <2> QED BY <1>2, <2>1, <2>3, <2>4
<1>4. Fused(channels) = {<<d, Share(channels, d)>> : d \in {p[1] : p \in UNION ToSet(channels)}}
  BY DEF Fused
<1>5. Fused(channels) \subseteq R \X Nat
  BY <1>1, <1>3, <1>4
<1>6. ASSUME Fused(channels) # {} PROVE \E p \in Fused(channels) : p[2] > 0
  <2>1. PICK n \in DOMAIN channels : channels[n] # {}
    BY <1>4, <1>6 DEF ToSet
  <2>2. PICK q \in channels[n] : q[2] > 0
    BY <2>1
  <2>3. q \in UNION ToSet(channels) /\ q[2] \in Nat
    BY DEF ToSet
  <2>4. <<q[1], Share(channels, q[1])>> \in Fused(channels)
    BY <1>4, <2>3
  <2>5. q \in own(q[1], n)
    OBVIOUS
  <2>6. Share(channels, q[1]) \in Nat /\ Share(channels, q[1]) >= q[2]
    BY <1>3, <2>5
  <2> QED BY <2>2, <2>3, <2>4, <2>6
<1> QED BY <1>1, <1>5, <1>6

\* Of some numbers one is the greatest.
LEMMA FiniteHasMax ==
    ASSUME NEW T \in SUBSET Int, IsFiniteSet(T), T # {}
    PROVE  Max(T) \in T /\ \A y \in T : Max(T) >= y
<1> DEFINE above(x) == {y \in T : y > x}
           sizes == {Cardinality(above(x)) : x \in T}
<1>1. \A x \in T : IsFiniteSet(above(x)) /\ Cardinality(above(x)) \in Nat
  BY FS_Subset, FS_CardinalityType
<1>2. PICK n \in sizes : \A m \in sizes : n <= m
  <2>1. sizes # {} /\ sizes \subseteq Nat
    BY <1>1
  <2> HIDE DEF sizes
  <2> QED BY <2>1, NaturalsHaveLeast
<1>3. PICK x \in T : n = Cardinality(above(x))
  BY <1>2
<1>4. ASSUME NEW y \in T, y > x PROVE FALSE
  <2>1. above(y) \subseteq above(x) /\ y \in above(x) /\ y \notin above(y)
    <3>1. x \in Int /\ y \in Int /\ \A z \in T : z \in Int /\ (z > y => z > x)
      BY <1>4
    <3>2. y \in above(x) /\ y \notin above(y)
      BY <1>4, <3>1
    <3> QED BY <3>1, <3>2
  <2>0. Cardinality(above(y)) \in sizes
    OBVIOUS
  <2> HIDE DEF above, sizes
  <2>2. Cardinality(above(y)) <= Cardinality(above(x)) /\ Cardinality(above(y)) # Cardinality(above(x))
    BY <1>1, <2>1, FS_Subset
  <2>3. Cardinality(above(x)) <= Cardinality(above(y))
    BY <1>2, <1>3, <2>0
  <2> QED BY <1>1, <2>2, <2>3
<1>5. \E z \in T : \A y \in T : z >= y
  <2>1. \A y \in T : x >= y
    BY <1>4
  <2> QED BY <2>1
<1> QED BY <1>5 DEF Max

\* Set in relation to the best of them, scores stay scores of the same records.
LEMMA NormalMeans ==
    ASSUME NEW R \in SUBSET Int, NEW scored \in SUBSET (R \X Nat), IsFiniteSet(scored),
           \A p, q \in scored : p[1] = q[1] => p = q, scored # {} => \E p \in scored : p[2] > 0
    PROVE  /\ IsFiniteSet(Normal(scored)) /\ Normal(scored) \subseteq R \X Int
           /\ \A p, q \in Normal(scored) : p[1] = q[1] => p = q
<1> DEFINE seconds == {q[2] : q \in scored}
           best == Max(seconds)
           f == [p \in scored |-> <<p[1], (1000 * p[2]) \div best>>]
<1>1. Normal(scored) = {f[p] : p \in scored}
  BY DEF Normal
<1>2. scored # {} => best \in Nat \ {0}
  <2> SUFFICES ASSUME scored # {} PROVE best \in Nat \ {0}
    OBVIOUS
  <2>1. IsFiniteSet(seconds)
    <3> DEFINE g == [q \in scored |-> q[2]]
    <3>1. seconds = {g[q] : q \in scored}
      OBVIOUS
    <3> HIDE DEF seconds, g
    <3> QED BY <3>1, ImageIsFinite
  <2>2. PICK p \in scored : p[2] > 0
    OBVIOUS
  <2>3. seconds \subseteq Nat /\ seconds \in SUBSET Int /\ p[2] \in seconds /\ seconds # {}
    OBVIOUS
  <2> HIDE DEF seconds
  <2>5. Max(seconds) \in seconds /\ \A y \in seconds : Max(seconds) >= y
    BY <2>1, <2>3, FiniteHasMax
  <2>4. best \in Nat /\ best >= p[2] /\ p[2] \in Nat
    BY <2>3, <2>5
  <2> HIDE DEF best
  <2> QED BY <2>2, <2>4
<1> HIDE DEF best
<1>3. ASSUME NEW p \in scored PROVE f[p] \in R \X Int /\ f[p][1] = p[1]
  <2>1. PICK a \in Int : a = 1000 * p[2]
    OBVIOUS
  <2>2. best \in Int /\ best > 0
    BY <1>2
  <2>3. a \div best \in Int
    BY <2>2
  <2> QED BY <2>1, <2>3
<1> HIDE DEF f
<1>4. IsFiniteSet({f[p] : p \in scored})
  BY ImageIsFinite
<1> QED BY <1>1, <1>3, <1>4

\* The first of a list of which none stands twice are such a list.
LEMMA CutKeeps ==
    ASSUME NEW V, NEW s \in Seq(V), IsInjective(s)
    PROVE  ListFrom(UpTo(s, TopK), V)
<1> PICK t : t = UpTo(s, TopK)
  OBVIOUS
<1>0. TopK \in Nat
  BY RetrievalAssumption
<1>1. t \in Seq(V) /\ Len(t) <= TopK /\ \A k \in 1..Len(t) : k \in DOMAIN s /\ t[k] = s[k]
  BY <1>0, CutMeans
<1>2. IsInjective(t)
  <2>1. DOMAIN t = 1..Len(t)
    BY <1>1
  <2> QED BY <1>1, <2>1 DEF IsInjective
<1> QED BY <1>1, <1>2 DEF ListFrom

\* What scores a corpus of records by text gives shares.
Shares(channel, R) ==
    /\ IsFiniteSet(channel) /\ channel \subseteq R \X Nat
    /\ channel # {} => \E p \in channel : p[2] > 0

\* The two channels of text over a finite corpus.
LEMMA TextShares ==
    ASSUME NEW K \in SUBSET Int, IsFiniteSet(K), IsFiniteSet(query)
    PROVE  \E a, b : TextChannels(K) = <<a, b>> /\ Shares(a, K) /\ Shares(b, K)
<1> DEFINE E == {<<d, 1>> : d \in Exact(K)}
           L == {<<d, Bm25(K, d)>> : d \in Lexical(K)}
<1>1. TextChannels(K) = <<Channel(20, E), Channel(10, L)>>
  BY DEF TextChannels
<1>2. IsFiniteSet(Exact(K)) /\ Exact(K) \subseteq K /\ IsFiniteSet(Lexical(K)) /\ Lexical(K) \subseteq K
  BY FS_Subset DEF Exact, Lexical
<1>3. ASSUME NEW d PROVE Bm25(K, d) \in Int
  <2> DEFINE common == query \cap TermsOf[d]
             having(t) == {e \in K : t \in TermsOf[e]}
             val == [t \in common |-> Cardinality(K) + 1 - Cardinality(having(t))]
  <2>1. IsFiniteSet(common)
    BY FS_Intersection
  <2>2. \A t : Cardinality(having(t)) \in Nat /\ Cardinality(K) \in Nat
    BY FS_Subset, FS_CardinalityType
  <2>3. Bm25(K, d) = SumFunction(val)
    BY DEF Bm25
  <2> HIDE DEF common, having
  <2>4. val \in [common -> Int]
    BY <2>2
  <2> HIDE DEF val
  <2> QED BY <2>1, <2>3, <2>4, SumIsNumber
<1>4. IsFiniteSet(E) /\ E \in SUBSET (K \X Int)
  <2> DEFINE f == [d \in Exact(K) |-> <<d, 1>>]
  <2>1. E = {f[d] : d \in Exact(K)} /\ E \in SUBSET (K \X Int)
    BY <1>2
  <2> HIDE DEF E, f
  <2> QED BY <1>2, <2>1, ImageIsFinite
<1>5. IsFiniteSet(L) /\ L \in SUBSET (K \X Int)
  <2> DEFINE f == [d \in Lexical(K) |-> <<d, Bm25(K, d)>>]
  <2>1. L = {f[d] : d \in Lexical(K)} /\ L \in SUBSET (K \X Int)
    BY <1>2, <1>3
  <2> HIDE DEF L, f
  <2> QED BY <1>2, <2>1, ImageIsFinite
<1> HIDE DEF E, L
<1>6. Shares(Channel(20, E), K)
  BY <1>4, ChannelShares DEF Shares
<1>7. Shares(Channel(10, L), K)
  BY <1>5, ChannelShares DEF Shares
<1> QED BY <1>1, <1>6, <1>7

\* The channel of what adapters offer.
LEMMA OfferedShares ==
    ASSUME NEW plane, IsFiniteSet(items), Given(plane) \in SUBSET Int
    PROVE  Shares(Channel(10, Offered(plane)), Given(plane))
<1> DEFINE own == {q \in items : q.plane = plane}
           f == [o \in own |-> <<o.id, 1>>]
<1>1. Offered(plane) = {f[o] : o \in own} /\ Given(plane) = {o.id : o \in own}
  BY DEF Offered, Given
<1>2. IsFiniteSet(own)
  BY FS_Subset
<1>3. {f[o] : o \in own} \in SUBSET (Given(plane) \X Int)
  <2>1. \A o \in own : f[o] = <<o.id, 1>> /\ o.id \in Given(plane)
    BY <1>1
  <2> HIDE DEF own, f
  <2> QED BY <2>1
<1> HIDE DEF own, f
<1>4. IsFiniteSet({f[o] : o \in own})
  BY <1>2, ImageIsFinite
<1> QED BY <1>1, <1>3, <1>4, ChannelShares DEF Shares

\* Some channels give each of their records a score.
LEMMA FusedScores ==
    ASSUME NEW R \in SUBSET Int, NEW channels, NEW N \in Nat, DOMAIN channels = 1..N,
           \A n \in 1..N : Shares(channels[n], R)
    PROVE  /\ Shares(Fused(channels), R) /\ \A p, q \in Fused(channels) : p[1] = q[1] => p = q
<1>1. IsFiniteSet(DOMAIN channels)
  BY FS_Interval
<1>2. \A n \in DOMAIN channels : /\ IsFiniteSet(channels[n]) /\ channels[n] \subseteq R \X Nat
                                 /\ channels[n] # {} => \E p \in channels[n] : p[2] > 0
  BY DEF Shares
<1> QED BY <1>1, <1>2, FusedShares DEF Shares

\* What is known of the request and of the sources when guidance is ranked.
LEMMA SourcesMean ==
    ASSUME RequestOK, SourcesOK
    PROVE  /\ IsFiniteSet(query) /\ IsFiniteSet(docs.knowledge) /\ IsFiniteSet(docs.predictions)
           /\ docs.knowledge \subseteq Rules /\ docs.predictions \subseteq DOMAIN Predicted
           /\ IsFiniteSet(items) /\ \A plane : Given(plane) \subseteq ItemIds
<1>1. IsFiniteSet(query)
  BY RetrievalAssumption DEF RequestOK
<1>2. IsFiniteSet(docs.knowledge) /\ docs.knowledge \subseteq Rules
  BY RetrievalAssumption, FS_EmptySet DEF SourcesOK
<1>3. IsFiniteSet(docs.predictions) /\ docs.predictions \subseteq DOMAIN Predicted
  <2>1. docs.predictions \subseteq DOMAIN Predicted /\ IsFiniteSet(DOMAIN Predicted)
    BY RetrievalAssumption DEF SourcesOK
  <2> QED BY <2>1, FS_Subset
<1>4. PICK out \in Outputs \cup {{}} : items = {o \in out : Accepts(o)}
  BY DEF SourcesOK
<1>5. IsFiniteSet(items)
  <2>1. IsFiniteSet(out)
    BY RetrievalAssumption, FS_EmptySet
  <2> QED BY <1>4, <2>1, FS_Subset
<1>6. \A plane : Given(plane) \subseteq ItemIds
  BY <1>4 DEF Given, ItemIds
<1> QED BY <1>1, <1>2, <1>3, <1>5, <1>6

\* Rules and local items in order: each stands once.
LEMMA GuidanceMeans ==
    ASSUME RequestOK, SourcesOK
    PROVE  ListFrom(GuidanceOrder, docs.knowledge \cup Given("local"))
<1> DEFINE K == docs.knowledge
           G == Given("local")
           offered == Channel(10, Offered("local"))
           A == Normal(Fused(TextChannels(K)))
           B == Normal(Fused(<<offered>>))
<1>1. /\ IsFiniteSet(query) /\ IsFiniteSet(K) /\ IsFiniteSet(items)
      /\ K \in SUBSET Int /\ G \in SUBSET Int /\ K \cap G = {}
  <2>1. K \subseteq Rules /\ G \subseteq ItemIds /\ IsFiniteSet(query) /\ IsFiniteSet(K) /\ IsFiniteSet(items)
    BY SourcesMean
  <2>2. Rules \subseteq Nat /\ ItemIds \subseteq Nat /\ ItemIds \cap Rules = {}
    BY KindsMean
  <2> HIDE DEF K, G
  <2> QED BY <2>1, <2>2
<1>0. GuidanceOrder = UpTo(InOrder(A \cup B), TopK)
  BY DEF GuidanceOrder
<1>2. Shares(offered, G)
  BY <1>1, OfferedShares
<1> HIDE DEF K, G, offered
<1>3. PICK a, b : TextChannels(K) = <<a, b>> /\ Shares(a, K) /\ Shares(b, K)
  BY <1>1, TextShares
<1>4. Shares(Fused(TextChannels(K)), K) /\ \A p, q \in Fused(TextChannels(K)) : p[1] = q[1] => p = q
  <2>1. DOMAIN <<a, b>> = 1..2 /\ \A n \in 1..2 : Shares(<<a, b>>[n], K)
    BY <1>3
  <2> QED BY <1>1, <1>3, <2>1, FusedScores
<1>5. Shares(Fused(<<offered>>), G) /\ \A p, q \in Fused(<<offered>>) : p[1] = q[1] => p = q
  <2>1. DOMAIN <<offered>> = 1..1 /\ \A n \in 1..1 : Shares(<<offered>>[n], G)
    BY <1>2
  <2> PICK c : c = <<offered>>
    OBVIOUS
  <2>2. DOMAIN c = 1..1 /\ \A n \in 1..1 : Shares(c[n], G)
    BY <2>1
  <2> QED BY <1>1, <2>2, FusedScores
<1>6. IsFiniteSet(A) /\ A \subseteq K \X Int /\ \A p, q \in A : p[1] = q[1] => p = q
  BY <1>1, <1>4, NormalMeans DEF Shares
<1>7. IsFiniteSet(B) /\ B \subseteq G \X Int /\ \A p, q \in B : p[1] = q[1] => p = q
  BY <1>1, <1>5, NormalMeans DEF Shares
<1> HIDE DEF A, B
<1> PICK S : S = A \cup B
  OBVIOUS
<1> PICK R : R = K \cup G
  OBVIOUS
<1>8. /\ R \in SUBSET Int /\ S \in SUBSET (R \X Int) /\ \A p, q \in S : p[1] = q[1] => p = q
  BY <1>1, <1>6, <1>7
<1>9. IsFiniteSet(S)
  BY <1>6, <1>7, FS_Union
<1>10. InOrder(S) \in Seq({p[1] : p \in S}) /\ IsInjective(InOrder(S))
  BY <1>8, <1>9, OrderIsListOf
<1>11. {p[1] : p \in S} \subseteq R
  BY <1>8
<1>12. InOrder(S) \in Seq(R)
  BY <1>10, <1>11, ListOfMore
<1> QED BY <1>0, <1>10, <1>12, CutKeeps DEF K, G

\* Hypotheses of the ledger and of adapters in order: each stands once.
LEMMA PredictionsMean ==
    ASSUME RequestOK, SourcesOK
    PROVE  ListFrom(PredictionOrder, docs.predictions \cup Given("predictions"))
<1> DEFINE P == docs.predictions
           G == Given("predictions")
           offered == Channel(10, Offered("predictions"))
           R == P \cup G
           channels == Append(TextChannels(P), offered)
<1>1. /\ IsFiniteSet(query) /\ IsFiniteSet(P) /\ IsFiniteSet(items)
      /\ P \in SUBSET Int /\ G \in SUBSET Int
  <2>1. P \subseteq DOMAIN Predicted /\ G \subseteq ItemIds
        /\ IsFiniteSet(query) /\ IsFiniteSet(P) /\ IsFiniteSet(items)
    BY SourcesMean
  <2>2. DOMAIN Predicted \subseteq Nat /\ ItemIds \subseteq Nat
    BY KindsMean
  <2> HIDE DEF P, G
  <2> QED BY <2>1, <2>2
<1>2. CASE ~withPredictions
  <2>1. PredictionOrder = << >>
    BY <1>2 DEF PredictionOrder
  <2>2. TopK \in Nat
    BY RetrievalAssumption
  <2> HIDE DEF P, G
  <2> QED BY <2>1, <2>2 DEF ListFrom, IsInjective
<1>3. CASE withPredictions
  <2>1. PredictionOrder = UpTo(InOrder(Fused(channels)), TopK)
    BY <1>3 DEF PredictionOrder
  <2>2. Shares(offered, G)
    BY <1>1, OfferedShares
  <2> HIDE DEF P, G, offered
  <2>3. PICK a, b : TextChannels(P) = <<a, b>> /\ Shares(a, P) /\ Shares(b, P)
    BY <1>1, TextShares
  <2>4. \A c : Shares(c, P) \/ Shares(c, G) => Shares(c, R)
    BY DEF Shares
  <2>5. DOMAIN channels = 1..3 /\ \A n \in 1..3 : Shares(channels[n], R)
    <3>1. DOMAIN channels = 1..3 /\ \A n \in 1..3 : channels[n] \in {a, b, offered}
      <4> PICK s : s = <<a, b>>
        OBVIOUS
      <4> PICK V : V = {a, b, offered}
        OBVIOUS
      <4>1. s \in Seq(V) /\ Len(s) = 2 /\ offered \in V
        OBVIOUS
      <4>2. Append(s, offered) \in Seq(V) /\ Len(Append(s, offered)) = 3
        BY <4>1
      <4>3. channels = Append(s, offered)
        BY <2>3
      <4> HIDE DEF channels
      <4> QED BY <4>2, <4>3
    <3>2. Shares(a, R) /\ Shares(b, R) /\ Shares(offered, R)
      BY <2>2, <2>3, <2>4
    <3> HIDE DEF R, channels
    <3> QED BY <3>1, <3>2
  <2>6. R \in SUBSET Int
    BY <1>1
  <2> HIDE DEF R, channels
  <2> PICK S : S = Fused(channels)
    OBVIOUS
  <2>7. Shares(S, R) /\ \A p, q \in S : p[1] = q[1] => p = q
    BY <2>5, <2>6, FusedScores
  <2>8. S \in SUBSET (R \X Int) /\ IsFiniteSet(S)
    BY <2>7 DEF Shares
  <2>9. InOrder(S) \in Seq({p[1] : p \in S}) /\ IsInjective(InOrder(S))
    BY <2>6, <2>7, <2>8, OrderIsListOf
  <2>10. {p[1] : p \in S} \subseteq R
    BY <2>8
  <2>11. InOrder(S) \in Seq(R)
    BY <2>9, <2>10, ListOfMore
  <2> QED BY <2>1, <2>9, <2>11, CutKeeps DEF R, P, G
<1> QED BY <1>1, <1>2, <1>3, SourcesMean DEF RequestOK

\* The count grows with each record.
LEMMA RecordsGrow ==
    ASSUME NEW s, NEW n \in Nat, NEW m \in Nat, n < m, s[m] > 0
    PROVE  Records(s, n) < Records(s, m)
<1> DEFINE C(k) == {i \in 1..k : s[i] > 0}
<1>1. \A k \in Nat : IsFiniteSet(C(k)) /\ Cardinality(C(k)) \in Nat
  <2> SUFFICES ASSUME NEW k \in Nat PROVE IsFiniteSet(C(k)) /\ Cardinality(C(k)) \in Nat
    OBVIOUS
  <2>1. IsFiniteSet(1..k) /\ C(k) \subseteq 1..k
    BY FS_Interval
  <2> HIDE DEF C
  <2> QED BY <2>1, FS_Subset, FS_CardinalityType
<1>2. C(n) \subseteq C(m) /\ m \in C(m) /\ m \notin C(n)
  OBVIOUS
<1>3. Records(s, n) = Cardinality(C(n)) /\ Records(s, m) = Cardinality(C(m))
  BY DEF Records
<1> HIDE DEF C
<1>4. Cardinality(C(n)) <= Cardinality(C(m)) /\ Cardinality(C(n)) # Cardinality(C(m))
  BY <1>1, <1>2, FS_Subset
<1> QED BY <1>1, <1>3, <1>4

\* With snippets in between nothing stands twice.
LEMMA InterleavedOnce ==
    ASSUME NEW V, NEW order \in Seq(V), IsInjective(order), NEW s, NEW ents,
           Interleaved(s, order, ents, Len(order))
    PROVE  IsInjective(s)
<1>1. /\ s \in Seq(Int) /\ DOMAIN s = 1..Len(s) /\ DOMAIN order = 1..Len(order)
      /\ \A n \in 1..Len(s) : n \in Nat /\ s[n] \in Int /\ s[n] # 0
      /\ \A n \in 1..Len(s) : s[n] > 0 => Records(s, n) \in 1..Len(order) /\ s[n] = order[Records(s, n)]
      /\ \A n \in 1..Len(s) : s[n] < 0 => n - 1 \in 1..Len(s) /\ s[n - 1] = -s[n]
  BY DEF Interleaved
<1>2. ASSUME NEW n \in 1..Len(s), NEW m \in 1..Len(s), s[n] > 0, s[n] = s[m], n < m PROVE FALSE
  <2>1. Records(s, n) \in 1..Len(order) /\ Records(s, m) \in 1..Len(order)
        /\ order[Records(s, n)] = order[Records(s, m)]
    BY <1>1, <1>2
  <2>2. Records(s, n) = Records(s, m)
    BY <1>1, <2>1 DEF IsInjective
  <2>3. Records(s, n) < Records(s, m)
    BY <1>1, <1>2, RecordsGrow
  <2> QED BY <1>1, <2>1, <2>2, <2>3
<1>3. ASSUME NEW n \in 1..Len(s), NEW m \in 1..Len(s), s[n] = s[m], n < m PROVE FALSE
  <2>1. CASE s[n] > 0
    BY <1>2, <1>3, <2>1
  <2>2. CASE s[n] < 0
    <3>1. /\ n - 1 \in 1..Len(s) /\ m - 1 \in 1..Len(s) /\ n - 1 < m - 1
          /\ s[n - 1] > 0 /\ s[n - 1] = s[m - 1]
      BY <1>1, <1>3, <2>2
    <3> QED BY <1>2, <3>1
  <2> QED BY <1>1, <2>1, <2>2
<1>4. \A n, m \in 1..Len(s) : s[n] = s[m] => n = m
  <2> SUFFICES ASSUME NEW n \in 1..Len(s), NEW m \in 1..Len(s), s[n] = s[m], n # m PROVE FALSE
    OBVIOUS
  <2>1. n < m \/ m < n
    BY <1>1
  <2> QED BY <1>3, <2>1
<1> QED BY <1>1, <1>4 DEF IsInjective

\* Something has the least number.
LEMMA FiniteHasLeast ==
    ASSUME NEW S, IsFiniteSet(S), S # {}, NEW f \in [S -> Int]
    PROVE  \E x \in S : \A y \in S : f[x] <= f[y]
<1> DEFINE g == [x \in S |-> 0 - f[x]]
           T == {g[x] : x \in S}
<1>1. T \in SUBSET Int /\ T # {} /\ \A x \in S : g[x] \in T /\ g[x] = 0 - f[x]
  OBVIOUS
<1>2. \A t \in T : \E x \in S : t = g[x]
  OBVIOUS
<1>3. IsFiniteSet(T)
  <2> HIDE DEF g
  <2> QED BY ImageIsFinite
<1> HIDE DEF g, T
<1>4. Max(T) \in T /\ \A y \in T : Max(T) >= y
  BY <1>1, <1>3, FiniteHasMax
<1>5. PICK x \in S : Max(T) = g[x]
  BY <1>2, <1>4
<1>6. \A y \in S : f[x] <= f[y]
  BY <1>1, <1>4, <1>5
<1> QED BY <1>6

\* Of keys of four numbers one is before all others.
LEMMA LeastKey ==
    ASSUME NEW S, IsFiniteSet(S), S # {}, NEW k \in [S -> [1..4 -> Int]]
    PROVE  \E r \in S : \A q \in S : NoLater(k[r], k[q])
<1> DEFINE f(n, T) == [x \in T |-> k[x][n]]
           Best(n, T) == {x \in T : \A y \in T : k[x][n] <= k[y][n]}
<1>1. ASSUME NEW n \in 1..4, NEW T, T \subseteq S, T # {}
      PROVE  Best(n, T) \subseteq S /\ Best(n, T) # {}
  <2>1. IsFiniteSet(T) /\ f(n, T) \in [T -> Int] /\ \A x \in T : f(n, T)[x] = k[x][n]
    BY <1>1, FS_Subset
  <2> HIDE DEF f
  <2>2. \E x \in T : \A y \in T : f(n, T)[x] <= f(n, T)[y]
    BY <1>1, <2>1, FiniteHasLeast
  <2> QED BY <1>1, <2>1, <2>2
<1>2. PICK A : A = Best(1, S)
  OBVIOUS
<1>3. PICK B : B = Best(2, A)
  OBVIOUS
<1>4. PICK C : C = Best(3, B)
  OBVIOUS
<1>5. PICK r \in Best(4, C) : TRUE
  <2> HIDE DEF Best
  <2>1. A \subseteq S /\ A # {}
    BY <1>1, <1>2
  <2>2. B \subseteq S /\ B # {}
    BY <1>1, <1>3, <2>1
  <2>3. C \subseteq S /\ C # {}
    BY <1>1, <1>4, <2>2
  <2> QED BY <1>1, <2>3
<1>6. r \in C /\ r \in B /\ r \in A /\ r \in S
  BY <1>2, <1>3, <1>4, <1>5
<1>7. ASSUME NEW q \in S PROVE NoLater(k[r], k[q])
  <2>1. \A x \in S : \A n \in 1..4 : k[x][n] \in Int
    OBVIOUS
  <2>2. \A x, y \in S : x \in A => k[x][1] <= k[y][1]
    BY <1>2
  <2>3. \A x, y \in S : x \in A /\ y \notin A => k[x][1] < k[y][1]
    <3> SUFFICES ASSUME NEW x \in S, NEW y \in S, x \in A, y \notin A PROVE k[x][1] < k[y][1]
      OBVIOUS
    <3>1. PICK z \in S : ~(k[y][1] <= k[z][1])
      BY <1>2
    <3> QED BY <2>1, <2>2, <3>1
  <2>4. \A x \in S : x \in B => \A y \in A : k[x][2] <= k[y][2]
    BY <1>3
  <2>5. \A x \in B : \A y \in A : y \notin B => k[x][2] < k[y][2]
    <3> SUFFICES ASSUME NEW x \in B, NEW y \in A, y \notin B PROVE k[x][2] < k[y][2]
      OBVIOUS
    <3>1. PICK z \in A : ~(k[y][2] <= k[z][2])
      BY <1>3
    <3>2. x \in S /\ y \in S /\ z \in S
      BY <1>2, <1>3
    <3> QED BY <2>1, <2>4, <3>1, <3>2
  <2>6. \A x \in C : \A y \in B : k[x][3] <= k[y][3]
    BY <1>4
  <2>7. \A x \in C : \A y \in B : y \notin C => k[x][3] < k[y][3]
    <3> SUFFICES ASSUME NEW x \in C, NEW y \in B, y \notin C PROVE k[x][3] < k[y][3]
      OBVIOUS
    <3>1. PICK z \in B : ~(k[y][3] <= k[z][3])
      BY <1>4
    <3>2. x \in S /\ y \in S /\ z \in S
      BY <1>2, <1>3, <1>4
    <3> QED BY <2>1, <2>6, <3>1, <3>2
  <2>8. \A y \in C : k[r][4] <= k[y][4]
    BY <1>5
  <2>9. q \in A => k[r][1] = k[q][1]
    BY <1>6, <2>1, <2>2
  <2>10. q \in B => q \in A /\ k[r][2] = k[q][2]
    <3>1. q \in B => q \in A
      BY <1>3
    <3> QED BY <1>6, <2>1, <2>4, <3>1
  <2>11. q \in C => q \in B /\ k[r][3] = k[q][3]
    <3>1. q \in C => q \in B
      BY <1>4
    <3> QED BY <1>6, <2>1, <2>6, <3>1
  <2> HIDE DEF Best
  <2>12. CASE q \notin A
    <3>1. k[r][1] < k[q][1] /\ k[r][1] \in Int /\ k[q][1] \in Int
      BY <1>6, <2>1, <2>3, <2>12
    <3>2. 1 \in 1..4 /\ k[r][1] <= k[q][1] /\ \A m \in 1..(1 - 1) : k[r][m] = k[q][m]
      BY <3>1
    <3> QED BY <3>1, <3>2 DEF NoLater
  <2>13. CASE q \in A /\ q \notin B
    <3>1. k[r][2] < k[q][2] /\ k[r][2] \in Int /\ k[q][2] \in Int
      BY <1>6, <2>1, <2>5, <2>13
    <3>2. 2 \in 1..4 /\ k[r][2] <= k[q][2] /\ \A m \in 1..(2 - 1) : k[r][m] = k[q][m]
      BY <2>9, <2>13, <3>1
    <3> QED BY <3>1, <3>2 DEF NoLater
  <2>14. CASE q \in B /\ q \notin C
    <3>1. k[r][3] < k[q][3] /\ k[r][3] \in Int /\ k[q][3] \in Int
      BY <1>6, <2>1, <2>7, <2>14
    <3>2. 3 \in 1..4 /\ k[r][3] <= k[q][3] /\ \A m \in 1..(3 - 1) : k[r][m] = k[q][m]
      BY <2>9, <2>10, <2>14, <3>1
    <3> QED BY <3>1, <3>2 DEF NoLater
  <2>15. CASE q \in C
    <3>1. k[r][4] <= k[q][4]
      BY <2>8, <2>15
    <3>2. 4 \in 1..4 /\ \A m \in 1..(4 - 1) : k[r][m] = k[q][m]
      BY <2>9, <2>10, <2>11, <2>15
    <3> QED BY <3>1, <3>2 DEF NoLater
  <2> QED BY <2>12, <2>13, <2>14, <2>15, <2>10, <2>11
<1> QED BY <1>6, <1>7

\* The empty list is one of any records.
LEMMA EmptyList == ASSUME NEW V PROVE ListFrom(<< >>, V)
<1>1. TopK \in Nat
  BY RetrievalAssumption
<1> QED BY <1>1 DEF ListFrom, IsInjective

\* A list without its last is one of the same records.
LEMMA FrontKeeps ==
    ASSUME NEW V, NEW s, ListFrom(s, V), s # << >>
    PROVE  ListFrom(Front(s), V)
<1> PICK t : t = Front(s)
  OBVIOUS
<1>1. TopK \in Nat /\ s \in Seq(V) /\ Len(s) <= TopK /\ \A n, m \in 1..Len(s) : s[n] = s[m] => n = m
  BY RetrievalAssumption DEF ListFrom, IsInjective
<1>2. t \in Seq(V) /\ Len(t) = Len(s) - 1 /\ \A n \in 1..Len(t) : t[n] = s[n]
  BY <1>1, FrontMeans
<1>3. Len(t) <= TopK /\ DOMAIN t = 1..Len(t) /\ \A n \in 1..Len(t) : n \in 1..Len(s)
  BY <1>1, <1>2
<1>4. ASSUME NEW n \in 1..Len(t), NEW m \in 1..Len(t), t[n] = t[m] PROVE n = m
  BY <1>1, <1>2, <1>3, <1>4
<1>5. IsInjective(t)
  BY <1>3, <1>4 DEF IsInjective
<1> QED BY <1>2, <1>3, <1>5 DEF ListFrom

\* The graph stands as long as no step of it is taken.
LEMMA GraphStays ==
    ASSUME GraphOK, UNCHANGED <<view, scope, allowed, over>>,
           UNCHANGED score /\ (pc' \in {"start", "scope"} <=> pc \in {"start", "scope"})
    PROVE  GraphOK'
<1>1. Contained' = Contained /\ Weighted' = Weighted
  BY DEF Contained, Weighted, ViewRelations, Projected
<1> QED BY <1>1 DEF GraphOK

\* So do the sources of an answer,
LEMMA SourcesStay == ASSUME SourcesOK, UNCHANGED <<private, withPredictions, docs, items, refused>> PROVE SourcesOK'
<1>1. \A o : Accepts(o)' <=> Accepts(o)
  BY DEF Accepts
<1> QED BY <1>1 DEF SourcesOK

\* its facts,
LEMMA PrefixStays == ASSUME RankedOK, UNCHANGED <<private, docs, facts, ranked>> PROVE RankedOK'
  BY DEF RankedOK

\* its other lists,
LEMMA ListsStay == ASSUME ListsOK, UNCHANGED <<docs, items, guidance, predictions>> PROVE ListsOK'
  BY DEF ListsOK, Given

\* its flow,
LEMMA FlowStays ==
    ASSUME FlowOK, UNCHANGED <<over, flow>>,
           pc' = "flow" => pc = "flow" /\ UNCHANGED <<allowed, reached, facts>>
    PROVE  FlowOK'
<1>1. ASSUME UNCHANGED <<allowed, reached, facts>> PROVE Source' = Source
  <2>1. \A d : About(d)' = About(d)
    BY <1>1 DEF About, Linked, DerivsWithin
  <2>2. Starts' = Starts
    BY <1>1, <2>1 DEF Starts
  <2> QED BY <1>1, <2>1, <2>2 DEF Source
<1> QED BY <1>1 DEF FlowOK

\* and its trace.
LEMMA TraceStays ==
    ASSUME TraceOK, UNCHANGED <<items, facts, guidance, predictions, citations>>,
           UNCHANGED <<privateFlag, confidence, compacted, traced, truncated>>,
           pc' \in {"trim", "done"} => pc \in {"trim", "done"}
    PROVE  TraceOK'
<1>1. Flagged(facts, guidance, predictions)' <=> Flagged(facts, guidance, predictions)
  BY DEF Flagged, IsPrivate, Excerpted
<1> QED BY <1>1 DEF TraceOK, CitationsOf

\* Before the first step nothing is there.
LEMMA PlanesInit == Init => PlanesIInv
<1> SUFFICES ASSUME Init PROVE PlanesIInv
  OBVIOUS
<1>0. TopK \in Nat
  BY RetrievalAssumption
<1>1. RequestOK /\ GraphOK
  BY DEF Init, RequestOK, GraphOK
<1>2. SourcesOK
  <2>1. items = {o \in {} : Accepts(o)} /\ refused = {o.id : o \in {q \in {} : ~Accepts(q)}}
    BY DEF Init
  <2> QED BY <2>1 DEF Init, SourcesOK
<1>3. RankedOK /\ ListsOK
  BY <1>0, EmptyList DEF Init, RankedOK, ListsOK, IsInjective
<1>4. FlowOK
  BY DEF Init, FlowOK
<1>5. TraceOK
  <2>1. ToSet(<< >>) = {}
    BY DEF ToSet
  <2> QED BY <2>1 DEF Init, TraceOK, CitationsOf
<1>6. Unranked
  BY DEF Init, Unranked
<1> QED BY <1>1, <1>2, <1>3, <1>4, <1>5, <1>6 DEF PlanesIInv

\* A scope opens with what it is about.
LEMMA OpenPlanes == ASSUME IInv, PlanesIInv, Open PROVE PlanesIInv'
<1>1. /\ pc = "start" /\ pc' = "scope" /\ allowed' = (IF scope = 0 THEN ViewEntities ELSE {scope})
      /\ UNCHANGED <<query, view, scope, private, withPredictions, budget, score, over, docs, items, refused>>
      /\ UNCHANGED <<facts, guidance, predictions, flow, citations, ranked>>
      /\ UNCHANGED <<truncated, traced, compacted, privateFlag, confidence>>
  BY DEF Open, request, ledger, answer, verdict
<1>2. GraphOK'
  <2>1. scope # 0 => scope \in Contained /\ Contained' = Contained
    BY <1>1 DEF IInv, CorpusOK, Contained
  <2>2. over' = {}
    BY <1>1 DEF PlanesIInv, GraphOK
  <2> QED BY <1>1, <2>1, <2>2 DEF GraphOK
<1> QED BY <1>1, <1>2, SourcesStay, PrefixStays, ListsStay, FlowStays, TraceStays
        DEF PlanesIInv, RequestOK, Unranked

\* What is contained in what is within the scope is within it.
LEMMA WidenPlanes == ASSUME IInv, PlanesIInv, Widen PROVE PlanesIInv'
<1>1. /\ pc = "scope" /\ pc' = "scope" /\ scope # 0 /\ allowed' = Inner
      /\ UNCHANGED <<query, view, scope, private, withPredictions, budget, score, over, docs, items, refused>>
      /\ UNCHANGED <<facts, guidance, predictions, flow, citations, ranked>>
      /\ UNCHANGED <<truncated, traced, compacted, privateFlag, confidence>>
  BY DEF Widen, request, ledger, answer, verdict
<1>2. GraphOK'
  <2>1. allowed \subseteq Contained /\ over' = {} /\ Contained' = Contained
    BY <1>1 DEF PlanesIInv, GraphOK, Contained
  <2>2. ASSUME NEW r \in ViewRelations, r.kind \in Containing, r.src \in allowed PROVE r.dst \in Contained
    <3>1. r \in Relations /\ r.dst \in Entities /\ r.src \in Contained
      BY <2>1, <2>2, RetrievalAssumption DEF ViewRelations, Projected
    <3>2. ASSUME NEW S \in SUBSET Entities, scope \in S,
                 Along({q \in Relations : q.kind \in Containing}, S) \subseteq S
          PROVE  r.dst \in S
      <4>1. r.src \in S
        BY <3>1, <3>2 DEF Contained
      <4> QED BY <2>2, <3>1, <3>2, <4>1 DEF Along
    <3> QED BY <3>1, <3>2 DEF Contained
  <2>3. Inner \subseteq Contained
    BY <2>1, <2>2 DEF Inner, Along
  <2> QED BY <1>1, <2>1, <2>3 DEF GraphOK
<1> QED BY <1>1, <1>2, SourcesStay, PrefixStays, ListsStay, FlowStays, TraceStays
        DEF PlanesIInv, RequestOK, Unranked

\* The corpora are read while there are no lists yet.
LEMMA CollectPlanes == ASSUME IInv, PlanesIInv, Collect PROVE PlanesIInv'
<1>1. /\ pc = "scope" /\ pc' = "walk" /\ score' \in Scores
      /\ docs'.knowledge \in {{}, Rules} /\ docs'.predictions = PredictionsWithin
      /\ UNCHANGED <<query, view, scope, private, withPredictions, budget, allowed, over, items, refused>>
      /\ UNCHANGED <<facts, guidance, predictions, flow, citations, ranked>>
      /\ UNCHANGED <<truncated, traced, compacted, privateFlag, confidence>>
  BY DEF Collect, request, answer, verdict
<1>2. ranked = << >> /\ guidance = << >> /\ predictions = << >> /\ flow = << >>
  BY <1>1 DEF PlanesIInv, Unranked
<1>3. GraphOK'
  <2>1. Contained' = Contained /\ over' = {}
    BY <1>1 DEF PlanesIInv, GraphOK, Contained
  <2> QED BY <1>1, <2>1 DEF PlanesIInv, GraphOK
<1>4. SourcesOK'
  <2>1. \A o : Accepts(o)' <=> Accepts(o)
    BY <1>1 DEF Accepts
  <2>2. docs'.predictions \subseteq {p \in DOMAIN Predicted : withPredictions}
    BY <1>1 DEF PredictionsWithin
  <2> QED BY <1>1, <2>1, <2>2 DEF PlanesIInv, SourcesOK
<1>5. RankedOK'
  BY <1>1, <1>2 DEF PlanesIInv, RankedOK
<1>6. ListsOK'
  BY <1>1, <1>2, EmptyList DEF ListsOK
<1> QED BY <1>1, <1>3, <1>4, <1>5, <1>6, FlowStays, TraceStays DEF PlanesIInv, RequestOK, Unranked

\* The walk goes over weighted relations of the scope.
LEMMA SpreadPlanes == ASSUME IInv, PlanesIInv, Spread PROVE PlanesIInv'
<1>1. /\ pc = "walk" /\ pc' \in {"walk", "adapters"} /\ over' = over \cup {r \in Weighted : r.src \in reached}
      /\ UNCHANGED <<query, view, scope, private, withPredictions, budget, score, allowed, docs, items, refused>>
      /\ UNCHANGED <<facts, guidance, predictions, flow, citations, ranked>>
      /\ UNCHANGED <<truncated, traced, compacted, privateFlag, confidence>>
  BY DEF Spread, request, ledger, answer, verdict
<1>2. GraphOK'
  <2>1. Contained' = Contained /\ Weighted' = Weighted
    BY <1>1 DEF Contained, Weighted, ViewRelations, Projected
  <2> QED BY <1>1, <2>1 DEF PlanesIInv, GraphOK
<1>3. FlowOK'
  BY <1>1 DEF PlanesIInv, FlowOK, Unranked
<1> QED BY <1>1, <1>2, <1>3, SourcesStay, PrefixStays, ListsStay, TraceStays
        DEF PlanesIInv, RequestOK, Unranked

\* What adapters return is accepted or refused, item by item, or none of it is there.
LEMMA AdapterPlanes == ASSUME IInv, PlanesIInv, Adapter PROVE PlanesIInv'
<1>1. /\ pc = "adapters" /\ pc' = "rank"
      /\ UNCHANGED <<query, view, scope, private, withPredictions, budget, score, allowed, over, docs>>
      /\ UNCHANGED <<facts, guidance, predictions, flow, citations, ranked>>
      /\ UNCHANGED <<truncated, traced, compacted, privateFlag, confidence>>
  BY DEF Adapter, request, ledger, graph, answer, verdict
<1>2. guidance = << >> /\ predictions = << >>
  BY <1>1 DEF PlanesIInv, Unranked
<1>3. SourcesOK'
  <2>1. \A o : Accepts(o)' <=> Accepts(o)
    BY <1>1 DEF Accepts
  <2>2. CASE UNCHANGED <<items, refused>>
    BY <1>1, <2>2, SourcesStay DEF PlanesIInv
  <2>3. CASE \E out \in Outputs : /\ items' = {o \in out : Accepts(o)}
                                  /\ refused' = {o.id : o \in {q \in out : ~Accepts(q)}}
    BY <1>1, <2>1, <2>3 DEF PlanesIInv, SourcesOK
  <2> QED BY <2>2, <2>3 DEF Adapter
<1>4. ListsOK'
  BY <1>1, <1>2, EmptyList DEF ListsOK
<1>5. TraceOK'
  BY <1>1 DEF PlanesIInv, TraceOK, CitationsOf
<1> QED BY <1>1, <1>3, <1>4, <1>5, GraphStays, PrefixStays, FlowStays DEF PlanesIInv, RequestOK, Unranked

\* The facts are records of the corpus and, with leave, snippets behind their entities.
LEMMA RankFactsPlanes == ASSUME IInv, PlanesIInv, RankFacts PROVE PlanesIInv'
<1>1. /\ pc = "rank" /\ pc' = "flow" /\ facts' = ranked'
      /\ UNCHANGED <<query, view, scope, private, withPredictions, budget, score, allowed, over, docs, items, refused>>
      /\ UNCHANGED <<guidance, predictions, flow, citations>>
      /\ UNCHANGED <<truncated, traced, compacted, privateFlag, confidence>>
  BY DEF RankFacts, request, ledger, graph, verdict
<1>2. guidance = << >> /\ predictions = << >> /\ flow = << >>
  BY <1>1 DEF PlanesIInv, Unranked
<1> PICK corpus : corpus = docs.facts
  OBVIOUS
<1>3. PICK top, ents : /\ top = UpTo(FactRanking(corpus), TopK) /\ ents \in Snippets /\ (ents # {} => private)
                       /\ ranked' = WithSnippets(top, ents \cap ToSet(top))
  BY Zenon DEF RankFacts, FactCorpus
<1>4. IsFiniteSet(corpus) /\ corpus \in SUBSET (Nat \ {0})
  BY DEF IInv, CorpusOK
<1>5. FactRanking(corpus) \in Seq(corpus) /\ IsInjective(FactRanking(corpus))
  BY <1>4, RankingMeans
<1>6. top \in Seq(corpus) /\ IsInjective(top)
  BY <1>3, <1>5, CutKeeps DEF ListFrom
<1> PICK shown : shown = ents \cap ToSet(top)
  OBVIOUS
<1>7. PICK all : Interleaved(all, top, shown, Len(top)) /\ ranked' = UpTo(all, TopK)
  BY <1>3, <1>4, <1>6, SnippetsMean
<1>8. all \in Seq(Int) /\ IsInjective(all)
  <2>1. IsInjective(all)
    BY <1>6, <1>7, InterleavedOnce
  <2> QED BY <1>7, <2>1 DEF Interleaved
<1> PICK F : F = ranked'
  OBVIOUS
<1>9. ListFrom(F, Int) /\ \A n \in 1..Len(F) : n \in DOMAIN all /\ F[n] = all[n]
  <2>1. TopK \in Nat
    BY RetrievalAssumption
  <2>2. ListFrom(F, Int)
    BY <1>7, <1>8, CutKeeps
  <2> QED BY <1>7, <1>8, <2>1, <2>2, CutMeans
<1>10. shown \subseteq corpus \cap Entities /\ (shown # {} => private)
  <2>1. ToSet(top) \subseteq corpus
    BY <1>6 DEF ToSet
  <2>2. ents \subseteq Entities
    BY <1>3, RetrievalAssumption
  <2> QED BY <1>3, <2>1, <2>2
<1>11. ASSUME NEW n \in 1..Len(F)
       PROVE  \/ F[n] \in corpus
              \/ n > 1 /\ F[n - 1] \in corpus \cap Entities /\ F[n] = Snippet(F[n - 1]) /\ private
  <2>1. n \in DOMAIN all /\ F[n] = all[n] /\ all[n] \in Int /\ all[n] # 0 /\ n \in Nat
    BY <1>7, <1>8, <1>9 DEF Interleaved
  <2>2. CASE all[n] > 0
    <3>1. Records(all, n) \in 1..Len(top) /\ all[n] = top[Records(all, n)]
      BY <1>7, <2>1, <2>2 DEF Interleaved
    <3>2. \A k \in 1..Len(top) : top[k] \in corpus
      BY <1>6
    <3> QED BY <2>1, <3>1, <3>2
  <2>3. CASE all[n] < 0
    <3>1. n > 1 /\ all[n - 1] = -all[n] /\ -all[n] \in shown
      BY <1>7, <2>1, <2>3 DEF Interleaved
    <3>2. n - 1 \in 1..Len(F)
      BY <1>9, <3>1 DEF ListFrom
    <3>3. F[n - 1] = all[n - 1] /\ F[n - 1] \in corpus \cap Entities /\ private
      BY <1>9, <1>10, <3>1, <3>2
    <3>4. F[n] = Snippet(F[n - 1])
      BY <2>1, <3>1, <3>3 DEF Snippet
    <3> QED BY <3>1, <3>3, <3>4
  <2> QED BY <2>1, <2>2, <2>3
<1>12. RankedOK'
  <2>1. DOMAIN F = 1..Len(F) /\ IsInjective(F) /\ Len(F) <= TopK /\ Len(F) \in Nat
    BY <1>9 DEF ListFrom
  <2>2. docs'.facts = corpus /\ private' = private
    BY <1>1
  <2>3. ranked' = F /\ facts' = F
    BY <1>1
  <2> QED BY <1>11, <2>1, <2>2, <2>3 DEF RankedOK, Snippet
<1>13. FlowOK'
  BY <1>1, <1>2 DEF FlowOK
<1>14. TraceOK'
  BY <1>1 DEF PlanesIInv, TraceOK, CitationsOf
<1> QED BY <1>1, <1>2, <1>12, <1>13, <1>14, GraphStays, SourcesStay, ListsStay DEF PlanesIInv, RequestOK, Unranked

\* Of the relations that go on, one comes first.
LEMMA OnwardHasFirst ==
    ASSUME PlanesIInv, pc = "flow", Onward # {}
    PROVE  \E r \in Onward : \A q \in Onward : NoLater(FlowKey(r), FlowKey(q))
<1>1. over \subseteq Relations /\ score \in [Entities -> Int]
  BY RetrievalAssumption DEF PlanesIInv, GraphOK, Weighted, ViewRelations, Projected
<1>2. Onward \subseteq over
  BY DEF Onward
<1>3. IsFiniteSet(Onward)
  <2>1. IsFiniteSet(Relations)
    BY RetrievalAssumption
  <2>2. Onward \subseteq Relations
    BY <1>1, <1>2
  <2> QED BY <2>1, <2>2, FS_Subset
<1> DEFINE k == [r \in Onward |-> FlowKey(r)]
<1>4. ASSUME NEW r \in Onward PROVE FlowKey(r) \in [1..4 -> Int]
  <2>1. r \in Relations /\ r.dst \in Entities /\ Hardware[r.kind] \in Nat
    BY <1>1, <1>2, RetrievalAssumption
  <2>2. r.dst \in Int /\ r.id \in Int
    BY <2>1, KindsMean
  <2>3. -score[r.dst] \in Int /\ -Hardware[r.kind] \in Int
    BY <1>1, <2>1
  <2>4. FlowKey(r) = <<-score[r.dst], -Hardware[r.kind], r.dst, r.id>>
    BY DEF FlowKey
  <2> QED BY <2>2, <2>3, <2>4
<1>5. k \in [Onward -> [1..4 -> Int]] /\ \A r \in Onward : k[r] = FlowKey(r)
  BY <1>4
<1> PICK S : S = Onward
  OBVIOUS
<1> HIDE DEF k
<1>6. \E r \in S : \A q \in S : NoLater(k[r], k[q])
  BY <1>3, <1>5, LeastKey
<1> QED BY <1>5, <1>6

\* A list without elements is the empty one.
LEMMA NoElements == ASSUME NEW V, NEW s \in Seq(V), Len(s) = 0 PROVE s = << >>
  OBVIOUS

\* The flow goes on from its end, to where it was not yet.
LEMMA FollowPlanes == ASSUME IInv, PlanesIInv, Follow PROVE PlanesIInv'
<1>1. /\ pc = "flow" /\ pc' = "flow" /\ Onward # {}
      /\ flow' = Append(flow, CHOOSE r \in Onward : \A q \in Onward : NoLater(FlowKey(r), FlowKey(q)))
      /\ UNCHANGED <<query, view, scope, private, withPredictions, budget, score, allowed, over, docs, items, refused>>
      /\ UNCHANGED <<facts, guidance, predictions, citations, ranked, reached>>
      /\ UNCHANGED <<truncated, traced, compacted, privateFlag, confidence>>
  BY DEF Follow, request, ledger, graph, verdict
<1>2. PICK r \in Onward : flow' = Append(flow, r)
  BY <1>1, OnwardHasFirst
<1> PICK F : F = flow'
  OBVIOUS
<1> PICK L : L = Len(flow)
  OBVIOUS
<1>3. /\ flow \in Seq(over) /\ \A n \in 2..L : flow[n].src = flow[n - 1].dst
      /\ \A n, m \in 1..L : n <= m => flow[m].dst # flow[n].src
      /\ flow # << >> => flow[1].src = Source
  BY <1>1 DEF PlanesIInv, FlowOK
<1>4. /\ r \in over /\ r.src = Current /\ r.dst \notin {Source} \cup {flow[n].dst : n \in DOMAIN flow}
  BY DEF Onward
<1>5. /\ F \in Seq(over) /\ L \in Nat /\ Len(F) = L + 1 /\ F[L + 1] = r /\ \A n \in 1..L : F[n] = flow[n]
  BY <1>2, <1>3, <1>4
<1>6. L = 0 => r.src = Source
  <2>0. flow \in Seq(over)
    BY <1>3
  <2>1. L = 0 => flow = << >>
    BY <2>0, NoElements
  <2> QED BY <1>4, <2>1 DEF Current
<1>7. L # 0 => r.src = flow[L].dst
  BY <1>3, <1>4 DEF Current, Last
<1>8. r.dst # Source /\ \A n \in 1..L : r.dst # flow[n].dst
  BY <1>3, <1>4
<1>9. ASSUME NEW n \in 2..(L + 1) PROVE F[n].src = F[n - 1].dst
  <2>1. CASE n = L + 1
    <3>1. L # 0 /\ n - 1 = L /\ L \in 1..L
      BY <1>5, <2>1
    <3> QED BY <1>5, <1>7, <2>1, <3>1
  <2>2. CASE n # L + 1
    <3>1. n \in 2..L /\ n \in 1..L /\ n - 1 \in 1..L
      BY <1>5, <2>2
    <3> QED BY <1>3, <1>5, <3>1
  <2> QED BY <2>1, <2>2
<1>10. ASSUME NEW n \in 1..(L + 1), NEW m \in 1..(L + 1), n <= m PROVE F[m].dst # F[n].src
  <2>1. CASE m # L + 1
    <3>1. n \in 1..L /\ m \in 1..L
      BY <1>5, <1>10, <2>1
    <3> QED BY <1>3, <1>5, <1>10, <3>1
  <2>2. CASE m = L + 1
    <3>1. F[m].dst = r.dst
      BY <1>5, <2>2
    <3>2. CASE n = 1
      <4>1. F[n].src = Source
        BY <1>3, <1>5, <1>6, <3>2
      <4> QED BY <1>8, <3>1, <4>1
    <3>3. CASE n # 1
      <4>1. n \in 2..(L + 1) /\ n - 1 \in 1..L
        BY <1>5, <3>3
      <4>2. F[n].src = flow[n - 1].dst
        BY <1>5, <1>9, <4>1
      <4> QED BY <1>8, <3>1, <4>1, <4>2
    <3> QED BY <3>2, <3>3
  <2> QED BY <2>1, <2>2
<1>11. F[1].src = Source
  BY <1>3, <1>5, <1>6
<1>12. FlowOK'
  <2>1. Source' = Source
    <3>1. \A d : About(d)' = About(d)
      BY <1>1 DEF About, Linked, DerivsWithin
    <3>2. Starts' = Starts
      BY <1>1, <3>1 DEF Starts
    <3> QED BY <1>1, <3>1, <3>2 DEF Source
  <2>2. /\ F \in Seq(over) /\ \A n \in 2..Len(F) : F[n].src = F[n - 1].dst
        /\ \A n, m \in 1..Len(F) : n <= m => F[m].dst # F[n].src
        /\ F[1].src = Source
    BY <1>5, <1>9, <1>10, <1>11
  <2>3. flow' = F /\ over' = over
    BY <1>1
  <2> QED BY <2>1, <2>2, <2>3 DEF FlowOK
<1> QED BY <1>1, <1>12, GraphStays, SourcesStay, PrefixStays, ListsStay, TraceStays
        DEF PlanesIInv, RequestOK, Unranked

\* Guidance and predictions are each of their own sources.
LEMMA GuidePlanes == ASSUME IInv, PlanesIInv, Guide PROVE PlanesIInv'
<1>1. /\ pc = "flow" /\ pc' = "judge" /\ guidance' = GuidanceOrder /\ predictions' = PredictionOrder
      /\ citations' = CitationsOf(guidance')
      /\ UNCHANGED <<query, view, scope, private, withPredictions, budget, score, allowed, over, docs, items, refused>>
      /\ UNCHANGED <<facts, flow, ranked>>
      /\ UNCHANGED <<truncated, traced, compacted, privateFlag, confidence>>
  BY DEF Guide, request, ledger, graph, verdict
<1>2. ListsOK'
  <2>1. /\ ListFrom(GuidanceOrder, docs.knowledge \cup Given("local"))
        /\ ListFrom(PredictionOrder, docs.predictions \cup Given("predictions"))
    BY GuidanceMeans, PredictionsMean DEF PlanesIInv
  <2>2. docs' = docs /\ \A plane : Given(plane)' = Given(plane)
    BY <1>1 DEF Given
  <2> QED BY <1>1, <2>1, <2>2 DEF ListsOK
<1>3. TraceOK'
  BY <1>1 DEF PlanesIInv, TraceOK, CitationsOf
<1> QED BY <1>1, <1>2, <1>3, GraphStays, SourcesStay, PrefixStays, FlowStays DEF PlanesIInv, RequestOK, Unranked

\* What is in lists in a row is in one of them.
LEMMA JoinHas ==
    ASSUME NEW S, NEW s \in Seq(S), NEW T, NEW t \in Seq(T)
    PROVE  s \o t \in Seq(S \cup T) /\ ToSet(s \o t) = ToSet(s) \cup ToSet(t)
<1> PICK u : u = s \o t
  OBVIOUS
<1>1. u \in Seq(S \cup T)
  <2>1. s \in Seq(S \cup T) /\ t \in Seq(S \cup T)
    BY ListOfMore
  <2> PICK V : V = S \cup T
    OBVIOUS
  <2> QED BY <2>1
<1>2. /\ Len(s) \in Nat /\ Len(t) \in Nat /\ DOMAIN s = 1..Len(s) /\ DOMAIN t = 1..Len(t)
      /\ Len(u) = Len(s) + Len(t) /\ DOMAIN u = 1..(Len(s) + Len(t))
      /\ \A n \in 1..(Len(s) + Len(t)) : u[n] = IF n <= Len(s) THEN s[n] ELSE t[n - Len(s)]
  OBVIOUS
<1>3. ToSet(s) \subseteq ToSet(u)
  <2> SUFFICES ASSUME NEW n \in 1..Len(s) PROVE \E m \in DOMAIN u : u[m] = s[n]
    BY <1>2 DEF ToSet
  <2>1. n \in DOMAIN u /\ u[n] = s[n]
    BY <1>2
  <2> QED BY <2>1, Zenon
<1>4. ToSet(t) \subseteq ToSet(u)
  <2> SUFFICES ASSUME NEW n \in 1..Len(t) PROVE \E m \in DOMAIN u : u[m] = t[n]
    BY <1>2 DEF ToSet
  <2>1. Len(s) + n \in DOMAIN u /\ u[Len(s) + n] = t[n]
    BY <1>2
  <2> QED BY <2>1, Zenon
<1>5. ToSet(u) \subseteq ToSet(s) \cup ToSet(t)
  <2> SUFFICES ASSUME NEW m \in DOMAIN u PROVE u[m] \in ToSet(s) \cup ToSet(t)
    BY DEF ToSet
  <2>1. CASE m <= Len(s)
    <3>1. m \in DOMAIN s /\ u[m] = s[m]
      BY <1>2, <2>1
    <3> QED BY <3>1 DEF ToSet
  <2>2. CASE ~(m <= Len(s))
    <3>1. m - Len(s) \in DOMAIN t /\ u[m] = t[m - Len(s)]
      BY <1>2, <2>2
    <3> QED BY <3>1 DEF ToSet
  <2> QED BY <2>1, <2>2, Zenon
<1>6. ToSet(u) = ToSet(s) \cup ToSet(t)
  BY <1>3, <1>4, <1>5, Zenon
<1> QED BY <1>1, <1>6

\* The three lists in a row have private text if one of them has.
LEMMA JoinIsFlagged ==
    ASSUME IInv, PlanesIInv
    PROVE  (\E x \in ToSet(facts \o guidance \o predictions) : IsPrivate(x)) <=> Flagged(facts, guidance, predictions)
<1>1. PICK F, G, P : facts \in Seq(F) /\ guidance \in Seq(G) /\ predictions \in Seq(P)
  BY DEF IInv, PlanesIInv, ListsOK, ListFrom
<1>2. PICK V : V = F \cup G
  OBVIOUS
<1>3. facts \o guidance \in Seq(V) /\ ToSet(facts \o guidance) = ToSet(facts) \cup ToSet(guidance)
  <2>1. /\ facts \o guidance \in Seq(F \cup G)
        /\ ToSet(facts \o guidance) = ToSet(facts) \cup ToSet(guidance)
    BY <1>1, JoinHas, Zenon
  <2> QED BY <1>2, <2>1, Zenon
<1>4. PICK u : u = facts \o guidance
  OBVIOUS
<1>5. u \in Seq(V) /\ ToSet(u) = ToSet(facts) \cup ToSet(guidance)
  BY <1>3, <1>4
<1>6. \A a \in Seq(V), b \in Seq(P) : ToSet(a \o b) = ToSet(a) \cup ToSet(b)
  BY JoinHas
<1>7. ToSet(u \o predictions) = ToSet(u) \cup ToSet(predictions)
  BY <1>1, <1>5, <1>6
<1> QED BY <1>4, <1>5, <1>7 DEF Flagged

\* The trace says whether there is private text.
LEMMA JudgePlanes == ASSUME IInv, PlanesIInv, Judge PROVE PlanesIInv'
<1>1. /\ pc = "judge" /\ pc' = "trim"
      /\ privateFlag' = \E x \in ToSet(facts \o guidance \o predictions) : IsPrivate(x)
      /\ confidence' \in {"high", "low", "incomplete"}
      /\ UNCHANGED <<query, view, scope, private, withPredictions, budget, score, allowed, over, docs, items, refused>>
      /\ UNCHANGED <<facts, guidance, predictions, flow, citations, ranked>>
      /\ UNCHANGED <<truncated, traced, compacted>>
  BY DEF Judge, request, ledger, graph, answer
<1>2. TraceOK'
  <2>1. Flagged(facts, guidance, predictions)' <=> Flagged(facts, guidance, predictions)
    BY <1>1 DEF Flagged, IsPrivate, Excerpted
  <2>2. privateFlag' <=> Flagged(facts, guidance, predictions)
    BY <1>1, JoinIsFlagged, Zenon
  <2> QED BY <1>1, <2>1, <2>2 DEF PlanesIInv, TraceOK, CitationsOf
<1> QED BY <1>1, <1>2, GraphStays, SourcesStay, PrefixStays, ListsStay, FlowStays
        DEF PlanesIInv, RequestOK, Unranked

\* What is trimmed is the last of one list, or a detail.
LEMMA TrimmedLists ==
    ASSUME ~FullyTrimmed, compacted => traced
    PROVE  /\ Trimmed.facts = facts \/ (facts # << >> /\ Trimmed.facts = Front(facts))
           /\ Trimmed.guidance = guidance \/ (guidance # << >> /\ Trimmed.guidance = Front(guidance))
           /\ Trimmed.predictions = predictions
                 \/ (predictions # << >> /\ Trimmed.predictions = Front(predictions))
           /\ Trimmed.flow = flow \/ (flow # << >> /\ Trimmed.flow = Front(flow))
           /\ Trimmed.compacted => Trimmed.traced
  BY DEF Trimmed, FullyTrimmed

\* What is left of an answer is of the same planes, and the trace follows it.
LEMMA TrimPlanes == ASSUME IInv, PlanesIInv, Trim PROVE PlanesIInv'
<1>1. /\ pc = "trim" /\ pc' = "trim" /\ ~FullyTrimmed
      /\ UNCHANGED <<query, view, scope, private, withPredictions, budget, score, allowed, over, docs, items, refused>>
      /\ ranked' = ranked /\ truncated' = TRUE
      /\ facts' = Trimmed.facts /\ guidance' = Trimmed.guidance /\ predictions' = Trimmed.predictions
      /\ flow' = Trimmed.flow /\ traced' = Trimmed.traced /\ compacted' = Trimmed.compacted
      /\ confidence' \in {confidence, "low"}
  BY DEF Trim, request, ledger, graph
<1>2. /\ citations' = CitationsOf(guidance')
      /\ privateFlag' = Flagged(facts', guidance', predictions')
  BY DEF Trim
<1>3. /\ facts' = facts \/ (facts # << >> /\ facts' = Front(facts))
      /\ guidance' = guidance \/ (guidance # << >> /\ guidance' = Front(guidance))
      /\ predictions' = predictions \/ (predictions # << >> /\ predictions' = Front(predictions))
      /\ flow' = flow \/ (flow # << >> /\ flow' = Front(flow))
      /\ compacted' => traced'
  <2>1. compacted => traced
    BY DEF PlanesIInv, TraceOK
  <2> QED BY <1>1, <2>1, TrimmedLists
<1>4. RankedOK'
  <2> PICK F : F = facts'
    OBVIOUS
  <2>1. RankedOK /\ facts \in Seq(Int) /\ ranked \in Seq(Int)
    BY DEF IInv, PlanesIInv
  <2>2. F \in Seq(Int) /\ Len(F) <= Len(facts) /\ \A n \in 1..Len(F) : n \in 1..Len(facts) /\ F[n] = facts[n]
    <3>1. CASE facts' = facts
      BY <2>1, <3>1
    <3>2. CASE facts # << >> /\ facts' = Front(facts)
      <4>1. F \in Seq(Int) /\ Len(F) = Len(facts) - 1 /\ \A n \in 1..Len(F) : F[n] = facts[n]
        BY <2>1, <3>2, FrontMeans
      <4>2. Len(facts) \in Nat /\ Len(F) \in Nat
        BY <2>1, <4>1
      <4> QED BY <4>1, <4>2
    <3> QED BY <1>3, <3>1, <3>2
  <2>3. Len(F) <= Len(ranked) /\ \A n \in 1..Len(F) : F[n] = ranked[n]
    <3>1. Len(F) \in Nat /\ Len(facts) \in Nat /\ Len(ranked) \in Nat
      BY <2>1, <2>2
    <3> QED BY <2>1, <2>2, <3>1 DEF RankedOK
  <2>4. ranked' = ranked /\ private' = private /\ docs' = docs /\ facts' = F
    BY <1>1
  <2> QED BY <2>1, <2>3, <2>4 DEF RankedOK
<1>5. ListsOK'
  <2>1. docs' = docs /\ \A plane : Given(plane)' = Given(plane)
    BY <1>1 DEF Given
  <2>2. ListFrom(guidance', docs.knowledge \cup Given("local"))
    BY <1>3, FrontKeeps DEF PlanesIInv, ListsOK
  <2>3. ListFrom(predictions', docs.predictions \cup Given("predictions"))
    BY <1>3, FrontKeeps DEF PlanesIInv, ListsOK
  <2> QED BY <2>1, <2>2, <2>3 DEF ListsOK
<1>6. FlowOK'
  <2> PICK F : F = flow'
    OBVIOUS
  <2>1. FlowOK /\ flow \in Seq(over)
    BY DEF PlanesIInv, FlowOK
  <2>2. F \in Seq(over) /\ \A n \in 1..Len(F) : n \in 1..Len(flow) /\ F[n] = flow[n]
    <3>1. CASE flow' = flow
      BY <2>1, <3>1
    <3>2. CASE flow # << >> /\ flow' = Front(flow)
      <4>1. F \in Seq(over) /\ Len(F) = Len(flow) - 1 /\ \A n \in 1..Len(F) : F[n] = flow[n]
        BY <2>1, <3>2, FrontMeans
      <4>2. Len(flow) \in Nat /\ Len(F) \in Nat
        BY <2>1, <4>1
      <4> QED BY <4>1, <4>2
    <3> QED BY <1>3, <3>1, <3>2
  <2>3. \A n \in 2..Len(F) : n \in 2..Len(flow) /\ n \in 1..Len(F) /\ n - 1 \in 1..Len(F)
    <3>1. Len(F) \in Nat /\ Len(flow) \in Nat
      BY <2>1, <2>2
    <3> QED BY <2>2, <3>1
  <2>4. \A n \in 2..Len(F) : F[n].src = F[n - 1].dst
    BY <2>1, <2>2, <2>3 DEF FlowOK
  <2>5. \A n, m \in 1..Len(F) : n <= m => F[m].dst # F[n].src
    BY <2>1, <2>2 DEF FlowOK
  <2>6. flow' = F /\ over' = over
    BY <1>1
  <2> QED BY <1>1, <2>2, <2>4, <2>5, <2>6 DEF FlowOK
<1>7. TraceOK'
  <2>1. \A f, g, p : Flagged(f, g, p)' <=> Flagged(f, g, p)
    BY <1>1 DEF Flagged, IsPrivate, Excerpted
  <2> QED BY <1>1, <1>2, <1>3, <2>1 DEF PlanesIInv, TraceOK, CitationsOf
<1>8. Unranked'
  BY <1>1 DEF Unranked
<1> QED BY <1>1, <1>4, <1>5, <1>6, <1>7, <1>8, GraphStays, SourcesStay DEF PlanesIInv, RequestOK

\* The answer is returned as it is.
LEMMA ReturnPlanes == ASSUME IInv, PlanesIInv, Return PROVE PlanesIInv'
<1>1. /\ pc = "trim" /\ pc' = "done"
      /\ UNCHANGED <<query, view, scope, private, withPredictions, budget, score, allowed, over, docs, items, refused>>
      /\ UNCHANGED <<facts, guidance, predictions, flow, citations, ranked>>
      /\ UNCHANGED <<truncated, traced, compacted, privateFlag, confidence>>
  BY DEF Return, request, ledger, graph, answer, verdict
<1> QED BY <1>1, GraphStays, SourcesStay, PrefixStays, ListsStay, FlowStays, TraceStays
        DEF PlanesIInv, RequestOK, Unranked

\* Every step of a retrieval keeps the planes apart.
LEMMA PlanesStep == IInv /\ PlanesIInv /\ [Next]_vars => PlanesIInv'
<1> SUFFICES ASSUME IInv, PlanesIInv, [Next]_vars PROVE PlanesIInv'
  OBVIOUS
<1>1. CASE UNCHANGED vars
  <2>1. /\ UNCHANGED <<query, view, scope, private, withPredictions, budget, score, allowed, over, reached>>
        /\ UNCHANGED <<pc, docs, items, refused, facts, guidance, predictions, flow, citations, ranked>>
        /\ UNCHANGED <<truncated, traced, compacted, privateFlag, confidence>>
    BY <1>1 DEF vars, request, ledger, graph, answer, verdict
  <2> QED BY <2>1, GraphStays, SourcesStay, PrefixStays, ListsStay, FlowStays, TraceStays
          DEF PlanesIInv, RequestOK, Unranked
<1> QED BY <1>1, OpenPlanes, WidenPlanes, CollectPlanes, SpreadPlanes, AdapterPlanes, RankFactsPlanes, FollowPlanes,
           GuidePlanes, JudgePlanes, TrimPlanes, ReturnPlanes DEF Next

\* Both invariants hold in every reachable state, for every snapshot, answer of the
\* adapters, request and limit.
THEOREM PlanesInvariant == MCSpec => [](IInv /\ PlanesIInv)
<1>1. MCInit => PlanesIInv
  BY PlanesInit DEF MCInit
<1>2. IInv /\ PlanesIInv /\ [MCNext]_<<part, vars, svars>> => PlanesIInv'
  <2> SUFFICES ASSUME IInv, PlanesIInv, [MCNext]_<<part, vars, svars>> PROVE [Next]_vars
    BY PlanesStep
  <2> QED BY Zenon DEF MCNext
<1> QED BY <1>1, <1>2, RetrievalInvariant, PTL DEF MCSpec

\* A fact is one of the corpus, or, with leave, the snippet of an entity of it that
\* stands before it.
LEMMA FactsMean ==
    ASSUME IInv, PlanesIInv, NEW x \in ToSet(facts)
    PROVE  /\ docs.facts = Facts /\ Facts \subseteq Nat \ {0}
           /\ \/ x \in docs.facts
              \/ \E e \in ToSet(ranked) \cap docs.facts \cap Entities : x = Snippet(e) /\ private
<1>1. facts \in Seq(Int) /\ ranked \in Seq(Int) /\ RankedOK /\ CorpusOK
  BY DEF IInv, PlanesIInv
<1>2. PICK n \in 1..Len(facts) : x = facts[n]
  BY <1>1 DEF ToSet
<1>3. n \in DOMAIN ranked /\ x = ranked[n] /\ DOMAIN ranked = 1..Len(ranked) /\ n \in Nat
  BY <1>1, <1>2 DEF RankedOK
<1>4. docs.facts = Facts /\ Facts \subseteq Nat \ {0}
  <2>1. ranked # << >>
    BY <1>1, <1>3
  <2>2. pc \notin {"start", "scope"}
    BY <2>1 DEF PlanesIInv, Unranked
  <2> QED BY <1>1, <2>2 DEF CorpusOK
<1>5. CASE x \in docs.facts
  BY <1>4, <1>5
<1>6. CASE n > 1 /\ ranked[n - 1] \in docs.facts \cap Entities /\ ranked[n] = Snippet(ranked[n - 1]) /\ private
  <2>1. n - 1 \in DOMAIN ranked
    BY <1>1, <1>3, <1>6
  <2>2. ranked[n - 1] \in ToSet(ranked)
    BY <2>1 DEF ToSet
  <2> QED BY <1>3, <1>4, <1>6, <2>2
<1> QED BY <1>1, <1>3, <1>5, <1>6 DEF RankedOK

\* Every fact is about something within the scope, or about nothing.
LEMMA FactsAreScoped == ASSUME IInv, PlanesIInv PROVE FactsAreInScope
<1> SUFFICES ASSUME scope # 0, NEW x \in ToSet(facts)
             PROVE  \/ x \in DOMAIN Diagnosed /\ Diagnosed[x] = 0
                    \/ x \in DOMAIN EvidenceOf /\ \E d \in EvidenceOf[x] : SubjectOf[d] \in Contained
                    \/ About(Of(x)) \cap Contained # {}
  BY DEF FactsAreInScope
<1>1. allowed \subseteq Contained /\ allowed \subseteq Entities
  BY DEF IInv, CorpusOK, PlanesIInv, GraphOK
<1>2. docs.facts = Facts /\ Facts \subseteq Nat \ {0}
  BY FactsMean
<1>3. \A e \in Facts \cap Entities : e \in allowed
  BY KindsMean DEF Facts, RelationsWithin, ViewRelations, Projected, DerivsWithin, VerificationsWithin, DiagnosticsWithin
<1>4. CASE x \in Facts
  <2>1. Of(x) = x
    <3>1. x \in Nat
      BY <1>2, <1>4
    <3> QED BY <3>1 DEF Of
  <2>2. CASE x \in allowed
    BY <1>1, <2>1, <2>2 DEF About
  <2>3. CASE x \in {r.id : r \in RelationsWithin}
    <3>1. PICK r \in RelationsWithin : x = r.id
      BY <2>3
    <3>2. r \in Relations /\ r.src \in allowed
      BY DEF RelationsWithin, ViewRelations, Projected
    <3>3. x \in {q.id : q \in Relations}
      BY <3>1, <3>2
    <3>4. x \notin Entities /\ x \notin Derivs /\ x \notin DOMAIN EvidenceOf /\ x \notin DOMAIN Diagnosed
      BY <3>3, KindsMean
    <3>5. r.src \in About(x)
      BY <3>1, <3>2, <3>4 DEF About
    <3> QED BY <1>1, <2>1, <3>2, <3>5
  <2>4. CASE x \in DerivsWithin
    <3>1. x \in Derivs /\ x \notin Entities /\ SubjectOf[x] \in allowed
      BY <2>4, KindsMean DEF DerivsWithin
    <3> QED BY <1>1, <2>1, <3>1 DEF About
  <2>5. CASE x \in VerificationsWithin
    BY <1>1, <2>5 DEF VerificationsWithin, Linked, DerivsWithin
  <2>6. CASE x \in DiagnosticsWithin
    <3>1. x \in DOMAIN Diagnosed /\ Diagnosed[x] \in allowed \cup {0}
      BY <2>6 DEF DiagnosticsWithin
    <3>2. x \notin Entities /\ x \notin Derivs /\ x \notin DOMAIN EvidenceOf
      BY <3>1, KindsMean
    <3>3. 0 \notin Entities
      BY KindsMean
    <3> QED BY <1>1, <2>1, <3>1, <3>2, <3>3 DEF About
  <2> QED BY <1>4, <2>2, <2>3, <2>4, <2>5, <2>6 DEF Facts
<1>5. CASE \E e \in ToSet(ranked) \cap docs.facts \cap Entities : x = Snippet(e)
  <2>1. PICK e \in ToSet(ranked) \cap docs.facts \cap Entities : x = Snippet(e)
    BY <1>5
  <2>2. e \in allowed /\ e \in Nat \ {0} /\ e \in Entities
    BY <1>2, <1>3, <2>1
  <2>3. Of(x) = e
    BY <2>1, <2>2 DEF Of, Snippet
  <2> QED BY <1>1, <2>2, <2>3 DEF About
<1> QED BY <1>2, <1>4, <1>5, FactsMean

\* What a list is made of.
LEMMA ListHas == ASSUME NEW V, NEW s, ListFrom(s, V) PROVE ToSet(s) \subseteq V
  BY DEF ListFrom, ToSet

\* Each plane has its own, and what was refused is in none.
LEMMA PlanesAreApart == ASSUME IInv, PlanesIInv PROVE PlanesStayApart
<1>1. PICK out \in Outputs \cup {{}} : /\ items = {o \in out : Accepts(o)}
                                       /\ refused = {o.id : o \in {q \in out : ~Accepts(q)}}
  BY DEF PlanesIInv, SourcesOK
<1>2. \A o, q \in out : o.id \in ItemIds /\ (o.id = q.id => o = q)
  <2>1. out = {} \/ out \in Outputs
    OBVIOUS
  <2>2. \A o, q \in out : o.id = q.id => o = q
    BY <2>1, RetrievalAssumption
  <2> QED BY <2>1, <2>2 DEF ItemIds
<1>3. \A plane : refused \cap Given(plane) = {} /\ refused \subseteq ItemIds
  BY <1>1, <1>2 DEF Given
<1>4. ToSet(guidance) \subseteq docs.knowledge \cup Given("local")
  BY ListHas DEF PlanesIInv, ListsOK
<1>5. ToSet(predictions) \subseteq docs.predictions \cup Given("predictions")
  BY ListHas DEF PlanesIInv, ListsOK
<1>6. ToSet(facts) \subseteq docs.facts \cup {Snippet(e) : e \in ToSet(ranked) \cap Entities}
  BY FactsMean
<1>7. ~withPredictions => predictions = << >>
  <2> SUFFICES ASSUME ~withPredictions PROVE predictions = << >>
    OBVIOUS
  <2>1. docs.predictions = {}
    BY DEF PlanesIInv, SourcesOK
  <2>2. Given("predictions") = {}
    BY <1>1 DEF Given, Accepts
  <2>3. predictions \in Seq(docs.predictions \cup Given("predictions"))
    BY DEF PlanesIInv, ListsOK, ListFrom
  <2>4. docs.predictions \cup Given("predictions") = {}
    BY <2>1, <2>2
  <2>5. predictions \in Seq({})
    BY <2>3, <2>4
  <2>6. Len(predictions) = 0
    <3>1. Len(predictions) \in Nat /\ \A n \in 1..Len(predictions) : predictions[n] \in {}
      BY <2>5
    <3>2. Len(predictions) # 0 => 1 \in 1..Len(predictions)
      BY <3>1
    <3> QED BY <3>1, <3>2
  <2> QED BY <2>5, <2>6, NoElements
<1>8. refused \cap ToSet(facts) = {}
  <2> SUFFICES ASSUME NEW x \in ToSet(facts), x \in refused PROVE FALSE
    OBVIOUS
  <2>1. x \in ItemIds /\ x \in Nat \ {0}
    BY <1>3, KindsMean
  <2>2. x \notin Facts
    BY <2>1, KindsMean DEF Facts, RelationsWithin, ViewRelations, Projected, DerivsWithin, VerificationsWithin,
       DiagnosticsWithin, IInv, CorpusOK
  <2>3. PICK e \in docs.facts : x = Snippet(e) /\ e \in Nat \ {0}
    BY <2>2, FactsMean
  <2> QED BY <2>1, <2>3 DEF Snippet
<1>9. refused \cap ToSet(guidance) = {}
  <2>1. docs.knowledge \subseteq Rules
    BY DEF PlanesIInv, SourcesOK
  <2>2. ItemIds \cap Rules = {}
    BY KindsMean
  <2> QED BY <1>3, <1>4, <2>1, <2>2
<1>10. refused \cap ToSet(predictions) = {}
  <2>1. docs.predictions \subseteq DOMAIN Predicted
    BY DEF PlanesIInv, SourcesOK
  <2>2. ItemIds \cap DOMAIN Predicted = {}
    BY KindsMean
  <2> QED BY <1>3, <1>5, <2>1, <2>2
<1> QED BY <1>4, <1>5, <1>6, <1>7, <1>8, <1>9, <1>10 DEF PlanesStayApart, Given

\* Each list is within the limit and has no record twice.
LEMMA PlanesAreTyped == ASSUME IInv, PlanesIInv PROVE TypeOK
<1>1. IsInjective(facts) /\ Len(facts) <= TopK
  <2>1. /\ facts \in Seq(Int) /\ ranked \in Seq(Int) /\ IsInjective(ranked) /\ Len(ranked) <= TopK /\ TopK \in Nat
        /\ Len(facts) <= Len(ranked) /\ \A n \in 1..Len(facts) : facts[n] = ranked[n]
    BY RetrievalAssumption DEF IInv, PlanesIInv, RankedOK
  <2>2. /\ DOMAIN facts = 1..Len(facts) /\ DOMAIN ranked = 1..Len(ranked)
        /\ Len(facts) \in Nat /\ Len(ranked) \in Nat
    BY <2>1
  <2>3. \A n \in DOMAIN facts : n \in DOMAIN ranked
    BY <2>1, <2>2
  <2>4. IsInjective(facts)
    BY <2>1, <2>2, <2>3 DEF IsInjective
  <2> QED BY <2>1, <2>2, <2>4
<1> QED BY <1>1 DEF TypeOK, PlanesIInv, ListsOK, ListFrom, TraceOK

\* The trace tells what is there, and private text is there only with leave.
LEMMA TraceIsTrue == ASSUME IInv, PlanesIInv PROVE TraceTellsWhatIsThere
<1> SUFFICES ASSUME pc = "done"
             PROVE  /\ privateFlag <=> \E x \in ToSet(facts \o guidance \o predictions) : IsPrivate(x)
                    /\ privateFlag => private
                    /\ citations = CitationsOf(guidance)
  BY DEF TraceTellsWhatIsThere
<1>1. (privateFlag <=> Flagged(facts, guidance, predictions)) /\ citations = CitationsOf(guidance)
  BY DEF PlanesIInv, TraceOK
<1>2. ASSUME NEW x, Excerpted(x) PROVE private
  <2>1. \A o \in items : Accepts(o)
    BY DEF PlanesIInv, SourcesOK
  <2> QED BY <1>2, <2>1 DEF Excerpted, Accepts
<1>3. ASSUME NEW x \in ToSet(facts), x < 0 PROVE private
  <2>1. x \notin docs.facts
    <3>1. docs.facts \subseteq Nat \ {0}
      BY DEF IInv, CorpusOK
    <3> QED BY <1>3, <3>1
  <2> QED BY <2>1, FactsMean
<1>4. ASSUME NEW x \in ToSet(guidance) \cup ToSet(predictions), x < 0 PROVE FALSE
  <2>1. ToSet(guidance) \subseteq docs.knowledge \cup Given("local")
    BY ListHas DEF PlanesIInv, ListsOK
  <2>2. ToSet(predictions) \subseteq docs.predictions \cup Given("predictions")
    BY ListHas DEF PlanesIInv, ListsOK
  <2>3. docs.knowledge \subseteq Rules /\ docs.predictions \subseteq DOMAIN Predicted
        /\ Given("local") \subseteq ItemIds /\ Given("predictions") \subseteq ItemIds
    BY SourcesMean DEF PlanesIInv
  <2>4. x \in Nat
    BY <2>1, <2>2, <2>3, KindsMean
  <2> QED BY <1>4, <2>4
<1>5. privateFlag => private
  BY <1>1, <1>2, <1>3, <1>4 DEF Flagged, IsPrivate
<1>6. privateFlag <=> \E x \in ToSet(facts \o guidance \o predictions) : IsPrivate(x)
  BY <1>1, JoinIsFlagged, Zenon
<1> QED BY <1>1, <1>5, <1>6

\* The flow is a path of what weighs, within the scope.
LEMMA FlowIsPath == ASSUME IInv, PlanesIInv PROVE FlowIsAPath
<1>1. /\ flow \in Seq(over) /\ DOMAIN flow = 1..Len(flow) /\ \A n \in 1..Len(flow) : flow[n] \in over
      /\ \A n \in 2..Len(flow) : flow[n].src = flow[n - 1].dst
      /\ \A n, m \in 1..Len(flow) : n <= m => flow[m].dst # flow[n].src
  BY DEF PlanesIInv, FlowOK
<1>2. over \subseteq Weighted
  BY DEF PlanesIInv, GraphOK
<1>3. \A n \in 1..Len(flow) : n > 1 => n \in 2..Len(flow)
  BY <1>1
<1> QED BY <1>1, <1>2, <1>3 DEF FlowIsAPath, Weighted

\* retrieve: what an adapter returns becomes no fact, no rule and no prediction unasked,
\* facts stay in the scope, the trace is true of what is shown, and the flow is a path.
THEOREM PlanesAreAlwaysKept == MCSpec => []PlanesAreKept
<1>1. IInv /\ PlanesIInv => PlanesAreKept
  BY PlanesAreTyped, PlanesAreApart, FactsAreScoped, TraceIsTrue, FlowIsPath DEF PlanesAreKept
<1> QED BY <1>1, PlanesInvariant, PTL

-------------------------------------------------------------------------------

USE DEF Private!AnchorSet, Private!HitSet, Private!Hit, Private!Anchor, Private!Document,
        Private!Unsafe,
        Private!Logging, Private!Results, Private!Things, Private!Witnesses, Private!FromSource

\* The private context has hits, anchors and a limit.
LEMMA Indices ==
    /\ DOMAIN Hits = 1..Len(Hits) /\ Len(Hits) \in Nat \ {0}
    /\ DOMAIN Anchors = 1..Len(Anchors) /\ Len(Anchors) \in Nat \ {0}
    /\ Limit \in Nat \ {0} /\ MaxEdits \in Nat
  BY PrivateAssumption DEF Private!SnippetsAssumption

\* What a sequence is after an append.
LEMMA AppendMeans ==
    ASSUME NEW S, NEW s \in Seq(S), NEW e \in S
    PROVE  /\ Append(s, e) \in Seq(S) /\ Len(Append(s, e)) = Len(s) + 1 /\ Append(s, e)[Len(s) + 1] = e
           /\ \A n \in DOMAIN s : n \in DOMAIN Append(s, e) /\ Append(s, e)[n] = s[n]
           /\ \A n \in DOMAIN Append(s, e) :
                (n \in DOMAIN s /\ Append(s, e)[n] = s[n]) \/ Append(s, e)[n] = e
  OBVIOUS

\* What a sequence is after one of its elements is replaced.
LEMMA ReplaceMeans ==
    ASSUME NEW S, NEW s \in Seq(S), NEW e \in S, NEW n \in DOMAIN s
    PROVE  /\ [s EXCEPT ![n] = e] \in Seq(S) /\ Len([s EXCEPT ![n] = e]) = Len(s)
           /\ [s EXCEPT ![n] = e][n] = e
           /\ \A m \in DOMAIN s : m \in DOMAIN [s EXCEPT ![n] = e] /\ (m # n => [s EXCEPT ![n] = e][m] = s[m])
  OBVIOUS

\* What a sequence is without its head.
LEMMA TailMeans ==
    ASSUME NEW S, NEW s \in Seq(S), s # << >>
    PROVE  /\ 1 \in DOMAIN s /\ Head(s) = s[1] /\ Tail(s) \in Seq(S) /\ Len(Tail(s)) = Len(s) - 1
           /\ \A n \in DOMAIN Tail(s) : n + 1 \in DOMAIN s /\ Tail(s)[n] = s[n + 1]
  OBVIOUS

\* An append to the access log takes no record away from any file, and what it
\* wrote stands in the file it opened.
LEMMA LogGrows ==
    ASSUME Private!IInv, Private!LogWrite
    PROVE  /\ logs' \in Seq(SUBSET Private!Intents) /\ Len(logs') >= Len(logs)
           /\ \A f \in DOMAIN logs : f \in DOMAIN logs' /\ logs[f] \subseteq logs'[f]
           /\ path' = path \/ path' \in DOMAIN logs'
           /\ spc' \in {"log.verify", "log.end"}
           /\ spc' = "log.verify" => fd' \in DOMAIN logs' /\ intent \in logs'[fd']
           /\ spc' = "log.end" => fd' = 0
<1>0. /\ logs \in Seq(SUBSET Private!Intents) /\ intent \in Private!Intents
      /\ path = Private!Unsafe \/ path \in 0..Len(logs)
  BY DEF Private!IInv, Private!Control, Private!TypeOK
<1>1. CASE path = Private!Unsafe /\ fd' = 0 /\ spc' = "log.end" /\ UNCHANGED <<path, logs>>
  BY <1>0, <1>1
<1>2. ASSUME path # Private!Unsafe, NEW whole \in BOOLEAN,
             path' = (IF path = 0 THEN Len(logs) + 1 ELSE path),
             logs' = IF path = 0
                     THEN Append(logs, IF whole THEN {intent} ELSE {})
                     ELSE [logs EXCEPT ![path'] = IF whole THEN @ \cup {intent} ELSE @],
             fd' = (IF whole THEN path' ELSE 0),
             spc' = (IF whole THEN "log.verify" ELSE "log.end")
      PROVE  /\ logs' \in Seq(SUBSET Private!Intents) /\ Len(logs') >= Len(logs)
             /\ \A f \in DOMAIN logs : f \in DOMAIN logs' /\ logs[f] \subseteq logs'[f]
             /\ path' \in DOMAIN logs'
             /\ whole => intent \in logs'[path']
  <2>1. CASE path = 0
    <3> DEFINE new == IF whole THEN {intent} ELSE {}
    <3>1. new \in SUBSET Private!Intents /\ logs' = Append(logs, new) /\ path' = Len(logs) + 1
      BY <1>0, <1>2, <2>1
    <3> HIDE DEF new
    <3>2. /\ logs' \in Seq(SUBSET Private!Intents) /\ Len(logs') = Len(logs) + 1
          /\ logs'[Len(logs) + 1] = new /\ \A f \in 1..Len(logs) : logs'[f] = logs[f]
      BY <1>0, <3>1
    <3> QED BY <1>0, <3>1, <3>2 DEF new
  <2>2. CASE path # 0
    <3>1. path' = path /\ path \in 1..Len(logs)
      BY <1>0, <1>2, <2>2
    <3> DEFINE new == IF whole THEN logs[path] \cup {intent} ELSE logs[path]
    <3>2. logs' = [logs EXCEPT ![path] = new] /\ new \in SUBSET Private!Intents /\ logs[path] \subseteq new
      BY <1>0, <1>2, <2>2, <3>1
    <3>3. whole => intent \in new
      OBVIOUS
    <3> HIDE DEF new
    <3>4. path \in DOMAIN logs
      BY <1>0, <3>1
    <3>5. /\ logs' \in Seq(SUBSET Private!Intents) /\ Len(logs') = Len(logs) /\ logs'[path] = new
          /\ \A m \in DOMAIN logs : m \in DOMAIN logs' /\ (m # path => logs'[m] = logs[m])
      BY <1>0, <3>2, <3>4, ReplaceMeans
    <3> QED BY <1>0, <3>1, <3>2, <3>3, <3>4, <3>5
  <2> QED BY <2>1, <2>2
<1>3. \/ path = Private!Unsafe /\ fd' = 0 /\ spc' = "log.end" /\ UNCHANGED <<path, logs>>
      \/ \E whole \in BOOLEAN :
           /\ path # Private!Unsafe
           /\ path' = (IF path = 0 THEN Len(logs) + 1 ELSE path)
           /\ logs' = IF path = 0
                      THEN Append(logs, IF whole THEN {intent} ELSE {})
                      ELSE [logs EXCEPT ![path'] = IF whole THEN @ \cup {intent} ELSE @]
           /\ fd' = (IF whole THEN path' ELSE 0)
           /\ spc' = (IF whole THEN "log.verify" ELSE "log.end")
  BY Zenon DEF Private!LogWrite
<1> QED BY <1>1, <1>2, <1>3

\* Before the request nothing is opened, logged or found.
LEMMA PrivateInit == Private!Init => Private!IInv
<1> SUFFICES ASSUME Private!Init PROVE Private!IInv
  OBVIOUS
<1>1. Private!Records = {}
  BY DEF Private!Init, Private!Records
<1>2. Private!TypeOK
  BY <1>1, Indices DEF Private!Init, Private!TypeOK
<1>3. Private!Control
  <2>1. /\ intent \in Private!Intents /\ found \in Seq(Private!FoundSnippets) /\ logs \in Seq(SUBSET Private!Intents)
        /\ spc = "start" /\ at = 1 /\ found = << >>
    BY DEF Private!Init, Private!Intents
  <2>2. /\ policy \in {"bounded", "denied"} /\ allow \in BOOLEAN
        /\ asked \in BOOLEAN /\ warned \in BOOLEAN
    BY DEF Private!Init
  <2> QED BY <2>1, <2>2 DEF Private!Control, Private!InLocal, Private!InSource
<1>4. /\ spc = "start" /\ reads = {} /\ excerpts = {} /\ witnessed = {} /\ found = << >> /\ logs = << >>
  BY DEF Private!Init
<1>5. Private!IntentIsOwn /\ Private!RecordsStand /\ Private!OpenedIsCovered /\ Private!ReturnedIsOnRecord
  BY <1>4 DEF Private!IntentIsOwn, Private!RecordsStand, Private!OpenedIsCovered,
              Private!ReturnedIsOnRecord
<1>7. Private!Searching
  <2>1. (CHOOSE d \in Library : TRUE) \in Library
    BY PrivateAssumption DEF Private!SnippetsAssumption
  <2> QED BY <2>1, Indices DEF Private!Init, Private!Searching
<1>6. /\ Private!FoundIsOnRecord /\ Private!DeniedDoesNothing /\ Private!ExcerptIsOfTheSnapshot
      /\ Private!DeniedReadsNothing
  BY <1>4 DEF Private!FoundIsOnRecord, Private!DeniedDoesNothing, Private!ExcerptIsOfTheSnapshot,
     Private!DeniedReadsNothing, Private!InSource
<1> QED BY <1>2, <1>3, <1>5, <1>6, <1>7 DEF Private!IInv

\* A step that neither opens, finds nor logs anything keeps what is on record.
LEMMA NothingTaken ==
    ASSUME Private!IInv, UNCHANGED <<asked, policy, allow, leave, logs, found, excerpts, reads, witnessed>>,
           known' = known \/ (excerpts = {} /\ found = << >>),
           edits' \in 0..MaxEdits, path' = path \/ path' \in {0, Private!Unsafe}
    PROVE  /\ Private!TypeOK' /\ Private!FoundIsOnRecord' /\ Private!ReturnedIsOnRecord'
           /\ Private!ExcerptIsOfTheSnapshot' /\ Private!DeniedReadsNothing'
<1>1. Len(logs) \in Nat
  BY DEF Private!IInv, Private!Control
<1>2. Private!TypeOK'
  BY <1>1 DEF Private!IInv, Private!TypeOK, Private!Records
<1>3. Private!FoundIsOnRecord' /\ Private!ReturnedIsOnRecord'
  BY DEF Private!IInv, Private!FoundIsOnRecord, Private!ReturnedIsOnRecord, Private!Witnesses, Private!FromSource
<1>4. Private!ExcerptIsOfTheSnapshot' /\ Private!DeniedReadsNothing'
  BY DEF Private!IInv, Private!ExcerptIsOfTheSnapshot, Private!DeniedReadsNothing, Private!FromSource
<1> QED BY <1>2, <1>3, <1>4

\* The request, with or without leave to see private text.
LEMMA BeginIInv == ASSUME Private!IInv, Private!Begin PROVE Private!IInv'
<1> USE Indices DEF Private!IInv, Private!Begin, Private!inputs, Private!world
<1>1. /\ Private!TypeOK' /\ Private!FoundIsOnRecord' /\ Private!ReturnedIsOnRecord'
      /\ Private!ExcerptIsOfTheSnapshot' /\ Private!DeniedReadsNothing'
  BY NothingTaken DEF Private!TypeOK, Private!Searching, Private!Control
<1>2. Private!Control'
  BY DEF Private!Control, Private!InLocal, Private!InSource, Private!Intents, Private!TypeOK
<1>3. Private!IntentIsOwn'
  BY DEF Private!IntentIsOwn, Private!Control, Private!InLocal, Private!InSource
<1>4. Private!RecordsStand'
  BY DEF Private!RecordsStand, Private!Records, Private!Control
<1>5. Private!DeniedDoesNothing'
  BY DEF Private!DeniedDoesNothing, Private!Control, Private!InSource, Private!InLocal,
         Private!FoundIsOnRecord, Private!IntentIsOwn
<1>6. Private!OpenedIsCovered'
  BY DEF Private!OpenedIsCovered, Private!Records, Private!Control, Private!IntentIsOwn,
         Private!RecordsStand, Private!InSource
<1>7. Private!Searching'
  BY DEF Private!Searching, Private!Control, Private!TypeOK
<1> QED BY <1>1, <1>2, <1>3, <1>4, <1>5, <1>6, <1>7

\* The sidecar cannot be searched: logged as such, if its document was ever known.
LEMMA SearchFailsIInv == ASSUME Private!IInv, Private!SearchFails PROVE Private!IInv'
<1> USE Indices DEF Private!IInv, Private!SearchFails, Private!inputs, Private!world, Private!Append_
<1>1. /\ Private!TypeOK' /\ Private!FoundIsOnRecord' /\ Private!ReturnedIsOnRecord'
      /\ Private!ExcerptIsOfTheSnapshot' /\ Private!DeniedReadsNothing'
  BY NothingTaken DEF Private!TypeOK
<1>2. Private!Control'
  <2>1. \A d \in known : d.hash \in Nat
    BY PrivateAssumption DEF Private!SnippetsAssumption, Private!Searching
  <2> QED BY <2>1 DEF Private!Control, Private!InLocal, Private!InSource, Private!Intents, Private!TypeOK
<1>3. Private!IntentIsOwn'
  BY DEF Private!IntentIsOwn, Private!Control, Private!InLocal, Private!InSource
<1>4. Private!RecordsStand'
  BY DEF Private!RecordsStand, Private!Records, Private!Control
<1>5. Private!DeniedDoesNothing'
  BY DEF Private!DeniedDoesNothing, Private!Control, Private!InSource, Private!InLocal,
         Private!FoundIsOnRecord, Private!IntentIsOwn
<1>6. Private!OpenedIsCovered'
  BY DEF Private!OpenedIsCovered, Private!Records, Private!Control, Private!IntentIsOwn,
         Private!RecordsStand, Private!InSource
<1>7. Private!Searching'
  BY DEF Private!Searching, Private!Control, Private!TypeOK
<1> QED BY <1>1, <1>2, <1>3, <1>4, <1>5, <1>6, <1>7

\* One more of less is at most as much.
LEMMA OneMore == \A n, m \in Nat : n < m /\ n + 1 # m => n + 1 < m
  OBVIOUS

\* A search finds what the sidecar has then.
LEMMA LocalSearchIInv == ASSUME Private!IInv, Private!LocalSearch PROVE Private!IInv'
<1> USE Indices DEF Private!IInv, Private!LocalSearch, Private!inputs, Private!world
<1>1. /\ Private!TypeOK' /\ Private!FoundIsOnRecord' /\ Private!ReturnedIsOnRecord'
      /\ Private!ExcerptIsOfTheSnapshot' /\ Private!DeniedReadsNothing'
  BY NothingTaken DEF Private!TypeOK
<1>2. Private!Control'
  BY DEF Private!Control, Private!InLocal, Private!InSource, Private!Intents, Private!TypeOK
<1>3. Private!IntentIsOwn'
  BY DEF Private!IntentIsOwn, Private!Control, Private!InLocal, Private!InSource
<1>4. Private!RecordsStand'
  BY DEF Private!RecordsStand, Private!Records, Private!Control
<1>5. Private!DeniedDoesNothing'
  BY DEF Private!DeniedDoesNothing, Private!Control, Private!InSource, Private!InLocal,
         Private!FoundIsOnRecord, Private!IntentIsOwn
<1>6. Private!OpenedIsCovered'
  BY DEF Private!OpenedIsCovered, Private!Records, Private!Control, Private!IntentIsOwn,
         Private!RecordsStand, Private!InSource
<1>7. Private!Searching'
  <2>1. PICK d \in side : hits' = Append(hits, d)
    OBVIOUS
  <2>2. Private!Searching /\ spc = "search" /\ Len(Hits) \in Nat
    OBVIOUS
  <2>3. spc' = IF Len(hits') = Len(Hits) THEN "local" ELSE "search"
    OBVIOUS
  <2>4. leave' \in BOOLEAN /\ side' \subseteq Library /\ known' \subseteq Library /\ excerpts' = {}
    BY DEF Private!Searching
  <2> HIDE DEF Private!IInv, Private!LocalSearch
  <2>5. hits \in Seq(Library) /\ Len(hits) < Len(Hits) /\ side \subseteq Library
    BY <2>2, Zenon DEF Private!Searching
  <2>6. d \in Library
    BY <2>1, <2>5
  <2>7. hits' \in Seq(Library) /\ Len(hits') = Len(hits) + 1
    BY <2>1, <2>5, <2>6, AppendMeans
  <2>8. Len(hits) \in Nat
    BY <2>5
  <2>9. spc' = "search" => Len(hits') < Len(Hits)
    BY <2>2, <2>3, <2>5, <2>7, <2>8, OneMore
  <2>10. spc' = "local" => Len(hits') = Len(Hits)
    BY <2>3
  <2> QED BY <2>3, <2>4, <2>7, <2>9, <2>10 DEF Private!Searching
<1> QED BY <1>1, <1>2, <1>3, <1>4, <1>5, <1>6, <1>7

\* The local adapter has a hit: a record of it is due, unless its document is unknown.
LEMMA LocalHitIInv == ASSUME Private!IInv, Private!LocalHit PROVE Private!IInv'
<1> USE Indices DEF Private!IInv, Private!LocalHit, Private!inputs, Private!world, Private!Append_,
                    Private!NextHit, Private!Known
<1>1. /\ Private!TypeOK' /\ Private!FoundIsOnRecord' /\ Private!ReturnedIsOnRecord'
      /\ Private!ExcerptIsOfTheSnapshot' /\ Private!DeniedReadsNothing'
  BY NothingTaken DEF Private!TypeOK
<1>2. Private!Control'
  <2>1. /\ spc = "local" /\ at \in 1..Len(Hits)
        /\ UNCHANGED <<asked, policy, allow, logs, found, reads>>
    BY DEF Private!Control, Private!InLocal
  <2>2. ASSUME NEW d \in Private!Known(at),
               Private!Append_(Private!Hit(at), IF leave THEN "returned" ELSE "denied_policy", "local", d.hash),
               UNCHANGED <<at, warned>>
        PROVE  Private!Control'
    <3>1. d.hash \in Nat
      BY <2>2, PrivateAssumption DEF Private!SnippetsAssumption, Private!Searching
    <3>2. spc' = "log.check" /\ at' = at /\ warned' = warned /\ intent' \in Private!Intents /\ intent'.from = "local"
      BY <2>1, <2>2, <3>1 DEF Private!Intents
    <3> QED BY <2>1, <3>2 DEF Private!Control, Private!InLocal, Private!InSource
  <2>3. CASE Private!NextHit(at) /\ warned' = TRUE /\ UNCHANGED intent
    BY <2>1, <2>3 DEF Private!Control, Private!InLocal, Private!InSource
  <2> QED BY <2>2, <2>3
<1>3. Private!IntentIsOwn'
  <2>1. ASSUME NEW d \in Private!Known(at),
               Private!Append_(Private!Hit(at), IF leave THEN "returned" ELSE "denied_policy", "local", d.hash)
        PROVE  Private!IntentIsOwn'
    <3>1. d \in known /\ d \in Library /\ d.doc = hits[at].doc
      BY <2>1 DEF Private!Searching
    <3>2. [doc |-> hits[at].doc, hash |-> d.hash] = d
      BY <3>1, PrivateAssumption DEF Private!SnippetsAssumption
    <3>3. [doc |-> hits[at].doc, hash |-> intent'.ver] \in known
      BY <2>1, <3>1, <3>2
    <3>4. at' = at /\ known' = known /\ hits' = hits /\ leave' = leave
      BY <2>1
    <3> QED BY <2>1, <3>3, <3>4 DEF Private!IntentIsOwn
  <2>2. CASE Private!NextHit(at)
    BY <2>2 DEF Private!IntentIsOwn
  <2> QED BY <2>1, <2>2
<1>4. Private!RecordsStand'
  BY DEF Private!RecordsStand, Private!Records, Private!Control
<1>5. Private!DeniedDoesNothing'
  BY DEF Private!DeniedDoesNothing, Private!Control, Private!InSource, Private!InLocal,
         Private!FoundIsOnRecord, Private!IntentIsOwn
<1>6. Private!OpenedIsCovered'
  BY DEF Private!OpenedIsCovered, Private!Records, Private!Control, Private!IntentIsOwn,
         Private!RecordsStand, Private!InSource
<1>7. Private!Searching'
  BY DEF Private!Searching, Private!Control, Private!TypeOK
<1> QED BY <1>1, <1>2, <1>3, <1>4, <1>5, <1>6, <1>7

\* The append about a hit is over; the next hit, or the end of the adapter.
LEMMA LocalReturnsIInv == ASSUME Private!IInv, Private!LocalReturns PROVE Private!IInv'
<1> USE Indices DEF Private!IInv, Private!LocalReturns, Private!inputs, Private!world, Private!Logged,
                    Private!NextHit
<1>1. Private!TypeOK'
  <2>1. \/ excerpts' = excerpts
        \/ excerpts' = excerpts \cup {[of |-> Private!Hit(at), doc |-> hits[at].doc, ver |-> hits[at].hash]}
           /\ at \in Private!HitSet
    BY DEF Private!Control, Private!InLocal, Private!IntentIsOwn
  <2>2. /\ Private!TypeOK /\ (~asked => Private!Records = {}) /\ Private!Records' = Private!Records
        /\ UNCHANGED <<edits, path, logs, found, reads, asked>>
    BY DEF Private!TypeOK, Private!Records
  <2> HIDE DEF Private!IInv, Private!LocalReturns
  <2>3. ASSUME NEW e \in excerpts' PROVE e \in excerpts \/ (e.of = Private!Hit(at) /\ at \in Private!HitSet)
    BY <2>1, <2>3
  <2> QED BY <2>2, <2>3 DEF Private!TypeOK
<1>2. Private!Control'
  BY DEF Private!Control, Private!InLocal, Private!InSource, Private!Intents, Private!TypeOK
<1>3. Private!IntentIsOwn'
  BY DEF Private!IntentIsOwn, Private!Control, Private!InLocal, Private!InSource
<1>4. Private!RecordsStand'
  BY DEF Private!RecordsStand, Private!Records, Private!Control
<1>5. Private!FoundIsOnRecord'
  BY DEF Private!FoundIsOnRecord, Private!Control, Private!RecordsStand, Private!IntentIsOwn
<1>6. Private!DeniedDoesNothing'
  BY DEF Private!DeniedDoesNothing, Private!Control, Private!InSource, Private!InLocal,
         Private!FoundIsOnRecord, Private!IntentIsOwn
<1>7. Private!OpenedIsCovered'
  BY DEF Private!OpenedIsCovered, Private!Records, Private!Control, Private!IntentIsOwn,
         Private!RecordsStand, Private!InSource
<1>8. Private!ReturnedIsOnRecord'
  BY DEF Private!ReturnedIsOnRecord, Private!FoundIsOnRecord, Private!RecordsStand, Private!Control,
         Private!IntentIsOwn
<1>9. Private!ExcerptIsOfTheSnapshot'
  BY DEF Private!ExcerptIsOfTheSnapshot, Private!Control, Private!FoundSnippets, Private!IntentIsOwn
<1>10. Private!DeniedReadsNothing'
  BY DEF Private!DeniedReadsNothing, Private!DeniedDoesNothing, Private!IntentIsOwn, Private!Control
<1>11. Private!Searching'
  BY DEF Private!Searching, Private!Control, Private!TypeOK
<1> QED BY <1>1, <1>2, <1>3, <1>4, <1>5, <1>6, <1>7, <1>8, <1>9, <1>10, <1>11

\* The path of the log is checked before it is opened.
LEMMA LogCheckIInv == ASSUME Private!IInv, Private!LogCheck PROVE Private!IInv'
<1> USE Indices DEF Private!IInv, Private!LogCheck, Private!inputs, Private!world
<1>1. /\ Private!TypeOK' /\ Private!FoundIsOnRecord' /\ Private!ReturnedIsOnRecord'
      /\ Private!ExcerptIsOfTheSnapshot' /\ Private!DeniedReadsNothing'
  BY NothingTaken DEF Private!TypeOK
<1>2. Private!Control'
  BY DEF Private!Control, Private!InLocal, Private!InSource, Private!Intents, Private!TypeOK
<1>3. Private!IntentIsOwn'
  BY DEF Private!IntentIsOwn, Private!Control, Private!InLocal, Private!InSource
<1>4. Private!RecordsStand'
  BY DEF Private!RecordsStand, Private!Records, Private!Control
<1>5. Private!DeniedDoesNothing'
  BY DEF Private!DeniedDoesNothing, Private!Control, Private!InSource, Private!InLocal,
         Private!FoundIsOnRecord, Private!IntentIsOwn
<1>6. Private!OpenedIsCovered'
  BY DEF Private!OpenedIsCovered, Private!Records, Private!Control, Private!IntentIsOwn,
         Private!RecordsStand, Private!InSource
<1>7. Private!Searching'
  BY DEF Private!Searching, Private!Control, Private!TypeOK
<1> QED BY <1>1, <1>2, <1>3, <1>4, <1>5, <1>6, <1>7

\* The file of the log is opened, created if there is none, and the record written.
LEMMA LogWriteIInv == ASSUME Private!IInv, Private!LogWrite PROVE Private!IInv'
<1> USE Indices DEF Private!IInv, Private!LogWrite, Private!inputs, Private!world
<1>0. /\ logs' \in Seq(SUBSET Private!Intents) /\ Len(logs') >= Len(logs)
      /\ \A f \in DOMAIN logs : f \in DOMAIN logs' /\ logs[f] \subseteq logs'[f]
      /\ path' = path \/ path' \in DOMAIN logs'
      /\ spc' \in {"log.verify", "log.end"}
      /\ spc' = "log.verify" => fd' \in DOMAIN logs' /\ intent \in logs'[fd']
      /\ spc' = "log.end" => fd' = 0
      /\ spc = "log.write"
      /\ UNCHANGED <<asked, policy, allow, leave, src, side, known, hits, at, seen, intent, found, excerpts, warned,
          reads, witnessed, edits>>
  BY LogGrows
<1>1. Private!TypeOK'
  BY <1>0 DEF Private!TypeOK, Private!Records, Private!Control, Private!InLocal, Private!InSource,
              Private!DeniedDoesNothing, Private!FoundIsOnRecord, Private!IntentIsOwn
<1>2. Private!Control'
  BY <1>0 DEF Private!Control, Private!InLocal, Private!InSource, Private!Intents, Private!TypeOK
<1>3. Private!IntentIsOwn'
  BY <1>0 DEF Private!IntentIsOwn, Private!Control, Private!InLocal, Private!InSource
<1>4. Private!RecordsStand'
  BY <1>0 DEF Private!RecordsStand, Private!Records, Private!Control
<1>5. Private!FoundIsOnRecord'
  BY <1>0 DEF Private!FoundIsOnRecord, Private!Control, Private!RecordsStand, Private!IntentIsOwn
<1>6. Private!DeniedDoesNothing'
  BY <1>0 DEF Private!DeniedDoesNothing, Private!Control, Private!InSource, Private!InLocal,
              Private!FoundIsOnRecord, Private!IntentIsOwn
<1>7. Private!OpenedIsCovered'
  <2>0. UNCHANGED <<at, intent, reads, warned>>
    BY <1>0
  <2>1. \A r \in Private!Records : r \in Private!Records'
    BY <1>0 DEF Private!Records
  <2>2. spc' = "log.verify" => intent \in Private!Records'
    BY <1>0 DEF Private!Records
  <2>3. intent.from = "source" => intent.what = Private!Anchor(at)
    BY DEF Private!IntentIsOwn
  <2>4. \/ intent.from # "source"
        \/ spc' = "log.end" /\ fd' = 0
        \/ spc' = "log.verify" /\ intent \in Private!Records' /\ intent.what = Private!Anchor(at)
    BY <1>0, <2>2, <2>3
  <2>5. Private!OpenedIsCovered
    OBVIOUS
  <2> HIDE DEF Private!IInv, Private!LogWrite
  <2> SUFFICES ASSUME NEW n \in reads
               PROVE  \/ \E r \in Private!Records' : r.what = Private!Anchor(n)
                      \/ Anchors[n].form = "unplaced" \/ warned
                      \/ n = at /\ spc' = "log.end" /\ intent.from = "source" /\ fd' = 0
    BY <2>0 DEF Private!OpenedIsCovered
  <2>6. CASE \E r \in Private!Records : r.what = Private!Anchor(n)
    BY <2>1, <2>6
  <2>7. CASE n = at /\ intent.from = "source"
    BY <2>4, <2>7
  <2> QED BY <1>0, <2>5, <2>6, <2>7 DEF Private!OpenedIsCovered
<1>8. Private!ReturnedIsOnRecord'
  BY <1>0 DEF Private!ReturnedIsOnRecord, Private!FoundIsOnRecord, Private!RecordsStand,
              Private!Control, Private!IntentIsOwn
<1>9. Private!ExcerptIsOfTheSnapshot'
  BY <1>0 DEF Private!ExcerptIsOfTheSnapshot, Private!Control, Private!FoundSnippets, Private!IntentIsOwn
<1>10. Private!DeniedReadsNothing'
  BY <1>0 DEF Private!DeniedReadsNothing, Private!DeniedDoesNothing, Private!IntentIsOwn,
              Private!Control
<1>11. Private!Searching'
  BY DEF Private!Searching, Private!Control, Private!TypeOK
<1> QED BY <1>1, <1>2, <1>3, <1>4, <1>5, <1>6, <1>7, <1>8, <1>9, <1>10, <1>11

\* The record is looked for in the file that is at the path now.
LEMMA LogVerifyIInv == ASSUME Private!IInv, Private!LogVerify PROVE Private!IInv'
<1> USE Indices DEF Private!IInv, Private!LogVerify, Private!inputs, Private!world, Private!Witness,
                    Private!StandsInTheLog
<1>1. Private!TypeOK'
  BY DEF Private!TypeOK, Private!Records, Private!Control, Private!InLocal, Private!InSource,
         Private!DeniedDoesNothing, Private!FoundIsOnRecord, Private!IntentIsOwn
<1>2. Private!Control'
  BY DEF Private!Control, Private!InLocal, Private!InSource, Private!Intents, Private!TypeOK
<1>3. Private!IntentIsOwn'
  BY DEF Private!IntentIsOwn, Private!Control, Private!InLocal, Private!InSource
<1>4. Private!RecordsStand'
  BY DEF Private!RecordsStand, Private!Records, Private!Control
<1>5. Private!FoundIsOnRecord'
  BY DEF Private!FoundIsOnRecord, Private!Control, Private!RecordsStand, Private!IntentIsOwn
<1>6. Private!DeniedDoesNothing'
  BY DEF Private!DeniedDoesNothing, Private!Control, Private!InSource, Private!InLocal,
         Private!FoundIsOnRecord, Private!IntentIsOwn
<1>7. Private!OpenedIsCovered'
  BY DEF Private!OpenedIsCovered, Private!Records, Private!Control, Private!IntentIsOwn,
         Private!RecordsStand, Private!InSource
<1>8. Private!ReturnedIsOnRecord'
  BY DEF Private!ReturnedIsOnRecord, Private!FoundIsOnRecord, Private!RecordsStand, Private!Control,
         Private!IntentIsOwn
<1>9. Private!ExcerptIsOfTheSnapshot'
  BY DEF Private!ExcerptIsOfTheSnapshot, Private!Control, Private!FoundSnippets, Private!IntentIsOwn
<1>10. Private!DeniedReadsNothing'
  BY DEF Private!DeniedReadsNothing, Private!DeniedDoesNothing, Private!IntentIsOwn, Private!Control
<1>11. Private!Searching'
  BY DEF Private!Searching, Private!Control, Private!TypeOK
<1> QED BY <1>1, <1>2, <1>3, <1>4, <1>5, <1>6, <1>7, <1>8, <1>9, <1>10, <1>11

\* The source adapter is run, or not, as the policy says.
LEMMA PolicyIInv == ASSUME Private!IInv, Private!Policy PROVE Private!IInv'
<1> USE Indices DEF Private!IInv, Private!Policy, Private!inputs, Private!world
<1>1. /\ Private!TypeOK' /\ Private!FoundIsOnRecord' /\ Private!ReturnedIsOnRecord'
      /\ Private!ExcerptIsOfTheSnapshot' /\ Private!DeniedReadsNothing'
  BY NothingTaken DEF Private!TypeOK
<1>2. Private!Control'
  BY DEF Private!Control, Private!InLocal, Private!InSource, Private!Intents, Private!TypeOK
<1>3. Private!IntentIsOwn'
  BY DEF Private!IntentIsOwn, Private!Control, Private!InLocal, Private!InSource
<1>4. Private!RecordsStand'
  BY DEF Private!RecordsStand, Private!Records, Private!Control
<1>5. Private!DeniedDoesNothing'
  BY DEF Private!DeniedDoesNothing, Private!Control, Private!InSource, Private!InLocal,
         Private!FoundIsOnRecord, Private!IntentIsOwn
<1>6. Private!OpenedIsCovered'
  BY DEF Private!OpenedIsCovered, Private!Records, Private!Control, Private!IntentIsOwn,
         Private!RecordsStand, Private!InSource
<1>7. Private!Searching'
  BY DEF Private!Searching, Private!Control, Private!TypeOK
<1> QED BY <1>1, <1>2, <1>3, <1>4, <1>5, <1>6, <1>7

\* An adapter without leave does not open an anchor; the refusal is logged.
LEMMA SourceDeniedIInv == ASSUME Private!IInv, Private!SourceDenied PROVE Private!IInv'
<1> USE Indices DEF Private!IInv, Private!SourceDenied, Private!inputs, Private!world, Private!Append_, Private!Pinned
<1>1. /\ Private!TypeOK' /\ Private!FoundIsOnRecord' /\ Private!ReturnedIsOnRecord'
      /\ Private!ExcerptIsOfTheSnapshot' /\ Private!DeniedReadsNothing'
  BY NothingTaken DEF Private!TypeOK
<1>2. Private!Control'
  BY DEF Private!Control, Private!InLocal, Private!InSource, Private!Intents, Private!TypeOK
<1>3. Private!IntentIsOwn'
  BY DEF Private!IntentIsOwn, Private!Control, Private!InLocal, Private!InSource
<1>4. Private!RecordsStand'
  BY DEF Private!RecordsStand, Private!Records, Private!Control
<1>5. Private!DeniedDoesNothing'
  BY DEF Private!DeniedDoesNothing, Private!Control, Private!InSource, Private!InLocal,
         Private!FoundIsOnRecord, Private!IntentIsOwn
<1>6. Private!OpenedIsCovered'
  BY DEF Private!OpenedIsCovered, Private!Records, Private!Control, Private!IntentIsOwn,
         Private!RecordsStand, Private!InSource
<1>7. Private!Searching'
  BY DEF Private!Searching, Private!Control, Private!TypeOK
<1> QED BY <1>1, <1>2, <1>3, <1>4, <1>5, <1>6, <1>7

\* An anchor's file is opened, or refused unopened.
LEMMA SourceOpenIInv == ASSUME Private!IInv, Private!SourceOpen PROVE Private!IInv'
<1> USE Indices DEF Private!IInv, Private!SourceOpen, Private!inputs, Private!world, Private!Append_, Private!Pinned
<1>1. Private!TypeOK'
  BY DEF Private!TypeOK, Private!Records, Private!Control, Private!InLocal, Private!InSource,
         Private!DeniedDoesNothing, Private!FoundIsOnRecord, Private!IntentIsOwn
<1>2. Private!Control'
  BY DEF Private!Control, Private!InLocal, Private!InSource, Private!Intents, Private!TypeOK
<1>3. Private!IntentIsOwn'
  BY DEF Private!IntentIsOwn, Private!Control, Private!InLocal, Private!InSource
<1>4. Private!RecordsStand'
  BY DEF Private!RecordsStand, Private!Records, Private!Control
<1>5. Private!FoundIsOnRecord'
  BY DEF Private!FoundIsOnRecord, Private!Control, Private!RecordsStand, Private!IntentIsOwn
<1>6. Private!DeniedDoesNothing'
  BY DEF Private!DeniedDoesNothing, Private!Control, Private!InSource, Private!InLocal,
         Private!FoundIsOnRecord, Private!IntentIsOwn
<1>7. Private!OpenedIsCovered'
  <2>1. spc = "source" /\ UNCHANGED <<logs, warned, at>> /\ (spc' = "read" \/ UNCHANGED reads)
    OBVIOUS
  <2>2. Private!Records' = Private!Records /\ reads' \subseteq reads \cup {at}
    BY <2>1 DEF Private!Records
  <2> HIDE DEF Private!SourceOpen, Private!IInv
  <2>3. ASSUME NEW n \in reads
        PROVE  \/ \E r \in Private!Records' : r.what = Private!Anchor(n)
               \/ Anchors[n].form = "unplaced"
               \/ warned'
    BY <2>1, <2>2 DEF Private!OpenedIsCovered, Private!IInv
  <2> QED BY <2>1, <2>2, <2>3 DEF Private!OpenedIsCovered
<1>8. Private!ReturnedIsOnRecord'
  BY DEF Private!ReturnedIsOnRecord, Private!FoundIsOnRecord, Private!RecordsStand, Private!Control,
         Private!IntentIsOwn
<1>9. Private!ExcerptIsOfTheSnapshot'
  BY DEF Private!ExcerptIsOfTheSnapshot, Private!Control, Private!FoundSnippets, Private!IntentIsOwn
<1>10. Private!DeniedReadsNothing'
  BY DEF Private!DeniedReadsNothing, Private!DeniedDoesNothing, Private!InSource
<1>11. Private!Searching'
  BY DEF Private!Searching, Private!Control, Private!TypeOK
<1> QED BY <1>1, <1>2, <1>3, <1>4, <1>5, <1>6, <1>7, <1>8, <1>9, <1>10, <1>11

\* The file is compared with the snapshot's; what may be returned is logged first.
LEMMA SourceReadIInv == ASSUME Private!IInv, Private!SourceRead PROVE Private!IInv'
<1> USE Indices DEF Private!IInv, Private!SourceRead, Private!inputs, Private!world, Private!Append_,
                    Private!AfterAnchor, Private!Verified, Private!Pinned
<1>1. /\ Private!TypeOK' /\ Private!FoundIsOnRecord' /\ Private!ReturnedIsOnRecord'
      /\ Private!ExcerptIsOfTheSnapshot' /\ Private!DeniedReadsNothing'
  BY NothingTaken DEF Private!TypeOK
<1>2. Private!Control'
  BY DEF Private!Control, Private!InLocal, Private!InSource, Private!Intents, Private!TypeOK
<1>3. Private!IntentIsOwn'
  BY DEF Private!IntentIsOwn, Private!Control, Private!InLocal, Private!InSource
<1>4. Private!RecordsStand'
  BY DEF Private!RecordsStand, Private!Records, Private!Control
<1>5. Private!DeniedDoesNothing'
  BY DEF Private!DeniedDoesNothing, Private!Control, Private!InSource, Private!InLocal,
         Private!FoundIsOnRecord, Private!IntentIsOwn
<1>6. Private!OpenedIsCovered'
  <2>1. /\ Private!Records' = Private!Records /\ reads' = reads /\ warned' = warned /\ fd' = fd
    BY DEF Private!Records
  <2>2. \/ spc' = "log.check" /\ at' = at /\ intent'.from = "source"
        \/ Anchors[at].form = "unplaced"
    BY DEF Private!Control
  <2>3. Private!OpenedIsCovered /\ spc = "read"
    OBVIOUS
  <2> HIDE DEF Private!IInv, Private!SourceRead
  <2> QED BY <2>1, <2>2, <2>3 DEF Private!OpenedIsCovered
<1>7. Private!Searching'
  BY DEF Private!Searching, Private!Control, Private!TypeOK
<1> QED BY <1>1, <1>2, <1>3, <1>4, <1>5, <1>6, <1>7

\* The source adapter's list grows by an anchor that was read and is on record.
LEMMA FoundGrows ==
    ASSUME Private!IInv, Private!SourceReturns
    PROVE  /\ found' \in Seq(Private!FoundSnippets) /\ Len(found') \in {Len(found), Len(found) + 1}
           /\ \A n \in DOMAIN found' :
                \/ n \in DOMAIN found /\ found'[n] = found[n]
                \/ /\ found'[n] = [of |-> Private!Anchor(at), doc |-> 0, ver |-> 1] /\ at \in reads
                   /\ intent.what = Private!Anchor(at) /\ intent.result = "returned" /\ intent \in witnessed
<1>1. /\ found \in Seq(Private!FoundSnippets) /\ spc = "log.end" /\ at \in Private!AnchorSet
      /\ intent.what = Private!Anchor(at)
      /\ intent.result = "returned" => at \in reads /\ seen = Private!Pinned
      /\ fd # 0 => intent \in witnessed
      /\ found' = IF fd # 0 /\ intent.result = "returned"
                  THEN Append(found, [of |-> intent.what, doc |-> 0, ver |-> seen.ver]) ELSE found
  BY DEF Private!IInv, Private!SourceReturns, Private!Control, Private!InSource, Private!IntentIsOwn,
     Private!RecordsStand, Private!Logged
<1>2. CASE fd # 0 /\ intent.result = "returned"
  <2> DEFINE new == [of |-> Private!Anchor(at), doc |-> 0, ver |-> 1]
  <2>1. found' = Append(found, new)
    <3>1. intent.what = Private!Anchor(at) /\ seen.ver = 1
      BY <1>1, <1>2 DEF Private!Pinned
    <3> QED BY <1>1, <1>2, <3>1
  <2>2. new \in Private!FoundSnippets
    BY <1>1 DEF Private!FoundSnippets
  <2> HIDE DEF new
  <2>3. /\ found' \in Seq(Private!FoundSnippets) /\ Len(found') = Len(found) + 1
        /\ \A n \in DOMAIN found' : (n \in DOMAIN found /\ found'[n] = found[n]) \/ found'[n] = new
    BY <1>1, <2>1, <2>2, AppendMeans
  <2> QED BY <1>1, <1>2, <2>3 DEF new
<1>3. CASE ~(fd # 0 /\ intent.result = "returned")
  BY <1>1, <1>3
<1> QED BY <1>2, <1>3

\* The append about an anchor is over; the next anchor, or the end of the adapter.
LEMMA SourceReturnsIInv == ASSUME Private!IInv, Private!SourceReturns PROVE Private!IInv'
<1>0. /\ spc = "log.end" /\ intent.from = "source" /\ (warned' <=> warned \/ fd = 0) /\ warned' \in BOOLEAN
      /\ at' = (IF at < Len(Anchors) /\ Len(found') < Limit THEN at + 1 ELSE 1)
      /\ spc' = (IF at < Len(Anchors) /\ Len(found') < Limit THEN "source" ELSE "accept")
      /\ UNCHANGED <<asked, policy, allow, leave, src, side, path, known, hits, logs, seen, intent, fd, excerpts,
          reads, witnessed, edits>>
  BY DEF Private!IInv, Private!Control, Private!SourceReturns, Private!inputs, Private!world,
         Private!Logged,
     Private!AfterAnchor
<1>1. /\ Private!TypeOK /\ Private!Control /\ Private!Searching /\ Private!IntentIsOwn /\ Private!RecordsStand
      /\ Private!FoundIsOnRecord /\ Private!DeniedDoesNothing /\ Private!OpenedIsCovered
      /\ Private!ReturnedIsOnRecord /\ Private!ExcerptIsOfTheSnapshot /\ Private!DeniedReadsNothing
  BY DEF Private!IInv
<1>2. /\ found' \in Seq(Private!FoundSnippets) /\ Len(found') \in {Len(found), Len(found) + 1}
      /\ \A n \in DOMAIN found' :
           \/ n \in DOMAIN found /\ found'[n] = found[n]
           \/ /\ found'[n] = [of |-> Private!Anchor(at), doc |-> 0, ver |-> 1] /\ at \in reads
              /\ intent.what = Private!Anchor(at) /\ intent.result = "returned" /\ intent \in witnessed
  BY FoundGrows
<1>3. at \in 1..Len(Anchors) /\ Len(found) < Limit /\ found \in Seq(Private!FoundSnippets)
  BY <1>0, <1>1, Indices DEF Private!Control, Private!InSource
<1>4. Len(found) \in Nat /\ Len(found') \in Nat /\ Len(found') <= Limit
  BY <1>2, <1>3, Indices
<1>5. Private!TypeOK'
  BY <1>0, <1>1, <1>4 DEF Private!TypeOK, Private!Records
<1>6. Private!Control'
  BY <1>0, <1>1, <1>2, <1>3, <1>4, Indices DEF Private!Control, Private!InLocal, Private!InSource
<1>7. Private!IntentIsOwn' /\ Private!RecordsStand' /\ Private!Searching'
  BY <1>0, <1>1 DEF Private!IntentIsOwn, Private!RecordsStand, Private!Records, Private!Searching
<1>8. Private!FoundIsOnRecord'
  <2> SUFFICES ASSUME NEW n \in DOMAIN found'
               PROVE  /\ \E m \in reads : found'[n].of = Private!Anchor(m)
                      /\ \E r \in witnessed : Private!Witnesses(r, found[n])'
    BY <1>0 DEF Private!FoundIsOnRecord
  <2>1. CASE n \in DOMAIN found /\ found'[n] = found[n]
    BY <1>1, <2>1 DEF Private!FoundIsOnRecord
  <2>2. CASE /\ found'[n] = [of |-> Private!Anchor(at), doc |-> 0, ver |-> 1] /\ at \in reads
             /\ intent.what = Private!Anchor(at) /\ intent.result = "returned" /\ intent \in witnessed
    <3>1. intent.ver = 1
      BY <1>0, <1>1 DEF Private!IntentIsOwn, Private!Pinned
    <3> QED BY <2>2, <3>1
  <2> QED BY <1>2, <2>1, <2>2
<1>9. Private!DeniedDoesNothing' /\ Private!DeniedReadsNothing' /\ Private!ReturnedIsOnRecord'
  BY <1>0, <1>1 DEF Private!DeniedDoesNothing, Private!DeniedReadsNothing, Private!ReturnedIsOnRecord,
                    Private!InSource
<1>10. Private!OpenedIsCovered'
  <2>1. fd # 0 => intent \in Private!Records /\ intent.what = Private!Anchor(at)
    BY <1>0, <1>1 DEF Private!RecordsStand, Private!IntentIsOwn
  <2> QED BY <1>0, <1>1, <2>1 DEF Private!OpenedIsCovered, Private!Records
<1>11. Private!ExcerptIsOfTheSnapshot'
  BY <1>0, <1>1, <1>2 DEF Private!ExcerptIsOfTheSnapshot
<1> QED BY <1>5, <1>6, <1>7, <1>8, <1>9, <1>10, <1>11 DEF Private!IInv

\* retrieve takes from the list, and turns into an excerpt only what was in it.
LEMMA AcceptMeans ==
    ASSUME Private!IInv, Private!Accept
    PROVE  /\ found' \in Seq(Private!FoundSnippets) /\ Len(found') <= Len(found)
           /\ \A n \in DOMAIN found' : \E m \in DOMAIN found : found'[n] = found[m]
           /\ \/ excerpts' = excerpts
              \/ policy # "denied" /\ \E m \in DOMAIN found : excerpts' = excerpts \cup {found[m]}
<1>1. found \in Seq(Private!FoundSnippets)
  BY DEF Private!IInv, Private!Control
<1>2. CASE found = << >> \/ policy = "denied"
  <2>1. UNCHANGED <<found, excerpts>>
    BY <1>2 DEF Private!Accept
  <2> QED BY <1>1, <2>1
<1>3. CASE ~(found = << >> \/ policy = "denied")
  <2>1. found' = Tail(found) /\ (excerpts' = excerpts \/ excerpts' = excerpts \cup {Head(found)})
    BY <1>3 DEF Private!Accept
  <2>2. /\ 1 \in DOMAIN found /\ Head(found) = found[1] /\ found' \in Seq(Private!FoundSnippets)
        /\ Len(found') = Len(found) - 1
        /\ \A n \in DOMAIN found' : n + 1 \in DOMAIN found /\ found'[n] = found[n + 1]
    BY <1>1, <1>3, <2>1, TailMeans
  <2> QED BY <1>1, <1>3, <2>1, <2>2
<1> QED BY <1>2, <1>3

\* retrieve takes a snippet after reading its file again, or is done.
LEMMA AcceptIInv == ASSUME Private!IInv, Private!Accept PROVE Private!IInv'
<1>0. /\ spc = "accept" /\ spc' \in {"accept", "done"}
      /\ UNCHANGED <<asked, policy, allow, leave, src, side, path, known, hits, logs, at, seen, intent, fd, warned,
          reads, witnessed, edits>>
  BY DEF Private!Accept, Private!inputs, Private!world
<1>1. /\ Private!TypeOK /\ Private!Control /\ Private!Searching /\ Private!IntentIsOwn /\ Private!RecordsStand
      /\ Private!FoundIsOnRecord /\ Private!DeniedDoesNothing /\ Private!OpenedIsCovered
      /\ Private!ReturnedIsOnRecord /\ Private!ExcerptIsOfTheSnapshot /\ Private!DeniedReadsNothing
  BY DEF Private!IInv
<1>2. /\ found' \in Seq(Private!FoundSnippets) /\ Len(found') <= Len(found)
      /\ \A n \in DOMAIN found' : \E m \in DOMAIN found : found'[n] = found[m]
      /\ \/ excerpts' = excerpts
         \/ policy # "denied" /\ \E m \in DOMAIN found : excerpts' = excerpts \cup {found[m]}
  BY AcceptMeans
<1>3. \A e \in excerpts' : e \in excerpts \/ \E m \in DOMAIN found : e = found[m]
  BY <1>2
<1>4. Private!TypeOK'
  <2>1. Len(found) \in Nat /\ Len(found') \in Nat /\ Len(found') <= Limit
    BY <1>1, <1>2, Indices DEF Private!TypeOK, Private!Control
  <2>2. \A e \in excerpts' : e.of \in {Private!Hit(n) : n \in DOMAIN Hits} \cup {Private!Anchor(n) : n \in reads}
    <3> SUFFICES ASSUME NEW e \in excerpts'
                 PROVE  e.of \in {Private!Hit(n) : n \in DOMAIN Hits} \cup {Private!Anchor(n) : n \in reads}
      OBVIOUS
    <3>1. CASE e \in excerpts
      BY <1>1, <3>1 DEF Private!TypeOK
    <3>2. CASE \E m \in DOMAIN found : e = found[m]
      BY <1>1, <3>2 DEF Private!FoundIsOnRecord
    <3> QED BY <1>3, <3>1, <3>2
  <2> QED BY <1>0, <1>1, <2>1, <2>2 DEF Private!TypeOK, Private!Records
<1>5. /\ Private!Control' /\ Private!IntentIsOwn' /\ Private!RecordsStand' /\ Private!Searching'
      /\ Private!OpenedIsCovered'
  <2>1. Private!Control'
    BY <1>0, <1>1, <1>2 DEF Private!Control, Private!InLocal, Private!InSource
  <2>2. Private!IntentIsOwn' /\ Private!RecordsStand' /\ Private!Searching'
    BY <1>0, <1>1 DEF Private!IntentIsOwn, Private!RecordsStand, Private!Records, Private!Searching
  <2>3. Private!OpenedIsCovered'
    BY <1>0, <1>1 DEF Private!OpenedIsCovered, Private!Records
  <2> QED BY <2>1, <2>2, <2>3
<1>6. Private!FoundIsOnRecord'
  BY <1>0, <1>1, <1>2 DEF Private!FoundIsOnRecord
<1>7. Private!ReturnedIsOnRecord'
  BY <1>0, <1>1, <1>3 DEF Private!ReturnedIsOnRecord, Private!FoundIsOnRecord
<1>8. Private!ExcerptIsOfTheSnapshot'
  BY <1>1, <1>2, <1>3 DEF Private!ExcerptIsOfTheSnapshot
<1>9. Private!DeniedDoesNothing'
  BY <1>0, <1>1, <1>2 DEF Private!DeniedDoesNothing, Private!InSource
<1>10. Private!DeniedReadsNothing'
  <2>1. found # << >> => allow /\ asked
    BY <1>1 DEF Private!FoundIsOnRecord, Private!DeniedDoesNothing, Private!Control
  <2>2. \A m \in DOMAIN found : found[m].of[1] = "anchor" /\ found # << >>
    BY <1>1 DEF Private!FoundIsOnRecord
  <2>3. \A e \in excerpts' : e \in excerpts \/ (policy = "bounded" /\ allow /\ asked /\ e.of[1] = "anchor")
    BY <1>1, <1>2, <2>1, <2>2 DEF Private!Control
  <2> QED BY <1>0, <1>1, <2>3 DEF Private!DeniedReadsNothing
<1> QED BY <1>4, <1>5, <1>6, <1>7, <1>8, <1>9, <1>10 DEF Private!IInv

\* A source file changes, or becomes a link.
LEMMA EditSourceIInv == ASSUME Private!IInv, Private!EditSource PROVE Private!IInv'
<1> USE Indices DEF Private!IInv, Private!EditSource, Private!inputs, Private!world, Private!Edit
<1>1. /\ Private!TypeOK' /\ Private!FoundIsOnRecord' /\ Private!ReturnedIsOnRecord'
      /\ Private!ExcerptIsOfTheSnapshot' /\ Private!DeniedReadsNothing'
  BY NothingTaken DEF Private!TypeOK
<1>2. Private!Control'
  BY DEF Private!Control, Private!InLocal, Private!InSource, Private!Intents, Private!TypeOK
<1>3. Private!IntentIsOwn'
  BY DEF Private!IntentIsOwn, Private!Control, Private!InLocal, Private!InSource
<1>4. Private!RecordsStand'
  BY DEF Private!RecordsStand, Private!Records, Private!Control
<1>5. Private!DeniedDoesNothing'
  BY DEF Private!DeniedDoesNothing, Private!Control, Private!InSource, Private!InLocal,
         Private!FoundIsOnRecord, Private!IntentIsOwn
<1>6. Private!OpenedIsCovered'
  BY DEF Private!OpenedIsCovered, Private!Records, Private!Control, Private!IntentIsOwn,
         Private!RecordsStand, Private!InSource
<1>7. Private!Searching'
  BY DEF Private!Searching, Private!Control, Private!TypeOK
<1> QED BY <1>1, <1>2, <1>3, <1>4, <1>5, <1>6, <1>7

\* The sidecar changes or goes away.
LEMMA EditSidecarIInv == ASSUME Private!IInv, Private!EditSidecar PROVE Private!IInv'
<1> USE Indices DEF Private!IInv, Private!EditSidecar, Private!inputs, Private!world, Private!Edit
<1>1. /\ Private!TypeOK' /\ Private!FoundIsOnRecord' /\ Private!ReturnedIsOnRecord'
      /\ Private!ExcerptIsOfTheSnapshot' /\ Private!DeniedReadsNothing'
  BY NothingTaken DEF Private!TypeOK
<1>2. Private!Control'
  BY DEF Private!Control, Private!InLocal, Private!InSource, Private!Intents, Private!TypeOK
<1>3. Private!IntentIsOwn'
  BY DEF Private!IntentIsOwn, Private!Control, Private!InLocal, Private!InSource
<1>4. Private!RecordsStand'
  BY DEF Private!RecordsStand, Private!Records, Private!Control
<1>5. Private!DeniedDoesNothing'
  BY DEF Private!DeniedDoesNothing, Private!Control, Private!InSource, Private!InLocal,
         Private!FoundIsOnRecord, Private!IntentIsOwn
<1>6. Private!OpenedIsCovered'
  BY DEF Private!OpenedIsCovered, Private!Records, Private!Control, Private!IntentIsOwn,
         Private!RecordsStand, Private!InSource
<1>7. Private!Searching'
  BY DEF Private!Searching, Private!Control, Private!TypeOK
<1> QED BY <1>1, <1>2, <1>3, <1>4, <1>5, <1>6, <1>7

\* Someone moves the log away, or puts a link in its place.
LEMMA EditLogIInv == ASSUME Private!IInv, Private!EditLog PROVE Private!IInv'
<1> USE Indices DEF Private!IInv, Private!EditLog, Private!inputs, Private!world, Private!Edit
<1>1. /\ Private!TypeOK' /\ Private!FoundIsOnRecord' /\ Private!ReturnedIsOnRecord'
      /\ Private!ExcerptIsOfTheSnapshot' /\ Private!DeniedReadsNothing'
  BY NothingTaken DEF Private!TypeOK
<1>2. Private!Control'
  BY DEF Private!Control, Private!InLocal, Private!InSource, Private!Intents, Private!TypeOK
<1>3. Private!IntentIsOwn'
  BY DEF Private!IntentIsOwn, Private!Control, Private!InLocal, Private!InSource
<1>4. Private!RecordsStand'
  BY DEF Private!RecordsStand, Private!Records, Private!Control
<1>5. Private!DeniedDoesNothing'
  BY DEF Private!DeniedDoesNothing, Private!Control, Private!InSource, Private!InLocal,
         Private!FoundIsOnRecord, Private!IntentIsOwn
<1>6. Private!OpenedIsCovered'
  BY DEF Private!OpenedIsCovered, Private!Records, Private!Control, Private!IntentIsOwn,
         Private!RecordsStand, Private!InSource
<1>7. Private!Searching'
  BY DEF Private!Searching, Private!Control, Private!TypeOK
<1> QED BY <1>1, <1>2, <1>3, <1>4, <1>5, <1>6, <1>7

\* Every step of the two adapters, of retrieve and of the others keeps the invariant.
LEMMA PrivateStep == Private!IInv /\ [Private!Next]_(Private!vars) => Private!IInv'
<1> SUFFICES ASSUME Private!IInv, [Private!Next]_(Private!vars) PROVE Private!IInv'
  OBVIOUS
<1>1. CASE Private!Begin BY <1>1, BeginIInv
<1>2. CASE Private!SearchFails BY <1>2, SearchFailsIInv
<1>3. CASE Private!LocalHit BY <1>3, LocalHitIInv
<1>4. CASE Private!LocalReturns BY <1>4, LocalReturnsIInv
<1>5. CASE Private!LogCheck BY <1>5, LogCheckIInv
<1>6. CASE Private!LogWrite BY <1>6, LogWriteIInv
<1>7. CASE Private!LogVerify BY <1>7, LogVerifyIInv
<1>8. CASE Private!Policy BY <1>8, PolicyIInv
<1>9. CASE Private!SourceDenied BY <1>9, SourceDeniedIInv
<1>10. CASE Private!SourceOpen BY <1>10, SourceOpenIInv
<1>11. CASE Private!SourceRead BY <1>11, SourceReadIInv
<1>12. CASE Private!SourceReturns BY <1>12, SourceReturnsIInv
<1>13. CASE Private!Accept BY <1>13, AcceptIInv
<1>14. CASE Private!EditSource BY <1>14, EditSourceIInv
<1>15. CASE Private!EditSidecar BY <1>15, EditSidecarIInv
<1>16. CASE Private!EditLog BY <1>16, EditLogIInv
<1>18. CASE Private!LocalSearch BY <1>18, LocalSearchIInv
<1>17. CASE UNCHANGED Private!vars
  <2>1. UNCHANGED <<asked, policy, allow, leave, src, side, path, known, hits, logs, spc, at, seen, intent, fd,
      found,
                    excerpts, warned, reads, witnessed, edits>>
    BY <1>17 DEF Private!vars, Private!inputs, Private!world
  <2>2. /\ Private!TypeOK' /\ Private!Control' /\ Private!IntentIsOwn' /\ Private!RecordsStand'
        /\ Private!Searching'
    BY <2>1 DEF Private!IInv, Private!TypeOK, Private!Searching, Private!Control, Private!IntentIsOwn,
                Private!RecordsStand,
       Private!InLocal, Private!InSource, Private!Records
  <2>3. Private!FoundIsOnRecord' /\ Private!DeniedDoesNothing' /\ Private!OpenedIsCovered'
    BY <2>1 DEF Private!IInv, Private!FoundIsOnRecord, Private!DeniedDoesNothing,
                Private!OpenedIsCovered,
       Private!InSource, Private!Records
  <2>4. Private!ReturnedIsOnRecord' /\ Private!ExcerptIsOfTheSnapshot' /\ Private!DeniedReadsNothing'
    BY <2>1 DEF Private!IInv, Private!ReturnedIsOnRecord, Private!ExcerptIsOfTheSnapshot,
       Private!DeniedReadsNothing
  <2> QED BY <2>2, <2>3, <2>4 DEF Private!IInv
<1> QED BY <1>1, <1>2, <1>3, <1>4, <1>5, <1>6, <1>7, <1>8, <1>9, <1>10, <1>11, <1>12, <1>13, <1>14,
    <1>15, <1>16, <1>17, <1>18 DEF Private!Next, Private!Retriever, Private!Outside

\* It holds in every reachable state, for any anchors, hits, limit and number of edits.
THEOREM PrivateInvariant == Private!Spec => []Private!IInv
  BY PrivateInit, PrivateStep, PTL DEF Private!Spec

\* The invariant holds all that is promised of private text.
LEMMA PrivateIsSafe ==
    ASSUME Private!IInv
    PROVE  /\ Private!TypeOK /\ Private!ReturnedIsOnRecord /\ Private!ExcerptIsOfTheSnapshot
           /\ Private!DeniedReadsNothing /\ Private!OpenedIsOnRecord
<1>1. Private!OpenedIsOnRecord
  BY DEF Private!IInv, Private!OpenedIsOnRecord, Private!OpenedIsCovered
<1> QED BY <1>1 DEF Private!IInv

\* No private text is opened or returned without leave and without a record that
\* stands: see PrivateIsOnRecord.
THEOREM PrivateAlwaysOnRecord == MCSpec => []PrivateIsOnRecord
<1>1. MCInit => Private!IInv
  BY PrivateInit DEF MCInit
<1>2. Private!IInv /\ [MCNext]_<<part, vars, svars>> => Private!IInv'
  <2> SUFFICES ASSUME Private!IInv, [MCNext]_<<part, vars, svars>> PROVE [Private!Next]_(Private!vars)
    BY PrivateStep
  <2>1. Private!Next \/ UNCHANGED svars
    BY Zenon DEF MCNext
  <2>2. UNCHANGED svars => UNCHANGED Private!vars
    BY DEF svars, Private!vars, Private!inputs, Private!world
  <2> QED BY <2>1, <2>2
<1>3. Private!IInv => PrivateIsOnRecord
  BY PrivateIsSafe DEF PrivateIsOnRecord
<1> QED BY <1>1, <1>2, <1>3, PTL DEF MCSpec

===============================================================================
