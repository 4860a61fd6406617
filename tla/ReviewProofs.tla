---------------------------- MODULE ReviewProofs ----------------------------
(***************************************************************************)
(* Theorems about the event stream of a reviewing process (ReviewStream),   *)
(* for any events; about a review suite (ReviewSuite), for any shards,      *)
(* files, outputs and changes beside it; about the attestation of a         *)
(* review (PackAttestation), for any packs, reviews, writes of an editor    *)
(* and failures; and about the cache of cited documents (ReviewCache), for  *)
(* any sorted citations, answers of a server and changes on disk.           *)
(***************************************************************************)
EXTENDS MCReview, Naturals, FiniteSetTheorems, FunctionTheorems, TLAPS

-------------------------------------------------------------------------------
(* The event stream.                                                        *)

\* The chunks are a finite set.
LEMMA StreamAssumed == Stream!StreamOK
BY ReviewAssumption

\* The instance counts as FiniteSets does.
LEMMA CountedEvents ==
    /\ \A S : Stream!Cardinality(S) = Cardinality(S)
    /\ \A S : Stream!IsFiniteSet(S) = IsFiniteSet(S)
<1>1. \A S : Stream!Cardinality(S) = Cardinality(S)
  BY Zenon DEF Stream!Cardinality, Cardinality
<1>2. \A S : Stream!IsFiniteSet(S) = IsFiniteSet(S)
  BY Zenon DEF Stream!IsFiniteSet, IsFiniteSet
<1> QED BY <1>1, <1>2

\* The fields of an event.
LEMMA EventMeans ==
    ASSUME NEW e \in Stream!Events
    PROVE  /\ e.type \in {"thread", "note", "turn", "retry", "start", "done", "message", "end"}
           /\ e.type \in {"start", "done"} => e.call \in Calls /\ e.cmd \in Stream!Commands
           /\ e.type = "message" => e.body \in Stream!Messages
           /\ e.type = "thread" => e.th \in Threads
BY DEF Stream!Events, Stream!Noise, Stream!CommandEvents, Stream!Event

\* What an event adds to the stream.
LEMMA AtGrows ==
    ASSUME Stream!Types, NEW e \in Stream!Events, stream' = Append(stream, e)
    PROVE  /\ stream' \in Seq(Stream!Events) /\ Len(stream) \in Nat /\ Len(stream') = Len(stream) + 1
           /\ DOMAIN stream = 1..Len(stream) /\ DOMAIN stream' = 1..Len(stream) + 1
           /\ \A i \in 1..Len(stream) : stream'[i] = stream[i]
           /\ stream'[Len(stream) + 1] = e
           /\ \A t : Stream!At(t)' = Stream!At(t) \cup (IF e.type = t THEN {Len(stream) + 1} ELSE {})
           /\ \A t : \A i \in Stream!At(t) : i \in 1..Len(stream) /\ stream[i].type = t /\ i # Len(stream) + 1
<1>1. /\ stream' \in Seq(Stream!Events) /\ Len(stream) \in Nat /\ Len(stream') = Len(stream) + 1
      /\ DOMAIN stream = 1..Len(stream) /\ DOMAIN stream' = 1..Len(stream) + 1
      /\ \A i \in 1..Len(stream) : stream'[i] = stream[i]
      /\ stream'[Len(stream) + 1] = e
  BY DEF Stream!Types
<1>2. \A t : Stream!At(t)' = Stream!At(t) \cup (IF e.type = t THEN {Len(stream) + 1} ELSE {})
  BY <1>1 DEF Stream!At
<1>3. \A t : \A i \in Stream!At(t) : i \in 1..Len(stream) /\ stream[i].type = t /\ i # Len(stream) + 1
  BY <1>1 DEF Stream!At
<1> QED BY <1>1, <1>2, <1>3

\* Before the first event nothing is known.
LEMMA StreamInit == Stream!Init => Stream!IInv
<1> SUFFICES ASSUME Stream!Init PROVE Stream!IInv
  OBVIOUS
<1> USE StreamAssumed DEF Stream!Init
<1>0. stream = << >> /\ Len(stream) = 0 /\ completed = {} /\ DOMAIN started = {} /\ verdict = "reading"
      /\ message = << >> /\ turns.started = 0 /\ turns.completed = 0 /\ threads = << >>
  OBVIOUS
<1>1. Stream!Types
  <2>1. Stream!IsFiniteSet(completed)
    BY <1>0, CountedEvents, FS_EmptySet
  <2>2. kind \in Stream!Kinds /\ reads \in [Stream!Chunks -> Nat] /\ turns \in [started : Nat, completed : Nat]
        /\ retries \in 0..MaxRetries /\ Len(stream) <= MaxEvents
    BY <1>0 DEF Stream!StreamOK
  <2> QED BY <1>0, <2>1, <2>2 DEF Stream!Types
<1>2. \A t : Stream!At(t) = {}
  BY <1>0 DEF Stream!At
<1>3. Stream!Opened
  BY <1>0, <1>2 DEF Stream!Opened
<1>4. Stream!StartsAreKnown /\ Stream!DonesAreKnown /\ Stream!MessageIsKnown /\ Stream!EndsAreCounted
      /\ Stream!AcceptedIsClosed
  BY <1>0, <1>2 DEF Stream!StartsAreKnown, Stream!DonesAreKnown, Stream!MessageIsKnown, Stream!EndsAreCounted,
     Stream!AcceptedIsClosed, Stream!Accepted
<1>5. Stream!ReadsAreCounted
  <2> SUFFICES ASSUME NEW c \in Stream!Chunks
               PROVE  reads[c] = Stream!Cardinality({k \in completed : started[k] = Stream!Reading(c)})
    BY DEF Stream!ReadsAreCounted
  <2>1. {k \in completed : started[k] = Stream!Reading(c)} = {}
    BY <1>0
  <2> QED BY <2>1, CountedEvents, FS_EmptySet
<1> QED BY <1>1, <1>3, <1>4, <1>5 DEF Stream!IInv

\* A rejected stream is dropped, an accepted one is closed and has been read.
LEMMA RejectIInv == ASSUME Stream!IInv, Stream!Reject PROVE Stream!IInv'
<1>1. /\ verdict' = "rejected" /\ stream' = << >> /\ started' = [k \in {} |-> 0] /\ completed' = {}
      /\ reads' = [c \in Stream!Chunks |-> 0] /\ message' = << >> /\ threads' = << >>
      /\ turns' = [started |-> 0, completed |-> 0] /\ retries' = 0 /\ kind' = kind
  BY DEF Stream!Reject
<1>2. Stream!Types'
  <2>1. Stream!IsFiniteSet(completed') /\ DOMAIN started' = {}
    BY <1>1, CountedEvents, FS_EmptySet
  <2>2. kind' \in Stream!Kinds
    BY <1>1 DEF Stream!IInv, Stream!Types
  <2>3. reads' \in [Stream!Chunks -> Nat] /\ turns' \in [started : Nat, completed : Nat]
        /\ retries' \in 0..MaxRetries /\ Len(stream') <= MaxEvents
    BY <1>1, StreamAssumed DEF Stream!StreamOK
  <2> QED BY <1>1, <2>1, <2>2, <2>3 DEF Stream!Types
<1>3. Stream!ReadsAreCounted'
  <2> SUFFICES ASSUME NEW c \in Stream!Chunks
               PROVE  reads'[c] = Stream!Cardinality({k \in completed' : started'[k] = Stream!Reading(c)})
    BY DEF Stream!ReadsAreCounted
  <2>1. {k \in completed' : started'[k] = Stream!Reading(c)} = {}
    BY <1>1
  <2> QED BY <1>1, <2>1, CountedEvents, FS_EmptySet
<1>4. Stream!Opened' /\ Stream!StartsAreKnown' /\ Stream!DonesAreKnown' /\ Stream!MessageIsKnown'
      /\ Stream!EndsAreCounted' /\ Stream!AcceptedIsClosed'
  BY <1>1 DEF Stream!Opened, Stream!StartsAreKnown, Stream!DonesAreKnown, Stream!MessageIsKnown,
     Stream!EndsAreCounted, Stream!AcceptedIsClosed, Stream!Accepted
<1> QED BY <1>2, <1>3, <1>4 DEF Stream!IInv

\* The end of the stream: it is closed and accepted, or rejected.
LEMMA CloseIInv == ASSUME Stream!IInv, Stream!Close PROVE Stream!IInv'
<1>1. CASE verdict' = "rejected"
  <2>1. Stream!Reject
    BY <1>1 DEF Stream!Close
  <2> QED BY <2>1, RejectIInv
<1>2. CASE verdict' # "rejected"
  <2> USE DEF Stream!IInv
  <2>1. /\ verdict = "reading" /\ verdict' = "accepted" /\ Stream!Closed /\ Stream!Inventory /\ Stream!ResultOK(message[1])
        /\ UNCHANGED <<kind, stream, started, completed, reads, message, threads, named, turns, retries>>
    BY <1>2 DEF Stream!Close, Stream!Reject
  <2>2. Stream!Types' /\ Stream!ReadsAreCounted'
    BY <2>1 DEF Stream!Types, Stream!ReadsAreCounted
  <2>3. \A t : Stream!At(t)' = Stream!At(t)
    BY <2>1 DEF Stream!At
  <2>4. Stream!Opened' /\ Stream!StartsAreKnown' /\ Stream!MessageIsKnown' /\ Stream!EndsAreCounted'
    BY <2>1, <2>3 DEF Stream!Opened, Stream!StartsAreKnown, Stream!MessageIsKnown, Stream!EndsAreCounted
  <2>5. Stream!DonesAreKnown'
    BY <2>1, <2>3 DEF Stream!DonesAreKnown, Stream!OutputOK
  <2>6. Stream!AcceptedIsClosed'
    BY <2>1 DEF Stream!AcceptedIsClosed, Stream!Closed, Stream!Inventory, Stream!ResultOK
  <2> QED BY <2>2, <2>4, <2>5, <2>6
<1> QED BY <1>1, <1>2

\* An event that is accepted.
LEMMA TakeIInv ==
    ASSUME Stream!IInv, NEW e \in Stream!Events, verdict = "reading", Len(stream) < MaxEvents,
           Stream!Opening(e), Stream!Take(e)
    PROVE  Stream!IInv'
<1> USE DEF Stream!IInv
<1> DEFINE n == Len(stream) + 1
<1>1. /\ stream' = Append(stream, e) /\ Stream!Accepts(e) /\ kind' = kind /\ verdict' = verdict
      /\ started' = (IF e.type = "start" THEN Stream!Started(e) ELSE started)
      /\ completed' = (IF e.type = "done" THEN completed \cup {e.call} ELSE completed)
      /\ reads' = Stream!Reads(e)
      /\ message' = (IF e.type = "message" THEN Append(message, e.body) ELSE message)
      /\ threads' = (IF e.type = "thread" THEN Append(threads, e.th) ELSE threads)
      /\ turns' = [started |-> turns.started + (IF e.type = "turn" THEN 1 ELSE 0),
                   completed |-> turns.completed + (IF e.type = "end" THEN 1 ELSE 0)]
      /\ retries' = (IF e.type = "retry" THEN retries + 1 ELSE retries)
  BY DEF Stream!Take
<1>2. /\ e.type \in {"thread", "note", "turn", "retry", "start", "done", "message", "end"}
      /\ e.type \in {"start", "done"} => e.call \in Calls /\ e.cmd \in Stream!Commands
      /\ e.type = "message" => e.body \in Stream!Messages
      /\ e.type = "thread" => e.th \in Threads
  BY EventMeans
<1>3. /\ e.type = "start" => message = << >> /\ e.call \notin DOMAIN started
      /\ e.type = "done" => /\ message = << >> /\ e.call \notin completed /\ e.call \in DOMAIN started
                            /\ started[e.call] = e.cmd /\ Stream!OutputOK(e.cmd, e.out)
      /\ e.type = "retry" => message = << >> /\ retries < MaxRetries
      /\ e.type \in {"message", "note"} => message = << >>
  BY <1>1, <1>2 DEF Stream!Accepts, Stream!StartOK, Stream!DoneOK, Stream!RetryOK, Stream!MessageOK, Stream!NoteOK,
     Stream!Final
<1>4. /\ stream' \in Seq(Stream!Events) /\ Len(stream) \in Nat /\ Len(stream') = n
      /\ DOMAIN stream = 1..Len(stream) /\ DOMAIN stream' = 1..n
      /\ \A i \in 1..Len(stream) : stream'[i] = stream[i]
      /\ stream'[n] = e
      /\ \A t : Stream!At(t)' = Stream!At(t) \cup (IF e.type = t THEN {n} ELSE {})
      /\ \A t : \A i \in Stream!At(t) : i \in 1..Len(stream) /\ stream[i].type = t /\ i # n
  BY <1>1, AtGrows
<1>5. /\ \A t : \A i \in Stream!At(t)' : (i \in Stream!At(t) /\ stream'[i] = stream[i]) \/ (i = n /\ e.type = t)
      /\ \A t : \A i \in Stream!At(t) : i \in Stream!At(t)' /\ stream'[i] = stream[i] /\ i < n
      /\ n \in Stream!At(e.type)'
  BY <1>4
<1>6. /\ e.type = "start" => /\ DOMAIN started' = DOMAIN started \cup {e.call} /\ started'[e.call] = e.cmd
                             /\ \A k \in DOMAIN started : started'[k] = started[k]
      /\ e.type # "start" => started' = started
  BY <1>1, <1>3 DEF Stream!Started
<1> HIDE DEF n
<1>7. Stream!Types'
  <2>1. Len(stream') <= MaxEvents
    BY <1>4, StreamAssumed DEF Stream!StreamOK, n
  <2>2. DOMAIN started' \subseteq Calls /\ \A k \in DOMAIN started' : started'[k] \in Stream!Commands
    BY <1>2, <1>6 DEF Stream!Types
  <2>3. completed' \subseteq DOMAIN started'
    BY <1>1, <1>3, <1>6 DEF Stream!Types
  <2>4. Stream!IsFiniteSet(completed')
    BY <1>1, CountedEvents, FS_AddElement DEF Stream!Types
  <2>5. reads' \in [Stream!Chunks -> Nat]
    BY <1>1, <1>2 DEF Stream!Types, Stream!Reads
  <2>6. message' \in Seq(Stream!Messages) /\ Len(message') <= 1 /\ threads' \in Seq(Threads)
    BY <1>1, <1>2, <1>3 DEF Stream!Types
  <2>7. turns' \in [started : Nat, completed : Nat] /\ retries' \in 0..MaxRetries
    BY <1>1, <1>3, StreamAssumed DEF Stream!Types, Stream!StreamOK
  <2> QED BY <1>1, <1>4, <2>1, <2>2, <2>3, <2>4, <2>5, <2>6, <2>7 DEF Stream!Types
<1>8. Stream!Opened'
  <2>1. /\ Len(stream) = 0 => e.type = "thread"
        /\ Len(stream) = 1 => e.type = "turn"
    <3>1. stream = << >> <=> Len(stream) = 0
      BY DEF Stream!Types
    <3> QED BY <3>1 DEF Stream!Opening
  <2>2. /\ Len(threads) \in Nat /\ Len(threads') = Len(threads) + (IF e.type = "thread" THEN 1 ELSE 0)
        /\ turns.started \in Nat /\ turns'.started = turns.started + (IF e.type = "turn" THEN 1 ELSE 0)
    BY <1>1 DEF Stream!Types
  <2>3. stream' # << >>
    BY <1>1
  <2>4. stream = << >> <=> Len(stream) = 0
    BY DEF Stream!Types
  <2>5. Len(threads') # 0 /\ stream'[1].type = "thread" /\ (Len(threads') = 1 => \A i \in Stream!At("thread")' : i = 1)
    <3>1. CASE Len(stream) = 0
      <4>1. n = 1 /\ e.type = "thread" /\ Len(threads) = 0
        BY <2>1, <2>4, <3>1 DEF Stream!Opened, n
      <4>2. Len(threads') # 0 /\ stream'[1].type = "thread"
        BY <1>4, <2>2, <4>1
      <4>3. \A i \in Stream!At("thread")' : i = 1
        BY <1>4, <3>1, <4>1
      <4> QED BY <4>2, <4>3
    <3>2. CASE Len(stream) # 0
      <4>1. Len(threads) # 0 /\ stream[1].type = "thread" /\ stream'[1] = stream[1]
        BY <1>4, <2>4, <3>2 DEF Stream!Opened
      <4>2. Len(threads') = 1 => e.type # "thread" /\ Len(threads) = 1
        BY <2>2, <4>1
      <4> QED BY <1>5, <2>2, <4>1, <4>2 DEF Stream!Opened
    <3> QED BY <3>1, <3>2
  <2>6. /\ Len(stream') < 2 <=> turns'.started = 0
        /\ Len(stream') >= 2 => stream'[2].type = "turn"
        /\ turns'.started = 1 => \A i \in Stream!At("turn")' : i = 2
    <3>1. CASE Len(stream) = 0
      BY <1>4, <1>5, <2>1, <2>2, <3>1 DEF Stream!Opened, n
    <3>2. CASE Len(stream) = 1
      <4>1. turns.started = 0 /\ e.type = "turn" /\ n = 2
        BY <2>1, <3>2 DEF Stream!Opened, n
      <4>2. \A i \in Stream!At("turn") : FALSE
        <5>1. \A i \in Stream!At("turn") : i = 1 /\ stream[1].type = "turn"
          BY <1>4, <3>2
        <5>2. stream[1].type = "thread"
          BY <2>4, <3>2 DEF Stream!Opened
        <5> QED BY <5>1, <5>2
      <4> QED BY <1>4, <1>5, <2>2, <4>1, <4>2
    <3>3. CASE Len(stream) >= 2
      <4>1. turns.started # 0 /\ stream[2].type = "turn" /\ stream'[2] = stream[2] /\ n >= 2
        BY <1>4, <3>3 DEF Stream!Opened, n
      <4>2. turns'.started = 1 => e.type # "turn" /\ turns.started = 1
        BY <2>2, <4>1
      <4> QED BY <1>4, <1>5, <2>2, <4>1, <4>2 DEF Stream!Opened
    <3> QED BY <1>4, <3>1, <3>2, <3>3
  <2> QED BY <2>3, <2>5, <2>6 DEF Stream!Opened
<1>9. Stream!StartsAreKnown'
  <2>1. \A i \in Stream!At("start")' :
          stream'[i].call \in DOMAIN started' /\ stream'[i].cmd = started'[stream'[i].call]
    <3> TAKE i \in Stream!At("start")'
    <3>1. CASE i \in Stream!At("start") /\ stream'[i] = stream[i]
      BY <1>6, <3>1 DEF Stream!StartsAreKnown
    <3>2. CASE i = n /\ e.type = "start"
      BY <1>4, <1>6, <3>2
    <3> QED BY <1>5, <3>1, <3>2
  <2>2. \A k \in DOMAIN started' : \E i \in Stream!At("start")' : stream'[i].call = k
    <3> TAKE k \in DOMAIN started'
    <3>1. CASE k \in DOMAIN started
      <4>1. PICK i \in Stream!At("start") : stream[i].call = k
        BY <3>1 DEF Stream!StartsAreKnown
      <4> QED BY <1>5, <4>1
    <3>2. CASE e.type = "start" /\ k = e.call
      BY <1>4, <1>5, <3>2
    <3> QED BY <1>6, <3>1, <3>2
  <2>3. \A i, j \in Stream!At("start")' : stream'[i].call = stream'[j].call => i = j
    <3>1. e.type = "start" => \A i \in Stream!At("start") : stream[i].call # e.call
      BY <1>3 DEF Stream!StartsAreKnown
    <3> QED BY <1>4, <1>5, <3>1 DEF Stream!StartsAreKnown
  <2> QED BY <2>1, <2>2, <2>3 DEF Stream!StartsAreKnown
<1>10. Stream!DonesAreKnown'
  <2>0. \A c, out_ : Stream!OutputOK(c, out_)' = Stream!OutputOK(c, out_)
    BY <1>1 DEF Stream!OutputOK
  <2>1. ASSUME NEW j \in Stream!At("done")'
        PROVE  /\ stream'[j].call \in completed' /\ stream'[j].cmd = started'[stream'[j].call]
               /\ Stream!OutputOK(stream[j].cmd, stream[j].out)'
               /\ \E i \in Stream!At("start")' : i < j /\ stream'[i].call = stream'[j].call
    <3>1. CASE j \in Stream!At("done") /\ stream'[j] = stream[j]
      <4>1. /\ stream[j].call \in completed /\ stream[j].cmd = started[stream[j].call]
            /\ Stream!OutputOK(stream[j].cmd, stream[j].out)
            /\ \E i \in Stream!At("start") : i < j /\ stream[i].call = stream[j].call
        BY <3>1 DEF Stream!DonesAreKnown
      <4>2. Stream!OutputOK(stream[j].cmd, stream[j].out)'
        BY <1>1, <3>1, <4>1 DEF Stream!OutputOK
      <4>3. stream[j].call \in DOMAIN started
        BY <4>1 DEF Stream!Types
      <4>4. stream[j].call \in completed' /\ started'[stream[j].call] = started[stream[j].call]
        BY <1>1, <1>6, <4>1, <4>3
      <4>5. \E i \in Stream!At("start")' : i < j /\ stream'[i].call = stream[j].call
        BY <1>5, <4>1
      <4> QED BY <3>1, <4>1, <4>2, <4>4, <4>5
    <3>2. CASE j = n /\ e.type = "done"
      <4>1. stream'[j] = e /\ started' = started
        BY <1>4, <1>6, <3>2
      <4>2. PICK i \in Stream!At("start") : stream[i].call = e.call
        BY <1>3, <3>2 DEF Stream!StartsAreKnown
      <4>3. Stream!OutputOK(stream[j].cmd, stream[j].out)'
        BY <1>1, <1>3, <3>2, <4>1 DEF Stream!OutputOK
      <4> QED BY <1>1, <1>3, <1>5, <3>2, <4>1, <4>2, <4>3
    <3> QED BY <1>5, <3>1, <3>2
  <2>2. \A k \in completed' : \E j \in Stream!At("done")' : stream'[j].call = k
    <3> TAKE k \in completed'
    <3>1. CASE k \in completed
      <4>1. PICK j \in Stream!At("done") : stream[j].call = k
        BY <3>1 DEF Stream!DonesAreKnown
      <4> QED BY <1>5, <4>1
    <3>2. CASE e.type = "done" /\ k = e.call
      BY <1>4, <1>5, <3>2
    <3> QED BY <1>1, <3>1, <3>2
  <2>3. \A i, j \in Stream!At("done")' : stream'[i].call = stream'[j].call => i = j
    <3>1. e.type = "done" => \A i \in Stream!At("done") : stream[i].call # e.call
      BY <1>3 DEF Stream!DonesAreKnown
    <3> QED BY <1>4, <1>5, <3>1 DEF Stream!DonesAreKnown
  <2> QED BY <2>1, <2>2, <2>3 DEF Stream!DonesAreKnown
<1>11. Stream!ReadsAreCounted'
  <2> SUFFICES ASSUME NEW c \in Stream!Chunks
               PROVE  reads'[c] = Stream!Cardinality({k \in completed' : started'[k] = Stream!Reading(c)})
    BY DEF Stream!ReadsAreCounted
  <2> DEFINE S == {k \in completed : started[k] = Stream!Reading(c)}
             T == {k \in completed' : started'[k] = Stream!Reading(c)}
  <2>1. reads[c] = Cardinality(S)
    BY CountedEvents DEF Stream!ReadsAreCounted
  <2>2. IsFiniteSet(S)
    <3>1. IsFiniteSet(completed) /\ S \subseteq completed
      BY CountedEvents DEF Stream!Types
    <3> QED BY <3>1, FS_Subset
  <2>3. CASE e.type = "done"
    <3>1. T = S \cup (IF e.cmd = Stream!Reading(c) THEN {e.call} ELSE {})
      BY <1>1, <1>3, <1>6, <2>3
    <3>2. e.call \notin S
      BY <1>3, <2>3
    <3>3. reads'[c] = reads[c] + (IF e.cmd = Stream!Reading(c) THEN 1 ELSE 0)
      BY <1>1, <1>2, <2>3 DEF Stream!Types, Stream!Reads
    <3>4. Cardinality(S \cup {e.call}) = Cardinality(S) + 1 /\ Cardinality(S) \in Nat
      BY <2>2, <3>2, FS_AddElement, FS_CardinalityType
    <3>5. CASE e.cmd = Stream!Reading(c)
      <4>1. T = S \cup {e.call}
        BY <3>1, <3>5
      <4> HIDE DEF S, T
      <4> QED BY <2>1, <3>3, <3>4, <3>5, <4>1, CountedEvents DEF T
    <3>6. CASE e.cmd # Stream!Reading(c)
      <4>1. T = S
        BY <3>1, <3>6
      <4> HIDE DEF S
      <4>2. reads'[c] = Cardinality(S)
        BY <2>1, <3>3, <3>4, <3>6
      <4> QED BY <4>1, <4>2, CountedEvents
    <3> QED BY <3>5, <3>6
  <2>4. CASE e.type # "done"
    <3>1. completed' = completed /\ reads'[c] = reads[c]
      BY <1>1, <2>4 DEF Stream!Reads
    <3>2. \A k \in completed : started'[k] = started[k]
      BY <1>6 DEF Stream!Types
    <3>3. T = S
      BY <3>1, <3>2
    <3> QED BY <2>1, <3>1, <3>3, CountedEvents
  <2> QED BY <2>3, <2>4
<1>12. Stream!MessageIsKnown'
  <2>1. message # << >> => message'[1] = message[1] /\ message' # << >> /\ e.type \in {"end", "thread", "turn"}
    BY <1>1, <1>2, <1>3
  <2>2. message = << >> => Stream!At("message") = {}
    BY DEF Stream!MessageIsKnown
  <2>3. CASE message # << >>
    <3>1. Stream!At("message")' = Stream!At("message") /\ message' # << >> /\ message'[1] = message[1]
      BY <1>4, <2>1, <2>3
    <3>2. \A i \in Stream!At("message") : \A j \in DOMAIN stream' :
            j > i => stream'[j].type \in {"end", "thread", "turn"}
      <4> SUFFICES ASSUME NEW i \in Stream!At("message"), NEW j \in DOMAIN stream', j > i
                   PROVE  stream'[j].type \in {"end", "thread", "turn"}
        OBVIOUS
      <4>1. CASE j = n
        BY <1>4, <2>1, <2>3, <4>1
      <4>2. CASE j # n
        <5>1. j \in DOMAIN stream /\ stream'[j] = stream[j]
          BY <1>4, <4>2 DEF n
        <5> QED BY <5>1 DEF Stream!MessageIsKnown
      <4> QED BY <4>1, <4>2
    <3>3. \A i \in Stream!At("message") : stream'[i] = stream[i]
      BY <1>5
    <3> QED BY <2>3, <3>1, <3>2, <3>3 DEF Stream!MessageIsKnown
  <2>4. CASE message = << >> /\ e.type = "message"
    <3>1. message' # << >> /\ message'[1] = e.body
      BY <1>1, <1>2, <2>4
    <3>2. Stream!At("message")' = {n}
      BY <1>4, <2>2, <2>4
    <3>3. \A j \in DOMAIN stream' : ~(j > n)
      BY <1>4 DEF n
    <3> QED BY <1>4, <2>4, <3>1, <3>2, <3>3 DEF Stream!MessageIsKnown
  <2>5. CASE message = << >> /\ e.type # "message"
    <3>1. message' = << >> /\ Stream!At("message")' = {}
      BY <1>1, <1>4, <2>2, <2>5
    <3> QED BY <3>1 DEF Stream!MessageIsKnown
  <2> QED BY <2>3, <2>4, <2>5
<1>13. Stream!EndsAreCounted'
  <2>1. turns.completed \in Nat /\ turns'.completed = turns.completed + (IF e.type = "end" THEN 1 ELSE 0)
    BY <1>1 DEF Stream!Types
  <2>2. CASE e.type = "end"
    <3>1. Stream!At("end")' = Stream!At("end") \cup {n}
      BY <1>4, <2>2
    <3>2. turns'.completed # 0 /\ (turns'.completed = 1 => turns.completed = 0)
      BY <2>1, <2>2
    <3> QED BY <3>1, <3>2 DEF Stream!EndsAreCounted
  <2>3. CASE e.type # "end"
    <3>1. Stream!At("end")' = Stream!At("end") /\ turns'.completed = turns.completed
      <4>1. Stream!At("end")' = Stream!At("end")
        BY <1>4, <2>3
      <4> QED BY <2>1, <2>3, <4>1
    <3> QED BY <3>1 DEF Stream!EndsAreCounted
  <2> QED BY <2>2, <2>3
<1>14. Stream!AcceptedIsClosed'
  BY <1>1 DEF Stream!AcceptedIsClosed, Stream!Accepted
<1> QED BY <1>7, <1>8, <1>9, <1>10, <1>11, <1>12, <1>13, <1>14

\* Every step keeps the invariant.
LEMMA StreamStep == Stream!IInv /\ [Stream!Next]_evars => Stream!IInv'
<1> SUFFICES ASSUME Stream!IInv, [Stream!Next]_evars PROVE Stream!IInv'
  OBVIOUS
<1>1. ASSUME NEW e \in Stream!Events, Stream!Emit(e) PROVE Stream!IInv'
  BY <1>1, TakeIInv DEF Stream!Emit
<1>2. CASE Stream!Next
  BY <1>1, <1>2, CloseIInv, RejectIInv DEF Stream!Next, Stream!Refuse
<1>3. CASE UNCHANGED evars
  <2> USE DEF Stream!IInv
  <2>1. UNCHANGED <<kind, stream, started, completed, reads, message, threads, named, turns, retries, verdict>>
    BY <1>3 DEF evars
  <2>2. Stream!Types' /\ Stream!ReadsAreCounted'
    BY <2>1 DEF Stream!Types, Stream!ReadsAreCounted
  <2>3. \A t : Stream!At(t)' = Stream!At(t)
    BY <2>1 DEF Stream!At
  <2>4. Stream!Opened' /\ Stream!StartsAreKnown' /\ Stream!MessageIsKnown' /\ Stream!EndsAreCounted'
    BY <2>1, <2>3 DEF Stream!Opened, Stream!StartsAreKnown, Stream!MessageIsKnown, Stream!EndsAreCounted
  <2>5. Stream!DonesAreKnown'
    BY <2>1, <2>3 DEF Stream!DonesAreKnown, Stream!OutputOK
  <2>6. Stream!AcceptedIsClosed'
    BY <2>1 DEF Stream!AcceptedIsClosed, Stream!Accepted, Stream!Closed, Stream!Inventory, Stream!ResultOK
  <2> QED BY <2>2, <2>4, <2>5, <2>6
<1> QED BY <1>2, <1>3

(* Type correctness, and what the replay knows of the events it has read:   *)
(* calls, chunks and outputs are those of the stream, each once, the stream *)
(* opens with its thread and turn, and little comes after the message       *)
(* (tools/knowledge_review_suite_replay.py).                                *)
THEOREM StreamInvariant == MCSpec => []Stream!IInv
<1>1. MCInit => Stream!IInv
  BY StreamInit DEF MCInit
<1>2. [MCNext]_mcvars => [Stream!Next]_evars
  BY DEF MCNext, mcvars, evars
<1>3. Stream!IInv /\ [MCNext]_mcvars => Stream!IInv'
  BY <1>2, StreamStep
<1> QED BY <1>1, <1>3, PTL DEF MCSpec

\* What the run checks of an accepted stream follows.
LEMMA StreamProperties ==
    Stream!IInv => /\ Stream!TypeOK /\ Stream!ApprovalFollowsReading /\ Stream!CommandsArePaired
                   /\ Stream!ShardReadsItsBudget /\ Stream!VerdictIsLast
<1> SUFFICES ASSUME Stream!IInv
             PROVE  /\ Stream!TypeOK /\ Stream!ApprovalFollowsReading /\ Stream!CommandsArePaired
                    /\ Stream!ShardReadsItsBudget /\ Stream!VerdictIsLast
  OBVIOUS
<1> USE DEF Stream!IInv
<1>1. Stream!TypeOK
  <2>1. \A c \in Stream!Chunks : reads[c] = Stream!Cardinality({k \in completed : started[k] = Stream!Reading(c)})
    BY DEF Stream!ReadsAreCounted
  <2>2. kind \in Stream!Kinds /\ verdict \in {"reading", "accepted", "rejected"} /\ Len(stream) <= MaxEvents
        /\ completed \subseteq DOMAIN started /\ DOMAIN started \subseteq Calls /\ Len(message) <= 1
        /\ retries <= MaxRetries
    BY StreamAssumed DEF Stream!Types, Stream!StreamOK
  <2> QED BY Zenon, <2>1, <2>2 DEF Stream!TypeOK
<1>2. /\ Len(stream) \in Nat /\ DOMAIN stream = 1..Len(stream)
      /\ \A t : \A i \in Stream!At(t) : i \in 1..Len(stream) /\ i \in Nat /\ stream[i].type = t
  BY DEF Stream!Types, Stream!At
<1>3. ASSUME verdict = "accepted"
      PROVE  /\ Len(threads) = 1 /\ turns.started = 1 /\ turns.completed = 1
             /\ completed = DOMAIN started /\ Len(message) = 1 /\ message # << >>
             /\ message[1] \in Stream!Messages
             /\ Stream!Inventory /\ Stream!ResultOK(message[1])
  <2>1. Stream!Closed /\ Stream!Inventory /\ Stream!ResultOK(message[1])
    BY <1>3 DEF Stream!AcceptedIsClosed, Stream!Accepted
  <2>2. message # << >> /\ message[1] \in Stream!Messages
    <3>1. message \in Seq(Stream!Messages) /\ Len(message) = 1
      BY <2>1 DEF Stream!Closed, Stream!Types
    <3> QED BY <3>1
  <2>3. turns.started = 1 /\ turns.completed = 1
    BY <2>1 DEF Stream!Closed
  <2> QED BY <2>1, <2>2, <2>3 DEF Stream!Closed
<1>4. ASSUME NEW c \in Stream!Chunks, reads[c] # 0, verdict # "rejected"
      PROVE  \E j \in Stream!At("done") : stream[j].cmd = Stream!Reading(c)
  <2>1. {k \in completed : started[k] = Stream!Reading(c)} # {}
    BY <1>4, CountedEvents, FS_EmptySet DEF Stream!ReadsAreCounted
  <2>2. PICK k \in completed : started[k] = Stream!Reading(c)
    BY <2>1
  <2>3. PICK j \in Stream!At("done") : stream[j].call = k
    BY <1>4 DEF Stream!DonesAreKnown
  <2> QED BY <1>4, <2>2, <2>3 DEF Stream!DonesAreKnown
<1>5. ASSUME verdict = "accepted", NEW i \in Stream!At("message"), NEW j \in DOMAIN stream, j > i
      PROVE  stream[j].type = "end"
  <2>1. stream[j].type \in {"end", "thread", "turn"}
    BY <1>5 DEF Stream!MessageIsKnown
  <2>2. i # 1 /\ i # 2
    <3>1. stream # << >>
      BY <1>2
    <3>2. stream[1].type = "thread" /\ (Len(stream) >= 2 => stream[2].type = "turn")
      BY <1>5, <3>1 DEF Stream!Opened
    <3>3. i = 2 => Len(stream) >= 2
      BY <1>2
    <3> QED BY <1>2, <3>2, <3>3
  <2>3. j # 1 /\ j # 2
    BY <1>2, <1>5, <2>2
  <2>4. j \notin Stream!At("thread") /\ j \notin Stream!At("turn")
    BY <1>3, <1>5, <2>3 DEF Stream!Opened
  <2> QED BY <1>2, <2>1, <2>4 DEF Stream!At
<1>6. Stream!ApprovalFollowsReading
  <2> SUFFICES ASSUME verdict = "accepted", NEW i \in Stream!At("message"), stream[i].body.approved,
                      NEW c \in Stream!Chunks
               PROVE  \E j \in Stream!At("done") :
                         j < i /\ stream[j].cmd = Stream!Reading(c) /\ stream[j].out \in {"exact", "marker"}
    BY DEF Stream!ApprovalFollowsReading, Stream!Accepted
  <2>1. message[1].approved
    BY DEF Stream!MessageIsKnown
  <2>2. reads[c] # 0
    <3>1. CASE kind = "shard"
      BY <1>3, <3>1 DEF Stream!Inventory
    <3>2. CASE kind = "full"
      <4>1. /\ \A d \in message[1].verified : reads[d] > 0
            /\ message[1].verified = CitationChunks /\ \A d \in SourceChunks : reads[d] > 0
        BY <1>3, <2>1, <3>2 DEF Stream!ResultOK
      <4>2. reads[c] > 0
        BY <4>1 DEF Stream!Chunks
      <4> QED BY <4>2 DEF Stream!Types
    <3> QED BY <3>1, <3>2 DEF Stream!Types, Stream!Kinds
  <2>3. PICK j \in Stream!At("done") : stream[j].cmd = Stream!Reading(c)
    BY <1>4, <2>2
  <2>4. stream[j].out \in {"exact", "marker"}
    BY <2>3 DEF Stream!DonesAreKnown, Stream!OutputOK
  <2>5. j < i
    <3>1. stream[j].type = "done" /\ stream[i].type = "message" /\ i \in Nat /\ j \in Nat /\ j \in DOMAIN stream
      BY <1>2
    <3>2. ~(j > i)
      BY <1>5, <3>1
    <3>3. j # i
      BY <3>1
    <3> QED BY <3>1, <3>2, <3>3
  <2> QED BY <2>3, <2>4, <2>5
<1>7. Stream!CommandsArePaired
  <2> SUFFICES ASSUME verdict = "accepted"
               PROVE  /\ \A j \in Stream!At("done") : \E i \in Stream!At("start") :
                           i < j /\ stream[i].call = stream[j].call /\ stream[i].cmd = stream[j].cmd
                      /\ \A i \in Stream!At("start") : \E j \in Stream!At("done") :
                           i < j /\ stream[i].call = stream[j].call
                      /\ \A t \in {"start", "done"} : \A i, j \in Stream!At(t) :
                           stream[i].call = stream[j].call => i = j
    BY DEF Stream!CommandsArePaired, Stream!Accepted
  <2>1. \A j \in Stream!At("done") : \E i \in Stream!At("start") :
          i < j /\ stream[i].call = stream[j].call /\ stream[i].cmd = stream[j].cmd
    BY DEF Stream!DonesAreKnown, Stream!StartsAreKnown
  <2>2. \A i \in Stream!At("start") : \E j \in Stream!At("done") : i < j /\ stream[i].call = stream[j].call
    <3> TAKE i \in Stream!At("start")
    <3>1. stream[i].call \in completed
      BY <1>3 DEF Stream!StartsAreKnown
    <3>2. PICK j \in Stream!At("done") : stream[j].call = stream[i].call
      BY <3>1 DEF Stream!DonesAreKnown
    <3>3. PICK h \in Stream!At("start") : h < j /\ stream[h].call = stream[j].call
      BY <2>1
    <3>4. h = i
      BY <3>2, <3>3 DEF Stream!StartsAreKnown
    <3> QED BY <3>2, <3>3, <3>4
  <2>3. \A t \in {"start", "done"} : \A i, j \in Stream!At(t) : stream[i].call = stream[j].call => i = j
    BY DEF Stream!StartsAreKnown, Stream!DonesAreKnown
  <2> QED BY <2>1, <2>2, <2>3
<1>8. Stream!ShardReadsItsBudget
  <2> SUFFICES ASSUME verdict = "accepted", kind = "shard"
               PROVE  /\ Cardinality(Stream!ReadingsAt) = Cardinality(Stream!Chunks)
                      /\ {stream[j].cmd : j \in Stream!ReadingsAt} = {Stream!Reading(c) : c \in Stream!Chunks}
    BY CountedEvents DEF Stream!ShardReadsItsBudget, Stream!Accepted
  <2> DEFINE D == Stream!ReadingsAt
             R == {Stream!Reading(c) : c \in Stream!Chunks}
             f == [j \in D |-> stream[j].cmd]
  <2>0. D \subseteq Stream!At("done")
    BY DEF Stream!ReadingsAt
  <2>1. \A c \in Stream!Chunks : reads[c] = 1
    BY <1>3 DEF Stream!Inventory
  <2>2. \A r \in R : \E j \in D : stream[j].cmd = r
    BY <1>4, <2>1 DEF Stream!ReadingsAt, Stream!Reading
  <2>3. \A j \in D : stream[j].cmd \in R
    <3>1. \A j \in D : stream[j].cmd \in Stream!Commands /\ stream[j].cmd.does = "head"
      BY DEF Stream!ReadingsAt, Stream!DonesAreKnown, Stream!Types
    <3> QED BY <3>1 DEF Stream!Commands
  <2>4. \A i, j \in D : stream[i].cmd = stream[j].cmd => i = j
    <3> SUFFICES ASSUME NEW i \in D, NEW j \in D, stream[i].cmd = stream[j].cmd PROVE i = j
      OBVIOUS
    <3>0. PICK c \in Stream!Chunks : stream[i].cmd = Stream!Reading(c)
      BY <2>3
    <3> DEFINE S == {k \in completed : started[k] = Stream!Reading(c)}
    <3>1. stream[i].call \in S /\ stream[j].call \in S
      BY <2>0, <3>0 DEF Stream!DonesAreKnown
    <3>2. IsFiniteSet(S)
      <4>1. IsFiniteSet(completed) /\ S \subseteq completed
        BY CountedEvents DEF Stream!Types
      <4> QED BY <4>1, FS_Subset
    <3>3. Cardinality(S) = 1
      BY <2>1, <3>1, CountedEvents DEF Stream!ReadsAreCounted
    <3> HIDE DEF S
    <3>4. \E x : S = {x}
      BY <3>2, <3>3, FS_Singleton
    <3>5. stream[i].call = stream[j].call
      BY <3>1, <3>4
    <3> QED BY <2>0, <3>5 DEF Stream!DonesAreKnown
  <2>5. f \in [D -> R]
    BY <2>3
  <2>6. f \in Bijection(D, R)
    <3>1. \A a, b \in D : f[a] = f[b] => a = b
      BY <2>4
    <3>2. \A r \in R : \E a \in D : f[a] = r
      BY <2>2
    <3> QED BY <2>5, <3>1, <3>2, Fun_IsBij
  <2>7. IsFiniteSet(D)
    <3>1. IsFiniteSet(1..Len(stream)) /\ D \subseteq 1..Len(stream)
      BY <1>2, <2>0, FS_Interval
    <3> QED BY <3>1, FS_Subset
  <2>8. Cardinality(D) = Cardinality(R)
    <3>1. ExistsBijection(D, R)
      BY <2>6 DEF ExistsBijection
    <3> QED BY <2>7, <3>1, FS_Bijection
  <2>9. Cardinality(R) = Cardinality(Stream!Chunks)
    <3> DEFINE g == [c \in Stream!Chunks |-> Stream!Reading(c)]
    <3>1. \A a, b \in Stream!Chunks : g[a] = g[b] => a = b
      <4>1. \A a, b : {a} = {b} => a = b
        BY Zenon
      <4> QED BY <4>1 DEF Stream!Reading
    <3>2. g \in [Stream!Chunks -> R] /\ \A r \in R : \E c \in Stream!Chunks : g[c] = r
      OBVIOUS
    <3>3. g \in Bijection(Stream!Chunks, R)
      BY <3>1, <3>2, Fun_IsBij
    <3>4. ExistsBijection(Stream!Chunks, R)
      BY <3>3 DEF ExistsBijection
    <3>5. IsFiniteSet(Stream!Chunks)
      BY StreamAssumed, CountedEvents DEF Stream!StreamOK
    <3> QED BY <3>4, <3>5, FS_Bijection
  <2>10. {stream[j].cmd : j \in D} = R
    BY <2>2, <2>3
  <2> QED BY <2>8, <2>9, <2>10
<1>9. Stream!VerdictIsLast
  <2> SUFFICES ASSUME verdict = "accepted"
               PROVE  /\ Cardinality(Stream!At("message")) = 1 /\ Cardinality(Stream!At("end")) = 1
                      /\ \A i \in Stream!At("message") : \A j \in i + 1..Len(stream) : stream[j].type = "end"
    BY CountedEvents DEF Stream!VerdictIsLast, Stream!Accepted
  <2>1. \E i : Stream!At("message") = {i}
    BY <1>3 DEF Stream!MessageIsKnown
  <2>2. \E i : Stream!At("end") = {i}
    <3>1. Stream!At("end") # {} /\ \A i, j \in Stream!At("end") : i = j
      BY <1>3 DEF Stream!EndsAreCounted
    <3> QED BY <3>1
  <2>3. Cardinality(Stream!At("message")) = 1 /\ Cardinality(Stream!At("end")) = 1
    BY <2>1, <2>2, FS_Singleton
  <2>4. \A i \in Stream!At("message") : \A j \in i + 1..Len(stream) : stream[j].type = "end"
    <3> TAKE i \in Stream!At("message")
    <3> TAKE j \in i + 1..Len(stream)
    <3>1. j \in DOMAIN stream /\ j > i
      BY <1>2
    <3> QED BY <1>5, <3>1
  <2> QED BY <2>3, <2>4
<1> QED BY <1>1, <1>6, <1>7, <1>8, <1>9

(* An accepted stream, whatever its process printed: an approval follows    *)
(* the reading of every chunk, commands are started and completed in pairs, *)
(* a shard has read each chunk once, and the verdict is the one last thing  *)
(* (ApprovalFollowsReading, CommandsArePaired, ShardReadsItsBudget,         *)
(* VerdictIsLast).                                                          *)
THEOREM AcceptedHasAlwaysRead == MCSpec => []AcceptedHasRead
<1>1. Stream!IInv => AcceptedHasRead
  BY StreamProperties DEF AcceptedHasRead
<1> QED BY <1>1, StreamInvariant, PTL

-------------------------------------------------------------------------------
(* The suite.                                                               *)

\* There are shards, and files to publish.
LEMMA SuiteAssumed == Suite!SuiteOK
BY ReviewAssumption

\* The jobs of the first protocol come first.
LEMMA JobsMean ==
    /\ Suite!Jobs \in [1..2 * Shards -> Suite!Protocols]
    /\ \A i \in 1..2 * Shards : Suite!Jobs[i] = IF i <= Shards THEN "semantic" ELSE "adversarial"
BY SuiteAssumed DEF Suite!SuiteOK, Suite!Jobs, Suite!Protocols

\* When the executor begins nothing is sealed or published.
LEMMA SuiteInit == Suite!Init => Suite!IInv
<1> SUFFICES ASSUME Suite!Init PROVE Suite!IInv
  OBVIOUS
<1> USE SuiteAssumed DEF Suite!Init, Suite!SuiteOK
<1>1. Suite!Types
  <2>1. world \in [control : Nat, surface : Nat, runtime : Nat]
        /\ mem \in [control : Nat, runtime : Nat, snap : [Suite!Protocols -> Nat]]
    BY DEF Suite!Unset
  <2>2. full \in [Suite!Protocols -> Suite!CacheStates] /\ shard \in Suite!CacheStates
    BY DEF Suite!CacheStates
  <2>3. out \in Suite!Outputs \cup {Suite!NoOutput} /\ seals \in Seq(Suite!Envelopes)
        /\ job \in 1..2 * Shards /\ at \in DOMAIN Artifacts
    OBVIOUS
  <2>4. public \in [Suite!Files -> {"none", "ours", "other"}]
    OBVIOUS
  <2> QED BY <2>1, <2>2, <2>3, <2>4 DEF Suite!Types, Suite!Preparing
<1>2. /\ Suite!JobsInOrder /\ Suite!OutputsAreKept /\ Suite!RuntimeOnlyMoves /\ Suite!SurfaceOnlyMoves
      /\ Suite!SealsAreReplayed /\ Suite!AggregatesApprove /\ Suite!PairIsDistinct
  BY DEF Suite!JobsInOrder, Suite!OutputsAreKept, Suite!RuntimeOnlyMoves, Suite!SurfaceOnlyMoves,
         Suite!SealsAreReplayed, Suite!AggregatesApprove, Suite!PairIsDistinct, Suite!Preparing, Suite!Working, Suite!Closing
<1>3. Suite!PublishedInOrder
  BY DEF Suite!PublishedInOrder
<1> QED BY <1>1, <1>2, <1>3 DEF Suite!IInv

\* The executor stops: nothing but the phase changes, and perhaps what the last process said.
LEMMA StopIInv ==
    ASSUME Suite!IInv, phase \notin Suite!Ended, phase' \in {"failed", "crashed"}, faults' \in Nat,
           phase = "persist" /\ phase' = "failed" => faults' # 0, phase' = "failed" => phase # "publish",
           UNCHANGED <<world, full, shard, mem, job, ran, seals, ended, raw, sealed, public, at>>,
           out' \in Suite!Outputs \cup {Suite!NoOutput}
    PROVE  Suite!IInv'
<1> USE DEF Suite!IInv
<1>1. Suite!Types'
  BY DEF Suite!Types, Suite!Ended
<1>2. Suite!JobsInOrder' /\ Suite!RuntimeOnlyMoves' /\ Suite!SurfaceOnlyMoves' /\ Suite!SealsAreReplayed'
  BY DEF Suite!JobsInOrder, Suite!RuntimeOnlyMoves, Suite!SurfaceOnlyMoves, Suite!SealsAreReplayed,
         Suite!Preparing, Suite!Working, Suite!Closing
<1>3. Suite!OutputsAreKept'
  BY DEF Suite!OutputsAreKept, Suite!Ended
<1>4. Suite!AggregatesApprove' /\ Suite!PairIsDistinct'
  BY DEF Suite!AggregatesApprove, Suite!PairIsDistinct, Suite!Closing
<1>5. Suite!PublishedInOrder'
  BY DEF Suite!PublishedInOrder, Suite!Ended
<1> QED BY <1>1, <1>2, <1>3, <1>4, <1>5

\* A check that fails, a call that fails, a death and a process that takes too long are such stops.
LEMMA RefuseIInv == ASSUME Suite!IInv, Suite!Refuse PROVE Suite!IInv'
<1>1. phase # "persist" /\ phase # "publish"
  BY DEF Suite!Refuse, Suite!Guard
<1>2. phase' = "failed" /\ phase \notin Suite!Ended
      /\ UNCHANGED <<world, full, shard, mem, job, ran, seals, ended, raw, sealed, public, at, out, faults>>
  BY DEF Suite!Refuse, Suite!Go, Suite!evidence, Suite!budget
<1> QED BY <1>1, <1>2, StopIInv DEF Suite!IInv, Suite!Types

LEMMA StopsIInv == ASSUME Suite!IInv, NEW how \in {"failed", "crashed"}, Suite!Stop(how) PROVE Suite!IInv'
<1>1. /\ phase \notin Suite!Ended /\ (how = "failed" => phase # "publish")
      /\ faults' = faults + 1 /\ phase' = how
      /\ UNCHANGED <<world, full, shard, mem, job, ran, seals, ended, raw, sealed, public, at, out>>
  BY DEF Suite!Stop, Suite!Go, Suite!evidence
<1>2. faults' \in Nat /\ faults' # 0
  BY <1>1 DEF Suite!IInv, Suite!Types
<1> QED BY <1>1, <1>2, StopIInv DEF Suite!IInv, Suite!Types

LEMMA TimeoutIInv == ASSUME Suite!IInv, Suite!Timeout PROVE Suite!IInv'
<1>1. /\ phase = "running" /\ phase' = "failed"
      /\ UNCHANGED <<world, full, shard, mem, job, ran, seals, ended, raw, sealed, public, at, out, faults>>
  BY DEF Suite!Timeout, Suite!Go, Suite!evidence, Suite!budget
<1> QED BY <1>1, StopIInv DEF Suite!IInv, Suite!Types, Suite!Ended

\* The frozen versions: the second snapshot is taken after the first.
LEMMA PrepareIInv ==
    ASSUME Suite!IInv, Suite!Freeze \/ \E p \in Suite!Protocols : Suite!TakeSnapshot(p) \/ Suite!Fetch(p)
    PROVE  Suite!IInv'
<1> USE DEF Suite!IInv
<1>1. /\ UNCHANGED <<world, shard, job, ran, out, seals, ended, raw, sealed, public, at, faults>>
      /\ phase \in Suite!Preparing /\ phase' \in Suite!Preparing \cup {"make cache"}
  BY DEF Suite!Freeze, Suite!TakeSnapshot, Suite!Fetch, Suite!Go, Suite!evidence, Suite!budget, Suite!Preparing,
         Suite!Protocols
<1>2. /\ full' \in [Suite!Protocols -> Suite!CacheStates]
      /\ mem' \in [control : Nat, runtime : Nat, snap : [Suite!Protocols -> Nat]]
  <2>1. world.control \in Nat /\ world.surface \in Nat /\ world.runtime \in Nat /\ "good" \in Suite!CacheStates
        /\ mem.snap \in [Suite!Protocols -> Nat] /\ mem.control \in Nat /\ mem.runtime \in Nat
    BY DEF Suite!Types, Suite!CacheStates
  <2>2. CASE Suite!Freeze
    BY <2>1, <2>2 DEF Suite!Freeze, Suite!Types
  <2>3. ASSUME NEW p \in Suite!Protocols, Suite!TakeSnapshot(p)
        PROVE  /\ full' \in [Suite!Protocols -> Suite!CacheStates]
               /\ mem' \in [control : Nat, runtime : Nat, snap : [Suite!Protocols -> Nat]]
    <3>1. full' = full /\ mem' = [mem EXCEPT !.snap[p] = world.surface]
      BY <2>3 DEF Suite!TakeSnapshot
    <3>2. mem' = [mem EXCEPT !.snap = [mem.snap EXCEPT ![p] = world.surface]]
      BY <3>1
    <3>3. [mem.snap EXCEPT ![p] = world.surface] \in [Suite!Protocols -> Nat]
      BY <2>1
    <3> QED BY <3>1, <3>2, <3>3 DEF Suite!Types
  <2>4. ASSUME NEW p \in Suite!Protocols, Suite!Fetch(p)
        PROVE  /\ full' \in [Suite!Protocols -> Suite!CacheStates]
               /\ mem' \in [control : Nat, runtime : Nat, snap : [Suite!Protocols -> Nat]]
    BY <2>1, <2>4 DEF Suite!Fetch, Suite!Types
  <2> QED BY <2>2, <2>3, <2>4
<1>3. Suite!Types'
  BY <1>1, <1>2 DEF Suite!Types, Suite!Working
<1>4. seals = << >> /\ sealed = FALSE /\ job = 1
  <2>1. Len(seals) = 0
    <3>1. job = 1 /\ Len(seals) = job - 1
      BY Zenon, <1>1 DEF Suite!JobsInOrder
    <3> QED BY <3>1
  <2>2. seals = << >>
    BY <2>1 DEF Suite!Types
  <2> QED BY <1>1, <2>2 DEF Suite!PairIsDistinct, Suite!Preparing, Suite!JobsInOrder, Suite!Types
<1>5. Suite!JobsInOrder' /\ Suite!RuntimeOnlyMoves' /\ Suite!AggregatesApprove'
      /\ Suite!PairIsDistinct' /\ Suite!SealsAreReplayed'
  <2>1. Len(seals) = 0 /\ DOMAIN seals = {}
    BY <1>4
  <2>2. 0 <= 2 * Shards
    BY SuiteAssumed DEF Suite!SuiteOK
  <2> QED BY <1>1, <1>4, <2>1, <2>2 DEF Suite!JobsInOrder, Suite!RuntimeOnlyMoves, Suite!AggregatesApprove,
     Suite!PairIsDistinct, Suite!SealsAreReplayed, Suite!Preparing, Suite!Working, Suite!Closing
<1>8. Suite!OutputsAreKept'
  BY <1>1 DEF Suite!OutputsAreKept, Suite!Preparing, Suite!Ended
<1>6. Suite!PublishedInOrder'
  BY <1>1 DEF Suite!PublishedInOrder, Suite!Preparing
<1>7. Suite!SurfaceOnlyMoves'
  <2>1. world.surface \in Nat /\ "semantic" \in Suite!Protocols /\ "adversarial" \in Suite!Protocols
        /\ mem.snap["semantic"] \in Nat
    BY DEF Suite!Types, Suite!Protocols
  <2>2. CASE Suite!Freeze
    BY <1>1, <1>4, <2>2 DEF Suite!Freeze, Suite!SurfaceOnlyMoves, Suite!Go, Suite!Working, Suite!Closing
  <2>3. CASE Suite!TakeSnapshot("semantic")
    <3>1. mem'.snap["semantic"] = world.surface /\ phase' = "fetch semantic"
      <4>1. mem' = [mem EXCEPT !.snap["semantic"] = world.surface] /\ phase' = "fetch semantic"
        BY Zenon, <2>3 DEF Suite!TakeSnapshot, Suite!Go
      <4>2. mem' = [mem EXCEPT !.snap = [mem.snap EXCEPT !["semantic"] = world.surface]]
        BY <4>1
      <4>3. mem'.snap = [mem.snap EXCEPT !["semantic"] = world.surface] /\ mem.snap \in [Suite!Protocols -> Nat]
        BY <4>2 DEF Suite!Types
      <4> QED BY <2>1, <4>1, <4>3
    <3>2. mem'.snap["semantic"] <= world'.surface /\ seals' = << >>
      <4>1. world' = world /\ seals' = seals
        BY <1>1
      <4>2. seals' = << >>
        BY <1>4, <4>1
      <4>3. world.surface <= world.surface
        BY <2>1
      <4> QED BY <3>1, <4>1, <4>2, <4>3
    <3> QED BY <3>1, <3>2 DEF Suite!SurfaceOnlyMoves, Suite!Working, Suite!Closing
  <2>4. CASE Suite!TakeSnapshot("adversarial")
    <3>1. /\ phase = "snap adversarial" /\ phase' = "fetch adversarial"
          /\ mem'.snap["semantic"] = mem.snap["semantic"] /\ mem'.snap["adversarial"] = world.surface
      <4>1. /\ mem' = [mem EXCEPT !.snap["adversarial"] = world.surface]
            /\ phase = (IF "adversarial" = "semantic" THEN "snap semantic" ELSE "snap adversarial")
            /\ phase' = (IF "adversarial" = "semantic" THEN "fetch semantic" ELSE "fetch adversarial")
        BY Zenon, <2>4 DEF Suite!TakeSnapshot, Suite!Go
      <4>2. mem' = [mem EXCEPT !.snap = [mem.snap EXCEPT !["adversarial"] = world.surface]]
        BY <4>1
      <4>3. mem'.snap = [mem.snap EXCEPT !["adversarial"] = world.surface] /\ mem.snap \in [Suite!Protocols -> Nat]
        BY <4>2 DEF Suite!Types
      <4> QED BY <2>1, <4>1, <4>3
    <3>2. mem.snap["semantic"] <= world.surface
      BY <3>1 DEF Suite!SurfaceOnlyMoves
    <3>3. /\ mem'.snap["semantic"] <= mem'.snap["adversarial"]
          /\ mem'.snap["adversarial"] <= world'.surface /\ seals' = << >>
      <4>1. world' = world /\ seals' = seals
        BY <1>1
      <4>2. seals' = << >>
        BY <1>4, <4>1
      <4>3. world.surface <= world.surface
        BY <2>1
      <4> QED BY <3>1, <3>2, <4>1, <4>2, <4>3
    <3> QED BY <3>1, <3>3 DEF Suite!SurfaceOnlyMoves, Suite!Working, Suite!Closing
  <2>5. ASSUME NEW p \in Suite!Protocols, Suite!Fetch(p) PROVE Suite!SurfaceOnlyMoves'
    <3>1. /\ mem' = mem
          /\ \/ phase = "fetch semantic" /\ phase' = "snap adversarial"
             \/ phase = "fetch adversarial" /\ phase' = "make cache"
      BY <2>5 DEF Suite!Fetch, Suite!Go, Suite!Protocols
    <3> QED BY <1>1, <1>4, <3>1 DEF Suite!SurfaceOnlyMoves, Suite!Working, Suite!Closing
  <2> QED BY <2>2, <2>3, <2>4, <2>5 DEF Suite!Protocols
<1> QED BY <1>3, <1>5, <1>6, <1>7, <1>8

\* A shard's cache, its process and its output.
LEMMA MakeCacheIInv == ASSUME Suite!IInv, Suite!MakeCache PROVE Suite!IInv'
<1> USE DEF Suite!IInv
<1>1. /\ phase = "make cache" /\ phase' = "launch" /\ shard' = "good"
      /\ UNCHANGED <<world, full, mem, job, ran, out, seals, ended, raw, sealed, public, at, faults>>
  BY DEF Suite!MakeCache, Suite!Go, Suite!evidence, Suite!budget
<1>2. Suite!Types'
  BY <1>1 DEF Suite!Types, Suite!CacheStates, Suite!Working
<1>3. Suite!JobsInOrder' /\ Suite!RuntimeOnlyMoves' /\ Suite!SurfaceOnlyMoves' /\ Suite!SealsAreReplayed'
  BY <1>1 DEF Suite!JobsInOrder, Suite!RuntimeOnlyMoves, Suite!SurfaceOnlyMoves, Suite!SealsAreReplayed,
     Suite!Preparing, Suite!Working, Suite!Closing
<1>4. Suite!OutputsAreKept' /\ Suite!AggregatesApprove' /\ Suite!PairIsDistinct' /\ Suite!PublishedInOrder'
  BY <1>1 DEF Suite!OutputsAreKept, Suite!AggregatesApprove, Suite!PairIsDistinct, Suite!PublishedInOrder, Suite!Closing
<1> QED BY <1>2, <1>3, <1>4

\* A process runs while the runtime is the frozen one, or a later one.
LEMMA LaunchIInv == ASSUME Suite!IInv, Suite!Launch PROVE Suite!IInv'
<1> USE DEF Suite!IInv
<1>1. /\ phase = "launch" /\ phase' = "running" /\ ran' = {world.runtime} /\ world.runtime = mem.runtime
      /\ UNCHANGED <<world, full, shard, mem, job, out, seals, ended, raw, sealed, public, at, faults>>
  BY DEF Suite!Launch, Suite!LaunchOK, Suite!Go, Suite!evidence, Suite!budget
<1>2. Suite!Types'
  BY <1>1 DEF Suite!Types, Suite!Working
<1>3. Suite!RuntimeOnlyMoves'
  BY <1>1 DEF Suite!RuntimeOnlyMoves, Suite!Types
<1>4. Suite!JobsInOrder' /\ Suite!SurfaceOnlyMoves' /\ Suite!SealsAreReplayed'
  BY <1>1 DEF Suite!JobsInOrder, Suite!SurfaceOnlyMoves, Suite!SealsAreReplayed,
     Suite!Preparing, Suite!Working, Suite!Closing
<1>5. Suite!OutputsAreKept' /\ Suite!AggregatesApprove' /\ Suite!PairIsDistinct' /\ Suite!PublishedInOrder'
  BY <1>1 DEF Suite!OutputsAreKept, Suite!AggregatesApprove, Suite!PairIsDistinct, Suite!PublishedInOrder, Suite!Closing
<1> QED BY <1>2, <1>3, <1>4, <1>5

\* Its output is kept before its exit status is looked at.
LEMMA ReturnIInv == ASSUME Suite!IInv, NEW o \in Suite!Outputs, Suite!Return(o) PROVE Suite!IInv'
<1> USE DEF Suite!IInv
<1>1. /\ phase = "running" /\ out' = o
      /\ UNCHANGED <<world, full, shard, mem, job, ran, seals, raw, sealed, public, at, faults>>
      /\ \/ phase' = "failed" /\ ended' = ended
         \/ phase' = "persist" /\ ended' = ended \cup {job}
  BY DEF Suite!Return, Suite!Go, Suite!budget
<1>2. CASE phase' = "failed"
  BY <1>1, <1>2, StopIInv DEF Suite!Types, Suite!Ended
<1>3. CASE phase' = "persist"
  <2>1. ended' = ended \cup {job}
    BY <1>1, <1>3
  <2>2. Suite!Types'
    BY <1>1, <1>3, <2>1 DEF Suite!Types, Suite!Working
  <2>3. Suite!OutputsAreKept'
    BY <1>1, <1>3, <2>1 DEF Suite!OutputsAreKept
  <2>4. Suite!JobsInOrder' /\ Suite!SurfaceOnlyMoves' /\ Suite!SealsAreReplayed' /\ Suite!RuntimeOnlyMoves'
    BY <1>1, <1>3 DEF Suite!JobsInOrder, Suite!SurfaceOnlyMoves, Suite!SealsAreReplayed, Suite!RuntimeOnlyMoves,
       Suite!Preparing, Suite!Working, Suite!Closing
  <2>5. Suite!AggregatesApprove' /\ Suite!PairIsDistinct' /\ Suite!PublishedInOrder'
    BY <1>1, <1>3 DEF Suite!AggregatesApprove, Suite!PairIsDistinct, Suite!PublishedInOrder, Suite!Closing
  <2> QED BY <2>2, <2>3, <2>4, <2>5
<1> QED BY <1>1, <1>2, <1>3

LEMMA PersistIInv == ASSUME Suite!IInv, Suite!Persist PROVE Suite!IInv'
<1> USE DEF Suite!IInv
<1>1. /\ phase = "persist" /\ phase' \in {"validate", "failed"} /\ raw' = raw \cup {job}
      /\ UNCHANGED <<world, full, shard, mem, job, ran, out, seals, ended, sealed, public, at, faults>>
  BY DEF Suite!Persist, Suite!PersistOutcome, Suite!Go, Suite!budget
<1>2. Suite!Types'
  BY <1>1 DEF Suite!Types, Suite!Working, Suite!Ended
<1>3. Suite!OutputsAreKept'
  BY <1>1 DEF Suite!OutputsAreKept
<1>4. Suite!JobsInOrder' /\ Suite!SurfaceOnlyMoves' /\ Suite!SealsAreReplayed' /\ Suite!RuntimeOnlyMoves'
  BY <1>1 DEF Suite!JobsInOrder, Suite!SurfaceOnlyMoves, Suite!SealsAreReplayed, Suite!RuntimeOnlyMoves,
     Suite!Preparing, Suite!Working, Suite!Closing
<1>5. Suite!AggregatesApprove' /\ Suite!PairIsDistinct' /\ Suite!PublishedInOrder'
  BY <1>1 DEF Suite!AggregatesApprove, Suite!PairIsDistinct, Suite!PublishedInOrder, Suite!Closing
<1> QED BY <1>2, <1>3, <1>4, <1>5

\* Everything frozen is still what it was: the runtime the process saw is the frozen one,
\* and the two snapshots are of one surface.
LEMMA ValidateIInv == ASSUME Suite!IInv, Suite!Validate PROVE Suite!IInv'
<1> USE DEF Suite!IInv
<1>1. /\ phase = "validate" /\ phase' = "replay" /\ out.complete
      /\ world.surface = mem.snap[Suite!Protocol] /\ world.runtime = mem.runtime
      /\ UNCHANGED <<world, full, shard, mem, job, ran, out, seals, ended, raw, sealed, public, at, faults>>
  BY DEF Suite!Validate, Suite!Static, Suite!Go, Suite!evidence, Suite!budget
<1>2. Suite!Types'
  BY <1>1 DEF Suite!Types, Suite!Working
<1>3. ran = {mem.runtime}
  <2>1. world.runtime \in Nat /\ mem.runtime \in Nat /\ ran \in SUBSET Nat
    BY DEF Suite!Types
  <2>2. ran # {} /\ \A r \in ran : mem.runtime <= r /\ r <= world.runtime
    BY <1>1 DEF Suite!RuntimeOnlyMoves
  <2>3. \A r \in ran : r = mem.runtime
    BY <1>1, <2>1, <2>2
  <2> QED BY <2>2, <2>3
<1>4. mem.snap["semantic"] = mem.snap["adversarial"]
  <2>1. /\ mem.snap["semantic"] \in Nat /\ mem.snap["adversarial"] \in Nat /\ job \in 1..2 * Shards
        /\ world.surface \in Nat
    BY DEF Suite!Types, Suite!Protocols
  <2>2. mem.snap["semantic"] <= mem.snap["adversarial"] /\ mem.snap["adversarial"] <= world.surface
    BY <1>1 DEF Suite!SurfaceOnlyMoves, Suite!Working
  <2>3. CASE job <= Shards
    <3>1. world.surface = mem.snap["semantic"]
      BY <1>1, <2>1, <2>3, JobsMean DEF Suite!Protocol
    <3> QED BY <2>1, <2>2, <3>1
  <2>4. CASE ~(job <= Shards)
    <3>1. Len(seals) = job - 1
      BY Zenon, <1>1 DEF Suite!JobsInOrder, Suite!Working
    <3>2. Len(seals) # 0
      BY <2>1, <2>4, <3>1, SuiteAssumed DEF Suite!SuiteOK
    <3>3. seals # << >>
      BY <3>2
    <3> QED BY <3>3 DEF Suite!SurfaceOnlyMoves
  <2> QED BY <2>3, <2>4
<1>5. Suite!SurfaceOnlyMoves'
  BY <1>1, <1>4 DEF Suite!SurfaceOnlyMoves, Suite!Working, Suite!Closing
<1>6. Suite!SealsAreReplayed'
  BY <1>1, <1>3 DEF Suite!SealsAreReplayed
<1>7. Suite!JobsInOrder' /\ Suite!RuntimeOnlyMoves' /\ Suite!OutputsAreKept'
  BY <1>1 DEF Suite!JobsInOrder, Suite!RuntimeOnlyMoves, Suite!OutputsAreKept,
     Suite!Preparing, Suite!Working, Suite!Closing
<1>8. Suite!AggregatesApprove' /\ Suite!PairIsDistinct' /\ Suite!PublishedInOrder'
  BY <1>1 DEF Suite!AggregatesApprove, Suite!PairIsDistinct, Suite!PublishedInOrder, Suite!Closing
<1> QED BY <1>2, <1>5, <1>6, <1>7, <1>8

\* The seal of a job.
LEMMA ReplayIInv == ASSUME Suite!IInv, Suite!Replay PROVE Suite!IInv'
<1> USE DEF Suite!IInv
<1> DEFINE e == Suite!Envelope
<1>1. /\ phase = "replay" /\ out.bytes = "good" /\ seals' = Append(seals, e)
      /\ shard' = "none" /\ out' = Suite!NoOutput /\ ran' = {}
      /\ UNCHANGED <<world, full, mem, ended, raw, sealed, public, at, faults>>
  BY DEF Suite!Replay, Suite!ReplayOK, Suite!Sealed, Suite!budget
<1>2. IF job \in {Shards, 2 * Shards} THEN phase' = "aggregate" /\ job' = job
                                      ELSE phase' = "make cache" /\ job' = job + 1
  BY Zenon DEF Suite!Replay, Suite!Go
<1>3. /\ job \in 1..2 * Shards /\ Shards \in Nat \ {0}
      /\ Suite!Protocol \in Suite!Protocols /\ Suite!Protocol = Suite!Jobs[job]
  BY JobsMean, SuiteAssumed DEF Suite!Types, Suite!SuiteOK, Suite!Protocol
<1>4. out \in Suite!Outputs
  BY <1>1 DEF Suite!Types, Suite!NoOutput
<1>5. /\ e.protocol = Suite!Protocol /\ e.surface = mem.snap[Suite!Protocol] /\ e.bytes = out.bytes
      /\ e.complete = out.complete /\ e.ran = ran
  BY DEF Suite!Envelope
<1>6. e \in Suite!Envelopes
  BY <1>3, <1>4 DEF Suite!Envelope, Suite!Envelopes, Suite!Types, Suite!Outputs
<1> HIDE DEF e
<1>7. /\ seals \in Seq(Suite!Envelopes) /\ seals' \in Seq(Suite!Envelopes) /\ Len(seals') = Len(seals) + 1
      /\ DOMAIN seals = 1..Len(seals) /\ DOMAIN seals' = 1..Len(seals')
      /\ \A i \in DOMAIN seals : seals'[i] = seals[i]
      /\ seals'[Len(seals) + 1] = e
  BY <1>1, <1>6 DEF Suite!Types
<1>8. Len(seals) = job - 1
  BY Zenon, <1>1 DEF Suite!JobsInOrder, Suite!Working
<1>9. Len(seals') = job /\ seals'[job] = e /\ \A i \in DOMAIN seals' : i = job \/ i \in DOMAIN seals
  BY <1>3, <1>7, <1>8
<1>10. job' \in 1..2 * Shards /\ phase' \in {"aggregate", "make cache"}
  <2>1. job = 2 * Shards \/ job + 1 \in 1..2 * Shards
    BY <1>3
  <2>2. job' = job \/ (job # 2 * Shards /\ job' = job + 1)
    BY <1>2
  <2>3. phase' \in {"aggregate", "make cache"}
    BY <1>2
  <2> QED BY <1>3, <2>1, <2>2, <2>3
<1>11. Suite!Types'
  BY <1>1, <1>7, <1>10 DEF Suite!Types, Suite!Working, Suite!CacheStates
<1>12. Suite!JobsInOrder'
  <2>1. \A i \in DOMAIN seals' : seals'[i].protocol = Suite!Jobs[i]
    <3> TAKE i \in DOMAIN seals'
    <3>1. CASE i = job
      BY <1>3, <1>5, <1>9, <3>1
    <3>2. CASE i \in DOMAIN seals
      BY <1>7, <3>2 DEF Suite!JobsInOrder
    <3> QED BY <1>9, <3>1, <3>2
  <2>2. ~sealed
    BY <1>1 DEF Suite!PairIsDistinct
  <2>3. /\ phase' \in Suite!Preparing \cup Suite!Working => Len(seals') = job' - 1
        /\ phase' = "aggregate" => Len(seals') = job' /\ job' \in {Shards, 2 * Shards}
        /\ Len(seals') <= 2 * Shards
    <3>1. job <= 2 * Shards /\ (job' = job + 1 => job = job' - 1)
      BY <1>3
    <3>2. /\ phase' = "aggregate" => job' = job /\ job \in {Shards, 2 * Shards}
          /\ phase' = "make cache" => job' = job + 1
      BY <1>2
    <3> QED BY <1>9, <1>10, <3>1, <3>2 DEF Suite!Preparing, Suite!Working
  <2> QED BY <1>1, <1>10, <2>1, <2>2, <2>3 DEF Suite!JobsInOrder, Suite!Preparing, Suite!Closing
<1>13. Suite!OutputsAreKept'
  <2>1. job \in raw /\ 1..Len(seals) \subseteq raw
    BY <1>1 DEF Suite!OutputsAreKept
  <2>2. 1..Len(seals') \subseteq raw
    BY <1>3, <1>8, <1>9, <2>1
  <2> QED BY <1>1, <1>10, <2>2 DEF Suite!OutputsAreKept
<1>14. Suite!RuntimeOnlyMoves' /\ Suite!PairIsDistinct' /\ Suite!PublishedInOrder'
  BY <1>1, <1>10 DEF Suite!RuntimeOnlyMoves, Suite!PairIsDistinct, Suite!PublishedInOrder
<1>15. Suite!SurfaceOnlyMoves'
  BY <1>1, <1>10 DEF Suite!SurfaceOnlyMoves, Suite!Working, Suite!Closing
<1>16. Suite!SealsAreReplayed'
  <2> SUFFICES ASSUME NEW i \in DOMAIN seals'
               PROVE  /\ seals'[i].complete /\ seals'[i].bytes = "good" /\ seals'[i].ran = {mem.runtime}
                      /\ seals'[i].surface = mem.snap[seals'[i].protocol]
    BY <1>1, <1>10 DEF Suite!SealsAreReplayed
  <2>1. CASE i = job
    BY <1>1, <1>5, <1>9, <2>1 DEF Suite!SealsAreReplayed
  <2>2. CASE i \in DOMAIN seals
    BY <1>7, <2>2 DEF Suite!SealsAreReplayed
  <2> QED BY <1>9, <2>1, <2>2
<1>17. Suite!AggregatesApprove'
  <2>1. ~sealed
    BY <1>1 DEF Suite!PairIsDistinct
  <2>2. \A i \in DOMAIN seals' : i <= Shards /\ job' > Shards => seals'[i].approved
    <3> SUFFICES ASSUME NEW i \in DOMAIN seals', i <= Shards, job' > Shards PROVE seals'[i].approved
      OBVIOUS
    <3>1. job > Shards
      <4>1. job' = job \/ (job # Shards /\ job' = job + 1)
        BY <1>2
      <4> QED BY <1>3, <4>1
    <3>2. i \in DOMAIN seals /\ seals'[i] = seals[i]
      BY <1>3, <1>7, <1>9, <3>1
    <3> QED BY <3>1, <3>2 DEF Suite!AggregatesApprove
  <2> QED BY <1>1, <1>10, <2>1, <2>2 DEF Suite!AggregatesApprove, Suite!Closing
<1> QED BY <1>11, <1>12, <1>13, <1>14, <1>15, <1>16, <1>17

\* The seals of the present protocol are those of its jobs.
LEMMA OwnMeans ==
    ASSUME Suite!IInv, NEW i \in DOMAIN seals
    PROVE  /\ i \in Nat /\ i >= 1 /\ i <= 2 * Shards
           /\ i <= Shards => i \in Suite!Own("semantic")
           /\ i > Shards => i \in Suite!Own("adversarial")
<1>1. i \in 1..2 * Shards
  BY SuiteAssumed DEF Suite!IInv, Suite!Types, Suite!JobsInOrder, Suite!SuiteOK
<1>2. seals[i].protocol = Suite!Jobs[i]
  BY DEF Suite!IInv, Suite!JobsInOrder
<1> QED BY <1>1, <1>2, JobsMean, SuiteAssumed DEF Suite!Own, Suite!SuiteOK

\* A protocol whose seals all approve.
LEMMA AggregateIInv == ASSUME Suite!IInv, Suite!Aggregate PROVE Suite!IInv'
<1> USE DEF Suite!IInv
<1>1. /\ phase = "aggregate" /\ \A i \in Suite!Own(Suite!Protocol) : seals[i].approved
      /\ UNCHANGED <<world, full, shard, mem, ran, out, seals, ended, raw, sealed, public, at, faults>>
  BY DEF Suite!Aggregate, Suite!AggregateOK, Suite!evidence, Suite!budget
<1>2. IF job = 2 * Shards THEN phase' = "pair" /\ job' = job ELSE phase' = "make cache" /\ job' = job + 1
  BY Zenon DEF Suite!Aggregate, Suite!Go
<1>3. job \in 1..2 * Shards /\ Shards \in Nat \ {0} /\ job \in {Shards, 2 * Shards} /\ Len(seals) = job
  BY <1>1, SuiteAssumed DEF Suite!Types, Suite!SuiteOK, Suite!JobsInOrder
<1>4. job' \in 1..2 * Shards /\ phase' \in {"pair", "make cache"} /\ ~sealed
  <2>1. job = 2 * Shards \/ job + 1 \in 1..2 * Shards
    BY <1>3
  <2>2. job' = job \/ (job # 2 * Shards /\ job' = job + 1)
    BY <1>2
  <2>3. phase' \in {"pair", "make cache"}
    BY <1>2
  <2>4. ~sealed
    BY <1>1 DEF Suite!PairIsDistinct
  <2> QED BY <1>3, <2>1, <2>2, <2>3, <2>4
<1>5. Suite!Types'
  BY <1>1, <1>4 DEF Suite!Types, Suite!Working, Suite!Closing
<1>6. Suite!JobsInOrder'
  <2>1. /\ phase' = "make cache" => Len(seals) = job' - 1
        /\ phase' = "pair" => job' = 2 * Shards /\ Len(seals) = 2 * Shards
    <3>1. /\ phase' = "make cache" => job' = job + 1
          /\ phase' = "pair" => job' = job /\ job = 2 * Shards
      BY <1>2
    <3>2. job' = job + 1 => job = job' - 1
      BY <1>3
    <3> QED BY <1>3, <3>1, <3>2
  <2> QED BY <1>1, <1>4, <2>1 DEF Suite!JobsInOrder, Suite!Preparing, Suite!Working, Suite!Closing
<1>7. Suite!OutputsAreKept' /\ Suite!RuntimeOnlyMoves' /\ Suite!PairIsDistinct' /\ Suite!PublishedInOrder'
  BY <1>1, <1>4 DEF Suite!OutputsAreKept, Suite!RuntimeOnlyMoves, Suite!PairIsDistinct, Suite!PublishedInOrder
<1>8. Suite!SurfaceOnlyMoves' /\ Suite!SealsAreReplayed'
  BY <1>1, <1>4 DEF Suite!SurfaceOnlyMoves, Suite!SealsAreReplayed, Suite!Working, Suite!Closing
<1>9. \A i \in DOMAIN seals : seals[i].approved
  <2> TAKE i \in DOMAIN seals
  <2>1. i \in 1..job
    BY <1>3 DEF Suite!Types
  <2>2. CASE job = Shards
    <3>1. i \in Suite!Own("semantic") /\ Suite!Protocol = "semantic"
      BY <1>3, <2>1, <2>2, OwnMeans, JobsMean DEF Suite!Protocol
    <3> QED BY <1>1, <3>1
  <2>3. CASE job = 2 * Shards
    <3>1. Suite!Protocol = "adversarial" /\ job > Shards
      BY <1>3, <2>3, JobsMean DEF Suite!Protocol
    <3>2. CASE i <= Shards
      BY <3>1, <3>2 DEF Suite!AggregatesApprove
    <3>3. CASE i > Shards
      BY <1>1, <3>1, <3>3, OwnMeans
    <3> QED BY <1>3, <2>1, <3>2, <3>3
  <2> QED BY <1>3, <2>2, <2>3
<1>10. Suite!AggregatesApprove'
  BY <1>1, <1>9 DEF Suite!AggregatesApprove
<1> QED BY <1>5, <1>6, <1>7, <1>8, <1>10

\* The pair, and the files it publishes.
LEMMA PairIInv == ASSUME Suite!IInv, Suite!Pair PROVE Suite!IInv'
<1> USE DEF Suite!IInv
<1>1. /\ phase = "pair" /\ phase' = "final" /\ sealed' = TRUE
      /\ \A i, j \in DOMAIN seals : seals[i].id = seals[j].id => i = j
      /\ UNCHANGED <<world, full, shard, mem, job, ran, out, seals, ended, raw, public, at, faults>>
  BY DEF Suite!Pair, Suite!PairOK, Suite!Go, Suite!evidence, Suite!budget
<1>2. Suite!Types'
  BY <1>1 DEF Suite!Types, Suite!Closing
<1>3. Suite!JobsInOrder' /\ Suite!OutputsAreKept' /\ Suite!RuntimeOnlyMoves'
  BY <1>1 DEF Suite!JobsInOrder, Suite!OutputsAreKept, Suite!RuntimeOnlyMoves,
     Suite!Preparing, Suite!Working, Suite!Closing
<1>4. Suite!SurfaceOnlyMoves' /\ Suite!SealsAreReplayed' /\ Suite!AggregatesApprove'
  BY <1>1 DEF Suite!SurfaceOnlyMoves, Suite!SealsAreReplayed, Suite!AggregatesApprove, Suite!Working, Suite!Closing
<1>5. Suite!PairIsDistinct' /\ Suite!PublishedInOrder'
  BY <1>1 DEF Suite!PairIsDistinct, Suite!PublishedInOrder
<1> QED BY <1>2, <1>3, <1>4, <1>5

\* Publication changes the public files only, and never the seals they rest on.
LEMMA ClosingIInv ==
    ASSUME Suite!IInv, phase \in {"final", "occupied", "publish"},
           phase' \in {"occupied", "publish", "done", "failed"},
           UNCHANGED <<world, full, shard, mem, job, ran, out, seals, ended, raw, sealed>>,
           public' \in [Suite!Files -> {"none", "ours", "other"}], at' \in DOMAIN Artifacts, faults' \in Nat,
           Suite!PublishedInOrder'
    PROVE  Suite!IInv'
<1> USE DEF Suite!IInv
<1>1. Suite!Types'
  BY DEF Suite!Types, Suite!Closing, Suite!Ended
<1>2. Suite!JobsInOrder' /\ Suite!OutputsAreKept' /\ Suite!RuntimeOnlyMoves'
  BY DEF Suite!JobsInOrder, Suite!OutputsAreKept, Suite!RuntimeOnlyMoves,
     Suite!Preparing, Suite!Working, Suite!Closing
<1>3. Suite!SurfaceOnlyMoves' /\ Suite!SealsAreReplayed' /\ Suite!AggregatesApprove'
  BY DEF Suite!SurfaceOnlyMoves, Suite!SealsAreReplayed, Suite!AggregatesApprove, Suite!Working, Suite!Closing
<1>4. Suite!PairIsDistinct'
  BY DEF Suite!PairIsDistinct
<1> QED BY <1>1, <1>2, <1>3, <1>4

\* One file after the other, in their order, and taken back when one fails.
LEMMA FinalIInv == ASSUME Suite!IInv, Suite!Final \/ Suite!Unoccupied PROVE Suite!IInv'
<1> USE DEF Suite!IInv
<1>1. 1 \in DOMAIN Artifacts /\ 1..1 - 1 = {}
  BY SuiteAssumed DEF Suite!SuiteOK
<1>2. CASE Suite!Final
  <2>1. /\ phase = "final" /\ phase' = "occupied"
        /\ UNCHANGED <<world, full, shard, mem, job, ran, out, seals, ended, raw, sealed, public, at, faults>>
    BY <1>2 DEF Suite!Final, Suite!Go, Suite!evidence, Suite!budget
  <2>2. Suite!PublishedInOrder'
    BY <2>1 DEF Suite!PublishedInOrder
  <2> QED BY <2>1, <2>2, ClosingIInv DEF Suite!Types
<1>3. CASE Suite!Unoccupied
  <2>1. /\ phase = "occupied" /\ phase' = "publish" /\ at' = 1 /\ \A f \in Suite!Files : public[f] = "none"
        /\ UNCHANGED <<world, full, shard, mem, job, ran, out, seals, ended, raw, sealed, public, faults>>
    BY <1>3 DEF Suite!Unoccupied, Suite!Go, Suite!evidence, Suite!budget
  <2>2. Suite!PublishedInOrder'
    BY <1>1, <2>1 DEF Suite!PublishedInOrder
  <2> QED BY <1>1, <2>1, <2>2, ClosingIInv DEF Suite!Types
<1> QED BY <1>2, <1>3

LEMMA PublishIInv == ASSUME Suite!IInv, Suite!Publish PROVE Suite!IInv'
<1> USE DEF Suite!IInv
<1> DEFINE now == Artifacts[at]
<1>1. /\ phase = "publish" /\ public' = [public EXCEPT ![now] = "ours"]
      /\ UNCHANGED <<world, full, shard, mem, job, ran, out, seals, ended, raw, sealed, faults>>
  BY DEF Suite!Publish, Suite!evidence, Suite!budget
<1>2. IF at = Len(Artifacts) THEN phase' = "done" /\ at' = at ELSE at' = at + 1 /\ phase' = phase
  BY Zenon DEF Suite!Publish, Suite!Go
<1>3. /\ Len(Artifacts) \in Nat /\ DOMAIN Artifacts = 1..Len(Artifacts) /\ at \in DOMAIN Artifacts /\ now \in Suite!Files
      /\ at' \in DOMAIN Artifacts
  BY <1>2, SuiteAssumed DEF Suite!SuiteOK, Suite!Types, Suite!Files
<1>4. public' \in [Suite!Files -> {"none", "ours", "other"}]
  BY <1>1, <1>3 DEF Suite!Types
<1>5. \A f \in Suite!Files : public'[f] = IF \E i \in 1..at : Artifacts[i] = f THEN "ours" ELSE "none"
  <2> TAKE f \in Suite!Files
  <2>1. public[f] = IF \E i \in 1..at - 1 : Artifacts[i] = f THEN "ours" ELSE "none"
    BY <1>1 DEF Suite!PublishedInOrder
  <2>2. public'[f] = IF f = now THEN "ours" ELSE public[f]
    BY <1>1, <1>3 DEF Suite!Types
  <2>3. (\E i \in 1..at : Artifacts[i] = f) <=> (f = now \/ \E i \in 1..at - 1 : Artifacts[i] = f)
    <3>1. at \in Nat /\ at >= 1
      BY <1>3
    <3>2. 1..at = 1..at - 1 \cup {at}
      BY <3>1
    <3> QED BY <3>2
  <2> QED BY <2>1, <2>2, <2>3
<1>6. sealed
  BY <1>1 DEF Suite!PublishedInOrder
<1>7. Suite!PublishedInOrder'
  <2>1. CASE at = Len(Artifacts)
    <3>1. \A f \in Suite!Files : \E i \in 1..at : Artifacts[i] = f
      BY <1>3, <2>1 DEF Suite!Files
    <3>2. \A f \in Suite!Files : public'[f] = "ours"
      BY <1>5, <3>1
    <3> QED BY <1>1, <1>2, <1>6, <2>1, <3>2 DEF Suite!PublishedInOrder
  <2>2. CASE at # Len(Artifacts)
    <3>1. at' - 1 = at /\ phase' = "publish"
      BY <1>1, <1>2, <1>3, <2>2
    <3> QED BY <1>1, <1>5, <1>6, <3>1 DEF Suite!PublishedInOrder
  <2> QED BY <2>1, <2>2
<1> HIDE DEF now
<1> QED BY <1>1, <1>2, <1>3, <1>4, <1>7, ClosingIInv DEF Suite!Types

LEMMA PublishFaultIInv == ASSUME Suite!IInv, Suite!PublishFault PROVE Suite!IInv'
<1> USE DEF Suite!IInv
<1>1. /\ phase = "publish" /\ phase' = "failed" /\ public' = Suite!Unpublished /\ faults' = faults + 1
      /\ UNCHANGED <<world, full, shard, mem, job, ran, out, seals, ended, raw, sealed, at>>
  BY DEF Suite!PublishFault, Suite!Go, Suite!evidence
<1>2. public' = [f \in Suite!Files |-> "none"]
  <2>1. \A f \in Suite!Files : public[f] = IF \E i \in 1..at - 1 : Artifacts[i] = f THEN "ours" ELSE "none"
    BY <1>1 DEF Suite!PublishedInOrder
  <2> QED BY <1>1, <2>1 DEF Suite!Unpublished
<1>3. Suite!PublishedInOrder'
  BY <1>1, <1>2 DEF Suite!PublishedInOrder
<1> QED BY <1>1, <1>2, <1>3, ClosingIInv DEF Suite!Types

\* The surroundings: versions only grow, and a cache may be anything.
LEMMA SurroundingsIInv ==
    ASSUME Suite!IInv,
           \/ \E what \in {"control", "surface", "runtime"} : Suite!Edit(what)
           \/ Suite!TamperShard
           \/ \E p \in Suite!Protocols : Suite!TamperFull(p)
    PROVE  Suite!IInv'
<1> USE DEF Suite!IInv
<1>1. UNCHANGED <<mem, phase, job, out, seals, ended, raw, sealed, public, at, faults>>
  BY DEF Suite!Edit, Suite!TamperShard, Suite!TamperFull, Suite!evidence
<1>2. /\ world' \in [control : Nat, surface : Nat, runtime : Nat]
      /\ world.surface <= world'.surface /\ world.runtime <= world'.runtime
      /\ ran' = ran \/ (phase = "running" /\ ran' = ran \cup {world'.runtime})
      /\ full' \in [Suite!Protocols -> Suite!CacheStates] /\ shard' \in Suite!CacheStates
  <2>1. world \in [control : Nat, surface : Nat, runtime : Nat]
        /\ full \in [Suite!Protocols -> Suite!CacheStates] /\ shard \in Suite!CacheStates
    BY DEF Suite!Types
  <2>2. ASSUME NEW what \in {"control", "surface", "runtime"}, Suite!Edit(what)
        PROVE  /\ world' \in [control : Nat, surface : Nat, runtime : Nat]
               /\ world.surface <= world'.surface /\ world.runtime <= world'.runtime
    <3>1. world' = [world EXCEPT ![what] = world[what] + 1]
      BY <2>2 DEF Suite!Edit
    <3> QED BY <2>1, <3>1
  <2>3. ASSUME NEW what \in {"control", "surface", "runtime"}, Suite!Edit(what)
        PROVE  /\ ran' = ran \/ (phase = "running" /\ ran' = ran \cup {world'.runtime})
               /\ full' = full /\ shard' = shard
    BY <2>3 DEF Suite!Edit
  <2>4. ASSUME Suite!TamperShard PROVE world' = world /\ ran' = ran /\ full' = full /\ shard' \in Suite!CacheStates
    BY <2>4 DEF Suite!TamperShard, Suite!Other, Suite!CacheStates
  <2>5. ASSUME NEW p \in Suite!Protocols, Suite!TamperFull(p)
        PROVE  /\ world' = world /\ ran' = ran /\ shard' = shard
               /\ full' \in [Suite!Protocols -> Suite!CacheStates]
    <3>1. world' = world /\ ran' = ran /\ shard' = shard /\ full' = [full EXCEPT ![p] = Suite!Other(full[p])]
      BY <2>5 DEF Suite!TamperFull
    <3>2. Suite!Other(full[p]) \in Suite!CacheStates
      BY DEF Suite!Other, Suite!CacheStates
    <3> QED BY <2>1, <3>1, <3>2
  <2>6. world.surface <= world.surface /\ world.runtime <= world.runtime
    BY <2>1
  <2> QED BY <2>1, <2>2, <2>3, <2>4, <2>5, <2>6
<1>3. ran' \in SUBSET Nat
  BY <1>2 DEF Suite!Types
<1>4. Suite!Types'
  BY <1>1, <1>2, <1>3 DEF Suite!Types
<1>5. Suite!RuntimeOnlyMoves'
  <2> SUFFICES ASSUME phase \in {"running", "persist", "validate"}
               PROVE  ran' # {} /\ \A r \in ran' : mem.runtime <= r /\ r <= world'.runtime
    BY <1>1 DEF Suite!RuntimeOnlyMoves
  <2>1. ran # {} /\ \A r \in ran : mem.runtime <= r /\ r <= world.runtime
    BY DEF Suite!RuntimeOnlyMoves
  <2>2. /\ world.runtime \in Nat /\ world'.runtime \in Nat /\ world.runtime <= world'.runtime
        /\ mem.runtime \in Nat /\ ran \in SUBSET Nat
    BY <1>2 DEF Suite!Types
  <2>3. mem.runtime <= world'.runtime /\ \A r \in ran : r <= world'.runtime
    <3>1. \A r \in Nat : r <= world.runtime => r <= world'.runtime
      BY <2>2
    <3>2. \A r \in ran : r \in Nat /\ r <= world'.runtime /\ mem.runtime <= r
      BY <2>1, <2>2, <3>1
    <3>3. PICK r \in ran : TRUE
      BY <2>1
    <3>4. r \in Nat /\ mem.runtime <= r /\ r <= world'.runtime
      BY <3>2
    <3>5. mem.runtime <= world'.runtime
      BY <2>2, <3>4
    <3> QED BY <3>2, <3>5
  <2>4. world'.runtime <= world'.runtime
    BY <2>2
  <2> QED BY <1>2, <2>1, <2>3, <2>4
<1>6. Suite!SurfaceOnlyMoves'
  <2>1. /\ world.surface \in Nat /\ world'.surface \in Nat
        /\ mem.snap["semantic"] \in Nat /\ mem.snap["adversarial"] \in Nat
    BY <1>2 DEF Suite!Types, Suite!Protocols
  <2>2. /\ mem.snap["semantic"] <= world.surface => mem.snap["semantic"] <= world'.surface
        /\ mem.snap["adversarial"] <= world.surface => mem.snap["adversarial"] <= world'.surface
    BY <1>2, <2>1
  <2> QED BY <1>1, <2>2 DEF Suite!SurfaceOnlyMoves
<1>7. Suite!SealsAreReplayed'
  BY <1>1, <1>2 DEF Suite!SealsAreReplayed
<1>8. Suite!JobsInOrder' /\ Suite!OutputsAreKept' /\ Suite!AggregatesApprove' /\ Suite!PairIsDistinct'
      /\ Suite!PublishedInOrder'
  BY <1>1 DEF Suite!JobsInOrder, Suite!OutputsAreKept, Suite!AggregatesApprove, Suite!PairIsDistinct,
     Suite!PublishedInOrder
<1> QED BY <1>4, <1>5, <1>6, <1>7, <1>8

\* Every step keeps the invariant.
LEMMA SuiteStep == Suite!IInv /\ [Suite!Next]_svars => Suite!IInv'
<1> SUFFICES ASSUME Suite!IInv, [Suite!Next]_svars PROVE Suite!IInv'
  OBVIOUS
<1>1. CASE Suite!Step
  BY <1>1, PrepareIInv, MakeCacheIInv, LaunchIInv, ReturnIInv, PersistIInv, ValidateIInv, ReplayIInv, AggregateIInv,
     PairIInv, FinalIInv, PublishIInv, RefuseIInv DEF Suite!Step
<1>2. CASE Suite!Next
  BY <1>1, <1>2, TimeoutIInv, PublishFaultIInv, StopsIInv, SurroundingsIInv DEF Suite!Next
<1>3. CASE UNCHANGED svars
  <2>1. Suite!Types' /\ Suite!JobsInOrder' /\ Suite!OutputsAreKept' /\ Suite!RuntimeOnlyMoves'
    BY <1>3 DEF svars, Suite!IInv, Suite!Types, Suite!JobsInOrder, Suite!OutputsAreKept, Suite!RuntimeOnlyMoves
  <2>2. Suite!SurfaceOnlyMoves' /\ Suite!SealsAreReplayed' /\ Suite!AggregatesApprove' /\ Suite!PairIsDistinct'
        /\ Suite!PublishedInOrder'
    BY <1>3 DEF svars, Suite!IInv, Suite!SurfaceOnlyMoves, Suite!SealsAreReplayed, Suite!AggregatesApprove,
       Suite!PairIsDistinct, Suite!PublishedInOrder
  <2> QED BY <2>1, <2>2 DEF Suite!IInv
<1> QED BY <1>2, <1>3

(* Type correctness, the order of the jobs and their seals, and what time   *)
(* says: versions only grow, so a process that was valid at its end ran in  *)
(* one runtime, and two snapshots that both were valid are of one surface   *)
(* (tools/execute_knowledge_review_suite.py).                               *)
THEOREM SuiteInvariant == MCSpec => []Suite!IInv
<1>1. MCInit => Suite!IInv
  BY SuiteInit DEF MCInit
<1>2. [MCNext]_mcvars => [Suite!Next]_svars
  BY DEF MCNext, mcvars, svars
<1>3. Suite!IInv /\ [MCNext]_mcvars => Suite!IInv'
  BY <1>2, SuiteStep
<1> QED BY <1>1, <1>3, PTL DEF MCSpec

\* The instance counts as FiniteSets does.
LEMMA CountedSeals == \A S : Suite!Cardinality(S) = Cardinality(S)
  BY Zenon DEF Suite!Cardinality, Cardinality

\* What the run checks of the suite follows.
LEMMA SuiteProperties ==
    Suite!IInv => /\ Suite!TypeOK /\ Suite!SealedWasRead /\ Suite!PairSharesOneSurface
                  /\ Suite!PublicationIsWhole /\ Suite!OutputIsKept
<1> SUFFICES ASSUME Suite!IInv
             PROVE  /\ Suite!TypeOK /\ Suite!SealedWasRead /\ Suite!PairSharesOneSurface
                    /\ Suite!PublicationIsWhole /\ Suite!OutputIsKept
  OBVIOUS
<1> USE DEF Suite!IInv
<1>1. Shards \in Nat /\ Len(seals) \in Nat /\ DOMAIN seals = 1..Len(seals)
  BY SuiteAssumed DEF Suite!SuiteOK, Suite!Types
<1>2. Len(seals) <= Cardinality(raw)
  <2>1. IsFiniteSet(1..2 * Shards) /\ Cardinality(1..Len(seals)) = Len(seals)
    <3>1. /\ IsFiniteSet(1..2 * Shards)
          /\ Cardinality(1..Len(seals)) = IF 1 > Len(seals) THEN 0 ELSE Len(seals) - 1 + 1
      BY <1>1, FS_Interval
    <3> QED BY <1>1, <3>1
  <2>2. IsFiniteSet(raw)
    BY <2>1, FS_Subset DEF Suite!Types
  <2>3. Cardinality(1..Len(seals)) <= Cardinality(raw)
    BY <2>2, FS_Subset DEF Suite!OutputsAreKept
  <2> QED BY <2>1, <2>3
<1>3. ASSUME sealed, NEW p \in Suite!Protocols PROVE Cardinality(Suite!Own(p)) = Shards
  <2>1. Len(seals) = 2 * Shards
    BY <1>3 DEF Suite!JobsInOrder
  <2>2. \A i \in 1..2 * Shards : seals[i].protocol = IF i <= Shards THEN "semantic" ELSE "adversarial"
    BY <1>1, <2>1, JobsMean DEF Suite!JobsInOrder
  <2>3. CASE p = "semantic"
    <3>1. Suite!Own(p) = 1..Shards
      BY <1>1, <2>1, <2>2, <2>3 DEF Suite!Own
    <3> QED BY <1>1, <2>1, <3>1, FS_Interval
  <2>4. CASE p = "adversarial"
    <3>1. Suite!Own(p) = Shards + 1..2 * Shards
      BY <1>1, <2>1, <2>2, <2>4 DEF Suite!Own
    <3>2. Cardinality(Shards + 1..2 * Shards) = 2 * Shards - (Shards + 1) + 1
      <4>1. Shards + 1 \in Int /\ 2 * Shards \in Int
        BY <1>1
      <4>2. Shards + 1 > 2 * Shards \/ ~(Shards + 1 > 2 * Shards)
        OBVIOUS
      <4>3. ~(Shards + 1 > 2 * Shards)
        BY SuiteAssumed DEF Suite!SuiteOK
      <4> QED BY <4>1, <4>3, FS_Interval
    <3> QED BY <1>1, <2>1, <3>1, <3>2
  <2> QED BY <2>3, <2>4 DEF Suite!Protocols
<1>4. Suite!TypeOK
  <2>1. /\ phase = "aggregate" => Len(seals) = job
        /\ sealed => Len(seals) = 2 * Shards
    BY DEF Suite!JobsInOrder
  <2>2. raw \subseteq ended
    BY DEF Suite!OutputsAreKept
  <2>3. /\ full \in [Suite!Protocols -> Suite!CacheStates] /\ shard \in Suite!CacheStates /\ job \in 1..2 * Shards
        /\ public \in [Suite!Files -> {"none", "ours", "other"}] /\ at \in DOMAIN Artifacts
    BY DEF Suite!Types
  <2>4. sealed => \A p \in Suite!Protocols : Cardinality(Suite!Own(p)) = Shards
    BY <1>3
  <2> QED BY Zenon, <1>2, <2>1, <2>2, <2>3, <2>4, CountedSeals DEF Suite!TypeOK
<1>5. Suite!SealedWasRead
  BY DEF Suite!SealedWasRead, Suite!AggregatesApprove, Suite!SealsAreReplayed, Suite!PairIsDistinct
<1>6. Suite!PairSharesOneSurface
  <2> SUFFICES ASSUME NEW i \in DOMAIN seals, NEW j \in DOMAIN seals
               PROVE  seals[i].surface = seals[j].surface /\ seals[i].ran = {mem.runtime}
    BY DEF Suite!PairSharesOneSurface
  <2>1. mem.snap["semantic"] = mem.snap["adversarial"]
    <3>1. seals # << >>
      BY <1>1
    <3> QED BY <3>1 DEF Suite!SurfaceOnlyMoves
  <2>2. \A k \in DOMAIN seals : seals[k].protocol \in Suite!Protocols
    <3>1. \A k \in DOMAIN seals : seals[k] \in Suite!Envelopes
      BY <1>1 DEF Suite!Types
    <3> QED BY <3>1 DEF Suite!Envelopes
  <2>3. \A k \in DOMAIN seals : mem.snap[seals[k].protocol] = mem.snap["semantic"]
    BY <2>1, <2>2 DEF Suite!Protocols
  <2> QED BY <2>3 DEF Suite!SealsAreReplayed
<1>7. Suite!PublicationIsWhole
  BY DEF Suite!PublicationIsWhole, Suite!PublishedInOrder
<1>8. Suite!OutputIsKept
  BY DEF Suite!OutputIsKept, Suite!OutputsAreKept
<1> QED BY <1>4, <1>5, <1>6, <1>7, <1>8

(* A sealed pair read all frozen pieces of one surface with one runtime, in *)
(* distinct invocations that approve, though caches are changed and changed *)
(* back; its files are published as a whole or not at all unless the        *)
(* executor dies, and what a process printed is kept before it is judged    *)
(* (SealedWasRead, PairSharesOneSurface, PublicationIsWhole, OutputIsKept). *)
THEOREM SealedIsAlwaysWhole == MCSpec => []SealedIsWhole
<1>1. Suite!IInv => SealedIsWhole
  BY SuiteProperties DEF SealedIsWhole
<1> QED BY <1>1, SuiteInvariant, PTL

-------------------------------------------------------------------------------
(* The attestation.                                                         *)

\* There are packs, in an order.
LEMMA AttestationAssumed == Packs!AttestationOK
BY ReviewAssumption

(* The passes of the two tools follow each other.                            *)
LEMMA AfterPlain ==
    ASSUME tool = "plain"
    PROVE  /\ Packs!After("freeze") = "evidence" /\ Packs!After("evidence") = "sources"
           /\ Packs!After("sources") = "read" /\ Packs!After("read") = "save"
           /\ Packs!After("replace") = "verify" /\ Packs!After("verify") = "done"
<1> DEFINE all == Packs!Passes[tool]
<1>1. Len(all) = 7 /\ DOMAIN all = 1..7
  BY DEF Packs!Passes
<1>2. /\ all[1] = "freeze" /\ all[2] = "evidence" /\ all[3] = "sources" /\ all[4] = "read"
      /\ all[5] = "save" /\ all[6] = "replace" /\ all[7] = "verify"
  BY DEF Packs!Passes
<1> HIDE DEF all
<1>3. ASSUME NEW k \in 1..7
      PROVE  (CHOOSE n \in DOMAIN all : all[n] = all[k]) = k
  <2> DEFINE c == CHOOSE n \in DOMAIN all : all[n] = all[k]
  <2>1. c \in 1..7 /\ all[c] = all[k]
    BY <1>1
  <2> HIDE DEF c
  <2>2. c = k
    BY <1>2, <2>1
  <2> QED BY <2>2 DEF c
<1>4. ASSUME NEW k \in 1..7 PROVE Packs!After(all[k]) = IF k = 7 THEN "done" ELSE all[k + 1]
  <2>1. Packs!After(all[k]) = LET i == CHOOSE n \in DOMAIN all : all[n] = all[k]
                              IN  IF i = Len(all) THEN "done" ELSE all[i + 1]
    BY Zenon DEF Packs!After, all
  <2> QED BY <1>1, <1>3, <2>1
<1> QED BY <1>2, <1>4

LEMMA AfterSuite ==
    ASSUME tool = "suite"
    PROVE  /\ Packs!After("freeze") = "evidence" /\ Packs!After("evidence") = "current"
           /\ Packs!After("current") = "sources" /\ Packs!After("sources") = "read"
           /\ Packs!After("read") = "compare" /\ Packs!After("compare") = "recheck"
           /\ Packs!After("recheck") = "save" /\ Packs!After("replace") = "exact"
           /\ Packs!After("exact") = "verify" /\ Packs!After("verify") = "done"
<1> DEFINE all == Packs!Passes[tool]
<1>1. Len(all) = 11 /\ DOMAIN all = 1..11
  BY DEF Packs!Passes
<1>2. /\ all[1] = "freeze" /\ all[2] = "evidence" /\ all[3] = "current" /\ all[4] = "sources"
      /\ all[5] = "read" /\ all[6] = "compare" /\ all[7] = "recheck" /\ all[8] = "save"
      /\ all[9] = "replace" /\ all[10] = "exact" /\ all[11] = "verify"
  BY DEF Packs!Passes
<1> HIDE DEF all
<1>3. ASSUME NEW k \in 1..11
      PROVE  (CHOOSE n \in DOMAIN all : all[n] = all[k]) = k
  <2> DEFINE c == CHOOSE n \in DOMAIN all : all[n] = all[k]
  <2>1. c \in 1..11 /\ all[c] = all[k]
    BY <1>1
  <2> HIDE DEF c
  <2>2. c = k
    BY <1>2, <2>1
  <2> QED BY <2>2 DEF c
<1>4. ASSUME NEW k \in 1..11 PROVE Packs!After(all[k]) = IF k = 11 THEN "done" ELSE all[k + 1]
  <2>1. Packs!After(all[k]) = LET i == CHOOSE n \in DOMAIN all : all[n] = all[k]
                              IN  IF i = Len(all) THEN "done" ELSE all[i + 1]
    BY Zenon DEF Packs!After, all
  <2> QED BY <1>1, <1>3, <2>1
<1> QED BY <1>2, <1>4

\* When the tool begins nothing is attested.
LEMMA AttestationInit == Packs!Init => Packs!IInv
<1> SUFFICES ASSUME Packs!Init PROVE Packs!IInv
  OBVIOUS
<1> USE AttestationAssumed DEF Packs!Init
<1>0. start \in [Packs!PackSet -> Packs!Bytes] /\ \A p \in Packs!PackSet : start[p].status = "none"
  OBVIOUS
<1>1. Packs!Types
  <2>1. snap \in [Packs!PackSet -> Surfaces]
    BY <1>0 DEF Packs!Bytes
  <2>2. 1 \in DOMAIN PackNames
    BY DEF Packs!AttestationOK
  <2> QED BY <1>0, <2>1, <2>2 DEF Packs!Types, Packs!Ended
<1>2. Packs!Control /\ Packs!EvidenceHolds /\ Packs!UpdatesAreReviewed /\ Packs!TakenBack /\ Packs!Compared
  BY DEF Packs!Control, Packs!EvidenceHolds, Packs!UpdatesAreReviewed, Packs!TakenBack, Packs!Compared,
         Packs!Written, Packs!Started
<1>3. Packs!WritesAreKnown /\ Packs!NothingYet /\ Packs!OriginalsAreOld /\ Packs!FailureLeavesNothing
  BY <1>0 DEF Packs!WritesAreKnown, Packs!NothingYet, Packs!OriginalsAreOld, Packs!FailureLeavesNothing, Packs!Written
<1> QED BY <1>1, <1>2, <1>3 DEF Packs!IInv

(* The packs a pass has gone over.                                           *)
LEMMA BeforeGrows ==
    /\ Packs!Before(1) = {}
    /\ \A n \in DOMAIN PackNames : Packs!Before(n + 1) = Packs!Before(n) \cup {PackNames[n]}
    /\ Packs!Before(Len(PackNames) + 1) = Packs!PackSet
    /\ 1 \in DOMAIN PackNames
    /\ \A n \in DOMAIN PackNames : n # Len(PackNames) => n + 1 \in DOMAIN PackNames
    /\ \A n \in DOMAIN PackNames : PackNames[n] \in Packs!PackSet
BY AttestationAssumed DEF Packs!Before, Packs!PackSet, Packs!AttestationOK

\* Where a pass that failed leads.
LEMMA FailureLeads ==
    ASSUME Packs!Control
    PROVE  /\ Packs!Failure \in {"recover", "undo", "failed"}
           /\ Packs!Failure = "recover" => aphase = "replace"
           /\ Packs!Failure = "undo" => ~undo /\ tool = "suite" /\ aphase \in {"save", "replace", "recover", "exact", "verify"}
           /\ Packs!Failure = "failed" =>
                \/ undo \/ tool # "suite" \/ aphase \notin {"save", "replace", "recover", "exact", "verify"}
BY DEF Packs!Failure

\* A failed pass writes nothing: it leads to where its work is taken back.
LEMMA FailIInv ==
    ASSUME Packs!IInv, Packs!Fail, aphase \notin {"undo", "done", "failed", "crashed"}
    PROVE  Packs!IInv'
<1> USE DEF Packs!IInv
<1>1. /\ aphase' = Packs!Failure /\ aat' = 1
      /\ undo' = (undo /\ Packs!Failure # "failed")
      /\ UNCHANGED <<tool, review, start, disk, writer, snap, original, update, saved, replaced, aedits, touched>>
  BY DEF Packs!Fail, Packs!fixed, Packs!memory
<1>2. broken \/ undo => broken'
  BY DEF Packs!Fail
<1>3. /\ aphase' \in {"recover", "undo", "failed"}
      /\ aphase' = "recover" => aphase = "replace"
      /\ aphase' = "undo" => ~undo /\ tool = "suite" /\ aphase \in {"save", "replace", "recover", "exact", "verify"}
      /\ aphase' = "failed" =>
           undo \/ tool # "suite" \/ aphase \notin {"save", "replace", "recover", "exact", "verify"}
  BY <1>1, FailureLeads
<1>4. broken' \in BOOLEAN /\ undo' \in BOOLEAN
  BY <1>1 DEF Packs!Fail
<1>5. Packs!Types'
  BY <1>1, <1>3, <1>4, BeforeGrows DEF Packs!Types, Packs!Ended, Packs!PackSet, Packs!Bytes
<1>6. Packs!Control'
  <2>1. undo' => undo
    BY <1>1
  <2> QED BY <1>1, <1>3, <2>1 DEF Packs!Control, Packs!Types
<1>7. Packs!EvidenceHolds'
  BY <1>1, <1>3 DEF Packs!EvidenceHolds, Packs!EvidenceOK, Packs!Written
<1>8. Packs!UpdatesAreReviewed'
  <2>1. \A p : Packs!IsUpdate(p)' = Packs!IsUpdate(p)
    BY <1>1 DEF Packs!IsUpdate, Packs!Attested
  <2> QED BY <1>1, <1>3, <2>1 DEF Packs!UpdatesAreReviewed, Packs!Started, Packs!Written
<1>9. Packs!WritesAreKnown' /\ Packs!OriginalsAreOld'
  BY <1>1 DEF Packs!WritesAreKnown, Packs!OriginalsAreOld
<1>10. Packs!NothingYet' /\ Packs!Compared'
  BY <1>3 DEF Packs!NothingYet, Packs!Compared, Packs!Untouched
<1>11. Packs!TakenBack'
  BY <1>1, <1>3, BeforeGrows DEF Packs!TakenBack
<1>12. Packs!FailureLeavesNothing'
  <2> SUFFICES ASSUME aphase' = "failed", tool = "suite", ~broken'
               PROVE  /\ \A p \in Packs!PackSet : disk[p].status = "none"
                      /\ aedits = 0 => disk = start
    BY <1>1 DEF Packs!FailureLeavesNothing
  <2>1. aphase \in Packs!Untouched
    BY <1>2, <1>3 DEF Packs!Untouched, Packs!Types, Packs!Ended
  <2> QED BY <2>1 DEF Packs!NothingYet
<1> QED BY <1>5, <1>6, <1>7, <1>8, <1>9, <1>10, <1>11, <1>12

\* The tool stops where it is.
LEMMA CrashIInv == ASSUME Packs!IInv, Packs!Crash PROVE Packs!IInv'
<1> USE DEF Packs!IInv
<1>1. /\ aphase' = "crashed"
      /\ UNCHANGED <<tool, review, start, disk, writer, snap, original, update, saved, replaced, aedits, touched,
                     aat, undo, broken>>
  BY DEF Packs!Crash, Packs!fixed, Packs!memory
<1>2. Packs!Types' /\ Packs!Control'
  BY <1>1 DEF Packs!Types, Packs!Control, Packs!Ended
<1>3. Packs!EvidenceHolds'
  BY <1>1 DEF Packs!EvidenceHolds, Packs!EvidenceOK, Packs!Written
<1>4. Packs!UpdatesAreReviewed'
  <2>1. \A p : Packs!IsUpdate(p)' = Packs!IsUpdate(p)
    BY <1>1 DEF Packs!IsUpdate, Packs!Attested
  <2> QED BY <1>1, <2>1 DEF Packs!UpdatesAreReviewed, Packs!Started, Packs!Written
<1>5. Packs!WritesAreKnown' /\ Packs!OriginalsAreOld'
  BY <1>1 DEF Packs!WritesAreKnown, Packs!OriginalsAreOld
<1>6. Packs!NothingYet' /\ Packs!Compared' /\ Packs!TakenBack' /\ Packs!FailureLeavesNothing'
  BY <1>1 DEF Packs!NothingYet, Packs!Compared, Packs!Untouched, Packs!TakenBack, Packs!FailureLeavesNothing
<1> QED BY <1>2, <1>3, <1>4, <1>5, <1>6

\* Someone writes a pack.
LEMMA EditIInv ==
    ASSUME Packs!IInv, NEW p \in Packs!PackSet, NEW b \in Packs!Bytes, Packs!Edit(p, b)
    PROVE  Packs!IInv'
<1> USE DEF Packs!IInv
<1>1. /\ aphase \notin Packs!Ended /\ (b.status = "attested" => disk[p].status = "attested")
      /\ disk' = [disk EXCEPT ![p] = b] /\ writer' = [writer EXCEPT ![p] = "editor"]
      /\ aedits' = aedits + 1 /\ touched' = TRUE
      /\ UNCHANGED <<tool, review, start, aphase, aat, snap, original, update, saved, replaced, undo, broken>>
  BY DEF Packs!Edit, Packs!fixed, Packs!memory
<1>2. aedits' \in Nat /\ aedits' # 0
  BY <1>1 DEF Packs!Types
<1>3. /\ \A q \in Packs!PackSet : q # p => disk'[q] = disk[q] /\ writer'[q] = writer[q]
      /\ disk'[p] = b /\ writer'[p] = "editor"
  BY <1>1 DEF Packs!Types
<1>4. \A q \in Packs!PackSet : disk[q].status = "none" => disk'[q].status = "none"
  <2>1. b.status \in {"none", "attested"}
    BY DEF Packs!Bytes
  <2> QED BY <1>1, <1>3, <2>1
<1>5. Packs!Types'
  BY <1>1, <1>2 DEF Packs!Types
<1>6. Packs!Written => Packs!Written'
  BY <1>1 DEF Packs!Written
<1>7. Packs!Control' /\ Packs!EvidenceHolds'
  BY <1>1, <1>6 DEF Packs!Control, Packs!EvidenceHolds, Packs!EvidenceOK
<1>8. Packs!UpdatesAreReviewed'
  <2>1. \A q : Packs!IsUpdate(q)' = Packs!IsUpdate(q)
    BY <1>1 DEF Packs!IsUpdate, Packs!Attested
  <2> QED BY <1>1, <1>6, <2>1 DEF Packs!UpdatesAreReviewed
<1>9. Packs!WritesAreKnown' /\ Packs!OriginalsAreOld'
  BY <1>1, <1>2, <1>3 DEF Packs!WritesAreKnown, Packs!OriginalsAreOld
<1>10. Packs!NothingYet'
  BY <1>1, <1>2, <1>4, <1>6 DEF Packs!NothingYet
<1>11. Packs!TakenBack'
  <2>1. Packs!Before(aat) \subseteq Packs!PackSet
    <3>1. aat \in 1..Len(PackNames) /\ DOMAIN PackNames = 1..Len(PackNames) /\ Len(PackNames) \in Nat
      BY AttestationAssumed DEF Packs!AttestationOK, Packs!Types
    <3> QED BY <3>1 DEF Packs!Before, Packs!PackSet
  <2> QED BY <1>1, <1>2, <1>4, <2>1 DEF Packs!TakenBack
<1>12. Packs!Compared' /\ Packs!FailureLeavesNothing'
  BY <1>1 DEF Packs!Compared, Packs!FailureLeavesNothing, Packs!Ended
<1> QED BY <1>5, <1>7, <1>8, <1>9, <1>10, <1>11, <1>12

(* What a pass does next.                                                    *)
LEMMA NextPass ==
    ASSUME Packs!IInv, Packs!Inspect
    PROVE  LET N == IF aphase = "save" THEN "replace" ELSE Packs!After(aphase) IN
           /\ tool = "plain" => \/ aphase = "freeze" /\ N = "evidence"
                                \/ aphase = "evidence" /\ N = "sources"
                                \/ aphase = "sources" /\ N = "read"
                                \/ aphase = "read" /\ N = "save"
                                \/ aphase = "save" /\ N = "replace"
                                \/ aphase = "verify" /\ N = "done"
           /\ tool = "suite" => \/ aphase = "freeze" /\ N = "evidence"
                                \/ aphase = "evidence" /\ N = "current"
                                \/ aphase = "current" /\ N = "sources"
                                \/ aphase = "sources" /\ N = "read"
                                \/ aphase = "read" /\ N = "compare"
                                \/ aphase = "compare" /\ N = "recheck"
                                \/ aphase = "recheck" /\ N = "save"
                                \/ aphase = "save" /\ N = "replace"
                                \/ aphase = "exact" /\ N = "verify"
                                \/ aphase = "verify" /\ N = "done"
<1>1. aphase \in {"freeze", "evidence", "current", "sources", "read", "compare", "recheck", "save", "exact", "verify"}
  BY DEF Packs!Inspect
<1>2. tool = "plain" => aphase \notin {"current", "compare", "recheck", "exact"}
  BY DEF Packs!IInv, Packs!Control
<1> QED BY <1>1, <1>2, AfterPlain, AfterSuite

\* A pass that reads one pack: what it accepts holds of this pack, and of all once it ends.
LEMMA InspectIInv == ASSUME Packs!IInv, Packs!Inspect PROVE Packs!IInv'
<1> USE DEF Packs!IInv
<1> DEFINE N == IF aphase = "save" THEN "replace" ELSE Packs!After(aphase)
           now == PackNames[aat]
           last == aat = Len(PackNames)
<1>1. /\ UNCHANGED <<tool, review, start, disk, writer, replaced, undo, broken, aedits, touched>>
      /\ snap' = IF aphase = "freeze" THEN [snap EXCEPT ![now] = disk[now].surface] ELSE snap
      /\ original' = IF aphase = "read" THEN [original EXCEPT ![now] = disk[now]] ELSE original
      /\ update' = IF aphase = "read" THEN [update EXCEPT ![now] = Packs!Attested(disk[now])] ELSE update
      /\ saved' = IF aphase = "save" THEN [saved EXCEPT ![now] = disk[now]] ELSE saved
      /\ Packs!Demand(disk[now])
      /\ aphase \in {"freeze", "evidence", "current", "sources", "read", "compare", "recheck", "save", "exact", "verify"}
  BY DEF Packs!Inspect, Packs!fixed, Packs!Now
<1>2. IF last THEN aat' = 1 /\ aphase' = N ELSE aat' = aat + 1 /\ aphase' = aphase
  BY Zenon DEF Packs!Inspect, Packs!Advance
<1>3. \/ tool = "plain" /\ \/ aphase = "freeze" /\ N = "evidence"
                           \/ aphase = "evidence" /\ N = "sources"
                           \/ aphase = "sources" /\ N = "read"
                           \/ aphase = "read" /\ N = "save"
                           \/ aphase = "save" /\ N = "replace"
                           \/ aphase = "verify" /\ N = "done"
      \/ tool = "suite" /\ \/ aphase = "freeze" /\ N = "evidence"
                           \/ aphase = "evidence" /\ N = "current"
                           \/ aphase = "current" /\ N = "sources"
                           \/ aphase = "sources" /\ N = "read"
                           \/ aphase = "read" /\ N = "compare"
                           \/ aphase = "compare" /\ N = "recheck"
                           \/ aphase = "recheck" /\ N = "save"
                           \/ aphase = "save" /\ N = "replace"
                           \/ aphase = "exact" /\ N = "verify"
                           \/ aphase = "verify" /\ N = "done"
  BY NextPass DEF Packs!Types, Packs!Kinds
<1> HIDE DEF N
<1>4. /\ aat \in DOMAIN PackNames /\ now \in Packs!PackSet /\ disk[now] \in Packs!Bytes
      /\ aat' \in DOMAIN PackNames
      /\ ~last => Packs!Before(aat') = Packs!Before(aat) \cup {now}
      /\ last => Packs!Before(aat') = {} /\ Packs!PackSet = Packs!Before(aat) \cup {now}
  BY <1>2, BeforeGrows DEF Packs!Types
<1>5. disk[now].surface \in Surfaces /\ disk[now].status \in {"none", "attested"}
      /\ Packs!Attested(disk[now]) \in Packs!Bytes
  BY <1>4 DEF Packs!Bytes, Packs!Attested
<1> HIDE DEF now
<1>6. Packs!Types'
  <2>1. snap' \in [Packs!PackSet -> Surfaces] /\ original' \in [Packs!PackSet -> Packs!Bytes]
        /\ update' \in [Packs!PackSet -> Packs!Bytes] /\ saved' \in [Packs!PackSet -> Packs!Bytes]
    BY <1>1, <1>4, <1>5 DEF Packs!Types
  <2>2. aphase' = aphase \/ aphase' = N
    BY <1>2
  <2> QED BY <1>1, <1>3, <1>4, <2>1, <2>2 DEF Packs!Types, Packs!Ended
<1>7. aphase \in Packs!Untouched => Packs!Written /\ Packs!Written'
  BY <1>1 DEF Packs!NothingYet, Packs!Written
<1>8. Packs!Control'
  BY <1>1, <1>2, <1>3, <1>4 DEF Packs!Control
<1>9. Packs!EvidenceHolds'
  <2>1. CASE aphase = "freeze"
    BY <1>2, <1>3, <1>7, <2>1 DEF Packs!EvidenceHolds, Packs!Untouched
  <2>2. CASE aphase # "freeze"
    <3>1. Packs!EvidenceOK' = Packs!EvidenceOK
      BY <1>1, <2>2 DEF Packs!EvidenceOK
    <3>2. aphase = "evidence" => Packs!EvidenceOK
      BY <1>1 DEF Packs!Demand
    <3> QED BY <1>1, <1>2, <1>3, <2>2, <3>1, <3>2 DEF Packs!EvidenceHolds, Packs!Written
  <2> QED BY <2>1, <2>2
<1>10. Packs!UpdatesAreReviewed'
  <2>1. CASE aphase = "read"
    <3>1. tool = "suite" => disk[now].surface = snap[now]
      BY <1>1, <2>1 DEF Packs!Demand, Packs!ReadOK, Packs!Now, now
    <3>2. /\ original'[now] = disk[now] /\ update'[now] = Packs!Attested(disk[now]) /\ snap' = snap
          /\ \A p \in Packs!PackSet : p # now => original'[p] = original[p] /\ update'[p] = update[p]
      BY <1>1, <1>4, <2>1 DEF Packs!Types
    <3> PICK q \in Packs!PackSet : q = now
      BY <1>4
    <3>3. Packs!IsUpdate(q)'
      BY <1>1, <3>1, <3>2 DEF Packs!IsUpdate
    <3>4. \A p \in Packs!PackSet : p \in Packs!Before(aat) => Packs!IsUpdate(p)'
      <4>1. \A p \in Packs!Before(aat) : Packs!IsUpdate(p)
        BY <2>1 DEF Packs!UpdatesAreReviewed
      <4> TAKE p \in Packs!PackSet
      <4>2. p = q => Packs!IsUpdate(p)'
        BY <3>3
      <4>3. p # now /\ p \in Packs!Before(aat) => Packs!IsUpdate(p)'
        BY <1>1, <3>2, <4>1 DEF Packs!IsUpdate, Packs!Attested
      <4> QED BY <4>2, <4>3
    <3>5. Packs!Before(aat) \subseteq Packs!PackSet
      <4>1. aat \in 1..Len(PackNames) /\ DOMAIN PackNames = 1..Len(PackNames) /\ Len(PackNames) \in Nat
        BY <1>4, AttestationAssumed DEF Packs!AttestationOK
      <4> QED BY <4>1 DEF Packs!Before, Packs!PackSet
    <3>6. Packs!Written'
      BY <1>7, <2>1 DEF Packs!Untouched
    <3>7. CASE last
      <4>1. \A p \in Packs!PackSet : Packs!IsUpdate(p)'
        BY <1>4, <3>3, <3>4, <3>7
      <4> QED BY <1>2, <1>3, <2>1, <3>7, <4>1 DEF Packs!UpdatesAreReviewed
    <3>8. CASE ~last
      <4>1. \A p \in Packs!PackSet : p \in Packs!Before(aat) \cup {q} => Packs!IsUpdate(p)'
        BY <3>3, <3>4
      <4>2. \A p \in Packs!Before(aat') : p \in Packs!Before(aat) \cup {q} /\ p \in Packs!PackSet
        BY <1>4, <3>5, <3>8
      <4>3. \A p \in Packs!Before(aat') : Packs!IsUpdate(p)'
        BY <4>1, <4>2
      <4>4. aphase' = "read"
        BY <1>2, <2>1, <3>8
      <4> QED BY <3>6, <4>3, <4>4 DEF Packs!UpdatesAreReviewed
    <3> QED BY <3>7, <3>8
  <2>2. CASE aphase # "read"
    <3>1. CASE aphase = "freeze"
      BY <1>2, <1>3, <1>7, <3>1 DEF Packs!UpdatesAreReviewed, Packs!Untouched, Packs!Started
    <3>2. CASE aphase # "freeze"
      <4>1. \A p : Packs!IsUpdate(p)' = Packs!IsUpdate(p)
        BY <1>1, <2>2, <3>2 DEF Packs!IsUpdate, Packs!Attested
      <4> QED BY <1>1, <1>2, <1>3, <1>4, <1>7, <2>2, <3>2, <4>1
              DEF Packs!UpdatesAreReviewed, Packs!Untouched, Packs!Started, Packs!Written
    <3> QED BY <3>1, <3>2
  <2> QED BY <2>1, <2>2
<1>11. Packs!WritesAreKnown'
  <2>1. CASE aphase = "read"
    BY <1>7, <2>1 DEF Packs!WritesAreKnown, Packs!Untouched, Packs!Written
  <2>2. CASE aphase # "read"
    BY <1>1, <2>2 DEF Packs!WritesAreKnown
  <2> QED BY <2>1, <2>2
<1>12. Packs!NothingYet'
  BY <1>1, <1>2, <1>3 DEF Packs!NothingYet, Packs!Untouched, Packs!Written, Packs!Control
<1>13. Packs!OriginalsAreOld'
  <2>1. CASE aphase = "read"
    <3>1. disk[now].status = "none" /\ (aedits = 0 => disk[now] = start[now])
      BY <1>4, <2>1 DEF Packs!NothingYet, Packs!Untouched
    <3>2. original' = [original EXCEPT ![now] = disk[now]]
      BY <1>1, <2>1
    <3> QED BY <1>1, <1>4, <3>1, <3>2 DEF Packs!OriginalsAreOld, Packs!Types
  <2>2. CASE aphase # "read"
    BY <1>1, <2>2 DEF Packs!OriginalsAreOld
  <2> QED BY <2>1, <2>2
<1>14. Packs!TakenBack'
  BY <1>1, <1>2, <1>3, <1>4 DEF Packs!TakenBack
<1>15. Packs!Compared'
  <2>1. aphase = "exact" => disk[now] = update[now]
    BY <1>1 DEF Packs!Demand, now, Packs!Now
  <2>2. aphase = "verify" => disk[now].surface = snap[now]
    BY <1>1 DEF Packs!Demand, now, Packs!Now
  <2>3. aphase \in {"exact", "verify"} => snap' = snap /\ update' = update
    BY <1>1
  <2>4. aphase' \in {"exact", "verify", "done"} => aphase \in {"exact", "verify"}
    BY <1>2, <1>3
  <2> SUFFICES ASSUME ~touched, aphase \in {"exact", "verify"}
               PROVE  Packs!Compared'
    BY <1>1, <2>4 DEF Packs!Compared
  <2>5. CASE aphase = "exact"
    BY <1>1, <1>2, <1>3, <1>4, <2>1, <2>3, <2>5 DEF Packs!Compared
  <2>6. CASE aphase = "verify"
    BY <1>1, <1>2, <1>3, <1>4, <2>2, <2>3, <2>6 DEF Packs!Compared
  <2> QED BY <2>5, <2>6
<1>16. Packs!FailureLeavesNothing'
  BY <1>1, <1>2, <1>3 DEF Packs!FailureLeavesNothing
<1> QED BY <1>6, <1>8, <1>9, <1>10, <1>11, <1>12, <1>13, <1>14, <1>15, <1>16

\* What a pass writes is a whole pack: the update, or the original it takes back.
LEMMA ReplaceIInv == ASSUME Packs!IInv, Packs!Replace PROVE Packs!IInv'
<1> USE DEF Packs!IInv
<1> DEFINE now == PackNames[aat]
           last == aat = Len(PackNames)
           N == IF undo THEN "failed" ELSE Packs!After("replace")
           new == Packs!Goal[now]
<1>1. /\ aphase = "replace"
      /\ disk' = [disk EXCEPT ![now] = new] /\ writer' = [writer EXCEPT ![now] = "tool"]
      /\ replaced' = replaced \cup {now}
      /\ touched' = IF last THEN FALSE ELSE touched
      /\ UNCHANGED <<tool, review, start, snap, original, update, saved, undo, broken, aedits>>
  BY DEF Packs!Replace, Packs!fixed, Packs!memory, Packs!Now
<1>2. IF last THEN aat' = 1 /\ aphase' = N ELSE aat' = aat + 1 /\ aphase' = aphase
  BY Zenon DEF Packs!Replace, Packs!Advance
<1>3. /\ undo => N = "failed" /\ tool = "suite"
      /\ ~undo /\ tool = "suite" => N = "exact"
      /\ ~undo /\ tool = "plain" => N = "verify"
      /\ tool \in {"plain", "suite"}
  BY AfterPlain, AfterSuite DEF Packs!Types, Packs!Kinds, Packs!Control
<1> HIDE DEF N
<1>4. /\ aat \in DOMAIN PackNames /\ now \in Packs!PackSet
      /\ aat' \in DOMAIN PackNames
      /\ ~last => Packs!Before(aat') = Packs!Before(aat) \cup {now}
      /\ last => Packs!Before(aat') = {} /\ Packs!PackSet = Packs!Before(aat) \cup {now}
  BY <1>2, BeforeGrows DEF Packs!Types
<1>5. new \in Packs!Bytes /\ new \in {original[now], update[now]} /\ (undo => new = original[now]) /\ (~undo => new = update[now])
  BY <1>4 DEF Packs!Goal, Packs!Types
<1> HIDE DEF now, new
<1>6. /\ \A p \in Packs!PackSet : p # now => disk'[p] = disk[p] /\ writer'[p] = writer[p]
      /\ disk'[now] = new /\ writer'[now] = "tool"
  BY <1>1, <1>4 DEF Packs!Types
<1>7. aphase' \in {"replace", "failed", "exact", "verify"} /\ aphase' = (IF last THEN N ELSE "replace")
  BY <1>1, <1>2, <1>3
<1>8. Packs!Types'
  <2>1. disk' \in [Packs!PackSet -> Packs!Bytes] /\ writer' \in [Packs!PackSet -> {"tool", "editor"}]
    BY <1>1, <1>4, <1>5 DEF Packs!Types
  <2> QED BY <1>1, <1>4, <1>7, <2>1 DEF Packs!Types, Packs!Ended
<1>9. Packs!Control'
  <2>1. Packs!Before(aat) \subseteq replaced
    BY <1>1 DEF Packs!Control
  <2>2. replaced \subseteq Packs!PackSet
    BY DEF Packs!Types
  <2> QED BY <1>1, <1>3, <1>4, <1>7, <2>1, <2>2 DEF Packs!Control
<1>10. Packs!EvidenceHolds'
  BY <1>1, <1>7 DEF Packs!EvidenceHolds, Packs!EvidenceOK
<1>11. Packs!UpdatesAreReviewed' /\ \A p \in Packs!PackSet : Packs!IsUpdate(p)
  <2>1. \A p : Packs!IsUpdate(p)' = Packs!IsUpdate(p)
    BY <1>1 DEF Packs!IsUpdate, Packs!Attested
  <2>2. \A p \in Packs!PackSet : Packs!IsUpdate(p)
    BY <1>1 DEF Packs!UpdatesAreReviewed, Packs!Started
  <2> QED BY <1>7, <2>1, <2>2 DEF Packs!UpdatesAreReviewed
<1>12. Packs!WritesAreKnown'
  BY <1>1, <1>5, <1>6 DEF Packs!WritesAreKnown
<1>13. Packs!NothingYet'
  BY <1>7 DEF Packs!NothingYet, Packs!Untouched
<1>14. Packs!OriginalsAreOld'
  BY <1>1 DEF Packs!OriginalsAreOld
<1>15. undo => /\ disk'[now].status = "none" /\ (aedits = 0 => disk'[now] = original[now])
  BY <1>4, <1>5, <1>6 DEF Packs!OriginalsAreOld
<1>16. undo => \A p \in Packs!Before(aat) \cup {now} : p \in Packs!PackSet =>
                 disk'[p].status = "none" /\ (aedits = 0 => disk'[p] = original[p])
  <2> SUFFICES ASSUME undo, NEW p \in Packs!PackSet, p \in Packs!Before(aat) \cup {now}
               PROVE  disk'[p].status = "none" /\ (aedits = 0 => disk'[p] = original[p])
    OBVIOUS
  <2>1. CASE p = now
    BY <1>15, <2>1
  <2>2. CASE p # now
    BY <1>1, <1>3, <1>6, <2>2 DEF Packs!TakenBack
  <2> QED BY <2>1, <2>2
<1>17. Packs!TakenBack'
  <2> SUFFICES ASSUME undo, ~last
               PROVE  \A p \in Packs!Before(aat') :
                         disk'[p].status = "none" /\ (aedits = 0 => disk'[p] = original[p])
    BY <1>1, <1>4, <1>7 DEF Packs!TakenBack
  <2>1. Packs!Before(aat') \subseteq Packs!PackSet
    <3>1. aat' \in 1..Len(PackNames) /\ DOMAIN PackNames = 1..Len(PackNames) /\ Len(PackNames) \in Nat
      BY <1>4, AttestationAssumed DEF Packs!AttestationOK
    <3> QED BY <3>1 DEF Packs!Before, Packs!PackSet
  <2> QED BY <1>4, <1>16, <2>1
<1>18. Packs!Compared'
  <2>1. CASE aphase' = "verify"
    <3>1. tool = "plain" /\ last
      BY <1>3, <1>7, <2>1
    <3> QED BY <1>1, <1>4, <2>1, <3>1 DEF Packs!Compared
  <2>2. CASE aphase' = "exact"
    <3>1. last
      BY <1>7, <2>2
    <3> QED BY <1>1, <1>4, <2>2, <3>1 DEF Packs!Compared
  <2> QED BY <1>7, <2>1, <2>2 DEF Packs!Compared
<1>19. Packs!FailureLeavesNothing'
  <2> SUFFICES ASSUME aphase' = "failed"
               PROVE  /\ \A p \in Packs!PackSet : disk'[p].status = "none"
                      /\ aedits = 0 => disk' = start
    BY <1>1 DEF Packs!FailureLeavesNothing
  <2>1. last /\ undo
    BY <1>3, <1>7
  <2>2. \A p \in Packs!PackSet : disk'[p].status = "none" /\ (aedits = 0 => disk'[p] = original[p])
    BY <1>4, <1>16, <2>1
  <2>3. ASSUME aedits = 0 PROVE disk' = start
    <3>1. original = start
      BY <2>3 DEF Packs!OriginalsAreOld
    <3>2. \A p \in Packs!PackSet : disk'[p] = start[p]
      BY <2>2, <2>3, <3>1
    <3>3. disk' \in [Packs!PackSet -> Packs!Bytes] /\ start \in [Packs!PackSet -> Packs!Bytes]
      BY <1>8 DEF Packs!Types
    <3> QED BY <3>2, <3>3
  <2> QED BY <2>2, <2>3
<1> QED BY <1>8, <1>9, <1>10, <1>11, <1>12, <1>13, <1>14, <1>17, <1>18, <1>19

\* A replacement that failed puts back the bytes it had saved.
LEMMA RecoverIInv == ASSUME Packs!IInv, Packs!Recover PROVE Packs!IInv'
<1> USE DEF Packs!IInv
<1> DEFINE now == PackNames[aat]
           last == aat = Len(PackNames)
<1>1. /\ aphase = "recover"
      /\ disk' = (IF now \in replaced THEN [disk EXCEPT ![now] = saved[now]] ELSE disk)
      /\ writer' = (IF now \in replaced
                    THEN [writer EXCEPT ![now] =
                           IF saved[now] \in {original[now], update[now]} THEN "tool" ELSE "editor"]
                    ELSE writer)
      /\ broken' = (broken \/ undo)
      /\ UNCHANGED <<tool, review, start, snap, original, update, saved, replaced, undo, aedits, touched>>
  BY DEF Packs!Recover, Packs!fixed, Packs!memory, Packs!Now
<1>2. IF last THEN aat' = 1 /\ aphase' = Packs!Failure ELSE aat' = aat + 1 /\ aphase' = aphase
  BY Zenon DEF Packs!Recover, Packs!Advance
<1>3. /\ aphase' \in {"recover", "undo", "failed"} /\ (aphase' = "undo" => last /\ ~undo /\ tool = "suite")
      /\ aphase' = "failed" => undo \/ tool # "suite"
  BY <1>1, <1>2, FailureLeads
<1>4. /\ aat \in DOMAIN PackNames /\ now \in Packs!PackSet
      /\ aat' \in DOMAIN PackNames /\ (last => Packs!Before(aat') = {})
  BY <1>2, BeforeGrows DEF Packs!Types
<1> HIDE DEF now
<1>5. saved[now] \in Packs!Bytes
  BY <1>4 DEF Packs!Types
<1>6. disk' \in [Packs!PackSet -> Packs!Bytes] /\ writer' \in [Packs!PackSet -> {"tool", "editor"}]
  BY <1>1, <1>4, <1>5 DEF Packs!Types
<1>7. Packs!Types'
  BY <1>1, <1>3, <1>4, <1>6 DEF Packs!Types, Packs!Ended
<1>8. Packs!Control'
  BY <1>1, <1>3 DEF Packs!Control, Packs!Types, Packs!Kinds
<1>9. Packs!EvidenceHolds'
  BY <1>1 DEF Packs!EvidenceHolds, Packs!EvidenceOK
<1>10. Packs!UpdatesAreReviewed'
  <2>1. \A p : Packs!IsUpdate(p)' = Packs!IsUpdate(p)
    BY <1>1 DEF Packs!IsUpdate, Packs!Attested
  <2>2. \A p \in Packs!PackSet : Packs!IsUpdate(p)
    BY <1>1 DEF Packs!UpdatesAreReviewed, Packs!Started
  <2> QED BY <1>3, <2>1, <2>2 DEF Packs!UpdatesAreReviewed
<1>11. Packs!WritesAreKnown'
  <2>1. CASE now \in replaced
    <3>1. /\ \A p \in Packs!PackSet : p # now => disk'[p] = disk[p] /\ writer'[p] = writer[p]
          /\ disk'[now] = saved[now]
          /\ writer'[now] = IF saved[now] \in {original[now], update[now]} THEN "tool" ELSE "editor"
      BY <1>1, <1>4, <2>1 DEF Packs!Types
    <3> QED BY <1>1, <3>1 DEF Packs!WritesAreKnown
  <2>2. CASE now \notin replaced
    BY <1>1, <2>2 DEF Packs!WritesAreKnown
  <2> QED BY <2>1, <2>2
<1>12. Packs!NothingYet' /\ Packs!Compared'
  BY <1>3 DEF Packs!NothingYet, Packs!Untouched, Packs!Compared
<1>13. Packs!OriginalsAreOld'
  BY <1>1 DEF Packs!OriginalsAreOld
<1>14. Packs!TakenBack'
  BY <1>3, <1>4 DEF Packs!TakenBack
<1>15. Packs!FailureLeavesNothing'
  BY <1>1, <1>3 DEF Packs!FailureLeavesNothing
<1> QED BY <1>7, <1>8, <1>9, <1>10, <1>11, <1>12, <1>13, <1>14, <1>15

\* The suite's tool looks whether anything is left to take back.
LEMMA UndoIInv == ASSUME Packs!IInv, Packs!Undo PROVE Packs!IInv'
<1> USE DEF Packs!IInv
<1> DEFINE now == PackNames[aat]
           last == aat = Len(PackNames)
           left == disk[now] # original[now]
<1>1. /\ aphase = "undo"
      /\ UNCHANGED <<tool, review, start, disk, writer, snap, original, update, saved, broken, aedits, touched>>
  BY DEF Packs!Undo, Packs!fixed, Packs!memory
<1>2. /\ left => aphase' = "save" /\ aat' = 1 /\ undo' = TRUE /\ replaced' = {}
      /\ ~left => /\ undo' = undo /\ replaced' = replaced
                  /\ IF last THEN aat' = 1 /\ aphase' = "failed" ELSE aat' = aat + 1 /\ aphase' = aphase
  BY Zenon DEF Packs!Undo, Packs!Advance, Packs!Now
<1>3. /\ aat \in DOMAIN PackNames /\ now \in Packs!PackSet /\ 1 \in DOMAIN PackNames
      /\ ~left /\ ~last => aat' \in DOMAIN PackNames /\ Packs!Before(aat') = Packs!Before(aat) \cup {now}
      /\ last => Packs!PackSet = Packs!Before(aat) \cup {now}
  BY <1>2, BeforeGrows DEF Packs!Types
<1>4. aphase' \in {"save", "failed", "undo"} /\ tool = "suite" /\ ~undo
  BY <1>1, <1>2 DEF Packs!Control, Packs!Types, Packs!Kinds
<1>5. Packs!Types'
  BY <1>1, <1>2, <1>3, <1>4 DEF Packs!Types, Packs!Ended
<1>6. Packs!Control'
  BY <1>1, <1>2, <1>4 DEF Packs!Control
<1>7. Packs!EvidenceHolds'
  BY <1>1, <1>4 DEF Packs!EvidenceHolds, Packs!EvidenceOK, Packs!Written
<1>8. Packs!UpdatesAreReviewed'
  <2>1. \A p : Packs!IsUpdate(p)' = Packs!IsUpdate(p)
    BY <1>1 DEF Packs!IsUpdate, Packs!Attested
  <2>2. \A p \in Packs!PackSet : Packs!IsUpdate(p)
    BY <1>1 DEF Packs!UpdatesAreReviewed, Packs!Started
  <2> QED BY <1>4, <2>1, <2>2 DEF Packs!UpdatesAreReviewed
<1>9. Packs!WritesAreKnown' /\ Packs!OriginalsAreOld'
  BY <1>1 DEF Packs!WritesAreKnown, Packs!OriginalsAreOld
<1>10. Packs!NothingYet' /\ Packs!Compared'
  <2>1. aphase' = "save" => undo'
    BY <1>1, <1>2
  <2> QED BY <1>4, <2>1 DEF Packs!NothingYet, Packs!Compared, Packs!Untouched
<1> HIDE DEF now
<1>11. ~left => \A p \in Packs!Before(aat) \cup {now} :
                  disk[p].status = "none" /\ (aedits = 0 => disk[p] = original[p])
  <2> SUFFICES ASSUME ~left, NEW p \in Packs!Before(aat) \cup {now}
               PROVE  disk[p].status = "none" /\ (aedits = 0 => disk[p] = original[p])
    OBVIOUS
  <2>1. CASE p = now
    BY <1>3, <2>1 DEF Packs!OriginalsAreOld
  <2>2. CASE p # now
    BY <1>1, <1>4, <2>2 DEF Packs!TakenBack
  <2> QED BY <2>1, <2>2
<1>12. Packs!TakenBack'
  BY <1>1, <1>2, <1>3, <1>4, <1>11 DEF Packs!TakenBack
<1>13. Packs!FailureLeavesNothing'
  <2> SUFFICES ASSUME aphase' = "failed"
               PROVE  /\ \A p \in Packs!PackSet : disk[p].status = "none"
                      /\ aedits = 0 => disk = start
    BY <1>1 DEF Packs!FailureLeavesNothing
  <2>1. ~left /\ last
    BY <1>1, <1>2
  <2>2. \A p \in Packs!PackSet : disk[p].status = "none" /\ (aedits = 0 => disk[p] = original[p])
    BY <1>3, <1>11, <2>1
  <2>3. ASSUME aedits = 0 PROVE disk = start
    <3>1. original = start /\ disk \in [Packs!PackSet -> Packs!Bytes] /\ start \in [Packs!PackSet -> Packs!Bytes]
      BY <2>3 DEF Packs!OriginalsAreOld, Packs!Types
    <3> QED BY <2>2, <2>3, <3>1
  <2> QED BY <2>2, <2>3
<1> QED BY <1>5, <1>6, <1>7, <1>8, <1>9, <1>10, <1>12, <1>13

\* A read or a write fails; when it is one of taking back, it is not repaired.
LEMMA FaultIInv == ASSUME Packs!IInv, Packs!Fault PROVE Packs!IInv'
<1>1. CASE aphase # "undo"
  <2>1. Packs!Fail /\ aphase \notin {"undo", "done", "failed", "crashed"}
    BY <1>1 DEF Packs!Fault, Packs!Ended
  <2> QED BY <2>1, FailIInv
<1>2. CASE aphase = "undo"
  <2> USE DEF Packs!IInv
  <2>1. /\ aphase' = "failed" /\ aat' = 1 /\ broken' = TRUE
        /\ UNCHANGED <<tool, review, start, disk, writer, snap, original, update, saved, replaced, undo, aedits, touched>>
    BY <1>2 DEF Packs!Fault, Packs!fixed, Packs!memory
  <2>2. Packs!Types' /\ Packs!Control'
    BY <2>1, BeforeGrows DEF Packs!Types, Packs!Control, Packs!Ended
  <2>3. Packs!EvidenceHolds'
    BY <2>1 DEF Packs!EvidenceHolds, Packs!EvidenceOK, Packs!Written
  <2>4. Packs!UpdatesAreReviewed'
    <3>1. \A p : Packs!IsUpdate(p)' = Packs!IsUpdate(p)
      BY <2>1 DEF Packs!IsUpdate, Packs!Attested
    <3> QED BY <2>1, <3>1 DEF Packs!UpdatesAreReviewed, Packs!Started, Packs!Written
  <2>5. Packs!WritesAreKnown' /\ Packs!OriginalsAreOld'
    BY <2>1 DEF Packs!WritesAreKnown, Packs!OriginalsAreOld
  <2>6. Packs!NothingYet' /\ Packs!Compared' /\ Packs!TakenBack' /\ Packs!FailureLeavesNothing'
    BY <2>1 DEF Packs!NothingYet, Packs!Compared, Packs!Untouched, Packs!TakenBack, Packs!FailureLeavesNothing
  <2> QED BY <2>2, <2>3, <2>4, <2>5, <2>6
<1> QED BY <1>1, <1>2

\* Every step keeps the invariant.
LEMMA AttestationStep == Packs!IInv /\ [Packs!Next]_pvars => Packs!IInv'
<1> SUFFICES ASSUME Packs!IInv, [Packs!Next]_pvars PROVE Packs!IInv'
  OBVIOUS
<1>1. CASE Packs!Next
  <2>1. ASSUME Packs!Refuse PROVE Packs!IInv'
    <3>1. Packs!Fail /\ aphase \notin {"undo", "done", "failed", "crashed"}
      BY <2>1 DEF Packs!Refuse, Packs!Ended
    <3> QED BY <3>1, FailIInv
  <2>2. CASE Packs!Work
    BY <2>1, <2>2, InspectIInv, ReplaceIInv, RecoverIInv, UndoIInv DEF Packs!Work
  <2> QED BY <1>1, <2>2, FaultIInv, CrashIInv, EditIInv DEF Packs!Next
<1>2. CASE UNCHANGED pvars
  BY <1>2 DEF pvars, Packs!IInv, Packs!Types, Packs!Control, Packs!EvidenceHolds, Packs!EvidenceOK,
     Packs!UpdatesAreReviewed, Packs!IsUpdate, Packs!WritesAreKnown, Packs!NothingYet, Packs!OriginalsAreOld,
     Packs!TakenBack, Packs!Compared, Packs!FailureLeavesNothing, Packs!Written
<1> QED BY <1>1, <1>2

(* Type correctness, and what the tool and the packs are in every pass: its *)
(* evidence holds, its updates are of reviewed content, what it wrote is an *)
(* original or an update, and what has been taken back is as it was         *)
(* (tools/apply_knowledge_review_suite_attestation.py).                     *)
THEOREM AttestationInvariant == MCSpec => []Packs!IInv
<1>1. MCInit => Packs!IInv
  BY AttestationInit DEF MCInit
<1>2. [MCNext]_mcvars => [Packs!Next]_pvars
  BY DEF MCNext, mcvars, pvars
<1>3. Packs!IInv /\ [MCNext]_mcvars => Packs!IInv'
  BY <1>2, AttestationStep
<1> QED BY <1>1, <1>3, PTL DEF MCSpec

\* What the run checks of the attestation follows.
LEMMA AttestationProperties ==
    Packs!IInv => /\ Packs!TypeOK /\ Packs!AttestedIsReviewed
                  /\ Packs!FailureLeavesNothing /\ Packs!SuccessIsWhole
<1> SUFFICES ASSUME Packs!IInv
             PROVE  Packs!TypeOK /\ Packs!AttestedIsReviewed /\ Packs!FailureLeavesNothing /\ Packs!SuccessIsWhole
  OBVIOUS
<1> USE DEF Packs!IInv
<1>1. aphase \in {Packs!Passes[tool][i] : i \in DOMAIN Packs!Passes[tool]} \cup {"recover", "undo"} \cup Packs!Ended
  <2>1. CASE tool = "plain"
    <3> DEFINE all == Packs!Passes[tool]
    <3>1. DOMAIN all = 1..7
      BY <2>1 DEF Packs!Passes
    <3>2. /\ all[1] = "freeze" /\ all[2] = "evidence" /\ all[3] = "sources" /\ all[4] = "read"
          /\ all[5] = "save" /\ all[6] = "replace" /\ all[7] = "verify"
      BY <2>1 DEF Packs!Passes
    <3> HIDE DEF all
    <3>3. {"freeze", "evidence", "sources", "read", "save", "replace", "verify"} \subseteq {all[i] : i \in DOMAIN all}
      BY <3>1, <3>2
    <3>4. aphase \in {"freeze", "evidence", "sources", "read", "save", "replace", "verify", "recover", "done", "failed", "crashed"}
      BY <2>1 DEF Packs!Types, Packs!Control, Packs!Ended
    <3> QED BY <3>3, <3>4 DEF all, Packs!Ended
  <2>2. CASE tool = "suite"
    <3> DEFINE all == Packs!Passes[tool]
    <3>1. DOMAIN all = 1..11
      BY <2>2 DEF Packs!Passes
    <3>2. /\ all[1] = "freeze" /\ all[2] = "evidence" /\ all[3] = "current" /\ all[4] = "sources"
          /\ all[5] = "read" /\ all[6] = "compare" /\ all[7] = "recheck" /\ all[8] = "save"
          /\ all[9] = "replace" /\ all[10] = "exact" /\ all[11] = "verify"
      BY <2>2 DEF Packs!Passes
    <3> HIDE DEF all
    <3>3. {"freeze", "evidence", "current", "sources", "read", "compare", "recheck", "save", "replace", "exact", "verify"}
             \subseteq {all[i] : i \in DOMAIN all}
      BY <3>1, <3>2
    <3>4. aphase \in {"freeze", "evidence", "current", "sources", "read", "compare", "recheck", "save", "replace",
                      "exact", "verify", "recover", "undo", "done", "failed", "crashed"}
      BY DEF Packs!Types, Packs!Ended
    <3> QED BY <3>3, <3>4 DEF all, Packs!Ended
  <2> QED BY <2>1, <2>2 DEF Packs!Types, Packs!Kinds
<1>2. Packs!TypeOK
  BY <1>1 DEF Packs!TypeOK, Packs!Types, Packs!Control
<1>3. ASSUME NEW p \in Packs!PackSet, Packs!IsUpdate(p), tool = "suite", disk[p] \in {original[p], update[p]}
      PROVE  disk[p].surface = snap[p]
  BY <1>3 DEF Packs!IsUpdate, Packs!Attested, Packs!Types, Packs!Bytes
<1>4. Packs!AttestedIsReviewed
  <2> SUFFICES ASSUME tool = "suite", NEW p \in Packs!PackSet, writer[p] = "tool"
               PROVE  /\ Packs!EvidenceOK
                      /\ disk[p].surface = review.semantic.surfaces[p]
                      /\ disk[p].surface = review.adversarial.surfaces[p]
    BY DEF Packs!AttestedIsReviewed, Packs!EvidenceOK
  <2>1. ~Packs!Written
    BY DEF Packs!Written
  <2>2. Packs!EvidenceOK /\ Packs!IsUpdate(p) /\ disk[p] \in {original[p], update[p]}
    BY <2>1 DEF Packs!EvidenceHolds, Packs!UpdatesAreReviewed, Packs!WritesAreKnown
  <2> QED BY <1>3, <2>2 DEF Packs!EvidenceOK
<1>5. Packs!SuccessIsWhole
  <2> SUFFICES ASSUME aphase = "done", ~touched, NEW p \in Packs!PackSet
               PROVE  /\ disk[p].surface = review.semantic.surfaces[p]
                      /\ tool = "suite" => disk[p].status = "attested"
    BY DEF Packs!SuccessIsWhole
  <2>1. Packs!EvidenceOK /\ Packs!IsUpdate(p)
    BY DEF Packs!EvidenceHolds, Packs!UpdatesAreReviewed, Packs!Started
  <2>2. CASE tool = "suite"
    <3>1. disk[p] = update[p]
      BY <2>2 DEF Packs!Compared
    <3>2. disk[p].status = "attested"
      BY <2>1, <3>1 DEF Packs!IsUpdate, Packs!Attested, Packs!Types, Packs!Bytes
    <3> QED BY <1>3, <2>1, <2>2, <3>1, <3>2 DEF Packs!EvidenceOK
  <2>3. CASE tool = "plain"
    BY <2>1, <2>3 DEF Packs!Compared, Packs!EvidenceOK
  <2> QED BY <2>2, <2>3 DEF Packs!Types, Packs!Kinds
<1> QED BY <1>2, <1>4, <1>5

(* A pack is attested only with the content that two approving reviews, in  *)
(* two invocations, were made of; an attestation that failed leaves no pack *)
(* attested unless taking back failed too; one that succeeded has attested  *)
(* them all (AttestedIsReviewed, FailureLeavesNothing, SuccessIsWhole).     *)
THEOREM AttestedIsAlwaysReviewed == MCSpec => []AttestedIsReviewed
<1>1. Packs!IInv => AttestedIsReviewed
  BY AttestationProperties DEF AttestedIsReviewed
<1> QED BY <1>1, AttestationInvariant, PTL

-------------------------------------------------------------------------------
(* The cache of cited documents.                                            *)

\* A citation has a resolver and locators, and what it shares with others.
LEMMA CitationMeans ==
    ASSUME NEW p \in CacheParts
    PROVE  /\ Len(Cited[p]) \in Nat \ {0} /\ DOMAIN Cited[p] = 1..Len(Cited[p]) /\ MaxAttempts \in Nat \ {0}
           /\ \A i \in DOMAIN Cited[p] :
                /\ Cited[p][i].resolver \in {"lines", "direct", "map", "topic"} /\ Cited[p][i].inspect \in BOOLEAN
                /\ Cited[p][i].url # "none" /\ Cited[p][i].url \in Cache(p)!Urls
                /\ Cited[p][i].charset \in {"utf-8", "ascii", "latin"}
                /\ Cited[p][i].resolver = "map" => Cited[p][i].map = Cited[p][i].url /\ Cited[p][i].map \in Cache(p)!SupportUrls
                /\ Cited[p][i].resolver = "topic" =>
                     /\ Cited[p][i].map \in Cache(p)!SupportUrls /\ Cited[p][i].pages \in Cache(p)!SupportUrls
                     /\ Cited[p][i].map # "none" /\ Cited[p][i].pages # "none"
                     /\ \A j \in DOMAIN Cited[p] :
                          /\ Cited[p][i].pages # Cited[p][j].url /\ Cited[p][i].pages # Cited[p][j].map
                          /\ Cited[p][j].url = Cited[p][i].map => Cited[p][j].resolver = "map" /\ j < i
<1>1. Cache(p)!CitationsOK
  BY ReviewAssumption
<1>2. \A i \in DOMAIN Cited[p] : Cited[p][i].url \in Cache(p)!Urls
  BY DEF Cache!Urls
<1>3. \A i \in DOMAIN Cited[p] : /\ Cited[p][i].map # "none" => Cited[p][i].map \in Cache(p)!SupportUrls
                                 /\ Cited[p][i].pages # "none" => Cited[p][i].pages \in Cache(p)!SupportUrls
  <2> SUFFICES ASSUME NEW i \in DOMAIN Cited[p], NEW u \in {Cited[p][i].map, Cited[p][i].pages}, u # "none"
               PROVE  u \in Cache(p)!SupportUrls
    OBVIOUS
  <2>1. {Cited[p][i].map, Cited[p][i].pages} \in {{Cited[p][j].map, Cited[p][j].pages} : j \in DOMAIN Cited[p]}
    OBVIOUS
  <2>2. u \in UNION {{Cited[p][j].map, Cited[p][j].pages} : j \in DOMAIN Cited[p]}
    BY <2>1
  <2> QED
    BY <2>2 DEF Cache!SupportUrls, Cache!None
<1> QED
  BY <1>1, <1>2, <1>3 DEF Cache!CitationsOK, Cache!None, Cache!Resolvers, Cache!Charsets

\* A row that verifies nothing.
LEMMA EmptyMeans ==
    ASSUME NEW p \in CacheParts, NEW r \in {Cache(p)!EmptyRow} \cup {Cache(p)!Unresolved(b) : b \in Cache(p)!Bodies}
    PROVE  /\ r \in Cache(p)!RowSet /\ r.verified = FALSE /\ r.available = FALSE
           /\ r.map = "none" /\ r.pages = "none" /\ r.text = "none" /\ r.parser = "none"
<1>1. CASE r = Cache(p)!EmptyRow
  <2>1. r = [body |-> "none", map |-> "none", pages |-> "none", text |-> "none", parser |-> "none",
             verified |-> FALSE, available |-> FALSE]
    BY <1>1 DEF Cache!EmptyRow, Cache!None
  <2> QED
    BY <2>1 DEF Cache!RowSet, Cache!None
<1>2. ASSUME NEW b \in Cache(p)!Bodies, r = Cache(p)!Unresolved(b)
      PROVE  r = [body |-> b, map |-> "none", pages |-> "none", text |-> "none", parser |-> "none",
             verified |-> FALSE, available |-> FALSE]
  BY <1>2 DEF Cache!Unresolved, Cache!EmptyRow, Cache!None
<1>3. CASE r \in {Cache(p)!Unresolved(b) : b \in Cache(p)!Bodies}
  <2>1. PICK b \in Cache(p)!Bodies : r = Cache(p)!Unresolved(b)
    BY <1>3
  <2>2. r = [body |-> b, map |-> "none", pages |-> "none", text |-> "none", parser |-> "none",
             verified |-> FALSE, available |-> FALSE]
    BY <1>2, <2>1
  <2> QED
    BY <2>2 DEF Cache!RowSet, Cache!None
<1> QED
  BY <1>1, <1>3

\* A row made of responses: with the identity asked for it records them, and is
\* available if it has the text that is to be read.
LEMMA ResolvedMeans ==
    ASSUME NEW p \in CacheParts, NEW i \in DOMAIN Cited[p], NEW b \in Cache(p)!Bodies,
           NEW m \in Cache(p)!Bodies \cup {"none"}, NEW q \in Cache(p)!Bodies \cup {"none"}
    PROVE  /\ Cache(p)!Resolved(Cited[p][i], b, Cited[p][i].charset, m, q) \in Cache(p)!RowSet
           /\ IF Cache(p)!Identity(Cited[p][i], b, m, q)
              THEN /\ Cache(p)!Resolved(Cited[p][i], b, Cited[p][i].charset, m, q).verified = TRUE /\ Cache(p)!Resolved(Cited[p][i], b, Cited[p][i].charset, m, q).body = b
                   /\ Cache(p)!Resolved(Cited[p][i], b, Cited[p][i].charset, m, q).map = m /\ Cache(p)!Resolved(Cited[p][i], b, Cited[p][i].charset, m, q).pages = q
                   /\ Cache(p)!Resolved(Cited[p][i], b, Cited[p][i].charset, m, q).available = (~Cited[p][i].inspect \/ b # "wrong")
                   /\ Cache(p)!Resolved(Cited[p][i], b, Cited[p][i].charset, m, q).text = (IF Cited[p][i].inspect /\ b # "wrong" THEN b ELSE "none")
              ELSE Cache(p)!Resolved(Cited[p][i], b, Cited[p][i].charset, m, q) = Cache(p)!Unresolved(b)
<1>1. CASE ~Cache(p)!Identity(Cited[p][i], b, m, q)
  <2>1. Cache(p)!Resolved(Cited[p][i], b, Cited[p][i].charset, m, q) = Cache(p)!Unresolved(b)
    BY <1>1 DEF Cache!Resolved
  <2> QED
    BY <1>1, <2>1, EmptyMeans
<1>2. CASE Cache(p)!Identity(Cited[p][i], b, m, q)
  <2> DEFINE r == Cache(p)!Resolved(Cited[p][i], b, Cited[p][i].charset, m, q)
             text == IF Cited[p][i].inspect /\ b # "wrong" THEN b ELSE "none"
             parser == IF text = "none" \/ Cited[p][i].resolver = "lines" THEN "none" ELSE Cited[p][i].charset
  <2>1. Cache(p)!Text(Cited[p][i], b, Cited[p][i].charset) = text /\ b # "none"
    BY CitationMeans DEF Cache!Text, Cache!None, Cache!Bodies
  <2>2. r = [body |-> b, map |-> m, pages |-> q, text |-> text, verified |-> TRUE,
             available |-> ~Cited[p][i].inspect \/ text # "none", parser |-> parser]
    BY <1>2, <2>1 DEF Cache!Resolved, Cache!None
  <2>3. /\ text \in Cache(p)!Bodies \cup {"none"} /\ parser \in Cache(p)!Charsets \cup {"none"}
        /\ (~Cited[p][i].inspect \/ text # "none") = (~Cited[p][i].inspect \/ b # "wrong")
    BY <2>1, CitationMeans DEF Cache!Charsets
  <2> HIDE DEF text, parser
  <2>4. r = [body |-> b, map |-> m, pages |-> q, text |-> text, verified |-> TRUE,
             available |-> ~Cited[p][i].inspect \/ b # "wrong", parser |-> parser]
    BY <2>2, <2>3
  <2>5. (~Cited[p][i].inspect \/ b # "wrong") \in BOOLEAN
    BY CitationMeans
  <2>6. r \in Cache(p)!RowSet
    BY <2>3, <2>4, <2>5 DEF Cache!RowSet, Cache!None
  <2> QED
    BY <1>2, <2>4, <2>6 DEF text
<1> QED
  BY <1>1, <1>2

\* The files that a row names are under the hash of their content.
LEMMA NamedMeans ==
    ASSUME NEW p \in CacheParts, NEW r, NEW f \in Cache(p)!Named(r)
    PROVE  f.name = f.content /\ f.dir # "stray"
  BY DEF Cache!Named

\* What is kept of a publication.
LEMMA KeptMeans ==
    ASSUME NEW p \in CacheParts, Cache(p)!Typed, NEW i \in DOMAIN Cited[p]
    PROVE  /\ Cache(p)!Map(Cited[p][i]) \in Cache(p)!Bodies \cup {"none"}
           /\ Cache(p)!Pages(Cited[p][i]) \in Cache(p)!Bodies \cup {"none"}
           /\ primary[Cited[p][i].url] \in Cache(p)!Bodies \cup {"none"}
           /\ Cited[p][i].resolver # "topic" =>
                Cache(p)!Map(Cited[p][i]) = "none" /\ Cache(p)!Pages(Cited[p][i]) = "none"
  BY CitationMeans DEF Cache!Typed, Cache!Map, Cache!Pages, Cache!None

\* A row that was made of the responses kept is one that loading accepts.
LEMMA MadeIsOK ==
    ASSUME NEW p \in CacheParts, Cache(p)!Typed, NEW i \in DOMAIN Cited[p],
           NEW r, Cache(p)!Made(Cited[p][i], r), Cache(p)!Named(r) \subseteq files
    PROVE  r \in Cache(p)!RowSet /\ Cache(p)!RowOK(Cited[p][i], r)
<1> DEFINE c == Cited[p][i]
           b == primary[c.url]
           m == Cache(p)!Map(c)
           q == Cache(p)!Pages(c)
<1>1. CASE ~r.verified
  <2>1. r \in Cache(p)!RowSet /\ r.available = FALSE /\ r.map = "none" /\ r.pages = "none"
    BY <1>1, EmptyMeans DEF Cache!Made
  <2> QED
    BY <2>1 DEF Cache!RowOK, Cache!None
<1>2. CASE r.verified
  <2>1. /\ b # "none" /\ (c.resolver = "topic" => m # "none" /\ q # "none")
        /\ Cache(p)!Identity(c, b, m, q) /\ r = Cache(p)!Resolved(c, b, c.charset, m, q)
    BY <1>2 DEF Cache!Made, Cache!None
  <2>2. /\ b \in Cache(p)!Bodies /\ m \in Cache(p)!Bodies \cup {"none"} /\ q \in Cache(p)!Bodies \cup {"none"}
        /\ c.resolver # "topic" => m = "none" /\ q = "none"
    BY <2>1, KeptMeans DEF Cache!Bodies
  <2>3. c.inspect \in BOOLEAN
    BY CitationMeans
  <2>4. /\ r \in Cache(p)!RowSet /\ r.verified = TRUE /\ r.body = b /\ r.map = m /\ r.pages = q
        /\ r.available = (~c.inspect \/ b # "wrong") /\ r.text = (IF c.inspect /\ b # "wrong" THEN b ELSE "none")
    BY <2>1, <2>2, ResolvedMeans
  <2> HIDE DEF b, m, q, c
  <2>5. c.resolver = "topic" => m # "wrong" /\ q # "wrong"
    BY <2>1 DEF Cache!Identity
  <2>6. r.available => (r.text # "none") = c.inspect
    BY <2>2, <2>3, <2>4 DEF Cache!Bodies
  <2>7. Cache(p)!RowOK(c, r)
    BY <2>1, <2>2, <2>3, <2>4, <2>5, <2>6 DEF Cache!RowOK, Cache!None
  <2> QED
    BY <2>4, <2>7 DEF c
<1> QED
  BY <1>1, <1>2

\* Nothing was asked for at the start.
LEMMA CacheInit == ASSUME NEW p \in CacheParts, Cache(p)!Init PROVE Cache(p)!IInv
<1>1. Cache(p)!Typed
  <2>1. rows = << >> /\ rows \in Seq(Cache(p)!RowSet) /\ Len(rows) = 0 /\ files = {}
    BY DEF Cache!Init
  <2>2. cat = 1 /\ cat \in DOMAIN Cited[p] /\ attempt \in 1..MaxAttempts
    BY CitationMeans DEF Cache!Init
  <2> QED
    BY <2>1, <2>2 DEF Cache!Init, Cache!Typed
<1>2. Cache(p)!Created
  BY DEF Cache!Init, Cache!Created, Cache!Closed
<1>3. Cache(p)!Counted
  BY CitationMeans DEF Cache!Init, Cache!Counted, Cache!Locators
<1>4. Cache(p)!Checked
  BY DEF Cache!Init, Cache!Checked
<1> QED
  BY <1>1, <1>2, <1>3, <1>4 DEF Cache!IInv

\* A row stays what it was made of, as long as the responses kept stay that it needs.
LEMMA MadeStays ==
    ASSUME NEW p \in CacheParts, Cache(p)!Typed, NEW i \in DOMAIN Cited[p],
           NEW r, Cache(p)!Made(Cited[p][i], r),
           primary[Cited[p][i].url] # "none" => primary'[Cited[p][i].url] = primary[Cited[p][i].url],
           Cited[p][i].resolver = "topic" =>
               /\ support[Cited[p][i].map] # "none" => support'[Cited[p][i].map] = support[Cited[p][i].map]
               /\ support[Cited[p][i].pages] # "none" => support'[Cited[p][i].pages] = support[Cited[p][i].pages],
           /\ Cited[p][i].resolver = "map" /\ primary[Cited[p][i].url] # "none"
           /\ support[Cited[p][i].map] = primary[Cited[p][i].url]
           => support'[Cited[p][i].map] = support[Cited[p][i].map]
    PROVE  Cache(p)!Made(Cited[p][i], r)'
<1> DEFINE c == Cited[p][i]
<1>1. CASE ~r.verified
  BY <1>1 DEF Cache!Made
<1>2. CASE r.verified
  <2>1. /\ primary[c.url] # "none" /\ (c.resolver = "topic" => Cache(p)!Map(c) # "none" /\ Cache(p)!Pages(c) # "none")
        /\ c.resolver = "map" => support[c.map] = primary[c.url]
    BY <1>2 DEF Cache!Made, Cache!None
  <2>2. primary'[c.url] = primary[c.url]
    BY <2>1
  <2>3. Cache(p)!Map(c)' = Cache(p)!Map(c) /\ Cache(p)!Pages(c)' = Cache(p)!Pages(c)
    BY <2>1 DEF Cache!Map, Cache!Pages
  <2>4. c.resolver = "map" => support'[c.map] = support[c.map]
    BY <2>1
  <2> QED
    BY <1>2, <2>2, <2>3, <2>4 DEF Cache!Made
<1> QED
  BY <1>1, <1>2

\* A row is added: it is made of the responses kept, as the others are, and the
\* locator of its citation was answered, or could not be fetched.
LEMMA CachePut ==
    ASSUME NEW p \in CacheParts, Cache(p)!IInv, cphase = "create", UNCHANGED ctampers,
           NEW r, Cache(p)!Put(r),
           \A x : \A i \in DOMAIN Cited[p] : (i = cat /\ x = r) \/ (i \in DOMAIN rows /\ x = rows[i]) =>
               Cache(p)!Made(Cited[p][i], x)',
           r \in Cache(p)!RowSet,
           primary' \in [Cache(p)!Urls -> Cache(p)!Bodies \cup {"none"}],
           support' \in [Cache(p)!SupportUrls -> Cache(p)!Bodies \cup {"none"}],
           failed' \in SUBSET Cache(p)!Urls, requests' \in [Cache(p)!Locators -> Nat],
           primary'[Cited[p][cat].url] # "none" \/ Cited[p][cat].url \in failed',
           \A u \in Cache(p)!Urls \ Cache(p)!SupportUrls :
               /\ requests'[u] <= MaxAttempts
               /\ primary'[u] = "none" /\ u \notin failed' =>
                    primary[u] = "none" /\ u \notin failed /\ requests'[u] = requests[u]
    PROVE  Cache(p)!IInv'
<1>1. /\ Cache(p)!Typed /\ Cache(p)!Created /\ Cache(p)!Counted /\ Cache(p)!Checked
  BY DEF Cache!IInv
<1>2. /\ rows \in Seq(Cache(p)!RowSet) /\ Len(rows) = cat - 1 /\ cat \in 1..Len(Cited[p]) /\ Len(Cited[p]) \in Nat
      /\ DOMAIN Cited[p] = 1..Len(Cited[p]) /\ 1 \in 1..MaxAttempts /\ MaxAttempts \in Nat
  BY <1>1, CitationMeans DEF Cache!Typed
<1>3. /\ rows' = Append(rows, r) /\ rows' \in Seq(Cache(p)!RowSet) /\ Len(rows') = cat /\ DOMAIN rows' = 1..cat
      /\ DOMAIN rows = 1..(cat - 1)
      /\ rows'[cat] = r /\ \A i \in 1..(cat - 1) : rows'[i] = rows[i]
  BY <1>2 DEF Cache!Put
<1>4. /\ attempt' = 1
      /\ \/ cat = Len(Cited[p]) /\ cphase' = "load" /\ cat' = 1
         \/ cat # Len(Cited[p]) /\ cphase' = "create" /\ cat' = cat + 1
  BY DEF Cache!Put
<1>5. Cache(p)!Typed'
  BY <1>1, <1>2, <1>3, <1>4 DEF Cache!Typed, Cache!None
<1>6. Cache(p)!Closed'
  <2>1. ctampers = 0
    BY <1>1 DEF Cache!Checked
  <2>2. files = UNION {Cache(p)!Named(rows[i]) : i \in 1..(cat - 1)} /\ files' = files \cup Cache(p)!Named(r)
    BY <1>1, <1>3, <2>1 DEF Cache!Created, Cache!Closed, Cache!Put
  <2>3. files' = UNION {Cache(p)!Named(rows'[i]) : i \in 1..cat}
    <3>1. ASSUME NEW f \in files' PROVE \E i \in 1..cat : f \in Cache(p)!Named(rows'[i])
      BY <1>2, <1>3, <2>2, <3>1
    <3>2. ASSUME NEW i \in 1..cat, NEW f \in Cache(p)!Named(rows'[i]) PROVE f \in files'
      <4>1. CASE i = cat
        BY <1>3, <2>2, <3>2, <4>1
      <4>2. CASE i \in 1..(cat - 1)
        BY <1>3, <2>2, <3>2, <4>2
      <4> QED
        BY <1>2, <4>1, <4>2
    <3> QED
      BY <3>1, <3>2
  <2> QED
    BY <1>3, <2>3 DEF Cache!Closed
<1>7. Cache(p)!Created'
  <2> SUFFICES ASSUME NEW i \in 1..cat
               PROVE  Cache(p)!Made(Cited[p][i], rows[i])'
    BY <1>3, <1>6 DEF Cache!Created
  <2> SUFFICES ASSUME NEW x, x = rows'[i]
               PROVE  Cache(p)!Made(Cited[p][i], x)'
    BY DEF Cache!Made, Cache!Map, Cache!Pages
  <2>1. (i = cat /\ x = r) \/ (i \in DOMAIN rows /\ x = rows[i])
    BY <1>2, <1>3
  <2>2. i \in DOMAIN Cited[p]
    BY <1>2
  <2> QED
    BY <2>1, <2>2
<1>8. Cache(p)!Counted'
  <2> SUFFICES ASSUME NEW u \in Cache(p)!Urls \ Cache(p)!SupportUrls
               PROVE  /\ requests'[u] <= MaxAttempts
                      /\ cphase' = "create" /\ primary'[u] = "none" /\ u \notin failed' =>
                           requests'[u] = (IF Cited[p][cat'].url = u THEN attempt' - 1 ELSE 0)
    BY DEF Cache!Counted, Cache!Now, Cache!None, Cache!Urls, Cache!SupportUrls
  <2> SUFFICES ASSUME primary'[u] = "none", u \notin failed'
               PROVE  requests'[u] = 0
    BY <1>4
  <2>1. u # Cited[p][cat].url /\ primary[u] = "none" /\ u \notin failed /\ requests'[u] = requests[u]
    OBVIOUS
  <2> QED
    BY <1>1, <2>1 DEF Cache!Counted, Cache!Now, Cache!None
<1>9. Cache(p)!Checked'
  BY <1>1, <1>4 DEF Cache!Checked
<1> QED
  BY <1>5, <1>7, <1>8, <1>9 DEF Cache!IInv

\* The rows so far, and the citation that is resolved.
LEMMA WhileCreating ==
    ASSUME NEW p \in CacheParts, Cache(p)!IInv, cphase = "create"
    PROVE  /\ cat \in DOMAIN Cited[p] /\ ctampers = 0
           /\ \A i \in DOMAIN rows : i \in DOMAIN Cited[p] /\ i < cat /\ Cache(p)!Made(Cited[p][i], rows[i])
BY CitationMeans DEF Cache!IInv, Cache!Typed, Cache!Created, Cache!Checked

\* The rows so far stay made of what is kept while nothing new is kept.
LEMMA RowsStay ==
    ASSUME NEW p \in CacheParts, Cache(p)!IInv, cphase = "create", UNCHANGED <<primary, support>>
    PROVE  \A x : \A i \in DOMAIN Cited[p] : i \in DOMAIN rows /\ x = rows[i] => Cache(p)!Made(Cited[p][i], x)'
BY WhileCreating, MadeStays DEF Cache!IInv

\* The rows made so far are all there are, while none is added.
LEMMA CreatedStays ==
    ASSUME NEW p \in CacheParts, Cache(p)!IInv, cphase = "create", UNCHANGED <<rows, files>>,
           \A x : \A i \in DOMAIN Cited[p] : i \in DOMAIN rows /\ x = rows[i] => Cache(p)!Made(Cited[p][i], x)'
    PROVE  Cache(p)!Created'
<1>1. Cache(p)!Closed'
  <2>1. Cache(p)!Closed
    BY WhileCreating DEF Cache!IInv, Cache!Created
  <2> QED
    BY <2>1 DEF Cache!Closed
<1>2. ASSUME NEW i \in DOMAIN rows'
      PROVE  Cache(p)!Made(Cited[p][i], rows[i])'
  <2>1. PICK x : x = rows[i] /\ x = rows'[i]
    OBVIOUS
  <2>2. i \in DOMAIN rows /\ i \in DOMAIN Cited[p]
    BY WhileCreating
  <2>3. Cache(p)!Made(Cited[p][i], x)'
    BY <2>1, <2>2
  <2> QED
    BY <2>1, <2>3 DEF Cache!Made, Cache!Map, Cache!Pages
<1> QED
  BY <1>1, <1>2 DEF Cache!Created

\* A row that verifies nothing is made of anything.
LEMMA NothingIsMade ==
    ASSUME NEW p \in CacheParts, NEW c, NEW r \in {Cache(p)!EmptyRow} \cup {Cache(p)!Unresolved(b) : b \in Cache(p)!Bodies}
    PROVE  Cache(p)!Made(c, r)'
BY EmptyMeans DEF Cache!Made, Cache!EmptyRow, Cache!Unresolved, Cache!None, Cache!Bodies

\* "shared exact evidence fetch previously failed"
LEMMA SkipIInv == ASSUME NEW p \in CacheParts, Cache(p)!IInv, Cache(p)!Skip PROVE Cache(p)!IInv'
<1> DEFINE r == Cache(p)!EmptyRow
<1>1. /\ cphase = "create" /\ Cited[p][cat].url \in failed /\ Cache(p)!Put(r)
      /\ UNCHANGED <<primary, failed, support, requests, ctampers>>
  BY DEF Cache!Skip, Cache!Shared, Cache!Now
<1>2. r \in {Cache(p)!EmptyRow} \cup {Cache(p)!Unresolved(b) : b \in Cache(p)!Bodies}
  OBVIOUS
<1>3. r \in Cache(p)!RowSet /\ \A c : Cache(p)!Made(c, r)'
  BY <1>2, EmptyMeans, NothingIsMade
<1>4. Cache(p)!Typed /\ Cache(p)!Counted
  BY DEF Cache!IInv
<1>5. \A x : \A i \in DOMAIN Cited[p] : (i = cat /\ x = r) \/ (i \in DOMAIN rows /\ x = rows[i]) =>
        Cache(p)!Made(Cited[p][i], x)'
  BY <1>1, <1>3, RowsStay
<1> HIDE DEF r
<1> QED
  BY <1>1, <1>3, <1>4, <1>5, CachePut DEF Cache!Typed, Cache!Counted, Cache!None

\* The locator that is wanted: the citation's own, or one of its publication.
LEMMA WantedMeans ==
    ASSUME NEW p \in CacheParts, Cache(p)!IInv, NEW u \in Cache(p)!Locators, Cache(p)!Request(u)
    PROVE  /\ cphase = "create" /\ Cited[p][cat].url \notin failed /\ UNCHANGED ctampers
           /\ requests' = [requests EXCEPT ![u] = @ + 1]
           /\ \/ u = Cited[p][cat].url /\ primary[u] = "none"
              \/ /\ Cited[p][cat].resolver = "topic" /\ primary[Cited[p][cat].url] \in Cache(p)!Bodies
                 /\ u # Cited[p][cat].url /\ u \in Cache(p)!SupportUrls /\ support[u] = "none"
<1>1. /\ cphase = "create" /\ Cited[p][cat].url \notin failed /\ UNCHANGED ctampers
      /\ requests' = [requests EXCEPT ![u] = @ + 1] /\ u = Cache(p)!Wanted /\ u # "none"
  BY DEF Cache!Request, Cache!Shared, Cache!Now, Cache!None
<1>2. cat \in DOMAIN Cited[p] /\ primary[Cited[p][cat].url] \in Cache(p)!Bodies \cup {"none"}
  BY <1>1, CitationMeans DEF Cache!IInv, Cache!Typed, Cache!None
<1>3. \/ u = Cited[p][cat].url /\ primary[u] = "none"
      \/ /\ Cited[p][cat].resolver = "topic" /\ primary[Cited[p][cat].url] # "none"
         /\ u \in {Cited[p][cat].map, Cited[p][cat].pages} /\ support[u] = "none"
  BY <1>1 DEF Cache!Wanted, Cache!Now, Cache!Kept, Cache!None
<1>4. Cited[p][cat].resolver = "topic" =>
        /\ Cited[p][cat].map # Cited[p][cat].url /\ Cited[p][cat].pages # Cited[p][cat].url
        /\ Cited[p][cat].map \in Cache(p)!SupportUrls /\ Cited[p][cat].pages \in Cache(p)!SupportUrls
  BY <1>2, CitationMeans
<1> QED
  BY <1>1, <1>2, <1>3, <1>4

\* What a request adds to the count of a document that has none yet.
LEMMA RequestCounts ==
    ASSUME NEW p \in CacheParts, Cache(p)!IInv, NEW u \in Cache(p)!Locators, Cache(p)!Request(u)
    PROVE  /\ requests' \in [Cache(p)!Locators -> Nat]
           /\ u \notin Cache(p)!SupportUrls => requests'[u] = attempt
           /\ \A v \in Cache(p)!Urls \ Cache(p)!SupportUrls : v # u => requests'[v] = requests[v]
           /\ \A v \in Cache(p)!Urls \ Cache(p)!SupportUrls : requests'[v] <= MaxAttempts
<1>1. Cache(p)!Typed /\ Cache(p)!Counted /\ MaxAttempts \in Nat
  BY CitationMeans DEF Cache!IInv
<1>2. requests \in [Cache(p)!Locators -> Nat] /\ attempt \in 1..MaxAttempts
  BY <1>1 DEF Cache!Typed
<1>3. requests' = [requests EXCEPT ![u] = @ + 1]
  BY WantedMeans
<1>4. Cache(p)!Urls \subseteq Cache(p)!Locators
  BY DEF Cache!Locators
<1>5. u \notin Cache(p)!SupportUrls => u \in Cache(p)!Urls /\ requests[u] = attempt - 1
  BY <1>1, WantedMeans DEF Cache!Counted, Cache!Now, Cache!None, Cache!Locators
<1> QED
  BY <1>1, <1>2, <1>3, <1>4, <1>5 DEF Cache!Counted

\* A locator cannot be fetched.
LEMMA GiveUpIInv ==
    ASSUME NEW p \in CacheParts, Cache(p)!IInv, NEW u \in Cache(p)!Locators, Cache(p)!Request(u), Cache(p)!GiveUp(u)
    PROVE  Cache(p)!IInv'
<1> DEFINE url == Cited[p][cat].url
<1>0. PICK r : r = IF u = url THEN Cache(p)!EmptyRow ELSE Cache(p)!Unresolved(primary[url])
  OBVIOUS
<1>1. /\ failed' = (IF u = url THEN failed \cup {u} ELSE failed) /\ Cache(p)!Put(r) /\ UNCHANGED <<primary, support>>
  BY <1>0 DEF Cache!GiveUp, Cache!Now
<1>2. /\ cphase = "create" /\ url \notin failed /\ UNCHANGED ctampers
      /\ \/ u = url /\ primary[u] = "none"
         \/ u # url /\ u \in Cache(p)!SupportUrls /\ primary[url] \in Cache(p)!Bodies
  BY WantedMeans
<1>3. r \in {Cache(p)!EmptyRow} \cup {Cache(p)!Unresolved(b) : b \in Cache(p)!Bodies}
  BY <1>0, <1>2
<1>4. r \in Cache(p)!RowSet /\ \A c : Cache(p)!Made(c, r)'
  BY <1>3, EmptyMeans, NothingIsMade
<1>5. Cache(p)!Typed /\ Cache(p)!Counted
  BY DEF Cache!IInv
<1>6. \A x : \A i \in DOMAIN Cited[p] : (i = cat /\ x = r) \/ (i \in DOMAIN rows /\ x = rows[i]) =>
        Cache(p)!Made(Cited[p][i], x)'
  BY <1>1, <1>2, <1>3, NothingIsMade, RowsStay
<1>7. url \in Cache(p)!Urls
  BY <1>2, WhileCreating, CitationMeans
<1>8. primary[url] # "none" \/ url \in failed'
  BY <1>1, <1>2 DEF Cache!Bodies
<1>9. failed' \in SUBSET Cache(p)!Urls
  BY <1>1, <1>5, <1>7 DEF Cache!Typed
<1>10. \A v \in Cache(p)!Urls \ Cache(p)!SupportUrls :
         /\ requests'[v] <= MaxAttempts
         /\ primary'[v] = "none" /\ v \notin failed' => primary[v] = "none" /\ v \notin failed /\ requests'[v] = requests[v]
  BY <1>1, <1>2, RequestCounts
<1> QED
  BY <1>1, <1>2, <1>4, <1>5, <1>6, <1>8, <1>9, <1>10, RequestCounts, CachePut DEF Cache!Typed, Cache!None

\* An answer is kept: nothing that a row was made of is forgotten for it.
LEMMA AnswerIInv ==
    ASSUME NEW p \in CacheParts, Cache(p)!IInv, NEW u \in Cache(p)!Locators, NEW b \in Cache(p)!Bodies,
           Cache(p)!Answer(u, b)
    PROVE  Cache(p)!IInv'
<1> DEFINE url == Cited[p][cat].url
<1>1. /\ Cache(p)!Request(u)
      /\ IF u = url THEN primary' = [primary EXCEPT ![u] = b] /\ UNCHANGED support
                    ELSE support' = [support EXCEPT ![u] = b] /\ UNCHANGED primary
      /\ attempt' = 1 /\ UNCHANGED <<cphase, cat, failed, rows, files>>
  BY DEF Cache!Answer, Cache!Now
<1>2. /\ cphase = "create" /\ url \notin failed /\ UNCHANGED ctampers
      /\ \/ u = url /\ primary[u] = "none"
         \/ u # url /\ u \in Cache(p)!SupportUrls /\ support[u] = "none" /\ primary[url] \in Cache(p)!Bodies
  BY <1>1, WantedMeans
<1>3. Cache(p)!Typed /\ Cache(p)!Created /\ Cache(p)!Counted /\ Cache(p)!Checked
  BY DEF Cache!IInv
<1>4. b # "none" /\ url \in Cache(p)!Urls /\ MaxAttempts \in Nat \ {0}
  BY <1>2, WhileCreating, CitationMeans DEF Cache!Bodies
<1>5. /\ primary' \in [Cache(p)!Urls -> Cache(p)!Bodies \cup {"none"}]
      /\ support' \in [Cache(p)!SupportUrls -> Cache(p)!Bodies \cup {"none"}]
      /\ \A v \in Cache(p)!Urls : primary[v] # "none" => primary'[v] = primary[v]
      /\ \A v \in Cache(p)!SupportUrls : support[v] # "none" => support'[v] = support[v]
      /\ primary'[url] # "none"
  BY <1>1, <1>2, <1>3, <1>4 DEF Cache!Typed, Cache!None, Cache!Bodies
<1>6. Cache(p)!Typed'
  BY <1>1, <1>2, <1>3, <1>4, <1>5, RequestCounts DEF Cache!Typed, Cache!None
<1>7. Cache(p)!Created'
  <2> SUFFICES ASSUME NEW x, NEW i \in DOMAIN Cited[p], i \in DOMAIN rows, x = rows[i]
               PROVE  Cache(p)!Made(Cited[p][i], x)'
    BY <1>1, <1>2, CreatedStays
  <2>1. i \in DOMAIN Cited[p] /\ Cache(p)!Made(Cited[p][i], x)
    BY <1>2, WhileCreating
  <2>2. /\ Cited[p][i].url \in Cache(p)!Urls
        /\ Cited[p][i].resolver = "map" => Cited[p][i].map \in Cache(p)!SupportUrls
        /\ Cited[p][i].resolver = "topic" =>
             Cited[p][i].map \in Cache(p)!SupportUrls /\ Cited[p][i].pages \in Cache(p)!SupportUrls
    BY <2>1, CitationMeans
  <2> QED
    BY <1>3, <1>5, <2>1, <2>2, MadeStays
<1>8. Cache(p)!Counted'
  <2> SUFFICES ASSUME NEW v \in Cache(p)!Urls \ Cache(p)!SupportUrls
               PROVE  /\ requests'[v] <= MaxAttempts
                      /\ primary'[v] = "none" /\ v \notin failed => requests'[v] = (IF url = v THEN attempt' - 1 ELSE 0)
    BY <1>1 DEF Cache!Counted, Cache!Now, Cache!None, Cache!Urls, Cache!SupportUrls
  <2>1. requests'[v] <= MaxAttempts /\ (v # u => requests'[v] = requests[v])
    BY <1>1, RequestCounts
  <2> SUFFICES ASSUME primary'[v] = "none", v \notin failed
               PROVE  v # url /\ requests'[v] = 0
    BY <2>1
  <2>2. v # url /\ v # u /\ primary[v] = "none"
    BY <1>2, <1>5
  <2> QED
    BY <1>2, <1>3, <2>1, <2>2 DEF Cache!Counted, Cache!Now, Cache!None
<1>9. Cache(p)!Checked'
  BY <1>1, <1>2, <1>3 DEF Cache!Checked
<1> QED
  BY <1>6, <1>7, <1>8, <1>9 DEF Cache!IInv

\* A connection broke: it is tried again, or given up.
LEMMA BrokenIInv ==
    ASSUME NEW p \in CacheParts, Cache(p)!IInv, NEW u \in Cache(p)!Locators, Cache(p)!Broken(u)
    PROVE  Cache(p)!IInv'
<1>0. attempt \in Int /\ MaxAttempts \in Int
  BY CitationMeans DEF Cache!IInv, Cache!Typed
<1>1. Cache(p)!Request(u)
  BY DEF Cache!Broken
<1>2. CASE attempt >= MaxAttempts
  <2>1. Cache(p)!GiveUp(u)
    BY <1>0, <1>2 DEF Cache!Broken
  <2> QED
    BY <1>1, <2>1, GiveUpIInv
<1>3. CASE attempt < MaxAttempts
  <2>1. attempt' = attempt + 1 /\ UNCHANGED <<cphase, cat, primary, failed, support, rows, files>>
    BY <1>3 DEF Cache!Broken
  <2>2. Cache(p)!Typed /\ Cache(p)!Created /\ Cache(p)!Counted /\ Cache(p)!Checked /\ MaxAttempts \in Nat \ {0}
    BY CitationMeans DEF Cache!IInv
  <2>3. cphase = "create" /\ UNCHANGED ctampers
    BY <1>1, WantedMeans
  <2>4. Cache(p)!Typed'
    BY <1>1, <1>3, <2>1, <2>2, <2>3, RequestCounts DEF Cache!Typed
  <2>5. Cache(p)!Created'
    BY <2>1, <2>3, RowsStay, CreatedStays
  <2>6. Cache(p)!Counted'
    <3> SUFFICES ASSUME NEW v \in Cache(p)!Urls \ Cache(p)!SupportUrls
                 PROVE  /\ requests'[v] <= MaxAttempts
                        /\ primary[v] = "none" /\ v \notin failed =>
                             requests'[v] = (IF Cited[p][cat].url = v THEN attempt' - 1 ELSE 0)
      BY <2>1 DEF Cache!Counted, Cache!Now, Cache!None, Cache!Urls, Cache!SupportUrls
    <3>1. /\ requests'[v] <= MaxAttempts
          /\ u \notin Cache(p)!SupportUrls => requests'[u] = attempt
          /\ v # u => requests'[v] = requests[v]
      BY <1>1, RequestCounts
    <3>2. \/ u = Cited[p][cat].url
          \/ u \in Cache(p)!SupportUrls /\ primary[Cited[p][cat].url] # "none"
      BY <1>1, WantedMeans DEF Cache!Bodies
    <3> QED
      BY <2>1, <2>2, <2>3, <3>1, <3>2 DEF Cache!Counted, Cache!Now, Cache!None, Cache!Typed
  <2>7. Cache(p)!Checked'
    BY <2>1, <2>2, <2>3 DEF Cache!Checked
  <2> QED
    BY <2>4, <2>5, <2>6, <2>7 DEF Cache!IInv
<1> QED
  BY <1>0, <1>2, <1>3

\* A row is made of what is kept; the body of a map is kept for its topics, which
\* come later.
LEMMA ResolveIInv == ASSUME NEW p \in CacheParts, Cache(p)!IInv, Cache(p)!Resolve PROVE Cache(p)!IInv'
<1> DEFINE c == Cited[p][cat]
           b == primary[c.url]
           m == Cache(p)!Map(c)
           q == Cache(p)!Pages(c)
<1>1. PICK r : r = Cache(p)!Resolved(c, b, c.charset, m, q)
  OBVIOUS
<1>2. /\ cphase = "create" /\ c.url \notin failed /\ Cache(p)!Wanted = "none" /\ Cache(p)!Put(r)
      /\ support' = (IF c.resolver = "map" /\ r.verified THEN [support EXCEPT ![c.map] = r.body] ELSE support)
      /\ UNCHANGED <<primary, failed, requests, ctampers>>
  <2>1. r = Cache(p)!Resolved(c, b, c.charset, IF c.resolver = "topic" THEN support[c.map] ELSE "none",
                                    IF c.resolver = "topic" THEN support[c.pages] ELSE "none")
    BY <1>1 DEF Cache!Map, Cache!Pages, Cache!None
  <2> QED
    BY <2>1 DEF Cache!Resolve, Cache!Shared, Cache!Now, Cache!Kept, Cache!KeepMap, Cache!None
<1>3. /\ Cache(p)!Typed /\ Cache(p)!Counted /\ cat \in DOMAIN Cited[p] /\ c.url \in Cache(p)!Urls
      /\ c.url # "none" /\ c.resolver \in {"lines", "direct", "map", "topic"}
      /\ c.resolver = "map" => c.map = c.url /\ c.map \in Cache(p)!SupportUrls
  BY <1>2, WhileCreating, CitationMeans DEF Cache!IInv
<1>4. b # "none" /\ (c.resolver = "topic" => m # "none" /\ q # "none")
  <2>1. c.resolver = "topic" => c.map # "none" /\ c.pages # "none"
    BY <1>3, CitationMeans
  <2> QED
    BY <1>2, <1>3, <2>1 DEF Cache!Wanted, Cache!Now, Cache!Kept, Cache!None, Cache!Map, Cache!Pages
<1>5. /\ b \in Cache(p)!Bodies /\ m \in Cache(p)!Bodies \cup {"none"} /\ q \in Cache(p)!Bodies \cup {"none"}
  BY <1>3, <1>4, KeptMeans
<1>6. /\ r \in Cache(p)!RowSet
      /\ IF Cache(p)!Identity(c, b, m, q) THEN r.verified = TRUE /\ r.body = b
                                          ELSE r = Cache(p)!Unresolved(b) /\ r.verified = FALSE
  <2>1. ~Cache(p)!Identity(c, b, m, q) => r = Cache(p)!Unresolved(b)
    BY <1>1, <1>3, <1>5, ResolvedMeans
  <2>2. ~Cache(p)!Identity(c, b, m, q) => r.verified = FALSE
    BY <1>5, <2>1, EmptyMeans
  <2>3. r \in Cache(p)!RowSet /\ (Cache(p)!Identity(c, b, m, q) => r.verified = TRUE /\ r.body = b)
    BY <1>1, <1>3, <1>5, ResolvedMeans
  <2> QED
    BY <2>1, <2>2, <2>3
<1>7. /\ support' \in [Cache(p)!SupportUrls -> Cache(p)!Bodies \cup {"none"}]
      /\ \A v \in Cache(p)!SupportUrls :
           support'[v] = (IF c.resolver = "map" /\ r.verified /\ v = c.url THEN b ELSE support[v])
  BY <1>2, <1>3, <1>5, <1>6 DEF Cache!Typed, Cache!None
<1>8. ASSUME NEW i \in DOMAIN Cited[p], i = cat
      PROVE  Cache(p)!Made(Cited[p][i], r)'
  <2>1. CASE ~r.verified
    BY <1>5, <1>6, <2>1, NothingIsMade
  <2>2. CASE r.verified
    <3>1. Cache(p)!Identity(c, b, m, q)
      BY <1>6, <2>2
    <3>2. Cited[p][i] = c /\ primary'[c.url] = b
      BY <1>2, <1>8
    <3>3. Cache(p)!Map(Cited[p][i])' = m /\ Cache(p)!Pages(Cited[p][i])' = q
      BY <1>2, <1>8 DEF Cache!Map, Cache!Pages
    <3>4. c.resolver = "map" => support'[c.map] = b
      BY <1>3, <1>7, <2>2
    <3> HIDE DEF m, q
    <3> QED
      BY <1>1, <1>4, <2>2, <3>1, <3>2, <3>3, <3>4 DEF Cache!Made, Cache!None, Cache!Resolved, Cache!Identity, Cache!Unresolved, Cache!EmptyRow, Cache!Text
  <2> QED
    BY <2>1, <2>2
<1>9. ASSUME NEW i \in DOMAIN Cited[p], NEW x, i \in DOMAIN rows, x = rows[i]
      PROVE  Cache(p)!Made(Cited[p][i], x)'
  <2>1. i < cat /\ cat \in Int /\ i \in Int /\ Cache(p)!Made(Cited[p][i], x)
    BY <1>2, <1>3, <1>9, WhileCreating, CitationMeans
  <2>2. Cited[p][i].resolver = "topic" =>
          /\ Cited[p][i].map \in Cache(p)!SupportUrls /\ Cited[p][i].pages \in Cache(p)!SupportUrls
          /\ Cited[p][i].pages # c.url /\ Cited[p][i].map # c.url
    BY <1>3, <2>1, CitationMeans
  <2>3. Cited[p][i].resolver = "map" =>
          Cited[p][i].map \in Cache(p)!SupportUrls /\ Cited[p][i].map = Cited[p][i].url
    BY CitationMeans
  <2>4. Cited[p][i].resolver = "map" /\ support[Cited[p][i].map] = primary[Cited[p][i].url] =>
          support'[Cited[p][i].map] = support[Cited[p][i].map]
    BY <1>7, <2>3
  <2>5. Cited[p][i].resolver = "topic" =>
          /\ support'[Cited[p][i].map] = support[Cited[p][i].map]
          /\ support'[Cited[p][i].pages] = support[Cited[p][i].pages]
    BY <1>7, <2>2
  <2> QED
    BY <1>2, <1>3, <2>1, <2>4, <2>5, MadeStays
<1>10. \A x : \A i \in DOMAIN Cited[p] : (i = cat /\ x = r) \/ (i \in DOMAIN rows /\ x = rows[i]) =>
         Cache(p)!Made(Cited[p][i], x)'
  BY <1>8, <1>9
<1>11. primary'[c.url] # "none"
  BY <1>2, <1>4
<1> HIDE DEF b, m, q
<1> QED
  BY <1>2, <1>3, <1>6, <1>7, <1>10, <1>11, CachePut DEF Cache!Typed, Cache!Counted, Cache!None

\* A row is loaded: one that was made is accepted.
LEMMA LoadIInv == ASSUME NEW p \in CacheParts, Cache(p)!IInv, Cache(p)!Load PROVE Cache(p)!IInv'
<1>1. /\ cphase = "load" /\ UNCHANGED <<attempt, primary, failed, support, rows, files, requests, ctampers>>
      /\ IF ~Cache(p)!RowOK(Cited[p][cat], rows[cat]) THEN cphase' = "refused" /\ UNCHANGED cat
         ELSE IF cat < Len(rows) THEN cat' = cat + 1 /\ UNCHANGED cphase
         ELSE cphase' = (IF Cache(p)!Closed THEN "loaded" ELSE "refused") /\ UNCHANGED cat
  BY DEF Cache!Load, Cache!Now
<1>2. Cache(p)!Typed /\ Cache(p)!Created /\ Cache(p)!Counted /\ Cache(p)!Checked
  BY DEF Cache!IInv
<1>3. /\ rows \in Seq(Cache(p)!RowSet) /\ Len(rows) = Len(Cited[p]) /\ Len(Cited[p]) \in Nat
      /\ DOMAIN rows = 1..Len(Cited[p]) /\ cat \in 1..Len(Cited[p]) /\ DOMAIN Cited[p] = 1..Len(Cited[p])
  BY <1>1, <1>2, CitationMeans DEF Cache!Typed
<1>4. \A i \in DOMAIN rows : ctampers = 0 => Cache(p)!RowOK(Cited[p][i], rows[i])
  <2> SUFFICES ASSUME NEW i \in DOMAIN rows, ctampers = 0
               PROVE  Cache(p)!RowOK(Cited[p][i], rows[i])
    OBVIOUS
  <2>1. Cache(p)!Made(Cited[p][i], rows[i]) /\ Cache(p)!Named(rows[i]) \subseteq files
    BY <1>2 DEF Cache!Created, Cache!Closed
  <2> QED
    BY <1>2, <1>3, <2>1, MadeIsOK
<1>5. Cache(p)!Typed'
  BY <1>1, <1>2, <1>3 DEF Cache!Typed
<1>6. Cache(p)!Created'
  <2>1. Cache(p)!Closed' = Cache(p)!Closed
    BY <1>1 DEF Cache!Closed
  <2>2. \A i \in DOMAIN rows : Cache(p)!Made(Cited[p][i], rows[i]) => Cache(p)!Made(Cited[p][i], rows[i])'
    BY <1>1 DEF Cache!Made, Cache!Map, Cache!Pages
  <2> QED
    BY <1>1, <1>2, <2>1, <2>2 DEF Cache!Created
<1>7. Cache(p)!Counted'
  BY <1>1, <1>2 DEF Cache!Counted, Cache!Urls, Cache!SupportUrls, Cache!None
<1>8. Cache(p)!Checked'
  <2>1. CASE ~Cache(p)!RowOK(Cited[p][cat], rows[cat])
    BY <1>1, <1>2, <1>3, <1>4, <2>1 DEF Cache!Checked, Cache!Typed
  <2>2. CASE Cache(p)!RowOK(Cited[p][cat], rows[cat]) /\ cat < Len(rows)
    <3>1. \A i \in 1..cat : Cache(p)!RowOK(Cited[p][i], rows[i])
      BY <1>1, <1>2, <1>3, <2>2 DEF Cache!Checked
    <3>2. \A i \in 1..cat : Cache(p)!RowOK(Cited[p][i], rows[i])'
      BY <1>1, <3>1 DEF Cache!RowOK
    <3> QED
      BY <1>1, <1>3, <2>2, <3>2 DEF Cache!Checked
  <2>3. CASE Cache(p)!RowOK(Cited[p][cat], rows[cat]) /\ cat = Len(rows)
    <3>1. \A i \in DOMAIN rows : Cache(p)!RowOK(Cited[p][i], rows[i])
      BY <1>1, <1>2, <1>3, <2>3 DEF Cache!Checked
    <3>2. \A i \in DOMAIN rows' : Cache(p)!RowOK(Cited[p][i], rows[i])'
      BY <1>1, <3>1 DEF Cache!RowOK
    <3>3. Cache(p)!Closed' = Cache(p)!Closed
      BY <1>1 DEF Cache!Closed
    <3>4. cphase' = (IF Cache(p)!Closed THEN "loaded" ELSE "refused") /\ UNCHANGED ctampers
      BY <1>1, <1>3, <2>3
    <3>5. ~Cache(p)!Closed => ctampers > 0
      BY <1>2 DEF Cache!Created, Cache!Typed
    <3> QED
      BY <3>2, <3>3, <3>4, <3>5 DEF Cache!Checked
  <2> QED
    BY <1>3, <2>1, <2>2, <2>3
<1> QED
  BY <1>5, <1>6, <1>7, <1>8 DEF Cache!IInv

\* The cache is changed on disk, before it is loaded.
LEMMA DamageIInv ==
    ASSUME NEW p \in CacheParts, Cache(p)!IInv,
           \/ \E f \in files : Cache(p)!Damage(f)
           \/ \E i \in DOMAIN rows : Cache(p)!Rewrite(i)
    PROVE  Cache(p)!IInv'
<1>1. /\ cphase = "load" /\ cat = 1 /\ ctampers' = ctampers + 1
      /\ UNCHANGED <<cphase, cat, attempt, primary, failed, support, requests>>
  BY DEF Cache!Damage, Cache!Rewrite
<1>2. Cache(p)!Typed /\ Cache(p)!Created /\ Cache(p)!Counted /\ Cache(p)!Checked
  BY DEF Cache!IInv
<1>3. rows' \in Seq(Cache(p)!RowSet) /\ Len(rows') = Len(rows)
  <2>1. CASE UNCHANGED rows
    BY <1>2, <2>1 DEF Cache!Typed
  <2>2. CASE \E i \in DOMAIN rows : Cache(p)!Rewrite(i)
    <3>1. PICK i \in DOMAIN rows, b \in Cache(p)!Bodies \cup {"none"}, cs \in Cache(p)!Charsets, x \in BOOLEAN :
            rows' \in {[rows EXCEPT ![i].body = b], [rows EXCEPT ![i].map = b], [rows EXCEPT ![i].pages = b],
                       [rows EXCEPT ![i].text = b], [rows EXCEPT ![i].parser = cs],
                       [rows EXCEPT ![i].available = x]}
      BY <2>2 DEF Cache!Rewrite, Cache!None
    <3>2. rows[i] \in Cache(p)!RowSet /\ rows \in Seq(Cache(p)!RowSet)
      BY <1>2 DEF Cache!Typed
    <3>3. PICK r \in Cache(p)!RowSet : rows' = [rows EXCEPT ![i] = r]
      <4>1. /\ [rows[i] EXCEPT !.body = b] \in Cache(p)!RowSet /\ [rows[i] EXCEPT !.map = b] \in Cache(p)!RowSet
            /\ [rows[i] EXCEPT !.pages = b] \in Cache(p)!RowSet /\ [rows[i] EXCEPT !.text = b] \in Cache(p)!RowSet
            /\ [rows[i] EXCEPT !.parser = cs] \in Cache(p)!RowSet /\ [rows[i] EXCEPT !.available = x] \in Cache(p)!RowSet
        BY <3>2 DEF Cache!RowSet, Cache!None
      <4>2. rows' \in {[rows EXCEPT ![i] = [rows[i] EXCEPT !.body = b]], [rows EXCEPT ![i] = [rows[i] EXCEPT !.map = b]],
                       [rows EXCEPT ![i] = [rows[i] EXCEPT !.pages = b]], [rows EXCEPT ![i] = [rows[i] EXCEPT !.text = b]],
                       [rows EXCEPT ![i] = [rows[i] EXCEPT !.parser = cs]],
                       [rows EXCEPT ![i] = [rows[i] EXCEPT !.available = x]]}
        BY <3>1
      <4> QED
        BY <4>1, <4>2
    <3> QED
      BY <3>2, <3>3
  <2> QED
    BY <2>1, <2>2 DEF Cache!Damage
<1>4. Cache(p)!Typed'
  BY <1>1, <1>2, <1>3 DEF Cache!Typed
<1>5. Cache(p)!Created'
  BY <1>1, <1>2 DEF Cache!Created, Cache!Typed
<1>6. Cache(p)!Counted'
  BY <1>1, <1>2 DEF Cache!Counted, Cache!Urls, Cache!SupportUrls, Cache!None
<1>7. Cache(p)!Checked'
  BY <1>1 DEF Cache!Checked
<1> QED
  BY <1>4, <1>5, <1>6, <1>7 DEF Cache!IInv

\* Every step of the cache keeps its invariant.
LEMMA CacheStep == ASSUME NEW p \in CacheParts, Cache(p)!IInv, Cache(p)!Next PROVE Cache(p)!IInv'
<1>1. ASSUME NEW u \in Cache(p)!Locators, NEW b \in Cache(p)!Bodies, Cache(p)!Answer(u, b)
      PROVE  Cache(p)!IInv'
  BY <1>1, AnswerIInv
<1>2. ASSUME NEW u \in Cache(p)!Locators, Cache(p)!Broken(u)
      PROVE  Cache(p)!IInv'
  BY <1>2, BrokenIInv
<1>3. ASSUME NEW u \in Cache(p)!Locators, Cache(p)!Rejected(u)
      PROVE  Cache(p)!IInv'
  BY <1>3, GiveUpIInv DEF Cache!Rejected
<1>4. CASE Cache(p)!Skip
  BY <1>4, SkipIInv
<1>5. CASE Cache(p)!Resolve
  BY <1>5, ResolveIInv
<1>6. CASE Cache(p)!Load
  BY <1>6, LoadIInv
<1>7. CASE \/ \E f \in files : Cache(p)!Damage(f)
           \/ \E i \in DOMAIN rows : Cache(p)!Rewrite(i)
  BY <1>7, DamageIInv
<1> QED
  BY <1>1, <1>2, <1>3, <1>4, <1>5, <1>6, <1>7 DEF Cache!Next, Cache!Work

\* And so does a step of which the cache takes no part.
LEMMA CacheStutter == ASSUME NEW p \in CacheParts, Cache(p)!IInv, UNCHANGED cvars PROVE Cache(p)!IInv'
<1>1. Cache(p)!Typed' /\ Cache(p)!Counted'
  BY DEF cvars, Cache!IInv, Cache!Typed, Cache!Counted, Cache!Now, Cache!Urls, Cache!SupportUrls, Cache!None
<1>2. Cache(p)!Created'
  <2>1. Cache(p)!Closed' = Cache(p)!Closed /\ UNCHANGED <<rows, ctampers>>
    BY DEF cvars, Cache!Closed
  <2>2. \A i \in DOMAIN rows : Cache(p)!Made(Cited[p][i], rows[i]) => Cache(p)!Made(Cited[p][i], rows[i])'
    BY DEF cvars, Cache!Made, Cache!Map, Cache!Pages
  <2> QED
    BY <2>1, <2>2 DEF Cache!IInv, Cache!Created
<1>3. Cache(p)!Checked'
  BY DEF cvars, Cache!IInv, Cache!Checked, Cache!Closed, Cache!RowOK
<1> QED
  BY <1>1, <1>2, <1>3 DEF Cache!IInv

\* Where every document is available, what the rows record for a locator is what
\* was kept for it: a map that is cited itself was kept for its topics too.
LEMMA RecordedMeans ==
    ASSUME NEW p \in CacheParts, Cache(p)!IInv, cphase # "create", Cache(p)!AllAvailable, ctampers = 0
    PROVE  /\ DOMAIN rows = DOMAIN Cited[p]
           /\ \A i \in DOMAIN Cited[p] :
                /\ Cache(p)!Recorded(Cited[p][i].url) = {primary[Cited[p][i].url]}
                /\ Cited[p][i].resolver = "topic" =>
                     /\ Cache(p)!Recorded(Cited[p][i].map) = {support[Cited[p][i].map]}
                     /\ Cache(p)!Recorded(Cited[p][i].pages) = {support[Cited[p][i].pages]}
                /\ rows[i] = Cache(p)!Resolved(Cited[p][i], primary[Cited[p][i].url], Cited[p][i].charset,
                                               Cache(p)!Map(Cited[p][i]), Cache(p)!Pages(Cited[p][i]))
<1>1. Cache(p)!Typed /\ \A i \in DOMAIN rows : Cache(p)!Made(Cited[p][i], rows[i])
  BY DEF Cache!IInv, Cache!Created
<1>2. DOMAIN rows = DOMAIN Cited[p]
  BY <1>1, CitationMeans DEF Cache!Typed
<1>3. ASSUME NEW i \in DOMAIN Cited[p]
      PROVE  /\ rows[i] = Cache(p)!Resolved(Cited[p][i], primary[Cited[p][i].url], Cited[p][i].charset,
                                            Cache(p)!Map(Cited[p][i]), Cache(p)!Pages(Cited[p][i]))
             /\ rows[i].body = primary[Cited[p][i].url]
             /\ Cited[p][i].resolver = "topic" =>
                  rows[i].map = support[Cited[p][i].map] /\ rows[i].pages = support[Cited[p][i].pages]
             /\ Cited[p][i].resolver = "map" => support[Cited[p][i].url] = primary[Cited[p][i].url]
  <2>1. rows[i].available /\ Cache(p)!Made(Cited[p][i], rows[i])
    BY <1>1, <1>2 DEF Cache!AllAvailable
  <2>2. rows[i].verified
    BY <2>1, EmptyMeans DEF Cache!Made
  <2>3. /\ primary[Cited[p][i].url] # "none"
        /\ Cache(p)!Identity(Cited[p][i], primary[Cited[p][i].url], Cache(p)!Map(Cited[p][i]), Cache(p)!Pages(Cited[p][i]))
        /\ rows[i] = Cache(p)!Resolved(Cited[p][i], primary[Cited[p][i].url], Cited[p][i].charset,
                                       Cache(p)!Map(Cited[p][i]), Cache(p)!Pages(Cited[p][i]))
        /\ Cited[p][i].resolver = "map" => support[Cited[p][i].url] = primary[Cited[p][i].url]
    BY <2>1, <2>2, CitationMeans DEF Cache!Made, Cache!None
  <2>4. /\ Cache(p)!Map(Cited[p][i]) \in Cache(p)!Bodies \cup {"none"}
        /\ Cache(p)!Pages(Cited[p][i]) \in Cache(p)!Bodies \cup {"none"}
        /\ primary[Cited[p][i].url] \in Cache(p)!Bodies
    BY <1>1, <2>3, KeptMeans
  <2>5. /\ rows[i].body = primary[Cited[p][i].url] /\ rows[i].map = Cache(p)!Map(Cited[p][i])
        /\ rows[i].pages = Cache(p)!Pages(Cited[p][i])
    BY <2>3, <2>4, ResolvedMeans
  <2> QED
    BY <2>3, <2>5 DEF Cache!Map, Cache!Pages
<1>4. ASSUME NEW u, NEW b
      PROVE  b \in Cache(p)!Recorded(u) <=>
               \E i \in DOMAIN Cited[p] :
                 \/ Cited[p][i].url = u /\ b = rows[i].body
                 \/ Cited[p][i].map = u /\ Cited[p][i].resolver = "topic" /\ b = rows[i].map
                 \/ Cited[p][i].pages = u /\ Cited[p][i].resolver = "topic" /\ b = rows[i].pages
  BY <1>2 DEF Cache!Recorded
<1>5. ASSUME NEW i \in DOMAIN Cited[p]
      PROVE  Cache(p)!Recorded(Cited[p][i].url) = {primary[Cited[p][i].url]}
  <2>1. primary[Cited[p][i].url] \in Cache(p)!Recorded(Cited[p][i].url)
    BY <1>3, <1>4
  <2>2. ASSUME NEW b \in Cache(p)!Recorded(Cited[p][i].url) PROVE b = primary[Cited[p][i].url]
    <3>1. PICK j \in DOMAIN Cited[p] :
            \/ Cited[p][j].url = Cited[p][i].url /\ b = rows[j].body
            \/ Cited[p][j].map = Cited[p][i].url /\ Cited[p][j].resolver = "topic" /\ b = rows[j].map
            \/ Cited[p][j].pages = Cited[p][i].url /\ Cited[p][j].resolver = "topic" /\ b = rows[j].pages
      BY <1>4
    <3>2. Cited[p][j].resolver = "topic" =>
            /\ Cited[p][j].pages # Cited[p][i].url
            /\ Cited[p][j].map = Cited[p][i].url => Cited[p][i].resolver = "map"
      BY CitationMeans
    <3> QED
      BY <1>3, <3>1, <3>2
  <2> QED
    BY <2>1, <2>2
<1>6. ASSUME NEW i \in DOMAIN Cited[p], Cited[p][i].resolver = "topic"
      PROVE  /\ Cache(p)!Recorded(Cited[p][i].map) = {support[Cited[p][i].map]}
             /\ Cache(p)!Recorded(Cited[p][i].pages) = {support[Cited[p][i].pages]}
  <2>1. /\ support[Cited[p][i].map] \in Cache(p)!Recorded(Cited[p][i].map)
        /\ support[Cited[p][i].pages] \in Cache(p)!Recorded(Cited[p][i].pages)
    BY <1>3, <1>4, <1>6
  <2>2. ASSUME NEW b \in Cache(p)!Recorded(Cited[p][i].map) PROVE b = support[Cited[p][i].map]
    <3>1. PICK j \in DOMAIN Cited[p] :
            \/ Cited[p][j].url = Cited[p][i].map /\ b = rows[j].body
            \/ Cited[p][j].map = Cited[p][i].map /\ Cited[p][j].resolver = "topic" /\ b = rows[j].map
            \/ Cited[p][j].pages = Cited[p][i].map /\ Cited[p][j].resolver = "topic" /\ b = rows[j].pages
      BY <1>4
    <3>2. /\ Cited[p][j].resolver = "topic" => Cited[p][j].pages # Cited[p][i].map
          /\ Cited[p][j].url = Cited[p][i].map => Cited[p][j].resolver = "map"
      BY <1>6, CitationMeans
    <3> QED
      BY <1>3, <3>1, <3>2
  <2>3. ASSUME NEW b \in Cache(p)!Recorded(Cited[p][i].pages) PROVE b = support[Cited[p][i].pages]
    <3>1. PICK j \in DOMAIN Cited[p] :
            \/ Cited[p][j].url = Cited[p][i].pages /\ b = rows[j].body
            \/ Cited[p][j].map = Cited[p][i].pages /\ Cited[p][j].resolver = "topic" /\ b = rows[j].map
            \/ Cited[p][j].pages = Cited[p][i].pages /\ Cited[p][j].resolver = "topic" /\ b = rows[j].pages
      BY <1>4
    <3>2. Cited[p][i].pages # Cited[p][j].url /\ Cited[p][i].pages # Cited[p][j].map
      BY <1>6, CitationMeans
    <3> QED
      BY <1>3, <3>1, <3>2
  <2> QED
    BY <2>1, <2>2, <2>3
<1> QED
  BY <1>2, <1>3, <1>5, <1>6

\* A cache that was loaded holds what is pinned.
LEMMA LoadedMeans ==
    ASSUME NEW p \in CacheParts, Cache(p)!IInv
    PROVE  Cache(p)!LoadedIsPinned
<1> SUFFICES ASSUME cphase = "loaded"
             PROVE  /\ \A f \in files : f.dir # "stray" /\ f.name = f.content
                    /\ \A i \in DOMAIN rows : rows[i].available =>
                         /\ Cited[p][i].resolver \in {"lines", "direct"} => rows[i].body = "pinned"
                         /\ Cited[p][i].resolver = "lines" /\ Cited[p][i].inspect => rows[i].text = "pinned"
                         /\ Cited[p][i].resolver = "topic" => "wrong" \notin {rows[i].map, rows[i].pages}
  BY DEF Cache!LoadedIsPinned
<1>1. Cache(p)!Closed /\ \A i \in DOMAIN rows : Cache(p)!RowOK(Cited[p][i], rows[i])
  BY DEF Cache!IInv, Cache!Checked
<1>2. \A f \in files : f.dir # "stray" /\ f.name = f.content
  BY <1>1, NamedMeans DEF Cache!Closed
<1>3. ASSUME NEW i \in DOMAIN rows, rows[i].available
      PROVE  /\ Cited[p][i].resolver \in {"lines", "direct"} => rows[i].body = "pinned"
             /\ Cited[p][i].resolver = "lines" /\ Cited[p][i].inspect => rows[i].text = "pinned"
             /\ Cited[p][i].resolver = "topic" => rows[i].map # "wrong" /\ rows[i].pages # "wrong"
  BY <1>1, <1>3 DEF Cache!RowOK, Cache!Identity
<1> QED
  BY <1>2, <1>3

\* What the run checks of a cache follows.
LEMMA CacheProperties ==
    ASSUME NEW p \in CacheParts, Cache(p)!IInv
    PROVE  /\ Cache(p)!TypeOK /\ Cache(p)!OneResponsePerLocator /\ Cache(p)!ReplayReproduces
           /\ Cache(p)!CreatedLoads /\ Cache(p)!LoadedIsPinned /\ Cache(p)!RequestsAreBounded
<1>1. Cache(p)!Typed /\ Cache(p)!Created /\ Cache(p)!Counted /\ Cache(p)!Checked
  BY DEF Cache!IInv
<1>2. Cache(p)!TypeOK
  <2>1. ctampers = 0 => \A f \in files : f.name = f.content
    BY <1>1, NamedMeans DEF Cache!Created, Cache!Closed
  <2>2. \A i \in DOMAIN rows : rows[i] \in Cache(p)!RowSet
    BY <1>1 DEF Cache!Typed
  <2> QED
    BY <1>1, <2>1, <2>2 DEF Cache!Typed, Cache!TypeOK
<1>3. Cache(p)!OneResponsePerLocator
  <2> SUFFICES ASSUME cphase # "create", Cache(p)!AllAvailable, ctampers = 0,
                      NEW u \in Cache(p)!Locators, NEW b \in Cache(p)!Recorded(u), NEW d \in Cache(p)!Recorded(u)
               PROVE  b = d
    BY DEF Cache!OneResponsePerLocator
  <2>1. \E i \in DOMAIN Cited[p] :
          \/ Cited[p][i].url = u
          \/ Cited[p][i].resolver = "topic" /\ Cited[p][i].map = u
          \/ Cited[p][i].resolver = "topic" /\ Cited[p][i].pages = u
    BY RecordedMeans DEF Cache!Recorded
  <2>2. ASSUME NEW i \in DOMAIN Cited[p]
        PROVE  /\ Cache(p)!Recorded(Cited[p][i].url) = {primary[Cited[p][i].url]}
               /\ Cited[p][i].resolver = "topic" =>
                    /\ Cache(p)!Recorded(Cited[p][i].map) = {support[Cited[p][i].map]}
                    /\ Cache(p)!Recorded(Cited[p][i].pages) = {support[Cited[p][i].pages]}
    BY RecordedMeans
  <2>3. \E x : Cache(p)!Recorded(u) = {x}
    BY <2>1, <2>2
  <2> QED
    BY <2>3
<1>4. Cache(p)!ReplayReproduces
  <2> SUFFICES ASSUME cphase = "loaded", Cache(p)!AllAvailable, ctampers = 0, NEW i \in DOMAIN rows
               PROVE  LET again == Cache(p)!Replayed(Cited[p][i])
                      IN  IF rows[i].parser \in {"none", "utf-8"} THEN again = rows[i]
                          ELSE /\ <<again.body, again.map, again.pages>> = <<rows[i].body, rows[i].map, rows[i].pages>>
                               /\ again.parser # rows[i].parser
    BY DEF Cache!ReplayReproduces, Cache!None
  <2>1. /\ i \in DOMAIN Cited[p]
        /\ Cache(p)!Recorded(Cited[p][i].url) = {primary[Cited[p][i].url]}
        /\ Cited[p][i].resolver = "topic" =>
             /\ Cache(p)!Recorded(Cited[p][i].map) = {support[Cited[p][i].map]}
             /\ Cache(p)!Recorded(Cited[p][i].pages) = {support[Cited[p][i].pages]}
        /\ rows[i] = Cache(p)!Resolved(Cited[p][i], primary[Cited[p][i].url], Cited[p][i].charset,
                                       Cache(p)!Map(Cited[p][i]), Cache(p)!Pages(Cited[p][i]))
    BY RecordedMeans
  <2>2. \A x : (CHOOSE b \in {x} : TRUE) = x
    OBVIOUS
  <2>3. Cache(p)!Replayed(Cited[p][i]) =
          Cache(p)!Resolved(Cited[p][i], primary[Cited[p][i].url], "utf-8",
                            IF Cited[p][i].resolver = "topic" THEN support[Cited[p][i].map] ELSE "none",
                            IF Cited[p][i].resolver = "topic" THEN support[Cited[p][i].pages] ELSE "none")
    <3>1. CASE Cited[p][i].resolver = "topic"
      BY <2>1, <2>2, <3>1 DEF Cache!Replayed
    <3>2. CASE Cited[p][i].resolver # "topic"
      BY <2>1, <2>2, <3>2 DEF Cache!Replayed, Cache!None
    <3> QED
      BY <3>1, <3>2
  <2> DEFINE c == Cited[p][i]
             b == primary[c.url]
             m == Cache(p)!Map(c)
             q == Cache(p)!Pages(c)
  <2>4. /\ Cache(p)!Replayed(c) = Cache(p)!Resolved(c, b, "utf-8", m, q)
        /\ rows[i] = Cache(p)!Resolved(c, b, c.charset, m, q)
    BY <2>1, <2>3 DEF Cache!Map, Cache!Pages, Cache!None
  <2>5. c.charset \in {"utf-8", "ascii", "latin"} /\ i \in DOMAIN Cited[p]
    BY <2>1, CitationMeans
  <2> HIDE DEF b, m, q, c
  <2>6. CASE ~Cache(p)!Identity(c, b, m, q)
    <3>1. /\ Cache(p)!Replayed(c) = Cache(p)!Unresolved(b) /\ rows[i] = Cache(p)!Unresolved(b)
          /\ Cache(p)!Unresolved(b).parser = "none"
      BY <2>4, <2>6 DEF Cache!Resolved, Cache!Unresolved, Cache!EmptyRow, Cache!None
    <3> QED
      BY <3>1 DEF c
  <2>7. CASE Cache(p)!Identity(c, b, m, q)
    <3> DEFINE row(cs) == Cache(p)!Resolved(c, b, cs, m, q)
               text(cs) == Cache(p)!Text(c, b, cs)
    <3>1. \A cs : row(cs) = [body |-> b, map |-> m, pages |-> q, text |-> text(cs), verified |-> TRUE,
                             available |-> ~c.inspect \/ text(cs) # "none",
                             parser |-> IF text(cs) = "none" \/ c.resolver = "lines" THEN "none" ELSE cs]
      BY <2>7 DEF Cache!Resolved, Cache!None
    <3> DEFINE again == Cache(p)!Replayed(c)
               old == rows[i]
    <3>2. again = row("utf-8") /\ old = row(c.charset)
      BY <2>4
    <3>3. c.charset # "utf-8" => c.charset \notin {"none", "utf-8"}
      BY <2>5
    <3>4. c.resolver = "lines" => text("utf-8") = text(c.charset)
      BY DEF Cache!Text
    <3>5. text(c.charset) = "none" => text("utf-8") = "none"
      BY DEF Cache!Text, Cache!None
    <3> HIDE DEF row, text, again, old
    <3>6. /\ again.body = old.body /\ again.map = old.map /\ again.pages = old.pages
          /\ again.parser \in {"none", "utf-8"} /\ old.parser \in {"none", c.charset}
      BY <3>1, <3>2
    <3>7. CASE old.parser \in {"none", "utf-8"}
      <4>1. CASE c.charset = "utf-8"
        BY <3>2, <3>7, <4>1 DEF again, old, c
      <4>2. CASE c.charset # "utf-8"
        <5>1. text("utf-8") = text(c.charset) /\ (text(c.charset) = "none" \/ c.resolver = "lines")
          BY <3>1, <3>2, <3>3, <3>4, <3>5, <3>7, <4>2
        <5>2. row("utf-8") = row(c.charset)
          BY <3>1, <5>1
        <5> QED
          BY <3>2, <3>7, <5>2 DEF again, old, c
      <4> QED
        BY <4>1, <4>2
    <3>8. CASE old.parser \notin {"none", "utf-8"}
      <4>1. again.parser # old.parser
        BY <3>6, <3>8
      <4> QED
        BY <3>6, <3>8, <4>1 DEF again, old, c
    <3> QED
      BY <3>7, <3>8
  <2> QED
    BY <2>6, <2>7
<1>5. Cache(p)!CreatedLoads
  BY <1>1 DEF Cache!Checked, Cache!CreatedLoads
<1>6. Cache(p)!RequestsAreBounded
  BY <1>1 DEF Cache!Counted, Cache!RequestsAreBounded
<1> QED
  BY <1>2, <1>3, <1>4, <1>5, <1>6, LoadedMeans

\* The invariant of the cache that a behaviour is about.
CacheInv == \A p \in CacheParts : part = p => Cache(p)!IInv

\* tools/run_knowledge_review.py, create_review_cache and load_review_cache: the
\* invariant holds in every reachable state, for any sorted citations, number of
\* attempts and changes on disk.
THEOREM CacheInvariant == MCSpec => []CacheInv
<1>1. MCInit => CacheInv
  <2> SUFFICES ASSUME MCInit, NEW p \in CacheParts, part = p PROVE Cache(p)!IInv
    BY DEF CacheInv
  <2>1. Cache(p)!Init
    BY DEF MCInit
  <2> QED
    BY <2>1, CacheInit
<1>2. CacheInv /\ [MCNext]_mcvars => CacheInv'
  <2> SUFFICES ASSUME CacheInv, [MCNext]_mcvars, NEW p \in CacheParts, part' = p PROVE Cache(p)!IInv'
    BY DEF CacheInv
  <2>1. part = p /\ Cache(p)!IInv
    BY DEF MCNext, mcvars, CacheInv
  <2>2. UNCHANGED cvars \/ Cache(p)!Next
    BY <2>1 DEF MCNext, mcvars
  <2> QED
    BY <2>1, <2>2, CacheStep, CacheStutter
<1> QED
  BY <1>1, <1>2, PTL DEF MCSpec

\* tools/run_knowledge_review.py: the available citations of a locator record one
\* response, a complete cache is made again from itself, what was created loads, what
\* was loaded, though it was rewritten on disk, holds the pinned bytes, and a document
\* is requested a bounded number of times however many citations share it.
THEOREM CacheIsAlwaysPinned == MCSpec => []CacheIsPinned
<1>1. CacheInv => CacheIsPinned
  BY CacheProperties DEF CacheInv, CacheIsPinned
<1> QED
  BY <1>1, CacheInvariant, PTL

===============================================================================
