-------------------------- MODULE SuiteReplayAudit --------------------------
(***************************************************************************)
(* The replay of a knowledge-review suite by the release audit,             *)
(* _replay_knowledge_review_suite_evidence_impl of tools/audit_release.py,   *)
(* and the comparison of the packs with what it rebuilds.                    *)
(*                                                                          *)
(* A suite is two protocols of some shards.  Private evidence has, for every *)
(* shard, the raw stream of its invocation and what was derived from it; the *)
(* checkout has a result and a receipt for every protocol.  Nothing derived  *)
(* is believed: the audit derives it again from the raw streams.  Files of   *)
(* the evidence and of the checkout may be replaced before and while it      *)
(* reads them, each is read once.                                           *)
(***************************************************************************)
EXTENDS Naturals, Sequences, FiniteSets

CONSTANTS
    Shards,     \* sequence of shards, SHARD_ORDER
    MaxEdits    \* bound: replacements of files

VARIABLES
    tree,      \* version of the review-bound sources of the checkout
    packs,     \* what the packs attest: the material of a suite
    public,    \* protocol -> [result, receipt]
    caches,    \* protocol -> version of the documents in the full cache
    inv,       \* protocol -> shard -> [raw, sanitized, process, envelope]
    manifest,  \* suite-evidence.json and the pair seal: [runtime, full, rows, seal]
    pc, proto, shard,  \* where the audit is
    got,       \* what it has read
    issues,
    edits

ShardsOK == Shards \in Seq({Shards[i] : i \in DOMAIN Shards}) \ {<< >>} /\ MaxEdits \in Nat

disk == <<tree, packs, public, caches, inv, manifest>>
vars == <<disk, pc, proto, shard, got, issues, edits>>

Order == <<"semantic", "adversarial">>
Protocols == {Order[i] : i \in 1..2}
ShardSet == {Shards[i] : i \in DOMAIN Shards}
Versions == 1..2

\* An invocation's stream: the snapshot its prompt names, the documents it was
\* given, whether it read all it was assigned, and its verdict.
Streams == [snap : Versions, docs : Versions, whole : BOOLEAN, ok : BOOLEAN]
Others(x) ==
    {[x EXCEPT !.snap = 3 - @], [x EXCEPT !.docs = 3 - @], [x EXCEPT !.whole = ~@], [x EXCEPT !.ok = ~@]}

-------------------------------------------------------------------------------
(* What is derived from the raw streams.                                       *)

Sanitize(raw) == raw
Process(raw, runtime) == [out |-> raw, runtime |-> runtime]
Envelope(raw, runtime) == [of |-> raw, runtime |-> runtime]

Invocation(raw, runtime) ==
    [raw |-> raw, sanitized |-> Sanitize(raw), process |-> Process(raw, runtime),
     envelope |-> Envelope(raw, runtime)]

Row(i) == [raw |-> i.raw, sanitized |-> i.sanitized, process |-> i.process]

\* aggregate_shard_results: one verdict for every shard.
Aggregate(streams) == [s \in ShardSet |-> streams[s].ok]

Receipt(p, snap, docs, runtime, streams) ==
    [protocol |-> p, snap |-> snap, docs |-> docs, runtime |-> runtime,
     invocations |-> [s \in ShardSet |-> Envelope(streams[s], runtime)]]

PairSeal(receipts) == receipts
Material(snap, seal) == [sources |-> snap, seal |-> seal]

\* A suite as the executor leaves it, whole and approved.
Honest ==
    LET raw == [snap |-> 1, docs |-> 1, whole |-> TRUE, ok |-> TRUE]
        streams == [s \in ShardSet |-> raw]
        receipts == [p \in Protocols |-> Receipt(p, 1, 1, 1, streams)]
    IN [inv |-> [p \in Protocols |-> [s \in ShardSet |-> Invocation(raw, 1)]],
        public |-> [p \in Protocols |-> [result |-> Aggregate(streams), receipt |-> receipts[p]]],
        manifest |-> [runtime |-> 1, full |-> [p \in Protocols |-> [snap |-> 1, docs |-> 1]],
                      rows |-> [p \in Protocols |-> [s \in ShardSet |-> Row(Invocation(raw, 1))]],
                      seal |-> PairSeal(receipts)],
        packs |-> Material(1, PairSeal(receipts))]

-------------------------------------------------------------------------------
(* Replacements.                                                               *)

Edit == pc # "done" /\ edits < MaxEdits /\ edits' = edits + 1 /\ UNCHANGED <<pc, proto, shard, got, issues>>

Commit == Edit /\ tree' = 3 - tree /\ UNCHANGED <<packs, public, caches, inv, manifest>>

\* One file of the private evidence.
ReplaceFile(p, s) ==
    /\ Edit
    /\ \E x \in Others(inv[p][s].raw) :
         \/ inv' = [inv EXCEPT ![p][s].raw = x]
         \/ inv' = [inv EXCEPT ![p][s].sanitized = x]
         \/ inv' = [inv EXCEPT ![p][s].process.out = x]
         \/ inv' = [inv EXCEPT ![p][s].process.runtime = 3 - @]
         \/ inv' = [inv EXCEPT ![p][s].envelope.of = x]
    /\ UNCHANGED <<tree, packs, public, caches, manifest>>

\* A shard is run again, perhaps with another runtime, and its evidence rewritten.
RunAgain(p, s) ==
    /\ Edit
    /\ \E x \in Others(inv[p][s].raw) \cup {inv[p][s].raw}, r \in Versions :
         /\ x # inv[p][s].raw \/ r # inv[p][s].process.runtime
         /\ inv' = [inv EXCEPT ![p][s] = Invocation(x, r)]
         /\ manifest' = [manifest EXCEPT !.rows[p][s] = Row(Invocation(x, r))]
    /\ UNCHANGED <<tree, packs, public, caches>>

ReplaceCache(p) ==
    /\ Edit /\ caches' = [caches EXCEPT ![p] = 3 - @]
    /\ manifest' \in {manifest, [manifest EXCEPT !.full[p].docs = 3 - @]}
    /\ UNCHANGED <<tree, packs, public, inv>>

\* Result and receipt are written to suit a verdict, or a runtime.
Republish(p) ==
    /\ Edit
    /\ \E s \in ShardSet :
         \/ public' = [public EXCEPT ![p].result[s] = ~@]
         \/ public' = [public EXCEPT ![p].receipt.invocations[s].of.ok = ~@, ![p].result[s] = ~@]
         \/ public' = [public EXCEPT ![p].receipt.runtime = 3 - @]
    /\ UNCHANGED <<tree, packs, caches, inv, manifest>>

Attest ==
    /\ Edit
    /\ packs' \in {[packs EXCEPT !.sources = 3 - @], [packs EXCEPT !.seal["semantic"].runtime = 3 - @]}
    /\ UNCHANGED <<tree, public, caches, inv, manifest>>

-------------------------------------------------------------------------------
(* The audit.                                                                  *)

P == Order[proto]
S == Shards[shard]
Note(set) == issues' = issues \cup set
If(cond, issue) == IF cond THEN {issue} ELSE {}
Go(from) == pc = from /\ UNCHANGED <<disk, edits>>

\* The public artifacts are read and must be well formed.
ReadPublic ==
    /\ Go("public") /\ pc' = "manifest"
    /\ got' = [got EXCEPT !.public = public] /\ UNCHANGED <<proto, shard, issues>>

\* One runtime for all shards, and the fixed layout; anything else ends the audit.
ManifestOK(m) ==
    \A p \in Protocols, s \in ShardSet : m.rows[p][s].process.runtime = m.runtime

LoadManifest ==
    /\ Go("manifest")
    /\ got' = [got EXCEPT !.manifest = manifest]
    /\ IF ManifestOK(manifest) THEN pc' = "freeze" /\ UNCHANGED issues
                               ELSE pc' = "done" /\ Note({<<"suite", "manifest">>})
    /\ UNCHANGED <<proto, shard>>

\* The packs, the surfaces and a snapshot for each protocol.
Freeze ==
    /\ Go("freeze") /\ pc' = "cache"
    /\ got' = [got EXCEPT !.snap = tree, !.packs = packs] /\ UNCHANGED <<proto, shard, issues>>

FullCache ==
    /\ Go("cache") /\ pc' = "shard" /\ shard' = 1
    /\ got' = [got EXCEPT !.caches[P] = caches[P]]
    /\ Note(If(got.manifest.full[P].snap # got.snap, <<P, "snapshot">>)
            \cup If(got.manifest.full[P].docs # caches[P], <<P, "cache">>))
    /\ UNCHANGED proto

\* (mutant) The actual command is not compared with the frozen runtime.
ReplaysAnywhere(i, row, snap, docs, runtime) ==
    /\ row.raw = i.raw /\ row.sanitized = i.sanitized
    /\ i.sanitized = Sanitize(i.raw)
    /\ i.process.out = i.raw
    /\ i.raw.snap = snap /\ i.raw.docs = docs /\ i.raw.whole
    /\ i.envelope = Envelope(i.raw, runtime)

\* The raw stream is the one the manifest names; it answers the prompt of this
\* snapshot, from the documents of the projected cache, with exactly the assigned
\* reads; everything else is derived from it again.
Replays(i, row, snap, docs, runtime) ==
    /\ row = Row(i)
    /\ i.sanitized = Sanitize(i.raw)
    /\ i.process = Process(i.raw, runtime)
    /\ i.raw.snap = snap /\ i.raw.docs = docs /\ i.raw.whole
    /\ i.envelope = Envelope(i.raw, runtime)

ReplayShard ==
    /\ Go("shard")
    /\ got' = [got EXCEPT !.inv[P][S] = inv[P][S]]
    /\ LET ok == Replays(inv[P][S], got.manifest.rows[P][S], got.snap, got.caches[P], got.manifest.runtime)
       IN Note(If(~ok, <<P, S>>))
    /\ IF shard < Len(Shards) THEN shard' = shard + 1 /\ UNCHANGED pc
                              ELSE pc' = "receipt" /\ UNCHANGED shard
    /\ UNCHANGED proto

Failed(p) == \E s \in ShardSet : <<p, s>> \in issues
Raws(p) == [s \in ShardSet |-> got.inv[p][s].raw]

\* The published result is the one a new aggregation gives, and the receipt and its
\* trace are the ones built again from the replayed invocations.
ResultOK(p) == got.public[p].result = Aggregate(Raws(p))

ReceiptOK(p) ==
    got.public[p].receipt = Receipt(p, got.snap, got.caches[p], got.manifest.runtime, Raws(p))

CheckReceipt ==
    /\ Go("receipt")
    /\ Note(IF Failed(P) THEN {}
            ELSE If(~ResultOK(P), <<P, "result">>) \cup If(~ReceiptOK(P), <<P, "receipt">>))
    /\ IF proto = 1 THEN proto' = 2 /\ pc' = "cache" ELSE pc' = "pair" /\ UNCHANGED proto
    /\ UNCHANGED <<shard, got>>

\* Both protocols have products only if both receipts were validated.
Products == {p \in Protocols : ~Failed(p) /\ <<p, "receipt">> \notin issues}

\* The adversarial cache answers every locator as the semantic one does; the seal is
\* the one of both receipts; the results agree and approve.
CheckPair ==
    /\ Go("pair")
    /\ Note(If(got.caches["semantic"] # got.caches["adversarial"], <<"suite", "surface">>)
            \cup If(Products = Protocols /\ got.manifest.seal # PairSeal([p \in Protocols |-> got.public[p].receipt]), <<"suite", "seal">>)
            \cup If(Products = Protocols /\ \E p \in Protocols, s \in ShardSet : ~Aggregate(Raws(p))[s], <<"suite", "verdict">>))
    /\ pc' = IF Products = Protocols THEN "material" ELSE "done"
    /\ UNCHANGED <<proto, shard, got>>

\* build_attestation_material freezes the snapshots again and compares them.
Rebuild ==
    /\ Go("material") /\ pc' = "gate"
    /\ Note(If(tree # got.snap, <<"suite", "current">>))
    /\ UNCHANGED <<proto, shard, got>>

Attested(a, m) == a = m

\* The packs, as they were read, attest what was rebuilt.
Gate ==
    /\ Go("gate") /\ pc' = "done"
    /\ LET material == Material(got.snap, PairSeal([p \in Protocols |-> got.public[p].receipt]))
       IN Note(If(issues = {} /\ ~Attested(got.packs, material), <<"suite", "packs">>))
    /\ UNCHANGED <<proto, shard, got>>

Audit ==
    \/ ReadPublic \/ LoadManifest \/ Freeze \/ FullCache \/ ReplayShard \/ CheckReceipt
    \/ CheckPair \/ Rebuild \/ Gate

Next ==
    \/ Audit
    \/ Commit \/ Attest
    \/ \E p \in Protocols : ReplaceCache(p) \/ Republish(p)
    \/ \E p \in Protocols, s \in ShardSet : ReplaceFile(p, s) \/ RunAgain(p, s)

Init ==
    /\ tree = 1 /\ packs = Honest.packs /\ public = Honest.public
    /\ caches = [p \in Protocols |-> 1] /\ inv = Honest.inv /\ manifest = Honest.manifest
    /\ pc = "public" /\ proto = 1 /\ shard = 1 /\ issues = {} /\ edits = 0
    /\ got = [public |-> public, manifest |-> manifest, snap |-> 1, packs |-> packs,
              caches |-> caches, inv |-> inv]

Spec == Init /\ [][Next]_vars

-------------------------------------------------------------------------------
(* Properties.                                                                 *)

Approved == pc = "done" /\ issues = {}

TypeOK ==
    /\ \A p \in Protocols, s \in ShardSet : inv[p][s].raw \in Streams
    /\ tree \in Versions /\ caches \in [Protocols -> Versions] /\ edits \in 0..MaxEdits
    /\ proto \in 1..2 /\ shard \in DOMAIN Shards
    /\ pc \in {"public", "manifest", "freeze", "cache", "shard", "receipt", "pair", "material", "gate", "done"}
    /\ pc \in {"material", "gate"} => \A p \in Protocols : ~Failed(p)

\* Whatever was replaced, and whenever: what an approved release publishes is what its
\* raw streams say, and they say yes, in every shard of both protocols.
ApprovedIsReplayed ==
    Approved => \A p \in Protocols, s \in ShardSet :
        /\ got.inv[p][s].raw.ok /\ got.inv[p][s].raw.whole
        /\ got.public[p].result[s] = got.inv[p][s].raw.ok
        /\ got.public[p].receipt.invocations[s].of = got.inv[p][s].raw
        /\ got.inv[p][s].sanitized = got.inv[p][s].raw

\* The invocations of an approved suite reviewed the checkout of the audit, from
\* the same documents, in one runtime, as the packs attest.
OneSuite ==
    Approved =>
        /\ \A p \in Protocols, s \in ShardSet :
             /\ got.inv[p][s].raw.snap = got.snap
             /\ got.inv[p][s].raw.docs = got.caches["semantic"]
             /\ got.inv[p][s].process.runtime = got.manifest.runtime
        /\ got.packs.seal = got.manifest.seal

\* The attested packs are of the sources that were reviewed.
PacksAreOfTheReviewed == Approved => got.packs.sources = got.snap /\ got.manifest.full["semantic"].snap = got.snap

\* A shard that fails does not hide the failure of another one.
EveryFailureIsReported ==
    pc \in {"pair", "material", "gate"} => \A p \in Protocols, s \in ShardSet :
        got.inv[p][s].sanitized # got.inv[p][s].raw \/ got.inv[p][s].raw.snap # got.snap => <<p, s>> \in issues

\* A suite nobody touched is approved.
HonestIsApproved == pc = "done" /\ edits = 0 => issues = {}
-------------------------------------------------------------------------------
(* What makes the safety properties inductive.                                *)

Processes == [out : Streams, runtime : Versions]
Envelopes == [of : Streams, runtime : Versions]
Invocations == [raw : Streams, sanitized : Streams, process : Processes, envelope : Envelopes]

\* The files of the evidence, and what the audit has read.
Typed ==
    /\ inv \in [Protocols -> [ShardSet -> Invocations]]
    /\ got \in [public : {got.public}, manifest : {got.manifest}, packs : {got.packs}, snap : Versions,
                caches : [Protocols -> Versions], inv : [Protocols -> [ShardSet -> Invocations]]]
    /\ pc \in {"public", "manifest", "freeze"} => proto = 1
    /\ pc \in {"pair", "material", "gate"} => proto = 2

\* Protocol number n has come past its cache, its k-th shard, its receipt.
Passed(n) == pc \in {"pair", "material", "gate"} \/ n < proto \/ (pc = "done" /\ issues = {})
HasCache(n) == Passed(n) \/ (n = proto /\ pc \in {"shard", "receipt"})
HasShard(n, k) == Passed(n) \/ (n = proto /\ (pc = "receipt" \/ (pc = "shard" /\ k < shard)))

\* A shard that was read is replayed, or its failure is reported.
ShardsAreReplayed ==
    \A n \in 1..2, k \in DOMAIN Shards : HasShard(n, k) =>
        LET p == Order[n] s == Shards[k] IN
        \/ <<p, s>> \in issues
        \/ Replays(got.inv[p][s], got.manifest.rows[p][s], got.snap, got.caches[p], got.manifest.runtime)

\* As long as there is no issue, every stage has found what it asks for.
StagesHold ==
    issues = {} =>
        /\ \A n \in 1..2 :
             /\ HasCache(n) => got.manifest.full[Order[n]].snap = got.snap
             /\ Passed(n) => ResultOK(Order[n]) /\ ReceiptOK(Order[n])
        /\ pc \in {"material", "gate", "done"} =>
             /\ got.caches["semantic"] = got.caches["adversarial"]
             /\ got.manifest.seal = PairSeal([p \in Protocols |-> got.public[p].receipt])
             /\ \A p \in Protocols, s \in ShardSet : got.inv[p][s].raw.ok
        /\ pc = "done" => Attested(got.packs, Material(got.snap, got.manifest.seal))

\* Without a replacement everything is as the executor left it.
UntouchedIsHonest ==
    edits = 0 =>
        /\ issues = {}
        /\ tree = 1 /\ packs = Honest.packs /\ public = Honest.public
        /\ caches = [p \in Protocols |-> 1] /\ inv = Honest.inv /\ manifest = Honest.manifest
        /\ got = [public |-> public, manifest |-> manifest, snap |-> 1, packs |-> packs,
                  caches |-> caches, inv |-> inv]

IInv == TypeOK /\ Typed /\ ShardsAreReplayed /\ StagesHold /\ UntouchedIsHonest
=============================================================================
