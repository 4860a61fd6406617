----------------------------- MODULE LocalSidecar -----------------------------
(***************************************************************************)
(* The private index of a user's own documents (knowledge/sidecar.py and    *)
(* the local document index of knowledge/core.py).                          *)
(*                                                                          *)
(* An indexer records the hash and the timestamp of every document.  A      *)
(* builder reads the documents again, checks them against those records,    *)
(* embeds the chunks and then replaces two files one after the other, the   *)
(* database and its manifest.  A searcher reads the two files, checks one   *)
(* against the other, and checks a document again before it quotes it.      *)
(* Meanwhile the owner edits and replaces documents, the embedder may be    *)
(* upgraded, builders run side by side, fail and crash.                     *)
(*                                                                          *)
(* A hash is modelled by the value it is the hash of.  Every write of a     *)
(* document gets a timestamp of its own, unless the owner sets it back; a   *)
(* version of the embedder never comes back.                                *)
(***************************************************************************)
EXTENDS Naturals, FiniteSets

CONSTANTS
    Docs, Builders, Searchers,
    MaxWrites,     \* bound: edits and replacements of documents
    MaxEmbedder,   \* bound: versions of the embedder
    MaxBuilds      \* bound: builds that begin

Content == 0..1
None == [none |-> TRUE]

\* The processes are different ones.
SidecarOK ==
    /\ MaxWrites \in Nat /\ MaxEmbedder \in Nat /\ MaxBuilds \in Nat
    /\ "indexer" \notin Searchers /\ Builders \cap Searchers = {}

VARIABLES
    file,      \* document -> [ino, mtime, content]
    writes,    \* writes of documents so far
    rd,        \* process -> the read it is in the middle of, or None
    meta,      \* the local document index: document -> [hash, mtime], or None
    embedder,  \* version of the live embedder
    build,     \* builder -> its build, or None
    builds,    \* builds begun so far
    database,  \* the published database, or None
    manifest,  \* the published manifest, or None
    search,    \* searcher -> its query, or None
    out        \* searcher -> the last excerpt quoted, or None

vars == <<file, writes, rd, meta, embedder, build, builds, database, manifest, search, out>>
owned == <<file, writes>>
published == <<database, manifest>>

Procs == {"indexer"} \cup Builders \cup Searchers

Entry(h, t) == [hash |-> h, mtime |-> t]
Row(e, text) == [hash |-> e.hash, mtime |-> e.mtime, text |-> text]

TypeOK ==
    /\ file \in [Docs -> [ino : 0..MaxWrites, mtime : 0..MaxWrites, content : Content]]
    /\ writes \in 0..MaxWrites /\ embedder \in 0..MaxEmbedder /\ builds \in 0..MaxBuilds
    /\ \A d \in Docs : file[d].ino <= writes /\ (meta[d] # None => meta[d].mtime <= writes)
    /\ \A b \in Builders : build[b] # None =>
         /\ build[b].embedder <= embedder
         /\ DOMAIN build[b].rows \subseteq Docs
         /\ build[b].pc \in {"publish", "manifest"} => DOMAIN build[b].rows = Docs
    /\ database # None => DOMAIN database.rows = Docs

-------------------------------------------------------------------------------
(* _read_stable_local_file: the descriptor is opened and its identity taken;  *)
(* when the bytes are in, the identity of the descriptor and of the path must *)
(* still be that one.                                                         *)

Identity(f) == <<f.ino, f.mtime>>

OpenRead(p, d) ==
    /\ rd[p] = None
    /\ rd' = [rd EXCEPT ![p] = [doc |-> d, before |-> Identity(file[d]), bytes |-> file[d].content]]

\* What the read may return: the bytes there were, or a mixture of old and new
\* ones when the file was written in between.
Bytes(p) == IF rd[p].before = Identity(file[rd[p].doc]) THEN {rd[p].bytes} ELSE Content

Stable(p) == rd[p].before = Identity(file[rd[p].doc])

EndRead(p) == rd' = [rd EXCEPT ![p] = None]

-------------------------------------------------------------------------------
(* The owner of the documents, and of the embedder.                           *)

Edit(d) ==
    /\ writes < MaxWrites /\ writes' = writes + 1
    /\ file' = [file EXCEPT ![d].content = 1 - @, ![d].mtime = writes + 1]
    /\ UNCHANGED <<rd, meta, embedder, build, builds, published, search, out>>

\* Another file is moved into place; it may carry the timestamp of the old one.
Replace(d) ==
    /\ writes < MaxWrites /\ writes' = writes + 1
    /\ \E c \in Content, t \in {file[d].mtime, writes + 1} :
         file' = [file EXCEPT ![d] = [ino |-> writes + 1, mtime |-> t, content |-> c]]
    /\ UNCHANGED <<rd, meta, embedder, build, builds, published, search, out>>

Upgrade ==
    /\ embedder < MaxEmbedder /\ embedder' = embedder + 1
    /\ UNCHANGED <<owned, rd, meta, build, builds, published, search, out>>

-------------------------------------------------------------------------------
(* index_local_document, save_local_index.                                    *)

IndexOpen(d) ==
    /\ OpenRead("indexer", d)
    /\ UNCHANGED <<owned, meta, embedder, build, builds, published, search, out>>

\* The index file is replaced atomically; a file that changed is not recorded.
IndexDone ==
    /\ rd["indexer"] # None
    /\ \E d \in {rd["indexer"].doc}, h \in Bytes("indexer") :
         meta' = IF Stable("indexer") THEN [meta EXCEPT ![d] = Entry(h, file[d].mtime)] ELSE meta
    /\ EndRead("indexer")
    /\ UNCHANGED <<owned, embedder, build, builds, published, search, out>>

-------------------------------------------------------------------------------
(* LocalKnowledgeSidecar.build.                                               *)

NoRows == [d \in {} |-> None]

Start(b) ==
    /\ build[b] = None /\ builds < MaxBuilds /\ builds' = builds + 1
    /\ \A d \in Docs : meta[d] # None
    /\ build' = [build EXCEPT ![b] =
         [pc |-> "read", entries |-> meta, embedder |-> embedder, rows |-> NoRows, vectors |-> {}]]
    /\ UNCHANGED <<owned, rd, meta, embedder, published, search, out>>

\* The build raises: the temporary database is deleted, nothing is published.
Fail(b) == build' = [build EXCEPT ![b] = None] /\ EndRead(b)

DocOpen(b, d) ==
    /\ build[b] # None /\ build[b].pc = "read" /\ d \notin DOMAIN build[b].rows
    /\ OpenRead(b, d)
    /\ UNCHANGED <<owned, meta, embedder, build, builds, published, search, out>>

\* _document_bytes: what was read is what the index recorded.
AsDeclared(e, h, t) == h = e.hash /\ t = e.mtime

With(f, d, v) == [x \in DOMAIN f \cup {d} |-> IF x = d THEN v ELSE f[x]]

DocDone(b) ==
    /\ build[b] # None /\ build[b].pc = "read" /\ rd[b] # None
    /\ \E d \in {rd[b].doc}, h \in Bytes(b) :
       \E e \in {build[b].entries[d]} :
         IF Stable(b) /\ AsDeclared(e, h, file[d].mtime)
         THEN /\ build' = [build EXCEPT
                    ![b].rows = With(@, d, Row(e, h)),
                    ![b].pc = IF DOMAIN build[b].rows \cup {d} = Docs THEN "embed" ELSE "read"]
              /\ EndRead(b)
         ELSE Fail(b)
    /\ UNCHANGED <<owned, meta, embedder, builds, published, search, out>>

SameEmbedder(b) == embedder = build[b].embedder

\* The embedder is asked for vectors: its identity is checked before the call ...
EmbedCall(b) ==
    /\ build[b] # None /\ build[b].pc = "embed"
    /\ IF SameEmbedder(b) THEN build' = [build EXCEPT ![b].pc = "embedding"] /\ UNCHANGED rd ELSE Fail(b)
    /\ UNCHANGED <<owned, meta, embedder, builds, published, search, out>>

\* ... and after it; the rows are committed.
EmbedDone(b) ==
    /\ build[b] # None /\ build[b].pc = "embedding"
    /\ IF SameEmbedder(b)
       THEN build' = [build EXCEPT ![b].pc = "publish", ![b].vectors = {embedder}] /\ UNCHANGED rd
       ELSE Fail(b)
    /\ UNCHANGED <<owned, meta, embedder, builds, published, search, out>>

Db(b) == [rows |-> build[b].rows, vectors |-> build[b].vectors]

Publish(b) ==
    /\ build[b] # None /\ build[b].pc = "publish"
    /\ IF SameEmbedder(b)
       THEN database' = Db(b) /\ build' = [build EXCEPT ![b].pc = "manifest"] /\ UNCHANGED rd
       ELSE Fail(b) /\ UNCHANGED database
    /\ UNCHANGED <<owned, meta, embedder, builds, manifest, search, out>>

\* The hash of the manifest was taken of the temporary file, before the replace.
PublishManifest(b) ==
    /\ build[b] # None /\ build[b].pc = "manifest"
    /\ manifest' = IF SameEmbedder(b)
                   THEN [index |-> Db(b), embedder |-> build[b].embedder,
                         hashes |-> [d \in Docs |-> build[b].entries[d].hash]]
                   ELSE manifest
    /\ Fail(b)
    /\ UNCHANGED <<owned, meta, embedder, builds, database, search, out>>

\* The process dies, or SQLite or the file system fails, at any point.
Crash(b) ==
    /\ build[b] # None /\ Fail(b)
    /\ UNCHANGED <<owned, meta, embedder, builds, published, search, out>>

-------------------------------------------------------------------------------
(* LocalKnowledgeSidecar.search.                                              *)

\* The manifest is read first ...
SearchManifest(s) ==
    /\ search[s] = None /\ manifest # None
    /\ search' = [search EXCEPT ![s] = [manifest |-> manifest, db |-> None, verified |-> {}]]
    /\ UNCHANGED <<owned, rd, meta, embedder, build, builds, published, out>>

\* _verified_database_snapshot: the bytes that are queried are the ones hashed.
Accept(m, db) == db # None /\ db = m.index

\* ... then the database, from one stable read, which is never opened again.
SearchDatabase(s) ==
    /\ search[s] # None /\ search[s].db = None
    /\ search' = [search EXCEPT ![s] = IF Accept(@.manifest, database) THEN [@ EXCEPT !.db = database] ELSE None]
    /\ UNCHANGED <<owned, rd, meta, embedder, build, builds, published, out>>

\* Before a document is quoted it is read again ...
VerifyOpen(s, d) ==
    /\ search[s] # None /\ search[s].db # None /\ d \notin search[s].verified
    /\ OpenRead(s, d)
    /\ UNCHANGED <<owned, meta, embedder, build, builds, published, search, out>>

\* (mutant) Only the hashes of the manifest and of the row are compared.
VerifiedRowOnly(m, row, d, h, t) == row.hash = m.hashes[d]

\* _verify_document_row
VerifiedRow(m, row, d, h, t) ==
    /\ row.hash = m.hashes[d]
    /\ AsDeclared(row, h, t)

\* ... and if it is as recorded the chunk of the database is quoted.
Quote(s) ==
    /\ search[s] # None /\ rd[s] # None
    /\ \E d \in {rd[s].doc}, h \in Bytes(s) :
       \E row \in {search[s].db.rows[d]} :
         IF Stable(s) /\ VerifiedRow(search[s].manifest, row, d, h, file[d].mtime)
         THEN /\ out' = [out EXCEPT ![s] = [doc |-> d, text |-> row.text]]
              /\ search' = [search EXCEPT ![s].verified = @ \cup {d}]
         ELSE search' = [search EXCEPT ![s] = None] /\ UNCHANGED out
    /\ EndRead(s)
    /\ UNCHANGED <<owned, meta, embedder, build, builds, published>>

SearchEnd(s) ==
    /\ search[s] # None /\ rd[s] = None
    /\ search' = [search EXCEPT ![s] = None] /\ out' = [out EXCEPT ![s] = None]
    /\ UNCHANGED <<owned, rd, meta, embedder, build, builds, published>>

-------------------------------------------------------------------------------
Init ==
    /\ file = [d \in Docs |-> [ino |-> 0, mtime |-> 0, content |-> 0]] /\ writes = 0
    /\ rd = [p \in Procs |-> None] /\ meta = [d \in Docs |-> None]
    /\ embedder = 0 /\ builds = 0 /\ build = [b \in Builders |-> None]
    /\ database = None /\ manifest = None
    /\ search = [s \in Searchers |-> None] /\ out = [s \in Searchers |-> None]

Next ==
    \/ \E d \in Docs : Edit(d) \/ Replace(d) \/ IndexOpen(d)
    \/ IndexDone \/ Upgrade
    \/ \E b \in Builders :
         \/ Start(b) \/ DocDone(b) \/ EmbedCall(b) \/ EmbedDone(b)
         \/ Publish(b) \/ PublishManifest(b) \/ Crash(b)
         \/ \E d \in Docs : DocOpen(b, d)
    \/ \E s \in Searchers :
         \/ SearchManifest(s) \/ SearchDatabase(s) \/ Quote(s) \/ SearchEnd(s)
         \/ \E d \in Docs : VerifyOpen(s, d)

Spec == Init /\ [][Next]_vars

-------------------------------------------------------------------------------
(* Properties.                                                                *)

\* An excerpt is what its document says at the moment it is quoted, whatever
\* edits, replacements, rebuilds and crashes came between the reading that
\* indexed it and the query.
QuotesTheDocument ==
    [][\A s \in Searchers : out'[s] # None /\ out'[s] # out[s] => out'[s].text = file[out'[s].doc].content]_vars

\* No row of any build, published or not, holds bytes that its document never
\* had as a whole: its text is what the index recorded under a timestamp.
RowsAreDeclared ==
    /\ \A b \in Builders : build[b] # None =>
         \A d \in DOMAIN build[b].rows : build[b].rows[d].text = build[b].rows[d].hash
    /\ database # None => \A d \in Docs : database.rows[d].text = database.rows[d].hash

\* The vectors that a search can come to use were made by the embedder that the
\* manifest names, though the embedder may be upgraded during the build.
VectorsAreDeclared ==
    manifest # None => manifest.index.vectors = {manifest.embedder}

\* A query never works on the database of one build and the manifest of another
\* that indexed other documents: two builders that publish in turn, or one that
\* dies between its two files, leave a pair that is refused.
OneBuildPerQuery ==
    \A s \in Searchers : search[s] # None /\ search[s].db # None =>
        /\ \A d \in Docs : search[s].db.rows[d].hash = search[s].manifest.hashes[d]
        /\ search[s].db.vectors = {search[s].manifest.embedder}

-------------------------------------------------------------------------------
(* What makes the properties inductive.                                       *)

Identities == (0..MaxWrites) \X (0..MaxWrites)
Entries == [hash : Content, mtime : 0..MaxWrites]
Reads == [doc : Docs, before : Identities, bytes : Content]

Shapes ==
    /\ \A d \in Docs : file[d].mtime <= writes
    /\ rd \in [Procs -> Reads \cup {None}] /\ meta \in [Docs -> Entries \cup {None}]
    /\ DOMAIN build = Builders /\ DOMAIN search = Searchers /\ DOMAIN out = Searchers

\* A read keeps an identity that the document has or had; while it has it, it has
\* the bytes that were there, because a write changes the one or the other part.
ReadIsOfItsIdentity ==
    \A p \in Procs : rd[p] # None =>
        /\ rd[p].before[1] <= writes /\ rd[p].before[2] <= writes
        /\ Stable(p) => rd[p].bytes = file[rd[p].doc].content

IsBuild(k) == DOMAIN k = {"pc", "entries", "embedder", "rows", "vectors"}
IsQuery(q) == DOMAIN q = {"manifest", "db", "verified"}

\* A row is of the entry that its build declares; the vectors are of its embedder.
RowsAreOfTheBuild ==
    \A b \in Builders : build[b] # None =>
        /\ IsBuild(build[b])
        /\ build[b].pc \in {"read", "embed", "embedding", "publish", "manifest"}
        /\ build[b].entries \in [Docs -> Entries] /\ build[b].embedder \in 0..MaxEmbedder
        /\ build[b].pc # "read" => DOMAIN build[b].rows = Docs
        /\ build[b].pc \in {"publish", "manifest"} => build[b].vectors = {build[b].embedder}
        /\ \A d \in DOMAIN build[b].rows : build[b].rows[d].hash = build[b].entries[d].hash

\* What a manifest says of the database it names.
Describes(m) ==
    /\ m.index.vectors = {m.embedder} /\ DOMAIN m.index.rows = Docs
    /\ \A d \in Docs : /\ m.index.rows[d].hash = m.hashes[d]
                       /\ m.index.rows[d].text = m.index.rows[d].hash

ManifestsDescribe ==
    /\ manifest # None => Describes(manifest)
    /\ \A s \in Searchers : search[s] # None =>
         /\ IsQuery(search[s]) /\ Describes(search[s].manifest)
         /\ search[s].db # None => search[s].db = search[s].manifest.index

\* A searcher verifies documents only for a database that it has.
VerifiesWhatItHas == \A s \in Searchers : rd[s] # None => search[s] # None /\ search[s].db # None

IInv ==
    /\ TypeOK /\ Shapes /\ ReadIsOfItsIdentity /\ RowsAreDeclared /\ RowsAreOfTheBuild
    /\ ManifestsDescribe /\ VerifiesWhatItHas
=============================================================================
