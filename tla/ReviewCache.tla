----------------------------- MODULE ReviewCache -----------------------------
(***************************************************************************)
(* The cache of cited documents a review reads: create_review_cache and     *)
(* load_review_cache of tools/run_knowledge_review.py, with the offline     *)
(* fetcher of tools/knowledge_review_suite_cache.py.                        *)
(*                                                                          *)
(* Citations are taken one by one.  A citation has a resolver: the bytes of *)
(* its document may be pinned ("lines", "direct"), the document may be the  *)
(* map of a publication, or a topic of one, which also needs the map and    *)
(* the pages of its publication.  The server answers every request as it    *)
(* likes: with the pinned bytes, with other bytes of the right identity,    *)
(* with a wrong document, or not at all.  Citations share locators.  Then   *)
(* the cache lies on disk, may be changed there, and is loaded; the second  *)
(* protocol makes a cache of its own from it.                               *)
(***************************************************************************)
EXTENDS Naturals, Sequences

CONSTANTS
    Citations,     \* sequence of [resolver, url, charset, map, pages, inspect], by URL
    MaxAttempts,   \* MAX_FETCH_ATTEMPTS
    MaxTampers     \* bound: changes of the cache on disk

VARIABLES
    phase,     \* "create", "load", "loaded" or "refused"
    at,        \* the citation being resolved, or loaded
    attempt,
    primary,   \* locator -> the response kept for the citations that share it
    failed,    \* locators that could not be fetched
    support,   \* locator of a map or pages -> the response kept for the publication
    rows,      \* the manifest: a row for every citation
    files,     \* the content-addressed files: [dir, name, content]
    requests,  \* locator -> number of requests
    tampers

vars == <<phase, at, attempt, primary, failed, support, rows, files, requests, tampers>>

Bodies == {"pinned", "same", "wrong"}
None == "none"
Now == Citations[at]
Urls == {Citations[i].url : i \in DOMAIN Citations}
SupportUrls == (UNION {{Citations[i].map, Citations[i].pages} : i \in DOMAIN Citations}) \ {None}
Locators == Urls \cup SupportUrls

Resolvers == {"lines", "direct", "map", "topic"}

\* The charset that the server names for a document: UTF-8, a part of it, or another.
Charsets == {"utf-8", "ascii", "latin"}

\* Citations are sorted by the URL that a reader sees: the root of a publication,
\* which is its map, comes before its topics.  Map and pages of a publication have
\* locators of their own.
CitationsOK ==
    /\ Len(Citations) \in Nat \ {0} /\ DOMAIN Citations = 1..Len(Citations)
    /\ MaxAttempts \in Nat \ {0}
    /\ \A i \in DOMAIN Citations :
         /\ Citations[i].resolver \in Resolvers /\ Citations[i].inspect \in BOOLEAN /\ Citations[i].url # None
         /\ Citations[i].charset \in Charsets
         /\ \A j \in DOMAIN Citations : Citations[j].url = Citations[i].url => Citations[j].charset = Citations[i].charset
         /\ Citations[i].resolver = "map" => Citations[i].map = Citations[i].url
         /\ Citations[i].resolver = "topic" =>
              /\ Citations[i].map # None /\ Citations[i].pages # None
              /\ \A j \in DOMAIN Citations :
                   /\ Citations[i].pages \notin {Citations[j].url, Citations[j].map}
                   /\ Citations[j].url = Citations[i].map => Citations[j].resolver = "map" /\ j < i

RowSet ==
    [body : Bodies \cup {None}, map : Bodies \cup {None}, pages : Bodies \cup {None},
     text : Bodies \cup {None}, parser : Charsets \cup {None}, verified : BOOLEAN, available : BOOLEAN]

-------------------------------------------------------------------------------
(* What a row says of the responses it was made from.                         *)

\* _validate_document_identity_body, _github_line_range_derivation: the pinned
\* bytes.  _validate_amd_map_body, _validate_amd_pages_body: the identity of the
\* publication and of the topic; the body of a topic is not pinned.
Identity(c, b, m, p) ==
    /\ c.resolver \in {"lines", "direct"} => b = "pinned"
    /\ c.resolver = "map" => b # "wrong"
    /\ c.resolver = "topic" => m # "wrong" /\ p # "wrong"

\* _text_derivation with the charset cs: a portal's empty page has no text, nor has
\* what cannot be decoded; ASCII is UTF-8 too.  A range of lines is cut from the bytes.
Text(c, b, cs) ==
    IF /\ c.inspect /\ b # "wrong"
       /\ c.resolver = "lines" \/ cs = c.charset \/ <<c.charset, cs>> = <<"ascii", "utf-8">>
    THEN b ELSE None

EmptyRow ==
    [body |-> None, map |-> None, pages |-> None, text |-> None, parser |-> None,
     verified |-> FALSE, available |-> FALSE]

\* A document that arrived, but not the publication it belongs to.
Unresolved(b) == [EmptyRow EXCEPT !.body = b]

\* The row of a document that is taken to be of the charset cs, which the parser
\* contract names whose hash the row has.
Resolved(c, b, cs, m, p) ==
    IF ~Identity(c, b, m, p) THEN Unresolved(b)
    ELSE LET text == Text(c, b, cs)
         IN [body |-> b, map |-> m, pages |-> p, text |-> text, verified |-> TRUE,
             available |-> ~c.inspect \/ text # None,
             parser |-> IF text = None \/ c.resolver = "lines" THEN None ELSE cs]

\* The files that a row names, each under the hash of its content.
Named(r) ==
    {f \in {[dir |-> "bodies", name |-> r.body, content |-> r.body],
            [dir |-> "text", name |-> r.text, content |-> r.text],
            [dir |-> "resolver", name |-> r.map, content |-> r.map],
            [dir |-> "resolver", name |-> r.pages, content |-> r.pages]} : f.name # None}

-------------------------------------------------------------------------------
(* Creating the cache.                                                        *)

\* What is kept of a publication's map: the body of its own citation, if that was
\* resolved, or what a topic fetched.
Kept(u) == support[u]

\* The locator the present citation has to fetch next.
Wanted ==
    IF primary[Now.url] = None THEN Now.url
    ELSE IF Now.resolver = "topic" /\ Kept(Now.map) = None THEN Now.map
    ELSE IF Now.resolver = "topic" /\ Kept(Now.pages) = None THEN Now.pages
    ELSE None

Put(r) ==
    /\ rows' = Append(rows, r) /\ files' = files \cup Named(r)
    /\ attempt' = 1
    /\ IF at = Len(Citations) THEN phase' = "load" /\ at' = 1 ELSE at' = at + 1 /\ UNCHANGED phase

\* The locator cannot be fetched: the citation is unavailable, the next one follows.
GiveUp(u) ==
    /\ failed' = IF u = Now.url THEN failed \cup {u} ELSE failed
    /\ Put(IF u = Now.url THEN EmptyRow ELSE Unresolved(primary[Now.url]))
    /\ UNCHANGED <<primary, support>>

Shared == Now.url \in failed

\* "shared exact evidence fetch previously failed"
Skip ==
    /\ phase = "create" /\ Shared
    /\ Put(EmptyRow)
    /\ UNCHANGED <<primary, failed, support, requests, tampers>>

Request(u) ==
    /\ phase = "create" /\ ~Shared /\ u = Wanted /\ u # None
    /\ requests' = [requests EXCEPT ![u] = @ + 1]
    /\ UNCHANGED tampers

\* An answer of 200 with a complete body from the very locator.
Answer(u, b) ==
    /\ Request(u)
    /\ IF u = Now.url THEN primary' = [primary EXCEPT ![u] = b] /\ UNCHANGED support
                      ELSE support' = [support EXCEPT ![u] = b] /\ UNCHANGED primary
    /\ attempt' = 1
    /\ UNCHANGED <<phase, at, failed, rows, files>>

\* A connection that breaks, an empty or a short body: try again, a few times.
Broken(u) ==
    /\ Request(u)
    /\ IF attempt < MaxAttempts
       THEN attempt' = attempt + 1 /\ UNCHANGED <<phase, at, primary, failed, support, rows, files>>
       ELSE GiveUp(u)

\* Another locator, too many bytes, another status: at once.
Rejected(u) == Request(u) /\ GiveUp(u)

\* The body of a resolved map serves the topics of its publication.
KeepMap(r) ==
    IF Now.resolver = "map" /\ r.verified THEN [support EXCEPT ![Now.map] = r.body] ELSE support

Resolve ==
    /\ phase = "create" /\ ~Shared /\ Wanted = None
    /\ LET topic == Now.resolver = "topic"
           r == Resolved(Now, primary[Now.url], Now.charset, IF topic THEN Kept(Now.map) ELSE None,
                         IF topic THEN Kept(Now.pages) ELSE None)
       IN Put(r) /\ support' = KeepMap(r)
    /\ UNCHANGED <<primary, failed, requests, tampers>>

-------------------------------------------------------------------------------
(* On disk, and loading.                                                      *)

Damage(f) ==
    /\ phase = "load" /\ at = 1 /\ tampers < MaxTampers /\ tampers' = tampers + 1
    /\ \/ files' = files \ {f}
       \/ \E b \in Bodies \ {f.content} : files' = (files \ {f}) \cup {[f EXCEPT !.content = b]}
       \/ files' = files \cup {[f EXCEPT !.dir = "stray"]}
    /\ UNCHANGED <<phase, at, attempt, primary, failed, support, rows, requests>>

\* A row of the manifest is rewritten together with the files it names.
Rewrite(i) ==
    /\ phase = "load" /\ at = 1 /\ tampers < MaxTampers /\ tampers' = tampers + 1
    /\ \E b \in Bodies \cup {None}, cs \in Charsets, x \in BOOLEAN :
         rows' \in {[rows EXCEPT ![i].body = b], [rows EXCEPT ![i].map = b], [rows EXCEPT ![i].pages = b],
                    [rows EXCEPT ![i].text = b], [rows EXCEPT ![i].parser = cs], [rows EXCEPT ![i].available = x]}
    /\ files' = UNION {Named(rows'[j]) : j \in DOMAIN rows}
    /\ UNCHANGED <<phase, at, attempt, primary, failed, support, requests>>

\* load_review_cache for one row: its files are there under their hashes, the
\* identity of an available document holds for what is on disk, text belongs to an
\* available document and, for a range of lines, is that range.
RowOK(c, r) ==
    /\ Named(r) \subseteq files
    /\ c.resolver # "topic" => r.map = None /\ r.pages = None
    /\ (r.map = None) = (r.pages = None)
    /\ c.resolver = "topic" /\ r.map # None => r.map # "wrong" /\ r.pages # "wrong"
    /\ r.available =>
         /\ r.body # None /\ r.verified /\ (r.text # None) = c.inspect
         /\ c.resolver = "topic" => r.map # None
         /\ Identity(c, r.body, r.map, r.pages)
         /\ c.resolver = "lines" => (c.inspect => r.text = r.body)

Closed == files = UNION {Named(rows[i]) : i \in DOMAIN rows}

Load ==
    /\ phase = "load"
    /\ IF ~RowOK(Now, rows[at]) THEN phase' = "refused" /\ UNCHANGED at
       ELSE IF at < Len(rows) THEN at' = at + 1 /\ UNCHANGED phase
       ELSE phase' = (IF Closed THEN "loaded" ELSE "refused") /\ UNCHANGED at
    /\ UNCHANGED <<attempt, primary, failed, support, rows, files, requests, tampers>>

Init ==
    /\ phase = "create" /\ at = 1 /\ attempt = 1
    /\ primary = [u \in Urls |-> None] /\ failed = {} /\ support = [u \in SupportUrls |-> None]
    /\ rows = <<>> /\ files = {} /\ requests = [u \in Locators |-> 0] /\ tampers = 0

Work ==
    \/ \E u \in Locators : (\E b \in Bodies : Answer(u, b)) \/ Broken(u) \/ Rejected(u)
    \/ Skip \/ Resolve \/ Load

Next ==
    \/ Work
    \/ \E f \in files : Damage(f)
    \/ \E i \in DOMAIN rows : Rewrite(i)

Spec == Init /\ [][Next]_vars

-------------------------------------------------------------------------------
(* The second protocol's cache is made from the first one's, offline.         *)

\* frozen_cache_fetcher: the responses that the rows record for a locator.
Recorded(u) ==
    {rows[i].body : i \in {j \in DOMAIN rows : Citations[j].url = u}}
        \cup {rows[i].map : i \in {j \in DOMAIN rows : Citations[j].map = u /\ Citations[j].resolver = "topic"}}
        \cup {rows[i].pages : i \in {j \in DOMAIN rows : Citations[j].pages = u /\ Citations[j].resolver = "topic"}}

\* (mutant) The map and the pages are served under each other's locator.
ReplayedSwapped(c) ==
    LET one(u) == CHOOSE b \in Recorded(u) : TRUE
        topic == c.resolver = "topic"
    IN Resolved(c, one(c.url), "utf-8", IF topic THEN one(c.pages) ELSE None, IF topic THEN one(c.map) ELSE None)

\* The row made again of the frozen responses.  They record no charset: the fetcher
\* answers with UTF-8.
Replayed(c) ==
    LET one(u) == CHOOSE b \in Recorded(u) : TRUE
        topic == c.resolver = "topic"
    IN Resolved(c, one(c.url), "utf-8", IF topic THEN one(c.map) ELSE None, IF topic THEN one(c.pages) ELSE None)

AllAvailable == Len(rows) = Len(Citations) /\ \A i \in DOMAIN rows : rows[i].available

-------------------------------------------------------------------------------
(* Properties.                                                                *)

TypeOK ==
    /\ phase \in {"create", "load", "loaded", "refused"} /\ at \in DOMAIN Citations
    /\ attempt \in 1..MaxAttempts /\ \A i \in DOMAIN rows : rows[i] \in RowSet
    /\ phase = "create" => Len(rows) = at - 1
    /\ tampers = 0 => \A f \in files : f.name = f.content

\* A review never mixes two answers of a server: what the available citations
\* record for one locator is one response.
OneResponsePerLocator ==
    phase # "create" /\ AllAvailable /\ tampers = 0 => \A u \in Locators : \A b, d \in Recorded(u) : b = d

\* From a complete cache the second protocol makes the same rows without a network.
\* Of a document that the server gave in another charset than UTF-8 it makes a row of
\* the same bytes, but never of the same parser contract: the two surfaces differ, and
\* the suite, which compares them, does not start.
ReplayReproduces ==
    phase = "loaded" /\ AllAvailable /\ tampers = 0 =>
        \A i \in DOMAIN rows :
            LET again == Replayed(Citations[i])
            IN IF rows[i].parser \in {None, "utf-8"} THEN again = rows[i]
               ELSE /\ <<again.body, again.map, again.pages>> = <<rows[i].body, rows[i].map, rows[i].pages>>
                    /\ again.parser # rows[i].parser

\* What was created is what can be loaded, whichever requests failed on the way.
CreatedLoads == phase = "refused" => tampers > 0

\* A loaded cache, though its manifest and files were rewritten, holds the pinned
\* bytes of every available pinned document, publications of the right identity,
\* and no file beside them.
LoadedIsPinned ==
    phase = "loaded" =>
        /\ \A f \in files : f.dir # "stray" /\ f.name = f.content
        /\ \A i \in DOMAIN rows : rows[i].available =>
             /\ Citations[i].resolver \in {"lines", "direct"} => rows[i].body = "pinned"
             /\ Citations[i].resolver = "lines" /\ Citations[i].inspect => rows[i].text = "pinned"
             /\ Citations[i].resolver = "topic" => "wrong" \notin {rows[i].map, rows[i].pages}

\* However many citations share a document, it is requested a fixed number of times.
RequestsAreBounded == \A u \in Urls \ SupportUrls : requests[u] <= MaxAttempts

-------------------------------------------------------------------------------
(* The inductive invariant.                                                   *)

Typed ==
    /\ phase \in {"create", "load", "loaded", "refused"} /\ at \in DOMAIN Citations
    /\ attempt \in 1..MaxAttempts /\ tampers \in Nat
    /\ primary \in [Urls -> Bodies \cup {None}] /\ failed \subseteq Urls
    /\ support \in [SupportUrls -> Bodies \cup {None}]
    /\ rows \in Seq(RowSet) /\ Len(rows) = (IF phase = "create" THEN at - 1 ELSE Len(Citations))
    /\ requests \in [Locators -> Nat]

\* What was kept of the publication of a topic.
Map(c) == IF c.resolver = "topic" THEN support[c.map] ELSE None
Pages(c) == IF c.resolver = "topic" THEN support[c.pages] ELSE None

\* A row is made of the responses that are still the ones kept, or verifies nothing.
Made(c, r) ==
    IF r.verified
    THEN /\ primary[c.url] # None /\ (c.resolver = "topic" => Map(c) # None /\ Pages(c) # None)
         /\ Identity(c, primary[c.url], Map(c), Pages(c))
         /\ r = Resolved(c, primary[c.url], c.charset, Map(c), Pages(c))
         /\ c.resolver = "map" => support[c.map] = primary[c.url]
    ELSE r \in {EmptyRow} \cup {Unresolved(b) : b \in Bodies}

Created ==
    tampers = 0 =>
        /\ \A i \in DOMAIN rows : Made(Citations[i], rows[i])
        /\ Closed

\* A document is requested for the first citation that has it, and no more once
\* there is an answer or a failure.
Counted ==
    \A u \in Urls \ SupportUrls :
        /\ requests[u] <= MaxAttempts
        /\ phase = "create" /\ primary[u] = None /\ u \notin failed =>
             requests[u] = (IF Now.url = u THEN attempt - 1 ELSE 0)

\* Nothing changes once a row was loaded.
Checked ==
    /\ phase = "create" => tampers = 0
    /\ phase = "load" => \A i \in 1..(at - 1) : RowOK(Citations[i], rows[i])
    /\ phase = "loaded" => Closed /\ \A i \in DOMAIN rows : RowOK(Citations[i], rows[i])
    /\ phase = "refused" => tampers > 0

IInv == Typed /\ Created /\ Counted /\ Checked

=============================================================================
