----------------------------- MODULE SitemapParsing ----------------------------
(***************************************************************************)
(* The traversal of a site's sitemaps: sitemap_submission.py checks the    *)
(* document an owner submits, sitemap_parser.py follows it breadth first   *)
(* through indexes to page addresses, under limits of files, depth and     *)
(* entries.  The publisher answers every fetch as it likes.  Characters,   *)
(* bytes and dates are abstracted to the classes the code tells apart.     *)
(***************************************************************************)
EXTENDS Integers, Sequences, FiniteSets, SequencesExt

CONSTANTS
    Locations,   \* normalized addresses on the site's host, sitemaps and pages
    RootUrl,     \* the sitemap that was submitted
    MaxFiles,    \* CRAWL_MAX_SITEMAP_FILES
    MaxDepth,    \* CRAWL_MAX_SITEMAP_DEPTH
    MaxEntries,  \* CRAWL_MAX_SITEMAP_ENTRIES
    MaxPerFile,  \* bound: entries of one document
    Stamps       \* bound: dates of a lastmod, as their order

ASSUME SitemapAssumption ==
    /\ RootUrl \in Locations /\ IsFiniteSet(Locations)
    /\ {MaxFiles, MaxDepth, MaxEntries, MaxPerFile} \subseteq Nat /\ MaxFiles > 0
    /\ Stamps \subseteq Nat \ {0}

VARIABLES
    phase,    \* where the submission or the parse is, or how it ended
    queue,    \* state.pending: <<address, depth>>
    seen,     \* state.visited
    best,     \* state.candidates: the lastmod hint kept for each, 0 if it is ""
    counts,   \* the counters of _ParseState
    offers,   \* history: <<address, hint>> of every usable url entry read
    links,    \* history: <<index, place, child>> of every entry of an index read
    starved   \* history: an index with children was met at the depth limit

sitemapVars == <<phase, queue, seen, best, counts, offers, links, starved>>

NoCounts == [raw |-> 0, duplicate |-> 0, invalid_url |-> 0, disallowed_host |-> 0,
             invalid_lastmod |-> 0]
SitemapInit ==
    /\ phase = "submitted" /\ queue = <<<<RootUrl, 0>>>> /\ seen = {} /\ best = <<>>
    /\ counts = NoCounts /\ offers = {} /\ links = {} /\ starved = {}

-----------------------------------------------------------------------------
(* What a fetch may bring.                                                 *)

\* SafeFetchClient.fetch gave up: its code and whether a retry may help.
FetchErrors ==
    [code : {"blocked_address", "unsupported_content_type", "invalid_content_encoding",
             "body_too_large", "http_error"}, retryable : {FALSE}]
    \cup [code : {"network_error", "http_error"}, retryable : {TRUE}]

\* An address in a document: on the host, on another one, on a port of its own,
\* or no address.
Elsewhere == "elsewhere"
Malformed == {"odd_port", "not_a_url"}
ASSUME AddressesAssumption == Locations \cap (Malformed \cup {Elsewhere}) = {}
EntryUrls == Locations \cup {Elsewhere} \cup Malformed

\* The text of a lastmod: none, a date, or something else.
Undated == 0
Garbled == -1
Entries == [loc : EntryUrls, lastmod : Stamps \cup {Undated, Garbled}]
Children == [loc : EntryUrls, lastmod : {Undated}]

\* How the body travelled, and whether its bytes or its type say gzip.
Bodies == {"plain", "mislabelled", "gzip", "gzip_bomb", "gzip_cut"}
Documents ==
    [body : {"plain"}, root : {"urlset"}, entries : SeqOf(Entries, MaxPerFile), broken : {FALSE}]
    \cup [body : {"plain", "gzip"}, root : {"sitemapindex"},
          entries : SeqOf(Children, MaxPerFile), broken : {FALSE}]
    \cup [body : Bodies, root : {"urlset", "html", "none"}, entries : {<<>>}, broken : BOOLEAN]

-----------------------------------------------------------------------------
(* Reading one document.                                                   *)

\* sitemap_document_body: the error of the decoding, or "none".
DecodeError(doc) ==
    CASE doc.body = "gzip_bomb"                  -> "too_large"
      [] doc.body \in {"gzip_cut", "mislabelled"} -> "invalid_compression"
      [] OTHER                                   -> "none"

\* parse_sitemap_document: the root is judged first, then each entry is counted,
\* and the end of the text comes last.
DocumentError(doc, room) ==
    IF DecodeError(doc) # "none" THEN DecodeError(doc)
    ELSE IF doc.root = "none" THEN "invalid_xml"
    ELSE IF doc.root = "html" THEN "unsupported_document"
    ELSE IF Len(doc.entries) > room THEN "entry_limit"
    ELSE IF doc.broken THEN "invalid_xml" ELSE "none"

\* _normalized_lastmod: what is not a date counts as none.
Hint(text) == IF text = Garbled THEN Undated ELSE text

-----------------------------------------------------------------------------
(* Submission.                                                             *)

\* _map_fetch_error: an unlisted code is temporary when a retry may help.
Blocked == {"blocked_address", "blocked_port", "invalid_url"}
FetchRefusal(error) ==
    CASE error.code \in Blocked                        -> "blocked_destination"
      [] error.code = "unsupported_content_type"       -> "invalid_content_type"
      [] error.code = "invalid_content_encoding"       -> "invalid_encoding"
      [] error.code = "body_too_large"                 -> "too_large"
      [] error.code = "http_error" \/ ~error.retryable -> "unavailable"
      [] OTHER                                         -> "temporary_fetch"

\* validate_sitemap's translation of a parser error.
ParseRefusal(code) ==
    CASE code = "unsupported_document"         -> "unsupported_document"
      [] code = "invalid_compression"          -> "invalid_encoding"
      [] code \in {"entry_limit", "too_large"} -> "too_large"
      [] OTHER                                 -> "invalid_xml"

\* validate_sitemap: nothing of the document is kept but its kind, and where a
\* redirect led is not looked at.
Validate ==
    /\ phase = "submitted"
    /\ \/ \E error \in FetchErrors : phase' = FetchRefusal(error)
       \/ \E doc \in Documents :
            phase' = IF DocumentError(doc, MaxEntries) = "none" THEN "parsing"
                     ELSE ParseRefusal(DocumentError(doc, MaxEntries))
    /\ UNCHANGED <<queue, seen, best, counts, offers, links, starved>>

-----------------------------------------------------------------------------
(* The parse.                                                              *)

\* _normalize_child_sitemap.
ChildError(url) ==
    CASE url \in Malformed -> "invalid_child_sitemap"
      [] url = Elsewhere   -> "disallowed_child_host"
      [] OTHER             -> "none"

ParseFails(code) ==
    /\ phase' = code
    /\ UNCHANGED <<queue, seen, best, counts, offers, links, starved>>

\* The address at the head was read before, or may not be read.
ParseOneSkipped ==
    /\ phase = "parsing" /\ queue # <<>>
    /\ LET url == Head(queue)[1]
       IN  \/ ChildError(url) # "none" /\ ParseFails(ChildError(url))
           \/ /\ url \in seen /\ queue' = Tail(queue)
              /\ UNCHANGED <<phase, seen, best, counts, offers, links, starved>>
           \/ /\ url \in Locations \ seen /\ Cardinality(seen) >= MaxFiles
              /\ ParseFails("sitemap_limit")

\* The head is a new address within the limits.
NextFile == /\ phase = "parsing" /\ queue # <<>>
            /\ Head(queue)[1] \in Locations \ seen /\ Cardinality(seen) < MaxFiles

\* _fetch, or a redirect that left the host.
FetchFails ==
    /\ NextFile
    /\ phase' \in {"fetch_failed", "fetch_failed_retryable", "redirected_off_host"}
    /\ seen' = seen \cup {Head(queue)[1]} /\ queue' = Tail(queue)
    /\ UNCHANGED <<best, counts, offers, links, starved>>

\* Mutant: children are visited before their parent's siblings.
QueuedMutant(rest, children) == children \o rest

\* state.pending.extend.
Queued(rest, children) == rest \o children

\* _queue_children: an index with children may not be as deep as the limit.
QueueChildren(url, depth, entries) ==
    /\ IF entries # <<>> /\ depth >= MaxDepth
       THEN /\ phase' = "depth_limit" /\ starved' = starved \cup {url} /\ queue' = Tail(queue)
       ELSE /\ queue' = Queued(Tail(queue), [i \in DOMAIN entries |-> <<entries[i].loc, depth + 1>>])
            /\ UNCHANGED <<phase, starved>>
    /\ links' = links \cup {<<url, i, entries[i].loc>> : i \in DOMAIN entries}
    /\ UNCHANGED <<best, offers>>

\* The latest hint of an address is kept, as strings compare.
Kept(kept, entry) ==
    IF entry.loc \in DOMAIN kept /\ kept[entry.loc] >= Hint(entry.lastmod) THEN kept
    ELSE [u \in DOMAIN kept \cup {entry.loc} |->
            IF u = entry.loc THEN Hint(entry.lastmod) ELSE kept[u]]

\* The counters of _add_candidates.
Counted(c, kept, entry) ==
    CASE entry.loc \in Malformed -> [c EXCEPT !.invalid_url = @ + 1]
      [] entry.loc = Elsewhere   -> [c EXCEPT !.disallowed_host = @ + 1]
      [] OTHER ->
           [c EXCEPT !.duplicate = @ + (IF entry.loc \in DOMAIN kept THEN 1 ELSE 0),
                     !.invalid_lastmod = @ + (IF entry.lastmod = Garbled THEN 1 ELSE 0)]

\* _add_candidates, entry after entry.
AddCandidate(acc, entry) ==
    [counts |-> Counted(acc.counts, acc.best, entry),
     best |-> IF entry.loc \in Locations THEN Kept(acc.best, entry) ELSE acc.best]
WithCandidates(entries) ==
    FoldLeft(AddCandidate,
             [counts |-> [counts EXCEPT !.raw = @ + Len(entries)], best |-> best], entries)
AddCandidates(entries) ==
    /\ counts' = WithCandidates(entries).counts /\ best' = WithCandidates(entries).best
    /\ offers' = offers \cup {<<entries[i].loc, Hint(entries[i].lastmod)>> :
                                i \in {j \in DOMAIN entries : entries[j].loc \in Locations}}
    /\ UNCHANGED <<phase, links, starved>>

\* _parse_one with an answer.
ParseOne ==
    /\ NextFile
    /\ LET url == Head(queue)[1]  depth == Head(queue)[2]
       IN  /\ seen' = seen \cup {url}
           /\ \E doc \in Documents :
                LET error == DocumentError(doc, MaxEntries - counts.raw)
                IN  \/ /\ error # "none" /\ phase' = error /\ queue' = Tail(queue)
                       /\ UNCHANGED <<best, counts, offers, links, starved>>
                    \/ /\ error = "none" /\ doc.root = "sitemapindex"
                       /\ QueueChildren(url, depth, doc.entries)
                       /\ counts' = [counts EXCEPT !.raw = @ + Len(doc.entries)]
                    \/ /\ error = "none" /\ doc.root = "urlset" /\ AddCandidates(doc.entries)
                       /\ queue' = Tail(queue)

\* parse returns: the candidates, sorted, and the diagnostics.
ParseReturns ==
    /\ phase = "parsing" /\ queue = <<>> /\ phase' = "parsed"
    /\ UNCHANGED <<queue, seen, best, counts, offers, links, starved>>

SitemapNext ==
    Validate \/ ParseOneSkipped \/ FetchFails \/ ParseOne \/ ParseReturns

SitemapSpec == SitemapInit /\ [][SitemapNext]_sitemapVars

-----------------------------------------------------------------------------
(* Properties.                                                             *)

\* The types, and the limits: no more files and entries than configured.
SitemapTypeOK ==
    /\ Cardinality(seen) <= MaxFiles /\ counts.raw <= MaxEntries
    /\ DOMAIN best \subseteq Locations /\ seen \subseteq Locations
    /\ \A i \in DOMAIN queue : queue[i] \in EntryUrls \X (0 .. MaxDepth)

\* A parse that returns has read exactly the sitemaps the root leads to, each
\* once and however the indexes cite each other, and its candidates are the
\* addresses their url entries offered, each with its latest date.
Reached(k) ==
    LET f[i \in 0..k] == IF i = 0 THEN {RootUrl}
                         ELSE f[i - 1] \cup {e[3] : e \in {x \in links : x[1] \in f[i - 1]}}
    IN  f[k]
ParsedIsReachable ==
    phase = "parsed" =>
        /\ seen = Reached(MaxFiles)
        /\ DOMAIN best = {o[1] : o \in offers}
        /\ \A o \in offers : best[o[1]] >= o[2]
        /\ \A u \in DOMAIN best : <<u, best[u]>> \in offers

\* The depth limit refuses an index only when no shorter way leads to it: a
\* site is not refused because its indexes also cite each other the long way.
DepthIsShortest == \A u \in starved : MaxDepth = 0 \/ u \notin Reached(MaxDepth - 1)

\* The diagnostics add up: every entry read is a child sitemap, a candidate, a
\* duplicate, an address that is none or one of another host.
DiagnosticsAddUp ==
    phase = "parsed" =>
        counts.raw = Cardinality(links) + Cardinality(DOMAIN best) + counts.duplicate
                       + counts.invalid_url + counts.disallowed_host

\* A parse that returns is complete, is refused for its depth only if it must be,
\* and its diagnostics add up.
ParseIsSound == ParsedIsReachable /\ DepthIsShortest /\ DiagnosticsAddUp

=============================================================================
