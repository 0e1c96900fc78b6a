----------------------------- MODULE PageExtraction ---------------------------
(***************************************************************************)
(* What one crawl job makes of a fetched page: core/html_extraction.py, and *)
(* the attempts of the job that _process_page_work runs, which overlap when *)
(* a worker thought lost is not.  Texts, titles and addresses are reduced   *)
(* to what the decisions look at.                                           *)
(***************************************************************************)
EXTENDS Integers, Sequences, SequencesExt

CONSTANTS
    Attempts,   \* tasks that run the job, first one and retries
    LinkUrls,   \* normalized destinations of links
    MaxLinks,   \* destinations kept: 1 000
    MaxAnchors  \* bound: links of a page

ASSUME ExtractionAssumption == MaxLinks \in Nat

VARIABLES
    attempt,  \* the tasks: where they are, what they extracted, what they ingested
    stored    \* PageExtractionResult of the job

extractionVars == <<attempt, stored>>

NoExtraction == [state |-> "none"]
NoAttempt == [at |-> "start", extracted |-> NoExtraction, ingested |-> NoExtraction]
ExtractionInit == attempt = [a \in Attempts |-> NoAttempt] /\ stored = NoExtraction

\* What a response may be like.  The body is blank, no HTML, or HTML with a text
\* of some length; "large" is more than EXTRACTION_MAX_TEXT_CHARS.
Responses == [type : {"html", "other"}, host : {"own", "other"}, encoding : {"known", "unknown"},
              body : {"blank", "broken", "short", "fits", "large"},
              robotsHeader : BOOLEAN, robotsMeta : BOOLEAN,
              canonical : {"absent", "own", "foreign", "invalid", "malformed"}]

-----------------------------------------------------------------------------
(* Extraction.                                                             *)

RobotsNoindex(r) == r.robotsHeader \/ r.robotsMeta

\* A canonical address counts on the site's own host only; any other hint is
\* rejected for the final address.
CanonicalUrl(r) == IF r.canonical = "own" THEN "hinted" ELSE "final"
CanonicalRejected(r) == r.canonical \in {"foreign", "invalid"}

\* The errors, in the order they are found.  A hint that urljoin cannot parse
\* raises outside the try, and nothing on the way up catches it.
ExtractionError(r) ==
    IF r.type # "html" THEN "unsupported_content"
    ELSE IF r.host # "own" THEN "invalid_html"
    ELSE IF r.encoding = "unknown" THEN "invalid_encoding"
    ELSE IF r.body = "broken" THEN "invalid_html"
    ELSE IF r.body # "blank" /\ r.canonical = "malformed" THEN "uncaught"
    ELSE IF r.body = "large" THEN "text_too_large" ELSE "none"

\* A blank document is empty whatever its headers say.
ExtractionState(r) ==
    IF r.body # "blank" /\ RobotsNoindex(r) THEN "noindex"
    ELSE IF r.body \in {"blank", "short"} THEN "empty" ELSE "ready"

ExtractArticle(r) ==
    [state |-> ExtractionState(r), text |-> ExtractionState(r) = "ready",
     noindex |-> r.body # "blank" /\ RobotsNoindex(r),
     canonical |-> IF r.body = "blank" THEN "final" ELSE CanonicalUrl(r),
     rejected |-> r.body # "blank" /\ CanonicalRejected(r)]

\* _outbound_links, over the anchors outside navigation: <<destination, text>>, the
\* destination 0 where it is invalid or the page itself, the text 0 where empty.
\* The first text of a destination is kept; nothing is read past the last one kept.
OutboundLinks(anchors) ==
    FoldLeft(LAMBDA links, a :
                IF Cardinality(DOMAIN links) >= MaxLinks \/ a[1] = 0 THEN links
                ELSE [u \in DOMAIN links \cup {a[1]} |->
                        IF u # a[1] THEN links[u]
                        ELSE IF u \notin DOMAIN links THEN a[2]
                        ELSE IF links[u] = 0 THEN a[2] ELSE links[u]],
             <<>>, anchors)

-----------------------------------------------------------------------------
(* Attempts.                                                               *)

\* A job that has its extraction goes on with it, without another request.
Resume(a) ==
    /\ attempt[a].at = "start"
    /\ attempt' = [attempt EXCEPT ![a].at = IF stored = NoExtraction THEN "fetch" ELSE "ingest"]
    /\ UNCHANGED stored

\* The page as it is when this attempt fetches it.  An error ends the attempt with
\* an outcome; one that is not caught ends the task without one.
FetchPage(a) ==
    /\ attempt[a].at = "fetch" /\ UNCHANGED stored
    /\ \E r \in Responses :
        attempt' = [attempt EXCEPT ![a] =
            IF ExtractionError(r) = "none"
            THEN [NoAttempt EXCEPT !.at = "persist", !.extracted = ExtractArticle(r)]
            ELSE [NoAttempt EXCEPT !.at = IF ExtractionError(r) = "uncaught"
                                          THEN "died" ELSE "failed"]]

\* Mutant: the extraction of the last attempt replaces the first.
PersistMutant(a) ==
    /\ attempt[a].at = "persist"
    /\ stored' = attempt[a].extracted
    /\ attempt' = [attempt EXCEPT ![a].at = "ingest"]

\* get_or_create under the lock of the job: the first one stays.
Persist(a) ==
    /\ attempt[a].at = "persist"
    /\ stored' = IF stored = NoExtraction THEN attempt[a].extracted ELSE stored
    /\ attempt' = [attempt EXCEPT ![a].at = "ingest"]

\* ArticleIngestionService.ingest reads the stored result.
IngestStored(a) ==
    /\ attempt[a].at = "ingest" /\ UNCHANGED stored
    /\ attempt' = [attempt EXCEPT ![a].at = "done", ![a].ingested = stored]

\* The worker dies and the job is tried again.
Retry(a) ==
    /\ attempt[a].at # "start"
    /\ attempt' = [attempt EXCEPT ![a].at = "start"] /\ UNCHANGED stored

ExtractionNext ==
    \E a \in Attempts : \/ Resume(a) \/ FetchPage(a) \/ Persist(a) \/ IngestStored(a) \/ Retry(a)

ExtractionSpec == ExtractionInit /\ [][ExtractionNext]_extractionVars

-----------------------------------------------------------------------------
(* Properties.                                                             *)

\* The links kept are the first destinations, each with the first text that it has
\* up to the point where the last of them was found.
FirstLinksKept(anchors) ==
    LET kept == OutboundLinks(anchors)
        Before(i) == {anchors[j][1] : j \in 1 .. i} \ {0}
        read == {i \in DOMAIN anchors : Cardinality(Before(i - 1)) < MaxLinks}
    IN  /\ DOMAIN kept = {anchors[i][1] : i \in read} \ {0}
        /\ \A u \in DOMAIN kept :
            LET texts == {i \in read : anchors[i][1] = u /\ anchors[i][2] # 0}
            IN  kept[u] = IF texts = {} THEN 0 ELSE anchors[Min(texts)][2]

Anchors == (LinkUrls \cup {0}) \X {0, 1, 2}
LinksMatch == \A anchors \in BoundedSeq(Anchors, MaxAnchors) : FirstLinksKept(anchors)
ExtractionTypeOK ==
    /\ \A a \in Attempts : attempt[a].at \in {"start", "fetch", "persist", "ingest", "done", "failed", "died"}
    /\ stored = NoExtraction /\ (\A a \in Attempts : attempt[a].at = "start") => LinksMatch

\* However attempts overlap and however the page changes between them, all of them
\* ingest the same extraction, and no text is kept of a page that asks not to be
\* indexed.
OneExtraction ==
    /\ \A a, b \in Attempts : attempt[a].ingested # NoExtraction /\ attempt[b].ingested # NoExtraction =>
            attempt[a].ingested = attempt[b].ingested
    /\ stored # NoExtraction => ~(stored.noindex /\ stored.text)

=============================================================================
