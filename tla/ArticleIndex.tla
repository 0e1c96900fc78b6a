---------------------------- MODULE ArticleIndex ----------------------------
(***************************************************************************)
(* The articles of one site in PostgreSQL and their points in Qdrant:      *)
(* apps/core/article_ingestion.py, article_embeddings.py, the page job of  *)
(* crawl_jobs.py that drives them, and apps/search/qdrant.py.  The two     *)
(* stores share no transaction.  One action is one database transaction,   *)
(* one Qdrant call or one broker call; the publication is two, for its     *)
(* transaction spans a Qdrant call and holds its row locks meanwhile.      *)
(***************************************************************************)
EXTENDS Integers, FiniteSets

CONSTANTS
    Articles,           \* Article rows that may be created
    Urls,               \* sitemap URLs of the site, aliases of articles
    Texts,              \* content hashes, standing for the content
    Procs,              \* Q2 workers, and the operator's rebuild command
    NoArticle, NoText,
    MaxCount,           \* bound: largest active_article_count that is followed
    MaxEdits            \* bound: edits of the site by its owner

ASSUME ArticlesAssumption == IsFiniteSet(Articles) /\ NoArticle \notin Articles
ASSUME TextsAssumption == NoText \notin Texts
ASSUME BoundsAssumption == MaxCount \in Nat /\ Cardinality(Articles) <= MaxCount /\ MaxEdits \in Nat

VARIABLES
    project,      \* Project.state is ACTIVE
    activeCount,  \* Project.active_article_count
    form,         \* the Project an edit by the owner has read, to be saved whole
    article,      \* Article rows
    source,       \* ArticleSourceURL rows
    embedding,    \* ArticleEmbedding rows
    point,        \* Qdrant: the text whose vector the article's point holds
    removals,     \* undelivered remove_article_point messages
    retries,      \* page works to run again, past the ingestion they recorded
    job           \* what each process is running, and where it stands

vars == <<project, form, activeCount, article, source, embedding, point, removals, retries, job>>
rows == <<article, activeCount>>
site == <<project, form>>

-----------------------------------------------------------------------------
\* is_active is TRUE exactly in state "active": every write sets both.
ArticleRow == [state : {"none", "discovered", "active", "inactive"}, ready : BOOLEAN,
               text : Texts \cup {NoText}]

SourceRow == [article : Articles \cup {NoArticle}, active : BOOLEAN]

\* hash is content_hash, vector the text that was sent to the provider.
EmbeddingRow == [state : {"none", "failed", "succeeded"}, hash : Texts \cup {NoText},
                 vector : Texts \cup {NoText}]

\* seen: the rebuild's snapshot.  rest, batch: what it still has to handle.
Job == [at : {"idle", "check", "embed", "provider", "publish", "commit", "unpoint",
              "deactivate", "upsert", "mark", "scroll", "purge"},
        task : {"none", "page", "removal", "rebuild"},
        article : Articles \cup {NoArticle}, ready : BOOLEAN, text : Texts \cup {NoText},
        seen : [Articles -> Texts \cup {NoText}],
        rest : SUBSET Articles, batch : SUBSET Articles]

Unseen == [a \in Articles |-> NoText]
Idle == [at |-> "idle", task |-> "none", article |-> NoArticle, ready |-> FALSE,
         text |-> NoText, seen |-> Unseen, rest |-> {}, batch |-> {}]

NewArticle == [state |-> "none", ready |-> FALSE, text |-> NoText]
NewSource == [article |-> NoArticle, active |-> FALSE]
NewEmbedding == [state |-> "none", hash |-> NoText, vector |-> NoText]

\* left counts the edits still allowed.
Form == [open : BOOLEAN, left : 0..MaxEdits, count : 0..MaxCount]
NoForm(n) == [open |-> FALSE, left |-> n, count |-> 0]

\* The owner's Profile row, which an edit holds from its read to its save.
OwnerFree == ~form.open

Init ==
    /\ project = TRUE /\ activeCount = 0 /\ form = NoForm(MaxEdits)
    /\ article = [a \in Articles |-> NewArticle]
    /\ source = [u \in Urls |-> NewSource]
    /\ embedding = [a \in Articles |-> NewEmbedding]
    /\ point = Unseen
    /\ removals = {} /\ retries = {}
    /\ job = [p \in Procs |-> Idle]

IsIdle(p) == job[p].at = "idle"
Start(p, task, at, a, ready) ==
    job' = [job EXCEPT ![p] = [Idle EXCEPT !.task = task, !.at = at, !.article = a, !.ready = ready]]
Goto(p, at) == job' = [job EXCEPT ![p].at = at]
Stop(p) == job' = [job EXCEPT ![p] = Idle]

\* The work goes back to the crawl workflow, which runs the page again.
Retry(p) == retries' = retries \cup {<<job[p].article, job[p].ready>>} /\ Stop(p)

Exists(a) == article[a].state # "none"
Live(a) == article[a].state = "active"
LiveArticles == {a \in Articles : Live(a)}

\* EmbeddingService._eligible
Embeddable(a) == article[a].state \in {"discovered", "active"} /\ article[a].ready

\* The embedding is a succeeded one of the article's present text.
Embedded(a) == embedding[a].state = "succeeded" /\ embedding[a].hash = article[a].text

\* _eligible_embedding, and the rebuild's query.
Indexable(a) == project /\ Embeddable(a) /\ Embedded(a)

\* Mutant: the column takes negative values.
CanCountDownMutant == TRUE

\* Updates of active_article_count; the column rejects a negative value, and the
\* transaction that would write it is rolled back.
CanCountDown == activeCount > 0
CountUp == activeCount' = IF activeCount < MaxCount THEN activeCount + 1 ELSE activeCount
CountDown == CanCountDown /\ activeCount' = activeCount - 1
CountStays == activeCount' = activeCount

\* _index_ready_article holds its article, the owner and the project until it
\* commits.
ProjectFree == \A p \in Procs : job[p].at # "commit"
ArticleFree(a) == \A p \in Procs : job[p].at = "commit" => job[p].article # a

-----------------------------------------------------------------------------
(* ArticleIngestionService.ingest and the page job up to the embedding.    *)

\* The article of the page's canonical URL, else the one of its source, else
\* a new one.
Targets(u) ==
    {a \in Articles : Exists(a)} \cup
    (IF source[u].article = NoArticle THEN {a \in Articles : ~Exists(a)} ELSE {})

\* Mutant: changed text does not take an active article out of the index.
IngestedMutant(a, ready, t) ==
    [state |-> IF ~ready THEN "inactive"
               ELSE IF ~Live(a) THEN "discovered" ELSE article[a].state,
     ready |-> ready,
     text |-> IF ready THEN t ELSE article[a].text]

Ingested(a, ready, t) ==
    [state |-> IF ~ready THEN "inactive"
               ELSE IF t # article[a].text \/ ~Live(a) THEN "discovered" ELSE article[a].state,
     ready |-> ready,
     text |-> IF ready THEN t ELSE article[a].text]

Ingest(p, u, a, ready, t) ==
    /\ IsIdle(p) /\ ProjectFree /\ a \in Targets(u)
    /\ article' = [article EXCEPT ![a] = Ingested(a, ready, t)]
    /\ source' = [source EXCEPT ![u] = [article |-> a, active |-> TRUE]]
    /\ IF Live(a) /\ article'[a].state # "active" THEN CountDown ELSE CountStays
    /\ Start(p, "page", IF ready THEN "check" ELSE "unpoint", a, ready)
    /\ UNCHANGED <<site, embedding, point, removals, retries>>

\* A work that was ingested before goes on with the extraction it stored.
Resume(p, a, ready) ==
    /\ IsIdle(p) /\ <<a, ready>> \in retries
    /\ retries' = retries \ {<<a, ready>>}
    /\ Start(p, "page", IF ready THEN "check" ELSE "unpoint", a, ready)
    /\ UNCHANGED <<site, rows, source, embedding, point, removals>>

\* _cancel_if_project_ineligible lets it pass ...
CheckEligible(p) ==
    /\ job[p].at = "check" /\ OwnerFree /\ project
    /\ Goto(p, "embed")
    /\ UNCHANGED <<site, rows, source, embedding, point, removals, retries>>

\* ... or finds the project ineligible, or the sync cancelled.
CheckIneligible(p) ==
    /\ job[p].at = "check" /\ OwnerFree
    /\ Stop(p)
    /\ UNCHANGED <<site, rows, source, embedding, point, removals, retries>>

-----------------------------------------------------------------------------
(* EmbeddingService.embed_article: the provider is called between two      *)
(* transactions.                                                           *)

\* Mutant: a page with a current embedding is taken for finished.
EmbedReadMutant(p) ==
    LET a == job[p].article IN
    /\ job[p].at = "embed"
    /\ \/ (~Embeddable(a) \/ Embedded(a)) /\ Stop(p)
       \/ /\ Embeddable(a) /\ ~Embedded(a)
          /\ job' = [job EXCEPT ![p].at = "provider", ![p].text = article[a].text]
    /\ UNCHANGED <<site, rows, source, embedding, point, removals, retries>>

EmbedRead(p) ==
    LET a == job[p].article IN
    /\ job[p].at = "embed"
    /\ \/ ~Embeddable(a) /\ Stop(p)
       \/ Embeddable(a) /\ Embedded(a) /\ Goto(p, "publish")
       \/ /\ Embeddable(a) /\ ~Embedded(a)
          /\ job' = [job EXCEPT ![p].at = "provider", ![p].text = article[a].text]
    /\ UNCHANGED <<site, rows, source, embedding, point, removals, retries>>

\* Mutant: the text is not compared again under the row lock.
EmbedWriteMutant(p) ==
    LET a == job[p].article IN
    /\ job[p].at = "provider" /\ ArticleFree(a)
    /\ embedding' = [embedding EXCEPT ![a] = [state |-> "succeeded",
                            hash |-> article[a].text, vector |-> job[p].text]]
    /\ Goto(p, "publish")
    /\ UNCHANGED <<site, rows, source, point, removals, retries>>

EmbedWrite(p) ==
    LET a == job[p].article IN
    /\ job[p].at = "provider" /\ ArticleFree(a)
    /\ \/ /\ article[a].text = job[p].text
          /\ embedding' = [embedding EXCEPT ![a] = [state |-> "succeeded",
                                  hash |-> article[a].text, vector |-> job[p].text]]
          /\ Goto(p, "publish") /\ retries' = retries
       \/ article[a].text # job[p].text /\ embedding' = embedding /\ Retry(p)
    /\ UNCHANGED <<site, rows, source, point, removals>>

\* Mutant: a late failure overwrites a success of the same text.
RecordFailureMutant(p) ==
    LET a == job[p].article IN
    embedding' = IF article[a].text # job[p].text THEN embedding
                 ELSE [embedding EXCEPT ![a] = [state |-> "failed",
                                hash |-> article[a].text, vector |-> NoText]]

RecordFailure(p) ==
    LET a == job[p].article IN
    embedding' = IF article[a].text # job[p].text \/ Embedded(a) THEN embedding
                 ELSE [embedding EXCEPT ![a] = [state |-> "failed",
                                hash |-> article[a].text, vector |-> NoText]]

ProviderFails(p) ==
    /\ job[p].at = "provider" /\ ArticleFree(job[p].article)
    /\ RecordFailure(p)
    /\ Retry(p) \/ (retries' = retries /\ Stop(p))
    /\ UNCHANGED <<site, rows, source, point, removals>>

-----------------------------------------------------------------------------
(* _index_ready_article: under the locks of the article, its owner and the *)
(* project, upsert the point, mark the article active, commit.             *)

Publish(p) ==
    /\ job[p].at = "publish" /\ OwnerFree /\ ProjectFree /\ Indexable(job[p].article)
    /\ point' = [point EXCEPT ![job[p].article] = embedding[job[p].article].vector]
    /\ Goto(p, "commit")
    /\ UNCHANGED <<site, rows, source, embedding, removals, retries>>

\* Another page changed the article after its embedding, or the project was
\* suspended; a project that is active again by then is retried.
PublishRefused(p) ==
    /\ job[p].at = "publish" /\ OwnerFree /\ ProjectFree /\ ~Indexable(job[p].article)
    /\ \/ retries' = retries /\ Stop(p)
       \/ ~project /\ Retry(p)
    /\ UNCHANGED <<site, rows, source, embedding, point, removals>>

\* The call fails or times out, with or without effect.
UpsertFails(p) ==
    /\ job[p].at = "publish" /\ OwnerFree /\ ProjectFree /\ Indexable(job[p].article)
    /\ point' \in {point, [point EXCEPT ![job[p].article] = embedding[job[p].article].vector]}
    /\ Retry(p)
    /\ UNCHANGED <<site, rows, source, embedding, removals>>

\* Mutant: an article that is active already is counted again.
MarkActiveMutant(a) ==
    /\ article' = [article EXCEPT ![a].state = "active"]
    /\ CountUp

\* _mark_active
MarkActive(a) ==
    /\ article' = [article EXCEPT ![a].state = "active"]
    /\ IF Live(a) THEN CountStays ELSE CountUp

Commit(p) ==
    /\ job[p].at = "commit"
    /\ MarkActive(job[p].article)
    /\ Stop(p)
    /\ UNCHANGED <<site, source, embedding, point, removals, retries>>

-----------------------------------------------------------------------------
(* deactivate_article, by the page job of a page that is not READY, and by *)
(* remove_article_point: delete the point, then mark the article inactive. *)

Remove(p, a) ==
    /\ IsIdle(p) /\ a \in removals
    /\ removals' = removals \ {a}
    /\ Start(p, "removal", "unpoint", a, FALSE)
    /\ UNCHANGED <<site, rows, source, embedding, point, retries>>

Unpoint(p) ==
    /\ job[p].at = "unpoint"
    /\ point' = [point EXCEPT ![job[p].article] = NoText]
    /\ Goto(p, "deactivate")
    /\ UNCHANGED <<site, rows, source, embedding, removals, retries>>

UnpointFails(p) ==
    /\ job[p].at = "unpoint"
    /\ point' \in {point, [point EXCEPT ![job[p].article] = NoText]}
    /\ IF job[p].task = "page" THEN Retry(p) ELSE retries' = retries /\ Stop(p)
    /\ UNCHANGED <<site, rows, source, embedding, removals>>

\* Mutant: an article that is live again keeps its state, its point is gone.
DeactivateLiveMutant(p) ==
    LET a == job[p].article IN
    /\ job[p].at = "deactivate" /\ ArticleFree(a)
    /\ article' = IF Live(a) THEN article ELSE [article EXCEPT ![a].state = "inactive"]
    /\ Stop(p)
    /\ UNCHANGED <<site, activeCount, source, embedding, point, removals, retries>>

Deactivate(p) ==
    LET a == job[p].article IN
    /\ job[p].at = "deactivate" /\ ArticleFree(a) /\ (Live(a) => ProjectFree)
    /\ article' = [article EXCEPT ![a].state = "inactive"]
    /\ IF Live(a) THEN CountDown ELSE CountStays
    /\ Stop(p)
    /\ UNCHANGED <<site, source, embedding, point, removals, retries>>

\* The column's check fails and the task dies: the sweep runs the page again,
\* nothing runs a removal again.
DeactivateFails(p) ==
    LET a == job[p].article IN
    /\ job[p].at = "deactivate" /\ ArticleFree(a) /\ ProjectFree
    /\ Live(a) /\ ~CanCountDown
    /\ IF job[p].task = "page" THEN Retry(p) ELSE retries' = retries /\ Stop(p)
    /\ UNCHANGED <<site, rows, source, embedding, point, removals>>

-----------------------------------------------------------------------------
(* ArticleLifecycleService: each transaction marks the articles that lost  *)
(* their last active source, then queues the removal of their points.      *)

Backed(a, sources) == \E u \in Urls : sources[u].article = a /\ sources[u].active

\* reconcile_sitemap, with the sources that were absent often enough.  It counts
\* the active articles, but _finalize_sync, which read the project before, then
\* saves all of it: the count that was there stays.
ReconcileSitemap(gone) ==
    LET stale == {a \in Articles : article[a].state \in {"discovered", "active"}
                                    /\ ~Backed(a, source')}
    IN
    /\ ProjectFree
    /\ source' = [u \in Urls |-> IF u \in gone THEN [source[u] EXCEPT !.active = FALSE]
                                  ELSE source[u]]
    /\ article' = [a \in Articles |-> IF a \in stale THEN [article[a] EXCEPT !.state = "inactive"]
                                       ELSE article[a]]
    /\ CountStays
    /\ removals' = removals \cup stale
    /\ UNCHANGED <<site, embedding, point, retries, job>>

\* Mutant: the count goes down before the other pages of the article are looked at.
TerminalFetchMutant(u) ==
    LET a == source[u].article IN
    /\ a # NoArticle /\ ArticleFree(a) /\ (Live(a) => ProjectFree)
    /\ source' = [source EXCEPT ![u].active = FALSE]
    /\ IF Live(a) THEN CountDown ELSE CountStays
    /\ \/ Backed(a, source') /\ UNCHANGED <<article, removals>>
       \/ /\ ~Backed(a, source')
          /\ article' = [article EXCEPT ![a].state = "inactive"]
          /\ removals' = removals \cup {a}
    /\ UNCHANGED <<site, embedding, point, retries, job>>

\* reconcile_terminal_fetch, for a page that answered 404 or 410.
TerminalFetch(u) ==
    LET a == source[u].article IN
    /\ a # NoArticle /\ ArticleFree(a) /\ (Live(a) => ProjectFree)
    /\ source' = [source EXCEPT ![u].active = FALSE]
    /\ \/ Backed(a, source') /\ UNCHANGED <<rows, removals>>
       \/ /\ ~Backed(a, source')
          /\ article' = [article EXCEPT ![a].state = "inactive"]
          /\ IF Live(a) THEN CountDown ELSE CountStays
          /\ removals' = removals \cup {a}
    /\ UNCHANGED <<site, embedding, point, retries, job>>

\* ProjectService.suspend and reactivate lock the owner and the project.
Suspend ==
    /\ project /\ OwnerFree /\ ProjectFree /\ project' = FALSE
    /\ UNCHANGED <<form, rows, source, embedding, point, removals, retries, job>>
Reactivate ==
    /\ ~project /\ OwnerFree /\ ProjectFree /\ project' = TRUE
    /\ UNCHANGED <<form, rows, source, embedding, point, removals, retries, job>>

\* ProjectService.update locks the owner, reads the project and saves every
\* column of it, or is refused.
ReadForm ==
    /\ OwnerFree /\ ProjectFree /\ form.left > 0
    /\ form' = [open |-> TRUE, left |-> form.left - 1, count |-> activeCount]
    /\ UNCHANGED <<project, rows, source, embedding, point, removals, retries, job>>
SaveForm ==
    /\ form.open /\ form' = NoForm(form.left)
    /\ activeCount' = form.count
    /\ UNCHANGED <<project, article, source, embedding, point, removals, retries, job>>
DropForm ==
    /\ form.open /\ form' = NoForm(form.left)
    /\ UNCHANGED <<project, rows, source, embedding, point, removals, retries, job>>

-----------------------------------------------------------------------------
(* rebuild_article_collection: one query reads the corpus, batches are     *)
(* upserted and marked, then every point that was not read is deleted.     *)
(* The batch size is an argument of the command: batches are any sets.     *)

Corpus == {a \in Articles : Indexable(a)}

StartRebuild(p) ==
    /\ IsIdle(p)
    /\ job' = [job EXCEPT ![p] = [Idle EXCEPT !.task = "rebuild",
                  !.at = IF Corpus = {} THEN "scroll" ELSE "upsert",
                  !.rest = IF Corpus = {} THEN Articles ELSE Corpus,
                  !.seen = [a \in Articles |-> IF a \in Corpus THEN embedding[a].vector ELSE NoText]]]
    /\ UNCHANGED <<site, rows, source, embedding, point, removals, retries>>

RebuildUpsert(p) ==
    /\ job[p].at = "upsert"
    /\ \E b \in SUBSET job[p].rest :
         /\ b # {}
         /\ point' = [a \in Articles |-> IF a \in b THEN job[p].seen[a] ELSE point[a]]
         /\ job' = [job EXCEPT ![p].at = "mark", ![p].batch = b, ![p].rest = job[p].rest \ b]
    /\ UNCHANGED <<site, rows, source, embedding, removals, retries>>

\* What _mark_active requires of a row it read again.
StillIndexable(p, a) == Indexable(a) /\ article[a].text = job[p].seen[a]

RebuildMark(p) ==
    /\ job[p].at = "mark" /\ ProjectFree
    /\ \E a \in job[p].batch :
         /\ StillIndexable(p, a)
         /\ MarkActive(a)
         /\ job' = [job EXCEPT ![p] = [job[p] EXCEPT !.batch = job[p].batch \ {a},
               !.at = IF job[p].batch # {a} THEN "mark"
                      ELSE IF job[p].rest # {} THEN "upsert" ELSE "scroll",
               !.rest = IF job[p].batch = {a} /\ job[p].rest = {} THEN Articles ELSE job[p].rest]]
    /\ UNCHANGED <<site, source, embedding, point, removals, retries>>

\* article_changed_during_upsert leaves the command.
RebuildAborts(p) ==
    /\ job[p].at = "mark" /\ ProjectFree
    /\ \E a \in job[p].batch : ~StillIndexable(p, a)
    /\ Stop(p)
    /\ UNCHANGED <<site, rows, source, embedding, point, removals, retries>>

\* Mutant: points outside the corpus are left in place.
StaleMutant(p, page) == {}

Stale(p, page) == {a \in page : point[a] # NoText /\ job[p].seen[a] = NoText}

\* One page of point ids, in the order of the scroll ...
RebuildScroll(p) ==
    /\ job[p].at = "scroll"
    /\ \E page \in SUBSET job[p].rest :
         /\ page # {}
         /\ IF Stale(p, page) = {} /\ page = job[p].rest THEN Stop(p)
            ELSE job' = [job EXCEPT ![p].rest = job[p].rest \ page, ![p].batch = Stale(p, page),
                              ![p].at = IF Stale(p, page) = {} THEN "scroll" ELSE "purge"]
    /\ UNCHANGED <<site, rows, source, embedding, point, removals, retries>>

\* ... and the deletion of those that are not in the corpus.
RebuildPurge(p) ==
    /\ job[p].at = "purge"
    /\ point' = [a \in Articles |-> IF a \in job[p].batch THEN NoText ELSE point[a]]
    /\ IF job[p].rest = {} THEN Stop(p)
       ELSE job' = [job EXCEPT ![p].at = "scroll", ![p].batch = {}]
    /\ UNCHANGED <<site, rows, source, embedding, removals, retries>>

-----------------------------------------------------------------------------
(* Failures of a process or the broker.                                    *)

\* The transaction of a publication rolls back; the recovery sweep of the
\* crawl requeues the page work, nothing requeues a removal.
Crash(p) ==
    /\ ~IsIdle(p)
    /\ IF job[p].task = "page" THEN Retry(p) ELSE retries' = retries /\ Stop(p)
    /\ UNCHANGED <<site, rows, source, embedding, point, removals>>

LoseRemoval(a) ==
    /\ a \in removals /\ removals' = removals \ {a}
    /\ UNCHANGED <<site, rows, source, embedding, point, retries, job>>

\* The work has no attempt left, or its sync was cancelled.
GiveUp(a, ready) ==
    /\ <<a, ready>> \in retries /\ retries' = retries \ {<<a, ready>>}
    /\ UNCHANGED <<site, rows, source, embedding, point, removals, job>>

-----------------------------------------------------------------------------
Starts(p) ==
    \/ \E u \in Urls, a \in Articles, ready \in BOOLEAN, t \in Texts : Ingest(p, u, a, ready, t)
    \/ \E a \in Articles, ready \in BOOLEAN : Resume(p, a, ready)
    \/ \E a \in Articles : Remove(p, a)

Step(p) ==
    \/ CheckEligible(p) \/ EmbedRead(p) \/ EmbedWrite(p)
    \/ Publish(p) \/ PublishRefused(p) \/ Commit(p)
    \/ Unpoint(p) \/ Deactivate(p) \/ DeactivateFails(p)

\* Pages are crawled, sources come and go; nothing fails.
SteadyNext ==
    \/ \E p \in Procs : Starts(p) \/ Step(p)
    \/ \E gone \in SUBSET Urls : ReconcileSitemap(gone)
    \/ \E u \in Urls : TerminalFetch(u)

Upsets ==
    \/ Suspend \/ Reactivate \/ ReadForm \/ SaveForm \/ DropForm
    \/ \E p \in Procs : CheckIneligible(p) \/ ProviderFails(p) \/ UpsertFails(p)
                        \/ UnpointFails(p) \/ Crash(p)
    \/ \E a \in Articles : LoseRemoval(a) \/ \E ready \in BOOLEAN : GiveUp(a, ready)

Rebuild(p) ==
    \/ StartRebuild(p) \/ RebuildUpsert(p) \/ RebuildMark(p) \/ RebuildAborts(p)
    \/ RebuildScroll(p) \/ RebuildPurge(p)

CrawlNext == SteadyNext \/ Upsets
Next == CrawlNext \/ \E p \in Procs : Rebuild(p)

Spec == Init /\ [][Next]_vars

\* The system while no operator runs the rebuild.
CrawlSpec == Init /\ [][CrawlNext]_vars

\* Without failures.  Row locks are queued, so a publication gets its turn; a
\* requeued work is dispatched again.
Fairness ==
    /\ \A p \in Procs : SF_vars(Step(p))
    /\ \A a \in Articles, ready \in BOOLEAN : SF_vars(\E p \in Procs : Resume(p, a, ready))
SteadySpec == Init /\ [][SteadyNext]_vars /\ Fairness

-----------------------------------------------------------------------------
(* A rebuild on its own, from any drift between the stores: points lost    *)
(* with the collection, left behind by interrupted deletions, or holding   *)
(* an earlier text.  It reads no sources.                                  *)

DriftRow(row, emb, pt) ==
    /\ row.state = "none" => row = NewArticle /\ emb = NewEmbedding /\ pt = NoText
    /\ row.ready => row.text # NoText
    /\ row.state \in {"discovered", "active"} => row.ready
    /\ row.state = "active" => emb.state = "succeeded" /\ emb.hash = row.text
    /\ emb.state = "none" => emb = NewEmbedding
    /\ emb.state # "none" => emb.hash # NoText /\ row.text # NoText
    /\ emb.vector = IF emb.state = "succeeded" THEN emb.hash ELSE NoText

DriftInit ==
    /\ project \in BOOLEAN
    /\ article \in [Articles -> ArticleRow]
    /\ embedding \in [Articles -> EmbeddingRow]
    /\ point \in [Articles -> Texts \cup {NoText}]
    /\ \A a \in Articles : DriftRow(article[a], embedding[a], point[a])
    /\ activeCount = Cardinality(LiveArticles) /\ form = NoForm(MaxEdits)
    /\ source = [u \in Urls |-> NewSource]
    /\ removals = {} /\ retries = {}
    /\ job = [p \in Procs |-> Idle]

RepairNext == \E p \in Procs : Rebuild(p)
RepairSpec == DriftInit /\ [][RepairNext]_vars /\ WF_vars(RepairNext)

-----------------------------------------------------------------------------
(* Properties.                                                             *)

JobNamesArticle(p) ==
    job[p].at \notin {"idle", "upsert", "mark", "scroll", "purge"} \/ job[p].task = "page"
        => job[p].article \in Articles

TypeOK ==
    /\ project \in BOOLEAN /\ form \in Form
    /\ activeCount \in 0..MaxCount
    /\ article \in [Articles -> ArticleRow]
    /\ source \in [Urls -> SourceRow]
    /\ embedding \in [Articles -> EmbeddingRow]
    /\ point \in [Articles -> Texts \cup {NoText}]
    /\ removals \in SUBSET Articles
    /\ retries \in SUBSET (Articles \X BOOLEAN)
    /\ job \in [Procs -> Job] /\ \A p \in Procs : JobNamesArticle(p)

\* semantic_search with _authorized_search_hits: Qdrant returns the article's
\* point and PostgreSQL does not filter it out.
Searchable(a) == Live(a) /\ Indexable(a) /\ point[a] # NoText

\* An active article has the embedding of its present text: late failures,
\* stale vectors and edits by other pages never come between the two rows.
ActiveIsEmbedded == \A a \in Articles : Live(a) => Embeddable(a) /\ Embedded(a)

\* A stored embedding is of the text it is stored with, though the provider was
\* called outside of any transaction.
VectorOfItsText ==
    \A a \in Articles : embedding[a].state = "succeeded" => embedding[a].vector = embedding[a].hash

\* Search never ranks an article by the vector of a text it no longer has.
\* 0008: "Upsert requires a current succeeded PostgreSQL embedding whose hash
\* ... match the current eligible article".
PointIsCurrent == \A a \in Articles : Searchable(a) => point[a] = article[a].text

\* Project.active_article_count is changed by deltas in five transactions.  None
\* of them changes how far it is off; only a finalization that takes articles
\* out, which makes it too high, and the save of an edit do.
CountError == activeCount - Cardinality(LiveArticles)
CountErrorIsKept ==
    [][ \/ CountError' = CountError \/ SaveForm \/ activeCount = MaxCount
        \/ (\E gone \in SUBSET Urls : ReconcileSitemap(gone)) /\ CountError' > CountError ]_vars

\* Until the owner edits the site the count is not too low, so no ingestion,
\* removal or terminal fetch of an active article dies on the check of the column.
NeverUndercounts == form.left = MaxEdits => activeCount >= Cardinality(LiveArticles)

\* While nothing fails, an active article has its point, except between the
\* two steps of its removal.
Removing(a) == \E p \in Procs : job[p].at = "deactivate" /\ job[p].article = a
ActiveIsIndexed == \A a \in Articles : Live(a) => point[a] # NoText \/ Removing(a)

\* The crawl implements the promise made to search.
SearchPromise == INSTANCE SearchCorpus WITH
    text <- [a \in Articles |-> article[a].text],
    found <- [a \in Articles |-> IF Searchable(a) THEN point[a] ELSE NoText]
CorpusImplemented == SearchPromise!CorpusSpec

\* A discovered article whose text stops changing is published or taken out,
\* whichever pages of it run at once and lose to each other.
DiscoveredIsDecided ==
    \A a \in Articles, t \in Texts : []<>~(article[a].state = "discovered" /\ article[a].text = t)

\* 0008: the rebuild is the recovery path "for a lost collection, interrupted
\* writes, and lifecycle drift": afterwards the points are those of the corpus,
\* with current vectors, and the corpus is active.
Repaired ==
    \A a \in Articles : /\ point[a] = IF Indexable(a) THEN article[a].text ELSE NoText
                        /\ Indexable(a) => Live(a)
RebuildRepairs == <>[]Repaired
=============================================================================
