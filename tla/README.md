# CiteGuild: formal model

A TLA+ development of CiteGuild: the Django application that crawls the sites of
its members, indexes their articles for semantic search and shows the links
between them. Source paths below are relative to `src/`.

| Module | Models |
|---|---|
| `CrawlJobs`, `PageLeases` | the crawl workflow of one site; what it promises of a page |
| `ArticleIndex`, `SearchCorpus` | articles in PostgreSQL and their points in Qdrant; what the two promise to search |
| `SafeFetch` | the crawler's HTTP client |
| `SitemapParsing`, `PageExtraction` | what a fetched sitemap and a fetched page become |
| `NetworkGraph` | the detected links between sites |
| `SearchQueries` | one search while the corpus changes |
| `SiteRatings`, `SiteCleanup`, `MetricSnapshots` | a site's host and rating, what a deleted site leaves behind, its daily counts |
| `Accounts`, `OAuthTokens` | a member's profile under webhooks and requests; MCP credentials |
| `ApiRequests` | a request from its caller to its exit code |
| `IndexNow`, `CollectionBootstrap`, `Rollout` | what a release does: announce pages, create the collection, wait for its processes |
| `MCCrawlJobs`, `MCArticleIndex`, `MCSafeFetch`, `MCSearch`, `MCServices`, `*.cfg` | small instances for TLC |
| `CrawlJobs_proofs`, `ArticleIndex_proofs`, `SafeFetch_proofs` | theorems about the three large components, with their TLAPS proofs |
| `Members_proofs`, `Sites_proofs`, `Operations_proofs` | the same for the others: what members use (`Accounts`, `ApiRequests`, `SearchQueries`, `OAuthTokens`), what is kept of their sites (`SiteCleanup`, `SiteRatings`, `MetricSnapshots`, `NetworkGraph`, `SitemapParsing`), how the service is run (`Rollout`, `CollectionBootstrap`, `IndexNow`, `PageExtraction`) |
| `MCServices_proofs` | that these thirteen keep their promises together |
| `NumberLemmas` | least elements, induction over a set, `Min` and `Max`: what proofs about data rest on |

`PROJECT.json` is the index: components, runs, mutants, theorems, hazards, and
for every definition the source lines it models.

Run `tlc -config CrawlSyncs.cfg MCCrawlJobs` and so on for the runs,
`tlapm CrawlJobs_proofs.tla` and so on for the proofs.

## Inventory

The system is one Django project (PostgreSQL), a Q2 worker cluster fed by a
Redis list, a Qdrant collection, and the providers it calls (OpenRouter for
embeddings, Stripe for billing, a domain-rating API). Web requests, Q2 tasks
and scheduled commands run concurrently in separate processes. They share only
PostgreSQL rows, broker messages and Qdrant points, and coordinate with
`select_for_update`, unique constraints and conditional `UPDATE`s.

| Component | State it keeps | Operations | Module |
|---|---|---|---|
| Crawl orchestration `core/crawl_jobs.py` | `ProjectSyncRequest`, `PageCrawlWork` | enqueue, run and cancel a sync; dispatch, claim, crawl and settle a page; finalize; recover | `CrawlJobs` |
| Sitemap submission and parsing `core/sitemap_submission.py`, `core/sitemap_parser.py` | `SitemapInventory`, candidates | probe, traverse, promote | `SitemapParsing`, promotion in `CrawlJobs` |
| Safe fetch `core/safe_fetch.py` | semaphores and start times per host | fetch | `SafeFetch` |
| HTML extraction `core/html_extraction.py` | `PageExtractionResult` | extract, persist once per job | `PageExtraction` |
| Ingestion and lifecycle `core/article_ingestion.py` | `Article`, `ArticleSourceURL`, active counts | ingest, reconcile absence, reconcile a terminal fetch | `CrawlJobs`, `ArticleIndex`, `NetworkGraph` |
| Embeddings `core/article_embeddings.py` | `ArticleEmbedding` | embed, record failure | `ArticleIndex` |
| Vector index `search/qdrant.py` | Qdrant points, `Article.indexed_at` and state | publish, deactivate, remove, rebuild; create the collection; query | `ArticleIndex`, `CollectionBootstrap`, `SearchQueries` |
| Search `search/service.py` | none | search | `SearchQueries` |
| Project deletion `search/cleanup.py` | `ProjectDeletionCleanup` | record, attempt, sweep | `SiteCleanup` |
| Projects `core/projects.py` | `Project` | create, update, suspend, reactivate, delete | where each effect is read: `CrawlJobs`, `ArticleIndex`, `NetworkGraph`, `SiteRatings`, `SiteCleanup` |
| Network graph `core/network_graph.py` | `OutboundLinkObservation`, `DetectedNetworkLink` | reconcile | `NetworkGraph` |
| Domain ratings `core/domain_ratings.py` | rating columns of `Project` | refresh, sweep, backfill | `SiteRatings` |
| Metric snapshots `core/metric_history.py` | `ProjectMetricSnapshot` | capture, chart | `MetricSnapshots` |
| Accounts, invitations, billing webhooks `core/views.py`, `core/stripe_webhooks.py` | `Profile`, `StripeWebhookEvent` | show and rotate the key, save settings, apply an event, sign up, delete | `Accounts` |
| MCP OAuth and server `mcp_server/oauth.py`, `auth.py` | clients, codes, access and refresh tokens | register, authorize, exchange, rotate, revoke, answer a tool | `OAuthTokens` |
| HTTP API, CLI `api/`, `cli/` | rate-limit counters in the cache | authenticate, limit, route, answer, exit | `ApiRequests` |
| IndexNow `citeguild/indexnow.py` | the checkpoint file | verify, read, submit, save | `IndexNow` |
| Deployment readiness `core/worker_readiness.py`, `deployment/wait_ready.py` | the registration in the cache, a streak of good answers | register, answer, wait | `Rollout` |
| Schedules | Q2 `Schedule` rows | ensure | the fairness of `CrawlJobs` |
| Dashboards, pages, blog, analytics, email | none that is read back | read, render, send | none |

Component paths are below `apps/`, except `citeguild/`, `cli/` and `deployment/`.

What is hard in each, and what makes it correct:

- **Crawl orchestration.** Duplicate and lost messages, killed workers, a
  recovery sweep that runs beside the workers it recovers, cancellation under a
  running fetch, several transactions per handler. Correct when a page is
  crawled by one process at a time, its outcome is final, the per-site limit
  holds, at most one sync is active, and a requested sync ends.
- **Projects.** One row with columns of many owners: the crawl's pointers and
  counts, the index's counts, the rating, the form. Edits and finalizations save
  it whole. Correct when no such save undoes what was committed meanwhile; the
  code does not always keep that, and the models say where.
- **Ingestion, embeddings, vector index.** Two stores with no common
  transaction, provider calls between a read and a write, removals queued after
  commit, a rebuild that overlaps publication. Correct when search returns only
  live articles with their current vector, and every live article is
  eventually searchable.
- **Fetching and parsing.** Answers that change between hops, a table of hosts
  that fills up, sitemaps that cite each other. Correct when only public
  addresses are contacted, no permit is lost, and a parse that returns is
  complete.
- **Row locks.** Transactions of one site lock `Project`, `Profile`, sync and
  article rows in different orders. Correct when no two wait for each other.
- **Derived rows.** Edges, ratings and snapshots are computed from rows that
  change meanwhile. Correct when they equal what their inputs imply.
- **Project deletion.** A durable intent, a task and a sweep overlap and
  crash. Correct when the intent outlives the points.
- **Profiles and credentials.** Late, repeated, equally dated events; concurrent
  exchanges and rotations; rows written back whole. Correct when the profile is
  that of the latest event, a grant is spent once and revocation is final.
- **Search and API.** Scope, index and rows read one after another; a limiter
  over keys that expire. Correct when nothing hidden is served and nothing
  findable is lost, and the answer tells its cause.
- **Releases.** Overlapping processes of two releases. Correct when a release is
  called ready only while it serves, and nothing changed goes unannounced.

`PROJECT.json` lists the hazards of each, at the line where they bite, with the
properties that cover them.

## The crawl model

`CrawlJobs` is one site. Its variables are the columns the workflow reads:

| Variable | Code |
|---|---|
| `eligible` | `Project.is_sync_eligible`: active project of a subscriber |
| `sync[s]` | `ProjectSyncRequest`: state, origin (`daily`), `broker_task_id` (`marker`), attempts, whether `next_attempt_at` has passed (`due`), its inventory |
| `work[<<s, u>>]` | `PageCrawlWork` of URL `u` in sync `s`, with whether a succeeded attempt (`ingested`) and a 404/410 attempt (`gone`) exist |
| `source[u]` | `ArticleSourceURL`: active or not, `consecutive_missing_syncs` |
| `currentSync`, `lastSync` | `Project.current_sync_uuid`, `last_sync_uuid` |
| `form` | the row that `ProjectService.update` has read and will save whole, and how many edits are still allowed |
| `syncMsgs`, `pageMsgs` | copies of a message in the Redis list |
| `job[p]` | what process `p` runs and the transaction or call it makes next |
| `faults` | crashes, lost messages and broker errors still allowed |

A handler is a path through `job[p].at`:

- **enqueue** `reserve -> send_sync -> mark_sync`: reserve the marker
  in one `UPDATE`, push to the broker, then mark it in a conditional `UPDATE`.
- **sync** claim, then `parse -> create -> dispatch -> send_pages <-> mark_page`,
  or `create -> finalize` when no page was selected.
- **page** claim, then `crawl -> check -> index -> record -> finalize`, and
  `dispatch` again while the sync runs. A page that is not eligible any more
  leaves through `ineligible`.
- **sweep** four independent `UPDATE`s (`RequeueStaleSync`, `RequeueStalePage`,
  `ClearStaleSyncMarker`, `ClearStalePageMarker`), then an enqueue per queued
  sync and a dispatch and finalization per running one.

The grain is one action per transaction, autocommit statement or broker call.
Each transaction of the workflow begins with `select_for_update` on the rows it
reads, joined rows included, so it is atomic here; whatever lies between two of
them interleaves with every other process. Each action carries everything its
transaction does: `CancelSync`, for instance, is the sync row, its
unfinished pages and the pointer of the project.

The exception is an edit of the site (`projects.py:131-165`). It locks the owner,
reads the project without a lock and saves every column, so it is two
actions, `ReadForm` and `SaveForm` (or `DropForm`, when the new values are refused),
and what was committed between them is undone: the pointers to the present and
the last sync here, the active count in `ArticleIndex`, the rating in
`SiteRatings`. Only transactions that lock the owner's row wait for it
(`OwnerFree`): other edits, suspension, and those that lock it by a join.

Abstractions, all of them on data:

- Backoff and clocks are the flags `due`, set by `SyncDue` and `PageDue`.
- `attempt_count` is only ever compared with `max_attempts`, so it saturates.
- Message copies saturate at `MaxCopies`: one more copy is indistinguishable
  from the last.
- The order of candidates and of the dispatched batch is a free choice.
- A daily sync selects at least what the code always selects (URLs without a
  source), and any of the others, whose hints and ages are not modelled.
- A fetch, ingestion or indexing result is one of `ok`, `retry`, `fail`, `gone`.
- Funnel events, counts, error texts and logging are left out.

Age is the one delicate abstraction. The sweep's cutoffs compare a time stamp
with `CRAWL_STALE_AFTER_SECONDS` (default 3600, `citeguild/config.py:134`) and
Q2 kills a task after 3600 s (`citeguild/settings.py:470`). While the cutoff is
not below the timeout, a claim old enough to be requeued belongs to a killed
task. That is the constant `StaleOutlivesTask`: when it is true a stale claim is
one that no process holds. When false, the sweep may take any claim. Page
markers get no such guard: `bulk_update` does not refresh `updated_at`, so a
fresh reservation may already count as stale.

`PageLeases` has two variables, the state of each page and the workers that hold
it, and knows no sync, message or reservation. Pages are offered, taken by one
worker each under the limit, reported by their holder, reclaimed when nobody
holds them, and called off; a worker may leave at any time. `CrawlJobs`
implements it by `state <- work[w].state` and `holders <-` the processes
between the claim and the recorded outcome of `w`. A page that was called off may
still be reported decided: `_record_page_outcome` looks at the state of the sync, and
a sitemap failure recorded late overwrites that one with `queued` or `failed`.

## The index model

`ArticleIndex` is the other half of a page job. `CrawlJobs` reduces fetching,
ingesting and indexing a page to an outcome; here that part is opened, and the
workflow around it is reduced to "a page is crawled", "its work runs again" and
"a source went away".

| Variable | Code |
|---|---|
| `project` | `Project.state` is active and its owner has access |
| `activeCount` | `Project.active_article_count` |
| `form` | as in `CrawlJobs`: the row an edit has read, here its count |
| `article[a]` | `Article`: state, whether the extraction is READY, `content_hash` |
| `source[u]` | `ArticleSourceURL`: its article, active or not |
| `embedding[a]` | `ArticleEmbedding`: status, `content_hash`, the text its vector was computed from |
| `point[a]` | the article's point in Qdrant: the text whose vector it holds, or none |
| `removals` | `remove_article_point` messages not yet delivered |
| `retries` | page works to run again whose ingestion is already recorded |
| `job[p]` | what process `p` runs, where it stands, and what it read before |

A handler is again a path through `job[p].at`:

- **page** `ingest -> check -> embed -> provider -> publish -> commit`, or
  `ingest -> unpoint -> deactivate` when the page is not READY. The provider is
  called between two transactions (`EmbedRead`, `EmbedWrite`), so the text read
  before the call is carried in the job and compared again after it.
- **removal** `unpoint -> deactivate`, queued after commit by
  `reconcile_sitemap` and `reconcile_terminal_fetch`.
- **rebuild** one query reads the corpus, then `upsert -> mark` per batch (one
  transaction per article), then `scroll <-> purge` over the points that exist.

A publication is the one transaction that spans a call to the other store:
`_index_ready_article` locks the article, its owner and the project, upserts the
point, marks the article active and commits. It is two actions, `Publish` and
`Commit`; between them the locks are visible to the others as `ProjectFree` and
`ArticleFree`, which stand in the guard of every action whose transaction locks
one of those rows. A Qdrant call takes effect at its own step; a failing one
(`UpsertFails`, `UnpointFails`) does so with or without effect.

The active count follows the code's two ways to lose an update. `_finalize_sync`
locks and reads the project, `reconcile_sitemap` recounts with an `UPDATE`, and the
`project.save()` that follows writes the old count back, so `ReconcileSitemap`
leaves the count as it was. And `SaveForm` writes back the count an edit
had read. The column admits no negative number: a transaction that would count
below zero fails (`DeactivateFails`, the guard `CanCountDown` elsewhere).

Abstractions:

- `is_active` and the state are one: every write in the code sets both.
- `CITEGUILD_INDEXING_ENABLED` is on. With it off nothing is ever published.
- An owner who loses access is `Suspend`, or a refusal in `CheckIneligible`.
- Which sources have been absent long enough is any set (`CrawlJobs` counts).
- Messages and retries are sets: a second copy of a removal has no effect that
  delivering it later would not have.
- A batch of the rebuild is any non-empty part of what is left: its size is an
  argument of the command. So is the extent of a scroll page.
- The standalone tasks `embed_article` and `index_article` are left out: nothing
  in the repository enqueues them, and their bodies are those of the page job.
- The text of an article stands for its hash, its content and its vector, as far
  as `embedding` does not tell them apart.

`SearchCorpus` has two variables: the text of each article, and the text whose
vector a query finds it by. Its steps are `Reveal` (any articles enter or leave
the results, under their present text) and `Edit` (one text changes and its
article leaves the results in the same step). `ArticleIndex` implements it by
`text <- article[a].text` and `found <- point[a]` where the article is active and
`_authorized_search_hits` would let it through.

## The fetch model

`SafeFetch` is a client of `SafeFetchClient` and its concurrent calls of `fetch`.

| Variable | Code |
|---|---|
| `concurrency` | `per_host_concurrency`: `CRAWL_GLOBAL_CONCURRENCY`, at most 2 |
| `call[c]` | a call: where it stands, its URL, visited URLs, redirects, address, limiter state, what is left to sleep, bytes, result |
| `tracked` | the hosts with a `_DomainState` of their own; the others share the overflow state |
| `slots[s]`, `age[s]` | free permits of a state's semaphore; ticks since `last_started_at` |

A call goes `target -> slot -> pace -> sleep -> connect -> plain | compressed`,
back to `target` on a redirect, and to `done` from everywhere. A step is what
a thread does between two points where it may block. The resolver answers anew
each time, a redirect may lead anywhere or carry a `Location` that `urljoin` rejects
with an error nobody catches (`RedirectRaises`), a response may end in any way, and
the semaphore may time out. Headers are reduced to what a decision reads, bytes to
blocks, and URLs to those that each check tells apart.

- `PermitsHold` - a permit is free or held by a call on its way, and no host is
  contacted by more calls than allowed, also when the table is full.
- `StartsArePaced` - requests of one state start an interval apart: the clock is
  read, slept on and written under one lock.
- `ContactsArePublic` - every connection goes to an address checked on that hop,
  on a URL new to the call.
- `FetchEnds` - every call returns.

## The other components

Each of these modules shares no variable with the crawl or with another, and is
read on its own. The grain is again a transaction, a statement that others may
overlap, or a call to a provider.

**`SitemapParsing`** - a submission's probe (`Validate`) and the breadth-first
traversal of `sitemap_parser.py`. `queue`, `seen`, `best` and `counts` are the
fields of `_ParseState`; the fetched document is chosen at each step from
the classes the code distinguishes (content, compression, kind, entries).
`ParseIsSound`: a parse that returns has read exactly what the root leads to,
each file once, and kept for every address its latest date; the depth limit
refuses only what no shorter way reaches; the diagnostics add up.

**`PageExtraction`** - overlapping attempts at one crawl job: fetch, extract,
persist once per job, ingest what is stored. A response is a record of the facts
`extract_article` looks at, in the order of its refusals, and a table of links with
its cap; a malformed canonical hint raises outside the `try` and the attempt dies. `OneExtraction`: all attempts ingest the same extraction, and no text is
kept of a page that asks not to be indexed.

**`NetworkGraph`** - `net` holds the committed rows: sites with hosts, articles
with URLs, observations and edges. Ingestion is two steps, since under READ
COMMITTED other transactions do not see what it inserts; `Publish`, `Unpublish`,
`CreateSite`, `MoveSite`, `Transition` and `DeleteSite` reconcile rows that exist
and are one step each. `GraphIsFaithful`: an edge that members see joins live
ends, crosses sites, and is what reconciling it again would give. It excepts the
links of two windows, which the history variables `overlapped` and `givenUp` name:
a link inserted while another transaction commits, and a link to a URL that two
articles had until one gave it up. Both leave a stale edge in the code.

**`SearchQueries`** - one search in the four reads of `search/service.py` (scope,
embedding, points, final check), while articles are rewritten, hidden and
published and sites suspended or renamed. Articles are numbered by score.
What is returned passes the database's conditions when `Judge` asks it, by
that step's filter. `SteadyIsFound`: an article findable throughout is found unless better
ones fill the result or the oversampling. `ExcludedStayOut` is refuted (below).

**`SiteRatings`** - the rows that the forms of `projects.py`, which write every
column of a row read without a lock, share with the rating tasks, which ask a provider
between reading the host and storing its rating. `RatingOfItsHost`.

**`SiteCleanup`** - deletion of a site or of its member, the intent row, the queued
task, the sweep, workers that die at any step, and a publication under way.
`RowOutlivesPoints`: the intent is removed only when the points are gone, except
for points upserted after the deletion (`late`).

**`MetricSnapshots`** - hourly sweeps that overlap, die and run past midnight.
`SnapshotsStay`: no sweep revises a day's row.

**`Accounts`** - one `Profile` row under Stripe events (any order, repeated, of
equal dates), key rotation, copies of the prompt, the settings form, sign-up on an
invitation and deletion. `session[s]` carries what a request read.
`ProfileIsCurrent`: the status is that of the newest event that reached the
row, and a key that was shown works until its member rotates it. `handedOut` starts
with the key the row has, or none. For a row whose ciphertext does not open
that is a legacy key (`LegacyKey`): the first copy of the prompt replaces it
(`views.py:264-268`), and the property then asks that the member has been shown
a key that works. It does not claim any of this once the settings form has written
back an older row (`overwritten`).

**`OAuthTokens`** - the rows of `mcp_server/models.py` and the requests on them. An
exchange locks its code, a rotation its refresh token; a rotation is split
at the `UPDATE` that revokes access tokens, which two rotations may overlap in.
`GrantsAreSpent`: a code or refresh token yields at most one pair, and the access
token of a rotated pair is dead. A tool call is the steps of the code: the
middleware admits it (`Enter`), the tool authenticates again (`CallTool`), the
search service reads the account (`ReadAccount`), and provider and index answer
(`FinishSearch`); rotations, revocations and a member's disabling interleave with
all of them. `ServedBeforeReplaced`: a tool answers on no credential that another had
replaced before the tool began (`began` records which there were). What is revoked
or disabled later does not stop the answer, in the code or in the model.

**`ApiRequests`** - a request from the caller through credential, limiter, route
and answer to the exit code. `counter` is the cache with keys that expire; `add`
and `incr` are separate steps. `WindowBudget`: at most `RateLimit` requests of a key
pass within a window. `ExitTellsCause`: the exit code and the advice to retry say
truly what happened. The services behind the routes may end in any way.

**`IndexNow`** - a run verifies its key, reads the sitemaps one by one, submits
batches with retries and saves the checkpoint, while releases go live.
`CheckpointAnnounced`: while a live page has not been announced as it is, the next
check finds its state different from the checkpoint.

**`CollectionBootstrap`** - release commands that create and check the collection
at once, with failures of Qdrant. `EnsuredMatches`: one that succeeds leaves its own
size and every index, and one creator at most. It and `OneExtraction` are the two
parts of `CreatedOnce`, creations that race.

**`Rollout`** - web processes and worker clusters of two releases and two settings,
the registration in the cache, and the wait for consecutive good answers.
`ReadyMeansServing`: at the poll that ends the wait, the release serves and its
worker runs with those settings.

`MCServices` puts these thirteen into one run. A behaviour is one component's
(`part`) with the variables of the others at rest, so the run explores the sum
of their state spaces and not the product; since they share no variable,
nothing is lost.

## Runs

| Run | Instance | Checks |
|---|---|---|
| `syncs` | 2 syncs, 1 URL, 2 processes, 1 attempt, limit 2, 1 edit | `TypeOK`, `OneActiveSync`, `CurrentSyncStaysActive` |
| `faults` | 1 sync, 2 URLs, limit 1, 2 copies per message, 1 fault | `ExclusiveCrawl`, `RunningWithinLimit`, `SettledPagesStay`, `LeasesImplemented` |
| `settles` | 1 sync, 1 URL, 2 attempts, 1 fault, fair | `ReservationsBacked`, `SyncSettles` |
| `refill` | 1 sync, 3 URLs, limit 1, no fault, no sweep, fair | `SlotsRefilled` |
| `index` | 1 article, 2 texts, 1 URL, 3 processes, no rebuild | `PointIsCurrent`, `CorpusImplemented` |
| `index_rows` | 1 article, 2 texts, 2 URLs, 2 processes, rebuilds, 1 edit, a count up to 2 | `TypeOK`, `ActiveIsEmbedded`, `VectorOfItsText`, `NeverUndercounts`, `CountErrorIsKept` |
| `index_steady` | 1 article, 2 texts, 2 processes, no failure, fair | `ActiveIsIndexed`, `DiscoveredIsDecided` |
| `index_repair` | 2 articles, 2 texts, a rebuild from any drift, fair | `RebuildRepairs` |
| `fetch` | 2 calls, 2 hosts, 1 tracked, 2 redirects, 2 blocks, 1 or 2 permits, fair | `FetchTypeOK`, `PermitsHold`, `ContactsArePublic`, `StartsArePaced`, `FetchEnds` |
| `services` | the thirteen components, as below | `ServicesTypeOK` and fourteen more, named above |
| `absence_twice` | 1 sync, 2 URLs, one of them known | `AbsenceCountedOnce`, which fails |
| `search_exclusions` | the search of `services`, 2 changes | `ExcludedStayOut`, which fails |

Why these sizes are enough. In the crawl every property is about one page, one
pair of pages or one pair of syncs, and a violation needs at most two processes
besides the sweep's statements, which take no process. `syncs` has the old sync
that is finalized or cancelled under its crawler while a new one is requested;
its limit is 2, so that only the state of a row stops a second claim. `faults`
has the two pages that compete for the limit, the two copies of a message and
the crash between claim and outcome. `settles` adds the retry of a page
(a lease reported `queued`, which `faults` with its one attempt leaves to the
theorem).
`refill` needs a third page, the one that waits for a slot to come free twice.
Suspension, reactivation and the sweep are enabled in all of them, except that
`refill` leaves the sweep out by design. In the index a property is about one
article, two texts tell old from new, and three processes are a page, another
page of the same article and a removal. `index_rows` has two processes, a page
beside another, a removal or a rebuild, and two URLs of the article, so that one
may go while the other keeps it. Two articles matter to a rebuild's batches,
and `index_repair` has them; that the count is right for any number is proved.
An edit of the site (`MaxEdits`) is allowed in `syncs`, where it is open while a
sync ends and the next is queued, and in `index_rows`; elsewhere the bound is 0,
for no other property reads what an edit saves. `MaxCount` is above the number of articles, so that the count can
exceed it; `CountErrorIsKept` is silent only where it has reached that bound. In `fetch` two calls compete for
one permit or hold both, one host has a state of its own and the other
shares, and a chain of redirects reaches its limit; the settings 1, 2 and 8 show
that a larger one is cut to two.

| In `services` | Instance | Why |
|---|---|---|
| `Accounts` | 4 events, 2 requests, 2 keys | early and late, equal dates, an event found by customer only, a checkout; two copies of the prompt |
| `OAuthTokens` | 1 client, 1 member, 1 code, 3 pairs, 2 requests | an exchange and two rotations, two of them at once |
| `NetworkGraph` | 2 sites, 3 articles, 1 URL, 1 link | two articles that may both have the URL |
| `SiteCleanup` | 2 sites, 2 workers | the task and the sweep on one site; two sites of a member |
| `SiteRatings` | 2 sites, 2 hosts, 2 tasks, batch 1 | a site moves away and another takes its host |
| `SitemapParsing` | 3 addresses, 4 files, depth 2, 5 entries, 2 per file | indexes that cite each other, all limits reached |
| `ApiRequests` | 2 calls, limit 1, window 2 s, 3 s | two windows, a key that expires between `add` and `incr` |
| `SearchQueries` | 2 sites, 3 articles, 3 hosts, 2 languages, oversampling 2, 3 changes | more candidates than the oversampling asks for; a site that moves |
| `IndexNow` | 3 URLs, 2 releases, 2 tries, batch 2 | two batches, one fails; a page without `<lastmod>` |
| `CollectionBootstrap` | 2 commands, 2 sizes, 2 indexes, 1 outage | the race, and settings that disagree |
| `Rollout` | 2 releases with 2 settings, 2 processes, 3 polls, 2 in a row | old and new overlap; one answer breaks the streak |
| `PageExtraction` | 2 attempts, 3 destinations of which 2 are kept, 4 links | overlap; the cap |
| `MetricSnapshots` | 2 sites, 2 sweeps, 2 days | overlap past midnight |

`FewArrangements` starts the search from one of several arrangements of hosts and
languages that renaming makes equal, and takes of the keys shown at the start only
a legacy key: one that opens is shown by the first copy of the prompt. `services` and `search_exclusions` turn the
deadlock check off, because behaviours under their bounds end.

What the properties of the crawl say:

- `ExclusiveCrawl` - between `_claim_page_work` and `_record_page_outcome` of one
  row there is at most one process, whatever is delivered twice or requeued.
- `SettledPagesStay` - no step rewrites a page that succeeded or failed.
- `LeasesImplemented` - the refinement of `PageLeases`: of all the steps of
  handlers, broker and sweep, each that changes a page's state or its crawler is
  one of a lease. It is the one property that says who may decide a page, and it
  implies `CrawledIsClaimed`: the row of a page that is crawled is running or
  cancelled, which is why no other claim can succeed.
- `RunningWithinLimit` - running rows never exceed the per-site limit.
- `ReservationsBacked` - without faults, a reserved page has a message in the
  broker or a publisher about to send it: the conditional updates after the
  broker call never hide a requeued page from later dispatches.
- `OneActiveSync` - requests, claims, failures and the sweep never make two syncs
  active. `RequeueSync` and `RequeueStaleSync` are the hard ones: a failure
  recorded late may find another sync active, and the unique constraint then
  rejects the write.
- `CurrentSyncStaysActive` - no step makes a pointer to an active sync one to a
  sync that ended, except the save of an edit that read an older pointer. That
  the project never points at an ended sync is false, because of such edits.
- `SyncSettles` - a requested sync ends whatever is lost or killed.
- `SlotsRefilled` - pages that end dispatch the next ones; progress does not
  wait for the sweep except for pages in backoff.

And those of the index:

- `ActiveIsEmbedded` - an active article has the succeeded embedding of its
  present text: a late failure, a stale vector or a marking by a rebuild never
  comes between the two rows.
- `VectorOfItsText` - a stored vector is of the text it is stored with.
- `CountErrorIsKept` - the count moves with the rows in all the transactions that
  count up or down, however they overlap; a finalization that takes articles
  out leaves it too high, and the save of an edit leaves it at an older value.
- `NeverUndercounts` - hence before any edit it is not too low, which matters since
  a removal that would take it below zero fails.
- `PointIsCurrent` - search never ranks an article by an earlier text. This holds
  while no rebuild runs; a rebuild upserts vectors it read at its start and may
  put an old one back (see below), so `index` leaves it out by `CrawlSpec`.
- `CorpusImplemented` - the refinement of `SearchCorpus`.
- `ActiveIsIndexed` - without failures, an active article has its point except
  between the two steps of a removal.
- `DiscoveredIsDecided` - two pages of one article with different texts fail each
  other's embedding; one of them still gets it published or taken out.
- `RebuildRepairs` - from any drift between the stores, a rebuild that runs alone
  leaves exactly the points of the corpus, current, and the corpus active.

Each property has a mutant in `PROJECT.json`, a plausible slip in the code under
which the same run fails.

### Fairness

Crawl. `WorkerFairness`: a process takes its next step, or that step fails (weak);
a message is eventually taken (strong, since a worker must be idle for it; Q2 pops
the list in order); backoff ends (weak). `SweepFairness`: the sweep is scheduled
every five minutes by `ensure_crawl_schedules.py:35-43` and once at worker start,
so each of its statements is eventually executed for each row that keeps
qualifying, and it eventually looks at each queued and running sync. Requests,
suspensions, edits, crashes and losses are never forced; an edit once begun ends
(weak), for it is a request with a transaction. `UnsweptSpec` is the same
system without the sweep.

Index. `SteadySpec`: a job takes its next step, strongly fair because a
publication may hold the row lock it needs again and again and PostgreSQL queues
lock waiters; a work to be retried is run again, strongly fair because a worker
must be idle for it. Ingestion, reconciliation and removals are never forced.
`RepairSpec`: the rebuild command takes its next step (weak).

Fetch. `FetchFair`: a call once started takes its next step, and time passes (both
weak): a blocked thread is woken, and every wait has a timeout. Calls are
never forced to start.

`services` states safety only and assumes no fairness.

Symmetry is used in safety runs only: of syncs and processes in `syncs` and `faults`, of
articles, URLs, texts and processes in `index`, whose property is a refinement
without liveness, and `index_rows`, and of the member's requests in `services`.

### Where the documentation disagrees with the code

Two runs each refute a sentence of `docs/architecture/`:

| Run | The document says | What happens |
|---|---|---|
| `absence_twice` | 0004:53: one absence increments the counter and keeps the article | `_finalize_sync` also runs on a sync that is already terminal and counts the absence again, up to the threshold |
| `search_exclusions` | 0010:18-19: a search may exclude exact domains | the exclusion looks at the host in the point's payload (`qdrant.py:375`), which stays the old one when a site moves |

More of the same kind, seen in the models and stated by no run:

- Articles that a sitemap dropped are counted as active for ever: `_finalize_sync`
  saves the project it read before the recount (`crawl_jobs.py:920-929`,
  `article_ingestion.py:409`), and the removal that follows finds them inactive
  (`qdrant.py:276`). The documents show this count as the indexed pages
  (metric-history:12). `CountErrorIsKept` names the step.
- An edit of a site that began before a sync was requested, or before one ended,
  restores the old `current_sync_uuid` (`projects.py:133-149`), although 0002:23
  has it point at the queued request. `CurrentSyncStaysActive` names the step.
- A sync may succeed before its pages exist: the sweep finalizes between
  the inventory and the creation of its work (0009:7, `crawl_jobs.py:907`).
- A removal queued while a page was gone is delivered after it came back, and
  deactivates it (0006:21, `qdrant.py:432`).
- A rebuild also deletes the point of an article published after it read the
  corpus (0008:25, `qdrant.py:547`), or overwrites it with the vector it
  read before.
- A second finalization clears `current_sync_uuid` although a newer sync is active.
- Work created just after a cancellation stays queued under a cancelled sync.
- A page whose row was cancelled under its crawler frees its slot while the fetch
  goes on, so more pages than the limit may be fetched at once.
- Points written after a site's deletion, or left by the deletion of an account
  (`views.py:581-587`), are never looked for (`late` in `SiteCleanup`).
- The settings form writes back columns that changed since it read the row
  (`overwritten` in `Accounts`); `ProjectService.update` also restores an older
  `last_sync_uuid` (`SaveForm` in `CrawlJobs`); a late
  `track_state_change` (`tasks.py:143`) overwrites the state.
- A sweep that runs past midnight writes the later counts under the earlier day.
- A probe accepts some sitemaps that the parser then refuses
  (`sitemap_submission.py:111`).
- A text that is too long is an error before `noindex` is looked at
  (`html_extraction.py:265`).
- A URL announced by a run that then failed, and removed since, is never
  announced as removed.

## Theorems

Every invariant and every action property that a passing run checks is also a
theorem, for all values of the constants that satisfy the named assumptions.
Each follows the same three steps: the initial states satisfy an inductive
invariant, every step keeps it (one lemma per kind of step), and it implies
the property. The assumptions only say what kind of value a constant has (a
finite set, a positive number, a value that is no row), apart from
`StaleOutlivesTask`.

### Crawl

`CrawlJobs_proofs` proves, for any finite sets of syncs and URLs, any processes
and any limits (`SyncsAssumption`, `UrlsAssumption`, `LimitsAssumption`):

| Theorem | Statement | Argument |
|---|---|---|
| `TypeCorrect` | `Spec => []TypeOK` | `TypeOK` is inductive; it includes that a job at a step names the rows that step reads |
| `OneActiveSyncHolds`, `CurrentSyncStaysActiveHolds` | `Spec => []OneActiveSync`, `Spec => CurrentSyncStaysActive` | creating needs that none is active; where a step ends a sync the pointer to it, being the only active one, is cleared in the same step, and an edit that saves what it read leaves it (`ActiveNext`) |
| `ExclusiveCrawlHolds`, `CrawledIsClaimedHolds` | under `StaleOutlivesTask` | inductive together (`CrawlInv`): a claim needs a queued row, a crawled row is not queued, and the sweep only requeues rows nobody crawls |
| `SettledPagesStayHolds` | under `StaleOutlivesTask` | a step that writes a page's outcome is a crawler of it, so by `CrawledIsClaimed` the row was not settled |
| `RunningWithinLimitHolds` | `Spec => []RunningWithinLimit` | with `TypeOK` inductive: only `ClaimPage` adds a running row, and it counts them first |
| `LeasesImplementedHolds` | under `StaleOutlivesTask`, `Spec => LeasesImplemented` | every step is quiet (it keeps the states or cancels a sync, and gives no page to anybody) or is one of five (`StepKinds`); a quiet one is `Leave`, `CallOff` or a stutter, the five are `Offer`, `Take`, `Report` (twice) and `Reclaim`, by `CrawlInv` |
| `ReservationsBackedHolds` | `Spec => []ReservationsBacked` | inductive over `TypeOK`: a step that takes a message, or moves a publisher on, clears the reservation or leaves another holder of it; only a fault drops one |

The hypothesis `StaleOutlivesTask` is stated on the theorems that need it and
on no other. It is a deployment condition: with a cutoff below the task
timeout a slow page may be crawled twice.

### Index

`ArticleIndex_proofs` proves, for any finite set of articles (`ArticlesAssumption`)
and any URLs, texts (`TextsAssumption`) and processes:

| Theorem | Statement | Argument |
|---|---|---|
| `IndexTypeCorrect` | `Spec => []TypeOK` | the row types (`RowsOK`) are inductive, the bounds of the count and of an edit's copy of it (`CountInv`) on top of them |
| `ActiveIsEmbeddedHolds`, `VectorOfItsTextHolds` | `Spec => []ActiveIsEmbedded`, `Spec => []VectorOfItsText` | inductive together with `CommitReady` (`CorpusInv`) |
| `CountErrorIsKeptHolds` | `Spec => CountErrorIsKept` | a step changes one article and applies its delta, or is a finalization, whose articles leave while the count stays, or the save of an edit (`CountStep`) |
| `NeverUndercountsHolds` | `Spec => []NeverUndercounts` | `CountInv`: an open edit has used one up, and no other step lowers the error |
| `PointIsCurrentHolds` | `CrawlSpec => []PointIsCurrent` | `PointInv`, over `CorpusInv` |
| `ActiveIsIndexedHolds` | `SteadySpec => []ActiveIsIndexed` | `SteadyInv`, over `CorpusInv`: from its upsert on, a publication has a point or a removal is between its two steps |
| `CorpusImplementedHolds` | `CrawlSpec => CorpusImplemented` | only ingestion changes a text, and that is `Edit`; every other step is `Reveal` by `PointIsCurrent'` |

None of the three strengthenings holds by accident. `ActiveIsEmbedded` alone is
not inductive: the state after `Commit` depends on what was true at `Publish`.
`CommitReady` says that from the upsert to the commit the article stays
indexable, and its proof is where each lock is needed: ingestion,
reconciliation, suspension and the rebuild's marking wait for the project row,
the embedding writes, deactivation and terminal fetches for the article row.
`PointIsCurrent` alone is not inductive either, since it is silent on articles
that are not active and a publication writes the point first; `PointInv` adds
the points of articles under publication. The points of other articles that are
not active may be stale, and are: nothing deletes them when a page is edited.

### Fetch

`SafeFetch_proofs` proves, for any finite calls and hosts and any limits
(`FetchAssumption`):

| Theorem | Statement | Argument |
|---|---|---|
| `FetchTypeCorrect` | `FetchSpec => []FetchTypeOK` | types of calls and limiter in `FetchInv` |
| `PermitsHoldAlways` | `FetchSpec => []PermitsHold` | every step moves one call and the permit with it; a host's holders are holders of its one state |
| `ContactsArePublicAlways` | `FetchSpec => []ContactsArePublic` | from `target` to the end of a hop a call keeps the address it checked |
| `StartsArePacedAlways` | `FetchSpec => StartsArePaced` | the sleeper of a state is alone and has left to sleep what is missing |

`FetchInv` adds that a call past `target` knows its state (`Limited`): its host's,
or the shared one, and then the table is full, so its host cannot get
one later. Without that, two states could serve one host and the limit
would not follow from the permits.

### Members

`Members_proofs`, for any events, requests, keys, calls, hosts and articles:

| Theorem | Statement | Argument |
|---|---|---|
| `ProfileIsCurrentHolds` | `AccountSpec => []ProfileIsCurrent` (`AccountsAssumption`) | `AccountInv`: until the settings form overwrites it, the row has the date of the newest event that reached it and the status of one of that date, an ending among equals prevails (`RowFollows`), and a key that was shown is the row's, or a legacy key whose successor was shown (`KeysFollow`); `Copies` types what a request has read |
| `WindowBudgetHolds`, `ExitTellsCauseHolds` | `ApiSpec => []WindowBudget`, `ApiSpec => []ExitTellsCause` (`RequestAssumption`) | `ApiInv`: a key outlives its window, so while a window lasts its counter is at least the number of calls that passed (`Metered`) |
| `SteadyIsFoundHolds` | `QuerySpec => [](QueryTypeOK /\ SteadyIsFound)` (`QueryAssumption`) | `QueryInv`: what was findable all along is among the points read, or these are full of better ones; `BestOf` shows that the `limit` best of a finite set exist, by ranking its elements |
| `ExcerptWithin` | an excerpt is within the text it is of and at most as long as asked for | arithmetic on the cuts at words, for every length |
| `GrantsAreSpentHolds` | `OAuthSpec => []GrantsAreSpent` (`TokensAssumption`) | `TokensInv`: a grant under way holds the lock of a live row alone (`Alone`, `Granting`), what a pair came from is used or revoked (`SourcesSpent`), and the tokens of a pair belong together (`PairsMatch`) |
| `ServedBeforeReplacedHolds` | `OAuthSpec => []ServedBeforeReplaced` | `ToolsOK` on top of `TokensInv`: a pair that came from another revoked it in the same step, a newer key ended the older one, so what the tool found valid had no successor yet, and `began` does not change after |

`RotatedIsDead`, in `GrantsAreSpent`, is hard: a rotation commits after its
`UPDATE` of access tokens, and `Granting` says that the old access token is among
those it locked or dead already.

### Sites

`Sites_proofs`, for any sites, articles, links, hosts and sitemap documents:

| Theorem | Statement | Argument |
|---|---|---|
| `RowOutlivesPointsHolds` | `CleanupSpec => RowOutlivesPoints` (`CleanupAssumption`) | `CleanupInv`: rows, messages and workers name sites that are gone, and a worker about to remove the row has left no points but late ones |
| `RatingOfItsHostHolds` | `SitesSpec => []RatingOfItsHost` (`RatingsAssumption`) | `RatingsInv`: the row a form has read is in order as well, so writing it back whole is harmless |
| `SnapshotsStayHolds` | `SnapshotSpec => [](SnapshotTypeOK /\ OneRowADay) /\ SnapshotsStay` (`SnapshotAssumption`) | a sweep under way is of a day not later than today, so no row is of a day to come |
| `GraphIsFaithfulHolds` | `GraphSpec => [](GraphTypeOK /\ GraphIsFaithful)` (`GraphAssumption`) | `GraphInv`: every edge is what its URL resolves to (`Sited`) and rests on active rows (`Backed`), and so are the rows as the open ingestion will leave them (`Merged`, `OpenOK`); it holds the rows of all links it touches (`HeldOK`) |
| `ParseIsSoundHolds` | `SitemapSpec => [](SitemapTypeOK /\ ParseIsSound)` (`SitemapAssumption`, `AddressesAssumption`) | `SitemapInv`: the queue is sorted by depth over two levels, all that the read files lead to within a depth has been read or waits at it (`TreeInv`, the breadth-first argument), and the counters add up (`CountsInv`) |

The graph needs the strongest of these invariants. The faithful edges are a fact
about committed rows, but an ingestion computes its edges before it
commits while sites move and articles come and go; `OpenOK` is preserved by each
of those steps because each either reconciles the rows it changes, waits for a row
lock, or counts the link as `overlapped`.

### Operations

`Operations_proofs`, for any processes, releases, URLs, batches and anchors:

| Theorem | Statement | Argument |
|---|---|---|
| `ReadyMeansServingHolds` | `RolloutSpec => ReadyMeansServing` (`RolloutAssumption`) | `RolloutInv`, and that one poll's answer implies its processes (`PollAnswers`) |
| `EnsuredMatchesHolds` | `BootstrapSpec => []EnsuredMatches` (`BootstrapAssumption`) | `BootInv`: what a command found still holds, since a collection keeps its size and its indexes only grow |
| `OneExtractionHolds` | `ExtractionSpec => []OneExtraction` | `ExtractionInv`: what an attempt ingested is what the job keeps |
| `CheckpointAnnouncedHolds` | `NoticeSpec => [](NoticeTypeOK /\ CheckpointAnnounced)` (`NoticeAssumption`) | `NoticeInv`: what a run read is of the revision it verified, and is announced or queued once it sends (`CurrentOK`); a checkpoint of the live revision is announced (`CheckpointOK`) |
| `LinksMatchHolds` | for every sequence of anchors, `OutboundLinks` are the first distinct destinations up to the cap, each with its first text among the anchors read | induction over the length (`KeptLinksStep`) |

### Together

`MCServices_proofs` composes the thirteen. `PartsRun` shows that a behaviour of
`ServicesSpec` is one of each component; from it follow `ServicesTypeCorrect`
(`ServicesSpec => []ServicesTypeOK`), `CreatedOnceHolds`
(`ServicesSpec => []CreatedOnce`) and `PartsKeepPromises`, which states the
fourteen other properties of the run `services` of the specification it runs. The types
need two facts of their own: a token row that exists has a client and a
member (`RowsOwned`), and no two projects have one host (`HostsUnique`).

### Data

What a fold or a recursive function computes for inputs of any size is proved
without the library's induction theorems, whose operator parameters no backend
can instantiate. `NumberLemmas` derives from the well-foundedness of `<` that a
non-empty set of numbers has a least element, and hence that a set which contains
0 and the successor of each member contains every number. The functions themselves
are shown to exist the same way (`LinksFoldExists`, `EntriesFoldExists`,
`ReachFcnExists`): the set of lengths up to which a function with the defining
equations exists is inductive, so `CHOOSE` finds one.

### What is only model-checked

`SyncSettles`, `SlotsRefilled`, `DiscoveredIsDecided`, `RebuildRepairs` and
`FetchEnds`: liveness under fairness is out of the prover's reach, as is
`ENABLED`. So are the two refuted sentences, whose counterexamples TLC finds.
`RECURSIVE` operators would be out of reach too; the models use none.

## Not modelled

`PROJECT.json` gives each component its status. Left out:

- **Row locks as such.** Transactions that lock rows in different orders
  (`crawl_jobs.py:751-754`, `article_ingestion.py`) may deadlock; PostgreSQL then ends one,
  whose work is retried as after a crash, which the models have.
- **Other sites in the crawl.** The sweep's slice of a hundred syncs, fairness
  between sites, and the unbounded number of `worker_lost` requeues.
- **Read-only views and rendering.** Dashboards, site details, pages, blog, docs,
  serializers, MCP tool texts, metric summaries: no state comes back from them.
- **Outbound events.** Analytics and email, keyed by idempotency keys.
- **Billing sessions.** Checkout and portal sessions are created at Stripe and
  return as the events of `Accounts`.
- **Lengths of text.** HTML parsing, normalization of text, and embedding input.

## Plan

**`RowLocks`** - the lock orders of the page path, ingestion, promotion,
finalization, removal and project transitions as acquisitions on a table of row
locks. A promise of the workflow about a sync, like that of `PageLeases` about a
page, would say little: a late failure may move a sync out of any final state.

Runs stay at two or three of each kind of row, which is what their properties
relate, and at a fault or two.
