------------------------------ MODULE CrawlJobs ------------------------------
(***************************************************************************)
(* The crawl workflow of one site, apps/core/crawl_jobs.py: durable sync   *)
(* and page-work rows in PostgreSQL, a broker that only delivers row ids,  *)
(* and the processes (Q2 workers, web requests, the scheduler) that run    *)
(* the handlers.  One action is one database transaction, one autocommit   *)
(* statement, or one broker call: what the code does between two of them   *)
(* interleaves with every other process.  select_for_update on the rows a  *)
(* handler joins makes each of its transactions atomic here.               *)
(***************************************************************************)
EXTENDS Integers, FiniteSets

CONSTANTS
    Syncs,              \* ProjectSyncRequest rows that may be created
    Urls,               \* normalized page URLs of the site
    Procs,              \* processes that run handlers
    NoSync, NoUrl,      \* null references
    KnownUrls,          \* URLs with an active source from syncs before these
    MaxAttempts,        \* CRAWL_MAX_ATTEMPTS
    PerSite,            \* CRAWL_PER_SITE_CONCURRENCY
    Batch,              \* CRAWL_DISPATCH_BATCH_SIZE
    AbsenceThreshold,   \* ArticleLifecycleService.SITEMAP_ABSENCE_THRESHOLD
    StaleOutlivesTask,  \* CRAWL_STALE_AFTER_SECONDS >= Q_CLUSTER["timeout"]
    MaxCopies,          \* bound: undelivered copies of one message
    MaxFaults,          \* bound: crashes, lost messages, broker errors
    MaxEdits            \* bound: edits of the site by its owner

ASSUME SyncsAssumption == IsFiniteSet(Syncs) /\ NoSync \notin Syncs
ASSUME UrlsAssumption == IsFiniteSet(Urls) /\ NoUrl \notin Urls /\ KnownUrls \subseteq Urls
ASSUME LimitsAssumption ==
    /\ MaxAttempts \in Nat \ {0} /\ PerSite \in Nat \ {0} /\ Batch \in Nat \ {0}
    /\ AbsenceThreshold \in Nat \ {0} /\ MaxCopies \in Nat \ {0} /\ MaxFaults \in Nat
    /\ MaxEdits \in Nat
    /\ StaleOutlivesTask \in BOOLEAN

VARIABLES
    eligible,     \* Project.is_sync_eligible
    form,         \* the Project an edit by the owner has read, to be saved whole
    sync,         \* ProjectSyncRequest rows
    work,         \* PageCrawlWork rows
    source,       \* ArticleSourceURL rows
    currentSync,  \* Project.current_sync_uuid
    lastSync,     \* Project.last_sync_uuid
    syncMsgs,     \* undelivered run_sitemap_sync messages
    pageMsgs,     \* undelivered run_page_crawl messages
    job,          \* what each process is running, and where it stands
    faults        \* faults still allowed

vars == <<eligible, form, sync, work, source, currentSync, lastSync,
          syncMsgs, pageMsgs, job, faults>>
rows == <<sync, work, source, currentSync, lastSync>>
broker == <<syncMsgs, pageMsgs>>
site == <<eligible, form>>

-----------------------------------------------------------------------------
(* Durable rows.  "absent" is a row that was not created yet.              *)

Works == Syncs \X Urls
WorksOf(s) == {s} \X Urls

SyncActive == {"queued", "running"}
SyncTerminal == {"succeeded", "partial", "failed", "cancelled"}
PageTerminal == {"succeeded", "failed", "cancelled"}

\* broker_task_id: empty, the reservation "dispatching", or the broker's id.
Markers == {"", "dispatching", "sent"}

\* due: next_attempt_at is null or past.  promoted: the sync has an inventory.
SyncRow == [state : {"absent"} \cup SyncActive \cup SyncTerminal, daily : BOOLEAN,
            marker : Markers, attempts : 0..MaxAttempts, due : BOOLEAN,
            promoted : BOOLEAN, inventory : SUBSET Urls]

\* ingested: a succeeded ArticleCrawlAttempt exists.  gone: one has HTTP 404/410.
WorkRow == [state : {"absent", "queued", "running"} \cup PageTerminal,
            marker : Markers, attempts : 0..MaxAttempts, due : BOOLEAN,
            ingested : BOOLEAN, gone : BOOLEAN]

\* A source that was missing often enough does not stay active.
SourceRow == {row \in [state : {"none", "active", "inactive"}, missing : 0..AbsenceThreshold] :
                 row.state = "active" => row.missing < AbsenceThreshold}

NewSync == [state |-> "absent", daily |-> FALSE, marker |-> "", attempts |-> 0,
            due |-> TRUE, promoted |-> FALSE, inventory |-> {}]
NewWork == [state |-> "absent", marker |-> "", attempts |-> 0, due |-> TRUE,
            ingested |-> FALSE, gone |-> FALSE]

\* attempt_count is only compared with max_attempts: it saturates there.
NextAttempt(n) == IF n < MaxAttempts THEN n + 1 ELSE n

ActiveSyncs == {s \in Syncs : sync[s].state \in SyncActive}
Created(s) == sync[s].state # "absent"
Unfinished(s) == {w \in WorksOf(s) : work[w].state \in {"queued", "running"}}
RunningWorks == {w \in Works : work[w].state = "running"}
ReservedWorks == {w \in Works : work[w].state = "queued" /\ work[w].marker # ""}

\* A process that fetches, ingests or publishes a page it claimed.
CrawlPoints == {"crawl", "check", "index", "ineligible", "record"}
Crawls(p, w) == job[p].at \in CrawlPoints /\ <<job[p].sync, job[p].url>> = w

-----------------------------------------------------------------------------
(* Processes.  task is the handler, at the next transaction or call it     *)
(* makes, batch the works a dispatcher still has to publish.               *)

Points == {"idle", "reserve", "send_sync", "mark_sync", "parse", "create", "dispatch",
           "send_pages", "mark_page", "finalize"} \cup CrawlPoints
Outcomes == {"none", "ok", "retry", "fail", "gone"}
Tasks == {"none", "enqueue", "sync", "page", "sweep"}

Job == [at : Points, task : Tasks, sync : Syncs \cup {NoSync}, url : Urls \cup {NoUrl},
        batch : SUBSET Urls, outcome : Outcomes]

Idle == [at |-> "idle", task |-> "none", sync |-> NoSync, url |-> NoUrl,
         batch |-> {}, outcome |-> "none"]

IsIdle(p) == job[p] = Idle
Start(p, task, at, s, u) ==
    job' = [job EXCEPT ![p] = [Idle EXCEPT !.task = task, !.at = at, !.sync = s, !.url = u]]
Goto(p, at) == job' = [job EXCEPT ![p].at = at]
Stop(p) == job' = [job EXCEPT ![p] = Idle]
EndWith(p, outcome) ==
    job' = [job EXCEPT ![p] = [job[p] EXCEPT !.at = "record", !.outcome = outcome]]

CanFault == faults > 0 /\ faults' = faults - 1

\* What ProjectService.update keeps of the row between its read and its save;
\* left counts the edits still allowed.
Form == [open : BOOLEAN, left : 0..MaxEdits, current : Syncs \cup {NoSync},
         last : Syncs \cup {NoSync}]
NoForm(n) == [open |-> FALSE, left |-> n, current |-> NoSync, last |-> NoSync]

\* The owner's Profile row is free: an edit and a state transition hold it from
\* beginning to end, and select_for_update locks it with the rows it joins.
OwnerFree == ~form.open

Init ==
    /\ eligible = TRUE
    /\ form = NoForm(MaxEdits)
    /\ sync = [s \in Syncs |-> NewSync]
    /\ work = [w \in Works |-> NewWork]
    /\ source = [u \in Urls |-> [state |-> IF u \in KnownUrls THEN "active" ELSE "none",
                                 missing |-> 0]]
    /\ currentSync = NoSync
    /\ lastSync = NoSync
    /\ syncMsgs = [s \in Syncs |-> 0]
    /\ pageMsgs = [w \in Works |-> 0]
    /\ job = [p \in Procs |-> Idle]
    /\ faults = MaxFaults

-----------------------------------------------------------------------------
(* Requests for a sync.  Each commits a queued row, then enqueues it.      *)

\* Mutant: no check for an active sync.
CanSyncMutant == eligible

CanSync == eligible /\ ActiveSyncs = {}     \* constraint core_project_one_active_sync

CreateSync(p, s, daily) ==
    /\ IsIdle(p)
    /\ ~Created(s)
    /\ sync' = [sync EXCEPT ![s] = [NewSync EXCEPT !.state = "queued", !.daily = daily]]
    /\ currentSync' = s
    /\ Start(p, "enqueue", "reserve", s, NoUrl)
    /\ UNCHANGED <<site, work, source, lastSync, broker, faults>>

HasHistory == KnownUrls # {} \/ \E s \in Syncs : Created(s)
HasSynced == KnownUrls # {} \/ lastSync # NoSync

\* SitemapSubmissionService.submit: a new site with its single initial sync.
Submit(p, s) == eligible /\ ~HasHistory /\ CreateSync(p, s, FALSE)

\* _claim_due_reconciliation for a due site without an active sync.
ScheduleDaily(p, s) == CanSync /\ HasSynced /\ CreateSync(p, s, TRUE)

\* retry_project_sync creates a manual sync, or enqueues the active one again.
RetryCreate(p, s) == CanSync /\ HasHistory /\ CreateSync(p, s, FALSE)
RetryReuse(p, s) ==
    /\ eligible /\ IsIdle(p) /\ s \in ActiveSyncs
    /\ Start(p, "enqueue", "reserve", s, NoUrl)
    /\ UNCHANGED <<site, rows, broker, faults>>

\* ProjectService._transition
Suspend ==
    /\ eligible /\ OwnerFree /\ eligible' = FALSE
    /\ UNCHANGED <<form, rows, broker, job, faults>>
Reactivate ==
    /\ ~eligible /\ OwnerFree /\ eligible' = TRUE
    /\ UNCHANGED <<form, rows, broker, job, faults>>

\* ProjectService.update locks the owner, not the project it reads, and saves
\* every column of it.
ReadForm ==
    /\ HasHistory /\ OwnerFree /\ form.left > 0
    /\ form' = [open |-> TRUE, left |-> form.left - 1, current |-> currentSync, last |-> lastSync]
    /\ UNCHANGED <<eligible, rows, broker, job, faults>>

SaveForm ==
    /\ form.open
    /\ currentSync' = form.current /\ lastSync' = form.last
    /\ form' = NoForm(form.left)
    /\ UNCHANGED <<eligible, sync, work, source, broker, job, faults>>

\* The new values are refused, or the host belongs to another site.
DropForm ==
    /\ form.open /\ form' = NoForm(form.left)
    /\ UNCHANGED <<eligible, rows, broker, job, faults>>

-----------------------------------------------------------------------------
(* enqueue_sitemap_sync: reserve, push to the broker, mark as sent.        *)

Publishable(s) == sync[s].state \in SyncActive /\ sync[s].marker = "" /\ sync[s].due

ReserveSync(p) ==
    LET s == job[p].sync IN
    /\ job[p].at = "reserve"
    /\ \/ /\ Publishable(s)
          /\ sync' = [sync EXCEPT ![s].marker = "dispatching"]
          /\ Goto(p, "send_sync")
       \/ ~Publishable(s) /\ sync' = sync /\ Stop(p)
    /\ UNCHANGED <<site, work, source, currentSync, lastSync, broker, faults>>

\* The conditional updates that follow the broker call touch only a row that
\* is still "dispatching".
SettleSyncMarker(s, marker) ==
    sync' = [sync EXCEPT ![s].marker = IF @ = "dispatching" THEN marker ELSE @]
\* Mutant: the update after the broker call is not conditional.
SettlePageMarkerMutant(w, marker) == work' = [work EXCEPT ![w].marker = marker]

SettlePageMarker(w, marker) ==
    work' = [work EXCEPT ![w].marker = IF @ = "dispatching" THEN marker ELSE @]

\* async_task: one more copy of the message; copies past the bound merge.
Pushed(n) == IF n < MaxCopies THEN n + 1 ELSE n

SendSync(p) ==
    LET s == job[p].sync IN
    /\ job[p].at = "send_sync"
    /\ syncMsgs' = [syncMsgs EXCEPT ![s] = Pushed(@)]
    /\ Goto(p, "mark_sync")
    /\ UNCHANGED <<site, rows, pageMsgs, faults>>

SendSyncFails(p) ==
    /\ job[p].at = "send_sync"
    /\ CanFault
    /\ SettleSyncMarker(job[p].sync, "")
    /\ Stop(p)
    /\ UNCHANGED <<site, work, source, currentSync, lastSync, broker>>

MarkSync(p) ==
    /\ job[p].at = "mark_sync"
    /\ SettleSyncMarker(job[p].sync, "sent")
    /\ Stop(p)
    /\ UNCHANGED <<site, work, source, currentSync, lastSync, broker, faults>>

-----------------------------------------------------------------------------
(* run_sitemap_sync.                                                       *)

\* Mutant: the cancellation does not exclude terminal pages.
CancelSyncAllPagesMutant(s) ==
    /\ sync' = [sync EXCEPT ![s].state = "cancelled", ![s].marker = ""]
    /\ work' = [w \in Works |-> IF w \in WorksOf(s) /\ work[w].state # "absent"
                   THEN [work[w] EXCEPT !.state = "cancelled", !.marker = ""]
                   ELSE work[w]]
    /\ currentSync' = IF currentSync = s THEN NoSync ELSE currentSync

\* Mutant: the cancellation leaves the project pointing at the sync.
CancelSyncKeepsCurrentMutant(s) ==
    /\ sync' = [sync EXCEPT ![s].state = "cancelled", ![s].marker = ""]
    /\ work' = [w \in Works |-> IF w \in Unfinished(s)
                   THEN [work[w] EXCEPT !.state = "cancelled", !.marker = ""]
                   ELSE work[w]]
    /\ UNCHANGED currentSync

\* _cancel_sync
CancelSync(s) ==
    /\ sync' = [sync EXCEPT ![s].state = "cancelled", ![s].marker = ""]
    /\ work' = [w \in Works |-> IF w \in Unfinished(s)
                   THEN [work[w] EXCEPT !.state = "cancelled", !.marker = ""]
                   ELSE work[w]]
    /\ currentSync' = IF currentSync = s THEN NoSync ELSE currentSync

TakeSyncMsg(s) ==
    syncMsgs[s] > 0 /\ syncMsgs' = [syncMsgs EXCEPT ![s] = @ - 1]
TakePageMsg(w) ==
    pageMsgs[w] > 0 /\ pageMsgs' = [pageMsgs EXCEPT ![w] = @ - 1]

\* _claim_sync when it returns a row to run ...
ClaimSync(p, s) ==
    /\ IsIdle(p) /\ OwnerFree /\ TakeSyncMsg(s)
    /\ sync[s].state = "queued" /\ eligible /\ sync[s].due
    /\ sync' = [sync EXCEPT ![s] = [sync[s] EXCEPT !.state = "running", !.marker = "",
                                             !.attempts = NextAttempt(sync[s].attempts)]]
    /\ currentSync' = s
    /\ Start(p, "sync", "parse", s, NoUrl)
    /\ UNCHANGED <<site, work, source, lastSync, pageMsgs, faults>>

\* ... and when it returns None.
ClaimSyncNoop(p, s) ==
    /\ IsIdle(p) /\ OwnerFree /\ TakeSyncMsg(s)
    /\ \/ /\ sync[s].state \in SyncTerminal \/ (sync[s].state = "running" /\ eligible)
          /\ UNCHANGED <<sync, work, currentSync>>
       \/ sync[s].state \in SyncActive /\ ~eligible /\ CancelSync(s)
       \/ /\ sync[s].state = "queued" /\ eligible /\ ~sync[s].due
          /\ sync' = [sync EXCEPT ![s].marker = ""]
          /\ UNCHANGED <<work, currentSync>>
    /\ UNCHANGED <<site, source, lastSync, pageMsgs, job, faults>>

\* SitemapInventoryService.promote: one inventory per sync, kept once created.
Promote(p) ==
    LET s == job[p].sync IN
    /\ job[p].at = "parse"
    /\ IF sync[s].promoted THEN sync' = sync
       ELSE \E found \in SUBSET Urls :
              sync' = [sync EXCEPT ![s] = [sync[s] EXCEPT !.promoted = TRUE, !.inventory = found]]
    /\ Goto(p, "create")
    /\ UNCHANGED <<site, work, source, currentSync, lastSync, broker, faults>>

\* _record_sync_failure after a SitemapParseError: requeue with backoff ...
RequeueSync(p) ==
    LET s == job[p].sync IN
    /\ job[p].at = "parse"
    /\ sync[s].attempts < MaxAttempts
    /\ \/ /\ ActiveSyncs \subseteq {s}
          /\ sync' = [sync EXCEPT ![s] = [sync[s] EXCEPT !.state = "queued", !.marker = "",
                                                   !.due = FALSE]]
       \/ ~(ActiveSyncs \subseteq {s}) /\ sync' = sync      \* IntegrityError
    /\ Stop(p)
    /\ UNCHANGED <<site, work, source, currentSync, lastSync, broker, faults>>

\* ... or fail: not retryable, or no attempt left.
FailSync(p) ==
    /\ job[p].at = "parse"
    /\ sync' = [sync EXCEPT ![job[p].sync] = [sync[job[p].sync] EXCEPT !.state = "failed", !.marker = "",
                                                       !.due = TRUE]]
    /\ currentSync' = NoSync
    /\ Stop(p)
    /\ UNCHANGED <<site, work, source, lastSync, broker, faults>>

\* _candidate_ids_for_sync: all, or for a daily sync those that are new to
\* this site and any others (changed hint, stale, inactive).
Selections(s) ==
    {c \in SUBSET sync[s].inventory :
        IF sync[s].daily THEN {u \in sync[s].inventory : source[u].state = "none"} \subseteq c
        ELSE c = sync[s].inventory}

\* bulk_create(ignore_conflicts=True): a row that exists stays as it is.
CreateWork(p) ==
    LET s == job[p].sync IN
    /\ job[p].at = "create"
    /\ \E c \in Selections(s) :
         /\ work' = [w \in Works |-> IF w \in {s} \X c /\ work[w].state = "absent"
                        THEN [NewWork EXCEPT !.state = "queued"] ELSE work[w]]
         /\ Goto(p, IF c = {} THEN "finalize" ELSE "dispatch")
    /\ UNCHANGED <<site, sync, source, currentSync, lastSync, broker, faults>>

-----------------------------------------------------------------------------
(* dispatch_page_work, called by run_sitemap_sync, by a page that ended,   *)
(* and by the recovery sweep.                                              *)

\* What follows it: the sweep finalizes, the other callers return.
AfterDispatch(p) ==
    IF job[p].task = "sweep" THEN Start(p, "sweep", "finalize", job[p].sync, NoUrl) ELSE Stop(p)

Dispatchable(s) ==
    {w \in WorksOf(s) : work[w].state = "queued" /\ work[w].marker = "" /\ work[w].due}

InFlight == RunningWorks \cup ReservedWorks

Least(a, b) == IF a < b THEN a ELSE b
Slots == IF Cardinality(InFlight) < PerSite THEN PerSite - Cardinality(InFlight) ELSE 0

\* The works the txn reserves: as many as slots, batch size and rows allow.
Reservations(s) ==
    LET n == Least(Cardinality(Dispatchable(s)), Least(Slots, Batch))
    IN {b \in SUBSET Dispatchable(s) : Cardinality(b) = n}

DispatchNothing(p) ==
    LET s == job[p].sync IN
    /\ job[p].at = "dispatch" /\ OwnerFree
    /\ \/ sync[s].state # "running" /\ UNCHANGED <<sync, work, currentSync>>
       \/ sync[s].state = "running" /\ ~eligible /\ CancelSync(s)
       \/ /\ sync[s].state = "running" /\ eligible /\ {} \in Reservations(s)
          /\ UNCHANGED <<sync, work, currentSync>>
    /\ AfterDispatch(p)
    /\ UNCHANGED <<site, source, lastSync, broker, faults>>

DispatchReserve(p) ==
    LET s == job[p].sync IN
    /\ job[p].at = "dispatch" /\ OwnerFree /\ sync[s].state = "running" /\ eligible
    /\ \E b \in Reservations(s) :
         /\ b # {}
         /\ work' = [w \in Works |-> IF w \in b THEN [work[w] EXCEPT !.marker = "dispatching"]
                                      ELSE work[w]]
         /\ job' = [job EXCEPT ![p] = [job[p] EXCEPT !.at = "send_pages", !.url = NoUrl,
                                                !.batch = {w[2] : w \in b}]]
    /\ UNCHANGED <<site, sync, source, currentSync, lastSync, broker, faults>>

\* The loop over the reserved works: push one, then mark it.
SendPage(p, u) ==
    LET w == <<job[p].sync, u>> IN
    /\ job[p].at = "send_pages" /\ u \in job[p].batch
    /\ pageMsgs' = [pageMsgs EXCEPT ![w] = Pushed(@)]
    /\ job' = [job EXCEPT ![p] = [job[p] EXCEPT !.at = "mark_page", !.url = u, !.batch = job[p].batch \ {u}]]
    /\ UNCHANGED <<site, rows, syncMsgs, faults>>

NextPage(p, rest) ==
    IF rest = {} THEN AfterDispatch(p)
    ELSE job' = [job EXCEPT ![p] = [job[p] EXCEPT !.at = "send_pages", !.url = NoUrl, !.batch = rest]]

SendPageFails(p, u) ==
    /\ job[p].at = "send_pages" /\ u \in job[p].batch
    /\ CanFault
    /\ SettlePageMarker(<<job[p].sync, u>>, "")
    /\ NextPage(p, job[p].batch \ {u})
    /\ UNCHANGED <<site, sync, source, currentSync, lastSync, broker>>

MarkPage(p) ==
    /\ job[p].at = "mark_page"
    /\ SettlePageMarker(<<job[p].sync, job[p].url>>, "sent")
    /\ NextPage(p, job[p].batch)
    /\ UNCHANGED <<site, sync, source, currentSync, lastSync, broker, faults>>

-----------------------------------------------------------------------------
(* run_page_crawl.                                                         *)

\* Mutant: one claim too many.
SiteFullMutant == Cardinality(RunningWorks) > PerSite

SiteFull == Cardinality(RunningWorks) >= PerSite

\* Mutant: a failed page may be claimed again.
ClaimableMutant(w) == work[w].state \in {"queued", "failed"}

\* What _claim_page_work leaves after its early returns on the state.
Claimable(w) == work[w].state = "queued"

\* _claim_page_work when it returns a row to crawl ...  It never reads the
\* state of the parent sync.
ClaimPage(p, w) ==
    /\ IsIdle(p) /\ OwnerFree /\ TakePageMsg(w)
    /\ Claimable(w) /\ eligible /\ ~SiteFull /\ work[w].due
    /\ work' = [work EXCEPT ![w] = [work[w] EXCEPT !.state = "running", !.marker = "",
                                             !.attempts = NextAttempt(work[w].attempts)]]
    /\ Start(p, "page", "crawl", w[1], w[2])
    /\ UNCHANGED <<site, sync, source, currentSync, lastSync, syncMsgs, faults>>

\* ... and when it returns None.
ClaimPageNoop(p, w) ==
    /\ IsIdle(p) /\ OwnerFree /\ TakePageMsg(w)
    /\ \/ /\ work[w].state \in PageTerminal \/ (work[w].state = "running" /\ eligible)
          /\ UNCHANGED <<sync, work, currentSync>>
       \/ work[w].state \in {"queued", "running"} /\ ~eligible /\ CancelSync(w[1])
       \/ /\ work[w].state = "queued" /\ eligible /\ (SiteFull \/ ~work[w].due)
          /\ work' = [work EXCEPT ![w].marker = ""]
          /\ UNCHANGED <<sync, currentSync>>
    /\ UNCHANGED <<site, source, lastSync, syncMsgs, job, faults>>

\* The fetch, or persisting what it found, fails; a page that was ingested by
\* an earlier attempt is not fetched again.
FetchFails(p, outcome) ==
    /\ job[p].at = "crawl"
    /\ ~work[<<job[p].sync, job[p].url>>].ingested
    /\ EndWith(p, outcome)
    /\ UNCHANGED <<site, rows, broker, faults>>

\* ArticleIngestionService.ingest, then the eligibility check of a page to
\* index, or the end of one that is not READY or not indexed.
Ingest(p) ==
    LET w == <<job[p].sync, job[p].url>> IN
    /\ job[p].at = "crawl"
    /\ IF work[w].ingested THEN UNCHANGED <<work, source>>
       ELSE /\ work' = [work EXCEPT ![w].ingested = TRUE]
            /\ source' = [source EXCEPT ![w[2]] = [state |-> "active", missing |-> 0]]
    /\ \/ Goto(p, "check")
       \/ \E outcome \in {"ok", "retry"} : EndWith(p, outcome)
    /\ UNCHANGED <<site, sync, currentSync, lastSync, broker, faults>>

\* _cancel_if_project_ineligible before indexing.
CheckEligibility(p) ==
    LET s == job[p].sync IN
    /\ job[p].at = "check" /\ OwnerFree
    /\ \/ /\ sync[s].state = "cancelled"
          /\ UNCHANGED <<sync, work, currentSync>> /\ Goto(p, "ineligible")
       \/ /\ sync[s].state # "cancelled" /\ eligible
          /\ UNCHANGED <<sync, work, currentSync>> /\ Goto(p, "index")
       \/ sync[s].state # "cancelled" /\ ~eligible /\ CancelSync(s) /\ Goto(p, "ineligible")
    /\ UNCHANGED <<site, source, lastSync, broker, faults>>

\* _index_ready_article: embed, then publish under the project lock.
IndexArticle(p) ==
    /\ job[p].at = "index"
    /\ \/ \E outcome \in {"retry", "fail"} : EndWith(p, outcome)
       \/ OwnerFree /\ eligible /\ EndWith(p, "ok")
       \/ OwnerFree /\ ~eligible /\ Goto(p, "ineligible")
    /\ UNCHANGED <<site, rows, broker, faults>>

\* run_page_crawl's handler of ProjectBecameIneligibleError.
BecameIneligible(p) ==
    LET s == job[p].sync IN
    /\ job[p].at = "ineligible" /\ OwnerFree
    /\ \/ sync[s].state = "cancelled" /\ UNCHANGED <<sync, work, currentSync>> /\ Stop(p)
       \/ /\ sync[s].state # "cancelled" /\ eligible
          /\ UNCHANGED <<sync, work, currentSync>> /\ EndWith(p, "retry")
       \/ sync[s].state # "cancelled" /\ ~eligible /\ CancelSync(s) /\ Stop(p)
    /\ UNCHANGED <<site, source, lastSync, broker, faults>>

-----------------------------------------------------------------------------
(* _record_page_outcome: the outcome, then _finalize_sync, then, while the *)
(* sync is still running, dispatch_page_work.                              *)

Settled(w, outcome) ==
    LET row == [work[w] EXCEPT !.marker = "", !.gone = work[w].gone \/ outcome = "gone"] IN
    IF outcome = "ok" THEN [row EXCEPT !.state = "succeeded"]
    ELSE IF outcome = "retry" /\ row.attempts < MaxAttempts
         THEN [row EXCEPT !.state = "queued", !.due = FALSE]
         ELSE [row EXCEPT !.state = "failed", !.due = TRUE]

RecordOutcome(p) ==
    LET w == <<job[p].sync, job[p].url>> IN
    /\ job[p].at = "record"
    /\ sync[w[1]].state # "cancelled"
    /\ work' = [work EXCEPT ![w] = Settled(w, job[p].outcome)]
    \* reconcile_terminal_fetch
    /\ source' = IF job[p].outcome = "gone" /\ source[w[2]].state # "none"
                 THEN [source EXCEPT ![w[2]].state = "inactive"] ELSE source
    /\ Start(p, "page", "finalize", w[1], NoUrl)
    /\ UNCHANGED <<site, sync, currentSync, lastSync, broker, faults>>

RecordCancelled(p) ==
    LET w == <<job[p].sync, job[p].url>> IN
    /\ job[p].at = "record"
    /\ sync[w[1]].state = "cancelled"
    /\ work' = IF work[w].state = "cancelled" THEN work
               ELSE [work EXCEPT ![w].state = "cancelled", ![w].marker = ""]
    /\ Stop(p)
    /\ UNCHANGED <<site, sync, source, currentSync, lastSync, broker, faults>>

-----------------------------------------------------------------------------
(* _finalize_sync, called after a page, after an empty selection, and by   *)
(* the sweep.                                                              *)

CanFinalize(s) ==
    sync[s].state # "cancelled" /\ sync[s].promoted /\ Unfinished(s) = {}

FinalState(s) ==
    LET failed == \E w \in WorksOf(s) : work[w].state = "failed"
        succeeded == \E w \in WorksOf(s) : work[w].state = "succeeded"
    IN IF failed /\ succeeded THEN "partial" ELSE IF failed THEN "failed" ELSE "succeeded"

\* Mutant: the threshold is off by one.
CountAbsenceMutant(row) ==
    [state |-> IF row.missing + 1 > AbsenceThreshold THEN "inactive" ELSE "active",
     missing |-> row.missing + 1]

\* ArticleLifecycleService.reconcile_sitemap: count the absence of every
\* active source the inventory does not list, reset the listed ones unless
\* this sync met a 404/410 there.
CountAbsence(row) ==
    [state |-> IF row.missing + 1 >= AbsenceThreshold THEN "inactive" ELSE "active",
     missing |-> row.missing + 1]

ReconcileSitemap(s) ==
    source' = [u \in Urls |->
        IF source[u].state # "active" THEN source[u]
        ELSE IF u \notin sync[s].inventory THEN CountAbsence(source[u])
        ELSE IF work[<<s, u>>].gone THEN source[u]
        ELSE [source[u] EXCEPT !.missing = 0]]

FinalizeSync(p) ==
    LET s == job[p].sync IN
    /\ job[p].at = "finalize"
    /\ CanFinalize(s)
    /\ sync' = [sync EXCEPT ![s].state = FinalState(s), ![s].marker = ""]
    /\ ReconcileSitemap(s)
    /\ lastSync' = s
    /\ currentSync' = NoSync
    /\ Stop(p)
    /\ UNCHANGED <<site, work, broker, faults>>

\* Mutant: a page that ends does not refill its slot.
FinalizeNothingMutant(p) ==
    /\ job[p].at = "finalize"
    /\ ~CanFinalize(job[p].sync)
    /\ Stop(p)
    /\ UNCHANGED <<site, rows, broker, faults>>

FinalizeNothing(p) ==
    LET s == job[p].sync IN
    /\ job[p].at = "finalize"
    /\ ~CanFinalize(s)
    /\ IF job[p].task = "page" /\ sync[s].state = "running"
       THEN Goto(p, "dispatch") ELSE Stop(p)
    /\ UNCHANGED <<site, rows, broker, faults>>

-----------------------------------------------------------------------------
(* recover_crawl_jobs: four independent UPDATE statements, then the        *)
(* enqueue loop and the dispatch-and-finalize loop, one item at a time.    *)
(* A claim is stale some time after it was made; when the cutoff is not    *)
(* below the task timeout, the process that made it has been killed.       *)

Held(s) == \E p \in Procs : job[p].task = "sync" /\ job[p].sync = s
Publishing(s) ==
    \E p \in Procs : job[p].at \in {"send_sync", "mark_sync"} /\ job[p].sync = s
Crawled(w) == \E p \in Procs : Crawls(p, w)

RequeueStaleSync(s) ==
    /\ sync[s].state = "running"
    /\ StaleOutlivesTask => ~Held(s)
    /\ sync' = [sync EXCEPT ![s] = [sync[s] EXCEPT !.state = "queued", !.marker = "", !.due = TRUE]]
    /\ UNCHANGED <<site, work, source, currentSync, lastSync, broker, job, faults>>

\* Mutant: the started_at cutoff is missing.
RequeueStalePageMutant(w) ==
    /\ work[w].state = "running"
    /\ work' = [work EXCEPT ![w] = [work[w] EXCEPT !.state = "queued", !.marker = "", !.due = TRUE]]
    /\ UNCHANGED <<site, sync, source, currentSync, lastSync, broker, job, faults>>

RequeueStalePage(w) ==
    /\ work[w].state = "running"
    /\ StaleOutlivesTask => ~Crawled(w)
    /\ work' = [work EXCEPT ![w] = [work[w] EXCEPT !.state = "queued", !.marker = "", !.due = TRUE]]
    /\ UNCHANGED <<site, sync, source, currentSync, lastSync, broker, job, faults>>

\* Mutant: only interrupted publications are recovered, not lost messages.
ClearStaleSyncMarkerMutant(s) ==
    /\ sync[s].state = "queued" /\ sync[s].marker = "dispatching"
    /\ StaleOutlivesTask => ~Publishing(s)
    /\ sync' = [sync EXCEPT ![s].marker = ""]
    /\ UNCHANGED <<site, work, source, currentSync, lastSync, broker, job, faults>>

ClearStaleSyncMarker(s) ==
    /\ sync[s].state = "queued" /\ sync[s].marker # ""
    /\ StaleOutlivesTask => ~Publishing(s)
    /\ sync' = [sync EXCEPT ![s].marker = ""]
    /\ UNCHANGED <<site, work, source, currentSync, lastSync, broker, job, faults>>

\* bulk_update does not refresh updated_at when it reserves a work, so an old
\* row's fresh reservation already counts as stale.
ClearStalePageMarker(w) ==
    /\ work[w].state = "queued" /\ work[w].marker # ""
    /\ work' = [work EXCEPT ![w].marker = ""]
    /\ UNCHANGED <<site, sync, source, currentSync, lastSync, broker, job, faults>>

SweepEnqueue(p, s) ==
    /\ IsIdle(p) /\ sync[s].state = "queued" /\ sync[s].marker = "" /\ sync[s].due
    /\ Start(p, "enqueue", "reserve", s, NoUrl)
    /\ UNCHANGED <<site, rows, broker, faults>>

SweepRunning(p, s) ==
    /\ IsIdle(p) /\ sync[s].state = "running"
    /\ Start(p, "sweep", "dispatch", s, NoUrl)
    /\ UNCHANGED <<site, rows, broker, faults>>

-----------------------------------------------------------------------------
(* Time and faults.                                                        *)

SyncDue(s) ==
    /\ ~sync[s].due /\ sync' = [sync EXCEPT ![s].due = TRUE]
    /\ UNCHANGED <<site, work, source, currentSync, lastSync, broker, job, faults>>

PageDue(w) ==
    /\ ~work[w].due /\ work' = [work EXCEPT ![w].due = TRUE]
    /\ UNCHANGED <<site, sync, source, currentSync, lastSync, broker, job, faults>>

\* A killed worker, a task timeout, or an exception the handler lets through.
Crash(p) ==
    /\ ~IsIdle(p) /\ CanFault /\ Stop(p)
    /\ UNCHANGED <<site, rows, broker>>

\* Q2 on Redis keeps no receipt: a message taken by a dying worker is gone.
LoseSyncMsg(s) ==
    /\ TakeSyncMsg(s) /\ CanFault
    /\ UNCHANGED <<site, rows, pageMsgs, job>>
LosePageMsg(w) ==
    /\ TakePageMsg(w) /\ CanFault
    /\ UNCHANGED <<site, rows, syncMsgs, job>>

-----------------------------------------------------------------------------
\* A handler's next step.
Step(p) ==
    \/ ReserveSync(p) \/ SendSync(p) \/ MarkSync(p)
    \/ Promote(p) \/ CreateWork(p)
    \/ DispatchNothing(p) \/ DispatchReserve(p) \/ MarkPage(p)
    \/ \E u \in Urls : SendPage(p, u)
    \/ Ingest(p) \/ CheckEligibility(p) \/ IndexArticle(p) \/ BecameIneligible(p)
    \/ RecordOutcome(p) \/ RecordCancelled(p)
    \/ FinalizeSync(p) \/ FinalizeNothing(p)

\* What the network and the broker may do to it instead.
Fails(p) ==
    \/ SendSyncFails(p) \/ \E u \in Urls : SendPageFails(p, u)
    \/ RequeueSync(p) \/ FailSync(p)
    \/ \E outcome \in {"retry", "fail", "gone"} : FetchFails(p, outcome)
    \/ Crash(p)

Request(p, s) ==
    Submit(p, s) \/ ScheduleDaily(p, s) \/ RetryCreate(p, s) \/ RetryReuse(p, s)

DeliverSync(p, s) == ClaimSync(p, s) \/ ClaimSyncNoop(p, s)
DeliverPage(p, w) == ClaimPage(p, w) \/ ClaimPageNoop(p, w)

Sweep ==
    \/ \E s \in Syncs : RequeueStaleSync(s) \/ ClearStaleSyncMarker(s)
    \/ \E w \in Works : RequeueStalePage(w) \/ ClearStalePageMarker(w)
    \/ \E p \in Procs, s \in Syncs : SweepEnqueue(p, s) \/ SweepRunning(p, s)

\* Everything but the recovery sweep.
WorkerNext ==
    \/ Suspend \/ Reactivate \/ ReadForm \/ SaveForm \/ DropForm
    \/ \E p \in Procs : Step(p) \/ Fails(p)
    \/ \E p \in Procs, s \in Syncs : Request(p, s) \/ DeliverSync(p, s)
    \/ \E p \in Procs, w \in Works : DeliverPage(p, w)
    \/ \E s \in Syncs : SyncDue(s) \/ LoseSyncMsg(s)
    \/ \E w \in Works : PageDue(w) \/ LosePageMsg(w)

Next == WorkerNext \/ Sweep

Spec == Init /\ [][Next]_vars

\* A worker takes its next step unless killed; Q2 workers pop the Redis list in
\* order, so a message is eventually taken; backoff is a bounded time, and a
\* request that edits the site ends.
WorkerFairness ==
    /\ WF_vars(SaveForm \/ DropForm)
    /\ \A p \in Procs : WF_vars(Step(p) \/ Fails(p))
    /\ \A s \in Syncs : SF_vars(\E p \in Procs : DeliverSync(p, s)) /\ WF_vars(SyncDue(s))
    /\ \A w \in Works : SF_vars(\E p \in Procs : DeliverPage(p, w)) /\ WF_vars(PageDue(w))

\* The sweep runs every five minutes and whenever a worker starts, and every
\* claim that stays becomes older than the cutoff.
SweepFairness ==
    /\ \A s \in Syncs :
         /\ WF_vars(RequeueStaleSync(s)) /\ WF_vars(ClearStaleSyncMarker(s))
         /\ SF_vars(\E p \in Procs : SweepEnqueue(p, s))
         /\ SF_vars(\E p \in Procs : SweepRunning(p, s))
    /\ \A w \in Works : WF_vars(RequeueStalePage(w)) /\ WF_vars(ClearStalePageMarker(w))

FairSpec == Spec /\ WorkerFairness /\ SweepFairness

\* The same system with a recovery schedule that never runs.
UnsweptSpec == Init /\ [][WorkerNext]_vars /\ WorkerFairness

-----------------------------------------------------------------------------
(* Properties.                                                             *)

\* A job that runs names its sync, and its page where it handles one.
JobNamesRows(p) ==
    /\ job[p].at # "idle" => job[p].sync \in Syncs
    /\ job[p].at \in CrawlPoints \cup {"mark_page"} => job[p].url \in Urls

TypeOK ==
    /\ eligible \in BOOLEAN /\ form \in Form
    /\ sync \in [Syncs -> SyncRow]
    /\ work \in [Works -> WorkRow]
    /\ source \in [Urls -> SourceRow]
    /\ currentSync \in Syncs \cup {NoSync}
    /\ lastSync \in Syncs \cup {NoSync}
    /\ syncMsgs \in [Syncs -> 0..MaxCopies]
    /\ pageMsgs \in [Works -> 0..MaxCopies]
    /\ job \in [Procs -> Job] /\ \A p \in Procs : JobNamesRows(p)
    /\ faults \in 0..MaxFaults

\* A page is never crawled twice at once: duplicate deliveries, the recovery
\* sweep and cancellation notwithstanding, at most one process stands between
\* _claim_page_work and _record_page_outcome of one work row.
ExclusiveCrawl ==
    \A w \in Works, p, q \in Procs : Crawls(p, w) /\ Crawls(q, w) => p = q

\* What makes it so: the row of a page being crawled is running, or was
\* cancelled under the crawler, which no later claim accepts.
CrawledIsClaimed ==
    \A w \in Works, p \in Procs : Crawls(p, w) => work[w].state \in {"running", "cancelled"}

\* Project.current_sync_uuid does not dangle: null, or a queued or running sync.
CurrentSyncIsActive == currentSync # NoSync => currentSync \in ActiveSyncs

\* An edit saves an older current_sync_uuid over the one committed meanwhile.
SavesStaleForm == SaveForm /\ form.current # currentSync

\* Nothing but such an edit makes current_sync_uuid dangle, however requests,
\* claims, finalization, failure and cancellation interleave; and an edit whose
\* pointer nobody wrote between its read and its save keeps it as it is.
CurrentSyncStaysActive ==
    [][CurrentSyncIsActive => CurrentSyncIsActive' \/ SavesStaleForm]_vars

\* ... and core_project_one_active_sync never has to reject the sweep or a claim.
OneActiveSync == \A s, t \in ActiveSyncs : s = t

\* Running rows of the site never exceed the per-site limit.
RunningWithinLimit == Cardinality(RunningWorks) <= PerSite

\* While nothing was lost, a reservation is backed: the message it stands for
\* is in the broker or its publisher is about to send it.  The sweep's stale
\* markers are then only ever a matter of age.
Backed(w) ==
    \/ pageMsgs[w] > 0
    \/ \E p \in Procs : job[p].sync = w[1] /\ job[p].at \in {"send_pages", "mark_page"}
                        /\ w[2] \in job[p].batch
ReservationsBacked == faults = MaxFaults => \A w \in ReservedWorks : Backed(w)

\* A page that succeeded or failed is settled: no late outcome, duplicate
\* message, sweep or cancellation rewrites it.
SettledPagesStay ==
    [][\A w \in Works : work[w].state \in {"succeeded", "failed"}
          => work'[w].state = work[w].state]_vars

\* The rows and the processes, as a page lease sees them.
Leases == INSTANCE PageLeases WITH
    Pages <- Works, Workers <- Procs, Limit <- PerSite,
    state <- [w \in Works |-> work[w].state],
    holders <- [w \in Works |-> {p \in Procs : Crawls(p, w)}]

\* The crawl keeps the promise of PageLeases: a waiting page goes to one worker,
\* under the limit; only that worker's report or a cancellation decides it, and
\* it waits again without a report only when nobody crawls it.
LeasesImplemented == Leases!LeaseSpec

\* Once requested, a sync always ends, whatever is lost or killed on the way
\* (finitely often): the durable rows and the sweep bring it to an end.
SyncSettles ==
    \A s \in Syncs : sync[s].state \in SyncActive ~> sync[s].state \in SyncTerminal

\* Slots are refilled by the pages that end, not by the sweep: without faults, a
\* running sync that is still eligible keeps going until it ends, unless a page
\* is waiting for a retry (only the sweep or another page dispatches that one).
Retrying(s) == \E w \in WorksOf(s) : work[w].state = "queued" /\ work[w].attempts > 0
SlotsRefilled ==
    \A s \in Syncs : sync[s].state = "running" ~>
        sync[s].state # "running" \/ ~eligible \/ Retrying(s) \/ faults < MaxFaults

(* What the documentation says and the code does not keep.                 *)

\* 0004: "URL absent from one successful sitemap | Increment the source absence
\* counter": one finalized sync counts an absence once.
AbsenceCountedOnce ==
    \A u \in Urls : source[u].missing <=
        Cardinality({s \in Syncs : sync[s].promoted /\ u \notin sync[s].inventory})

=============================================================================
