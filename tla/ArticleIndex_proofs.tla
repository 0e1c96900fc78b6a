------------------------- MODULE ArticleIndex_proofs -------------------------
(* Proofs about ArticleIndex for every number of articles, URLs, texts and *)
(* processes.                                                              *)
EXTENDS ArticleIndex, FiniteSetTheorems, TLAPS

-----------------------------------------------------------------------------
(* Jobs: where a process may go, and that only Publish enters "commit".    *)

JobsOK == job \in [Procs -> Job] /\ \A p \in Procs : JobNamesArticle(p)

\* No process enters a publication's transaction.
KeepsCommits ==
  \A p \in Procs : job'[p].at = "commit" =>
                     job[p].at = "commit" /\ job'[p].article = job[p].article

PageSteps == {"check", "embed", "provider", "publish", "unpoint", "deactivate"}

LEMMA IdleType == Idle \in Job /\ Idle.at = "idle" /\ Idle.task = "none" /\ Unseen \in [Articles -> Texts \cup {NoText}]
  BY DEF Idle, Job, Unseen

LEMMA StopType == ASSUME JobsOK, NEW p \in Procs, Stop(p) PROVE JobsOK' /\ KeepsCommits
  <1>1. job' = [job EXCEPT ![p] = Idle]
    BY DEF Stop
  <1>. QED  BY <1>1, IdleType DEF JobsOK, JobNamesArticle, KeepsCommits

LEMMA StartType ==
  ASSUME JobsOK, NEW p \in Procs, NEW task \in {"none", "page", "removal"},
         NEW at \in PageSteps, NEW a \in Articles, NEW ready \in BOOLEAN,
         Start(p, task, at, a, ready)
  PROVE  JobsOK' /\ KeepsCommits
  <1>. DEFINE j == [Idle EXCEPT !.task = task, !.at = at, !.article = a, !.ready = ready]
  <1>1. j \in Job /\ j.at = at /\ j.article = a
    BY IdleType DEF Idle, Job, PageSteps
  <1>2. job' = [job EXCEPT ![p] = j]
    BY DEF Start
  <1>. HIDE DEF j
  <1>. QED  BY <1>1, <1>2 DEF JobsOK, JobNamesArticle, KeepsCommits, PageSteps

LEMMA GotoType ==
  ASSUME JobsOK, NEW p \in Procs, NEW at \in PageSteps, job[p].article \in Articles, Goto(p, at)
  PROVE  JobsOK' /\ KeepsCommits
  <1>. DEFINE j == [job[p] EXCEPT !.at = at]
  <1>1. j \in Job /\ j.at = at /\ j.article \in Articles
    BY DEF JobsOK, Job, PageSteps
  <1>2. job' = [job EXCEPT ![p] = j]
    BY DEF Goto
  <1>. HIDE DEF j
  <1>. QED  BY <1>1, <1>2 DEF JobsOK, JobNamesArticle, KeepsCommits, PageSteps

LEMMA ArticleFacts ==
  ASSUME JobsOK, NEW p \in Procs, job[p].at \in PageSteps \cup {"commit"}
  PROVE  job[p].article \in Articles /\ job[p].ready \in BOOLEAN /\ job[p].text \in Texts \cup {NoText}
  BY DEF JobsOK, JobNamesArticle, Job, PageSteps

LEMMA RetryType ==
  ASSUME JobsOK, NEW p \in Procs, retries \in SUBSET (Articles \X BOOLEAN),
         job[p].article \in Articles, Retry(p)
  PROVE  JobsOK' /\ KeepsCommits /\ retries' \in SUBSET (Articles \X BOOLEAN)
  <1>1. JobsOK' /\ KeepsCommits
    BY StopType DEF Retry
  <1>2. job[p].ready \in BOOLEAN
    BY DEF JobsOK, Job
  <1>. QED  BY <1>1, <1>2 DEF Retry

-----------------------------------------------------------------------------
(* Rows keep their types.  The active count is left for later.             *)

RowsOK ==
  /\ project \in BOOLEAN
  /\ article \in [Articles -> ArticleRow]
  /\ source \in [Urls -> SourceRow]
  /\ embedding \in [Articles -> EmbeddingRow]
  /\ point \in [Articles -> Texts \cup {NoText}]
  /\ removals \in SUBSET Articles
  /\ retries \in SUBSET (Articles \X BOOLEAN)
  /\ JobsOK

Steps == RowsOK' /\ KeepsCommits

LEMMA Settings == \A a \in Articles, row \in ArticleRow :
                    /\ [row EXCEPT !.state = "active"] \in ArticleRow
                    /\ [row EXCEPT !.state = "inactive"] \in ArticleRow
  BY DEF ArticleRow

LEMMA IngestRows ==
  ASSUME RowsOK, NEW p \in Procs, NEW u \in Urls, NEW a \in Articles, NEW ready \in BOOLEAN,
         NEW t \in Texts, Ingest(p, u, a, ready, t)
  PROVE  Steps
  <1>1. Ingested(a, ready, t) \in ArticleRow
    BY DEF Ingested, ArticleRow, RowsOK, Live
  <1>2. article' \in [Articles -> ArticleRow] /\ source' \in [Urls -> SourceRow]
    BY <1>1 DEF Ingest, RowsOK, SourceRow
  <1>3. JobsOK' /\ KeepsCommits
    BY StartType DEF Ingest, RowsOK, PageSteps
  <1>. QED  BY <1>2, <1>3 DEF Ingest, RowsOK, Steps, site

LEMMA ResumeRows ==
  ASSUME RowsOK, NEW p \in Procs, NEW a \in Articles, NEW ready \in BOOLEAN, Resume(p, a, ready)
  PROVE  Steps
  <1>1. JobsOK' /\ KeepsCommits
    BY StartType DEF Resume, RowsOK, PageSteps
  <1>. QED  BY <1>1 DEF Resume, RowsOK, Steps, rows, site

LEMMA RemoveRows ==
  ASSUME RowsOK, NEW p \in Procs, NEW a \in Articles, Remove(p, a)
  PROVE  Steps
  <1>1. JobsOK' /\ KeepsCommits
    BY StartType DEF Remove, RowsOK, PageSteps
  <1>. QED  BY <1>1 DEF Remove, RowsOK, Steps, rows, site

LEMMA CheckRows ==
  ASSUME RowsOK, NEW p \in Procs, CheckEligible(p) \/ CheckIneligible(p)
  PROVE  Steps
  <1>1. job[p].at = "check" /\ job[p].article \in Articles
    BY ArticleFacts DEF CheckEligible, CheckIneligible, RowsOK, PageSteps
  <1>2. JobsOK' /\ KeepsCommits
    BY <1>1, GotoType, StopType DEF CheckEligible, CheckIneligible, RowsOK, PageSteps
  <1>. QED  BY <1>2 DEF CheckEligible, CheckIneligible, RowsOK, Steps, rows, site

LEMMA EmbedReadRows ==
  ASSUME RowsOK, NEW p \in Procs, EmbedRead(p)
  PROVE  Steps
  <1>. DEFINE a == job[p].article
  <1>1. job[p].at = "embed" /\ a \in Articles
    BY ArticleFacts DEF EmbedRead, RowsOK, PageSteps
  <1>2. JobsOK' /\ KeepsCommits
    <2>1. CASE Stop(p)
      BY <2>1, StopType DEF RowsOK
    <2>2. CASE Goto(p, "publish")
      BY <2>2, <1>1, GotoType DEF RowsOK, PageSteps
    <2>3. CASE job' = [job EXCEPT ![p].at = "provider", ![p].text = article[a].text]
      <3>. DEFINE j == [job[p] EXCEPT !.at = "provider", !.text = article[a].text]
      <3>1. article[a].text \in Texts \cup {NoText}
        BY <1>1 DEF RowsOK, ArticleRow
      <3>2. j \in Job /\ j.at = "provider" /\ j.article \in Articles
        BY <1>1, <3>1 DEF RowsOK, JobsOK, Job
      <3>3. job' = [job EXCEPT ![p] = j]
        BY <2>3 DEF RowsOK, JobsOK, Job
      <3>. HIDE DEF j
      <3>. QED  BY <3>2, <3>3 DEF RowsOK, JobsOK, JobNamesArticle, KeepsCommits
    <2>. QED  BY <2>1, <2>2, <2>3 DEF EmbedRead
  <1>. QED  BY <1>2 DEF EmbedRead, RowsOK, Steps, rows, site

LEMMA EmbedWriteRows ==
  ASSUME RowsOK, NEW p \in Procs, EmbedWrite(p)
  PROVE  Steps
  <1>. DEFINE a == job[p].article
  <1>1. job[p].at = "provider" /\ a \in Articles /\ job[p].text \in Texts \cup {NoText}
    BY ArticleFacts DEF EmbedWrite, RowsOK, PageSteps
  <1>2. [state |-> "succeeded", hash |-> article[a].text, vector |-> job[p].text] \in EmbeddingRow
    BY <1>1 DEF RowsOK, ArticleRow, EmbeddingRow
  <1>3. embedding' \in [Articles -> EmbeddingRow]
    BY <1>2 DEF EmbedWrite, RowsOK
  <1>4. JobsOK' /\ KeepsCommits /\ retries' \in SUBSET (Articles \X BOOLEAN)
    BY <1>1, GotoType, RetryType DEF EmbedWrite, RowsOK, PageSteps
  <1>. QED  BY <1>3, <1>4 DEF EmbedWrite, RowsOK, Steps, rows, site

LEMMA ProviderFailsRows ==
  ASSUME RowsOK, NEW p \in Procs, ProviderFails(p)
  PROVE  Steps
  <1>. DEFINE a == job[p].article
  <1>1. job[p].at = "provider" /\ a \in Articles
    BY ArticleFacts DEF ProviderFails, RowsOK, PageSteps
  <1>2. [state |-> "failed", hash |-> article[a].text, vector |-> NoText] \in EmbeddingRow
    BY <1>1 DEF RowsOK, ArticleRow, EmbeddingRow
  <1>3. embedding' \in [Articles -> EmbeddingRow]
    BY <1>2 DEF ProviderFails, RecordFailure, RowsOK
  <1>4. JobsOK' /\ KeepsCommits /\ retries' \in SUBSET (Articles \X BOOLEAN)
    BY <1>1, StopType, RetryType DEF ProviderFails, RowsOK
  <1>. QED  BY <1>3, <1>4 DEF ProviderFails, RowsOK, Steps, rows, site

\* The step that enters "commit" keeps the types like the others.
LEMMA PublishRows ==
  ASSUME RowsOK, NEW p \in Procs, Publish(p)
  PROVE  /\ RowsOK' /\ job[p].article \in Articles
         /\ job' = [job EXCEPT ![p] = [job[p] EXCEPT !.at = "commit"]]
  <1>. DEFINE a == job[p].article  j == [job[p] EXCEPT !.at = "commit"]
  <1>1. job[p].at = "publish" /\ a \in Articles
    BY ArticleFacts DEF Publish, RowsOK, PageSteps
  <1>2. point' \in [Articles -> Texts \cup {NoText}]
    BY <1>1 DEF Publish, RowsOK, EmbeddingRow
  <1>3. j \in Job /\ j.at = "commit" /\ j.article \in Articles
    BY <1>1 DEF RowsOK, JobsOK, Job
  <1>4. job' = [job EXCEPT ![p] = j]
    BY DEF Publish, Goto
  <1>5. JobsOK'
    <2>. HIDE DEF j
    <2>. QED  BY <1>3, <1>4 DEF RowsOK, JobsOK, JobNamesArticle
  <1>. QED  BY <1>1, <1>2, <1>4, <1>5 DEF Publish, RowsOK, rows, site

LEMMA RefusedRows ==
  ASSUME RowsOK, NEW p \in Procs, PublishRefused(p) \/ UpsertFails(p)
  PROVE  Steps
  <1>. DEFINE a == job[p].article
  <1>1. job[p].at = "publish" /\ a \in Articles
    BY ArticleFacts DEF PublishRefused, UpsertFails, RowsOK, PageSteps
  <1>2. point' \in [Articles -> Texts \cup {NoText}]
    BY <1>1 DEF PublishRefused, UpsertFails, RowsOK, EmbeddingRow
  <1>3. JobsOK' /\ KeepsCommits /\ retries' \in SUBSET (Articles \X BOOLEAN)
    BY <1>1, StopType, RetryType DEF PublishRefused, UpsertFails, RowsOK
  <1>. QED  BY <1>2, <1>3 DEF PublishRefused, UpsertFails, RowsOK, Steps, rows, site

LEMMA CommitRows ==
  ASSUME RowsOK, NEW p \in Procs, Commit(p)
  PROVE  Steps
  <1>1. job[p].at = "commit" /\ job[p].article \in Articles
    BY ArticleFacts DEF Commit, RowsOK
  <1>2. article' \in [Articles -> ArticleRow]
    BY <1>1, Settings DEF Commit, MarkActive, RowsOK
  <1>3. JobsOK' /\ KeepsCommits
    BY StopType DEF Commit, RowsOK
  <1>. QED  BY <1>2, <1>3 DEF Commit, RowsOK, Steps, site

LEMMA RemovalRows ==
  ASSUME RowsOK, NEW p \in Procs,
         Unpoint(p) \/ UnpointFails(p) \/ Deactivate(p) \/ DeactivateFails(p)
  PROVE  Steps
  <1>1. job[p].at \in PageSteps /\ job[p].article \in Articles
    BY ArticleFacts DEF Unpoint, UnpointFails, Deactivate, DeactivateFails, RowsOK, PageSteps
  <1>2. point' \in [Articles -> Texts \cup {NoText}]
    BY <1>1 DEF Unpoint, UnpointFails, Deactivate, DeactivateFails, RowsOK
  <1>3. article' \in [Articles -> ArticleRow] /\ UNCHANGED <<project, source, embedding, removals>>
    <2>1. CASE Deactivate(p)
      BY <1>1, <2>1, Settings DEF Deactivate, RowsOK, site
    <2>2. CASE Unpoint(p) \/ UnpointFails(p) \/ DeactivateFails(p)
      BY <2>2 DEF Unpoint, UnpointFails, DeactivateFails, RowsOK, rows, site
    <2>. QED  BY <2>1, <2>2
  <1>4. JobsOK' /\ KeepsCommits /\ retries' \in SUBSET (Articles \X BOOLEAN)
    BY <1>1, StopType, GotoType, RetryType
    DEF Unpoint, UnpointFails, Deactivate, DeactivateFails, RowsOK, PageSteps
  <1>. QED  BY <1>2, <1>3, <1>4 DEF RowsOK, Steps, site

LEMMA SameJobs == ASSUME RowsOK, UNCHANGED job PROVE JobsOK' /\ KeepsCommits
  BY DEF RowsOK, JobsOK, JobNamesArticle, KeepsCommits

LEMMA ReconcileRows ==
  ASSUME RowsOK, NEW gone \in SUBSET Urls, ReconcileSitemap(gone)
  PROVE  Steps
  <1>. DEFINE stale == {a \in Articles : article[a].state \in {"discovered", "active"}
                                          /\ ~Backed(a, source')}
  <1>1. \A u \in Urls : [source[u] EXCEPT !.active = FALSE] \in SourceRow
    BY DEF RowsOK, SourceRow
  <1>2. source' \in [Urls -> SourceRow]
    BY <1>1 DEF ReconcileSitemap, RowsOK
  <1>3. article' = [a \in Articles |-> IF a \in stale THEN [article[a] EXCEPT !.state = "inactive"]
                                        ELSE article[a]]
        /\ removals' = removals \cup stale
    BY DEF ReconcileSitemap
  <1>4. article' \in [Articles -> ArticleRow] /\ removals' \in SUBSET Articles
    BY <1>3, Settings DEF RowsOK
  <1>. QED  BY <1>2, <1>4, SameJobs DEF ReconcileSitemap, RowsOK, Steps, site

LEMMA TerminalFetchRows ==
  ASSUME RowsOK, NEW u \in Urls, TerminalFetch(u)
  PROVE  Steps /\ source[u].article \in Articles
  <1>1. source[u].article \in Articles
    BY DEF TerminalFetch, RowsOK, SourceRow
  <1>2. [source[u] EXCEPT !.active = FALSE] \in SourceRow
    BY DEF RowsOK, SourceRow
  <1>3. source' \in [Urls -> SourceRow]
    BY <1>2 DEF TerminalFetch, RowsOK
  <1>. DEFINE a == source[u].article
  <1>4. \/ UNCHANGED <<article, removals>>
        \/ article' = [article EXCEPT ![a].state = "inactive"] /\ removals' = removals \cup {a}
    BY DEF TerminalFetch, rows
  <1>5. [article[a] EXCEPT !.state = "inactive"] \in ArticleRow
    BY <1>1, Settings DEF RowsOK
  <1>6. article' \in [Articles -> ArticleRow] /\ removals' \in SUBSET Articles
    BY <1>1, <1>4, <1>5 DEF RowsOK
  <1>. QED  BY <1>1, <1>3, <1>6, SameJobs DEF TerminalFetch, RowsOK, Steps, site

LEMMA TransitionRows ==
  ASSUME RowsOK, Suspend \/ Reactivate \/ ReadForm \/ SaveForm \/ DropForm
  PROVE  Steps
  BY SameJobs DEF Suspend, Reactivate, ReadForm, SaveForm, DropForm, RowsOK, Steps, rows

LEMMA LossRows ==
  ASSUME RowsOK, NEW a \in Articles, NEW ready \in BOOLEAN, LoseRemoval(a) \/ GiveUp(a, ready)
  PROVE  Steps
  BY SameJobs DEF LoseRemoval, GiveUp, RowsOK, Steps, rows, site

\* A page job knows its article wherever it is killed.
LEMMA CrashRows ==
  ASSUME RowsOK, NEW p \in Procs, Crash(p)
  PROVE  Steps
  <1>1. job[p].task = "page" => job[p].article \in Articles
    BY DEF RowsOK, JobsOK, JobNamesArticle
  <1>2. JobsOK' /\ KeepsCommits /\ retries' \in SUBSET (Articles \X BOOLEAN)
    BY <1>1, StopType, RetryType DEF Crash, RowsOK
  <1>. QED  BY <1>2 DEF Crash, RowsOK, Steps, rows, site

\* The rebuild names no article between its steps.
LEMMA RebuildJob ==
  ASSUME JobsOK, NEW p \in Procs, NEW j \in Job, job' = [job EXCEPT ![p] = j],
         j.at \in {"upsert", "mark", "scroll", "purge"},
         j.task = "rebuild" \/ (j.task = job[p].task /\ j.article = job[p].article)
  PROVE  JobsOK' /\ KeepsCommits
  BY DEF JobsOK, JobNamesArticle, KeepsCommits

LEMMA StartRebuildRows ==
  ASSUME RowsOK, NEW p \in Procs, StartRebuild(p)
  PROVE  Steps
  <1>. DEFINE snapshot == [a \in Articles |-> IF a \in Corpus THEN embedding[a].vector ELSE NoText]
              j == [Idle EXCEPT !.task = "rebuild",
                      !.at = IF Corpus = {} THEN "scroll" ELSE "upsert",
                      !.rest = IF Corpus = {} THEN Articles ELSE Corpus,
                      !.seen = snapshot]
  <1>1. snapshot \in [Articles -> Texts \cup {NoText}]
    BY DEF RowsOK, EmbeddingRow
  <1>2. Corpus \in SUBSET Articles
    BY DEF Corpus
  <1>3. j \in Job /\ j.at \in {"upsert", "scroll"} /\ j.task = "rebuild"
    <2>. HIDE DEF snapshot
    <2>. QED  BY <1>1, <1>2, IdleType DEF Job, Idle
  <1>4. job' = [job EXCEPT ![p] = j]
    BY DEF StartRebuild
  <1>5. JobsOK' /\ KeepsCommits
    <2>. HIDE DEF j
    <2>. QED  BY <1>3, <1>4, RebuildJob DEF RowsOK
  <1>. QED  BY <1>5 DEF StartRebuild, RowsOK, Steps, rows, site

LEMMA UpsertRows ==
  ASSUME RowsOK, NEW p \in Procs, RebuildUpsert(p)
  PROVE  Steps
  <1>1. PICK b \in SUBSET job[p].rest :
          /\ point' = [a \in Articles |-> IF a \in b THEN job[p].seen[a] ELSE point[a]]
          /\ job' = [job EXCEPT ![p].at = "mark", ![p].batch = b, ![p].rest = job[p].rest \ b]
    BY DEF RebuildUpsert
  <1>. DEFINE j == [job[p] EXCEPT !.at = "mark", !.batch = b, !.rest = job[p].rest \ b]
  <1>2. job[p] \in Job /\ job[p].seen \in [Articles -> Texts \cup {NoText}]
        /\ job[p].rest \in SUBSET Articles
    BY DEF RowsOK, JobsOK, Job
  <1>3. point' \in [Articles -> Texts \cup {NoText}]
    BY <1>1, <1>2 DEF RowsOK
  <1>4. j \in Job /\ j.at = "mark" /\ j.task = job[p].task /\ j.article = job[p].article
    BY <1>2 DEF Job
  <1>5. job' = [job EXCEPT ![p] = j]
    BY <1>1 DEF RowsOK, JobsOK, Job
  <1>6. JobsOK' /\ KeepsCommits
    <2>. HIDE DEF j
    <2>. QED  BY <1>4, <1>5, RebuildJob DEF RowsOK
  <1>. QED  BY <1>3, <1>6 DEF RebuildUpsert, RowsOK, Steps, rows, site

LEMMA MarkRows ==
  ASSUME RowsOK, NEW p \in Procs, RebuildMark(p)
  PROVE  Steps
  <1>. DEFINE after(a) == [job[p] EXCEPT !.batch = job[p].batch \ {a},
               !.at = IF job[p].batch # {a} THEN "mark"
                      ELSE IF job[p].rest # {} THEN "upsert" ELSE "scroll",
               !.rest = IF job[p].batch = {a} /\ job[p].rest = {} THEN Articles ELSE job[p].rest]
  <1>1. job[p] \in Job /\ job[p].rest \in SUBSET Articles /\ job[p].batch \in SUBSET Articles
    BY DEF RowsOK, JobsOK, Job
  <1>2. PICK a \in job[p].batch : MarkActive(a) /\ job' = [job EXCEPT ![p] = after(a)]
    BY DEF RebuildMark
  <1>3. article' \in [Articles -> ArticleRow]
    BY <1>1, <1>2, Settings DEF MarkActive, RowsOK
  <1>4. /\ after(a) \in Job /\ after(a).at \in {"mark", "upsert", "scroll"}
        /\ after(a).task = job[p].task /\ after(a).article = job[p].article
    BY <1>1 DEF Job
  <1>5. JobsOK' /\ KeepsCommits
    <2>. HIDE DEF after
    <2>. QED  BY <1>2, <1>4, RebuildJob DEF RowsOK
  <1>. QED  BY <1>3, <1>5 DEF RebuildMark, RowsOK, Steps, site

LEMMA AbortRows ==
  ASSUME RowsOK, NEW p \in Procs, RebuildAborts(p)
  PROVE  Steps
  BY StopType DEF RebuildAborts, RowsOK, Steps, rows, site

LEMMA ScrollRows ==
  ASSUME RowsOK, NEW p \in Procs, RebuildScroll(p)
  PROVE  Steps
  <1>. DEFINE after(page) == [job[p] EXCEPT !.rest = job[p].rest \ page, !.batch = Stale(p, page),
                                !.at = IF Stale(p, page) = {} THEN "scroll" ELSE "purge"]
  <1>1. job[p] \in Job /\ job[p].rest \in SUBSET Articles
    BY DEF RowsOK, JobsOK, Job
  <1>2. JobsOK' /\ KeepsCommits
    <2>1. CASE Stop(p)
      BY <2>1, StopType DEF RowsOK
    <2>2. CASE ~Stop(p)
      <3>1. PICK page \in SUBSET job[p].rest :
              job' = [job EXCEPT ![p].rest = job[p].rest \ page, ![p].batch = Stale(p, page),
                        ![p].at = IF Stale(p, page) = {} THEN "scroll" ELSE "purge"]
        BY <2>2 DEF RebuildScroll
      <3>2. Stale(p, page) \in SUBSET Articles
        BY <1>1 DEF Stale
      <3>3. /\ after(page) \in Job /\ after(page).at \in {"scroll", "purge"}
          /\ after(page).task = job[p].task /\ after(page).article = job[p].article
        BY <1>1, <3>2 DEF Job
      <3>4. job' = [job EXCEPT ![p] = after(page)]
        BY <3>1 DEF RowsOK, JobsOK, Job
      <3>. HIDE DEF after
      <3>. QED  BY <3>3, <3>4, RebuildJob DEF RowsOK
    <2>. QED  BY <2>1, <2>2
  <1>. QED  BY <1>2 DEF RebuildScroll, RowsOK, Steps, rows, site

LEMMA PurgeRows ==
  ASSUME RowsOK, NEW p \in Procs, RebuildPurge(p)
  PROVE  Steps
  <1>. DEFINE after == [job[p] EXCEPT !.at = "scroll", !.batch = {}]
  <1>1. point' \in [Articles -> Texts \cup {NoText}]
    BY DEF RebuildPurge, RowsOK
  <1>2. JobsOK' /\ KeepsCommits
    <2>1. CASE Stop(p)
      BY <2>1, StopType DEF RowsOK
    <2>2. CASE ~Stop(p)
      <3>1. after \in Job /\ after.at = "scroll" /\ after.task = job[p].task
          /\ after.article = job[p].article
        BY DEF RowsOK, JobsOK, Job
      <3>2. job' = [job EXCEPT ![p] = after]
        BY <2>2 DEF RebuildPurge, RowsOK, JobsOK, Job
      <3>. HIDE DEF after
      <3>. QED  BY <3>1, <3>2, RebuildJob DEF RowsOK
    <2>. QED  BY <2>1, <2>2
  <1>. QED  BY <1>1, <1>2 DEF RebuildPurge, RowsOK, Steps, rows, site

LEMMA RowsInit == Init => RowsOK
  <1>1. NewArticle \in ArticleRow /\ NewSource \in SourceRow /\ NewEmbedding \in EmbeddingRow
    BY DEF NewArticle, NewSource, NewEmbedding, ArticleRow, SourceRow, EmbeddingRow
  <1>. QED  BY <1>1, IdleType DEF Init, RowsOK, JobsOK, JobNamesArticle

LEMMA RowsStutter == ASSUME RowsOK, UNCHANGED vars PROVE Steps
  BY SameJobs DEF RowsOK, Steps, vars, rows

\* Every step keeps the rows typed; every one but Publish keeps the commits.
LEMMA RowsNext == ASSUME RowsOK, [Next]_vars PROVE RowsOK' /\ (KeepsCommits \/ \E p \in Procs : Publish(p))
  <1>1. CASE \E p \in Procs : Starts(p)
    BY <1>1, IngestRows, ResumeRows, RemoveRows DEF Starts, Steps
  <1>2. CASE \E p \in Procs : Step(p)
    BY <1>2, CheckRows, EmbedReadRows, EmbedWriteRows, PublishRows, RefusedRows, CommitRows,
       RemovalRows DEF Step, Steps
  <1>3. CASE \E gone \in SUBSET Urls : ReconcileSitemap(gone)
    BY <1>3, ReconcileRows DEF Steps
  <1>4. CASE \E u \in Urls : TerminalFetch(u)
    BY <1>4, TerminalFetchRows DEF Steps
  <1>5. CASE Upsets
    BY <1>5, TransitionRows, CheckRows, ProviderFailsRows, RefusedRows, RemovalRows, CrashRows,
       LossRows DEF Upsets, Steps
  <1>6. CASE \E p \in Procs : Rebuild(p)
    BY <1>6, StartRebuildRows, UpsertRows, MarkRows, AbortRows, ScrollRows, PurgeRows
    DEF Rebuild, Steps
  <1>7. CASE UNCHANGED vars
    BY <1>7, RowsStutter DEF Steps
  <1>. QED  BY <1>1, <1>2, <1>3, <1>4, <1>5, <1>6, <1>7 DEF Next, CrawlNext, SteadyNext

-----------------------------------------------------------------------------
(* The embedding of an active article.  What makes it inductive: from the  *)
(* upsert to the commit of a publication its article stays indexable, for  *)
(* the locks it holds stop whoever would change that.                      *)

CommitReady == \A p \in Procs : job[p].at = "commit" => Indexable(job[p].article)
CorpusInv == VectorOfItsText /\ ActiveIsEmbedded /\ CommitReady

\* Steps that leave the three rows alone.
LEMMA CorpusKept ==
  ASSUME RowsOK, CorpusInv, RowsOK', KeepsCommits, UNCHANGED <<project, article, embedding>>
  PROVE  CorpusInv'
  <1>1. VectorOfItsText' /\ ActiveIsEmbedded'
    BY DEF CorpusInv, VectorOfItsText, ActiveIsEmbedded, Live, Embeddable, Embedded
  <1>2. CommitReady'
    BY DEF CorpusInv, CommitReady, KeepsCommits, Indexable, Embeddable, Embedded
  <1>. QED  BY <1>1, <1>2 DEF CorpusInv

\* Articles change, but none becomes active, and those locked stay as they are.
LEMMA CorpusShrinks ==
  ASSUME RowsOK, CorpusInv, KeepsCommits, UNCHANGED <<project, embedding>>,
         \A b \in Articles : \/ article'[b].state # "active"
                             \/ Live(b) /\ article'[b].ready /\ article'[b].text = article[b].text,
         \A p \in Procs : job[p].at = "commit" => article'[job[p].article] = article[job[p].article]
  PROVE  CorpusInv'
  <1>1. VectorOfItsText'
    BY DEF CorpusInv, VectorOfItsText
  <1>2. ActiveIsEmbedded'
    BY DEF CorpusInv, ActiveIsEmbedded, Live, Embeddable, Embedded
  <1>3. CommitReady'
    BY DEF CorpusInv, CommitReady, KeepsCommits, Indexable, Embeddable, Embedded
  <1>. QED  BY <1>1, <1>2, <1>3 DEF CorpusInv

\* An indexable article becomes active.
LEMMA CorpusGrows ==
  ASSUME RowsOK, CorpusInv, KeepsCommits, UNCHANGED <<project, embedding>>,
         NEW a \in Articles, Indexable(a), MarkActive(a)
  PROVE  CorpusInv'
  <1>1. \A b \in Articles : /\ article'[b].text = article[b].text
                            /\ article'[b].ready = article[b].ready
                            /\ article'[b].state = IF b = a THEN "active" ELSE article[b].state
    BY DEF RowsOK, ArticleRow, MarkActive
  <1>2. \A b \in Articles : Indexable(b) => Indexable(b)'
    BY <1>1 DEF Indexable, Embeddable, Embedded
  <1>3. VectorOfItsText'
    BY DEF CorpusInv, VectorOfItsText
  <1>4. ActiveIsEmbedded'
    BY <1>1, <1>2 DEF CorpusInv, ActiveIsEmbedded, Live, Embeddable, Embedded, Indexable
  <1>5. CommitReady'
    <2>1. \A p \in Procs : job[p].at = "commit" => job[p].article \in Articles
      BY ArticleFacts DEF RowsOK
    <2>. QED  BY <1>2, <2>1 DEF CorpusInv, CommitReady, KeepsCommits
  <1>. QED  BY <1>3, <1>4, <1>5 DEF CorpusInv

\* The embedding of one unlocked article changes; it was not active, or has a
\* succeeded embedding of its text afterwards.
LEMMA CorpusReembedded ==
  ASSUME RowsOK, CorpusInv, KeepsCommits, UNCHANGED <<project, article>>,
         NEW a \in Articles, ArticleFree(a), NEW e, embedding' = [embedding EXCEPT ![a] = e],
         e.state = "succeeded" => e.vector = e.hash /\ e.hash = article[a].text,
         Live(a) => e.state = "succeeded"
  PROVE  CorpusInv'
  <1>1. embedding'[a] = e /\ \A b \in Articles : b # a => embedding'[b] = embedding[b]
    BY DEF RowsOK
  <1>2. VectorOfItsText'
    BY <1>1 DEF CorpusInv, VectorOfItsText
  <1>3. ActiveIsEmbedded'
    BY <1>1 DEF CorpusInv, ActiveIsEmbedded, Live, Embeddable, Embedded
  <1>4. CommitReady'
    <2>1. \A p \in Procs : job[p].at = "commit" => job[p].article \in Articles \ {a}
      BY ArticleFacts DEF RowsOK, ArticleFree
    <2>. QED  BY <1>1, <2>1 DEF CorpusInv, CommitReady, KeepsCommits, Indexable, Embeddable, Embedded
  <1>. QED  BY <1>2, <1>3, <1>4 DEF CorpusInv

LEMMA CorpusIngest ==
  ASSUME RowsOK, CorpusInv, NEW p \in Procs, NEW u \in Urls, NEW a \in Articles,
         NEW ready \in BOOLEAN, NEW t \in Texts, Ingest(p, u, a, ready, t)
  PROVE  CorpusInv'
  <1>1. KeepsCommits /\ \A q \in Procs : job[q].at # "commit"
    BY IngestRows DEF Steps, Ingest, ProjectFree
  <1>2. ASSUME NEW b \in Articles
        PROVE  \/ article'[b].state # "active"
               \/ Live(b) /\ article'[b].ready /\ article'[b].text = article[b].text
    <2>1. CASE b = a
      <3>1. article'[a] = Ingested(a, ready, t)
        BY DEF Ingest, RowsOK
      <3>. QED  BY <2>1, <3>1 DEF Ingested, Live
    <2>2. CASE b # a
      BY <2>2 DEF Ingest, RowsOK, CorpusInv, ActiveIsEmbedded, Live, Embeddable
    <2>. QED  BY <2>1, <2>2
  <1>. QED  BY <1>1, <1>2, CorpusShrinks DEF Ingest, site

LEMMA CorpusEmbedWrite ==
  ASSUME RowsOK, CorpusInv, NEW p \in Procs, EmbedWrite(p)
  PROVE  CorpusInv'
  <1>. DEFINE a == job[p].article
              e == [state |-> "succeeded", hash |-> article[a].text, vector |-> job[p].text]
  <1>1. a \in Articles /\ RowsOK' /\ KeepsCommits /\ ArticleFree(a)
        /\ UNCHANGED <<project, article>>
    BY EmbedWriteRows, ArticleFacts DEF EmbedWrite, RowsOK, PageSteps, Steps, rows, site
  <1>2. CASE article[a].text = job[p].text /\ embedding' = [embedding EXCEPT ![a] = e]
    <2>1. e.state = "succeeded" /\ e.vector = e.hash /\ e.hash = article[a].text
      BY <1>2
    <2>. HIDE DEF e
    <2>. QED  BY <1>1, <1>2, <2>1, CorpusReembedded
  <1>3. CASE UNCHANGED embedding
    BY <1>1, <1>3, CorpusKept
  <1>. QED  BY <1>2, <1>3 DEF EmbedWrite

LEMMA CorpusProviderFails ==
  ASSUME RowsOK, CorpusInv, NEW p \in Procs, ProviderFails(p)
  PROVE  CorpusInv'
  <1>. DEFINE a == job[p].article
              e == [state |-> "failed", hash |-> article[a].text, vector |-> NoText]
  <1>1. a \in Articles /\ RowsOK' /\ KeepsCommits /\ ArticleFree(a)
        /\ UNCHANGED <<project, article>>
    BY ProviderFailsRows, ArticleFacts DEF ProviderFails, RowsOK, PageSteps, Steps, rows, site
  <1>2. CASE ~Embedded(a) /\ embedding' = [embedding EXCEPT ![a] = e]
    <2>1. e.state = "failed" /\ ~Live(a)
      BY <1>1, <1>2 DEF CorpusInv, ActiveIsEmbedded
    <2>. HIDE DEF e
    <2>. QED  BY <1>1, <1>2, <2>1, CorpusReembedded
  <1>3. CASE UNCHANGED embedding
    BY <1>1, <1>3, CorpusKept
  <1>. QED  BY <1>2, <1>3 DEF ProviderFails, RecordFailure

LEMMA CorpusPublish ==
  ASSUME RowsOK, CorpusInv, NEW p \in Procs, Publish(p)
  PROVE  CorpusInv'
  <1>1. VectorOfItsText' /\ ActiveIsEmbedded'
    BY DEF CorpusInv, VectorOfItsText, ActiveIsEmbedded, Live, Embeddable, Embedded, Publish, rows, site
  <1>2. CommitReady'
    <2>1. \A q \in Procs : job'[q].article = job[q].article /\ (job'[q].at = "commit" => q = p \/ job[q].at = "commit")
      BY PublishRows DEF RowsOK, JobsOK, Job
    <2>. QED  BY <2>1 DEF CorpusInv, CommitReady, Publish, Indexable, Embeddable, Embedded, rows,
              site
  <1>. QED  BY <1>1, <1>2 DEF CorpusInv

LEMMA CorpusCommit ==
  ASSUME RowsOK, CorpusInv, NEW p \in Procs, Commit(p)
  PROVE  CorpusInv'
  <1>1. job[p].article \in Articles /\ KeepsCommits
    BY CommitRows, ArticleFacts DEF Commit, RowsOK, Steps, site
  <1>. QED  BY <1>1, CorpusGrows DEF Commit, CorpusInv, CommitReady, site

\* An unlocked article is taken out.
LEMMA CorpusRemoved ==
  ASSUME RowsOK, CorpusInv, KeepsCommits, UNCHANGED <<project, embedding>>,
         NEW a \in Articles, ArticleFree(a), article' = [article EXCEPT ![a].state = "inactive"]
  PROVE  CorpusInv'
  <1>1. \A b \in Articles : article'[b] = IF b = a THEN [article[a] EXCEPT !.state = "inactive"]
                                                     ELSE article[b]
    BY DEF RowsOK
  <1>2. article'[a].state = "inactive"
    BY <1>1 DEF RowsOK, ArticleRow
  <1>3. \A q \in Procs : job[q].at = "commit" => job[q].article \in Articles \ {a}
    BY ArticleFacts DEF RowsOK, ArticleFree
  <1>. QED  BY <1>1, <1>2, <1>3, CorpusShrinks DEF CorpusInv, ActiveIsEmbedded, Live, Embeddable

LEMMA CorpusDeactivate ==
  ASSUME RowsOK, CorpusInv, NEW p \in Procs, Deactivate(p)
  PROVE  CorpusInv'
  <1>1. job[p].article \in Articles /\ KeepsCommits
    BY RemovalRows, ArticleFacts DEF Deactivate, RowsOK, Steps, PageSteps
  <1>. QED  BY <1>1, CorpusRemoved DEF Deactivate, site

LEMMA CorpusTerminalFetch ==
  ASSUME RowsOK, CorpusInv, NEW u \in Urls, TerminalFetch(u)
  PROVE  CorpusInv'
  <1>1. source[u].article \in Articles /\ RowsOK' /\ KeepsCommits /\ ArticleFree(source[u].article)
        /\ UNCHANGED <<project, embedding>>
    BY TerminalFetchRows DEF TerminalFetch, Steps, site
  <1>2. \/ article' = article
        \/ article' = [article EXCEPT ![source[u].article].state = "inactive"]
    BY DEF TerminalFetch, rows
  <1>. QED  BY <1>1, <1>2, CorpusRemoved, CorpusKept

LEMMA CorpusReconcile ==
  ASSUME RowsOK, CorpusInv, NEW gone \in SUBSET Urls, ReconcileSitemap(gone)
  PROVE  CorpusInv'
  <1>1. KeepsCommits /\ \A q \in Procs : job[q].at # "commit"
    BY ReconcileRows DEF ReconcileSitemap, ProjectFree, Steps
  <1>2. \A b \in Articles : article'[b] \in {[article[b] EXCEPT !.state = "inactive"], article[b]}
    BY DEF ReconcileSitemap
  <1>3. \A b \in Articles : article'[b].state = "inactive" \/ article'[b] = article[b]
    BY <1>2 DEF RowsOK, ArticleRow
  <1>. QED  BY <1>1, <1>3, CorpusShrinks
            DEF ReconcileSitemap, CorpusInv, ActiveIsEmbedded, Live, Embeddable, site

LEMMA CorpusTransition ==
  ASSUME RowsOK, CorpusInv, Suspend \/ Reactivate
  PROVE  CorpusInv'
  <1>1. VectorOfItsText' /\ ActiveIsEmbedded'
    BY DEF CorpusInv, VectorOfItsText, ActiveIsEmbedded, Live, Embeddable, Embedded,
           Suspend, Reactivate, rows
  <1>2. CommitReady'
    BY DEF CommitReady, Suspend, Reactivate, ProjectFree
  <1>. QED  BY <1>1, <1>2 DEF CorpusInv

LEMMA CorpusMark ==
  ASSUME RowsOK, CorpusInv, NEW p \in Procs, RebuildMark(p)
  PROVE  CorpusInv'
  <1>1. KeepsCommits /\ job[p].batch \in SUBSET Articles /\ UNCHANGED <<project, embedding>>
    BY MarkRows DEF Steps, RowsOK, JobsOK, Job, RebuildMark, site
  <1>2. PICK a \in job[p].batch : StillIndexable(p, a) /\ MarkActive(a)
    BY DEF RebuildMark
  <1>. QED  BY <1>1, <1>2, CorpusGrows DEF StillIndexable

LEMMA CorpusNext == ASSUME RowsOK, CorpusInv, [Next]_vars PROVE CorpusInv'
  <1>1. CASE \E p \in Procs : Starts(p)
    <2>1. PICK p \in Procs : Starts(p)
      BY <1>1
    <2>2. CASE \E u \in Urls, a \in Articles, ready \in BOOLEAN, t \in Texts : Ingest(p, u, a, ready, t)
      BY <2>2, CorpusIngest
    <2>3. CASE \E a \in Articles, ready \in BOOLEAN : Resume(p, a, ready)
      BY <2>3, ResumeRows, CorpusKept DEF Resume, rows, site, Steps
    <2>4. CASE \E a \in Articles : Remove(p, a)
      BY <2>4, RemoveRows, CorpusKept DEF Remove, rows, site, Steps
    <2>. QED  BY <2>1, <2>2, <2>3, <2>4 DEF Starts
  <1>2. CASE \E p \in Procs : Step(p)
    <2>1. PICK p \in Procs : Step(p)
      BY <1>2
    <2>2. CASE CheckEligible(p) \/ EmbedRead(p) \/ PublishRefused(p) \/ Unpoint(p)
               \/ DeactivateFails(p)
      <3>1. UNCHANGED <<project, article, embedding>>
        BY <2>2 DEF CheckEligible, EmbedRead, PublishRefused, Unpoint, DeactivateFails, rows, site
      <3>. QED  BY <2>2, <3>1, CheckRows, EmbedReadRows, RefusedRows, RemovalRows, CorpusKept DEF Steps
    <2>. QED  BY <2>1, <2>2, CorpusEmbedWrite, CorpusPublish, CorpusCommit, CorpusDeactivate DEF Step
  <1>3. CASE \E gone \in SUBSET Urls : ReconcileSitemap(gone)
    BY <1>3, CorpusReconcile
  <1>4. CASE \E u \in Urls : TerminalFetch(u)
    BY <1>4, CorpusTerminalFetch
  <1>5. CASE Upsets
    <2>1. CASE \E p \in Procs : CheckIneligible(p) \/ UpsertFails(p) \/ UnpointFails(p) \/ Crash(p)
      <3>1. UNCHANGED <<project, article, embedding>>
        BY <2>1 DEF CheckIneligible, UpsertFails, UnpointFails, Crash, rows, site
      <3>. QED  BY <2>1, <3>1, CheckRows, RefusedRows, RemovalRows, CrashRows, CorpusKept DEF Steps
    <2>2. CASE \E a \in Articles : LoseRemoval(a) \/ \E ready \in BOOLEAN : GiveUp(a, ready)
      <3>1. UNCHANGED <<project, article, embedding>>
        BY <2>2 DEF LoseRemoval, GiveUp, rows, site
      <3>. QED  BY <2>2, <3>1, LossRows, CorpusKept DEF Steps
    <2>3. CASE ReadForm \/ SaveForm \/ DropForm
      BY <2>3, TransitionRows, CorpusKept DEF ReadForm, SaveForm, DropForm, rows, Steps
    <2>. QED  BY <1>5, <2>1, <2>2, <2>3, CorpusTransition, CorpusProviderFails DEF Upsets
  <1>6. CASE \E p \in Procs : Rebuild(p)
    <2>1. CASE \E p \in Procs : StartRebuild(p) \/ RebuildUpsert(p) \/ RebuildAborts(p)
                                 \/ RebuildScroll(p) \/ RebuildPurge(p)
      <3>1. UNCHANGED <<project, article, embedding>>
        BY <2>1 DEF StartRebuild, RebuildUpsert, RebuildAborts, RebuildScroll, RebuildPurge, rows,
               site
      <3>. QED  BY <2>1, <3>1, StartRebuildRows, UpsertRows, AbortRows, ScrollRows, PurgeRows,
                   CorpusKept DEF Steps
    <2>. QED  BY <1>6, <2>1, CorpusMark DEF Rebuild
  <1>7. CASE UNCHANGED vars
    BY <1>7, RowsStutter, CorpusKept DEF Steps, vars, rows
  <1>. QED  BY <1>1, <1>2, <1>3, <1>4, <1>5, <1>6, <1>7 DEF Next, CrawlNext, SteadyNext

LEMMA CorpusInit == Init => CorpusInv
  BY DEF Init, CorpusInv, VectorOfItsText, ActiveIsEmbedded, CommitReady, Live, NewArticle,
         NewEmbedding, Idle

LEMMA CorpusAlways == Spec => [](RowsOK /\ CorpusInv)
  <1>1. RowsOK /\ CorpusInv /\ [Next]_vars => (RowsOK /\ CorpusInv)'
    BY RowsNext, CorpusNext
  <1>. QED  BY <1>1, RowsInit, CorpusInit, PTL DEF Spec

\* An active article has a succeeded embedding of its present text, though the
\* provider is called outside of any transaction, pages of one article race, and
\* a rebuild marks rows it read long ago (embed_article, _mark_active).
THEOREM ActiveIsEmbeddedHolds == Spec => []ActiveIsEmbedded
  <1>1. CorpusInv => ActiveIsEmbedded
    BY DEF CorpusInv
  <1>. QED  BY <1>1, CorpusAlways, PTL

\* A stored vector is of the text it is stored with (embed_article compares the
\* hash again under the row lock).
THEOREM VectorOfItsTextHolds == Spec => []VectorOfItsText
  <1>1. CorpusInv => VectorOfItsText
    BY DEF CorpusInv
  <1>. QED  BY <1>1, CorpusAlways, PTL

-----------------------------------------------------------------------------
(* The active count.                                                       *)

CountTyped == activeCount \in 0..MaxCount /\ form \in Form

\* What a delta keeps: how far the count is off, unless it is at its bound.
Balanced ==
  /\ activeCount' \in 0..MaxCount
  /\ CountError' = CountError \/ (activeCount = MaxCount /\ activeCount' = MaxCount)

\* The deltas of the handlers, for a step that changes the article a alone.
Counted(a) ==
  \/ Live(a) /\ article'[a].state # "active" /\ CountDown
  \/ ~Live(a) /\ article'[a].state = "active" /\ CountUp
  \/ (Live(a) <=> article'[a].state = "active") /\ CountStays

LEMMA LiveFinite ==
  /\ IsFiniteSet(LiveArticles) /\ Cardinality(LiveArticles) \in Nat
  /\ Cardinality(LiveArticles) <= MaxCount
  <1>1. LiveArticles \in SUBSET Articles
    BY DEF LiveArticles
  <1>. QED  BY <1>1, ArticlesAssumption, BoundsAssumption, FS_Subset, FS_CardinalityType

LEMMA CountOne ==
  ASSUME RowsOK, CountTyped, NEW a \in Articles, Counted(a),
         \A b \in Articles : b # a => article'[b] = article[b]
  PROVE  Balanced
  <1>1. IsFiniteSet(LiveArticles) /\ Cardinality(LiveArticles) \in Nat
    BY LiveFinite
  <1>2. CASE Live(a) /\ article'[a].state # "active" /\ CountDown
    <2>1. LiveArticles' = LiveArticles \ {a} /\ a \in LiveArticles
      BY <1>2 DEF LiveArticles, Live
    <2>2. Cardinality(LiveArticles') = Cardinality(LiveArticles) - 1
      BY <1>1, <2>1, FS_RemoveElement
    <2>. QED  BY <1>1, <1>2, <2>2, BoundsAssumption
              DEF Balanced, CountError, CountTyped, CountDown, CanCountDown
  <1>3. CASE ~Live(a) /\ article'[a].state = "active" /\ CountUp
    <2>1. LiveArticles' = LiveArticles \cup {a} /\ a \notin LiveArticles
      BY <1>3 DEF LiveArticles, Live
    <2>2. Cardinality(LiveArticles') = Cardinality(LiveArticles) + 1
      BY <1>1, <2>1, FS_AddElement
    <2>. QED  BY <1>1, <1>3, <2>2, BoundsAssumption DEF Balanced, CountError, CountTyped, CountUp
  <1>4. CASE (Live(a) <=> article'[a].state = "active") /\ CountStays
    <2>1. LiveArticles' = LiveArticles
      BY <1>4 DEF LiveArticles, Live
    <2>. QED  BY <1>4, <2>1 DEF Balanced, CountError, CountTyped, CountStays
  <1>. QED  BY <1>2, <1>3, <1>4 DEF Counted

LEMMA CountKept == ASSUME CountTyped, UNCHANGED rows PROVE Balanced
  BY DEF Balanced, CountTyped, CountError, LiveArticles, Live, rows

LEMMA CountIngest ==
  ASSUME RowsOK, CountTyped, NEW p \in Procs, NEW u \in Urls, NEW a \in Articles,
         NEW ready \in BOOLEAN, NEW t \in Texts, Ingest(p, u, a, ready, t)
  PROVE  Balanced
  <1>1. article'[a] = Ingested(a, ready, t) /\ \A b \in Articles : b # a => article'[b] = article[b]
    BY DEF Ingest, RowsOK
  <1>2. article'[a].state = "active" => Live(a)
    BY <1>1 DEF Ingested, Live
  <1>3. Counted(a)
    BY <1>2 DEF Counted, Ingest
  <1>. QED  BY <1>1, <1>3, CountOne

LEMMA CountMarkActive ==
  ASSUME RowsOK, CountTyped, NEW a \in Articles, MarkActive(a)
  PROVE  Balanced
  <1>1. article'[a].state = "active" /\ \A b \in Articles : b # a => article'[b] = article[b]
    BY DEF MarkActive, RowsOK, ArticleRow
  <1>. QED  BY <1>1, CountOne DEF Counted, MarkActive

\* deactivate_article and reconcile_terminal_fetch
LEMMA CountRemoved ==
  ASSUME RowsOK, CountTyped, NEW a \in Articles,
         article' = [article EXCEPT ![a].state = "inactive"],
         IF Live(a) THEN CountDown ELSE CountStays
  PROVE  Balanced
  <1>1. article'[a].state = "inactive" /\ \A b \in Articles : b # a => article'[b] = article[b]
    BY DEF RowsOK, ArticleRow
  <1>. QED  BY <1>1, CountOne DEF Counted

\* The finalization takes articles out and leaves the count: it is higher then.
LEMMA CountReconcile ==
  ASSUME RowsOK, CountTyped, NEW gone \in SUBSET Urls, ReconcileSitemap(gone)
  PROVE  CountError' >= CountError /\ UNCHANGED <<activeCount, form>>
  <1>1. \A b \in Articles : article'[b] \in {[article[b] EXCEPT !.state = "inactive"], article[b]}
    BY DEF ReconcileSitemap
  <1>2. LiveArticles' \in SUBSET LiveArticles
    BY <1>1 DEF LiveArticles, Live, RowsOK, ArticleRow
  <1>3. Cardinality(LiveArticles') <= Cardinality(LiveArticles) /\ Cardinality(LiveArticles') \in Nat
        /\ Cardinality(LiveArticles) \in Nat
    BY <1>2, LiveFinite, FS_Subset, FS_CardinalityType
  <1>4. UNCHANGED <<activeCount, form>>
    BY DEF ReconcileSitemap, CountStays, site
  <1>. QED  BY <1>3, <1>4 DEF CountError, CountTyped

Edits == ReadForm \/ SaveForm \/ DropForm

\* Every other step keeps how far the count is off.
LEMMA CountStep ==
  ASSUME RowsOK, CountTyped, [Next]_vars
  PROVE  \/ Balanced /\ UNCHANGED form
         \/ Edits
         \/ \E gone \in SUBSET Urls : ReconcileSitemap(gone)
  <1>1. CASE \E p \in Procs : Starts(p)
    BY <1>1, CountIngest, CountKept DEF Starts, Ingest, Resume, Remove, site
  <1>2. CASE \E p \in Procs : Step(p)
    <2>1. PICK p \in Procs : Step(p)
      BY <1>2
    <2>2. CASE Commit(p)
      BY <2>2, ArticleFacts, CountMarkActive DEF Commit, RowsOK, site
    <2>3. CASE Deactivate(p)
      BY <2>3, ArticleFacts, CountRemoved DEF Deactivate, RowsOK, PageSteps, site
    <2>4. CASE CheckEligible(p) \/ EmbedRead(p) \/ EmbedWrite(p) \/ Publish(p) \/ PublishRefused(p)
               \/ Unpoint(p) \/ DeactivateFails(p)
      BY <2>4, CountKept DEF CheckEligible, EmbedRead, EmbedWrite, Publish, PublishRefused, Unpoint,
         DeactivateFails, site
    <2>. QED  BY <2>1, <2>2, <2>3, <2>4 DEF Step
  <1>3. CASE \E u \in Urls : TerminalFetch(u)
    <2>1. PICK u \in Urls : TerminalFetch(u)
      BY <1>3
    <2>2. \/ UNCHANGED rows
          \/ /\ article' = [article EXCEPT ![source[u].article].state = "inactive"]
             /\ IF Live(source[u].article) THEN CountDown ELSE CountStays
      BY <2>1 DEF TerminalFetch
    <2>3. UNCHANGED form
      BY <2>1 DEF TerminalFetch, site
    <2>. QED  BY <2>1, <2>2, <2>3, TerminalFetchRows, CountKept, CountRemoved
  <1>4. CASE Upsets
    BY <1>4, CountKept DEF Upsets, Edits, Suspend, Reactivate, CheckIneligible, ProviderFails,
       UpsertFails, UnpointFails, Crash, LoseRemoval, GiveUp, site
  <1>5. CASE \E p \in Procs : Rebuild(p)
    <2>1. PICK p \in Procs : Rebuild(p)
      BY <1>5
    <2>2. CASE RebuildMark(p)
      <3>1. job[p].batch \in SUBSET Articles
        BY DEF RowsOK, JobsOK, Job
      <3>2. PICK a \in job[p].batch : MarkActive(a)
        BY <2>2 DEF RebuildMark
      <3>. QED  BY <2>2, <3>1, <3>2, CountMarkActive DEF RebuildMark, site
    <2>3. CASE StartRebuild(p) \/ RebuildUpsert(p) \/ RebuildAborts(p) \/ RebuildScroll(p)
               \/ RebuildPurge(p)
      BY <2>3, CountKept DEF StartRebuild, RebuildUpsert, RebuildAborts, RebuildScroll, RebuildPurge,
         site
    <2>. QED  BY <2>1, <2>2, <2>3 DEF Rebuild
  <1>6. CASE UNCHANGED vars
    BY <1>6, CountKept DEF vars, rows
  <1>. QED  BY <1>1, <1>2, <1>3, <1>4, <1>5, <1>6 DEF Next, CrawlNext, SteadyNext

\* An open form has used up an edit.
CountInv == CountTyped /\ (form.open => form.left < MaxEdits) /\ NeverUndercounts

LEMMA CountEdits ==
  ASSUME RowsOK, CountInv, Edits
  PROVE  CountInv' /\ (CountError' = CountError \/ SaveForm)
  <1>1. MaxCount \in Nat /\ MaxEdits \in Nat /\ activeCount \in 0..MaxCount
        /\ form.count \in 0..MaxCount /\ form.left \in 0..MaxEdits
    BY BoundsAssumption DEF CountInv, CountTyped, Form
  <1>2. CASE ReadForm
    <2>1. form' = [open |-> TRUE, left |-> form.left - 1, count |-> activeCount] /\ UNCHANGED rows
          /\ form.left > 0
      BY <1>2 DEF ReadForm
    <2>2. form' \in Form /\ form'.left < MaxEdits
      BY <1>1, <2>1 DEF Form
    <2>. QED  BY <1>1, <2>1, <2>2 DEF CountInv, CountTyped, NeverUndercounts, CountError, LiveArticles,
              Live, rows
  <1>3. CASE SaveForm
    <2>1. form' = NoForm(form.left) /\ activeCount' = form.count /\ form.open
      BY <1>3 DEF SaveForm
    <2>2. form' \in Form /\ ~form'.open /\ form'.left < MaxEdits
      BY <1>1, <2>1 DEF Form, NoForm, CountInv
    <2>. QED  BY <1>1, <1>3, <2>1, <2>2 DEF CountInv, CountTyped, NeverUndercounts
  <1>4. CASE DropForm
    <2>1. form' = NoForm(form.left) /\ UNCHANGED rows /\ form.open
      BY <1>4 DEF DropForm
    <2>2. form' \in Form /\ ~form'.open /\ form'.left < MaxEdits
      BY <1>1, <2>1 DEF Form, NoForm, CountInv
    <2>. QED  BY <1>1, <2>1, <2>2 DEF CountInv, CountTyped, NeverUndercounts, CountError, LiveArticles,
              Live, rows
  <1>. QED  BY <1>2, <1>3, <1>4 DEF Edits

LEMMA CountNext == ASSUME RowsOK, CountInv, [Next]_vars PROVE CountInv'
  <1>1. MaxCount \in Nat /\ activeCount \in 0..MaxCount /\ Cardinality(LiveArticles) \in Nat
    BY BoundsAssumption, LiveFinite DEF CountInv, CountTyped
  <1>2. Cardinality(LiveArticles)' \in Nat /\ Cardinality(LiveArticles)' <= MaxCount
    <2>1. LiveArticles' \in SUBSET Articles
      BY DEF LiveArticles
    <2>. QED  BY <2>1, ArticlesAssumption, BoundsAssumption, FS_Subset, FS_CardinalityType
  <1>3. CASE Balanced /\ UNCHANGED form
    BY <1>1, <1>2, <1>3 DEF CountInv, CountTyped, NeverUndercounts, Balanced, CountError
  <1>4. CASE Edits
    BY <1>4, CountEdits
  <1>5. CASE \E gone \in SUBSET Urls : ReconcileSitemap(gone)
    <2>1. CountError' >= CountError /\ UNCHANGED <<activeCount, form>>
      BY <1>5, CountReconcile DEF CountInv
    <2>. QED  BY <1>1, <1>2, <2>1 DEF CountInv, CountTyped, NeverUndercounts, CountError
  <1>. QED  BY <1>3, <1>4, <1>5, CountStep DEF CountInv

LEMMA CountInit == Init => CountInv
  <1>1. Init => LiveArticles = {} /\ activeCount = 0 /\ form = NoForm(MaxEdits)
    BY DEF Init, LiveArticles, Live, NewArticle
  <1>2. Init => Cardinality(LiveArticles) = 0 /\ activeCount = 0
    BY <1>1, FS_EmptySet
  <1>3. NoForm(MaxEdits) \in Form /\ ~NoForm(MaxEdits).open
    BY BoundsAssumption DEF Form, NoForm
  <1>. QED  BY <1>1, <1>2, <1>3, BoundsAssumption DEF CountInv, CountTyped, NeverUndercounts

LEMMA CountAlways == Spec => [](RowsOK /\ CountInv)
  <1>1. RowsOK /\ CountInv /\ [Next]_vars => (RowsOK /\ CountInv)'
    BY RowsNext, CountNext
  <1>. QED  BY <1>1, RowsInit, CountInit, PTL DEF Spec

\* Project.active_article_count is updated by the deltas of ingestion,
\* publication, rebuild, removal and terminal fetches, and written back whole by
\* finalizations and edits.  Only the last two change how far it is off, and a
\* finalization only makes it too high.
THEOREM CountErrorIsKeptHolds == Spec => CountErrorIsKept
  <1>1. RowsOK /\ CountInv /\ [Next]_vars =>
          [ \/ CountError' = CountError \/ SaveForm \/ activeCount = MaxCount
            \/ (\E gone \in SUBSET Urls : ReconcileSitemap(gone)) /\ CountError' > CountError ]_vars
    <2>. SUFFICES ASSUME RowsOK, CountInv, [Next]_vars
                  PROVE  \/ CountError' = CountError \/ SaveForm \/ activeCount = MaxCount
                         \/ (\E gone \in SUBSET Urls : ReconcileSitemap(gone)) /\ CountError' > CountError
      OBVIOUS
    <2>1. CASE Balanced
      BY <2>1 DEF Balanced
    <2>2. CASE Edits
      BY <2>2, CountEdits
    <2>3. CASE \E gone \in SUBSET Urls : ReconcileSitemap(gone)
      <3>1. CountError' >= CountError /\ activeCount' = activeCount
        BY <2>3, CountReconcile DEF CountInv
      <3>2. CountError \in Int /\ CountError' \in Int
        <4>1. LiveArticles \in SUBSET Articles /\ LiveArticles' \in SUBSET Articles
          BY DEF LiveArticles
        <4>2. Cardinality(LiveArticles) \in Nat /\ Cardinality(LiveArticles') \in Nat
          BY <4>1, ArticlesAssumption, FS_Subset, FS_CardinalityType
        <4>. QED  BY <3>1, <4>2, BoundsAssumption DEF CountError, CountInv, CountTyped
      <3>. QED  BY <2>3, <3>1, <3>2
    <2>. QED  BY <2>1, <2>2, <2>3, CountStep DEF CountInv
  <1>. QED  BY <1>1, CountAlways, PTL DEF Spec, CountErrorIsKept

\* Until the owner edits the site, the count covers the active articles: no
\* transaction that takes one out fails on the check of its column.
THEOREM NeverUndercountsHolds == Spec => []NeverUndercounts
  <1>1. CountInv => NeverUndercounts
    BY DEF CountInv
  <1>. QED  BY <1>1, CountAlways, PTL

\* Every row and job keeps its type; in particular the active count is never
\* negative, in spite of the whole rows that finalizations and edits write back.
THEOREM IndexTypeCorrect == Spec => []TypeOK
  <1>1. RowsOK /\ CountInv => TypeOK
    BY DEF RowsOK, JobsOK, TypeOK, CountInv, CountTyped
  <1>. QED  BY <1>1, CountAlways, PTL

-----------------------------------------------------------------------------
(* Points while no operator runs the rebuild.  A publication writes the    *)
(* point before the article is active, so the invariant also speaks of the *)
(* points of the articles that are being published.                        *)

CurrentOrGone(a) == point[a] \in {article[a].text, NoText}
PointInv ==
  /\ \A a \in Articles : Live(a) => CurrentOrGone(a)
  /\ \A p \in Procs : job[p].at = "commit" => CurrentOrGone(job[p].article)

LEMMA PointInit == Init => PointInv
  BY DEF Init, PointInv, Live, NewArticle, Idle

LEMMA IndexableVector ==
  ASSUME CorpusInv, NEW a \in Articles, Indexable(a)
  PROVE  embedding[a].vector = article[a].text
  BY DEF CorpusInv, VectorOfItsText, Indexable, Embedded

\* No article becomes active, active and locked ones keep their text, and
\* points are deleted or written with the present text.
LEMMA PointsKept ==
  ASSUME RowsOK, PointInv, KeepsCommits,
         \A b \in Articles : article'[b].state = "active" => Live(b) /\ article'[b].text = article[b].text,
         \A p \in Procs : job[p].at = "commit" => article'[job[p].article].text = article[job[p].article].text,
         \A b \in Articles : point'[b] \in {point[b], article[b].text, NoText}
  PROVE  PointInv'
  <1>1. \A p \in Procs : job[p].at = "commit" => job[p].article \in Articles
    BY ArticleFacts DEF RowsOK
  <1>2. \A a \in Articles : Live(a)' => CurrentOrGone(a)'
    BY DEF PointInv, CurrentOrGone, Live
  <1>3. \A p \in Procs : job'[p].at = "commit" => CurrentOrGone(job[p].article)'
    BY <1>1 DEF PointInv, CurrentOrGone, KeepsCommits
  <1>. QED  BY <1>2, <1>3 DEF PointInv, KeepsCommits

LEMMA PointsSameArticles ==
  ASSUME RowsOK, PointInv, KeepsCommits, UNCHANGED article,
         \A b \in Articles : point'[b] \in {point[b], article[b].text, NoText}
  PROVE  PointInv'
  BY PointsKept DEF Live

\* The publication: the upsert and, at the commit, the state.
LEMMA PointsPublish ==
  ASSUME RowsOK, CorpusInv, PointInv, NEW p \in Procs, Publish(p)
  PROVE  PointInv'
  <1>. DEFINE a == job[p].article
  <1>1. a \in Articles /\ article' = article /\ Indexable(a)
        /\ point' = [point EXCEPT ![a] = embedding[a].vector]
    BY PublishRows DEF Publish, rows
  <1>2. point'[a] = article[a].text /\ \A b \in Articles : b # a => point'[b] = point[b]
    BY <1>1, IndexableVector DEF RowsOK
  <1>3. \A q \in Procs : /\ job'[q].article = job[q].article
                         /\ job'[q].at = "commit" => q = p \/ job[q].at = "commit"
    BY PublishRows DEF RowsOK, JobsOK, Job
  <1>4. \A q \in Procs : job[q].at = "commit" => job[q].article \in Articles
    BY ArticleFacts DEF RowsOK
  <1>5. \A b \in Articles : Live(b)' => CurrentOrGone(b)'
    BY <1>1, <1>2 DEF PointInv, CurrentOrGone, Live
  <1>6. \A q \in Procs : job'[q].at = "commit" => CurrentOrGone(job[q].article)'
    BY <1>1, <1>2, <1>3, <1>4 DEF PointInv, CurrentOrGone
  <1>. QED  BY <1>3, <1>5, <1>6 DEF PointInv

LEMMA PointsCommit ==
  ASSUME RowsOK, PointInv, NEW p \in Procs, Commit(p)
  PROVE  PointInv'
  <1>. DEFINE a == job[p].article
  <1>1. a \in Articles /\ job[p].at = "commit" /\ KeepsCommits /\ point' = point
        /\ article' = [article EXCEPT ![a].state = "active"]
    BY CommitRows, ArticleFacts DEF Commit, MarkActive, RowsOK, Steps
  <1>2. \A b \in Articles : /\ article'[b].text = article[b].text
                            /\ article'[b].state = "active" => Live(b) \/ b = a
    BY <1>1 DEF RowsOK, ArticleRow, Live
  <1>3. \A q \in Procs : job[q].at = "commit" => job[q].article \in Articles
    BY ArticleFacts DEF RowsOK
  <1>4. \A b \in Articles : Live(b)' => CurrentOrGone(b)'
    BY <1>1, <1>2 DEF PointInv, CurrentOrGone, Live
  <1>5. \A q \in Procs : job'[q].at = "commit" => CurrentOrGone(job[q].article)'
    BY <1>1, <1>2, <1>3 DEF PointInv, CurrentOrGone, KeepsCommits
  <1>. QED  BY <1>1, <1>4, <1>5 DEF PointInv, KeepsCommits

LEMMA PointsIngest ==
  ASSUME RowsOK, PointInv, NEW p \in Procs, NEW u \in Urls, NEW a \in Articles,
         NEW ready \in BOOLEAN, NEW t \in Texts, Ingest(p, u, a, ready, t)
  PROVE  PointInv'
  <1>1. KeepsCommits /\ point' = point /\ \A q \in Procs : job[q].at # "commit"
    BY IngestRows DEF Steps, Ingest, ProjectFree
  <1>2. article'[a] = Ingested(a, ready, t) /\ \A b \in Articles : b # a => article'[b] = article[b]
    BY DEF Ingest, RowsOK
  <1>3. \A b \in Articles : article'[b].state = "active" => Live(b) /\ article'[b].text = article[b].text
    BY <1>2 DEF Ingested, Live
  <1>. QED  BY <1>1, <1>3, PointsKept

\* Removals from the corpus, in whichever transaction.
LEMMA PointsRemoved ==
  ASSUME RowsOK, PointInv, KeepsCommits, UNCHANGED point,
         \A b \in Articles : article'[b] \in {article[b], [article[b] EXCEPT !.state = "inactive"]}
  PROVE  PointInv'
  <1>1. \A b \in Articles : article'[b].text = article[b].text /\ (article'[b].state = "active" => Live(b))
    BY DEF RowsOK, ArticleRow, Live
  <1>2. \A p \in Procs : job[p].at = "commit" => job[p].article \in Articles
    BY ArticleFacts DEF RowsOK
  <1>. QED  BY <1>1, <1>2, PointsKept

LEMMA PointsDeactivate ==
  ASSUME RowsOK, PointInv, NEW p \in Procs, Deactivate(p)
  PROVE  PointInv'
  BY RemovalRows, PointsRemoved DEF Deactivate, RowsOK, Steps

LEMMA PointsTerminalFetch ==
  ASSUME RowsOK, PointInv, NEW u \in Urls, TerminalFetch(u)
  PROVE  PointInv'
  <1>1. KeepsCommits /\ point' = point
    BY TerminalFetchRows DEF TerminalFetch, Steps
  <1>2. \/ article' = article
        \/ article' = [article EXCEPT ![source[u].article].state = "inactive"]
    BY DEF TerminalFetch, rows
  <1>3. \A b \in Articles : article'[b] \in {article[b], [article[b] EXCEPT !.state = "inactive"]}
    BY <1>2 DEF RowsOK
  <1>. QED  BY <1>1, <1>3, PointsRemoved

LEMMA PointsReconcile ==
  ASSUME RowsOK, PointInv, NEW gone \in SUBSET Urls, ReconcileSitemap(gone)
  PROVE  PointInv'
  <1>1. \A b \in Articles : article'[b] \in {[article[b] EXCEPT !.state = "inactive"], article[b]}
    BY DEF ReconcileSitemap
  <1>. QED  BY <1>1, ReconcileRows, PointsRemoved DEF ReconcileSitemap, Steps

LEMMA PointsUpsertFails ==
  ASSUME RowsOK, CorpusInv, PointInv, NEW p \in Procs, UpsertFails(p)
  PROVE  PointInv'
  <1>. DEFINE a == job[p].article
  <1>1. a \in Articles /\ article' = article /\ Indexable(a) /\ KeepsCommits
        /\ point' \in {point, [point EXCEPT ![a] = embedding[a].vector]}
    BY RefusedRows, ArticleFacts DEF UpsertFails, RowsOK, Steps, PageSteps, rows
  <1>2. \A b \in Articles : point'[b] \in {point[b], article[b].text}
    BY <1>1, IndexableVector DEF RowsOK
  <1>. QED  BY <1>1, <1>2, PointsSameArticles

LEMMA PointsUnpoint ==
  ASSUME RowsOK, PointInv, NEW p \in Procs, Unpoint(p) \/ UnpointFails(p)
  PROVE  PointInv'
  <1>1. article' = article /\ KeepsCommits
        /\ point' \in {point, [point EXCEPT ![job[p].article] = NoText]}
    BY RemovalRows DEF Unpoint, UnpointFails, Steps, rows
  <1>2. \A b \in Articles : point'[b] \in {point[b], NoText}
    BY <1>1 DEF RowsOK
  <1>. QED  BY <1>1, <1>2, PointsSameArticles

LEMMA PointsElsewhere == ASSUME RowsOK, PointInv, KeepsCommits, UNCHANGED <<article, point>>
                         PROVE  PointInv'
  BY PointsSameArticles

LEMMA PointNext == ASSUME RowsOK, CorpusInv, PointInv, [CrawlNext]_vars PROVE PointInv'
  <1>1. CASE \E p \in Procs : Starts(p)
    BY <1>1, PointsIngest, ResumeRows, RemoveRows, PointsElsewhere
    DEF Starts, Resume, Remove, rows, Steps
  <1>2. CASE \E p \in Procs : Step(p)
    <2>1. PICK p \in Procs : Step(p)
      BY <1>2
    <2>2. CASE CheckEligible(p) \/ EmbedRead(p) \/ EmbedWrite(p) \/ PublishRefused(p)
               \/ DeactivateFails(p)
      <3>1. UNCHANGED <<article, point>>
        BY <2>2 DEF CheckEligible, EmbedRead, EmbedWrite, PublishRefused, DeactivateFails, rows
      <3>. QED  BY <2>2, <3>1, CheckRows, EmbedReadRows, EmbedWriteRows, RefusedRows, RemovalRows,
                   PointsElsewhere DEF Steps
    <2>. QED  BY <2>1, <2>2, PointsPublish, PointsCommit, PointsUnpoint, PointsDeactivate DEF Step
  <1>3. CASE \E gone \in SUBSET Urls : ReconcileSitemap(gone)
    BY <1>3, PointsReconcile
  <1>4. CASE \E u \in Urls : TerminalFetch(u)
    BY <1>4, PointsTerminalFetch
  <1>5. CASE Upsets
    <2>1. CASE \E p \in Procs : CheckIneligible(p) \/ ProviderFails(p) \/ Crash(p)
      <3>1. UNCHANGED <<article, point>>
        BY <2>1 DEF CheckIneligible, ProviderFails, Crash, rows
      <3>. QED  BY <2>1, <3>1, CheckRows, ProviderFailsRows, CrashRows, PointsElsewhere DEF Steps
    <2>2. CASE \E a \in Articles : LoseRemoval(a) \/ \E ready \in BOOLEAN : GiveUp(a, ready)
      <3>1. UNCHANGED <<article, point>>
        BY <2>2 DEF LoseRemoval, GiveUp, rows
      <3>. QED  BY <2>2, <3>1, LossRows, PointsElsewhere DEF Steps
    <2>3. CASE Suspend \/ Reactivate \/ ReadForm \/ SaveForm \/ DropForm
      BY <2>3, TransitionRows, PointsElsewhere
      DEF Suspend, Reactivate, ReadForm, SaveForm, DropForm, rows, Steps
    <2>. QED  BY <1>5, <2>1, <2>2, <2>3, PointsUpsertFails, PointsUnpoint DEF Upsets
  <1>6. CASE UNCHANGED vars
    BY <1>6, RowsStutter, PointsElsewhere DEF Steps, vars, rows
  <1>. QED  BY <1>1, <1>2, <1>3, <1>4, <1>5, <1>6 DEF CrawlNext, SteadyNext

LEMMA PointAlways == CrawlSpec => [](RowsOK /\ CorpusInv /\ PointInv)
  <1>1. [CrawlNext]_vars => [Next]_vars
    BY DEF Next
  <1>2. RowsOK /\ CorpusInv /\ PointInv /\ [CrawlNext]_vars => (RowsOK /\ CorpusInv /\ PointInv)'
    BY <1>1, RowsNext, CorpusNext, PointNext
  <1>. QED  BY <1>2, RowsInit, CorpusInit, PointInit, PTL DEF CrawlSpec

LEMMA Current == PointInv => PointIsCurrent
  BY DEF PointInv, CurrentOrGone, PointIsCurrent, Searchable

\* While no rebuild runs, search never ranks an article by the vector of an
\* earlier text: _index_ready_article writes the point under the row locks, and
\* ingestion takes an edited article out of the corpus in the same transaction.
THEOREM PointIsCurrentHolds == CrawlSpec => []PointIsCurrent
  BY PointAlways, Current, PTL

-----------------------------------------------------------------------------
(* The crawl implements SearchCorpus.                                      *)

TextsKept == \A b \in Articles : article'[b].text = article[b].text

\* Only ingestion gives an article a text.
LEMMA TextsChange ==
  ASSUME RowsOK, [CrawlNext]_vars
  PROVE  \/ TextsKept
         \/ \E p \in Procs, u \in Urls, a \in Articles, ready \in BOOLEAN, t \in Texts :
               Ingest(p, u, a, ready, t)
  <1>1. ASSUME NEW a \in Articles, article' = [article EXCEPT ![a].state = "active"]
                                   \/ article' = [article EXCEPT ![a].state = "inactive"]
        PROVE  TextsKept
    BY <1>1 DEF TextsKept, RowsOK, ArticleRow
  <1>2. UNCHANGED article => TextsKept
    BY DEF TextsKept
  <1>3. CASE \E p \in Procs : Starts(p)
    BY <1>2, <1>3 DEF Starts, Resume, Remove, rows
  <1>4. CASE \E p \in Procs : Step(p)
    <2>1. PICK p \in Procs : Step(p)
      BY <1>4
    <2>2. CASE Commit(p) \/ Deactivate(p)
      <3>1. job[p].article \in Articles
        BY <2>2, ArticleFacts DEF Commit, Deactivate, RowsOK, PageSteps
      <3>. QED  BY <1>1, <2>2, <3>1 DEF Commit, Deactivate, MarkActive
    <2>3. CASE ~(Commit(p) \/ Deactivate(p))
      BY <1>2, <2>1, <2>3 DEF Step, CheckEligible, EmbedRead, EmbedWrite, Publish, PublishRefused,
         Unpoint, DeactivateFails, rows
    <2>. QED  BY <2>2, <2>3
  <1>5. CASE \E gone \in SUBSET Urls : ReconcileSitemap(gone)
    <2>1. \A b \in Articles : article'[b] \in {[article[b] EXCEPT !.state = "inactive"], article[b]}
      BY <1>5 DEF ReconcileSitemap
    <2>. QED  BY <2>1 DEF TextsKept, RowsOK, ArticleRow
  <1>6. CASE \E u \in Urls : TerminalFetch(u)
    <2>1. PICK u \in Urls : TerminalFetch(u)
      BY <1>6
    <2>2. UNCHANGED article \/ article' = [article EXCEPT ![source[u].article].state = "inactive"]
      BY <2>1 DEF TerminalFetch, rows
    <2>. QED  BY <1>1, <1>2, <2>1, <2>2, TerminalFetchRows
  <1>7. CASE Upsets
    BY <1>2, <1>7 DEF Upsets, Suspend, Reactivate, ReadForm, SaveForm, DropForm, CheckIneligible,
       ProviderFails, UpsertFails, UnpointFails, Crash, LoseRemoval, GiveUp, rows
  <1>8. CASE UNCHANGED vars
    BY <1>2, <1>8 DEF vars, rows
  <1>. QED  BY <1>3, <1>4, <1>5, <1>6, <1>7, <1>8 DEF CrawlNext, SteadyNext

\* The substitution of SearchPromise.
Text == [a \in Articles |-> article[a].text]
Found == [a \in Articles |-> IF Searchable(a) THEN point[a] ELSE NoText]

\* Steps that change no text show or hide articles.
LEMMA RevealStep ==
  ASSUME RowsOK, RowsOK', PointIsCurrent', TextsKept
  PROVE  SearchPromise!Reveal
  <1>1. Text' = Text
    BY DEF Text, TextsKept
  <1>2. /\ Found' \in [Articles -> Texts \cup {NoText}]
        /\ \A a \in Articles : Found'[a] \in {Text'[a], NoText}
    BY DEF Found, Text, RowsOK, PointIsCurrent
  <1>. QED  BY <1>1, <1>2 DEF SearchPromise!Reveal, Text, Found

\* Ingestion of a changed page is the abstract edit: the article leaves the
\* results in the transaction that changes its text.
LEMMA EditStep ==
  ASSUME RowsOK, NEW p \in Procs, NEW u \in Urls, NEW a \in Articles, NEW ready \in BOOLEAN,
         NEW t \in Texts, Ingest(p, u, a, ready, t), ~TextsKept
  PROVE  SearchPromise!Edit(a)
  <1>1. article'[a] = Ingested(a, ready, t) /\ \A b \in Articles : b # a => article'[b] = article[b]
    BY DEF Ingest, RowsOK
  <1>2. ready /\ t # article[a].text /\ article'[a].text = t /\ article'[a].state = "discovered"
    BY <1>1 DEF TextsKept, Ingested
  <1>3. Text' = [Text EXCEPT ![a] = t] /\ Text'[a] # Text[a]
    BY <1>1, <1>2 DEF Text
  <1>4. \A b \in Articles : b # a => Found'[b] = Found[b]
    BY <1>1 DEF Found, Searchable, Live, Indexable, Embeddable, Embedded, Ingest, site
  <1>5. Found' = [Found EXCEPT ![a] = NoText]
    <2>1. Found'[a] = NoText
      BY <1>2 DEF Found, Searchable, Live
    <2>. QED  BY <1>4, <2>1 DEF Found
  <1>. QED  BY <1>3, <1>5 DEF SearchPromise!Edit, Text, Found

LEMMA ImplementsInit == Init => SearchPromise!CorpusInit
  BY DEF Init, SearchPromise!CorpusInit, Searchable, Live, NewArticle

LEMMA ImplementsStep ==
  ASSUME RowsOK, RowsOK', PointIsCurrent', [CrawlNext]_vars
  PROVE  SearchPromise!CorpusNext
  <1>1. CASE TextsKept
    BY <1>1, RevealStep DEF SearchPromise!CorpusNext
  <1>2. CASE ~TextsKept
    BY <1>2, TextsChange, EditStep DEF SearchPromise!CorpusNext
  <1>. QED  BY <1>1, <1>2

\* While no rebuild runs, PostgreSQL and Qdrant together keep the promise of
\* SearchCorpus: every step shows or hides articles under their present text, or
\* edits one text and hides that article with it.
THEOREM CorpusImplementedHolds == CrawlSpec => CorpusImplemented
  <1>1. RowsOK /\ RowsOK' /\ PointIsCurrent' /\ [CrawlNext]_vars
          => [SearchPromise!CorpusNext]_(SearchPromise!corpusVars)
    BY ImplementsStep
  <1>. QED  BY <1>1, ImplementsInit, PointAlways, Current, PTL
            DEF CorpusImplemented, CrawlSpec, SearchPromise!CorpusSpec

-----------------------------------------------------------------------------
(* The points of active articles while nothing fails.  The publication is  *)
(* again covered from its upsert on: a removal may delete the point before *)
(* the commit, but cannot deactivate the article until the locks are gone. *)

Pointed(a) == point[a] # NoText \/ Removing(a)
ReadyHasText == \A a \in Articles : article[a].ready => article[a].text # NoText
SteadyInv ==
  /\ ReadyHasText
  /\ ActiveIsIndexed
  /\ \A p \in Procs : job[p].at = "commit" => Pointed(job[p].article)

KeepsRemoving == \A a \in Articles : Removing(a) => Removing(a)'

LEMMA RemovingKept ==
  ASSUME RowsOK, NEW p \in Procs, NEW j, job' = [job EXCEPT ![p] = j], job[p].at # "deactivate"
  PROVE  KeepsRemoving
  BY DEF RowsOK, JobsOK, KeepsRemoving, Removing

LEMMA RemovingMoved ==
  ASSUME RowsOK, NEW p \in Procs, job[p].at # "deactivate",
         \/ Stop(p) \/ Retry(p)
         \/ \E at : Goto(p, at)
         \/ \E task, at, a, ready : Start(p, task, at, a, ready)
  PROVE  KeepsRemoving
  <1>1. \E j : job' = [job EXCEPT ![p] = j]
    <2>1. ASSUME NEW at, Goto(p, at) PROVE \E j : job' = [job EXCEPT ![p] = j]
      <3>1. job' = [job EXCEPT ![p] = [job[p] EXCEPT !.at = at]]
        BY <2>1 DEF Goto, RowsOK, JobsOK
      <3>. QED  BY <3>1
    <2>. QED  BY <2>1 DEF Stop, Retry, Start
  <1>. QED  BY <1>1, RemovingKept

\* Steps that publish and remove nothing.
LEMMA SteadyKept ==
  ASSUME RowsOK, SteadyInv, KeepsCommits, KeepsRemoving, UNCHANGED point,
         \A b \in Articles : /\ article'[b].ready => article'[b].text # NoText
                             /\ article'[b].state = "active" => Live(b)
  PROVE  SteadyInv'
  <1>1. \A p \in Procs : job[p].at = "commit" => job[p].article \in Articles
    BY ArticleFacts DEF RowsOK
  <1>2. \A b \in Articles : Pointed(b) => Pointed(b)'
    BY DEF Pointed, KeepsRemoving
  <1>3. ActiveIsIndexed'
    BY <1>2 DEF SteadyInv, ActiveIsIndexed, Pointed, Live
  <1>4. \A p \in Procs : job'[p].at = "commit" => Pointed(job[p].article)'
    BY <1>1, <1>2 DEF SteadyInv, KeepsCommits
  <1>. QED  BY <1>3, <1>4 DEF SteadyInv, ReadyHasText

LEMMA SteadyElsewhere ==
  ASSUME RowsOK, SteadyInv, KeepsCommits, KeepsRemoving, UNCHANGED <<article, point>>
  PROVE  SteadyInv'
  BY SteadyKept DEF SteadyInv, ReadyHasText, Live

LEMMA SteadyIngest ==
  ASSUME RowsOK, SteadyInv, NEW p \in Procs, NEW u \in Urls, NEW a \in Articles,
         NEW ready \in BOOLEAN, NEW t \in Texts, Ingest(p, u, a, ready, t)
  PROVE  SteadyInv'
  <1>1. KeepsCommits /\ UNCHANGED point
    BY IngestRows DEF Steps, Ingest
  <1>2. KeepsRemoving
    BY RemovingMoved DEF Ingest, IsIdle
  <1>3. article'[a] = Ingested(a, ready, t) /\ \A b \in Articles : b # a => article'[b] = article[b]
    BY DEF Ingest, RowsOK
  <1>4. /\ Ingested(a, ready, t).ready => Ingested(a, ready, t).text # NoText
        /\ Ingested(a, ready, t).state = "active" => Live(a)
    BY TextsAssumption DEF Ingested, Live
  <1>5. \A b \in Articles : /\ article'[b].ready => article'[b].text # NoText
                            /\ article'[b].state = "active" => Live(b)
    BY <1>3, <1>4 DEF SteadyInv, ReadyHasText, Live
  <1>. QED  BY <1>1, <1>2, <1>5, SteadyKept

\* Articles taken out without their points: the queued removal deletes those.
LEMMA SteadyRemoved ==
  ASSUME RowsOK, SteadyInv, KeepsCommits, UNCHANGED <<point, job>>,
         \A b \in Articles : article'[b] \in {article[b], [article[b] EXCEPT !.state = "inactive"]}
  PROVE  SteadyInv'
  <1>1. \A b \in Articles : /\ article'[b].text = article[b].text /\ article'[b].ready = article[b].ready
                            /\ article'[b].state = "active" => Live(b)
    BY DEF RowsOK, ArticleRow, Live
  <1>2. KeepsRemoving
    BY DEF KeepsRemoving, Removing
  <1>. QED  BY <1>1, <1>2, SteadyKept DEF SteadyInv, ReadyHasText

LEMMA SteadyReconcile ==
  ASSUME RowsOK, SteadyInv, NEW gone \in SUBSET Urls, ReconcileSitemap(gone)
  PROVE  SteadyInv'
  <1>1. \A b \in Articles : article'[b] \in {[article[b] EXCEPT !.state = "inactive"], article[b]}
    BY DEF ReconcileSitemap
  <1>. QED  BY <1>1, ReconcileRows, SteadyRemoved DEF ReconcileSitemap, Steps

LEMMA SteadyTerminalFetch ==
  ASSUME RowsOK, SteadyInv, NEW u \in Urls, TerminalFetch(u)
  PROVE  SteadyInv'
  <1>1. KeepsCommits /\ UNCHANGED <<point, job>>
    BY TerminalFetchRows DEF TerminalFetch, Steps
  <1>2. \/ article' = article
        \/ article' = [article EXCEPT ![source[u].article].state = "inactive"]
    BY DEF TerminalFetch, rows
  <1>3. \A b \in Articles : article'[b] \in {article[b], [article[b] EXCEPT !.state = "inactive"]}
    BY <1>2 DEF RowsOK
  <1>. QED  BY <1>1, <1>3, SteadyRemoved

\* The upsert: the vector of an indexable article is that of a text.
LEMMA SteadyPublish ==
  ASSUME RowsOK, CorpusInv, SteadyInv, NEW p \in Procs, Publish(p)
  PROVE  SteadyInv'
  <1>. DEFINE a == job[p].article
  <1>1. a \in Articles /\ article' = article /\ Indexable(a)
        /\ point' = [point EXCEPT ![a] = embedding[a].vector]
    BY PublishRows DEF Publish, rows
  <1>2. point'[a] # NoText /\ \A b \in Articles : b # a => point'[b] = point[b]
    BY <1>1, IndexableVector DEF RowsOK, SteadyInv, ReadyHasText, Indexable, Embeddable
  <1>3. \A q \in Procs : /\ job'[q].article = job[q].article
                         /\ job'[q].at = "commit" => q = p \/ job[q].at = "commit"
    BY PublishRows DEF RowsOK, JobsOK, Job
  <1>4. KeepsRemoving
    BY RemovingMoved DEF Publish
  <1>5. \A b \in Articles : Pointed(b) => Pointed(b)'
    BY <1>2, <1>4 DEF Pointed, KeepsRemoving
  <1>6. ActiveIsIndexed'
    BY <1>1, <1>5 DEF SteadyInv, ActiveIsIndexed, Pointed, Live
  <1>7. \A q \in Procs : job[q].at = "commit" => job[q].article \in Articles
    BY ArticleFacts DEF RowsOK
  <1>8. Pointed(a)'
    BY <1>2, <1>3 DEF Pointed
  <1>9. \A q \in Procs : job'[q].at = "commit" => Pointed(job[q].article)'
    BY <1>3, <1>5, <1>7, <1>8 DEF SteadyInv
  <1>. QED  BY <1>1, <1>6, <1>9 DEF SteadyInv, ReadyHasText

LEMMA SteadyCommit ==
  ASSUME RowsOK, SteadyInv, NEW p \in Procs, Commit(p)
  PROVE  SteadyInv'
  <1>. DEFINE a == job[p].article
  <1>1. a \in Articles /\ job[p].at = "commit" /\ KeepsCommits /\ point' = point
        /\ article' = [article EXCEPT ![a].state = "active"]
    BY CommitRows, ArticleFacts DEF Commit, MarkActive, RowsOK, Steps
  <1>2. \A b \in Articles : /\ article'[b].text = article[b].text /\ article'[b].ready = article[b].ready
                            /\ article'[b].state = "active" => Live(b) \/ b = a
    BY <1>1 DEF RowsOK, ArticleRow, Live
  <1>3. KeepsRemoving
    BY <1>1, RemovingMoved DEF Commit
  <1>4. \A b \in Articles : Pointed(b) => Pointed(b)'
    BY <1>1, <1>3 DEF Pointed, KeepsRemoving
  <1>5. ActiveIsIndexed'
    BY <1>1, <1>2, <1>4 DEF SteadyInv, ActiveIsIndexed, Pointed, Live
  <1>6. \A q \in Procs : job'[q].at = "commit" => Pointed(job[q].article)'
    <2>1. \A q \in Procs : job[q].at = "commit" => job[q].article \in Articles
      BY ArticleFacts DEF RowsOK
    <2>. QED  BY <1>1, <1>4, <2>1 DEF SteadyInv, KeepsCommits
  <1>. QED  BY <1>2, <1>5, <1>6 DEF SteadyInv, ReadyHasText

\* The deletion of a point is the removal's first half ...
LEMMA SteadyUnpoint ==
  ASSUME RowsOK, SteadyInv, NEW p \in Procs, Unpoint(p)
  PROVE  SteadyInv'
  <1>. DEFINE a == job[p].article
  <1>1. a \in Articles /\ job[p].at = "unpoint" /\ KeepsCommits /\ article' = article
        /\ point' = [point EXCEPT ![a] = NoText]
        /\ job' = [job EXCEPT ![p] = [job[p] EXCEPT !.at = "deactivate"]]
    BY RemovalRows, ArticleFacts DEF Unpoint, Goto, RowsOK, Steps, PageSteps, rows
  <1>2. job'[p].at = "deactivate" /\ job'[p].article = a
    BY <1>1 DEF RowsOK, JobsOK, Job
  <1>3. KeepsRemoving /\ Removing(a)'
    BY <1>1, <1>2, RemovingKept DEF Removing
  <1>4. \A b \in Articles : Pointed(b) => Pointed(b)'
    BY <1>1, <1>3 DEF Pointed, KeepsRemoving, RowsOK
  <1>5. ActiveIsIndexed'
    BY <1>1, <1>4 DEF SteadyInv, ActiveIsIndexed, Pointed, Live
  <1>6. \A q \in Procs : job'[q].at = "commit" => Pointed(job[q].article)'
    <2>1. \A q \in Procs : job[q].at = "commit" => job[q].article \in Articles
      BY ArticleFacts DEF RowsOK
    <2>. QED  BY <1>1, <1>4, <2>1 DEF SteadyInv, KeepsCommits
  <1>. QED  BY <1>1, <1>5, <1>6 DEF SteadyInv, ReadyHasText

\* ... and the state its second, of an article that no publication holds.
LEMMA SteadyDeactivate ==
  ASSUME RowsOK, SteadyInv, NEW p \in Procs, Deactivate(p)
  PROVE  SteadyInv'
  <1>. DEFINE a == job[p].article
  <1>1. a \in Articles /\ job[p].at = "deactivate" /\ KeepsCommits /\ point' = point
        /\ article' = [article EXCEPT ![a].state = "inactive"] /\ Stop(p) /\ ArticleFree(a)
    BY RemovalRows, ArticleFacts DEF Deactivate, RowsOK, Steps, PageSteps
  <1>2. \A b \in Articles : /\ article'[b].text = article[b].text /\ article'[b].ready = article[b].ready
                            /\ article'[b].state = "active" => Live(b) /\ b # a
    BY <1>1 DEF RowsOK, ArticleRow, Live
  <1>3. \A b \in Articles \ {a} : Pointed(b) => Pointed(b)'
    BY <1>1 DEF Pointed, Removing, Stop, RowsOK, JobsOK
  <1>4. ActiveIsIndexed'
    BY <1>2, <1>3 DEF SteadyInv, ActiveIsIndexed, Pointed, Live
  <1>5. \A q \in Procs : job'[q].at = "commit" => Pointed(job[q].article)'
    <2>1. \A q \in Procs : job[q].at = "commit" => job[q].article \in Articles \ {a}
      BY <1>1, ArticleFacts DEF RowsOK, ArticleFree
    <2>. QED  BY <1>1, <1>3, <2>1 DEF SteadyInv, KeepsCommits
  <1>. QED  BY <1>2, <1>4, <1>5 DEF SteadyInv, ReadyHasText

\* The removal that fails leaves an article whose point is gone: with a count
\* that covers the active articles it does not happen.
LEMMA SteadyCounts ==
  ASSUME RowsOK, CountInv, form.left = MaxEdits, NEW p \in Procs, DeactivateFails(p)
  PROVE  FALSE
  <1>. DEFINE a == job[p].article
  <1>1. a \in Articles /\ a \in LiveArticles /\ ~(activeCount > 0)
    BY ArticleFacts DEF DeactivateFails, RowsOK, PageSteps, LiveArticles, CanCountDown
  <1>2. Cardinality(LiveArticles) # 0
    BY <1>1, LiveFinite, FS_EmptySet
  <1>. QED  BY <1>1, <1>2, LiveFinite DEF CountInv, CountTyped, NeverUndercounts

LEMMA SteadyEmbed ==
  ASSUME RowsOK, SteadyInv, NEW p \in Procs,
         CheckEligible(p) \/ EmbedRead(p) \/ EmbedWrite(p) \/ PublishRefused(p)
  PROVE  SteadyInv'
  <1>1. KeepsCommits /\ UNCHANGED <<article, point>>
    BY CheckRows, EmbedReadRows, EmbedWriteRows, RefusedRows
    DEF Steps, CheckEligible, EmbedRead, EmbedWrite, PublishRefused, rows
  <1>2. KeepsRemoving
    <2>1. job[p].at # "deactivate"
      BY DEF CheckEligible, EmbedRead, EmbedWrite, PublishRefused
    <2>2. CASE Stop(p) \/ Retry(p) \/ Goto(p, "embed") \/ Goto(p, "publish")
      BY <2>1, <2>2, RemovingMoved
    <2>3. CASE job' = [job EXCEPT ![p].at = "provider", ![p].text = article[job[p].article].text]
      <3>1. job' = [job EXCEPT ![p] = [job[p] EXCEPT !.at = "provider",
                                                     !.text = article[job[p].article].text]]
        BY <2>3 DEF RowsOK, JobsOK, Job
      <3>. QED  BY <2>1, <3>1, RemovingKept
    <2>. QED  BY <2>2, <2>3 DEF CheckEligible, EmbedRead, EmbedWrite, PublishRefused
  <1>. QED  BY <1>1, <1>2, SteadyElsewhere

LEMMA SteadyStarts ==
  ASSUME RowsOK, SteadyInv, NEW p \in Procs, Starts(p)
  PROVE  SteadyInv'
  <1>1. ASSUME NEW a \in Articles, NEW ready \in BOOLEAN, Resume(p, a, ready) PROVE SteadyInv'
    <2>1. KeepsRemoving
      BY <1>1, RemovingMoved DEF Resume, IsIdle
    <2>. QED  BY <1>1, <2>1, ResumeRows, SteadyElsewhere DEF Resume, Steps, rows
  <1>2. ASSUME NEW a \in Articles, Remove(p, a) PROVE SteadyInv'
    <2>1. KeepsRemoving
      BY <1>2, RemovingMoved DEF Remove, IsIdle
    <2>. QED  BY <1>2, <2>1, RemoveRows, SteadyElsewhere DEF Remove, Steps, rows
  <1>. QED  BY <1>1, <1>2, SteadyIngest DEF Starts

LEMMA SteadyNextKeeps ==
  ASSUME RowsOK, CorpusInv, CountInv, form.left = MaxEdits, SteadyInv, [SteadyNext]_vars
  PROVE  SteadyInv'
  <1>1. CASE UNCHANGED vars
    <2>1. KeepsRemoving
      BY <1>1 DEF KeepsRemoving, Removing, vars
    <2>. QED  BY <1>1, <2>1, RowsStutter, SteadyElsewhere DEF Steps, vars, rows
  <1>2. CASE \E p \in Procs : Step(p)
    BY <1>2, SteadyEmbed, SteadyPublish, SteadyCommit, SteadyUnpoint, SteadyDeactivate,
       SteadyCounts DEF Step
  <1>. QED  BY <1>1, <1>2, SteadyStarts, SteadyReconcile, SteadyTerminalFetch DEF SteadyNext

LEMMA SteadyInit == Init => SteadyInv
  BY DEF Init, SteadyInv, ReadyHasText, ActiveIsIndexed, Live, NewArticle, Idle

\* While nothing fails and no rebuild runs, every active article has its point,
\* except between the two halves of its removal: publications, removals, edits
\* and reconciliations of the same article may interleave as they like.
THEOREM ActiveIsIndexedHolds == SteadySpec => []ActiveIsIndexed
  <1>. DEFINE I == RowsOK /\ CorpusInv /\ CountInv /\ form.left = MaxEdits /\ SteadyInv
  <1>1. Init => I
    BY RowsInit, CorpusInit, CountInit, SteadyInit DEF Init, NoForm
  <1>2. I /\ [SteadyNext]_vars => I'
    <2>1. [SteadyNext]_vars => [Next]_vars
      BY DEF Next, CrawlNext
    <2>2. [SteadyNext]_vars => UNCHANGED form
      BY DEF SteadyNext, Starts, Step, Ingest, Resume, Remove, CheckEligible, EmbedRead, EmbedWrite,
         Publish, PublishRefused, Commit, Unpoint, Deactivate, DeactivateFails, ReconcileSitemap,
         TerminalFetch, site, vars
    <2>. QED  BY <2>1, <2>2, RowsNext, CorpusNext, CountNext, SteadyNextKeeps
  <1>3. I => ActiveIsIndexed
    BY DEF SteadyInv
  <1>. QED  BY <1>1, <1>2, <1>3, PTL DEF SteadySpec

=============================================================================
