--------------------------- MODULE CrawlJobs_proofs ---------------------------
(* Proofs about CrawlJobs for every number of syncs, URLs and processes.   *)
EXTENDS CrawlJobs, FiniteSetTheorems, TLAPS

-----------------------------------------------------------------------------
(* Rows: what the updates of the handlers keep.                            *)

JobsOK == job \in [Procs -> Job] /\ \A p \in Procs : JobNamesRows(p)

LEMMA AttemptType ==
  ASSUME NEW n \in 0..MaxAttempts PROVE NextAttempt(n) \in 0..MaxAttempts
  BY LimitsAssumption DEF NextAttempt

LEMMA PushedType ==
  ASSUME NEW n \in 0..MaxCopies PROVE Pushed(n) \in 0..MaxCopies
  BY LimitsAssumption DEF Pushed

LEMMA SyncFields ==
  ASSUME NEW r \in SyncRow
  PROVE  /\ r.attempts \in 0..MaxAttempts /\ r.inventory \subseteq Urls
         /\ \A st \in SyncActive \cup SyncTerminal : [r EXCEPT !.state = st] \in SyncRow
         /\ \A m \in Markers : [r EXCEPT !.marker = m] \in SyncRow
         /\ \A b \in BOOLEAN : [r EXCEPT !.due = b] \in SyncRow
         /\ \A n \in 0..MaxAttempts : [r EXCEPT !.attempts = n] \in SyncRow
         /\ \A i \in SUBSET Urls : [r EXCEPT !.inventory = i] \in SyncRow
         /\ [r EXCEPT !.promoted = TRUE] \in SyncRow
  BY DEF SyncRow

LEMMA WorkFields ==
  ASSUME NEW r \in WorkRow
  PROVE  /\ r.attempts \in 0..MaxAttempts /\ r.gone \in BOOLEAN
         /\ \A st \in {"queued", "running"} \cup PageTerminal :
              [r EXCEPT !.state = st] \in WorkRow
         /\ \A m \in Markers : [r EXCEPT !.marker = m] \in WorkRow
         /\ \A b \in BOOLEAN : [r EXCEPT !.due = b] \in WorkRow
         /\ \A b \in BOOLEAN : [r EXCEPT !.gone = b] \in WorkRow
         /\ \A n \in 0..MaxAttempts : [r EXCEPT !.attempts = n] \in WorkRow
         /\ [r EXCEPT !.ingested = TRUE] \in WorkRow
  BY DEF WorkRow

LEMMA NewRows ==
  /\ NewWork \in WorkRow /\ [NewWork EXCEPT !.state = "queued"] \in WorkRow
  /\ NewSync \in SyncRow
  /\ \A d \in BOOLEAN : [NewSync EXCEPT !.state = "queued", !.daily = d] \in SyncRow
  <1>1. 0 \in 0..MaxAttempts
    BY LimitsAssumption
  <1>2. NewWork \in WorkRow /\ [NewWork EXCEPT !.state = "queued"] \in WorkRow
    BY <1>1 DEF NewWork, WorkRow, Markers
  <1>3. NewSync \in SyncRow
    BY <1>1 DEF NewSync, SyncRow, Markers
  <1>4. \A d \in BOOLEAN : [NewSync EXCEPT !.state = "queued", !.daily = d] \in SyncRow
    BY <1>1 DEF NewSync, SyncRow, SyncActive, Markers
  <1>. QED  BY <1>2, <1>3, <1>4

LEMMA StartType ==
  ASSUME JobsOK, NEW p \in Procs, NEW task \in Tasks, NEW at \in Points,
         NEW s \in Syncs, NEW u \in Urls \cup {NoUrl}, Start(p, task, at, s, u),
         at \in CrawlPoints \cup {"mark_page"} => u \in Urls
  PROVE  JobsOK'
  BY DEF Start, Idle, JobsOK, JobNamesRows, Job, Outcomes

LEMMA StopType ==
  ASSUME JobsOK, NEW p \in Procs, Stop(p) PROVE JobsOK'
  BY DEF Stop, Idle, JobsOK, JobNamesRows, Job, Outcomes, Points, Tasks, CrawlPoints

LEMMA GotoType ==
  ASSUME JobsOK, NEW p \in Procs, NEW at \in Points, Goto(p, at), job[p].at # "idle",
         at \in CrawlPoints \cup {"mark_page"} => job[p].url \in Urls
  PROVE  JobsOK'
  BY DEF Goto, JobsOK, JobNamesRows, Job

LEMMA EndType ==
  ASSUME JobsOK, NEW p \in Procs, NEW outcome \in Outcomes, EndWith(p, outcome),
         job[p].at \in CrawlPoints
  PROVE  JobsOK'
  BY DEF EndWith, JobsOK, JobNamesRows, Job, CrawlPoints, Points

LEMMA AfterDispatchType ==
  ASSUME JobsOK, NEW p \in Procs, AfterDispatch(p), job[p].at # "idle" PROVE JobsOK'
  <1>1. CASE job[p].task = "sweep"
    BY <1>1, StartType DEF AfterDispatch, JobsOK, JobNamesRows, Tasks, Points, CrawlPoints
  <1>2. CASE job[p].task # "sweep"
    BY <1>2, StopType DEF AfterDispatch
  <1>. QED  BY <1>1, <1>2

LEMMA CancelType ==
  ASSUME TypeOK, NEW s \in Syncs, CancelSync(s)
  PROVE  /\ sync' \in [Syncs -> SyncRow]
         /\ work' \in [Works -> WorkRow]
         /\ currentSync' \in Syncs \cup {NoSync}
  <1>1. sync' \in [Syncs -> SyncRow]
    BY SyncFields DEF CancelSync, TypeOK, SyncTerminal, Markers
  <1>2. work' \in [Works -> WorkRow]
    BY WorkFields DEF CancelSync, TypeOK, PageTerminal, Markers
  <1>. QED  BY <1>1, <1>2 DEF CancelSync, TypeOK

LEMMA JobFacts ==
  ASSUME TypeOK, NEW p \in Procs, job[p].at # "idle"
  PROVE  /\ job[p].sync \in Syncs /\ sync[job[p].sync] \in SyncRow
         /\ job[p].batch \subseteq Urls /\ JobsOK
  BY DEF TypeOK, JobNamesRows, JobsOK, Job

LEMMA PageFacts ==
  ASSUME TypeOK, NEW p \in Procs, job[p].at \in CrawlPoints \cup {"mark_page"}
  PROVE  /\ job[p].sync \in Syncs /\ job[p].url \in Urls
         /\ <<job[p].sync, job[p].url>> \in Works
         /\ work[<<job[p].sync, job[p].url>>] \in WorkRow
         /\ source[job[p].url] \in SourceRow
  BY DEF TypeOK, JobNamesRows, Works, CrawlPoints

LEMMA FaultType == ASSUME TypeOK, CanFault PROVE faults' \in 0..MaxFaults
  <1>. faults \in 0..MaxFaults
    BY DEF TypeOK
  <1>. QED  BY LimitsAssumption DEF CanFault

LEMMA TakeSyncMsgType ==
  ASSUME TypeOK, NEW s \in Syncs, TakeSyncMsg(s)
  PROVE  syncMsgs' \in [Syncs -> 0..MaxCopies]
  <1>1. syncMsgs \in [Syncs -> 0..MaxCopies] /\ syncMsgs[s] \in 0..MaxCopies
    BY DEF TypeOK
  <1>2. syncMsgs[s] - 1 \in 0..MaxCopies
    BY <1>1, LimitsAssumption DEF TakeSyncMsg
  <1>. QED  BY <1>1, <1>2 DEF TakeSyncMsg

LEMMA TakePageMsgType ==
  ASSUME TypeOK, NEW w \in Works, TakePageMsg(w)
  PROVE  pageMsgs' \in [Works -> 0..MaxCopies]
  <1>1. pageMsgs \in [Works -> 0..MaxCopies] /\ pageMsgs[w] \in 0..MaxCopies
    BY DEF TypeOK
  <1>2. pageMsgs[w] - 1 \in 0..MaxCopies
    BY <1>1, LimitsAssumption DEF TakePageMsg
  <1>. QED  BY <1>1, <1>2 DEF TakePageMsg

\* A dispatcher's bookkeeping over the works it reserved.
LEMMA PublishingType ==
  ASSUME JobsOK, NEW p \in Procs, NEW rest \in SUBSET Urls, job[p].at # "idle",
         job' = [job EXCEPT ![p] = [job[p] EXCEPT !.at = "send_pages", !.url = NoUrl,
                                                  !.batch = rest]]
  PROVE  JobsOK'
  <1>1. job \in [Procs -> Job] /\ job[p] \in Job /\ job[p].sync \in Syncs
    BY DEF JobsOK, JobNamesRows
  <1>. DEFINE r == [job[p] EXCEPT !.at = "send_pages", !.url = NoUrl, !.batch = rest]
  <1>2. r \in Job /\ r.at = "send_pages" /\ r.sync \in Syncs
    BY <1>1 DEF Job, Points
  <1>. HIDE DEF r
  <1>3. job' = [job EXCEPT ![p] = r]
    BY DEF r
  <1>. QED  BY <1>1, <1>2, <1>3 DEF JobsOK, JobNamesRows, CrawlPoints

LEMMA SettleSyncType ==
  ASSUME TypeOK, NEW s \in Syncs, NEW m \in Markers, SettleSyncMarker(s, m)
  PROVE  sync' \in [Syncs -> SyncRow]
  <1>. sync \in [Syncs -> SyncRow] /\ sync[s] \in SyncRow
    BY DEF TypeOK
  <1>1. [sync[s] EXCEPT !.marker = m] \in SyncRow
    BY SyncFields
  <1>2. CASE sync[s].marker = "dispatching"
    BY <1>1, <1>2 DEF SettleSyncMarker
  <1>3. CASE sync[s].marker # "dispatching"
    BY <1>3 DEF SettleSyncMarker, SyncRow
  <1>. QED  BY <1>2, <1>3

LEMMA SettlePageType ==
  ASSUME TypeOK, NEW w \in Works, NEW m \in Markers, SettlePageMarker(w, m)
  PROVE  work' \in [Works -> WorkRow]
  <1>. work \in [Works -> WorkRow] /\ work[w] \in WorkRow
    BY DEF TypeOK
  <1>1. [work[w] EXCEPT !.marker = m] \in WorkRow
    BY WorkFields
  <1>2. CASE work[w].marker = "dispatching"
    BY <1>1, <1>2 DEF SettlePageMarker
  <1>3. CASE work[w].marker # "dispatching"
    BY <1>3 DEF SettlePageMarker, WorkRow
  <1>. QED  BY <1>2, <1>3

-----------------------------------------------------------------------------
(* Type correctness, one lemma per part of the next-state relation.        *)

LEMMA TypeInit == Init => TypeOK
  <1>. SUFFICES ASSUME Init PROVE TypeOK
    OBVIOUS
  <1>1. sync \in [Syncs -> SyncRow] /\ work \in [Works -> WorkRow]
    BY NewRows DEF Init
  <1>2. source \in [Urls -> SourceRow]
    BY LimitsAssumption DEF Init, SourceRow
  <1>3. JobsOK
    BY DEF Init, JobsOK, JobNamesRows, Job, Idle, Points, Outcomes, Tasks, CrawlPoints
  <1>4. form \in Form
    BY LimitsAssumption DEF Init, NoForm, Form
  <1>. QED  BY <1>1, <1>2, <1>3, <1>4, LimitsAssumption DEF Init, TypeOK, JobsOK

LEMMA TypeRequest ==
  ASSUME TypeOK, NEW p \in Procs, NEW s \in Syncs, Request(p, s) PROVE TypeOK'
  <1>. USE DEF Tasks, Points, CrawlPoints
  <1>1. ASSUME NEW d \in BOOLEAN, CreateSync(p, s, d) PROVE TypeOK'
    <2>1. sync' \in [Syncs -> SyncRow]
      BY <1>1, NewRows DEF CreateSync, TypeOK
    <2>2. JobsOK'
      BY <1>1, StartType DEF CreateSync, TypeOK, JobsOK
    <2>. QED  BY <1>1, <2>1, <2>2 DEF CreateSync, TypeOK, site, JobsOK, broker
  <1>2. CASE RetryReuse(p, s)
    <2>1. JobsOK'
      BY <1>2, StartType DEF RetryReuse, TypeOK, JobsOK
    <2>. QED  BY <1>2, <2>1 DEF RetryReuse, TypeOK, site, JobsOK, broker, rows
  <1>. QED  BY <1>1, <1>2 DEF Request, Submit, ScheduleDaily, RetryCreate

LEMMA TypeReserveSync ==
  ASSUME TypeOK, NEW p \in Procs, ReserveSync(p) PROVE TypeOK'
  <1>. DEFINE s == job[p].sync
  <1>0. job[p].at = "reserve" /\ s \in Syncs /\ sync[s] \in SyncRow /\ JobsOK
    BY JobFacts DEF ReserveSync
  <1>1. [sync[s] EXCEPT !.marker = "dispatching"] \in SyncRow
    BY <1>0, SyncFields DEF Markers
  <1>2. sync' \in [Syncs -> SyncRow]
    BY <1>0, <1>1 DEF ReserveSync, TypeOK
  <1>3. JobsOK'
    BY <1>0, GotoType, StopType DEF ReserveSync, Points, CrawlPoints
  <1>. QED  BY <1>2, <1>3 DEF ReserveSync, TypeOK, site, JobsOK, broker

LEMMA TypeSendSync ==
  ASSUME TypeOK, NEW p \in Procs, SendSync(p) PROVE TypeOK'
  <1>0. job[p].at = "send_sync" /\ job[p].sync \in Syncs /\ JobsOK
    BY JobFacts DEF SendSync
  <1>1. syncMsgs' \in [Syncs -> 0..MaxCopies]
    BY <1>0, PushedType DEF SendSync, TypeOK
  <1>2. JobsOK'
    BY <1>0, GotoType DEF SendSync, Points, CrawlPoints
  <1>. QED  BY <1>1, <1>2 DEF SendSync, TypeOK, site, JobsOK, rows

LEMMA TypeSendSyncFails ==
  ASSUME TypeOK, NEW p \in Procs, SendSyncFails(p) PROVE TypeOK'
  <1>0. job[p].at = "send_sync" /\ job[p].sync \in Syncs /\ JobsOK
    BY JobFacts DEF SendSyncFails
  <1>1. sync' \in [Syncs -> SyncRow]
    BY <1>0, SettleSyncType DEF SendSyncFails, Markers
  <1>2. JobsOK'
    BY <1>0, StopType DEF SendSyncFails
  <1>3. faults' \in 0..MaxFaults
    BY FaultType DEF SendSyncFails
  <1>. QED  BY <1>1, <1>2, <1>3 DEF SendSyncFails, TypeOK, site, JobsOK, broker

LEMMA TypeMarkSync ==
  ASSUME TypeOK, NEW p \in Procs, MarkSync(p) PROVE TypeOK'
  <1>0. job[p].at = "mark_sync" /\ job[p].sync \in Syncs /\ JobsOK
    BY JobFacts DEF MarkSync
  <1>1. sync' \in [Syncs -> SyncRow]
    BY <1>0, SettleSyncType DEF MarkSync, Markers
  <1>2. JobsOK'
    BY <1>0, StopType DEF MarkSync
  <1>. QED  BY <1>1, <1>2 DEF MarkSync, TypeOK, site, JobsOK, broker

LEMMA TypeClaimSync ==
  ASSUME TypeOK, NEW p \in Procs, NEW s \in Syncs, ClaimSync(p, s) PROVE TypeOK'
  <1>0. sync[s] \in SyncRow /\ JobsOK /\ syncMsgs[s] \in 0..MaxCopies
    BY DEF TypeOK, JobsOK
  <1>1. [sync[s] EXCEPT !.state = "running", !.marker = "",
                        !.attempts = NextAttempt(sync[s].attempts)] \in SyncRow
    <2>1. NextAttempt(sync[s].attempts) \in 0..MaxAttempts
      BY <1>0, SyncFields, AttemptType
    <2>. QED  BY <1>0, <2>1 DEF SyncRow, SyncActive, Markers
  <1>2. sync' \in [Syncs -> SyncRow]
    BY <1>1 DEF ClaimSync, TypeOK
  <1>3. JobsOK'
    BY <1>0, StartType DEF ClaimSync, Tasks, Points, CrawlPoints
  <1>4. syncMsgs' \in [Syncs -> 0..MaxCopies]
    BY TakeSyncMsgType DEF ClaimSync
  <1>. QED  BY <1>2, <1>3, <1>4 DEF ClaimSync, TypeOK, site, JobsOK

LEMMA TypeClaimSyncNoop ==
  ASSUME TypeOK, NEW p \in Procs, NEW s \in Syncs, ClaimSyncNoop(p, s) PROVE TypeOK'
  <1>0. sync[s] \in SyncRow /\ [sync[s] EXCEPT !.marker = ""] \in SyncRow
    BY SyncFields DEF TypeOK, Markers
  <1>1. /\ sync' \in [Syncs -> SyncRow] /\ work' \in [Works -> WorkRow]
        /\ currentSync' \in Syncs \cup {NoSync}
    BY <1>0, CancelType DEF ClaimSyncNoop, TypeOK
  <1>2. syncMsgs' \in [Syncs -> 0..MaxCopies]
    BY TakeSyncMsgType DEF ClaimSyncNoop
  <1>. QED  BY <1>1, <1>2 DEF ClaimSyncNoop, TypeOK, site, JobNamesRows

LEMMA TypePromote ==
  ASSUME TypeOK, NEW p \in Procs, Promote(p) PROVE TypeOK'
  <1>. DEFINE s == job[p].sync
  <1>0. job[p].at = "parse" /\ s \in Syncs /\ sync[s] \in SyncRow /\ JobsOK
    BY JobFacts DEF Promote
  <1>1. \A found \in SUBSET Urls :
          [sync[s] EXCEPT !.promoted = TRUE, !.inventory = found] \in SyncRow
    BY <1>0 DEF SyncRow
  <1>2. sync' \in [Syncs -> SyncRow]
    BY <1>0, <1>1 DEF Promote, TypeOK
  <1>3. JobsOK'
    BY <1>0, GotoType DEF Promote, Points, CrawlPoints
  <1>. QED  BY <1>2, <1>3 DEF Promote, TypeOK, site, JobsOK, broker

LEMMA TypeRequeueSync ==
  ASSUME TypeOK, NEW p \in Procs, RequeueSync(p) PROVE TypeOK'
  <1>. DEFINE s == job[p].sync
  <1>0. job[p].at = "parse" /\ s \in Syncs /\ sync[s] \in SyncRow /\ JobsOK
    BY JobFacts DEF RequeueSync
  <1>1. [sync[s] EXCEPT !.state = "queued", !.marker = "", !.due = FALSE] \in SyncRow
    BY <1>0 DEF SyncRow, SyncActive, Markers
  <1>2. sync' \in [Syncs -> SyncRow]
    BY <1>0, <1>1 DEF RequeueSync, TypeOK
  <1>3. JobsOK'
    BY <1>0, StopType DEF RequeueSync
  <1>. QED  BY <1>2, <1>3 DEF RequeueSync, TypeOK, site, JobsOK, broker

LEMMA TypeFailSync ==
  ASSUME TypeOK, NEW p \in Procs, FailSync(p) PROVE TypeOK'
  <1>. DEFINE s == job[p].sync
  <1>0. job[p].at = "parse" /\ s \in Syncs /\ sync[s] \in SyncRow /\ JobsOK
    BY JobFacts DEF FailSync
  <1>1. [sync[s] EXCEPT !.state = "failed", !.marker = "", !.due = TRUE] \in SyncRow
    BY <1>0 DEF SyncRow, SyncTerminal, Markers
  <1>2. sync' \in [Syncs -> SyncRow]
    BY <1>0, <1>1 DEF FailSync, TypeOK
  <1>3. JobsOK'
    BY <1>0, StopType DEF FailSync
  <1>. QED  BY <1>2, <1>3 DEF FailSync, TypeOK, site, JobsOK, broker

LEMMA TypeCreateWork ==
  ASSUME TypeOK, NEW p \in Procs, CreateWork(p) PROVE TypeOK'
  <1>0. job[p].at = "create" /\ job[p].sync \in Syncs /\ JobsOK
    BY JobFacts DEF CreateWork
  <1>1. work' \in [Works -> WorkRow]
    BY <1>0, NewRows DEF CreateWork, TypeOK
  <1>2. JobsOK'
    BY <1>0, GotoType DEF CreateWork, Points, CrawlPoints
  <1>. QED  BY <1>1, <1>2 DEF CreateWork, TypeOK, site, JobsOK, broker

LEMMA TypeDispatchNothing ==
  ASSUME TypeOK, NEW p \in Procs, DispatchNothing(p) PROVE TypeOK'
  <1>0. job[p].at = "dispatch" /\ job[p].sync \in Syncs /\ JobsOK
    BY JobFacts DEF DispatchNothing
  <1>1. /\ sync' \in [Syncs -> SyncRow] /\ work' \in [Works -> WorkRow]
        /\ currentSync' \in Syncs \cup {NoSync}
    BY <1>0, CancelType DEF DispatchNothing, TypeOK
  <1>2. JobsOK'
    BY <1>0, AfterDispatchType DEF DispatchNothing
  <1>. QED  BY <1>1, <1>2 DEF DispatchNothing, TypeOK, site, JobsOK, broker

LEMMA TypeDispatchReserve ==
  ASSUME TypeOK, NEW p \in Procs, DispatchReserve(p) PROVE TypeOK'
  <1>. DEFINE s == job[p].sync
  <1>0. job[p].at = "dispatch" /\ s \in Syncs /\ JobsOK /\ work \in [Works -> WorkRow]
    BY JobFacts DEF DispatchReserve, TypeOK
  <1>1. PICK b \in Reservations(s) :
          /\ work' = [w \in Works |-> IF w \in b THEN [work[w] EXCEPT !.marker = "dispatching"]
                                      ELSE work[w]]
          /\ job' = [job EXCEPT ![p] = [job[p] EXCEPT !.at = "send_pages", !.url = NoUrl,
                                                      !.batch = {w[2] : w \in b}]]
    BY DEF DispatchReserve
  <1>2. \A w \in b : w[2] \in Urls
    BY <1>0 DEF Reservations, Dispatchable, WorksOf
  <1>3. work' \in [Works -> WorkRow]
    BY <1>0, <1>1, WorkFields DEF Markers
  <1>4. JobsOK'
    <2>1. {w[2] : w \in b} \in SUBSET Urls
      BY <1>2
    <2>. QED  BY <1>0, <1>1, <2>1, PublishingType
  <1>. QED  BY <1>3, <1>4 DEF DispatchReserve, TypeOK, site, JobsOK, broker

LEMMA TypeSendPage ==
  ASSUME TypeOK, NEW p \in Procs, NEW u \in Urls, SendPage(p, u) PROVE TypeOK'
  <1>0. /\ job[p].at = "send_pages" /\ job[p].sync \in Syncs /\ JobsOK
        /\ job[p].batch \subseteq Urls
    BY JobFacts DEF SendPage
  <1>1. pageMsgs' \in [Works -> 0..MaxCopies]
    BY <1>0, PushedType DEF SendPage, TypeOK, Works
  <1>2. JobsOK'
    BY <1>0 DEF SendPage, JobsOK, JobNamesRows, Job, Points, CrawlPoints
  <1>. QED  BY <1>1, <1>2 DEF SendPage, TypeOK, site, JobsOK, rows

LEMMA NextPageType ==
  ASSUME JobsOK, NEW p \in Procs, NEW rest \in SUBSET Urls, NextPage(p, rest),
         job[p].at # "idle"
  PROVE  JobsOK'
  <1>1. CASE rest = {}
    BY <1>1, AfterDispatchType DEF NextPage
  <1>2. CASE rest # {}
    BY <1>2, PublishingType DEF NextPage
  <1>. QED  BY <1>1, <1>2

LEMMA TypeSendPageFails ==
  ASSUME TypeOK, NEW p \in Procs, NEW u \in Urls, SendPageFails(p, u) PROVE TypeOK'
  <1>0. /\ job[p].at = "send_pages" /\ job[p].sync \in Syncs /\ JobsOK
        /\ job[p].batch \subseteq Urls /\ <<job[p].sync, u>> \in Works
    BY JobFacts DEF SendPageFails, Works
  <1>1. work' \in [Works -> WorkRow]
    BY <1>0, SettlePageType DEF SendPageFails, Markers
  <1>2. JobsOK'
    BY <1>0, NextPageType DEF SendPageFails
  <1>3. faults' \in 0..MaxFaults
    BY FaultType DEF SendPageFails
  <1>. QED  BY <1>1, <1>2, <1>3 DEF SendPageFails, TypeOK, site, JobsOK, broker

LEMMA TypeMarkPage ==
  ASSUME TypeOK, NEW p \in Procs, MarkPage(p) PROVE TypeOK'
  <1>0. /\ job[p].at = "mark_page" /\ JobsOK /\ job[p].batch \subseteq Urls
        /\ <<job[p].sync, job[p].url>> \in Works
    BY JobFacts, PageFacts DEF MarkPage
  <1>1. work' \in [Works -> WorkRow]
    BY <1>0, SettlePageType DEF MarkPage, Markers
  <1>2. JobsOK'
    BY <1>0, NextPageType DEF MarkPage
  <1>. QED  BY <1>1, <1>2 DEF MarkPage, TypeOK, site, JobsOK, broker

LEMMA TypeClaimPage ==
  ASSUME TypeOK, NEW p \in Procs, NEW w \in Works, ClaimPage(p, w) PROVE TypeOK'
  <1>0. work[w] \in WorkRow /\ JobsOK /\ w[1] \in Syncs /\ w[2] \in Urls
    BY DEF TypeOK, JobsOK, Works
  <1>1. [work[w] EXCEPT !.state = "running", !.marker = "",
                        !.attempts = NextAttempt(work[w].attempts)] \in WorkRow
    <2>1. NextAttempt(work[w].attempts) \in 0..MaxAttempts
      BY <1>0, WorkFields, AttemptType
    <2>. QED  BY <1>0, <2>1 DEF WorkRow, Markers
  <1>2. work' \in [Works -> WorkRow]
    BY <1>1 DEF ClaimPage, TypeOK
  <1>3. JobsOK'
    BY <1>0, StartType DEF ClaimPage, Tasks, Points, CrawlPoints
  <1>4. pageMsgs' \in [Works -> 0..MaxCopies]
    BY TakePageMsgType DEF ClaimPage
  <1>. QED  BY <1>2, <1>3, <1>4 DEF ClaimPage, TypeOK, site, JobsOK

LEMMA TypeClaimPageNoop ==
  ASSUME TypeOK, NEW p \in Procs, NEW w \in Works, ClaimPageNoop(p, w) PROVE TypeOK'
  <1>0. /\ work[w] \in WorkRow /\ [work[w] EXCEPT !.marker = ""] \in WorkRow
        /\ w[1] \in Syncs
    BY WorkFields DEF TypeOK, Markers, Works
  <1>1. /\ sync' \in [Syncs -> SyncRow] /\ work' \in [Works -> WorkRow]
        /\ currentSync' \in Syncs \cup {NoSync}
    BY <1>0, CancelType DEF ClaimPageNoop, TypeOK
  <1>2. pageMsgs' \in [Works -> 0..MaxCopies]
    BY TakePageMsgType DEF ClaimPageNoop
  <1>. QED  BY <1>1, <1>2 DEF ClaimPageNoop, TypeOK, site, JobNamesRows

LEMMA TypeFetchFails ==
  ASSUME TypeOK, NEW p \in Procs, NEW outcome \in Outcomes, FetchFails(p, outcome)
  PROVE  TypeOK'
  <1>1. JobsOK'
    BY EndType, JobFacts DEF FetchFails, CrawlPoints
  <1>. QED  BY <1>1 DEF FetchFails, TypeOK, site, JobsOK, rows, broker

LEMMA TypeIngest ==
  ASSUME TypeOK, NEW p \in Procs, Ingest(p) PROVE TypeOK'
  <1>. DEFINE w == <<job[p].sync, job[p].url>>
  <1>0. /\ job[p].at = "crawl" /\ JobsOK /\ w \in Works /\ work[w] \in WorkRow
        /\ job[p].url \in Urls /\ w[2] = job[p].url
    BY JobFacts, PageFacts DEF Ingest, CrawlPoints
  <1>1. [work[w] EXCEPT !.ingested = TRUE] \in WorkRow
    BY <1>0, WorkFields
  <1>2. work' \in [Works -> WorkRow]
    BY <1>0, <1>1 DEF Ingest, TypeOK
  <1>3. [state |-> "active", missing |-> 0] \in SourceRow
    BY LimitsAssumption DEF SourceRow
  <1>4. source' \in [Urls -> SourceRow]
    BY <1>0, <1>3 DEF Ingest, TypeOK
  <1>5. JobsOK'
    BY <1>0, GotoType, EndType DEF Ingest, Points, CrawlPoints, Outcomes
  <1>. QED  BY <1>2, <1>4, <1>5 DEF Ingest, TypeOK, site, JobsOK, broker

LEMMA TypeCheckEligibility ==
  ASSUME TypeOK, NEW p \in Procs, CheckEligibility(p) PROVE TypeOK'
  <1>0. job[p].at = "check" /\ job[p].sync \in Syncs /\ job[p].url \in Urls /\ JobsOK
    BY JobFacts, PageFacts DEF CheckEligibility, CrawlPoints
  <1>1. /\ sync' \in [Syncs -> SyncRow] /\ work' \in [Works -> WorkRow]
        /\ currentSync' \in Syncs \cup {NoSync}
    BY <1>0, CancelType DEF CheckEligibility, TypeOK
  <1>2. JobsOK'
    BY <1>0, GotoType DEF CheckEligibility, Points, CrawlPoints
  <1>. QED  BY <1>1, <1>2 DEF CheckEligibility, TypeOK, site, JobsOK, broker

LEMMA TypeIndexArticle ==
  ASSUME TypeOK, NEW p \in Procs, IndexArticle(p) PROVE TypeOK'
  <1>0. job[p].at = "index" /\ job[p].url \in Urls /\ JobsOK
    BY JobFacts, PageFacts DEF IndexArticle, CrawlPoints
  <1>1. JobsOK'
    BY <1>0, GotoType, EndType DEF IndexArticle, Points, CrawlPoints, Outcomes
  <1>. QED  BY <1>1 DEF IndexArticle, TypeOK, site, JobsOK, rows, broker

LEMMA TypeBecameIneligible ==
  ASSUME TypeOK, NEW p \in Procs, BecameIneligible(p) PROVE TypeOK'
  <1>0. job[p].at = "ineligible" /\ job[p].sync \in Syncs /\ JobsOK
    BY JobFacts DEF BecameIneligible
  <1>1. /\ sync' \in [Syncs -> SyncRow] /\ work' \in [Works -> WorkRow]
        /\ currentSync' \in Syncs \cup {NoSync}
    BY <1>0, CancelType DEF BecameIneligible, TypeOK
  <1>2. JobsOK'
    BY <1>0, StopType, EndType DEF BecameIneligible, CrawlPoints, Outcomes
  <1>. QED  BY <1>1, <1>2 DEF BecameIneligible, TypeOK, site, JobsOK, broker

LEMMA SettledType ==
  ASSUME NEW w \in Works, work[w] \in WorkRow, NEW outcome \in Outcomes
  PROVE  Settled(w, outcome) \in WorkRow
  <1>. DEFINE row == [work[w] EXCEPT !.marker = "", !.gone = work[w].gone \/ outcome = "gone"]
  <1>1. row \in WorkRow
    BY DEF WorkRow, Markers
  <1>. HIDE DEF row
  <1>2. /\ [row EXCEPT !.state = "succeeded"] \in WorkRow
        /\ [row EXCEPT !.state = "queued", !.due = FALSE] \in WorkRow
        /\ [row EXCEPT !.state = "failed", !.due = TRUE] \in WorkRow
    BY <1>1 DEF WorkRow, PageTerminal
  <1>. QED  BY <1>2 DEF Settled, row

LEMMA TypeRecordOutcome ==
  ASSUME TypeOK, NEW p \in Procs, RecordOutcome(p) PROVE TypeOK'
  <1>. DEFINE w == <<job[p].sync, job[p].url>>
  <1>0. /\ job[p].at = "record" /\ JobsOK /\ w \in Works /\ work[w] \in WorkRow
        /\ job[p].sync \in Syncs /\ job[p].url \in Urls /\ job[p].outcome \in Outcomes
        /\ source[job[p].url] \in SourceRow
    BY JobFacts, PageFacts DEF RecordOutcome, CrawlPoints, TypeOK, Job
  <1>1. work' \in [Works -> WorkRow]
    BY <1>0, SettledType DEF RecordOutcome, TypeOK
  <1>2. source' \in [Urls -> SourceRow]
    BY <1>0 DEF RecordOutcome, TypeOK, SourceRow
  <1>3. JobsOK'
    BY <1>0, StartType DEF RecordOutcome, Tasks, Points, CrawlPoints
  <1>. QED  BY <1>1, <1>2, <1>3 DEF RecordOutcome, TypeOK, site, JobsOK, broker

LEMMA TypeRecordCancelled ==
  ASSUME TypeOK, NEW p \in Procs, RecordCancelled(p) PROVE TypeOK'
  <1>. DEFINE w == <<job[p].sync, job[p].url>>
  <1>0. job[p].at = "record" /\ JobsOK /\ w \in Works /\ work[w] \in WorkRow
    BY JobFacts, PageFacts DEF RecordCancelled, CrawlPoints
  <1>1. [work[w] EXCEPT !.state = "cancelled", !.marker = ""] \in WorkRow
    BY <1>0 DEF WorkRow, PageTerminal, Markers
  <1>2. work' \in [Works -> WorkRow]
    BY <1>0, <1>1 DEF RecordCancelled, TypeOK
  <1>3. JobsOK'
    BY <1>0, StopType DEF RecordCancelled
  <1>. QED  BY <1>2, <1>3 DEF RecordCancelled, TypeOK, site, JobsOK, broker

LEMMA TypeFinalizeSync ==
  ASSUME TypeOK, NEW p \in Procs, FinalizeSync(p) PROVE TypeOK'
  <1>. DEFINE s == job[p].sync
  <1>0. job[p].at = "finalize" /\ s \in Syncs /\ sync[s] \in SyncRow /\ JobsOK
    BY JobFacts DEF FinalizeSync
  <1>1. [sync[s] EXCEPT !.state = FinalState(s), !.marker = ""] \in SyncRow
    <2>1. FinalState(s) \in SyncTerminal
      BY DEF FinalState, SyncTerminal
    <2>. QED  BY <1>0, <2>1 DEF SyncRow, Markers
  <1>2. sync' \in [Syncs -> SyncRow]
    <2>1. sync' = [sync EXCEPT ![s] = [sync[s] EXCEPT !.state = FinalState(s), !.marker = ""]]
      BY <1>0 DEF FinalizeSync, TypeOK
    <2>. QED  BY <1>0, <1>1, <2>1 DEF TypeOK
  <1>3. source' \in [Urls -> SourceRow]
    <2>1. ASSUME NEW row \in SourceRow, row.state = "active"
          PROVE  CountAbsence(row) \in SourceRow /\ [row EXCEPT !.missing = 0] \in SourceRow
      <3>1. row.missing \in 0..AbsenceThreshold /\ row.missing < AbsenceThreshold
        BY <2>1 DEF SourceRow
      <3>2. row.missing + 1 \in 0..AbsenceThreshold
        BY <3>1, LimitsAssumption
      <3>3. CountAbsence(row) \in SourceRow
        BY <3>1, <3>2, LimitsAssumption DEF CountAbsence, SourceRow
      <3>4. [row EXCEPT !.missing = 0] \in SourceRow
        BY <2>1, LimitsAssumption DEF SourceRow
      <3>. QED  BY <3>3, <3>4
    <2>2. source \in [Urls -> SourceRow]
      BY DEF TypeOK
    <2>3. ReconcileSitemap(s)
      BY DEF FinalizeSync
    <2>. QED  BY <2>1, <2>2, <2>3 DEF ReconcileSitemap
  <1>4. JobsOK'
    BY <1>0, StopType DEF FinalizeSync
  <1>. QED  BY <1>0, <1>2, <1>3, <1>4 DEF FinalizeSync, TypeOK, site, JobsOK, broker

LEMMA TypeFinalizeNothing ==
  ASSUME TypeOK, NEW p \in Procs, FinalizeNothing(p) PROVE TypeOK'
  <1>0. job[p].at = "finalize" /\ JobsOK
    BY JobFacts DEF FinalizeNothing
  <1>1. JobsOK'
    BY <1>0, GotoType, StopType DEF FinalizeNothing, Points, CrawlPoints
  <1>. QED  BY <1>1 DEF FinalizeNothing, TypeOK, site, JobsOK, rows, broker

LEMMA TypeCrash ==
  ASSUME TypeOK, NEW p \in Procs, Crash(p) PROVE TypeOK'
  <1>1. JobsOK'
    BY StopType DEF Crash, TypeOK, JobsOK
  <1>2. faults' \in 0..MaxFaults
    BY FaultType DEF Crash
  <1>. QED  BY <1>1, <1>2 DEF Crash, TypeOK, site, JobsOK, rows, broker

LEMMA TypeSyncSweep ==
  ASSUME TypeOK, NEW s \in Syncs,
         RequeueStaleSync(s) \/ ClearStaleSyncMarker(s) \/ SyncDue(s)
  PROVE  TypeOK'
  <1>0. sync[s] \in SyncRow
    BY DEF TypeOK
  <1>1. /\ [sync[s] EXCEPT !.state = "queued", !.marker = "", !.due = TRUE] \in SyncRow
        /\ [sync[s] EXCEPT !.marker = ""] \in SyncRow
        /\ [sync[s] EXCEPT !.due = TRUE] \in SyncRow
    BY <1>0 DEF SyncRow, SyncActive, Markers
  <1>2. sync' \in [Syncs -> SyncRow]
    BY <1>1 DEF RequeueStaleSync, ClearStaleSyncMarker, SyncDue, TypeOK
  <1>3. UNCHANGED <<site, work, source, currentSync, lastSync, broker, job, faults>>
    BY DEF RequeueStaleSync, ClearStaleSyncMarker, SyncDue
  <1>. QED  BY <1>2, <1>3 DEF TypeOK, site, JobNamesRows, broker

LEMMA TypePageSweep ==
  ASSUME TypeOK, NEW w \in Works,
         RequeueStalePage(w) \/ ClearStalePageMarker(w) \/ PageDue(w)
  PROVE  TypeOK'
  <1>0. work[w] \in WorkRow
    BY DEF TypeOK
  <1>1. /\ [work[w] EXCEPT !.state = "queued", !.marker = "", !.due = TRUE] \in WorkRow
        /\ [work[w] EXCEPT !.marker = ""] \in WorkRow
        /\ [work[w] EXCEPT !.due = TRUE] \in WorkRow
    BY <1>0 DEF WorkRow, Markers
  <1>2. work' \in [Works -> WorkRow]
    BY <1>1 DEF RequeueStalePage, ClearStalePageMarker, PageDue, TypeOK
  <1>3. UNCHANGED <<site, sync, source, currentSync, lastSync, broker, job, faults>>
    BY DEF RequeueStalePage, ClearStalePageMarker, PageDue
  <1>. QED  BY <1>2, <1>3 DEF TypeOK, site, JobNamesRows, broker

LEMMA TypeSweepStart ==
  ASSUME TypeOK, NEW p \in Procs, NEW s \in Syncs, SweepEnqueue(p, s) \/ SweepRunning(p, s)
  PROVE  TypeOK'
  <1>1. JobsOK'
    BY StartType DEF SweepEnqueue, SweepRunning, TypeOK, JobsOK, Tasks, Points, CrawlPoints
  <1>. QED  BY <1>1 DEF SweepEnqueue, SweepRunning, TypeOK, site, JobsOK, rows, broker

LEMMA TypeLoss ==
  ASSUME TypeOK, (\E s \in Syncs : LoseSyncMsg(s)) \/ (\E w \in Works : LosePageMsg(w))
  PROVE  TypeOK'
  <1>1. ASSUME NEW s \in Syncs, LoseSyncMsg(s) PROVE TypeOK'
    BY <1>1, TakeSyncMsgType, FaultType DEF LoseSyncMsg, TypeOK, site, JobNamesRows, rows
  <1>2. ASSUME NEW w \in Works, LosePageMsg(w) PROVE TypeOK'
    BY <1>2, TakePageMsgType, FaultType DEF LosePageMsg, TypeOK, site, JobNamesRows, rows
  <1>. QED  BY <1>1, <1>2

\* An edit keeps references that were types of the row it read.
LEMMA TypeForm ==
  ASSUME TypeOK, ReadForm \/ SaveForm \/ DropForm PROVE TypeOK'
  <1>1. form \in Form /\ form.left \in 0..MaxEdits
    BY DEF TypeOK, Form
  <1>2. form' \in Form
    <2>1. CASE ReadForm
      <3>1. form.left - 1 \in 0..MaxEdits
        BY <1>1, <2>1, LimitsAssumption DEF ReadForm
      <3>. QED  BY <2>1, <3>1 DEF ReadForm, Form, TypeOK
    <2>2. CASE SaveForm \/ DropForm
      <3>1. form' = NoForm(form.left)
        BY <2>2 DEF SaveForm, DropForm
      <3>2. NoForm(form.left) \in Form
        BY <1>1 DEF NoForm, Form
      <3>. QED  BY <3>1, <3>2
    <2>. QED  BY <2>1, <2>2
  <1>3. currentSync' \in Syncs \cup {NoSync} /\ lastSync' \in Syncs \cup {NoSync}
    BY <1>1 DEF ReadForm, SaveForm, DropForm, rows, Form, TypeOK
  <1>4. UNCHANGED <<eligible, sync, work, source, broker, job, faults>>
    BY DEF ReadForm, SaveForm, DropForm, rows
  <1>. QED  BY <1>2, <1>3, <1>4 DEF TypeOK, JobNamesRows, broker

LEMMA TypeNext == TypeOK /\ [Next]_vars => TypeOK'
  <1>. SUFFICES ASSUME TypeOK, [Next]_vars PROVE TypeOK'
    OBVIOUS
  <1>1. CASE Suspend \/ Reactivate \/ ReadForm \/ SaveForm \/ DropForm
    BY <1>1, TypeForm DEF Suspend, Reactivate, TypeOK, JobNamesRows, rows, broker
  <1>2. ASSUME NEW p \in Procs, Step(p) PROVE TypeOK'
    BY <1>2, TypeReserveSync, TypeSendSync, TypeMarkSync, TypePromote, TypeCreateWork,
       TypeDispatchNothing, TypeDispatchReserve, TypeMarkPage, TypeSendPage, TypeIngest,
       TypeCheckEligibility, TypeIndexArticle, TypeBecameIneligible, TypeRecordOutcome,
       TypeRecordCancelled, TypeFinalizeSync, TypeFinalizeNothing DEF Step
  <1>3. ASSUME NEW p \in Procs, Fails(p) PROVE TypeOK'
    BY <1>3, TypeSendSyncFails, TypeSendPageFails, TypeRequeueSync, TypeFailSync,
       TypeFetchFails, TypeCrash DEF Fails, Outcomes
  <1>4. ASSUME NEW p \in Procs, NEW s \in Syncs, Request(p, s) \/ DeliverSync(p, s)
        PROVE  TypeOK'
    BY <1>4, TypeRequest, TypeClaimSync, TypeClaimSyncNoop DEF DeliverSync
  <1>5. ASSUME NEW p \in Procs, NEW w \in Works, DeliverPage(p, w) PROVE TypeOK'
    BY <1>5, TypeClaimPage, TypeClaimPageNoop DEF DeliverPage
  <1>6. ASSUME NEW s \in Syncs, SyncDue(s) \/ LoseSyncMsg(s) PROVE TypeOK'
    BY <1>6, TypeSyncSweep, TypeLoss
  <1>7. ASSUME NEW w \in Works, PageDue(w) \/ LosePageMsg(w) PROVE TypeOK'
    BY <1>7, TypePageSweep, TypeLoss
  <1>8. CASE Sweep
    BY <1>8, TypeSyncSweep, TypePageSweep, TypeSweepStart DEF Sweep
  <1>9. CASE UNCHANGED vars
    BY <1>9 DEF vars, broker, TypeOK, site, JobNamesRows
  <1>. QED  BY <1>1, <1>2, <1>3, <1>4, <1>5, <1>6, <1>7, <1>8, <1>9 DEF Next, WorkerNext

\* Every durable row and every running job keeps its type, whatever handlers
\* interleave: a job names rows that exist, attempts stay within their limit,
\* and a source that was missing too often never stays active.
THEOREM TypeCorrect == Spec => []TypeOK
  BY TypeInit, TypeNext, PTL DEF Spec

-----------------------------------------------------------------------------
(* One active sync, and a project pointer that only an edit can break.     *)

\* What a step owes: one active sync as before, and a pointer to it, or to none,
\* where there was such a pointer.
StaysActive == OneActiveSync' /\ (CurrentSyncIsActive => CurrentSyncIsActive')

\* The handlers that leave every sync as active, or as inactive, as it was.
KeepsActive ==
    /\ currentSync' = currentSync
    /\ \A s \in Syncs : sync'[s].state \in SyncActive <=> sync[s].state \in SyncActive

LEMMA ActiveKept == ASSUME OneActiveSync, KeepsActive PROVE StaysActive
  BY DEF StaysActive, KeepsActive, CurrentSyncIsActive, OneActiveSync, ActiveSyncs

\* The handlers that end the sync the project may point at.
LEMMA ActiveEnded ==
  ASSUME OneActiveSync, TypeOK, NEW s \in Syncs, sync'[s].state \notin SyncActive,
         \A t \in Syncs \ {s} : sync'[t] = sync[t],
         currentSync' = IF currentSync = s THEN NoSync ELSE currentSync
  PROVE  StaysActive
  BY SyncsAssumption DEF StaysActive, CurrentSyncIsActive, OneActiveSync, ActiveSyncs

LEMMA ActiveCancel ==
  ASSUME OneActiveSync, TypeOK, NEW s \in Syncs, CancelSync(s) PROVE StaysActive
  <1>1. sync' = [sync EXCEPT ![s] = [sync[s] EXCEPT !.state = "cancelled", !.marker = ""]]
    BY DEF CancelSync, TypeOK
  <1>2. sync'[s].state = "cancelled" /\ \A t \in Syncs \ {s} : sync'[t] = sync[t]
    BY <1>1 DEF TypeOK, SyncRow
  <1>3. sync'[s].state \notin SyncActive
    BY <1>2 DEF SyncActive
  <1>. QED  BY <1>2, <1>3, ActiveEnded DEF CancelSync

LEMMA ActiveMarker ==
  ASSUME OneActiveSync, TypeOK, NEW s \in Syncs, NEW m \in Markers, currentSync' = currentSync,
         \/ SettleSyncMarker(s, m) \/ sync' = [sync EXCEPT ![s].marker = m]
  PROVE  StaysActive
  <1>1. \A t \in Syncs : sync'[t].state = sync[t].state
    BY DEF SettleSyncMarker, TypeOK, SyncRow
  <1>. QED  BY <1>1, ActiveKept DEF KeepsActive

LEMMA ActiveCreate ==
  ASSUME OneActiveSync, TypeOK, NEW p \in Procs, NEW s \in Syncs, NEW d \in BOOLEAN,
         CreateSync(p, s, d), ActiveSyncs = {}
  PROVE  StaysActive
  <1>1. sync'[s].state = "queued" /\ currentSync' = s
    BY DEF CreateSync, NewSync, TypeOK
  <1>2. \A t \in Syncs \ {s} : sync'[t] = sync[t]
    BY DEF CreateSync, TypeOK
  <1>3. ActiveSyncs' = {s}
    BY <1>1, <1>2 DEF ActiveSyncs, SyncActive
  <1>. QED  BY <1>1, <1>3 DEF StaysActive, CurrentSyncIsActive, OneActiveSync

LEMMA ActiveRequest ==
  ASSUME OneActiveSync, TypeOK, NEW p \in Procs, NEW s \in Syncs, Request(p, s) PROVE StaysActive
  <1>1. CASE Submit(p, s)
    <2>1. ActiveSyncs = {}
      BY <1>1 DEF Submit, HasHistory, Created, ActiveSyncs, SyncActive
    <2>. QED  BY <1>1, <2>1, ActiveCreate DEF Submit
  <1>2. CASE ScheduleDaily(p, s) \/ RetryCreate(p, s)
    BY <1>2, ActiveCreate DEF ScheduleDaily, RetryCreate, CanSync
  <1>3. CASE RetryReuse(p, s)
    BY <1>3, ActiveKept DEF RetryReuse, KeepsActive, rows
  <1>. QED  BY <1>1, <1>2, <1>3 DEF Request

LEMMA ActiveDeliver ==
  ASSUME OneActiveSync, TypeOK, NEW p \in Procs, NEW s \in Syncs, DeliverSync(p, s)
  PROVE  StaysActive
  <1>1. CASE ClaimSync(p, s)
    <2>1. sync'[s].state = "running" /\ currentSync' = s
      BY <1>1 DEF ClaimSync, TypeOK, SyncRow
    <2>2. \A t \in Syncs \ {s} : sync'[t] = sync[t]
      BY <1>1 DEF ClaimSync, TypeOK
    <2>3. sync[s].state \in SyncActive
      BY <1>1 DEF ClaimSync, SyncActive
    <2>4. ActiveSyncs' = ActiveSyncs
      BY <2>1, <2>2, <2>3 DEF ActiveSyncs, SyncActive
    <2>. QED  BY <2>1, <2>3, <2>4 DEF StaysActive, CurrentSyncIsActive, OneActiveSync, ActiveSyncs
  <1>2. CASE ClaimSyncNoop(p, s)
    BY <1>2, ActiveKept, ActiveCancel, ActiveMarker DEF ClaimSyncNoop, KeepsActive, Markers
  <1>. QED  BY <1>1, <1>2 DEF DeliverSync

LEMMA ActivePage ==
  ASSUME OneActiveSync, TypeOK, NEW p \in Procs, NEW w \in Works, DeliverPage(p, w)
  PROVE  StaysActive
  <1>1. w[1] \in Syncs
    BY DEF Works
  <1>2. CASE ClaimPage(p, w)
    BY <1>2, ActiveKept DEF ClaimPage, KeepsActive
  <1>3. CASE ClaimPageNoop(p, w)
    BY <1>1, <1>3, ActiveKept, ActiveCancel DEF ClaimPageNoop, KeepsActive
  <1>. QED  BY <1>2, <1>3 DEF DeliverPage

LEMMA ActiveFinalize ==
  ASSUME OneActiveSync, TypeOK, NEW p \in Procs, FinalizeSync(p) PROVE StaysActive
  <1>. DEFINE s == job[p].sync
  <1>0. job[p].at = "finalize" /\ s \in Syncs /\ sync[s] \in SyncRow
    BY JobFacts DEF FinalizeSync
  <1>1. /\ sync' = [sync EXCEPT ![s] = [sync[s] EXCEPT !.state = FinalState(s), !.marker = ""]]
        /\ currentSync' = NoSync
    BY <1>0 DEF FinalizeSync, TypeOK
  <1>2. FinalState(s) \notin SyncActive
    BY DEF FinalState, SyncActive
  <1>3. sync'[s].state = FinalState(s) /\ \A t \in Syncs \ {s} : sync'[t] = sync[t]
    BY <1>0, <1>1 DEF TypeOK, SyncRow
  <1>. QED  BY <1>0, <1>1, <1>2, <1>3
            DEF StaysActive, CurrentSyncIsActive, OneActiveSync, ActiveSyncs

LEMMA ActiveFail ==
  ASSUME OneActiveSync, TypeOK, NEW p \in Procs, FailSync(p) PROVE StaysActive
  <1>. DEFINE s == job[p].sync
  <1>0. job[p].at = "parse" /\ s \in Syncs /\ sync[s] \in SyncRow
    BY JobFacts DEF FailSync
  <1>1. sync'[s].state = "failed" /\ \A t \in Syncs \ {s} : sync'[t] = sync[t]
    BY <1>0 DEF FailSync, TypeOK, SyncRow
  <1>2. sync'[s].state \notin SyncActive
    BY <1>1 DEF SyncActive
  <1>. QED  BY <1>0, <1>1, <1>2
            DEF FailSync, StaysActive, CurrentSyncIsActive, OneActiveSync, ActiveSyncs

LEMMA ActiveRequeue ==
  ASSUME OneActiveSync, TypeOK, NEW p \in Procs, RequeueSync(p) PROVE StaysActive
  <1>. DEFINE s == job[p].sync
  <1>0. job[p].at = "parse" /\ s \in Syncs /\ sync[s] \in SyncRow
    BY JobFacts DEF RequeueSync
  <1>1. CASE sync' = sync
    BY <1>1, ActiveKept DEF RequeueSync, KeepsActive
  <1>2. CASE /\ ActiveSyncs \subseteq {s}
             /\ sync' = [sync EXCEPT ![s] = [sync[s] EXCEPT !.state = "queued", !.marker = "",
                                                            !.due = FALSE]]
    <2>1. sync'[s].state = "queued" /\ \A t \in Syncs \ {s} : sync'[t] = sync[t]
      BY <1>0, <1>2 DEF TypeOK, SyncRow
    <2>2. ActiveSyncs' = {s}
      BY <1>0, <1>2, <2>1 DEF ActiveSyncs, SyncActive
    <2>. QED  BY <1>2, <2>2 DEF RequeueSync, StaysActive, CurrentSyncIsActive, OneActiveSync
  <1>. QED  BY <1>1, <1>2 DEF RequeueSync

LEMMA ActivePromote ==
  ASSUME OneActiveSync, TypeOK, NEW p \in Procs, Promote(p) PROVE StaysActive
  <1>0. job[p].at = "parse" /\ job[p].sync \in Syncs
    BY JobFacts DEF Promote
  <1>1. \A t \in Syncs : sync'[t].state = sync[t].state
    <2>1. CASE sync' = sync
      BY <2>1
    <2>2. ASSUME NEW found \in SUBSET Urls,
                 sync' = [sync EXCEPT ![job[p].sync] = [sync[job[p].sync] EXCEPT
                            !.promoted = TRUE, !.inventory = found]]
          PROVE  \A t \in Syncs : sync'[t].state = sync[t].state
      BY <1>0, <2>2 DEF TypeOK, SyncRow
    <2>. QED  BY <2>1, <2>2 DEF Promote
  <1>. QED  BY <1>1, ActiveKept DEF Promote, KeepsActive

LEMMA ActiveSyncSweep ==
  ASSUME OneActiveSync, TypeOK, NEW s \in Syncs,
         RequeueStaleSync(s) \/ ClearStaleSyncMarker(s) \/ SyncDue(s)
  PROVE  StaysActive
  <1>1. CASE RequeueStaleSync(s)
    <2>1. \A t \in Syncs : sync'[t].state = IF t = s THEN "queued" ELSE sync[t].state
      BY <1>1 DEF RequeueStaleSync, TypeOK, SyncRow
    <2>. QED  BY <1>1, <2>1, ActiveKept DEF RequeueStaleSync, KeepsActive, SyncActive
  <1>2. CASE ClearStaleSyncMarker(s)
    BY <1>2, ActiveMarker DEF ClearStaleSyncMarker, Markers
  <1>3. CASE SyncDue(s)
    <2>1. \A t \in Syncs : sync'[t].state = sync[t].state
      BY <1>3 DEF SyncDue, TypeOK, SyncRow
    <2>. QED  BY <1>3, <2>1, ActiveKept DEF SyncDue, KeepsActive
  <1>. QED  BY <1>1, <1>2, <1>3

LEMMA ActiveStep ==
  ASSUME OneActiveSync, TypeOK, NEW p \in Procs, Step(p) PROVE StaysActive
  <1>. DEFINE s == job[p].sync
  <1>1. CASE ReserveSync(p)
    <2>1. s \in Syncs
      BY <1>1, JobFacts DEF ReserveSync
    <2>. QED  BY <1>1, <2>1, ActiveMarker, ActiveKept DEF ReserveSync, KeepsActive, Markers
  <1>2. CASE MarkSync(p)
    <2>1. s \in Syncs
      BY <1>2, JobFacts DEF MarkSync
    <2>. QED  BY <1>2, <2>1, ActiveMarker DEF MarkSync, Markers
  <1>3. CASE DispatchNothing(p)
    <2>1. s \in Syncs
      BY <1>3, JobFacts DEF DispatchNothing
    <2>. QED  BY <1>3, <2>1, ActiveCancel, ActiveKept DEF DispatchNothing, KeepsActive
  <1>4. CASE CheckEligibility(p)
    <2>1. s \in Syncs
      BY <1>4, JobFacts DEF CheckEligibility
    <2>. QED  BY <1>4, <2>1, ActiveCancel, ActiveKept DEF CheckEligibility, KeepsActive
  <1>5. CASE BecameIneligible(p)
    <2>1. s \in Syncs
      BY <1>5, JobFacts DEF BecameIneligible
    <2>. QED  BY <1>5, <2>1, ActiveCancel, ActiveKept DEF BecameIneligible, KeepsActive
  <1>6. CASE SendSync(p) \/ (\E u \in Urls : SendPage(p, u)) \/ IndexArticle(p)
             \/ FinalizeNothing(p)
    <2>1. UNCHANGED <<sync, currentSync>>
      BY <1>6 DEF SendSync, SendPage, IndexArticle, FinalizeNothing, rows
    <2>. QED  BY <2>1, ActiveKept DEF KeepsActive
  <1>7. CASE CreateWork(p) \/ DispatchReserve(p) \/ MarkPage(p) \/ Ingest(p)
             \/ RecordOutcome(p) \/ RecordCancelled(p)
    <2>1. UNCHANGED <<sync, currentSync>>
      BY <1>7 DEF CreateWork, DispatchReserve, MarkPage, Ingest, RecordOutcome, RecordCancelled
    <2>. QED  BY <2>1, ActiveKept DEF KeepsActive
  <1>. QED  BY <1>1, <1>2, <1>3, <1>4, <1>5, <1>6, <1>7, ActivePromote, ActiveFinalize DEF Step

LEMMA ActiveFails ==
  ASSUME OneActiveSync, TypeOK, NEW p \in Procs, Fails(p) PROVE StaysActive
  <1>1. CASE SendSyncFails(p)
    <2>1. job[p].sync \in Syncs
      BY <1>1, JobFacts DEF SendSyncFails
    <2>. QED  BY <1>1, <2>1, ActiveMarker DEF SendSyncFails, Markers
  <1>2. CASE \/ \E u \in Urls : SendPageFails(p, u)
             \/ \E outcome \in {"retry", "fail", "gone"} : FetchFails(p, outcome)
             \/ Crash(p)
    <2>1. UNCHANGED <<sync, currentSync>>
      BY <1>2 DEF SendPageFails, FetchFails, Crash, rows
    <2>. QED  BY <2>1, ActiveKept DEF KeepsActive
  <1>. QED  BY <1>1, <1>2, ActiveRequeue, ActiveFail DEF Fails

LEMMA ActiveNext ==
  TypeOK /\ OneActiveSync /\ [Next]_vars => StaysActive \/ (SavesStaleForm /\ OneActiveSync')
  <1>. SUFFICES ASSUME TypeOK, OneActiveSync, [Next]_vars
                PROVE  StaysActive \/ (SavesStaleForm /\ OneActiveSync')
    OBVIOUS
  <1>1. CASE Suspend \/ Reactivate \/ ReadForm \/ DropForm \/ UNCHANGED vars
    <2>1. UNCHANGED <<sync, currentSync>>
      BY <1>1 DEF Suspend, Reactivate, ReadForm, DropForm, vars, rows
    <2>. QED  BY <2>1, ActiveKept DEF KeepsActive
  <1>2. ASSUME NEW s \in Syncs, LoseSyncMsg(s) PROVE StaysActive
    BY <1>2, ActiveKept DEF LoseSyncMsg, KeepsActive, rows
  <1>3. ASSUME NEW w \in Works,
               LosePageMsg(w) \/ PageDue(w) \/ RequeueStalePage(w) \/ ClearStalePageMarker(w)
        PROVE  StaysActive
    <2>1. UNCHANGED <<sync, currentSync>>
      BY <1>3 DEF LosePageMsg, PageDue, RequeueStalePage, ClearStalePageMarker, rows
    <2>. QED  BY <2>1, ActiveKept DEF KeepsActive
  <1>4. ASSUME NEW p \in Procs, NEW s \in Syncs, SweepEnqueue(p, s) \/ SweepRunning(p, s)
        PROVE  StaysActive
    BY <1>4, ActiveKept DEF SweepEnqueue, SweepRunning, KeepsActive, rows
  \* An edit that read the pointer that is there keeps it.
  <1>5. CASE SaveForm
    <2>1. OneActiveSync'
      BY <1>5 DEF SaveForm, OneActiveSync, ActiveSyncs
    <2>2. CASE form.current = currentSync
      <3>1. UNCHANGED <<sync, currentSync>>
        BY <1>5, <2>2 DEF SaveForm
      <3>. QED  BY <3>1, ActiveKept DEF KeepsActive
    <2>3. CASE form.current # currentSync
      BY <1>5, <2>1, <2>3 DEF SavesStaleForm
    <2>. QED  BY <2>2, <2>3
  <1>. QED  BY <1>1, <1>2, <1>3, <1>4, <1>5, ActiveStep, ActiveFails, ActiveRequest,
            ActiveDeliver, ActivePage, ActiveSyncSweep DEF Next, WorkerNext, Sweep

LEMMA ActiveInit == Init => OneActiveSync
  <1>. SUFFICES ASSUME Init PROVE OneActiveSync
    OBVIOUS
  <1>1. \A s \in Syncs : sync[s].state = "absent"
    BY DEF Init, NewSync
  <1>2. ActiveSyncs = {}
    BY <1>1 DEF ActiveSyncs, SyncActive
  <1>. QED  BY <1>2 DEF OneActiveSync

\* Two syncs of the project are never active at once, so the constraint
\* core_project_one_active_sync rejects only a requeue by _record_sync_failure.
THEOREM OneActiveSyncHolds == Spec => []OneActiveSync
  <1>1. TypeOK /\ OneActiveSync /\ [Next]_vars => OneActiveSync'
    BY ActiveNext DEF StaysActive
  <1>. QED  BY <1>1, TypeNext, TypeInit, ActiveInit, PTL DEF Spec

\* Project.current_sync_uuid starts to name a sync that is over only where an
\* edit of the site writes an older value back over the committed one.
THEOREM CurrentSyncStaysActiveHolds == Spec => CurrentSyncStaysActive
  <1>1. TypeOK /\ OneActiveSync /\ [Next]_vars
          => [CurrentSyncIsActive => CurrentSyncIsActive' \/ SavesStaleForm]_vars
    BY ActiveNext DEF StaysActive
  <1>2. TypeOK /\ OneActiveSync /\ [Next]_vars => (TypeOK /\ OneActiveSync)'
    BY ActiveNext, TypeNext DEF StaysActive
  <1>. QED  BY <1>1, <1>2, TypeInit, ActiveInit, PTL DEF Spec, CurrentSyncStaysActive

-----------------------------------------------------------------------------
(* Exclusive crawls, and pages that stay settled.                          *)

CrawlInv == CrawledIsClaimed /\ ExclusiveCrawl

\* What a step does to the work rows: a row that is being crawled and stays so
\* is still running or cancelled, and no row leaves succeeded or failed.
KeepsClaims ==
    \A w \in Works :
        /\ Crawled(w)' /\ work[w].state \in {"running", "cancelled"}
             => work'[w].state \in {"running", "cancelled"}
        /\ work[w].state \in {"succeeded", "failed"} => work'[w].state = work[w].state

Settles == \A w \in Works : work[w].state \in {"succeeded", "failed"}
                              => work'[w].state = work[w].state

\* What a step does to the jobs: who crawls a page goes on, or one process
\* stops crawling whatever it crawled.
CrawlersStay == \A w \in Works, q \in Procs : Crawls(q, w)' <=> Crawls(q, w)
Leaves(p) == \A w \in Works, q \in Procs : Crawls(q, w)' <=> Crawls(q, w) /\ q # p
CrawlersLeave == CrawlersStay \/ \E p \in Procs : Leaves(p)

\* Work rows whose state does not change.
SameStates == \A w \in Works : work'[w].state = work[w].state

\* Most steps do only this: they keep the states of the pages or cancel those
\* of a sync, and give no page to anybody.
Quiet == /\ SameStates \/ \E s \in Syncs : CancelSync(s)
         /\ CrawlersLeave

LEMMA CrawlKept ==
  ASSUME CrawlInv, KeepsClaims, CrawlersLeave PROVE CrawlInv' /\ Settles
  <1>1. \A w \in Works, p \in Procs : Crawls(p, w)' => Crawls(p, w)
    BY DEF CrawlersLeave, CrawlersStay, Leaves
  <1>. QED  BY <1>1 DEF CrawlInv, KeepsClaims, CrawledIsClaimed, ExclusiveCrawl, Crawled, Settles

LEMMA QuietKept == ASSUME TypeOK, CrawlInv, Quiet PROVE CrawlInv' /\ Settles
  <1>1. ASSUME NEW s \in Syncs, CancelSync(s) PROVE KeepsClaims
    BY <1>1 DEF CancelSync, KeepsClaims, TypeOK, WorkRow, Unfinished
  <1>2. SameStates => KeepsClaims
    BY DEF SameStates, KeepsClaims
  <1>. QED  BY <1>1, <1>2, CrawlKept DEF Quiet

LEMMA QuietWork == ASSUME UNCHANGED work, CrawlersLeave PROVE Quiet
  BY DEF Quiet, SameStates

\* Jobs that do not move to a crawl point.
LEMMA JobMoves ==
  ASSUME JobsOK, NEW p \in Procs, NEW r, job' = [job EXCEPT ![p] = r],
         r.at \notin CrawlPoints \/ (/\ job[p].at \in CrawlPoints /\ r.sync = job[p].sync
                                     /\ r.url = job[p].url)
  PROVE  CrawlersLeave
  <1>1. job'[p] = r /\ \A q \in Procs \ {p} : job'[q] = job[q]
    BY DEF JobsOK
  <1>2. CASE r.at \notin CrawlPoints
    <2>1. Leaves(p)
      BY <1>1, <1>2 DEF Leaves, Crawls
    <2>. QED  BY <2>1 DEF CrawlersLeave
  <1>3. CASE r.at \in CrawlPoints
    <2>1. CrawlersStay
      BY <1>1, <1>3 DEF CrawlersStay, Crawls
    <2>. QED  BY <2>1 DEF CrawlersLeave
  <1>. QED  BY <1>2, <1>3

LEMMA JobLeaves ==
  ASSUME NEW p \in Procs, job'[p].at \notin CrawlPoints, \A q \in Procs \ {p} : job'[q] = job[q]
  PROVE  Leaves(p)
  BY DEF Leaves, Crawls

LEMMA SameJobs == UNCHANGED job => CrawlersLeave
  BY DEF CrawlersLeave, CrawlersStay, Crawls

LEMMA StartOutside ==
  ASSUME JobsOK, NEW p \in Procs, NEW task, NEW at, NEW s, NEW u,
         Start(p, task, at, s, u), at \notin CrawlPoints
  PROVE  CrawlersLeave
  <1>1. [Idle EXCEPT !.task = task, !.at = at, !.sync = s, !.url = u].at = at
    BY DEF Idle
  <1>. QED  BY <1>1, JobMoves DEF Start

LEMMA StopOutside == ASSUME JobsOK, NEW p \in Procs, Stop(p) PROVE CrawlersLeave
  <1>1. Idle.at \notin CrawlPoints
    BY DEF Idle, CrawlPoints
  <1>. QED  BY <1>1, JobMoves DEF Stop

LEMMA GotoOutside ==
  ASSUME JobsOK, NEW p \in Procs, NEW at, Goto(p, at),
         at \notin CrawlPoints \/ job[p].at \in CrawlPoints
  PROVE  CrawlersLeave
  <1>. DEFINE r == [job[p] EXCEPT !.at = at]
  <1>1. job' = [job EXCEPT ![p] = r] /\ job[p] \in Job
    BY DEF Goto, JobsOK
  <1>2. r.at = at /\ r.sync = job[p].sync /\ r.url = job[p].url
    BY <1>1 DEF Job
  <1>. HIDE DEF r
  <1>. QED  BY <1>1, <1>2, JobMoves

LEMMA EndOutside ==
  ASSUME JobsOK, NEW p \in Procs, NEW outcome, EndWith(p, outcome), job[p].at \in CrawlPoints
  PROVE  CrawlersLeave
  <1>. DEFINE r == [job[p] EXCEPT !.at = "record", !.outcome = outcome]
  <1>1. job' = [job EXCEPT ![p] = r] /\ job[p] \in Job
    BY DEF EndWith, JobsOK
  <1>2. r.at = "record" /\ r.sync = job[p].sync /\ r.url = job[p].url
    BY <1>1 DEF Job
  <1>. HIDE DEF r
  <1>. QED  BY <1>1, <1>2, JobMoves

LEMMA AfterDispatchOutside ==
  ASSUME JobsOK, NEW p \in Procs, AfterDispatch(p) PROVE CrawlersLeave
  <1>1. CASE job[p].task = "sweep"
    BY <1>1, StartOutside DEF AfterDispatch, CrawlPoints
  <1>2. CASE job[p].task # "sweep"
    BY <1>2, StopOutside DEF AfterDispatch
  <1>. QED  BY <1>1, <1>2

LEMMA PublishingOutside ==
  ASSUME JobsOK, NEW p \in Procs, NEW at, at \notin CrawlPoints, NEW u, NEW rest,
         job' = [job EXCEPT ![p] = [job[p] EXCEPT !.at = at, !.url = u, !.batch = rest]]
  PROVE  CrawlersLeave
  <1>. DEFINE r == [job[p] EXCEPT !.at = at, !.url = u, !.batch = rest]
  <1>1. job' = [job EXCEPT ![p] = r] /\ job[p] \in Job
    BY DEF JobsOK
  <1>2. r.at = at
    BY <1>1 DEF Job
  <1>. HIDE DEF r
  <1>. QED  BY <1>1, <1>2, JobMoves

LEMMA NextPageOutside ==
  ASSUME JobsOK, NEW p \in Procs, NEW rest, NextPage(p, rest) PROVE CrawlersLeave
  <1>1. CASE rest = {}
    BY <1>1, AfterDispatchOutside DEF NextPage
  <1>2. CASE rest # {}
    BY <1>2, PublishingOutside DEF NextPage, CrawlPoints
  <1>. QED  BY <1>1, <1>2

LEMMA MarkerStates ==
  ASSUME TypeOK, NEW w \in Works, NEW m \in Markers,
         SettlePageMarker(w, m) \/ work' = [work EXCEPT ![w].marker = m]
  PROVE  SameStates
  BY DEF SameStates, SettlePageMarker, TypeOK, WorkRow

LEMMA CrawlClaimPage ==
  ASSUME TypeOK, CrawlInv, NEW p \in Procs, NEW w \in Works, ClaimPage(p, w)
  PROVE  CrawlInv' /\ Settles
  <1>1. work[w].state = "queued" /\ job[p] = Idle
    BY DEF ClaimPage, Claimable, IsIdle
  <1>2. /\ work'[w].state = "running"
        /\ \A v \in Works \ {w} : work'[v] = work[v]
    BY DEF ClaimPage, TypeOK, WorkRow
  <1>3. \A v \in Works, q \in Procs : Crawls(q, v)' => Crawls(q, v) \/ (q = p /\ v = w)
    <2>1. \A q \in Procs \ {p} : job'[q] = job[q]
      BY DEF ClaimPage, Start, TypeOK
    <2>2. job'[p].sync = w[1] /\ job'[p].url = w[2]
      BY DEF ClaimPage, Start, TypeOK, Idle
    <2>. QED  BY <2>1, <2>2 DEF Crawls, Works
  <1>4. \A q \in Procs : ~Crawls(q, w)
    BY <1>1 DEF CrawlInv, CrawledIsClaimed
  <1>5. CrawledIsClaimed'
    BY <1>2, <1>3 DEF CrawlInv, CrawledIsClaimed
  <1>6. ExclusiveCrawl'
    BY <1>3, <1>4 DEF CrawlInv, ExclusiveCrawl
  <1>7. Settles
    BY <1>1, <1>2 DEF Settles
  <1>. QED  BY <1>5, <1>6, <1>7 DEF CrawlInv

\* The end of a crawl: its row is nobody else's.
LEMMA CrawlEnds ==
  ASSUME TypeOK, CrawlInv, NEW p \in Procs, NEW w \in Works, Crawls(p, w),
         job'[p].at \notin CrawlPoints, \A q \in Procs \ {p} : job'[q] = job[q],
         \A v \in Works \ {w} : work'[v] = work[v]
  PROVE  CrawlInv' /\ Settles
  <1>1. CrawlersLeave
    BY JobLeaves DEF CrawlersLeave
  <1>2. ~Crawled(w)'
    BY DEF Crawled, Crawls, CrawlInv, ExclusiveCrawl
  <1>3. work[w].state \in {"running", "cancelled"}
    BY DEF CrawlInv, CrawledIsClaimed
  <1>4. KeepsClaims
    BY <1>2, <1>3 DEF KeepsClaims
  <1>. QED  BY <1>1, <1>4, CrawlKept

LEMMA CrawlRecordOutcome ==
  ASSUME TypeOK, CrawlInv, NEW p \in Procs, RecordOutcome(p) PROVE CrawlInv' /\ Settles
  <1>. DEFINE w == <<job[p].sync, job[p].url>>
  <1>1. job[p].at = "record" /\ w \in Works /\ Crawls(p, w)
    BY PageFacts DEF RecordOutcome, CrawlPoints, Crawls
  <1>2. \A v \in Works \ {w} : work'[v] = work[v]
    BY DEF RecordOutcome, TypeOK
  <1>3. job'[p].at \notin CrawlPoints /\ \A q \in Procs \ {p} : job'[q] = job[q]
    BY DEF RecordOutcome, Start, Idle, CrawlPoints, TypeOK
  <1>. HIDE DEF w
  <1>. QED  BY <1>1, <1>2, <1>3, CrawlEnds

LEMMA CrawlRecordCancelled ==
  ASSUME TypeOK, CrawlInv, NEW p \in Procs, RecordCancelled(p) PROVE CrawlInv' /\ Settles
  <1>. DEFINE w == <<job[p].sync, job[p].url>>
  <1>1. job[p].at = "record" /\ w \in Works /\ Crawls(p, w)
    BY PageFacts DEF RecordCancelled, CrawlPoints, Crawls
  <1>2. \A v \in Works \ {w} : work'[v] = work[v]
    <2>1. CASE work' = work
      BY <2>1
    <2>2. CASE work' = [work EXCEPT ![w].state = "cancelled", ![w].marker = ""]
      BY <2>2 DEF TypeOK
    <2>. QED  BY <2>1, <2>2 DEF RecordCancelled
  <1>3. job'[p].at \notin CrawlPoints /\ \A q \in Procs \ {p} : job'[q] = job[q]
    BY DEF RecordCancelled, Stop, Idle, CrawlPoints, TypeOK
  <1>. HIDE DEF w
  <1>. QED  BY <1>1, <1>2, <1>3, CrawlEnds

LEMMA CreatingStays == ASSUME TypeOK, NEW p \in Procs, CreateWork(p) PROVE CrawlersStay
  <1>1. job[p].at \notin CrawlPoints
    BY DEF CreateWork, CrawlPoints
  <1>2. \E at : at \notin CrawlPoints /\ Goto(p, at)
    BY DEF CreateWork, CrawlPoints
  <1>3. job'[p].at \notin CrawlPoints /\ \A q \in Procs \ {p} : job'[q] = job[q]
    BY <1>2 DEF Goto, TypeOK, Job
  <1>. QED  BY <1>1, <1>3 DEF CrawlersStay, Crawls

LEMMA CrawlCreateWork ==
  ASSUME TypeOK, CrawlInv, NEW p \in Procs, CreateWork(p) PROVE CrawlInv' /\ Settles
  <1>1. KeepsClaims
    BY DEF CreateWork, KeepsClaims, TypeOK
  <1>. QED  BY <1>1, CreatingStays, CrawlKept DEF CrawlersLeave

LEMMA QuietReserve == ASSUME TypeOK, NEW p \in Procs, DispatchReserve(p) PROVE Quiet
  <1>1. SameStates
    BY DEF DispatchReserve, SameStates, TypeOK, WorkRow
  <1>2. CrawlersLeave
    <2>1. PICK b : job' = [job EXCEPT ![p] = [job[p] EXCEPT !.at = "send_pages", !.url = NoUrl,
                                                            !.batch = b]]
      BY DEF DispatchReserve
    <2>. QED  BY <2>1, PublishingOutside DEF TypeOK, JobsOK, CrawlPoints
  <1>. QED  BY <1>1, <1>2 DEF Quiet

LEMMA QuietIngest == ASSUME TypeOK, NEW p \in Procs, Ingest(p) PROVE Quiet
  <1>0. job[p].at \in CrawlPoints /\ JobsOK
    BY DEF Ingest, CrawlPoints, TypeOK, JobsOK
  <1>1. SameStates
    <2>. DEFINE w == <<job[p].sync, job[p].url>>
    <2>1. work' = work \/ work' = [work EXCEPT ![w] = [work[w] EXCEPT !.ingested = TRUE]]
      BY DEF Ingest, TypeOK
    <2>2. [work[w] EXCEPT !.ingested = TRUE].state = work[w].state \/ w \notin Works
      BY DEF TypeOK, WorkRow
    <2>. QED  BY <2>1, <2>2 DEF SameStates, TypeOK
  <1>2. CrawlersLeave
    BY <1>0, GotoOutside, EndOutside DEF Ingest
  <1>. QED  BY <1>1, <1>2 DEF Quiet

\* A crawler goes on, gives up or waits: the rows keep their states, or the
\* sync is cancelled.
LEMMA QuietContinues ==
  ASSUME TypeOK, NEW p \in Procs,
         \/ CheckEligibility(p) \/ IndexArticle(p) \/ BecameIneligible(p)
         \/ \E outcome \in {"retry", "fail", "gone"} : FetchFails(p, outcome)
  PROVE  Quiet
  <1>0. job[p].at \in CrawlPoints /\ JobsOK /\ job[p].sync \in Syncs
    BY JobFacts DEF CheckEligibility, IndexArticle, BecameIneligible, FetchFails, CrawlPoints
  <1>1. work' = work \/ CancelSync(job[p].sync)
    BY DEF CheckEligibility, IndexArticle, BecameIneligible, FetchFails, rows
  <1>2. CrawlersLeave
    BY <1>0, GotoOutside, EndOutside, StopOutside
       DEF CheckEligibility, IndexArticle, BecameIneligible, FetchFails
  <1>. QED  BY <1>0, <1>1, <1>2 DEF Quiet, SameStates

LEMMA CrawlStalePage ==
  ASSUME TypeOK, CrawlInv, StaleOutlivesTask, NEW w \in Works, RequeueStalePage(w)
  PROVE  CrawlInv' /\ Settles
  <1>1. ~Crawled(w)'
    BY DEF RequeueStalePage, Crawled, Crawls
  <1>2. work[w].state = "running" /\ \A v \in Works \ {w} : work'[v] = work[v]
    BY DEF RequeueStalePage, TypeOK
  <1>3. KeepsClaims
    BY <1>1, <1>2 DEF KeepsClaims
  <1>4. CrawlersLeave
    BY SameJobs DEF RequeueStalePage
  <1>. QED  BY <1>3, <1>4, CrawlKept

LEMMA QuietMarkers ==
  ASSUME TypeOK, NEW w \in Works, ClearStalePageMarker(w) \/ PageDue(w) PROVE Quiet
  <1>1. SameStates
    <2>1. work[w] \in WorkRow /\ work \in [Works -> WorkRow]
      BY DEF TypeOK
    <2>2. \/ work' = [work EXCEPT ![w] = [work[w] EXCEPT !.marker = ""]]
          \/ work' = [work EXCEPT ![w] = [work[w] EXCEPT !.due = TRUE]]
      BY <2>1 DEF ClearStalePageMarker, PageDue
    <2>3. /\ [work[w] EXCEPT !.marker = ""].state = work[w].state
          /\ [work[w] EXCEPT !.due = TRUE].state = work[w].state
      BY <2>1 DEF WorkRow
    <2>. QED  BY <2>1, <2>2, <2>3 DEF SameStates
  <1>2. CrawlersLeave
    BY SameJobs DEF ClearStalePageMarker, PageDue
  <1>. QED  BY <1>1, <1>2 DEF Quiet

LEMMA QuietNoop == ASSUME TypeOK, NEW p \in Procs, NEW w \in Works, ClaimPageNoop(p, w) PROVE Quiet
  <1>1. w[1] \in Syncs
    BY DEF Works
  <1>2. CrawlersLeave
    BY SameJobs DEF ClaimPageNoop
  <1>3. work' = work \/ CancelSync(w[1]) \/ work' = [work EXCEPT ![w].marker = ""]
    BY DEF ClaimPageNoop
  <1>4. work' = [work EXCEPT ![w].marker = ""] => SameStates
    BY MarkerStates DEF Markers
  <1>. QED  BY <1>1, <1>2, <1>3, <1>4 DEF Quiet, SameStates

\* Three steps of a handler are not quiet.
LEMMA QuietStep ==
  ASSUME TypeOK, NEW p \in Procs, Step(p)
  PROVE  Quiet \/ CreateWork(p) \/ RecordOutcome(p) \/ RecordCancelled(p)
  <1>0. JobsOK
    BY DEF TypeOK, JobsOK
  <1>1. CASE ReserveSync(p) \/ SendSync(p) \/ MarkSync(p) \/ Promote(p) \/ FinalizeSync(p)
             \/ FinalizeNothing(p)
    <2>1. work' = work
      BY <1>1 DEF ReserveSync, SendSync, MarkSync, Promote, FinalizeSync, FinalizeNothing, rows
    <2>2. CrawlersLeave
      BY <1>0, <1>1, GotoOutside, StopOutside DEF ReserveSync, SendSync, MarkSync, Promote,
         FinalizeSync, FinalizeNothing, CrawlPoints
    <2>. QED  BY <2>1, <2>2, QuietWork
  <1>2. CASE DispatchNothing(p)
    <2>1. job[p].sync \in Syncs
      BY <1>2, JobFacts DEF DispatchNothing
    <2>2. work' = work \/ CancelSync(job[p].sync)
      BY <1>2 DEF DispatchNothing
    <2>3. CrawlersLeave
      BY <1>0, <1>2, AfterDispatchOutside DEF DispatchNothing
    <2>. QED  BY <2>1, <2>2, <2>3 DEF Quiet, SameStates
  <1>3. ASSUME NEW u \in Urls, SendPage(p, u) PROVE Quiet
    <2>1. work' = work
      BY <1>3 DEF SendPage, rows
    <2>2. CrawlersLeave
      BY <1>0, <1>3, PublishingOutside DEF SendPage, CrawlPoints
    <2>. QED  BY <2>1, <2>2, QuietWork
  <1>4. CASE MarkPage(p)
    <2>1. <<job[p].sync, job[p].url>> \in Works
      BY <1>4, PageFacts DEF MarkPage
    <2>2. SameStates
      BY <1>4, <2>1, MarkerStates DEF MarkPage, Markers
    <2>3. CrawlersLeave
      BY <1>0, <1>4, NextPageOutside DEF MarkPage
    <2>. QED  BY <2>2, <2>3 DEF Quiet
  <1>. QED  BY <1>1, <1>2, <1>3, <1>4, QuietReserve, QuietIngest, QuietContinues DEF Step

LEMMA QuietFails == ASSUME TypeOK, NEW p \in Procs, Fails(p) PROVE Quiet
  <1>0. JobsOK
    BY DEF TypeOK, JobsOK
  <1>1. CASE SendSyncFails(p) \/ RequeueSync(p) \/ FailSync(p) \/ Crash(p)
    <2>1. work' = work
      BY <1>1 DEF SendSyncFails, RequeueSync, FailSync, Crash, rows
    <2>2. CrawlersLeave
      BY <1>0, <1>1, StopOutside DEF SendSyncFails, RequeueSync, FailSync, Crash
    <2>. QED  BY <2>1, <2>2, QuietWork
  <1>2. ASSUME NEW u \in Urls, SendPageFails(p, u) PROVE Quiet
    <2>1. <<job[p].sync, u>> \in Works
      BY <1>2, JobFacts DEF SendPageFails, Works
    <2>2. SameStates
      BY <1>2, <2>1, MarkerStates DEF SendPageFails, Markers
    <2>3. CrawlersLeave
      BY <1>0, <1>2, NextPageOutside DEF SendPageFails
    <2>. QED  BY <2>2, <2>3 DEF Quiet
  <1>. QED  BY <1>1, <1>2, QuietContinues DEF Fails

LEMMA QuietMessages ==
  ASSUME TypeOK, NEW p \in Procs, NEW s \in Syncs,
         Request(p, s) \/ DeliverSync(p, s) \/ SweepEnqueue(p, s) \/ SweepRunning(p, s)
  PROVE  Quiet
  <1>0. JobsOK
    BY DEF TypeOK, JobsOK
  <1>1. CASE Request(p, s) \/ ClaimSync(p, s) \/ SweepEnqueue(p, s) \/ SweepRunning(p, s)
    <2>1. work' = work
      BY <1>1 DEF Request, Submit, ScheduleDaily, RetryCreate, RetryReuse, CreateSync, ClaimSync,
         SweepEnqueue, SweepRunning, rows
    <2>2. CrawlersLeave
      BY <1>0, <1>1, StartOutside DEF Request, Submit, ScheduleDaily, RetryCreate, RetryReuse,
         CreateSync, ClaimSync, SweepEnqueue, SweepRunning, CrawlPoints
    <2>. QED  BY <2>1, <2>2, QuietWork
  <1>2. CASE ClaimSyncNoop(p, s)
    <2>1. work' = work \/ CancelSync(s)
      BY <1>2 DEF ClaimSyncNoop
    <2>2. CrawlersLeave
      BY <1>2, SameJobs DEF ClaimSyncNoop
    <2>. QED  BY <2>1, <2>2 DEF Quiet, SameStates
  <1>. QED  BY <1>1, <1>2 DEF DeliverSync

LEMMA QuietElsewhere == ASSUME UNCHANGED <<work, job>> PROVE Quiet
  BY SameJobs, QuietWork

\* The steps that hand out or decide pages; every other step is quiet.
PageStep ==
  \/ \E p \in Procs : CreateWork(p) \/ RecordOutcome(p) \/ RecordCancelled(p)
  \/ \E p \in Procs, w \in Works : ClaimPage(p, w)
  \/ \E w \in Works : RequeueStalePage(w)

LEMMA StepKinds == ASSUME TypeOK, [Next]_vars PROVE Quiet \/ PageStep
  <1>1. CASE Suspend \/ Reactivate \/ ReadForm \/ SaveForm \/ DropForm \/ UNCHANGED vars
    BY <1>1, QuietElsewhere DEF Suspend, Reactivate, ReadForm, SaveForm, DropForm, vars, rows
  <1>2. ASSUME NEW s \in Syncs,
               LoseSyncMsg(s) \/ SyncDue(s) \/ RequeueStaleSync(s) \/ ClearStaleSyncMarker(s)
        PROVE  Quiet
    BY <1>2, QuietElsewhere DEF LoseSyncMsg, SyncDue, RequeueStaleSync, ClearStaleSyncMarker, rows
  <1>3. ASSUME NEW w \in Works, LosePageMsg(w) PROVE Quiet
    BY <1>3, QuietElsewhere DEF LosePageMsg, rows
  <1>4. ASSUME NEW p \in Procs, Step(p) PROVE Quiet \/ PageStep
    BY <1>4, QuietStep DEF PageStep
  <1>5. ASSUME NEW p \in Procs, NEW w \in Works, DeliverPage(p, w) PROVE Quiet \/ PageStep
    BY <1>5, QuietNoop DEF DeliverPage, PageStep
  <1>6. ASSUME NEW w \in Works, RequeueStalePage(w) PROVE PageStep
    BY <1>6 DEF PageStep
  <1>. QED  BY <1>1, <1>2, <1>3, <1>4, <1>5, <1>6, QuietFails, QuietMessages, QuietMarkers
            DEF Next, WorkerNext, Sweep

LEMMA CrawlNext ==
  ASSUME StaleOutlivesTask, TypeOK, CrawlInv, [Next]_vars PROVE CrawlInv' /\ Settles
  BY StepKinds, QuietKept, CrawlCreateWork, CrawlRecordOutcome, CrawlRecordCancelled,
     CrawlClaimPage, CrawlStalePage DEF PageStep

LEMMA CrawlInit == Init => CrawlInv
  BY DEF Init, CrawlInv, CrawledIsClaimed, ExclusiveCrawl, Crawls, Idle, CrawlPoints

LEMMA CrawlAlways == ASSUME StaleOutlivesTask PROVE Spec => [](TypeOK /\ CrawlInv)
  <1>1. TypeOK /\ CrawlInv /\ [Next]_vars => (TypeOK /\ CrawlInv)'
    BY TypeNext, CrawlNext
  <1>. QED  BY <1>1, TypeInit, CrawlInit, PTL DEF Spec

\* While the recovery cutoff outlives the task timeout, no two processes ever
\* crawl the same page at once, for any number of workers, duplicate messages,
\* crashes and sweeps.
THEOREM ExclusiveCrawlHolds == ASSUME StaleOutlivesTask PROVE Spec => []ExclusiveCrawl
  <1>1. TypeOK /\ CrawlInv => ExclusiveCrawl
    BY DEF CrawlInv
  <1>. QED  BY <1>1, CrawlAlways, PTL

\* Under the same assumption, the row of a page being crawled is running, or
\* was cancelled under its crawler.
THEOREM CrawledIsClaimedHolds == ASSUME StaleOutlivesTask PROVE Spec => []CrawledIsClaimed
  <1>1. TypeOK /\ CrawlInv => CrawledIsClaimed
    BY DEF CrawlInv
  <1>. QED  BY <1>1, CrawlAlways, PTL

\* Under the same assumption, a page that succeeded or failed keeps that state:
\* no late outcome, duplicate message, sweep or cancellation rewrites it.
THEOREM SettledPagesStayHolds == ASSUME StaleOutlivesTask PROVE Spec => SettledPagesStay
  <1>1. TypeOK /\ CrawlInv /\ [Next]_vars =>
          [\A w \in Works : work[w].state \in {"succeeded", "failed"}
              => work'[w].state = work[w].state]_vars
    BY CrawlNext DEF Settles
  <1>. QED  BY <1>1, CrawlAlways, PTL DEF Spec, SettledPagesStay

-----------------------------------------------------------------------------
(* The per-site limit.                                                     *)

\* What every step but a claim does to the work rows.
ClaimsNothing == \A w \in Works : work'[w].state = "running" => work[w].state = "running"

LEMMA RunningFinite == IsFiniteSet(RunningWorks) /\ Cardinality(RunningWorks) \in Nat
  <1>1. IsFiniteSet(Works)
    BY SyncsAssumption, UrlsAssumption, FS_Product DEF Works
  <1>2. IsFiniteSet(RunningWorks)
    BY <1>1, FS_Subset DEF RunningWorks
  <1>. QED  BY <1>2, FS_CardinalityType

LEMMA LimitKept ==
  ASSUME RunningWithinLimit, ClaimsNothing PROVE RunningWithinLimit'
  <1>1. RunningWorks' \subseteq RunningWorks
    BY DEF ClaimsNothing, RunningWorks
  <1>2. Cardinality(RunningWorks') <= Cardinality(RunningWorks) /\ Cardinality(RunningWorks') \in Nat
    BY <1>1, RunningFinite, FS_Subset, FS_CardinalityType
  <1>. QED  BY <1>2, RunningFinite, LimitsAssumption DEF RunningWithinLimit

LEMMA LimitClaim ==
  ASSUME TypeOK, NEW p \in Procs, NEW w \in Works, ClaimPage(p, w) PROVE RunningWithinLimit'
  <1>1. w \notin RunningWorks /\ Cardinality(RunningWorks) < PerSite
    BY RunningFinite, LimitsAssumption DEF ClaimPage, Claimable, RunningWorks, SiteFull
  <1>2. RunningWorks' = RunningWorks \cup {w}
    <2>1. /\ work'[w].state = "running"
          /\ \A v \in Works \ {w} : work'[v] = work[v]
      BY DEF ClaimPage, TypeOK, WorkRow
    <2>. QED  BY <2>1 DEF RunningWorks
  <1>3. Cardinality(RunningWorks') = Cardinality(RunningWorks) + 1
    BY <1>1, <1>2, RunningFinite, FS_AddElement
  <1>. QED  BY <1>1, <1>3, RunningFinite, LimitsAssumption DEF RunningWithinLimit

LEMMA LimitQuiet == ASSUME TypeOK, Quiet PROVE ClaimsNothing
  <1>1. ASSUME NEW s \in Syncs, CancelSync(s) PROVE ClaimsNothing
    BY <1>1 DEF CancelSync, ClaimsNothing, TypeOK, WorkRow
  <1>. QED  BY <1>1 DEF Quiet, SameStates, ClaimsNothing

LEMMA LimitStep ==
  ASSUME TypeOK, NEW p \in Procs, CreateWork(p) \/ RecordOutcome(p) \/ RecordCancelled(p)
  PROVE  ClaimsNothing
  <1>. DEFINE w == <<job[p].sync, job[p].url>>
  <1>1. CASE CreateWork(p)
    <2>1. PICK c : work' = [v \in Works |-> IF v \in {job[p].sync} \X c /\ work[v].state = "absent"
                              THEN [NewWork EXCEPT !.state = "queued"] ELSE work[v]]
      BY <1>1 DEF CreateWork
    <2>2. [NewWork EXCEPT !.state = "queued"].state = "queued"
      BY DEF NewWork
    <2>. QED  BY <2>1, <2>2 DEF ClaimsNothing
  <1>2. CASE RecordOutcome(p)
    <2>1. w \in Works /\ work[w] \in WorkRow /\ work' = [work EXCEPT ![w] = Settled(w, job[p].outcome)]
      BY <1>2, PageFacts DEF RecordOutcome, CrawlPoints
    <2>2. Settled(w, job[p].outcome).state # "running"
      BY <2>1 DEF Settled, WorkRow
    <2>. QED  BY <2>1, <2>2 DEF ClaimsNothing, TypeOK
  <1>3. CASE RecordCancelled(p)
    <2>1. w \in Works /\ work[w] \in WorkRow
      BY <1>3, PageFacts DEF RecordCancelled, CrawlPoints
    <2>2. work' = work \/ work' = [work EXCEPT ![w] = [work[w] EXCEPT !.state = "cancelled",
                                                                      !.marker = ""]]
      BY <1>3, <2>1 DEF RecordCancelled, TypeOK
    <2>3. [work[w] EXCEPT !.state = "cancelled", !.marker = ""].state = "cancelled"
      BY <2>1 DEF WorkRow
    <2>. QED  BY <2>1, <2>2, <2>3 DEF ClaimsNothing, TypeOK
  <1>. QED  BY <1>1, <1>2, <1>3

LEMMA LimitNext == TypeOK /\ RunningWithinLimit /\ [Next]_vars => RunningWithinLimit'
  <1>1. ASSUME TypeOK, NEW w \in Works, RequeueStalePage(w) PROVE ClaimsNothing
    <2>1. \A v \in Works : work'[v] = work[v] \/ work'[v].state = "queued"
      BY <1>1 DEF RequeueStalePage, TypeOK, WorkRow
    <2>. QED  BY <2>1 DEF ClaimsNothing
  <1>. QED  BY <1>1, StepKinds, LimitQuiet, LimitStep, LimitKept, LimitClaim DEF PageStep

\* However many workers claim pages, however many duplicates they are sent, the
\* running rows of the site never exceed CRAWL_PER_SITE_CONCURRENCY.
THEOREM RunningWithinLimitHolds == Spec => []RunningWithinLimit
  <1>1. Init => RunningWithinLimit
    <2>. SUFFICES ASSUME Init PROVE RunningWithinLimit
      OBVIOUS
    <2>1. RunningWorks = {}
      BY DEF Init, RunningWorks, NewWork
    <2>. QED  BY <2>1, FS_EmptySet, LimitsAssumption DEF RunningWithinLimit
  <1>2. TypeOK /\ RunningWithinLimit /\ [Next]_vars => (TypeOK /\ RunningWithinLimit)'
    BY TypeNext, LimitNext
  <1>. QED  BY <1>1, <1>2, TypeInit, PTL DEF Spec

-----------------------------------------------------------------------------
(* The leases of PageLeases.  A quiet step lets a worker go, calls pages   *)
(* off, or changes nothing there; each of the others is one action.        *)

States == [w \in Works |-> work[w].state]
Holders == [w \in Works |-> {p \in Procs : Crawls(p, w)}]

LEMMA HoldersStay == ASSUME CrawlersStay PROVE Holders' = Holders
  BY DEF CrawlersStay, Holders

LEMMA HoldersLeave == ASSUME NEW p \in Procs, Leaves(p) PROVE Leases!Lets(p)
  <1>1. \A w \in Works : {q \in Procs : Crawls(q, w)}' = Holders[w] \ {p}
    BY DEF Leaves, Holders
  <1>. QED  BY <1>1 DEF Leases!Lets, Holders

LEMMA LeaseCancel ==
  ASSUME TypeOK, CrawlersLeave, NEW s \in Syncs, CancelSync(s) PROVE Leases!CallOff(WorksOf(s))
  <1>1. \A w \in Works : work'[w].state = IF w \in WorksOf(s) /\ States[w] \in {"queued", "running"}
                                          THEN "cancelled" ELSE States[w]
    BY DEF CancelSync, Unfinished, TypeOK, WorkRow, States
  <1>2. States' = [w \in Works |-> IF w \in WorksOf(s) /\ States[w] \in {"queued", "running"}
                                   THEN "cancelled" ELSE States[w]]
    BY <1>1 DEF States
  <1>. QED  BY <1>2, HoldersStay, HoldersLeave DEF CrawlersLeave, Leases!CallOff, States, Holders

LEMMA LeaseQuiet == ASSUME TypeOK, Quiet PROVE [Leases!LeaseNext]_(Leases!leaseVars)
  <1>1. ASSUME NEW s \in Syncs, CancelSync(s) PROVE Leases!LeaseNext
    <2>1. WorksOf(s) \in SUBSET Works
      BY DEF WorksOf, Works
    <2>. QED  BY <1>1, <2>1, LeaseCancel DEF Quiet, Leases!LeaseNext
  <1>2. CASE SameStates
    <2>1. States' = States
      BY <1>2 DEF SameStates, States
    <2>2. CASE CrawlersStay
      BY <2>1, <2>2, HoldersStay DEF Leases!leaseVars, States, Holders
    <2>3. ASSUME NEW p \in Procs, Leaves(p) PROVE Leases!LeaseNext
      BY <2>1, <2>3, HoldersLeave DEF Leases!Leave, Leases!LeaseNext, States
    <2>. QED  BY <2>2, <2>3 DEF Quiet, CrawlersLeave
  <1>. QED  BY <1>1, <1>2 DEF Quiet

LEMMA LeaseOffer == ASSUME TypeOK, NEW p \in Procs, CreateWork(p) PROVE Leases!LeaseNext
  <1>1. PICK c \in Selections(job[p].sync) :
          work' = [w \in Works |-> IF w \in {job[p].sync} \X c /\ work[w].state = "absent"
                                   THEN [NewWork EXCEPT !.state = "queued"] ELSE work[w]]
    BY DEF CreateWork
  <1>2. PICK new \in SUBSET Works :
          new = {w \in Works : w \in {job[p].sync} \X c /\ work[w].state = "absent"}
    OBVIOUS
  <1>3. States' = [w \in Works |-> IF w \in new THEN "queued" ELSE States[w]]
    BY <1>2, <1>1 DEF States, NewWork
  <1>4. Holders' = Holders
    BY CreatingStays, HoldersStay
  <1>5. Leases!Offer(new)
    BY <1>2, <1>3, <1>4 DEF Leases!Offer, States, Holders
  <1>. QED  BY <1>5 DEF Leases!LeaseNext

\* The instance has a Cardinality of its own.
LEMMA LeaseCount == \A S : Leases!Cardinality(S) = Cardinality(S)
  BY DEF Leases!Cardinality, Leases!IsFiniteSet, Cardinality, IsFiniteSet

LEMMA LeaseTake ==
  ASSUME TypeOK, CrawlInv, NEW p \in Procs, NEW w \in Works, ClaimPage(p, w)
  PROVE  Leases!LeaseNext
  <1>1. work[w].state = "queued" /\ job[p] = Idle
    BY DEF ClaimPage, Claimable, IsIdle
  <1>2. States' = [States EXCEPT ![w] = "running"]
    BY DEF ClaimPage, TypeOK, WorkRow, States
  <1>3. \A v \in Works : ~Crawls(p, v)
    BY <1>1 DEF Crawls, Idle, CrawlPoints
  <1>4. \A q \in Procs : ~Crawls(q, w)
    BY <1>1 DEF CrawlInv, CrawledIsClaimed
  <1>5. \A v \in Works, q \in Procs : Crawls(q, v)' <=> Crawls(q, v) \/ (q = p /\ v = w)
    <2>1. \A q \in Procs \ {p} : job'[q] = job[q]
      BY DEF ClaimPage, Start, TypeOK
    <2>2. job'[p].sync = w[1] /\ job'[p].url = w[2] /\ job'[p].at = "crawl"
      BY DEF ClaimPage, Start, TypeOK, Idle
    <2>. QED  BY <1>3, <2>1, <2>2 DEF Crawls, Works, CrawlPoints
  <1>6. Holders' = [Holders EXCEPT ![w] = {p}]
    BY <1>4, <1>5 DEF Holders
  <1>7. Cardinality(Leases!Out) < PerSite
    <2>1. Leases!Out = RunningWorks
      BY DEF Leases!Out, RunningWorks
    <2>. QED  BY <2>1, RunningFinite, LimitsAssumption DEF ClaimPage, SiteFull
  <1>8. Holders[w] = {} /\ Leases!HeldBy(p) = {} /\ States[w] = "queued"
    BY <1>1, <1>3, <1>4 DEF Holders, States, Leases!HeldBy
  <1>9. Leases!Take(p, w)
    BY <1>2, <1>6, <1>7, <1>8, LeaseCount DEF Leases!Take, States, Holders
  <1>. QED  BY <1>9 DEF Leases!LeaseNext

\* The end of a crawl, for the page's only crawler.
LEMMA LeaseReport ==
  ASSUME TypeOK, CrawlInv, NEW p \in Procs, NEW w \in Works, Crawls(p, w),
         job'[p].at \notin CrawlPoints, \A q \in Procs \ {p} : job'[q] = job[q],
         \A v \in Works \ {w} : work'[v] = work[v],
         work'[w].state \in {"succeeded", "failed", "cancelled", "queued"}
  PROVE  Leases!LeaseNext
  <1>1. \A q \in Procs : Crawls(q, w) => q = p
    BY DEF CrawlInv, ExclusiveCrawl
  <1>2. Leaves(p)
    BY JobLeaves
  <1>3. \A v \in Works \ {w} : ~Crawls(p, v)
    BY DEF Crawls
  <1>4. Holders[w] = {p} /\ Holders' = [Holders EXCEPT ![w] = {}]
    BY <1>1, <1>2, <1>3 DEF Leaves, Holders
  <1>5. States[w] \in {"running", "cancelled"}
    BY DEF CrawlInv, CrawledIsClaimed, States
  <1>6. States' = [States EXCEPT ![w] = work'[w].state]
    BY DEF States
  <1>7. Leases!Report(p, w)
    BY <1>4, <1>5, <1>6 DEF Leases!Report, States, Holders
  <1>. QED  BY <1>7 DEF Leases!LeaseNext

LEMMA LeaseRecord ==
  ASSUME TypeOK, CrawlInv, NEW p \in Procs, RecordOutcome(p) \/ RecordCancelled(p)
  PROVE  Leases!LeaseNext
  <1>. DEFINE w == <<job[p].sync, job[p].url>>
  <1>1. job[p].at = "record" /\ w \in Works /\ Crawls(p, w)
    BY PageFacts DEF RecordOutcome, RecordCancelled, CrawlPoints, Crawls
  <1>2. job'[p].at \notin CrawlPoints /\ \A q \in Procs \ {p} : job'[q] = job[q]
    <2>1. RecordOutcome(p) => Start(p, "page", "finalize", w[1], NoUrl)
      BY DEF RecordOutcome
    <2>2. RecordCancelled(p) => Stop(p)
      BY DEF RecordCancelled
    <2>3. [Idle EXCEPT !.task = "page", !.at = "finalize", !.sync = w[1], !.url = NoUrl].at
            = "finalize"
      BY DEF Idle
    <2>. HIDE DEF w
    <2>4. \E r : r.at \notin CrawlPoints /\ job' = [job EXCEPT ![p] = r]
      BY <2>1, <2>2, <2>3 DEF Start, Stop, Idle, CrawlPoints
    <2>. QED  BY <2>4 DEF TypeOK
  <1>3. CASE RecordOutcome(p)
    <2>1. work' = [work EXCEPT ![w] = Settled(w, job[p].outcome)]
      BY <1>3 DEF RecordOutcome
    <2>2. Settled(w, job[p].outcome).state \in {"succeeded", "failed", "queued"}
      BY <1>1 DEF Settled, TypeOK, WorkRow
    <2>. HIDE DEF w
    <2>. QED  BY <1>1, <1>2, <2>1, <2>2, LeaseReport DEF TypeOK
  <1>4. CASE RecordCancelled(p)
    <2>1. \/ work' = work /\ work[w].state = "cancelled"
          \/ work' = [work EXCEPT ![w] = [work[w] EXCEPT !.state = "cancelled", !.marker = ""]]
      BY <1>1, <1>4 DEF RecordCancelled, TypeOK
    <2>2. [work[w] EXCEPT !.state = "cancelled", !.marker = ""].state = "cancelled"
      BY <1>1 DEF TypeOK, WorkRow
    <2>. HIDE DEF w
    <2>. QED  BY <1>1, <1>2, <2>1, <2>2, LeaseReport DEF TypeOK
  <1>. QED  BY <1>3, <1>4

LEMMA LeaseReclaim ==
  ASSUME TypeOK, StaleOutlivesTask, NEW w \in Works, RequeueStalePage(w) PROVE Leases!LeaseNext
  <1>1. States[w] = "running" /\ Holders[w] = {}
    BY DEF RequeueStalePage, Crawled, States, Holders
  <1>2. States' = [States EXCEPT ![w] = "queued"]
    BY DEF RequeueStalePage, TypeOK, WorkRow, States
  <1>3. Holders' = Holders
    BY HoldersStay DEF RequeueStalePage, CrawlersStay, Crawls
  <1>4. Leases!Reclaim(w)
    BY <1>1, <1>2, <1>3 DEF Leases!Reclaim, States, Holders
  <1>. QED  BY <1>4 DEF Leases!LeaseNext

LEMMA LeaseInit == Init => Leases!LeaseInit
  <1>. SUFFICES ASSUME Init PROVE Leases!LeaseInit
    OBVIOUS
  <1>1. \A w \in Works : work[w].state = "absent"
    BY DEF Init, NewWork
  <1>2. \A w \in Works, p \in Procs : ~Crawls(p, w)
    BY DEF Init, Crawls, Idle, CrawlPoints
  <1>. QED  BY <1>1, <1>2 DEF Leases!LeaseInit

\* While the recovery cutoff outlives the task timeout, the crawl implements
\* PageLeases: for any number of pages, workers and messages, and any limit, a
\* page is handed to one worker at a time, under the limit, and only that
\* worker's report or a cancellation decides it.
THEOREM LeasesImplementedHolds == ASSUME StaleOutlivesTask PROVE Spec => LeasesImplemented
  <1>1. TypeOK /\ CrawlInv /\ [Next]_vars => [Leases!LeaseNext]_(Leases!leaseVars)
    BY StepKinds, LeaseQuiet, LeaseOffer, LeaseTake, LeaseRecord, LeaseReclaim DEF PageStep
  <1>. QED  BY <1>1, CrawlAlways, LeaseInit, PTL DEF Spec, LeasesImplemented, Leases!LeaseSpec

-----------------------------------------------------------------------------
(* Reservations and the messages behind them.                              *)

Publishers == {"send_pages", "mark_page"}

\* A step that reserves nothing, and one that leaves every backing in place.
ReservesNothing == ReservedWorks' \subseteq ReservedWorks
KeepsBacking == \A w \in Works : Backed(w) => Backed(w)'

LEMMA BackedKept ==
  ASSUME ReservationsBacked, ReservesNothing, KeepsBacking, UNCHANGED faults
  PROVE  ReservationsBacked'
  BY DEF ReservationsBacked, ReservesNothing, KeepsBacking, ReservedWorks

\* After a fault nothing is claimed any more: faults never grow back.
LEMMA BackedFaulty == ASSUME TypeOK, CanFault PROVE ReservationsBacked'
  <1>. faults \in 0..MaxFaults
    BY DEF TypeOK
  <1>. QED  BY LimitsAssumption DEF CanFault, ReservationsBacked

\* A process that publishes nothing, or has nothing left to publish, backs nothing.
LEMMA BackingKept ==
  ASSUME TypeOK, NEW p \in Procs, NEW r, job' = [job EXCEPT ![p] = r], UNCHANGED pageMsgs,
         job[p].at \in Publishers => job[p].batch = {}
  PROVE  KeepsBacking
  <1>. SUFFICES ASSUME NEW w \in Works, Backed(w) PROVE Backed(w)'
    BY DEF KeepsBacking
  <1>1. CASE pageMsgs[w] > 0
    BY <1>1 DEF Backed
  <1>2. ASSUME NEW q \in Procs, job[q].sync = w[1], job[q].at \in Publishers,
               w[2] \in job[q].batch
        PROVE  Backed(w)'
    <2>1. q # p
      BY <1>2
    <2>2. job'[q] = job[q]
      BY <2>1 DEF TypeOK
    <2>. QED  BY <1>2, <2>2 DEF Backed, Publishers
  <1>. QED  BY <1>1, <1>2 DEF Backed, Publishers

LEMMA SameBacking == ASSUME UNCHANGED <<pageMsgs, job>> PROVE KeepsBacking
  BY DEF KeepsBacking, Backed

\* Moves of one process from a point outside the publication loop.
LEMMA MoveBacking ==
  ASSUME TypeOK, NEW p \in Procs, job[p].at \in Publishers => job[p].batch = {},
         UNCHANGED pageMsgs,
         \/ Stop(p) \/ AfterDispatch(p)
         \/ \E at \in Points : Goto(p, at)
         \/ \E outcome \in Outcomes : EndWith(p, outcome)
         \/ \E task \in Tasks, at \in Points : \E s, u : Start(p, task, at, s, u)
  PROVE  KeepsBacking
  <1>1. \E r : job' = [job EXCEPT ![p] = r]
    <2>1. ASSUME NEW at \in Points, Goto(p, at) PROVE \E r : job' = [job EXCEPT ![p] = r]
      <3>1. job' = [job EXCEPT ![p] = [job[p] EXCEPT !.at = at]]
        BY <2>1 DEF Goto, TypeOK
      <3>. QED  BY <3>1
    <2>. QED  BY <2>1 DEF Stop, AfterDispatch, EndWith, Start
  <1>. QED  BY <1>1, BackingKept

LEMMA SameReserves == ASSUME UNCHANGED work PROVE ReservesNothing
  BY DEF ReservesNothing, ReservedWorks

LEMMA CancelReserves ==
  ASSUME TypeOK, NEW s \in Syncs, CancelSync(s) PROVE ReservesNothing
  BY DEF CancelSync, ReservesNothing, ReservedWorks, TypeOK, WorkRow

\* An update of one row that reserves nothing.
LEMMA RowReserves ==
  ASSUME TypeOK, NEW w \in Works, NEW r, work' = [work EXCEPT ![w] = r],
         r.state = "queued" /\ r.marker # "" => w \in ReservedWorks
  PROVE  ReservesNothing
  BY DEF ReservesNothing, ReservedWorks, TypeOK

LEMMA MarkerReserves ==
  ASSUME TypeOK, NEW w \in Works, NEW m \in Markers,
         SettlePageMarker(w, m) \/ (m = "" /\ work' = [work EXCEPT ![w].marker = m])
  PROVE  ReservesNothing
  <1>1. work \in [Works -> WorkRow] /\ work[w] \in WorkRow
    BY DEF TypeOK
  <1>2. /\ \A v \in Works \ {w} : work'[v] = work[v]
        /\ work'[w].state = work[w].state
        /\ work'[w].marker # "" => work[w].marker # ""
    BY <1>1 DEF SettlePageMarker, WorkRow
  <1>. QED  BY <1>2 DEF ReservesNothing, ReservedWorks

LEMMA BackedDispatch ==
  ASSUME TypeOK, ReservationsBacked, NEW p \in Procs, DispatchReserve(p)
  PROVE  ReservationsBacked'
  <1>. DEFINE s == job[p].sync
  <1>0. job[p].at = "dispatch" /\ s \in Syncs /\ job \in [Procs -> Job]
    BY JobFacts DEF DispatchReserve, JobsOK
  <1>1. PICK b \in Reservations(s) :
          /\ work' = [w \in Works |-> IF w \in b THEN [work[w] EXCEPT !.marker = "dispatching"]
                                      ELSE work[w]]
          /\ job' = [job EXCEPT ![p] = [job[p] EXCEPT !.at = "send_pages", !.url = NoUrl,
                                                      !.batch = {w[2] : w \in b}]]
    BY DEF DispatchReserve
  <1>2. b \subseteq WorksOf(s)
    BY <1>1 DEF Reservations, Dispatchable
  <1>3. KeepsBacking
    BY <1>0, <1>1, BackingKept DEF DispatchReserve, broker, Publishers
  <1>4. ASSUME NEW w \in b PROVE Backed(w)'
    <2>1. w[1] = s /\ w[2] \in {v[2] : v \in b}
      BY <1>2 DEF WorksOf
    <2>2. job'[p].sync = s /\ job'[p].at = "send_pages" /\ w[2] \in job'[p].batch
      BY <1>0, <1>1, <2>1 DEF Job
    <2>. QED  BY <2>1, <2>2 DEF Backed
  <1>5. ASSUME NEW w \in ReservedWorks', w \notin b PROVE w \in ReservedWorks
    BY <1>1, <1>5 DEF ReservedWorks
  <1>. QED  BY <1>3, <1>4, <1>5 DEF ReservationsBacked, DispatchReserve, ReservedWorks, KeepsBacking

LEMMA BackedSend ==
  ASSUME TypeOK, ReservationsBacked, NEW p \in Procs, NEW u \in Urls, SendPage(p, u)
  PROVE  ReservationsBacked'
  <1>. DEFINE w == <<job[p].sync, u>>
  <1>0. job[p].at = "send_pages" /\ w \in Works /\ job \in [Procs -> Job]
    BY JobFacts DEF SendPage, JobsOK, Works
  <1>1. pageMsgs \in [Works -> 0..MaxCopies] /\ Pushed(pageMsgs[w]) > 0
    BY <1>0, LimitsAssumption DEF TypeOK, Pushed
  <1>2. KeepsBacking
    <2>. SUFFICES ASSUME NEW v \in Works, Backed(v) PROVE Backed(v)'
      BY DEF KeepsBacking
    <2>1. CASE v = w
      BY <1>0, <1>1, <2>1 DEF SendPage, Backed
    <2>2. CASE v # w
      <3>1. pageMsgs'[v] = pageMsgs[v]
        BY <1>0, <1>1, <2>2 DEF SendPage
      <3>2. ASSUME NEW q \in Procs, job[q].sync = v[1], job[q].at \in Publishers,
                   v[2] \in job[q].batch
            PROVE  Backed(v)'
        <4>1. CASE q = p
          <5>1. v[2] # u
            BY <2>2, <3>2, <4>1 DEF Works
          <5>2. job'[p].sync = job[p].sync /\ job'[p].at = "mark_page"
                /\ job'[p].batch = job[p].batch \ {u}
            BY <1>0 DEF SendPage, Job
          <5>. QED  BY <3>2, <4>1, <5>1, <5>2 DEF Backed
        <4>2. CASE q # p
          <5>1. job'[q] = job[q]
            BY <1>0, <4>2 DEF SendPage
          <5>. QED  BY <3>2, <5>1 DEF Backed, Publishers
        <4>. QED  BY <4>1, <4>2
      <3>. QED  BY <3>1, <3>2 DEF Backed, Publishers
    <2>. QED  BY <2>1, <2>2
  <1>. QED  BY <1>2, SameReserves, BackedKept DEF SendPage, rows

LEMMA BackedMark ==
  ASSUME TypeOK, ReservationsBacked, NEW p \in Procs, MarkPage(p) PROVE ReservationsBacked'
  <1>0. job[p].at = "mark_page" /\ <<job[p].sync, job[p].url>> \in Works /\ job \in [Procs -> Job]
    BY PageFacts DEF MarkPage, TypeOK
  <1>1. ReservesNothing
    BY <1>0, MarkerReserves DEF MarkPage, Markers
  <1>2. KeepsBacking
    <2>1. CASE job[p].batch = {}
      BY <1>0, <2>1, MoveBacking DEF MarkPage, NextPage, broker
    <2>2. CASE job[p].batch # {}
      <3>1. job' = [job EXCEPT ![p] = [job[p] EXCEPT !.at = "send_pages", !.url = NoUrl,
                                                     !.batch = job[p].batch]]
        BY <2>2 DEF MarkPage, NextPage
      <3>2. /\ job'[p].sync = job[p].sync /\ job'[p].at = "send_pages"
            /\ job'[p].batch = job[p].batch
            /\ \A q \in Procs \ {p} : job'[q] = job[q]
        BY <1>0, <3>1 DEF Job
      <3>3. UNCHANGED pageMsgs
        BY DEF MarkPage, broker
      <3>. QED  BY <3>2, <3>3 DEF KeepsBacking, Backed
    <2>. QED  BY <2>1, <2>2
  <1>. QED  BY <1>1, <1>2, BackedKept DEF MarkPage

LEMMA BackedStep ==
  ASSUME TypeOK, ReservationsBacked, NEW p \in Procs, Step(p) PROVE ReservationsBacked'
  <1>. DEFINE w == <<job[p].sync, job[p].url>>
  <1>1. CASE ReserveSync(p) \/ SendSync(p) \/ MarkSync(p) \/ Promote(p) \/ FinalizeSync(p)
             \/ FinalizeNothing(p) \/ IndexArticle(p)
    <2>1. ReservesNothing
      BY <1>1, SameReserves DEF ReserveSync, SendSync, MarkSync, Promote, FinalizeSync,
         FinalizeNothing, IndexArticle, rows
    <2>2. KeepsBacking
      BY <1>1, MoveBacking DEF ReserveSync, SendSync, MarkSync, Promote, FinalizeSync,
         FinalizeNothing, IndexArticle, rows, broker, Publishers, Points, CrawlPoints, Outcomes
    <2>. QED  BY <1>1, <2>1, <2>2, BackedKept DEF ReserveSync, SendSync, MarkSync, Promote,
         FinalizeSync, FinalizeNothing, IndexArticle
  <1>2. CASE DispatchNothing(p) \/ CheckEligibility(p) \/ BecameIneligible(p)
    <2>1. job[p].sync \in Syncs
      BY <1>2, JobFacts DEF DispatchNothing, CheckEligibility, BecameIneligible
    <2>2. work' = work \/ CancelSync(job[p].sync)
      BY <1>2 DEF DispatchNothing, CheckEligibility, BecameIneligible
    <2>3. KeepsBacking
      BY <1>2, MoveBacking DEF DispatchNothing, CheckEligibility, BecameIneligible, broker,
         Publishers, Points, CrawlPoints, Outcomes
    <2>. QED  BY <1>2, <2>1, <2>2, <2>3, SameReserves, CancelReserves, BackedKept
              DEF DispatchNothing, CheckEligibility, BecameIneligible
  <1>3. CASE CreateWork(p)
    <2>1. PICK c : work' = [v \in Works |-> IF v \in {job[p].sync} \X c /\ work[v].state = "absent"
                              THEN [NewWork EXCEPT !.state = "queued"] ELSE work[v]]
      BY <1>3 DEF CreateWork
    <2>2. [NewWork EXCEPT !.state = "queued"].marker = ""
      BY DEF NewWork
    <2>3. ReservesNothing
      BY <2>1, <2>2 DEF ReservesNothing, ReservedWorks
    <2>4. KeepsBacking
      BY <1>3, MoveBacking DEF CreateWork, broker, Publishers, Points
    <2>. QED  BY <1>3, <2>3, <2>4, BackedKept DEF CreateWork
  <1>4. CASE Ingest(p)
    <2>1. w \in Works /\ work[w] \in WorkRow
      BY <1>4, PageFacts DEF Ingest, CrawlPoints
    <2>2. work' = work \/ work' = [work EXCEPT ![w] = [work[w] EXCEPT !.ingested = TRUE]]
      BY <1>4, <2>1 DEF Ingest, TypeOK
    <2>3. ReservesNothing
      BY <2>1, <2>2, RowReserves, SameReserves DEF WorkRow, ReservedWorks
    <2>4. KeepsBacking
      BY <1>4, MoveBacking DEF Ingest, broker, Publishers, Points, CrawlPoints, Outcomes
    <2>. QED  BY <1>4, <2>3, <2>4, BackedKept DEF Ingest
  <1>5. CASE RecordOutcome(p)
    <2>1. w \in Works /\ work[w] \in WorkRow /\ work' = [work EXCEPT ![w] = Settled(w, job[p].outcome)]
      BY <1>5, PageFacts DEF RecordOutcome, CrawlPoints
    <2>2. Settled(w, job[p].outcome).marker = ""
      BY <2>1 DEF Settled, WorkRow
    <2>3. KeepsBacking
      BY <1>5, MoveBacking DEF RecordOutcome, broker, Publishers, Points, Tasks
    <2>. QED  BY <1>5, <2>1, <2>2, <2>3, RowReserves, BackedKept DEF RecordOutcome
  <1>6. CASE RecordCancelled(p)
    <2>1. w \in Works /\ work[w] \in WorkRow
      BY <1>6, PageFacts DEF RecordCancelled, CrawlPoints
    <2>2. work' = work \/ work' = [work EXCEPT ![w] = [work[w] EXCEPT !.state = "cancelled",
                                                                      !.marker = ""]]
      BY <1>6, <2>1 DEF RecordCancelled, TypeOK
    <2>3. ReservesNothing
      BY <2>1, <2>2, RowReserves, SameReserves DEF WorkRow
    <2>4. KeepsBacking
      BY <1>6, MoveBacking DEF RecordCancelled, broker, Publishers
    <2>. QED  BY <1>6, <2>3, <2>4, BackedKept DEF RecordCancelled
  <1>. QED  BY <1>1, <1>2, <1>3, <1>4, <1>5, <1>6, BackedDispatch, BackedSend, BackedMark DEF Step

LEMMA BackedFails ==
  ASSUME TypeOK, ReservationsBacked, NEW p \in Procs, Fails(p) PROVE ReservationsBacked'
  <1>1. CASE SendSyncFails(p) \/ Crash(p) \/ \E u \in Urls : SendPageFails(p, u)
    BY <1>1, BackedFaulty DEF SendSyncFails, Crash, SendPageFails
  <1>2. CASE \/ RequeueSync(p) \/ FailSync(p)
             \/ \E outcome \in {"retry", "fail", "gone"} : FetchFails(p, outcome)
    <2>1. ReservesNothing
      BY <1>2, SameReserves DEF RequeueSync, FailSync, FetchFails, rows
    <2>2. KeepsBacking
      BY <1>2, MoveBacking DEF RequeueSync, FailSync, FetchFails, broker, Publishers, Outcomes
    <2>. QED  BY <1>2, <2>1, <2>2, BackedKept DEF RequeueSync, FailSync, FetchFails
  <1>. QED  BY <1>1, <1>2 DEF Fails

\* The message a worker takes backed the row it was sent for: the claim, or the
\* early return, leaves that row without a reservation.
LEMMA BackedTake ==
  ASSUME TypeOK, ReservationsBacked, NEW p \in Procs, NEW w \in Works, DeliverPage(p, w)
  PROVE  ReservationsBacked'
  <1>0. job \in [Procs -> Job] /\ work \in [Works -> WorkRow] /\ work[w] \in WorkRow
    BY DEF TypeOK
  <1>1. ReservesNothing
    <2>1. CASE ClaimPage(p, w)
      BY <1>0, <2>1, RowReserves DEF ClaimPage, WorkRow
    <2>2. CASE ClaimPageNoop(p, w)
      <3>1. w[1] \in Syncs
        BY DEF Works
      <3>. QED  BY <2>2, <3>1, SameReserves, CancelReserves, MarkerReserves
                DEF ClaimPageNoop, Markers
    <2>. QED  BY <2>1, <2>2 DEF DeliverPage
  <1>2. w \notin ReservedWorks'
    <2>1. CASE ClaimPage(p, w)
      BY <1>0, <2>1 DEF ClaimPage, WorkRow, ReservedWorks
    <2>2. CASE ClaimPageNoop(p, w)
      <3>1. CASE work' = work /\ work[w].state # "queued"
        BY <3>1 DEF ReservedWorks
      <3>2. CASE work[w].state \in {"queued", "running"} /\ CancelSync(w[1])
        <4>1. w \in WorksOf(w[1])
          BY DEF Works, WorksOf
        <4>. QED  BY <1>0, <3>2, <4>1 DEF CancelSync, Unfinished, ReservedWorks, WorkRow
      <3>3. CASE work' = [work EXCEPT ![w].marker = ""]
        BY <1>0, <3>3 DEF WorkRow, ReservedWorks
      <3>. QED  BY <2>2, <3>1, <3>2, <3>3 DEF ClaimPageNoop, PageTerminal
    <2>. QED  BY <2>1, <2>2 DEF DeliverPage
  <1>3. ASSUME NEW v \in Works, v # w, Backed(v) PROVE Backed(v)'
    <2>1. pageMsgs'[v] = pageMsgs[v]
      BY <1>3 DEF DeliverPage, ClaimPage, ClaimPageNoop, TakePageMsg, TypeOK
    <2>2. \A q \in Procs : job[q].at \in Publishers => job'[q] = job[q]
      <3>1. CASE ClaimPage(p, w)
        <4>1. job[p].at = "idle"
          BY <3>1 DEF ClaimPage, IsIdle, Idle
        <4>. QED  BY <1>0, <3>1, <4>1 DEF ClaimPage, Start, Publishers
      <3>2. CASE ClaimPageNoop(p, w)
        BY <3>2 DEF ClaimPageNoop
      <3>. QED  BY <3>1, <3>2 DEF DeliverPage
    <2>. QED  BY <1>3, <2>1, <2>2 DEF Backed, Publishers
  <1>4. UNCHANGED faults
    BY DEF DeliverPage, ClaimPage, ClaimPageNoop
  <1>. QED  BY <1>1, <1>2, <1>3, <1>4 DEF ReservationsBacked, ReservesNothing, ReservedWorks

LEMMA BackedPageSweep ==
  ASSUME TypeOK, ReservationsBacked, NEW w \in Works,
         RequeueStalePage(w) \/ ClearStalePageMarker(w) \/ PageDue(w)
  PROVE  ReservationsBacked'
  <1>0. work \in [Works -> WorkRow] /\ work[w] \in WorkRow
    BY DEF TypeOK
  <1>1. ReservesNothing
    <2>1. CASE RequeueStalePage(w)
      BY <1>0, <2>1, RowReserves DEF RequeueStalePage, WorkRow
    <2>2. CASE ClearStalePageMarker(w)
      BY <2>2, MarkerReserves DEF ClearStalePageMarker, Markers
    <2>3. CASE PageDue(w)
      <3>1. work' = [work EXCEPT ![w] = [work[w] EXCEPT !.due = TRUE]]
        BY <1>0, <2>3 DEF PageDue
      <3>. QED  BY <1>0, <3>1, RowReserves DEF WorkRow, ReservedWorks
    <2>. QED  BY <2>1, <2>2, <2>3
  <1>2. KeepsBacking /\ UNCHANGED faults
    BY SameBacking DEF RequeueStalePage, ClearStalePageMarker, PageDue, broker
  <1>. QED  BY <1>1, <1>2, BackedKept

LEMMA BackedSyncMessages ==
  ASSUME TypeOK, ReservationsBacked, NEW p \in Procs, NEW s \in Syncs,
         Request(p, s) \/ DeliverSync(p, s) \/ SweepEnqueue(p, s) \/ SweepRunning(p, s)
  PROVE  ReservationsBacked'
  <1>1. work' = work \/ CancelSync(s)
    BY DEF Request, Submit, ScheduleDaily, RetryCreate, RetryReuse, CreateSync, DeliverSync,
       ClaimSync, ClaimSyncNoop, SweepEnqueue, SweepRunning, rows
  <1>2. UNCHANGED faults /\ UNCHANGED pageMsgs
    BY DEF Request, Submit, ScheduleDaily, RetryCreate, RetryReuse, CreateSync, DeliverSync,
       ClaimSync, ClaimSyncNoop, SweepEnqueue, SweepRunning, broker
  <1>3. KeepsBacking
    <2>1. CASE ClaimSyncNoop(p, s)
      BY <1>2, <2>1, SameBacking DEF ClaimSyncNoop
    <2>2. CASE ~ClaimSyncNoop(p, s)
      <3>1. \/ Start(p, "enqueue", "reserve", s, NoUrl)
            \/ Start(p, "sync", "parse", s, NoUrl)
            \/ Start(p, "sweep", "dispatch", s, NoUrl)
        BY <2>2 DEF Request, Submit, ScheduleDaily, RetryCreate, RetryReuse,
           CreateSync, DeliverSync, ClaimSync, SweepEnqueue, SweepRunning
      <3>2. IsIdle(p)
        BY <2>2 DEF Request, Submit, ScheduleDaily, RetryCreate, RetryReuse,
           CreateSync, DeliverSync, ClaimSync, SweepEnqueue, SweepRunning
      <3>3. job[p].at = "idle" /\ \E r : job' = [job EXCEPT ![p] = r]
        BY <3>1, <3>2 DEF IsIdle, Idle, Start
      <3>. QED  BY <1>2, <3>3, BackingKept DEF Publishers
    <2>. QED  BY <2>1, <2>2
  <1>. QED  BY <1>1, <1>2, <1>3, SameReserves, CancelReserves, BackedKept

LEMMA BackedNext == TypeOK /\ ReservationsBacked /\ [Next]_vars => ReservationsBacked'
  <1>. SUFFICES ASSUME TypeOK, ReservationsBacked, [Next]_vars PROVE ReservationsBacked'
    OBVIOUS
  <1>1. CASE Suspend \/ Reactivate \/ ReadForm \/ SaveForm \/ DropForm \/ UNCHANGED vars
    BY <1>1, SameReserves, SameBacking, BackedKept
       DEF Suspend, Reactivate, ReadForm, SaveForm, DropForm, vars, rows, broker
  <1>2. ASSUME NEW s \in Syncs, SyncDue(s) \/ RequeueStaleSync(s) \/ ClearStaleSyncMarker(s)
        PROVE  ReservationsBacked'
    BY <1>2, SameReserves, SameBacking, BackedKept
       DEF SyncDue, RequeueStaleSync, ClearStaleSyncMarker, broker
  <1>3. ASSUME NEW s \in Syncs, LoseSyncMsg(s) PROVE ReservationsBacked'
    BY <1>3, BackedFaulty DEF LoseSyncMsg
  <1>4. ASSUME NEW w \in Works, LosePageMsg(w) PROVE ReservationsBacked'
    BY <1>4, BackedFaulty DEF LosePageMsg
  <1>. QED  BY <1>1, <1>2, <1>3, <1>4, BackedStep, BackedFails, BackedTake, BackedPageSweep,
            BackedSyncMessages DEF Next, WorkerNext, Sweep

\* As long as nothing was lost or killed, every reservation has a message in the
\* broker or a publisher about to send it: no interleaving of publications,
\* claims, retries, cancellations and sweeps leaves a page reserved and forgotten.
THEOREM ReservationsBackedHolds == Spec => []ReservationsBacked
  <1>1. Init => ReservationsBacked
    <2>. SUFFICES ASSUME Init PROVE ReservedWorks = {}
      BY DEF ReservationsBacked
    <2>1. \A w \in Works : work[w] = NewWork
      BY DEF Init
    <2>2. NewWork.marker = ""
      BY DEF NewWork
    <2>. QED  BY <2>1, <2>2 DEF ReservedWorks
  <1>2. TypeOK /\ ReservationsBacked /\ [Next]_vars => (TypeOK /\ ReservationsBacked)'
    BY TypeNext, BackedNext
  <1>. QED  BY <1>1, <1>2, TypeInit, PTL DEF Spec

=============================================================================
