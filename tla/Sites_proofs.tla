----------------------------- MODULE Sites_proofs -----------------------------
(***************************************************************************)
(* Proofs about what is kept of the members' sites, for any number of them: *)
(* SiteCleanup, SiteRatings, MetricSnapshots, NetworkGraph, SitemapParsing. *)
(***************************************************************************)
EXTENDS SiteCleanup, SiteRatings, MetricSnapshots, NetworkGraph, SitemapParsing,
        NumberLemmas, SequenceTheorems

-----------------------------------------------------------------------------
(* Cleanup of deleted sites.  A site with an intent, a message or a worker  *)
(* does not exist any more, so a point that is written for it is a late     *)
(* one; a worker that has deleted a site's points leaves late ones only.    *)

WorkersOK ==
  cleaner \in [Cleaners -> [at : {"idle", "delete", "row"}, site : Deleted \cup {NoSite}]]
TablesOK == /\ there \subseteq Deleted /\ intent \subseteq Deleted /\ due \subseteq intent
            /\ sent \subseteq Deleted /\ points \subseteq Deleted
            /\ upserting \in Deleted \cup {NoSite}
NamedAreGone == /\ intent \cap there = {} /\ sent \cap there = {}
                /\ \A c \in Cleaners : cleaner[c].at # "idle" => cleaner[c].site \in Deleted \ there
DeletedStayDeleted ==
  \A c \in Cleaners : cleaner[c].at = "row" /\ cleaner[c].site \in points => cleaner[c].site \in late
CleanupInv == TablesOK /\ WorkersOK /\ NamedAreGone /\ DeletedStayDeleted

LEMMA CleanupInvInit == CleanupInit => CleanupInv
  BY CleanupAssumption DEF CleanupInit, CleanupInv, TablesOK, WorkersOK, NamedAreGone, DeletedStayDeleted

\* A worker that takes a site, or none, and steps to where it has deleted nothing.
LEMMA WorkerMoves ==
  ASSUME CleanupInv, NEW c \in Cleaners, NEW at \in {"idle", "delete"}, NEW s \in Deleted \cup {NoSite},
         at = "idle" \/ s \in Deleted \ there, there' = there, points' = points, late' = late,
         cleaner' = [cleaner EXCEPT ![c] = [at |-> at, site |-> s]]
  PROVE  WorkersOK' /\ DeletedStayDeleted'
           /\ \A d \in Cleaners : cleaner'[d].at # "idle" => cleaner'[d].site \in Deleted \ there'
  BY DEF CleanupInv, TablesOK, WorkersOK, NamedAreGone, DeletedStayDeleted

LEMMA CleanupInvNext == CleanupInv /\ [CleanupNext]_cleanupVars => CleanupInv'
  <1>. SUFFICES ASSUME CleanupInv, [CleanupNext]_cleanupVars PROVE CleanupInv'
    OBVIOUS
  <1>. USE DEF CleanupInv
  <1>1. ASSUME NEW s \in Deleted, ReadArticle(s) PROVE CleanupInv'
    BY <1>1 DEF ReadArticle, TablesOK, WorkersOK, NamedAreGone, DeletedStayDeleted
  <1>2. ASSUME NEW s \in Deleted, DeleteSiteRow(s) PROVE CleanupInv'
    BY <1>2 DEF DeleteSiteRow, Enqueued, TablesOK, WorkersOK, NamedAreGone, DeletedStayDeleted
  <1>3. CASE UpsertPoint
    BY <1>3, CleanupAssumption DEF UpsertPoint, TablesOK, WorkersOK, NamedAreGone, DeletedStayDeleted
  <1>4. CASE DeleteMember
    BY <1>4 DEF DeleteMember, TablesOK, WorkersOK, NamedAreGone, DeletedStayDeleted
  <1>5. CASE FiveMinutes
    BY <1>5 DEF FiveMinutes, TablesOK, WorkersOK, NamedAreGone, DeletedStayDeleted
  <1>6. ASSUME NEW c \in Cleaners, TakeMessage(c) PROVE CleanupInv'
    <2>1. PICK s \in sent : Works(c, s) /\ \E again \in BOOLEAN : sent' = IF again THEN sent ELSE sent \ {s}
      BY <1>6 DEF TakeMessage
    <2>2. s \in Deleted \ there /\ sent' \subseteq sent
      BY <2>1 DEF TablesOK, NamedAreGone
    <2>3. there' = there /\ points' = points /\ late' = late
          /\ intent' = intent /\ due' = due /\ upserting' = upserting
      BY <1>6 DEF TakeMessage
    <2>4. WorkersOK' /\ DeletedStayDeleted'
            /\ \A d \in Cleaners : cleaner'[d].at # "idle" => cleaner'[d].site \in Deleted \ there'
      BY <2>1, <2>2, <2>3, WorkerMoves DEF Works
    <2>. QED  BY <2>2, <2>3, <2>4 DEF TablesOK, NamedAreGone
  <1>7. ASSUME NEW c \in Cleaners, Sweep(c) PROVE CleanupInv'
    <2>1. PICK s \in intent \cap due : Works(c, s) /\ due' = due \ {s}
      BY <1>7 DEF Sweep
    <2>2. s \in Deleted \ there
      BY <2>1 DEF TablesOK, NamedAreGone
    <2>3. there' = there /\ points' = points /\ late' = late
          /\ intent' = intent /\ sent' = sent /\ upserting' = upserting
      BY <1>7 DEF Sweep
    <2>4. WorkersOK' /\ DeletedStayDeleted'
            /\ \A d \in Cleaners : cleaner'[d].at # "idle" => cleaner'[d].site \in Deleted \ there'
      BY <2>1, <2>2, <2>3, WorkerMoves DEF Works
    <2>. QED  BY <2>1, <2>3, <2>4 DEF TablesOK, NamedAreGone
  <1>8. ASSUME NEW c \in Cleaners, DeletePoints(c) PROVE CleanupInv'
    BY <1>8 DEF DeletePoints, TablesOK, WorkersOK, NamedAreGone, DeletedStayDeleted
  <1>9. ASSUME NEW c \in Cleaners, DeleteRow(c) PROVE CleanupInv'
    <2>1. WorkersOK' /\ DeletedStayDeleted'
            /\ \A d \in Cleaners : cleaner'[d].at # "idle" => cleaner'[d].site \in Deleted \ there'
      BY <1>9, WorkerMoves DEF DeleteRow
    <2>. QED  BY <1>9, <2>1 DEF DeleteRow, TablesOK, NamedAreGone
  <1>10. ASSUME NEW c \in Cleaners, CleanerFails(c) PROVE CleanupInv'
    <2>1. WorkersOK' /\ DeletedStayDeleted'
            /\ \A d \in Cleaners : cleaner'[d].at # "idle" => cleaner'[d].site \in Deleted \ there'
      BY <1>10, WorkerMoves DEF CleanerFails
    <2>. QED  BY <1>10, <2>1 DEF CleanerFails, TablesOK, NamedAreGone
  <1>11. CASE UNCHANGED cleanupVars
    BY <1>11 DEF cleanupVars, TablesOK, WorkersOK, NamedAreGone, DeletedStayDeleted
  <1>. QED
    BY <1>1, <1>2, <1>3, <1>4, <1>5, <1>6, <1>7, <1>8, <1>9, <1>10, <1>11 DEF CleanupNext

LEMMA CleanupInvImplies == CleanupInv => CleanupTypeOK
  BY DEF CleanupInv, TablesOK, NamedAreGone, CleanupTypeOK

\* The row of a deleted site (ProjectDeletionCleanup) stays until its points are
\* gone, but for points that were written after the deletion: only DeleteRow
\* removes a row, and before it the points of that site were deleted.
THEOREM RowOutlivesPointsHolds == CleanupSpec => RowOutlivesPoints
  <1>1. CleanupInv /\ [CleanupNext]_cleanupVars
          => [\A s \in intent \ intent' : s \in points => s \in late]_cleanupVars
    <2>. SUFFICES ASSUME CleanupInv, CleanupNext, NEW s \in intent \ intent', s \in points
                  PROVE  s \in late
      BY DEF cleanupVars
    <2>1. PICK c \in Cleaners : DeleteRow(c)
      BY DEF CleanupNext, ReadArticle, DeleteSiteRow, UpsertPoint, DeleteMember, FiveMinutes,
             TakeMessage, Sweep, DeletePoints, CleanerFails
    <2>2. cleaner[c].at = "row" /\ s = cleaner[c].site
      BY <2>1 DEF DeleteRow
    <2>. QED  BY <2>2 DEF CleanupInv, DeletedStayDeleted
  <1>. QED  BY <1>1, CleanupInvInit, CleanupInvNext, PTL DEF CleanupSpec, RowOutlivesPoints

-----------------------------------------------------------------------------
(* Domain ratings: what a form has read is a rating of its own host too,    *)
(* since it may write it back.                                              *)

RowType == [exists : BOOLEAN, host : SiteHosts \cup {NoValue},
            rating : SiteHosts \cup {NoValue}, due : BOOLEAN]
\* A row's rating is of its host, due if there is none; only a row has a host.
RatedOK(r) == /\ r.rating \in {NoValue, r.host} /\ (r.rating = NoValue => r.due)
              /\ r.exists <=> r.host # NoValue
FormOK == /\ form.project \in Projects \cup {NoValue} /\ form.host \in SiteHosts \cup {NoValue}
          /\ form.read \in RowType /\ RatedOK(form.read)
          /\ form.project # NoValue => form.read.exists /\ form.host # NoValue
HostsUnique == \A p, q \in Projects : row[p].host # NoValue /\ row[p].host = row[q].host => p = q
TasksOK == task \in [Tasks -> [todo : SUBSET Projects, project : Projects \cup {NoValue},
                               host : SiteHosts \cup {NoValue}]]
RatingsInv == /\ row \in [Projects -> RowType]
              /\ (\A p \in Projects : RatedOK(row[p])) /\ HostsUnique
              /\ FormOK /\ TasksOK

LEMMA AcceptedHosts == Accepted \subseteq SiteHosts /\ NoValue \notin Accepted
  BY DEF Accepted, Posted, NormalizedHostOf

LEMMA NoRowType == NoRow \in RowType /\ RatedOK(NoRow) /\ NoRow.host = NoValue
  BY DEF NoRow, RowType, RatedOK

LEMMA RatingsInvInit == SitesInit => RatingsInv
  BY NoRowType DEF SitesInit, RatingsInv, HostsUnique, FormOK, TasksOK, NoForm, NoTask

\* A form that moves a site to another host drops the rating with it.
LEMMA WrittenType ==
  ASSUME NEW r \in RowType, RatedOK(r), r.exists, NEW h \in SiteHosts, h # NoValue
  PROVE  Written(r, h) \in RowType /\ RatedOK(Written(r, h)) /\ Written(r, h).host = h
  BY DEF Written, RowType, RatedOK

\* The row of one site is replaced by one that is in order.
LEMMA RowReplaced ==
  ASSUME RatingsInv, NEW p \in Projects, NEW r \in RowType, RatedOK(r), row' = [row EXCEPT ![p] = r],
         r.host \in {NoValue, row[p].host} \/ ~Taken(p, r.host)
  PROVE  row' \in [Projects -> RowType] /\ (\A q \in Projects : RatedOK(row'[q])) /\ HostsUnique'
  <1>1. row'[p] = r /\ \A q \in Projects \ {p} : row'[q] = row[q]
    BY DEF RatingsInv
  <1>2. row' \in [Projects -> RowType] /\ \A q \in Projects : RatedOK(row'[q])
    BY <1>1 DEF RatingsInv
  <1>. QED  BY <1>1, <1>2 DEF RatingsInv, HostsUnique, Taken

LEMMA RatingsInvNext == RatingsInv /\ [SitesNext]_siteVars => RatingsInv'
  <1>. SUFFICES ASSUME RatingsInv, [SitesNext]_siteVars PROVE RatingsInv'
    OBVIOUS
  <1>. USE DEF RatingsInv
  <1>1. ASSUME NEW p \in Projects, CreateProject(p) PROVE RatingsInv'
    <2>1. PICK h \in Accepted : ~Taken(p, h) /\ row' = [row EXCEPT ![p] = [NoRow EXCEPT !.exists = TRUE, !.host = h]]
      BY <1>1 DEF CreateProject
    <2>. DEFINE r == [NoRow EXCEPT !.exists = TRUE, !.host = h]
    <2>2. r \in RowType /\ RatedOK(r) /\ r.host = h
      BY AcceptedHosts DEF NoRow, RowType, RatedOK
    <2>3. row' \in [Projects -> RowType] /\ (\A q \in Projects : RatedOK(row'[q])) /\ HostsUnique'
      BY <2>1, <2>2, RowReplaced
    <2>. QED  BY <1>1, <2>3 DEF CreateProject, FormOK, TasksOK
  <1>2. ASSUME NEW p \in Projects, UpdateRead(p) PROVE RatingsInv'
    <2>1. PICK h \in Accepted : form' = [project |-> p, read |-> row[p], host |-> h]
      BY <1>2 DEF UpdateRead
    <2>2. FormOK'
      BY <1>2, <2>1, AcceptedHosts DEF UpdateRead, FormOK
    <2>. QED  BY <1>2, <2>2 DEF UpdateRead, TasksOK, HostsUnique
  <1>3. CASE UpdateSave
    <2>1. form.project \in Projects /\ form.read.exists /\ form.host \in SiteHosts /\ form.host # NoValue
      BY <1>3, RatingsAssumption DEF UpdateSave, OwnerFree, FormOK
    <2>. DEFINE w == Written(form.read, form.host)
    <2>2. w \in RowType /\ RatedOK(w) /\ w.host = form.host
      BY <2>1, WrittenType DEF FormOK
    <2>3. \/ row' = row
          \/ ~Taken(form.project, form.host) /\ row' = [row EXCEPT ![form.project] = w]
      BY <1>3 DEF UpdateSave
    <2>. HIDE DEF w
    <2>4. row' \in [Projects -> RowType] /\ (\A q \in Projects : RatedOK(row'[q])) /\ HostsUnique'
      BY <2>1, <2>2, <2>3, RowReplaced DEF HostsUnique
    <2>5. FormOK'
      BY <1>3, NoRowType DEF UpdateSave, FormOK, NoForm
    <2>. QED  BY <1>3, <2>4, <2>5 DEF UpdateSave, TasksOK
  <1>4. ASSUME NEW p \in Projects, DeleteProject(p) PROVE RatingsInv'
    <2>1. row' \in [Projects -> RowType] /\ (\A q \in Projects : RatedOK(row'[q])) /\ HostsUnique'
      BY <1>4, NoRowType, RowReplaced DEF DeleteProject
    <2>. QED  BY <1>4, <2>1 DEF DeleteProject, FormOK, TasksOK
  <1>5. ASSUME NEW p \in Projects, RatingDue(p) PROVE RatingsInv'
    <2>. DEFINE r == [row[p] EXCEPT !.due = TRUE]
    <2>1. r \in RowType /\ RatedOK(r) /\ r.host = row[p].host
      BY DEF RowType, RatedOK
    <2>2. row' \in [Projects -> RowType] /\ (\A q \in Projects : RatedOK(row'[q])) /\ HostsUnique'
      BY <1>5, <2>1, RowReplaced DEF RatingDue
    <2>. QED  BY <1>5, <2>2 DEF RatingDue, FormOK, TasksOK
  <1>6. ASSUME NEW t \in Tasks, QueuedRefresh(t) \/ SweepDue(t) \/ Backfill(t) PROVE RatingsInv'
    <2>1. row' = row /\ form' = form /\ \E todo \in SUBSET Projects : Starts(t, todo)
      BY <1>6 DEF QueuedRefresh, SweepDue, Backfill
    <2>2. TasksOK'
      BY <2>1 DEF Starts, TasksOK
    <2>. QED  BY <2>1, <2>2 DEF FormOK, HostsUnique
  <1>7. ASSUME NEW t \in Tasks, RefreshRead(t) PROVE RatingsInv'
    <2>1. TasksOK'
      BY <1>7 DEF RefreshRead, TasksOK, RowType
    <2>. QED  BY <1>7, <2>1 DEF RefreshRead, FormOK, HostsUnique
  <1>8. ASSUME NEW t \in Tasks, RefreshStore(t) PROVE RatingsInv'
    <2>. DEFINE p == task[t].project
                r == [row[p] EXCEPT !.rating = task[t].host, !.due = FALSE]
    <2>1. p \in Projects /\ task[t].host \in SiteHosts \cup {NoValue}
      BY <1>8 DEF RefreshStore, TasksOK
    <2>2. row' = row \/ (Stores(t) /\ row' = [row EXCEPT ![p] = r])
      BY <1>8, <2>1 DEF RefreshStore
    <2>3. ASSUME Stores(t) PROVE r \in RowType /\ RatedOK(r) /\ r.host = row[p].host
      BY <2>1, <2>3 DEF Stores, RowType, RatedOK
    <2>4. row' \in [Projects -> RowType] /\ (\A q \in Projects : RatedOK(row'[q])) /\ HostsUnique'
      BY <2>1, <2>2, <2>3, RowReplaced DEF HostsUnique
    <2>5. TasksOK'
      BY <1>8 DEF RefreshStore, TasksOK
    <2>. QED  BY <1>8, <2>4, <2>5 DEF RefreshStore, FormOK
  <1>9. CASE UNCHANGED siteVars
    BY <1>9 DEF siteVars, FormOK, TasksOK, HostsUnique
  <1>. QED
    BY <1>1, <1>2, <1>3, <1>4, <1>5, <1>6, <1>7, <1>8, <1>9 DEF SitesNext

LEMMA RatingsInvImplies == RatingsInv => SitesTypeOK
  BY DEF RatingsInv, RatedOK, RowType, HostsUnique, SitesTypeOK

\* A site's rating is that of its present host: the conditional UPDATE of the
\* rating task and the reset by a form that moves the site hold together, however
\* many tasks and stale forms overlap.
THEOREM RatingOfItsHostHolds == SitesSpec => []RatingOfItsHost
  <1>1. RatingsInv => RatingOfItsHost
    BY DEF RatingsInv, RatedOK, RatingOfItsHost
  <1>. QED  BY <1>1, RatingsInvInit, RatingsInvNext, PTL DEF SitesSpec

-----------------------------------------------------------------------------
(* Daily snapshots: a site has one row of a day, none of a day to come.      *)

SnapshotRow == [site : Watched, day : 1 .. MaxDay, links : 0 .. MaxCount]
SweepRow == [at : {"idle", "count", "write"}, day : 0 .. MaxDay, pending : SUBSET Watched,
             counts : [Watched -> 0 .. MaxCount]]
OneRowADay == \A r, x \in snapshot : r.site = x.site /\ r.day = x.day => r = x
SnapshotInv ==
  /\ today \in 1 .. MaxDay /\ linkCounts \in [Watched -> 0 .. MaxCount]
  /\ snapshot \subseteq SnapshotRow /\ (\A r \in snapshot : r.day <= today)
  /\ sweep \in [Sweeps -> SweepRow]
  /\ \A s \in Sweeps : sweep[s].at # "idle" => sweep[s].day \in 1 .. today
  /\ OneRowADay

LEMMA NoSweepOK == NoSweep \in SweepRow /\ NoSweep.at = "idle" /\ 0 \in 0 .. MaxCount
  BY SnapshotAssumption DEF NoSweep, SweepRow

LEMMA SnapshotInvInit == SnapshotInit => SnapshotInv
  BY SnapshotAssumption, NoSweepOK DEF SnapshotInit, SnapshotInv, OneRowADay

\* One sweep steps while the rows stay.
LEMMA SweepStep ==
  ASSUME SnapshotInv, NEW s \in Sweeps, NEW q \in SweepRow, q.at # "idle" => q.day \in 1 .. today,
         sweep' = [sweep EXCEPT ![s] = q], UNCHANGED <<today, linkCounts, snapshot>>
  PROVE  SnapshotInv'
  BY DEF SnapshotInv, OneRowADay

LEMMA SnapshotInvNext == SnapshotInv /\ [SnapshotNext]_snapshotVars => SnapshotInv'
  <1>. SUFFICES ASSUME SnapshotInv, [SnapshotNext]_snapshotVars PROVE SnapshotInv'
    OBVIOUS
  <1>1. CASE UNCHANGED snapshotVars
    BY <1>1 DEF snapshotVars, SnapshotInv, OneRowADay
  <1>2. CASE Midnight
    <2>1. today' \in 1 .. MaxDay /\ today' = today + 1 /\ today \in Nat
      BY <1>2, SnapshotAssumption DEF Midnight, SnapshotInv
    <2>2. \A r \in snapshot : r.day \in Nat /\ r.day <= today
      BY SnapshotAssumption DEF SnapshotInv, SnapshotRow
    <2>3. \A s \in Sweeps : sweep[s].at # "idle" => sweep[s].day \in 1 .. today
      BY DEF SnapshotInv
    <2>4. (\A r \in snapshot : r.day <= today') /\ 1 .. today \subseteq 1 .. today'
      BY <2>1, <2>2
    <2>. QED  BY <1>2, <2>1, <2>3, <2>4 DEF Midnight, SnapshotInv, OneRowADay
  <1>3. CASE LinksChange
    BY <1>3 DEF LinksChange, SnapshotInv, OneRowADay
  <1>4. ASSUME NEW s \in Sweeps, StartSweep(s) PROVE SnapshotInv'
    <2>. DEFINE pending == {p \in Watched : Rows(p, today) = {}}
                q == [[[NoSweep EXCEPT !.at = "count"] EXCEPT !.day = today] EXCEPT !.pending = pending]
    <2>1. today \in 1 .. MaxDay /\ today \in 0 .. MaxDay /\ today \in 1 .. today /\ pending \subseteq Watched
      BY SnapshotAssumption DEF SnapshotInv
    <2>2. sweep' = [sweep EXCEPT ![s] = q] /\ UNCHANGED <<today, linkCounts, snapshot>>
      BY <1>4 DEF StartSweep
    <2>. HIDE DEF pending
    <2>3. q \in SweepRow /\ q.day = today
      BY <2>1, NoSweepOK DEF SweepRow
    <2>. HIDE DEF q
    <2>. QED  BY <2>1, <2>2, <2>3, SweepStep
  <1>5. ASSUME NEW s \in Sweeps, CountLinks(s) PROVE SnapshotInv'
    <2>. DEFINE q == [[sweep[s] EXCEPT !.at = "write"] EXCEPT !.counts = linkCounts]
    <2>1. sweep[s] \in SweepRow /\ sweep[s].day \in 1 .. today /\ linkCounts \in [Watched -> 0 .. MaxCount]
      BY <1>5 DEF CountLinks, SnapshotInv
    <2>2. sweep' = [sweep EXCEPT ![s] = q] /\ UNCHANGED <<today, linkCounts, snapshot>>
      BY <1>5 DEF CountLinks, SnapshotInv
    <2>3. q \in SweepRow /\ q.day = sweep[s].day
      BY <2>1 DEF SweepRow
    <2>. HIDE DEF q
    <2>. QED  BY <2>1, <2>2, <2>3, SweepStep
  <1>6. ASSUME NEW s \in Sweeps, NEW p \in Watched, WriteSnapshot(s, p) PROVE SnapshotInv'
    <2>. DEFINE q == [sweep[s] EXCEPT !.pending = @ \ {p}]
                new == [site |-> p, day |-> sweep[s].day, links |-> sweep[s].counts[p]]
    <2>1. sweep[s] \in SweepRow /\ sweep[s].day \in 1 .. today /\ today \in 1 .. MaxDay
      BY <1>6 DEF WriteSnapshot, SnapshotInv
    <2>2. /\ q \in SweepRow /\ q.at = sweep[s].at /\ q.day = sweep[s].day
          /\ sweep' = [sweep EXCEPT ![s] = q] /\ UNCHANGED <<today, linkCounts>>
      BY <1>6, <2>1 DEF WriteSnapshot, SweepRow, SnapshotInv
    <2>3. new \in SnapshotRow /\ new.day <= today /\ new.site = p /\ new.day = sweep[s].day
      BY <2>1, SnapshotAssumption DEF SweepRow, SnapshotRow
    <2>4. snapshot' = snapshot \/ (Rows(p, sweep[s].day) = {} /\ snapshot' = snapshot \cup {new})
      BY <1>6 DEF WriteSnapshot
    <2>. HIDE DEF q, new
    <2>5. snapshot' \subseteq SnapshotRow /\ (\A r \in snapshot' : r.day <= today) /\ OneRowADay'
      BY <2>3, <2>4 DEF SnapshotInv, OneRowADay, Rows
    <2>6. sweep' \in [Sweeps -> SweepRow]
            /\ \A x \in Sweeps : sweep'[x].at # "idle" => sweep'[x].day \in 1 .. today
      BY <2>1, <2>2 DEF SnapshotInv
    <2>. QED  BY <2>2, <2>5, <2>6 DEF SnapshotInv
  <1>7. ASSUME NEW s \in Sweeps, EndSweep(s) PROVE SnapshotInv'
    BY <1>7, NoSweepOK, SweepStep DEF EndSweep
  <1>. QED  BY <1>1, <1>2, <1>3, <1>4, <1>5, <1>6, <1>7 DEF SnapshotNext

\* A chart of three days joins neighbouring days only.
LEMMA SnapshotInvImplies == SnapshotInv => SnapshotTypeOK
  <1>. SUFFICES ASSUME SnapshotInv PROVE SnapshotTypeOK
    OBVIOUS
  <1>1. ASSUME NEW p \in Watched
        PROVE  ChartLines(p, 3) \subseteq {<<today - 2, today - 1>>, <<today - 1, today>>}
    <2>1. \A d \in ChartPoints(p, 3) : d \in Int /\ d > today - 3 /\ d <= today
      BY SnapshotAssumption DEF ChartPoints, SnapshotInv, SnapshotRow
    <2>2. \A line \in ChartLines(p, 3) : \E d, e \in ChartPoints(p, 3) : line = <<d, e>> /\ e = d + 1
      BY DEF ChartLines
    <2>3. today \in Int
      BY SnapshotAssumption DEF SnapshotInv
    <2>. QED  BY <2>1, <2>2, <2>3
  <1>. QED  BY <1>1 DEF SnapshotTypeOK, SnapshotInv, SnapshotRow

\* However sweeps overlap, are repeated or run into the next day, the one row that a
\* site has of a day is never revised.
THEOREM SnapshotsStayHolds == SnapshotSpec => [](SnapshotTypeOK /\ OneRowADay) /\ SnapshotsStay
  <1>1. SnapshotInv => SnapshotTypeOK /\ OneRowADay
    BY SnapshotInvImplies DEF SnapshotInv
  <1>2. [SnapshotNext]_snapshotVars
          => [\A p \in Watched, d \in 1 .. MaxDay : Rows(p, d) # {} => Rows(p, d)' = Rows(p, d)]_snapshotVars
    <2>. SUFFICES ASSUME SnapshotNext, NEW p \in Watched, NEW d \in 1 .. MaxDay, Rows(p, d) # {}
                  PROVE  Rows(p, d)' = Rows(p, d)
      OBVIOUS
    <2>1. CASE snapshot' = snapshot
      BY <2>1 DEF Rows
    <2>2. ASSUME NEW s \in Sweeps, NEW x \in Watched, WriteSnapshot(s, x) PROVE Rows(p, d)' = Rows(p, d)
      BY <2>2 DEF WriteSnapshot, Rows
    <2>. QED  BY <2>1, <2>2 DEF SnapshotNext, Midnight, LinksChange, StartSweep, CountLinks, EndSweep
  <1>. QED  BY <1>1, <1>2, SnapshotInvInit, SnapshotInvNext, PTL DEF SnapshotSpec, SnapshotsStay

-----------------------------------------------------------------------------
(* The network graph.  The strengthening says what an open ingestion holds,  *)
(* and that the rows as it will leave them are right already.                *)

EdgeRow == [site : Sites \cup {Nil}, page : Pages \cup {Nil}, active : BOOLEAN]
NetRow == [state : [Sites -> {"absent", "active", "suspended"}], host : [Sites -> Hosts \cup {Nil}],
           active : [Pages -> BOOLEAN], urls : [Pages -> SUBSET Urls],
           seen : [Links -> {"absent", "active", "inactive"}], edge : [Links -> EdgeRow]]

\* The rows are consistent: a host has one site, an edge has an observation, and
\* an active one leads to another site.
NetOK(n) ==
  /\ n \in NetRow
  /\ \A s \in Sites : (n.state[s] = "absent") <=> (n.host[s] = Nil)
  /\ \A s, t \in Sites : n.host[s] = n.host[t] => s = t \/ n.host[s] = Nil
  /\ \A l \in Links : /\ n.seen[l] = "absent" => n.edge[l] = NoEdge
                      /\ n.edge[l].active => n.edge[l].site \notin {Nil, Source(l)}

\* An edge leads to the site that its URL resolves to.
Sited(n, l) ==
  LET found == Resolve(n, l[2])
  IN  /\ n.edge[l].active => n.edge[l].site = found.site
      /\ found.site \notin {Nil, Source(l)} => n.edge[l].site = found.site

\* What an active edge depends on is active, and its page has the URL.
Backed(n, l) ==
  n.edge[l].active =>
    /\ IsActive(n, l, n.edge[l].site, n.edge[l].page)
    /\ n.edge[l].page # Nil => /\ SiteOf[n.edge[l].page] = n.edge[l].site
                               /\ l[2] \in n.urls[n.edge[l].page]
Current(n, l) == n.edge[l].active <=> Edge(n, l).active

\* The rows as the open ingestion will leave them, and the links it writes.
Writes(i) == i.inserted \cup i.locked
Merged(n, i) ==
  [state |-> n.state, host |-> n.host,
   active |-> [n.active EXCEPT ![i.page] = i.rows.active[i.page]],
   urls |-> [n.urls EXCEPT ![i.page] = i.rows.urls[i.page]],
   seen |-> [l \in Links |-> IF l \in Writes(i) THEN i.rows.seen[l] ELSE n.seen[l]],
   edge |-> [l \in Links |-> IF l \in Writes(i) THEN i.rows.edge[l] ELSE n.edge[l]]]

\* An open ingestion holds every committed link that it touches.
HeldOK(n, i, over) ==
  /\ i.page \in Pages /\ n.state[SiteOf[i.page]] # "absent" /\ i.rows \in NetRow
  /\ i.inserted \subseteq Links /\ i.locked \subseteq Linked(n)
  /\ \A l \in i.inserted : l[1] = i.page /\ l \notin Linked(n)
  /\ \A l \in Linked(n) \ i.locked : /\ l[1] # i.page /\ l[2] \notin i.rows.urls[i.page]
                                     /\ l \notin over => n.edge[l].page # i.page
  /\ \A l \in Writes(i) : /\ i.rows.seen[l] # "absent"
                          /\ i.rows.edge[l].active => i.rows.edge[l].site \notin {Nil, Source(l)}

\* What it will write is right of the rows as they are, wherever it is not excepted.
OpenOK(n, i, over) ==
  /\ HeldOK(n, i, over)
  /\ \A l \in Writes(i) \ over :
       Sited(Merged(n, i), l) /\ Backed(Merged(n, i), l) /\ Current(Merged(n, i), l)

GraphInv ==
  /\ NetOK(net)
  /\ overlapped \subseteq Linked(net) \cup ingesting.inserted
  /\ \A l \in Linked(net) \ overlapped :
       Sited(net, l) /\ Backed(net, l) /\ (l \notin givenUp => Current(net, l))
  /\ IF Open THEN OpenOK(net, ingesting, overlapped) ELSE ingesting = Closed

-----------------------------------------------------------------------------
(* Lemmas about the operators of the graph.                                  *)

LEMMA LinksType == \A l \in Links : /\ l[1] \in Pages /\ l[2] \in Urls /\ Source(l) \in Sites
                                    /\ HostOf[l[2]] \in Hosts /\ Source(l) # Nil
  BY GraphAssumption DEF Source

LEMMA NilType == Nil \notin Sites /\ Nil \notin Pages /\ Nil \notin Hosts
  BY GraphAssumption

LEMMA NoEdgeOK == NoEdge \in EdgeRow /\ NoEdge.site = Nil /\ NoEdge.page = Nil /\ ~NoEdge.active
  BY DEF NoEdge, EdgeRow

\* The sites at a URL's host, and the pages of a site that have the URL.
SitesAt(n, u) == {s \in Sites : n.state[s] # "absent" /\ n.host[s] = HostOf[u]}
PagesWith(n, s, u) == {p \in Pages : SiteOf[p] = s /\ u \in n.urls[p]}

Chosen(set) == CHOOSE x \in set : TRUE
LEMMA ResolveIs ==
  ASSUME NEW n, NEW u
  PROVE  Resolve(n, u) =
           IF SitesAt(n, u) = {} THEN NoEdge
           ELSE LET s == Chosen(SitesAt(n, u))
                IN  [NoEdge EXCEPT !.site = s, !.page = IF Cardinality(PagesWith(n, s, u)) = 1
                                                        THEN Chosen(PagesWith(n, s, u)) ELSE Nil]
  BY DEF Resolve, SitesAt, PagesWith, Chosen

\* resolve_destination finds the one site of the host, and a page of it that has the URL.
LEMMA ResolveOK ==
  ASSUME NEW n, NetOK(n), NEW u \in Urls
  PROVE  LET found == Resolve(n, u)
         IN  /\ found \in EdgeRow /\ ~found.active
             /\ \A s \in Sites : found.site = s <=> n.host[s] = HostOf[u]
             /\ found.site = Nil => found = NoEdge
             /\ found.page # Nil => SiteOf[found.page] = found.site /\ u \in n.urls[found.page]
  <1>. DEFINE s == CHOOSE s \in SitesAt(n, u) : TRUE
              pages == PagesWith(n, s, u)
              page == IF Cardinality(pages) = 1 THEN CHOOSE p \in pages : TRUE ELSE Nil
  <1>1. /\ HostOf[u] \in Hosts /\ HostOf[u] # Nil
    BY GraphAssumption
  <1>2. \A t \in Sites : t \in SitesAt(n, u) <=> n.host[t] = HostOf[u]
    BY <1>1 DEF NetOK, SitesAt
  <1>3. \A t, v \in SitesAt(n, u) : t = v
    BY <1>1 DEF NetOK, SitesAt
  <1>4. SitesAt(n, u) \subseteq Sites
    BY DEF SitesAt
  <1>5. CASE SitesAt(n, u) = {}
    <2>1. Resolve(n, u) = NoEdge
      BY <1>5 DEF Resolve, SitesAt
    <2>. QED  BY <1>2, <1>5, <2>1, NoEdgeOK, NilType
  <1>6. CASE SitesAt(n, u) # {}
    <2>1. s \in SitesAt(n, u) /\ s \in Sites
      BY <1>4, <1>6
    <2>2. Resolve(n, u) = [NoEdge EXCEPT !.site = s, !.page = page]
      BY <1>6 DEF Resolve, SitesAt, PagesWith
    <2>3. page # Nil => page \in pages
      <3>1. IsFiniteSet({}) /\ Cardinality({}) = 0
        BY FS_EmptySet
      <3>. QED  BY <3>1
    <2>4. \A p \in pages : p \in Pages /\ SiteOf[p] = s /\ u \in n.urls[p]
      BY DEF PagesWith
    <2>. HIDE DEF s, pages, page
    <2>. DEFINE found == [[NoEdge EXCEPT !.site = s] EXCEPT !.page = page]
    <2>5. found \in EdgeRow /\ found.site = s /\ found.page = page /\ ~found.active
      BY <2>1, <2>3, <2>4, NoEdgeOK DEF EdgeRow
    <2>6. Resolve(n, u) = found
      BY <2>2
    <2>. HIDE DEF found
    <2>. QED  BY <1>2, <1>3, <2>1, <2>3, <2>4, <2>5, <2>6, NilType
  <1>. QED  BY <1>5, <1>6

\* It finds the same when neither the host nor the pages of its site that have the URL change.
LEMMA ResolveSame ==
  ASSUME NEW n, NEW m, NetOK(n), NetOK(m), NEW u \in Urls,
         \A s \in Sites : n.host[s] = HostOf[u] <=> m.host[s] = HostOf[u],
         \A p \in Pages : SiteOf[p] = Resolve(n, u).site => (u \in n.urls[p] <=> u \in m.urls[p])
  PROVE  Resolve(m, u) = Resolve(n, u)
  <1>1. HostOf[u] # Nil
    BY GraphAssumption
  <1>2. SitesAt(m, u) = SitesAt(n, u)
    BY <1>1 DEF NetOK, SitesAt
  <1>3. CASE SitesAt(n, u) = {}
    BY <1>2, <1>3, ResolveIs
  <1>4. CASE SitesAt(n, u) # {}
    <2>. DEFINE s == Chosen(SitesAt(n, u))
    <2>1. s \in SitesAt(n, u)
      BY <1>4 DEF Chosen
    <2>2. Resolve(n, u).site = s
      BY <2>1, ResolveOK DEF SitesAt
    <2>3. PagesWith(m, s, u) = PagesWith(n, s, u)
      BY <2>2 DEF PagesWith
    <2>. HIDE DEF s
    <2>4. Resolve(n, u) = [NoEdge EXCEPT !.site = s, !.page = IF Cardinality(PagesWith(n, s, u)) = 1
                                         THEN Chosen(PagesWith(n, s, u)) ELSE Nil]
      BY <1>4, ResolveIs DEF s
    <2>5. Resolve(m, u) = [NoEdge EXCEPT !.site = s, !.page = IF Cardinality(PagesWith(m, s, u)) = 1
                                         THEN Chosen(PagesWith(m, s, u)) ELSE Nil]
      BY <1>2, <1>4, ResolveIs DEF s
    <2>. QED  BY <2>3, <2>4, <2>5
  <1>. QED  BY <1>3, <1>4

\* reconcile_observation writes an edge that is right of the rows it reads.
LEMMA EdgeOK ==
  ASSUME NEW n, NetOK(n), NEW l \in Links
  PROVE  LET found == Resolve(n, l[2])
         IN  /\ Edge(n, l) \in EdgeRow
             /\ Edge(n, l).active <=> /\ found.site \notin {Nil, Source(l)}
                                      /\ IsActive(n, l, found.site, found.page)
             /\ found.site \notin {Nil, Source(l)} =>
                   Edge(n, l).site = found.site /\ Edge(n, l).page = found.page
  <1>. DEFINE found == Resolve(n, l[2])
              old == n.edge[l]
  <1>1. found \in EdgeRow /\ ~found.active /\ l[2] \in Urls
    BY ResolveOK, LinksType
  <1>2. old \in EdgeRow
    BY DEF NetOK, NetRow
  <1>3. IsActive(n, l, found.site, found.page) \in BOOLEAN
    BY DEF IsActive
  <1>4. Edge(n, l) = IF found.site = Nil
        THEN IF old = NoEdge THEN old ELSE [old EXCEPT !.page = Nil, !.active = FALSE]
        ELSE IF found.site = Source(l)
        THEN IF old = NoEdge THEN old ELSE [old EXCEPT !.page = found.page, !.active = FALSE]
        ELSE [found EXCEPT !.active = IsActive(n, l, found.site, found.page)]
    BY DEF Edge
  <1>. HIDE DEF found, old
  <1>5. ASSUME NEW page \in Pages \cup {Nil}
        PROVE  [old EXCEPT !.page = page, !.active = FALSE] \in EdgeRow
                 /\ ~[old EXCEPT !.page = page, !.active = FALSE].active
    BY <1>2 DEF EdgeRow
  <1>6. CASE found.site = Nil
    BY <1>2, <1>4, <1>5, <1>6, NoEdgeOK DEF found
  <1>7. CASE found.site # Nil /\ found.site = Source(l)
    <2>1. found.page \in Pages \cup {Nil}
      BY <1>1 DEF EdgeRow
    <2>. QED  BY <1>2, <1>4, <1>5, <1>7, <2>1, NoEdgeOK DEF found
  <1>8. CASE found.site # Nil /\ found.site # Source(l)
    <2>. DEFINE e == [found EXCEPT !.active = IsActive(n, l, found.site, found.page)]
    <2>1. /\ e \in EdgeRow /\ e.site = found.site /\ e.page = found.page
          /\ e.active <=> IsActive(n, l, found.site, found.page)
      BY <1>1, <1>3 DEF EdgeRow
    <2>2. Edge(n, l) = e
      BY <1>4, <1>8
    <2>. HIDE DEF e
    <2>. QED  BY <1>8, <2>1, <2>2 DEF found
  <1>. QED  BY <1>6, <1>7, <1>8

\* Nothing that decides about a link differs between two versions of the rows.
Spares(n, m, l) ==
  LET found == Resolve(n, l[2])
      old == n.edge[l]
  IN  /\ m.edge[l] = old /\ m.seen[l] = n.seen[l] /\ Resolve(m, l[2]) = found
      /\ m.active[l[1]] = n.active[l[1]] /\ m.state[Source(l)] = n.state[Source(l)]
      /\ found.site \notin {Nil, Source(l)} => m.state[found.site] = n.state[found.site]
      /\ found.page # Nil => m.active[found.page] = n.active[found.page]
      /\ old.active /\ old.page # Nil => /\ m.active[old.page] = n.active[old.page]
                                         /\ l[2] \in n.urls[old.page] => l[2] \in m.urls[old.page]

LEMMA SparedStays ==
  ASSUME NEW n, NEW m, NetOK(n), NetOK(m), NEW l \in Links, Spares(n, m, l)
  PROVE  /\ Sited(n, l) => Sited(m, l)
         /\ Sited(n, l) /\ Backed(n, l) => Backed(m, l)
         /\ Current(n, l) => Current(m, l)
  <1>. DEFINE found == Resolve(n, l[2])
              old == n.edge[l]
  <1>1. /\ m.edge[l] = old /\ m.seen[l] = n.seen[l] /\ Resolve(m, l[2]) = found
        /\ m.active[l[1]] = n.active[l[1]] /\ m.state[Source(l)] = n.state[Source(l)]
        /\ found.site \notin {Nil, Source(l)} => m.state[found.site] = n.state[found.site]
        /\ found.page # Nil => m.active[found.page] = n.active[found.page]
        /\ old.active /\ old.page # Nil => /\ m.active[old.page] = n.active[old.page]
                                           /\ l[2] \in n.urls[old.page] => l[2] \in m.urls[old.page]
    BY DEF Spares
  <1>2. old.active => old.site \notin {Nil, Source(l)}
    BY DEF NetOK
  <1>3. /\ Edge(n, l).active <=> /\ found.site \notin {Nil, Source(l)}
                                 /\ IsActive(n, l, found.site, found.page)
        /\ Edge(m, l).active <=> /\ found.site \notin {Nil, Source(l)}
                                 /\ IsActive(m, l, found.site, found.page)
    BY <1>1, EdgeOK
  <1>. HIDE DEF found, old
  <1>4. Sited(n, l) => Sited(m, l)
    BY <1>1 DEF Sited, found, old
  <1>5. ASSUME Sited(n, l), Backed(n, l) PROVE Backed(m, l)
    <2>1. CASE ~old.active
      BY <1>1, <2>1 DEF Backed
    <2>2. CASE old.active
      <3>1. old.site = found.site
        BY <1>5, <2>2 DEF Sited, found, old
      <3>2. /\ IsActive(n, l, old.site, old.page)
            /\ old.page # Nil => SiteOf[old.page] = old.site /\ l[2] \in n.urls[old.page]
        BY <1>5, <2>2 DEF Backed, old
      <3>3. IsActive(m, l, old.site, old.page)
        BY <1>1, <1>2, <2>2, <3>1, <3>2 DEF IsActive
      <3>. QED  BY <1>1, <2>2, <3>2, <3>3 DEF Backed
    <2>. QED  BY <2>1, <2>2
  <1>6. found.site \notin {Nil, Source(l)} =>
          (IsActive(n, l, found.site, found.page) <=> IsActive(m, l, found.site, found.page))
    BY <1>1 DEF IsActive
  <1>7. Current(n, l) => Current(m, l)
    BY <1>1, <1>3, <1>6 DEF Current, old
  <1>. QED  BY <1>4, <1>5, <1>7

\* A site changes, or is deleted with its pages, that the link has nothing to do with.
LEMMA SiteSpares ==
  ASSUME NEW n, NEW m, NetOK(n), NetOK(m), NEW s \in Sites, NEW l \in Links,
         m.seen[l] = n.seen[l], m.edge[l] = n.edge[l], Sited(n, l), Backed(n, l),
         \A t \in Sites \ {s} : m.state[t] = n.state[t] /\ m.host[t] = n.host[t],
         \A p \in Pages : SiteOf[p] # s => m.active[p] = n.active[p] /\ m.urls[p] = n.urls[p],
         Source(l) # s, n.host[s] # HostOf[l[2]], m.host[s] # HostOf[l[2]]
  PROVE  Spares(n, m, l)
  <1>. DEFINE found == Resolve(n, l[2])
              old == n.edge[l]
  <1>1. /\ found \in EdgeRow /\ found.site # s
        /\ found.page # Nil => SiteOf[found.page] = found.site
    BY ResolveOK, LinksType
  <1>2. \A p \in Pages : SiteOf[p] = found.site => (l[2] \in n.urls[p] <=> l[2] \in m.urls[p])
    BY <1>1
  <1>3. Resolve(m, l[2]) = found
    BY <1>2, LinksType, ResolveSame
  <1>4. old \in EdgeRow /\ (old.active /\ old.page # Nil => SiteOf[old.page] # s)
    BY <1>1 DEF NetOK, NetRow, Sited, Backed
  <1>. HIDE DEF found, old
  <1>5. m.active[l[1]] = n.active[l[1]] /\ m.state[Source(l)] = n.state[Source(l)]
    BY LinksType DEF Source
  <1>6. found.site # Nil => m.state[found.site] = n.state[found.site]
    BY <1>1 DEF EdgeRow
  <1>7. found.page # Nil => m.active[found.page] = n.active[found.page]
    BY <1>1 DEF EdgeRow
  <1>8. old.active /\ old.page # Nil => m.active[old.page] = n.active[old.page] /\ m.urls[old.page] = n.urls[old.page]
    BY <1>4 DEF EdgeRow
  <1>. QED  BY <1>3, <1>5, <1>6, <1>7, <1>8 DEF Spares, found, old

\* A page changes that the link has nothing to do with.
LEMMA PageSpares ==
  ASSUME NEW n, NEW m, NetOK(n), NetOK(m), NEW q \in Pages, NEW l \in Links,
         m.seen[l] = n.seen[l], m.edge[l] = n.edge[l], Backed(n, l),
         m.state = n.state, m.host = n.host,
         \A p \in Pages \ {q} : m.active[p] = n.active[p] /\ m.urls[p] = n.urls[p],
         l[1] # q, l[2] \notin n.urls[q], l[2] \notin m.urls[q]
  PROVE  Spares(n, m, l)
  <1>. DEFINE found == Resolve(n, l[2])
              old == n.edge[l]
  <1>1. found \in EdgeRow /\ (found.page # Nil => l[2] \in n.urls[found.page])
    BY ResolveOK, LinksType
  <1>2. Resolve(m, l[2]) = found
    BY LinksType, ResolveSame
  <1>3. old \in EdgeRow /\ (old.active /\ old.page # Nil => l[2] \in n.urls[old.page])
    BY DEF NetOK, NetRow, Backed
  <1>. HIDE DEF found, old
  <1>4. m.active[l[1]] = n.active[l[1]]
    BY LinksType
  <1>5. found.page # Nil => m.active[found.page] = n.active[found.page]
    BY <1>1 DEF EdgeRow
  <1>6. old.active /\ old.page # Nil => m.active[old.page] = n.active[old.page] /\ m.urls[old.page] = n.urls[old.page]
    BY <1>3 DEF EdgeRow
  <1>. QED  BY <1>2, <1>4, <1>5, <1>6 DEF Spares, found, old

\* Reconciling links makes them right, and leaves everything else alone.
LEMMA ReconciledOK ==
  ASSUME NEW n, NetOK(n), NEW ls, ls \subseteq Linked(n)
  PROVE  LET m == Reconciled(n, ls)
         IN  /\ NetOK(m) /\ m.state = n.state /\ m.host = n.host /\ m.active = n.active
             /\ m.urls = n.urls /\ m.seen = n.seen
             /\ \A l \in Links : m.edge[l] = IF l \in ls THEN Edge(n, l) ELSE n.edge[l]
             /\ \A l \in ls : l \in Links /\ Sited(m, l) /\ Backed(m, l) /\ Current(m, l)
  <1>. DEFINE edge == [l \in Links |-> IF l \in ls THEN Edge(n, l) ELSE n.edge[l]]
              m == [n EXCEPT !.edge = edge]
  <1>1. Reconciled(n, ls) = m
    BY DEF Reconciled
  <1>2. n \in NetRow /\ ls \subseteq Links /\ \A l \in ls : n.seen[l] # "absent"
    BY DEF NetOK, Linked
  <1>3. \A l \in Links : edge[l] = IF l \in ls THEN Edge(n, l) ELSE n.edge[l]
    OBVIOUS
  <1>4. edge \in [Links -> EdgeRow]
    BY <1>2, EdgeOK DEF NetRow
  <1>. HIDE DEF edge
  <1>5. /\ m \in NetRow /\ m.edge = edge /\ m.state = n.state /\ m.host = n.host
        /\ m.active = n.active /\ m.urls = n.urls /\ m.seen = n.seen
    BY <1>2, <1>4 DEF NetRow
  <1>. HIDE DEF m
  <1>6. ASSUME NEW l \in Links
        PROVE  /\ m.seen[l] = "absent" => m.edge[l] = NoEdge
               /\ m.edge[l].active => m.edge[l].site \notin {Nil, Source(l)}
    BY <1>2, <1>3, <1>5, EdgeOK DEF NetOK
  <1>7. NetOK(m)
    BY <1>5, <1>6 DEF NetOK
  <1>8. ASSUME NEW l \in ls PROVE Sited(m, l) /\ Backed(m, l) /\ Current(m, l)
    <2>. DEFINE found == Resolve(n, l[2])
    <2>1. l \in Links /\ m.edge[l] = Edge(n, l)
      BY <1>2, <1>3, <1>5
    <2>2. Resolve(m, l[2]) = found
      BY <1>5, <1>7, <2>1, LinksType, ResolveSame
    <2>3. found.page # Nil => SiteOf[found.page] = found.site /\ l[2] \in n.urls[found.page]
      BY <2>1, LinksType, ResolveOK
    <2>4. /\ Edge(n, l).active <=> found.site \notin {Nil, Source(l)} /\ IsActive(n, l, found.site, found.page)
          /\ found.site \notin {Nil, Source(l)} => Edge(n, l).site = found.site /\ Edge(n, l).page = found.page
      BY <2>1, EdgeOK
    <2>5. Edge(m, l).active <=> found.site \notin {Nil, Source(l)} /\ IsActive(m, l, found.site, found.page)
      BY <1>7, <2>1, <2>2, EdgeOK
    <2>. HIDE DEF found
    <2>6. IsActive(m, l, found.site, found.page) <=> IsActive(n, l, found.site, found.page)
      BY <1>5 DEF IsActive
    <2>7. Sited(m, l)
      BY <2>1, <2>2, <2>4 DEF Sited
    <2>8. Backed(m, l)
      BY <1>5, <2>1, <2>3, <2>4, <2>6 DEF Backed
    <2>9. Current(m, l)
      BY <2>1, <2>4, <2>5, <2>6 DEF Current
    <2>. QED  BY <2>7, <2>8, <2>9
  <1>. QED  BY <1>1, <1>2, <1>3, <1>5, <1>7, <1>8

\* The rows as the open ingestion will leave them are consistent.
LEMMA MergedOK ==
  ASSUME NEW n, NEW i, NEW over, NetOK(n), HeldOK(n, i, over)
  PROVE  LET m == Merged(n, i)
         IN  /\ NetOK(m) /\ m.state = n.state /\ m.host = n.host
             /\ \A p \in Pages : /\ m.active[p] = IF p = i.page THEN i.rows.active[p] ELSE n.active[p]
                                 /\ m.urls[p] = IF p = i.page THEN i.rows.urls[p] ELSE n.urls[p]
             /\ \A l \in Links : /\ m.seen[l] = IF l \in Writes(i) THEN i.rows.seen[l] ELSE n.seen[l]
                                 /\ m.edge[l] = IF l \in Writes(i) THEN i.rows.edge[l] ELSE n.edge[l]
  <1>. DEFINE m == Merged(n, i)
  <1>1. n \in NetRow /\ i.rows \in NetRow /\ i.page \in Pages
    BY DEF NetOK, HeldOK
  <1>2. /\ m.state = n.state /\ m.host = n.host
        /\ \A p \in Pages : /\ m.active[p] = IF p = i.page THEN i.rows.active[p] ELSE n.active[p]
                            /\ m.urls[p] = IF p = i.page THEN i.rows.urls[p] ELSE n.urls[p]
    BY <1>1 DEF Merged, NetRow
  <1>3. \A l \in Links : /\ m.seen[l] = IF l \in Writes(i) THEN i.rows.seen[l] ELSE n.seen[l]
                         /\ m.edge[l] = IF l \in Writes(i) THEN i.rows.edge[l] ELSE n.edge[l]
    BY DEF Merged
  <1>4. m \in NetRow
    <2>1. /\ [n.active EXCEPT ![i.page] = i.rows.active[i.page]] \in [Pages -> BOOLEAN]
          /\ [n.urls EXCEPT ![i.page] = i.rows.urls[i.page]] \in [Pages -> SUBSET Urls]
      BY <1>1 DEF NetRow
    <2>2. /\ [l \in Links |-> IF l \in Writes(i) THEN i.rows.seen[l] ELSE n.seen[l]]
               \in [Links -> {"absent", "active", "inactive"}]
          /\ [l \in Links |-> IF l \in Writes(i) THEN i.rows.edge[l] ELSE n.edge[l]] \in [Links -> EdgeRow]
      BY <1>1 DEF NetRow
    <2>3. n.state \in [Sites -> {"absent", "active", "suspended"}] /\ n.host \in [Sites -> Hosts \cup {Nil}]
      BY <1>1 DEF NetRow
    <2>. QED  BY <2>1, <2>2, <2>3 DEF Merged, NetRow
  <1>. HIDE DEF m
  <1>5. ASSUME NEW l \in Links
        PROVE  /\ m.seen[l] = "absent" => m.edge[l] = NoEdge
               /\ m.edge[l].active => m.edge[l].site \notin {Nil, Source(l)}
    <2>1. CASE l \in Writes(i)
      <3>1. i.rows.seen[l] # "absent" /\ (i.rows.edge[l].active => i.rows.edge[l].site \notin {Nil, Source(l)})
        BY <2>1 DEF HeldOK
      <3>. QED  BY <1>3, <2>1, <3>1
    <2>2. CASE l \notin Writes(i)
      BY <1>3, <2>2 DEF NetOK
    <2>. QED  BY <2>1, <2>2
  <1>6. NetOK(m)
    BY <1>2, <1>4, <1>5 DEF NetOK
  <1>. QED  BY <1>2, <1>3, <1>6 DEF m

-----------------------------------------------------------------------------
(* The steps of the other transactions, and of the ingestion.                *)

LEMMA GraphInvInit == GraphInit => GraphInv
  <1>. SUFFICES ASSUME GraphInit PROVE GraphInv
    OBVIOUS
  <1>1. net \in NetRow
    BY NoEdgeOK DEF GraphInit, NetRow
  <1>2. \A l \in Links : net.seen[l] = "absent" /\ net.edge[l] = NoEdge
    BY DEF GraphInit
  <1>3. \A s \in Sites : net.state[s] = "absent" /\ net.host[s] = Nil
    BY DEF GraphInit
  <1>4. NetOK(net)
    BY <1>1, <1>2, <1>3, NoEdgeOK DEF NetOK
  <1>5. Linked(net) = {} /\ overlapped = {} /\ ingesting = Closed /\ ~Open
    BY <1>2 DEF Linked, GraphInit, Open, Closed
  <1>. QED  BY <1>4, <1>5 DEF GraphInv

\* Another transaction leaves the open ingestion right: each link is excepted,
\* reconciled or has nothing to do with it.
LEMMA OtherStep ==
  ASSUME GraphInv, NetOK(net'), ingesting' = ingesting, Linked(net') \subseteq Linked(net),
         overlapped' \subseteq Linked(net') \cup ingesting.inserted,
         \A l \in Linked(net') \ overlapped' :
           \/ Sited(net', l) /\ Backed(net', l) /\ Current(net', l)
           \/ l \notin overlapped /\ (l \notin givenUp' => l \notin givenUp) /\ Spares(net, net', l),
         Open => /\ ingesting.locked \subseteq Linked(net') /\ ingesting.inserted \subseteq overlapped'
                 /\ net'.state[SiteOf[ingesting.page]] # "absent"
                 /\ \A l \in Linked(net') \ (ingesting.locked \cup overlapped') :
                      net'.edge[l].page # ingesting.page
                 /\ \A l \in ingesting.locked \ overlapped' :
                      l \notin overlapped /\ Spares(Merged(net, ingesting), Merged(net', ingesting), l)
  PROVE  GraphInv'
  <1>1. \A l \in Linked(net) \cup Linked(net') : l \in Links
    BY DEF Linked
  <1>2. ASSUME NEW l \in Linked(net') \ overlapped'
        PROVE  Sited(net', l) /\ Backed(net', l) /\ (l \notin givenUp' => Current(net', l))
    BY <1>1, <1>2, SparedStays DEF GraphInv
  <1>3. CASE Open
    <2>. DEFINE i == ingesting
                over == overlapped'
                m == Merged(net, i)
                mm == Merged(net', i)
    <2>1. OpenOK(net, i, overlapped) /\ NetOK(net)
      BY <1>3 DEF GraphInv
    <2>2. /\ i.page \in Pages /\ i.rows \in NetRow /\ i.inserted \subseteq Links
          /\ \A l \in i.inserted : l[1] = i.page /\ l \notin Linked(net)
          /\ \A l \in Linked(net) \ i.locked : l[1] # i.page /\ l[2] \notin i.rows.urls[i.page]
          /\ \A l \in Writes(i) : /\ i.rows.seen[l] # "absent"
                                  /\ i.rows.edge[l].active => i.rows.edge[l].site \notin {Nil, Source(l)}
      BY <2>1 DEF OpenOK, HeldOK
    <2>3. NetOK(m)
      BY <2>1, MergedOK DEF OpenOK
    <2>4. \A l \in Linked(net') \ i.locked : /\ l[1] # i.page /\ l[2] \notin i.rows.urls[i.page]
                                             /\ l \notin over => net'.edge[l].page # i.page
      BY <1>3, <2>2
    <2>5. HeldOK(net', i, over)
      BY <1>3, <2>2, <2>4 DEF HeldOK
    <2>6. NetOK(mm)
      BY <2>5, MergedOK
    <2>7. ASSUME NEW l \in Writes(i) \ over PROVE Sited(mm, l) /\ Backed(mm, l) /\ Current(mm, l)
      <3>1. l \in i.locked /\ l \notin overlapped /\ Spares(m, mm, l) /\ l \in Links
        BY <1>1, <1>3, <2>7 DEF Writes
      <3>2. Sited(m, l) /\ Backed(m, l) /\ Current(m, l)
        BY <2>1, <2>7, <3>1 DEF OpenOK
      <3>. QED  BY <2>3, <2>6, <3>1, <3>2, SparedStays
    <2>8. OpenOK(net', i, over)
      BY <2>5, <2>7 DEF OpenOK
    <2>. QED  BY <1>2, <1>3, <2>8 DEF GraphInv, Open
  <1>4. CASE ~Open
    BY <1>2, <1>4 DEF GraphInv, Open
  <1>. QED  BY <1>3, <1>4

\* A transaction that changes some rows and reconciles links.
LEMMA CommitStep ==
  ASSUME GraphInv, NEW n, NetOK(n), n.seen = net.seen, n.edge = net.edge, n.urls = net.urls,
         NEW ls, ls \subseteq Linked(n), Commit(n, ls),
         Open => n.state[SiteOf[ingesting.page]] # "absent",
         \A m, mm : \A l \in Linked(net) \ (ls \cup overlapped) :
            /\ NetOK(m) /\ NetOK(mm) /\ m.state = net.state /\ m.host = net.host
            /\ mm.state = n.state /\ mm.host = n.host
            /\ \A p \in Pages : \/ m.urls[p] = net.urls[p] /\ m.active[p] = net.active[p]
                                     /\ mm.urls[p] = n.urls[p] /\ mm.active[p] = n.active[p]
                                \/ Open /\ p = ingesting.page
                                     /\ mm.urls[p] = m.urls[p] /\ mm.active[p] = m.active[p]
            /\ m.seen[l] = mm.seen[l] /\ m.edge[l] = mm.edge[l] /\ Sited(m, l) /\ Backed(m, l)
            => Spares(m, mm, l)
  PROVE  GraphInv'
  <1>. DEFINE i == ingesting
  <1>1. /\ net' = Reconciled(n, ls) /\ i' = i /\ ls \cap i.locked = {}
        /\ overlapped' = (overlapped \ ls) \cup i.inserted
                           \cup {l \in ls : Open /\ net'.edge[l].page = i.page}
        /\ givenUp' = givenUp \ ls
    BY DEF Commit
  <1>2. /\ NetOK(net') /\ net'.state = n.state /\ net'.host = n.host /\ net'.active = n.active
        /\ net'.urls = n.urls /\ net'.seen = n.seen
        /\ \A l \in Links : l \notin ls => net'.edge[l] = n.edge[l]
        /\ \A l \in ls : Sited(net', l) /\ Backed(net', l) /\ Current(net', l)
    BY <1>1, ReconciledOK
  <1>3. Linked(net') = Linked(net) /\ Linked(n) = Linked(net) /\ Linked(net) \subseteq Links
    BY <1>2 DEF Linked
  <1>4. overlapped' \subseteq Linked(net') \cup i.inserted
    BY <1>1, <1>3 DEF GraphInv
  <1>5. ASSUME NEW l \in Linked(net') \ overlapped', l \notin ls
        PROVE  l \notin overlapped /\ (l \notin givenUp' => l \notin givenUp) /\ Spares(net, net', l)
    <2>1. l \notin overlapped /\ (l \notin givenUp' => l \notin givenUp)
      BY <1>1, <1>5
    <2>2. Sited(net, l) /\ Backed(net, l) /\ NetOK(net)
      BY <1>3, <1>5, <2>1 DEF GraphInv
    <2>. QED  BY <1>2, <1>3, <1>5, <2>1, <2>2
  <1>6. ASSUME Open
        PROVE  /\ i.locked \subseteq Linked(net') /\ i.inserted \subseteq overlapped'
               /\ net'.state[SiteOf[i.page]] # "absent"
               /\ \A l \in Linked(net') \ (i.locked \cup overlapped') : net'.edge[l].page # i.page
    <2>1. OpenOK(net, i, overlapped)
      BY <1>6 DEF GraphInv
    <2>2. ASSUME NEW l \in Linked(net') \ (i.locked \cup overlapped') PROVE net'.edge[l].page # i.page
      <3>1. CASE l \in ls
        BY <1>1, <1>6, <2>2, <3>1
      <3>2. CASE l \notin ls
        BY <1>1, <1>2, <1>3, <2>1, <2>2, <3>2 DEF OpenOK, HeldOK
      <3>. QED  BY <3>1, <3>2
    <2>. QED  BY <1>1, <1>2, <1>3, <1>6, <2>1, <2>2 DEF OpenOK, HeldOK
  <1>7. ASSUME Open, NEW l \in i.locked \ overlapped'
        PROVE  l \notin overlapped /\ Spares(Merged(net, i), Merged(net', i), l)
    <2>. DEFINE m == Merged(net, i)
                mm == Merged(net', i)
    <2>1. OpenOK(net, i, overlapped) /\ NetOK(net)
      BY <1>7 DEF GraphInv
    <2>2. l \in Linked(net) \ (ls \cup overlapped) /\ l \in Writes(i) /\ l \in Links
      BY <1>1, <1>3, <1>7, <2>1 DEF OpenOK, HeldOK, Writes
    <2>3. Sited(m, l) /\ Backed(m, l)
      BY <2>1, <2>2 DEF OpenOK, HeldOK
    <2>4. /\ NetOK(m) /\ m.state = net.state /\ m.host = net.host
          /\ \A p \in Pages : /\ m.active[p] = IF p = i.page THEN i.rows.active[p] ELSE net.active[p]
                              /\ m.urls[p] = IF p = i.page THEN i.rows.urls[p] ELSE net.urls[p]
          /\ m.seen[l] = i.rows.seen[l] /\ m.edge[l] = i.rows.edge[l]
      BY <2>1, <2>2, MergedOK DEF OpenOK
    <2>5. HeldOK(net', i, Links)
      BY <1>3, <1>6, <1>7, <2>1 DEF OpenOK, HeldOK
    <2>6. /\ NetOK(mm) /\ mm.state = n.state /\ mm.host = n.host
          /\ \A p \in Pages : /\ mm.active[p] = IF p = i.page THEN i.rows.active[p] ELSE n.active[p]
                              /\ mm.urls[p] = IF p = i.page THEN i.rows.urls[p] ELSE n.urls[p]
          /\ mm.seen[l] = i.rows.seen[l] /\ mm.edge[l] = i.rows.edge[l]
      BY <1>2, <2>2, <2>5, MergedOK
    <2>. HIDE DEF m, mm
    <2>7. \A p \in Pages : \/ m.urls[p] = net.urls[p] /\ m.active[p] = net.active[p]
                                /\ mm.urls[p] = n.urls[p] /\ mm.active[p] = n.active[p]
                           \/ Open /\ p = ingesting.page
                                /\ mm.urls[p] = m.urls[p] /\ mm.active[p] = m.active[p]
      BY <1>7, <2>4, <2>6
    <2>8. Spares(m, mm, l)
      BY <2>2, <2>3, <2>4, <2>6, <2>7
    <2>. QED  BY <2>2, <2>8 DEF m, mm
  <1>8. \A l \in Linked(net') \ overlapped' :
           \/ Sited(net', l) /\ Backed(net', l) /\ Current(net', l)
           \/ l \notin overlapped /\ (l \notin givenUp' => l \notin givenUp) /\ Spares(net, net', l)
    BY <1>2, <1>5
  <1>. HIDE DEF i
  <1>. QED  BY <1>1, <1>2, <1>3, <1>4, <1>6, <1>7, <1>8, OtherStep DEF i

\* An article is published or removed.
LEMMA PageStep ==
  ASSUME GraphInv, NEW q \in Pages, PageFree(q), NEW n, NetOK(n),
         n.state = net.state, n.host = net.host, n.urls = net.urls, n.seen = net.seen, n.edge = net.edge,
         \A p \in Pages \ {q} : n.active[p] = net.active[p], Commit(n, OfPage(n, q))
  PROVE  GraphInv'
  <1>. DEFINE ls == OfPage(n, q)
  <1>1. Linked(n) = Linked(net) /\ Linked(net) \subseteq Links
    BY DEF Linked
  <1>2. Open => n.state[SiteOf[ingesting.page]] # "absent" /\ ingesting.page # q
    BY DEF GraphInv, OpenOK, HeldOK, PageFree, SiteFree
  <1>3. ASSUME NEW l \in Linked(net) \ ls PROVE l[1] # q /\ l[2] \notin net.urls[q]
    BY <1>1, <1>3 DEF OfPage
  <1>4. ls \subseteq Linked(n)
    BY DEF OfPage
  <1>. HIDE DEF ls
  <1>5. ASSUME NEW m, NEW mm, NEW l \in Linked(net) \ (ls \cup overlapped),
               NetOK(m), NetOK(mm), m.state = net.state, m.host = net.host,
               mm.state = n.state, mm.host = n.host,
               \A p \in Pages : \/ m.urls[p] = net.urls[p] /\ m.active[p] = net.active[p]
                                     /\ mm.urls[p] = n.urls[p] /\ mm.active[p] = n.active[p]
                                \/ Open /\ p = ingesting.page
                                     /\ mm.urls[p] = m.urls[p] /\ mm.active[p] = m.active[p],
               m.seen[l] = mm.seen[l], m.edge[l] = mm.edge[l], Sited(m, l), Backed(m, l)
        PROVE  Spares(m, mm, l)
    <2>1. l \in Links /\ l[1] # q /\ l[2] \notin m.urls[q]
      BY <1>1, <1>2, <1>3, <1>5
    <2>2. \A p \in Pages : mm.urls[p] = m.urls[p]
      BY <1>5
    <2>3. \A p \in Pages \ {q} : mm.active[p] = m.active[p] /\ mm.urls[p] = m.urls[p]
      BY <1>5, <2>2
    <2>4. l[2] \notin mm.urls[q]
      BY <2>1, <2>2
    <2>. QED  BY <1>5, <2>1, <2>3, <2>4, PageSpares
  <1>6. Commit(n, ls)
    BY DEF ls
  <1>. QED  BY <1>1, <1>2, <1>4, <1>5, <1>6, CommitStep

LEMMA PageChanges ==
  ASSUME GraphInv, NEW q \in Pages, Publish(q) \/ Unpublish(q)
  PROVE  GraphInv'
  <1>1. ASSUME NEW b \in BOOLEAN, PageFree(q),
               Commit([net EXCEPT !.active[q] = b], OfPage([net EXCEPT !.active[q] = b], q))
        PROVE  GraphInv'
    <2>. DEFINE n == [net EXCEPT !.active[q] = b]
    <2>1. NetOK(net) /\ net \in NetRow
      BY DEF GraphInv, NetOK
    <2>2. /\ n \in NetRow /\ n.state = net.state /\ n.host = net.host /\ n.urls = net.urls
          /\ n.seen = net.seen /\ n.edge = net.edge
          /\ \A p \in Pages \ {q} : n.active[p] = net.active[p]
      BY <2>1 DEF NetRow
    <2>3. Commit(n, OfPage(n, q))
      BY <1>1
    <2>. HIDE DEF n
    <2>4. NetOK(n)
      BY <2>1, <2>2 DEF NetOK
    <2>. QED  BY <1>1, <2>2, <2>3, <2>4, PageStep
  <1>2. CASE Publish(q)
    BY <1>1, <1>2 DEF Publish
  <1>3. CASE Unpublish(q)
    BY <1>1, <1>3 DEF Unpublish
  <1>. QED  BY <1>2, <1>3

\* A site is created, moved, suspended or reactivated.
LEMMA SiteStep ==
  ASSUME GraphInv, NEW s \in Sites, NEW n, NetOK(n), n.state[s] # "absent",
         n.active = net.active, n.urls = net.urls, n.seen = net.seen, n.edge = net.edge,
         \A t \in Sites \ {s} : n.state[t] = net.state[t] /\ n.host[t] = net.host[t],
         Commit(n, OfSite(n, s))
  PROVE  GraphInv'
  <1>. DEFINE ls == OfSite(n, s)
  <1>1. NetOK(net) /\ Linked(n) = Linked(net) /\ Linked(net) \subseteq Links
    BY DEF GraphInv, Linked
  <1>2. Open => n.state[SiteOf[ingesting.page]] # "absent"
    BY GraphAssumption DEF GraphInv, OpenOK, HeldOK
  <1>3. ASSUME NEW l \in Linked(net) \ (ls \cup overlapped)
        PROVE  l \in Links /\ Source(l) # s /\ net.host[s] # HostOf[l[2]] /\ n.host[s] # HostOf[l[2]]
    <2>1. l \in Links /\ Source(l) # s /\ net.edge[l].site # s /\ n.host[s] # HostOf[l[2]]
      BY <1>1, <1>3 DEF OfSite
    <2>2. Sited(net, l)
      BY <1>3 DEF GraphInv
    <2>3. ASSUME net.host[s] = HostOf[l[2]] PROVE FALSE
      <3>1. Resolve(net, l[2]).site = s
        BY <1>1, <2>1, <2>3, LinksType, ResolveOK
      <3>. QED  BY <2>1, <2>2, <3>1, NilType DEF Sited
    <2>. QED  BY <2>1, <2>3
  <1>4. ls \subseteq Linked(n)
    BY DEF OfSite
  <1>. HIDE DEF ls
  <1>5. ASSUME NEW m, NEW mm, NEW l \in Linked(net) \ (ls \cup overlapped),
               NetOK(m), NetOK(mm), m.state = net.state, m.host = net.host,
               mm.state = n.state, mm.host = n.host,
               \A p \in Pages : \/ m.urls[p] = net.urls[p] /\ m.active[p] = net.active[p]
                                     /\ mm.urls[p] = n.urls[p] /\ mm.active[p] = n.active[p]
                                \/ Open /\ p = ingesting.page
                                     /\ mm.urls[p] = m.urls[p] /\ mm.active[p] = m.active[p],
               m.seen[l] = mm.seen[l], m.edge[l] = mm.edge[l], Sited(m, l), Backed(m, l)
        PROVE  Spares(m, mm, l)
    <2>1. \A p \in Pages : mm.urls[p] = m.urls[p] /\ mm.active[p] = m.active[p]
      BY <1>5
    <2>2. \A t \in Sites \ {s} : mm.state[t] = m.state[t] /\ mm.host[t] = m.host[t]
      BY <1>5
    <2>. QED  BY <1>3, <1>5, <2>1, <2>2, SiteSpares
  <1>6. Commit(n, ls)
    BY DEF ls
  <1>. QED  BY <1>1, <1>2, <1>4, <1>5, <1>6, CommitStep

LEMMA SiteChanges ==
  ASSUME GraphInv, NEW s \in Sites, NEW h \in Hosts, CreateSite(s, h) \/ MoveSite(s, h) \/ Transition(s)
  PROVE  GraphInv'
  <1>1. NetOK(net) /\ net \in NetRow /\ h # Nil
    BY NilType DEF GraphInv, NetOK
  <1>2. CASE CreateSite(s, h)
    <2>. DEFINE n == [net EXCEPT !.state[s] = "active", !.host[s] = h]
    <2>1. /\ n \in NetRow /\ n.active = net.active /\ n.urls = net.urls /\ n.seen = net.seen
          /\ n.edge = net.edge /\ n.state[s] = "active" /\ n.host[s] = h
          /\ \A t \in Sites \ {s} : n.state[t] = net.state[t] /\ n.host[t] = net.host[t]
      BY <1>1 DEF NetRow
    <2>2. Commit(n, OfSite(n, s)) /\ \A t \in Sites : net.host[t] # h
      BY <1>2 DEF CreateSite, Unclaimed
    <2>. HIDE DEF n
    <2>3. NetOK(n)
      BY <1>1, <2>1, <2>2 DEF NetOK
    <2>. QED  BY <2>1, <2>2, <2>3, SiteStep
  <1>3. CASE MoveSite(s, h)
    <2>. DEFINE n == [net EXCEPT !.host[s] = h]
    <2>1. /\ n \in NetRow /\ n.active = net.active /\ n.urls = net.urls /\ n.seen = net.seen
          /\ n.edge = net.edge /\ n.state = net.state /\ n.host[s] = h
          /\ \A t \in Sites \ {s} : n.host[t] = net.host[t]
      BY <1>1 DEF NetRow
    <2>2. Commit(n, OfSite(n, s)) /\ net.state[s] # "absent" /\ \A t \in Sites : net.host[t] # h
      BY <1>3 DEF MoveSite, Unclaimed
    <2>. HIDE DEF n
    <2>3. NetOK(n)
      BY <1>1, <2>1, <2>2 DEF NetOK
    <2>. QED  BY <2>1, <2>2, <2>3, SiteStep
  <1>4. CASE Transition(s)
    <2>. DEFINE n == [net EXCEPT !.state[s] = IF @ = "active" THEN "suspended" ELSE "active"]
    <2>1. /\ n \in NetRow /\ n.active = net.active /\ n.urls = net.urls /\ n.seen = net.seen
          /\ n.edge = net.edge /\ n.host = net.host /\ n.state[s] # "absent"
          /\ \A t \in Sites \ {s} : n.state[t] = net.state[t]
      BY <1>1 DEF NetRow
    <2>2. Commit(n, OfSite(n, s)) /\ net.state[s] # "absent"
      BY <1>4 DEF Transition
    <2>. HIDE DEF n
    <2>3. NetOK(n)
      BY <1>1, <2>1, <2>2 DEF NetOK
    <2>. QED  BY <2>1, <2>2, <2>3, SiteStep
  <1>. QED  BY <1>2, <1>3, <1>4

\* A site is deleted: what an open ingestion writes has nothing to do with it.
LEMMA DeleteStep == ASSUME GraphInv, NEW s \in Sites, DeleteSite(s) PROVE GraphInv'
  <1>. DEFINE i == ingesting
              gone(l) == Source(l) = s \/ net.edge[l].site = s
  <1>1. NetOK(net) /\ net \in NetRow
    BY DEF GraphInv, NetOK
  <1>2. net' = [state |-> [net.state EXCEPT ![s] = "absent"],
                host |-> [net.host EXCEPT ![s] = Nil],
                active |-> [p \in Pages |-> net.active[p] /\ SiteOf[p] # s],
                urls |-> [p \in Pages |-> IF SiteOf[p] = s THEN {} ELSE net.urls[p]],
                seen |-> [l \in Links |-> IF Source(l) = s THEN "absent" ELSE net.seen[l]],
                edge |-> [l \in Links |-> IF gone(l) THEN NoEdge ELSE net.edge[l]]]
    BY DEF DeleteSite
  <1>3. /\ overlapped' = {l \in overlapped \cup i.inserted : Source(l) # s}
        /\ givenUp' = {l \in givenUp : Source(l) # s} /\ i' = i
        /\ SiteFree(s) /\ net.state[s] # "absent"
        /\ \A l \in i.locked \cup i.inserted : s \notin {Source(l), net.edge[l].site, i.rows.edge[l].site}
    BY DEF DeleteSite
  <1>4. /\ net'.state[s] = "absent" /\ net'.host[s] = Nil
        /\ \A t \in Sites \ {s} : net'.state[t] = net.state[t] /\ net'.host[t] = net.host[t]
        /\ \A p \in Pages : SiteOf[p] # s => net'.active[p] = net.active[p] /\ net'.urls[p] = net.urls[p]
        /\ \A l \in Links : /\ net'.seen[l] = IF Source(l) = s THEN "absent" ELSE net.seen[l]
                            /\ net'.edge[l] = IF gone(l) THEN NoEdge ELSE net.edge[l]
    BY <1>1, <1>2 DEF NetRow
  <1>5. net' \in NetRow
    BY <1>1, <1>2, NoEdgeOK DEF NetRow
  <1>6. NetOK(net')
    <2>1. ASSUME NEW l \in Links
          PROVE  /\ net'.seen[l] = "absent" => net'.edge[l] = NoEdge
                 /\ net'.edge[l].active => net'.edge[l].site \notin {Nil, Source(l)}
      BY <1>1, <1>4, NoEdgeOK DEF NetOK
    <2>2. \A t \in Sites : (net'.state[t] = "absent") <=> (net'.host[t] = Nil)
      BY <1>1, <1>4 DEF NetOK
    <2>3. \A t, u \in Sites : net'.host[t] = net'.host[u] => t = u \/ net'.host[t] = Nil
      BY <1>1, <1>4 DEF NetOK
    <2>. QED  BY <1>5, <2>1, <2>2, <2>3 DEF NetOK
  <1>7. Linked(net') = {l \in Linked(net) : Source(l) # s} /\ Linked(net) \subseteq Links
    BY <1>4 DEF Linked
  <1>8. overlapped' \subseteq Linked(net') \cup i.inserted
    BY <1>3, <1>7 DEF GraphInv
  \* The host of the deleted site is that of no other link's URL.
  <1>9. ASSUME NEW l \in Linked(net) \ overlapped, ~gone(l) PROVE net.host[s] # HostOf[l[2]]
    <2>1. l \in Links /\ Sited(net, l)
      BY <1>7, <1>9 DEF GraphInv
    <2>2. ASSUME net.host[s] = HostOf[l[2]] PROVE Resolve(net, l[2]).site = s
      BY <1>1, <2>1, <2>2, LinksType, ResolveOK
    <2>. QED  BY <1>9, <2>1, <2>2, NilType DEF Sited
  <1>10. ASSUME NEW l \in Linked(net') \ overlapped'
         PROVE  \/ Sited(net', l) /\ Backed(net', l) /\ Current(net', l)
                \/ l \notin overlapped /\ (l \notin givenUp' => l \notin givenUp) /\ Spares(net, net', l)
    <2>1. l \in Links /\ l \in Linked(net) \ overlapped /\ Source(l) # s /\ (l \notin givenUp' => l \notin givenUp)
      BY <1>3, <1>7, <1>10
    <2>2. Sited(net, l) /\ Backed(net, l)
      BY <2>1 DEF GraphInv
    <2>3. net'.host[s] # HostOf[l[2]]
      BY <1>4, <2>1, LinksType, NilType
    <2>4. CASE net.edge[l].site # s
      <3>1. net'.edge[l] = net.edge[l] /\ net'.seen[l] = net.seen[l] /\ net.host[s] # HostOf[l[2]]
        BY <1>4, <1>9, <2>1, <2>4
      <3>2. Spares(net, net', l)
        BY <1>1, <1>4, <1>6, <2>1, <2>2, <2>3, <3>1, SiteSpares
      <3>. QED  BY <2>1, <3>2
    <2>5. CASE net.edge[l].site = s
      <3>. DEFINE found == Resolve(net', l[2])
      <3>1. found \in EdgeRow /\ \A t \in Sites : found.site = t <=> net'.host[t] = HostOf[l[2]]
        BY <1>6, <2>1, LinksType, ResolveOK
      <3>2. \A t \in Sites : Resolve(net, l[2]).site = t <=> net.host[t] = HostOf[l[2]]
        BY <1>1, <2>1, LinksType, ResolveOK
      <3>3. Resolve(net, l[2]).site \notin {Nil, Source(l)} => Resolve(net, l[2]).site = s
        BY <2>2, <2>5 DEF Sited
      <3>. HIDE DEF found
      <3>4. found.site \in {Nil, Source(l)}
        <4>. SUFFICES ASSUME found.site # Nil, found.site # Source(l) PROVE FALSE
          OBVIOUS
        <4>1. PICK t \in Sites : found.site = t /\ t # s
          BY <2>3, <3>1 DEF EdgeRow
        <4>. QED  BY <1>4, <3>1, <3>2, <3>3, <4>1, NilType
      <3>5. net'.edge[l] = NoEdge
        BY <1>4, <2>1, <2>5
      <3>6. ~Edge(net', l).active
        BY <1>6, <2>1, <3>4, EdgeOK DEF found
      <3>. QED  BY <3>4, <3>5, <3>6, NoEdgeOK DEF Sited, Backed, Current, found
    <2>. QED  BY <2>4, <2>5
  <1>11. ASSUME Open
         PROVE  /\ i.locked \subseteq Linked(net') /\ i.inserted \subseteq overlapped'
                /\ net'.state[SiteOf[i.page]] # "absent"
                /\ \A l \in Linked(net') \ (i.locked \cup overlapped') : net'.edge[l].page # i.page
                /\ \A l \in i.locked \ overlapped' :
                     l \notin overlapped /\ Spares(Merged(net, i), Merged(net', i), l)
    <2>. DEFINE m == Merged(net, i)
                mm == Merged(net', i)
    <2>1. OpenOK(net, i, overlapped) /\ HeldOK(net, i, overlapped)
      BY <1>11 DEF GraphInv, OpenOK
    <2>2. /\ i.page \in Pages /\ net.state[SiteOf[i.page]] # "absent" /\ i.rows \in NetRow
          /\ i.inserted \subseteq Links /\ i.locked \subseteq Linked(net)
          /\ \A l \in i.inserted : l[1] = i.page /\ l \notin Linked(net)
          /\ \A l \in Linked(net) \ i.locked : /\ l[1] # i.page /\ l[2] \notin i.rows.urls[i.page]
                                               /\ l \notin overlapped => net.edge[l].page # i.page
          /\ \A l \in Writes(i) : /\ i.rows.seen[l] # "absent"
                                  /\ i.rows.edge[l].active => i.rows.edge[l].site \notin {Nil, Source(l)}
      BY <2>1 DEF HeldOK
    <2>3. SiteOf[i.page] # s /\ SiteOf[i.page] \in Sites
      BY <1>3, <1>11, <2>2, GraphAssumption DEF SiteFree
    <2>4. i.locked \subseteq Linked(net') /\ i.inserted \subseteq overlapped'
      BY <1>3, <1>7, <2>2
    <2>5. net'.state[SiteOf[i.page]] # "absent"
      BY <1>4, <2>2, <2>3
    <2>6. ASSUME NEW l \in Linked(net') \ (i.locked \cup overlapped') PROVE net'.edge[l].page # i.page
      BY <1>3, <1>4, <1>7, <2>2, <2>6, NoEdgeOK, NilType
    <2>7. HeldOK(net', i, Links)
      BY <1>7, <2>2, <2>4, <2>5 DEF HeldOK
    <2>8. ASSUME NEW l \in i.locked \ overlapped' PROVE l \notin overlapped /\ Spares(m, mm, l)
      <3>1. l \in Links /\ l \in Linked(net) \ overlapped /\ ~gone(l) /\ Source(l) # s /\ l \in Writes(i)
        BY <1>3, <1>7, <2>2, <2>8 DEF Writes
      <3>2. net.host[s] # HostOf[l[2]] /\ net'.host[s] # HostOf[l[2]]
        BY <1>4, <1>9, <3>1, LinksType, NilType
      <3>3. Sited(m, l) /\ Backed(m, l)
        BY <2>1, <3>1 DEF OpenOK
      <3>4. /\ NetOK(m) /\ m.state = net.state /\ m.host = net.host
            /\ \A p \in Pages : /\ m.active[p] = IF p = i.page THEN i.rows.active[p] ELSE net.active[p]
                                /\ m.urls[p] = IF p = i.page THEN i.rows.urls[p] ELSE net.urls[p]
            /\ m.seen[l] = i.rows.seen[l] /\ m.edge[l] = i.rows.edge[l]
        BY <1>1, <2>1, <3>1, MergedOK
      <3>5. /\ NetOK(mm) /\ mm.state = net'.state /\ mm.host = net'.host
            /\ \A p \in Pages : /\ mm.active[p] = IF p = i.page THEN i.rows.active[p] ELSE net'.active[p]
                                /\ mm.urls[p] = IF p = i.page THEN i.rows.urls[p] ELSE net'.urls[p]
            /\ mm.seen[l] = i.rows.seen[l] /\ mm.edge[l] = i.rows.edge[l]
        BY <1>6, <2>7, <3>1, MergedOK
      <3>. HIDE DEF m, mm
      <3>6. \A p \in Pages : SiteOf[p] # s => mm.active[p] = m.active[p] /\ mm.urls[p] = m.urls[p]
        BY <1>4, <3>4, <3>5
      <3>7. \A t \in Sites \ {s} : mm.state[t] = m.state[t] /\ mm.host[t] = m.host[t]
        BY <1>4, <3>4, <3>5
      <3>8. Spares(m, mm, l)
        BY <3>1, <3>2, <3>3, <3>4, <3>5, <3>6, <3>7, SiteSpares
      <3>. QED  BY <3>1, <3>8
    <2>. QED  BY <2>4, <2>5, <2>6, <2>8
  <1>12. Linked(net') \subseteq Linked(net) /\ ingesting' = ingesting
    BY <1>3, <1>7
  <1>. HIDE DEF i, gone
  <1>. QED  BY <1>6, <1>8, <1>10, <1>11, <1>12, OtherStep DEF i

LEMMA SameRows ==
  ASSUME NEW n \in NetRow, NEW m \in NetRow, n.state = m.state, n.host = m.host, n.active = m.active,
         n.urls = m.urls, n.seen = m.seen, n.edge = m.edge
  PROVE  n = m
  BY DEF NetRow

\* The rows that an ingestion reads and changes, before it reconciles its links.
LEMMA IngestRows ==
  ASSUME NetOK(net), NEW p \in Pages, NEW ready \in BOOLEAN, NEW keeps \in BOOLEAN, NEW urls \in SUBSET Urls,
         NEW shown \in SUBSET {l \in Links : l[1] = p}
  PROVE  LET rows == Ingested(net, p, ready, keeps, urls, shown)
         IN  /\ NetOK(rows) /\ rows.state = net.state /\ rows.host = net.host /\ rows.edge = net.edge
             /\ \A q \in Pages \ {p} : rows.active[q] = net.active[q] /\ rows.urls[q] = net.urls[q]
             /\ \A l \in Links : /\ l[1] # p => rows.seen[l] = net.seen[l]
                                 /\ rows.seen[l] = "absent" => net.seen[l] = "absent"
  <1>. DEFINE found == [net EXCEPT !.urls[p] = urls, !.active[p] = (@ /\ ready /\ keeps)]
              mark == [l \in Links |-> IF l[1] # p THEN net.seen[l]
                                       ELSE IF l \in shown THEN "active"
                                       ELSE IF net.seen[l] = "active" THEN "inactive" ELSE net.seen[l]]
              observed == [found EXCEPT !.seen = mark]
              rows == Ingested(net, p, ready, keeps, urls, shown)
  <1>1. net \in NetRow /\ rows = IF ready THEN Observed(found, p, shown) ELSE found
    BY DEF NetOK, Ingested
  <1>2. /\ found \in NetRow /\ found.state = net.state /\ found.host = net.host /\ found.edge = net.edge
        /\ found.seen = net.seen
        /\ \A q \in Pages \ {p} : found.active[q] = net.active[q] /\ found.urls[q] = net.urls[q]
    BY <1>1 DEF NetRow
  <1>. HIDE DEF found
  <1>3. mark \in [Links -> {"absent", "active", "inactive"}]
    BY <1>1 DEF NetRow
  <1>4. \A l \in Links : /\ l[1] # p => mark[l] = net.seen[l]
                         /\ mark[l] = "absent" => net.seen[l] = "absent"
    OBVIOUS
  <1>5. Observed(found, p, shown) = observed
    BY <1>2 DEF Observed
  <1>. HIDE DEF mark
  <1>6. /\ observed \in NetRow /\ observed.state = net.state /\ observed.host = net.host
        /\ observed.edge = net.edge /\ observed.seen = mark /\ observed.active = found.active
        /\ observed.urls = found.urls
    BY <1>2, <1>3 DEF NetRow
  <1>7. rows = found \/ rows = observed
    BY <1>1, <1>5
  <1>. HIDE DEF rows, observed
  <1>8. /\ rows \in NetRow /\ rows.state = net.state /\ rows.host = net.host /\ rows.edge = net.edge
        /\ \A q \in Pages \ {p} : rows.active[q] = net.active[q] /\ rows.urls[q] = net.urls[q]
        /\ \A l \in Links : /\ l[1] # p => rows.seen[l] = net.seen[l]
                            /\ rows.seen[l] = "absent" => net.seen[l] = "absent"
    BY <1>2, <1>4, <1>6, <1>7
  <1>9. NetOK(rows)
    BY <1>8 DEF NetOK
  <1>. QED  BY <1>8, <1>9 DEF rows

LEMMA OpenStep == ASSUME GraphInv, NEW p \in Pages, IngestOpen(p) PROVE GraphInv'
  <1>1. PICK ready \in BOOLEAN, keeps \in BOOLEAN, urls \in SUBSET Urls,
             shown \in SUBSET {l \in Links : l[1] = p} :
          LET rows == Ingested(net, p, ready, keeps, urls, shown)
          IN  ingesting' = [page |-> p, rows |-> Reconciled(rows, OfPage(rows, p)),
                            inserted |-> Linked(rows) \ Linked(net),
                            locked |-> OfPage(rows, p) \cap Linked(net)]
    BY DEF IngestOpen
  <1>. DEFINE rows == Ingested(net, p, ready, keeps, urls, shown)
              ls == OfPage(rows, p)
              r == Reconciled(rows, ls)
              i == [page |-> p, rows |-> r, inserted |-> Linked(rows) \ Linked(net),
                    locked |-> ls \cap Linked(net)]
  <1>2. /\ ingesting' = i /\ net' = net /\ overlapped' = overlapped /\ givenUp' = givenUp
        /\ ~Open /\ net.state[SiteOf[p]] # "absent"
    BY <1>1 DEF IngestOpen
  <1>3. NetOK(net) /\ overlapped \subseteq Linked(net)
    BY <1>2 DEF GraphInv, Closed
  <1>4. /\ NetOK(rows) /\ rows.state = net.state /\ rows.host = net.host /\ rows.edge = net.edge
        /\ \A q \in Pages \ {p} : rows.active[q] = net.active[q] /\ rows.urls[q] = net.urls[q]
        /\ \A l \in Links : /\ l[1] # p => rows.seen[l] = net.seen[l]
                            /\ rows.seen[l] = "absent" => net.seen[l] = "absent"
    BY <1>3, IngestRows
  <1>. HIDE DEF rows
  <1>5. /\ Linked(net) \subseteq Linked(rows) /\ Linked(rows) \subseteq Links /\ ls \subseteq Linked(rows)
        /\ \A l \in Linked(rows) \ Linked(net) : l[1] = p
    BY <1>4 DEF Linked, OfPage
  <1>6. \A l \in Linked(rows) \ ls : l[1] # p /\ l[2] \notin rows.urls[p] /\ rows.edge[l].page # p
    BY DEF OfPage
  <1>. HIDE DEF ls
  <1>7. /\ NetOK(r) /\ r.state = rows.state /\ r.host = rows.host /\ r.active = rows.active
        /\ r.urls = rows.urls /\ r.seen = rows.seen
        /\ \A l \in Links : l \notin ls => r.edge[l] = rows.edge[l]
        /\ \A l \in ls : Sited(r, l) /\ Backed(r, l) /\ Current(r, l)
    BY <1>4, <1>5, ReconciledOK
  <1>. HIDE DEF r
  <1>8. /\ i.page = p /\ i.rows = r /\ i.inserted = Linked(rows) \ Linked(net)
        /\ i.locked = ls \cap Linked(net)
    OBVIOUS
  <1>. HIDE DEF i
  <1>9. Writes(i) = ls
    BY <1>5, <1>6, <1>8 DEF Writes
  <1>10. HeldOK(net, i, overlapped)
    <2>1. r \in NetRow /\ \A l \in ls : l \in Links /\ r.seen[l] # "absent"
      BY <1>5, <1>7 DEF NetOK, Linked
    <2>2. \A l \in ls : r.edge[l].active => r.edge[l].site \notin {Nil, Source(l)}
      BY <1>7, <2>1 DEF NetOK
    <2>3. \A l \in Linked(net) \ i.locked : l[1] # p /\ l[2] \notin r.urls[p] /\ net.edge[l].page # p
      BY <1>4, <1>5, <1>6, <1>7, <1>8
    <2>. QED  BY <1>2, <1>5, <1>8, <1>9, <2>1, <2>2, <2>3 DEF HeldOK
  <1>11. Merged(net, i) = r
    <2>. DEFINE m == Merged(net, i)
    <2>1. /\ NetOK(m) /\ m.state = net.state /\ m.host = net.host
          /\ \A q \in Pages : /\ m.active[q] = IF q = p THEN r.active[q] ELSE net.active[q]
                              /\ m.urls[q] = IF q = p THEN r.urls[q] ELSE net.urls[q]
          /\ \A l \in Links : /\ m.seen[l] = IF l \in ls THEN r.seen[l] ELSE net.seen[l]
                              /\ m.edge[l] = IF l \in ls THEN r.edge[l] ELSE net.edge[l]
      BY <1>3, <1>8, <1>9, <1>10, MergedOK
    <2>. HIDE DEF m
    <2>2. m \in NetRow /\ r \in NetRow
      BY <1>7, <2>1 DEF NetOK
    <2>3. ASSUME NEW l \in Links PROVE m.seen[l] = r.seen[l] /\ m.edge[l] = r.edge[l]
      <3>1. CASE l \in ls
        BY <2>1, <3>1
      <3>2. CASE l \notin ls
        <4>1. r.seen[l] = net.seen[l]
          <5>1. CASE l[1] # p
            BY <1>4, <1>7, <5>1
          <5>2. CASE l[1] = p
            <6>1. rows.seen[l] = "absent"
              BY <1>6, <3>2, <5>2 DEF Linked
            <6>. QED  BY <1>4, <1>7, <6>1
          <5>. QED  BY <5>1, <5>2
        <4>. QED  BY <1>4, <1>7, <2>1, <3>2, <4>1
      <3>. QED  BY <3>1, <3>2
    <2>4. m.active = r.active /\ m.urls = r.urls
      BY <1>4, <1>7, <2>1, <2>2 DEF NetRow
    <2>5. m.seen = r.seen /\ m.edge = r.edge
      BY <2>2, <2>3 DEF NetRow
    <2>. QED  BY <1>4, <1>7, <2>1, <2>2, <2>4, <2>5, SameRows DEF m
  <1>12. OpenOK(net, i, overlapped)
    BY <1>7, <1>9, <1>10, <1>11 DEF OpenOK
  <1>13. i.page # Nil
    BY <1>8, NilType
  <1>. QED  BY <1>2, <1>3, <1>12, <1>13 DEF GraphInv, Open

LEMMA CloseStep == ASSUME GraphInv, IngestCommit \/ IngestAbort PROVE GraphInv'
  <1>. DEFINE i == ingesting
              m == Merged(net, i)
  <1>1. Open /\ OpenOK(net, i, overlapped) /\ HeldOK(net, i, overlapped) /\ NetOK(net) /\ net \in NetRow
    BY DEF IngestCommit, IngestAbort, GraphInv, OpenOK, NetOK
  <1>2. /\ i.page \in Pages /\ i.rows \in NetRow /\ i.inserted \subseteq Links /\ i.locked \subseteq Linked(net)
        /\ \A l \in i.inserted : l \notin Linked(net)
        /\ \A l \in Linked(net) \ i.locked : /\ l[1] # i.page /\ l[2] \notin i.rows.urls[i.page]
                                             /\ l \notin overlapped => net.edge[l].page # i.page
        /\ \A l \in Writes(i) : i.rows.seen[l] # "absent"
    BY <1>1 DEF HeldOK
  <1>3. CASE IngestAbort
    <2>1. net' = net /\ givenUp' = givenUp /\ ingesting' = Closed /\ overlapped' = overlapped \ i.inserted
      BY <1>3 DEF IngestAbort
    <2>2. \A l \in Linked(net) \ overlapped' : l \notin overlapped
      BY <1>2, <2>1
    <2>3. ~Open' /\ Closed.inserted = {}
      BY <2>1 DEF Open, Closed
    <2>. QED  BY <2>1, <2>2, <2>3 DEF GraphInv, Linked, Open
  <1>4. CASE IngestCommit
    <2>1. /\ ingesting' = Closed /\ overlapped' = overlapped
          /\ givenUp' = (givenUp \cup {l \in Linked(net) : l[2] \in net.urls[i.page] \ i.rows.urls[i.page]})
                          \ Writes(i)
      BY <1>4 DEF IngestCommit, Writes
    <2>2. net' = m
      <3>. DEFINE mark == [l \in Links |-> IF l \in Writes(i) THEN i.rows.seen[l] ELSE net.seen[l]]
                  edge == [l \in Links |-> IF l \in Writes(i) THEN i.rows.edge[l] ELSE net.edge[l]]
                  n == [net EXCEPT !.urls[i.page] = i.rows.urls[i.page],
                                   !.active[i.page] = i.rows.active[i.page], !.seen = mark, !.edge = edge]
      <3>1. net' = n
        BY <1>4 DEF IngestCommit, Writes
      <3>2. m \in NetRow /\ m.active = [net.active EXCEPT ![i.page] = i.rows.active[i.page]]
            /\ m.urls = [net.urls EXCEPT ![i.page] = i.rows.urls[i.page]]
            /\ m.seen = mark /\ m.edge = edge /\ m.state = net.state /\ m.host = net.host
        BY <1>1, MergedOK DEF Merged, NetOK
      <3>. HIDE DEF m, mark, edge
      <3>3. n.active = m.active /\ n.urls = m.urls /\ n.seen = m.seen /\ n.edge = m.edge
            /\ n.state = m.state /\ n.host = m.host
        BY <1>1, <3>2 DEF NetRow
      <3>4. n \in NetRow
        BY <1>1, <3>2, <3>3 DEF NetRow
      <3>. HIDE DEF n
      <3>5. n = m
        BY <3>2, <3>3, <3>4, SameRows
      <3>. QED  BY <3>1, <3>5
    <2>3. /\ NetOK(m) /\ m.state = net.state /\ m.host = net.host
          /\ \A p \in Pages : /\ m.active[p] = IF p = i.page THEN i.rows.active[p] ELSE net.active[p]
                              /\ m.urls[p] = IF p = i.page THEN i.rows.urls[p] ELSE net.urls[p]
          /\ \A l \in Links : /\ m.seen[l] = IF l \in Writes(i) THEN i.rows.seen[l] ELSE net.seen[l]
                              /\ m.edge[l] = IF l \in Writes(i) THEN i.rows.edge[l] ELSE net.edge[l]
      BY <1>1, MergedOK
    <2>4. \A l \in Writes(i) \ overlapped : Sited(m, l) /\ Backed(m, l) /\ Current(m, l)
      BY <1>1 DEF OpenOK
    <2>. HIDE DEF m
    <2>5. overlapped \subseteq Linked(m)
      <3>1. overlapped \subseteq Linked(net) \cup i.inserted
        BY DEF GraphInv
      <3>. QED  BY <1>2, <2>3, <3>1 DEF Linked, Writes
    <2>6. ASSUME NEW l \in Linked(m) \ overlapped, l \notin Writes(i)
          PROVE  Sited(m, l) /\ Backed(m, l) /\ (l \notin givenUp' => Current(m, l))
      <3>1. l \in Links /\ l \in Linked(net) \ overlapped /\ m.seen[l] = net.seen[l] /\ m.edge[l] = net.edge[l]
        BY <2>3, <2>6 DEF Linked
      <3>2. l[1] # i.page /\ l[2] \notin i.rows.urls[i.page] /\ net.edge[l].page # i.page
        BY <1>2, <2>6, <3>1 DEF Writes
      <3>3. Sited(net, l) /\ Backed(net, l) /\ (l \notin givenUp => Current(net, l))
        BY <3>1 DEF GraphInv
      <3>4. Resolve(m, l[2]).site = Resolve(net, l[2]).site
        <4>1. \A s \in Sites : Resolve(m, l[2]).site = s <=> Resolve(net, l[2]).site = s
          BY <1>1, <2>3, <3>1, LinksType, ResolveOK
        <4>2. Resolve(m, l[2]) \in EdgeRow /\ Resolve(net, l[2]) \in EdgeRow
          BY <1>1, <2>3, <3>1, LinksType, ResolveOK
        <4>3. /\ Resolve(m, l[2]).site \in Sites \cup {Nil}
              /\ Resolve(net, l[2]).site \in Sites \cup {Nil}
          BY <4>2 DEF EdgeRow
        <4>. QED  BY <4>1, <4>3
      <3>5. Sited(m, l)
        BY <3>1, <3>3, <3>4 DEF Sited
      <3>6. net.edge[l] \in EdgeRow /\ net.edge[l].page \in Pages \cup {Nil}
        BY <1>1, <3>1 DEF NetRow, EdgeRow
      <3>7. Backed(m, l)
        BY <2>3, <3>1, <3>2, <3>3, <3>6, LinksType DEF Backed, IsActive
      <3>8. ASSUME l \notin givenUp' PROVE Current(m, l)
        <4>1. l \notin givenUp /\ l[2] \notin net.urls[i.page]
          BY <2>1, <2>6, <3>1, <3>2, <3>8
        <4>2. l[2] \notin m.urls[i.page]
          BY <1>2, <2>3, <3>2
        <4>3. \A p \in Pages \ {i.page} : m.active[p] = net.active[p] /\ m.urls[p] = net.urls[p]
          BY <2>3
        <4>4. Spares(net, m, l)
          BY <1>1, <1>2, <2>3, <3>1, <3>2, <3>3, <4>1, <4>2, <4>3, PageSpares
        <4>. QED  BY <1>1, <2>3, <3>1, <3>3, <4>1, <4>4, SparedStays
      <3>. QED  BY <3>5, <3>7, <3>8
    <2>7. ~Open' /\ Closed.inserted = {}
      BY <2>1 DEF Open, Closed
    <2>. QED  BY <2>1, <2>2, <2>3, <2>4, <2>5, <2>6, <2>7 DEF GraphInv, Open
  <1>. QED  BY <1>3, <1>4

LEMMA GraphInvNext == GraphInv /\ [GraphNext]_graphVars => GraphInv'
  <1>. SUFFICES ASSUME GraphInv, [GraphNext]_graphVars PROVE GraphInv'
    OBVIOUS
  <1>1. CASE UNCHANGED graphVars
    BY <1>1 DEF graphVars, GraphInv, Open, Linked
  <1>2. ASSUME NEW s \in Sites, DeleteSite(s) PROVE GraphInv'
    BY <1>2, DeleteStep
  <1>3. ASSUME NEW s \in Sites, Transition(s) PROVE GraphInv'
    <2>1. CASE Hosts = {}
      BY <1>3, <2>1 DEF Transition, GraphInv, NetOK, NetRow
    <2>. QED  BY <1>3, <2>1, SiteChanges
  <1>. QED  BY <1>1, <1>2, <1>3, OpenStep, PageChanges, CloseStep, SiteChanges DEF GraphNext

LEMMA GraphInvImplies == GraphInv => GraphTypeOK /\ GraphIsFaithful
  <1>. SUFFICES ASSUME GraphInv PROVE GraphTypeOK /\ GraphIsFaithful
    OBVIOUS
  <1>1. NetOK(net) /\ net \in NetRow
    BY DEF GraphInv, NetOK
  <1>2. GraphTypeOK
    BY <1>1 DEF NetOK, NetRow, GraphTypeOK
  <1>3. ASSUME NEW l \in Links, net.edge[l].active PROVE l \in Linked(net) /\ net.edge[l].site # Source(l)
    BY <1>1, <1>3, NoEdgeOK DEF NetOK, Linked
  <1>4. EdgesCross
    BY <1>3 DEF EdgesCross
  <1>5. ShownEdgeIsActive
    <2>. SUFFICES ASSUME NEW l \in Links \ overlapped, net.edge[l].active
                  PROVE  IsActive(net, l, net.edge[l].site, net.edge[l].page)
      BY DEF ShownEdgeIsActive, Given, Received, Crossing, IsActive
    <2>. QED  BY <1>3 DEF GraphInv, Backed
  <1>6. GraphIsCurrent
    BY DEF GraphInv, Current, GraphIsCurrent
  <1>. QED  BY <1>2, <1>4, <1>5, <1>6 DEF GraphIsFaithful

\* Whatever is published, removed, suspended, moved, deleted and created in whatever
\* order, and whenever an ingestion that is open commits: no edge a member is shown
\* outlives what it depends on, none stays within one site, and none is stale, but
\* for links that two overlapping transactions hid from each other, and URLs that
\* one of two pages gave up.
THEOREM GraphIsFaithfulHolds == GraphSpec => [](GraphTypeOK /\ GraphIsFaithful)
  BY GraphInvInit, GraphInvNext, GraphInvImplies, PTL DEF GraphSpec

-----------------------------------------------------------------------------
(* Sitemaps.  First what the root leads to in k steps.                       *)

Grown(ls, from) == from \cup {e[3] : e \in {x \in ls : x[1] \in from}}
ReachAt(ls, f, i) == IF i = 0 THEN {RootUrl} ELSE Grown(ls, f[i - 1])
ReachFcn(ls, k) == CHOOSE f : f = [i \in 0 .. k |-> ReachAt(ls, f, i)]
Within(ls, k) == ReachFcn(ls, k)[k]

LEMMA ReachedIsWithin == ASSUME NEW k PROVE Reached(k) = Within(links, k)
  BY DEF Reached, Within, ReachFcn, ReachAt, Grown

LEMMA ReachFcnExists ==
  ASSUME NEW ls, NEW n \in Nat
  PROVE  ReachFcn(ls, n) = [i \in 0 .. n |-> ReachAt(ls, ReachFcn(ls, n), i)]
  <1>. DEFINE T == {k \in Nat : \E f : f = [i \in 0 .. k |-> ReachAt(ls, f, i)]}
  <1>1. 0 \in T
    <2>. DEFINE g == [i \in 0 .. 0 |-> {RootUrl}]
    <2>1. g = [i \in 0 .. 0 |-> ReachAt(ls, g, i)]
      BY DEF ReachAt
    <2>2. \E f : f = [i \in 0 .. 0 |-> ReachAt(ls, f, i)]
      <3>. HIDE DEF g
      <3>. QED  BY <2>1
    <2>. QED  BY <2>2
  <1>2. ASSUME NEW k \in Nat, k \in T PROVE k + 1 \in T
    <2>1. PICK g : g = [i \in 0 .. k |-> ReachAt(ls, g, i)]
      BY <1>2
    <2>. DEFINE h == [i \in 0 .. k + 1 |-> IF i = k + 1 THEN Grown(ls, g[k]) ELSE g[i]]
    <2>2. ASSUME NEW i \in 0 .. k + 1 PROVE h[i] = ReachAt(ls, h, i)
      <3>1. \A j \in 0 .. k : j \in 0 .. k + 1 /\ j # k + 1 /\ h[j] = g[j]
        OBVIOUS
      <3>2. CASE i = k + 1
        <4>1. h[i] = Grown(ls, g[k]) /\ i # 0 /\ i - 1 = k /\ h[k] = g[k]
          BY <3>1, <3>2
        <4>. HIDE DEF h
        <4>. QED  BY <4>1 DEF ReachAt
      <3>3. CASE i # k + 1
        <4>1. i \in 0 .. k /\ h[i] = g[i] /\ (i = 0 \/ i - 1 \in 0 .. k)
          BY <3>1, <3>3
        <4>2. i = 0 \/ h[i - 1] = g[i - 1]
          BY <3>1, <4>1
        <4>3. g[i] = ReachAt(ls, g, i)
          BY <2>1, <4>1
        <4>. HIDE DEF h
        <4>. QED  BY <4>1, <4>2, <4>3 DEF ReachAt
      <3>. QED  BY <3>2, <3>3
    <2>3. h = [i \in 0 .. k + 1 |-> h[i]]
      OBVIOUS
    <2>4. \E f : f = [i \in 0 .. k + 1 |-> ReachAt(ls, f, i)]
      <3>. HIDE DEF h
      <3>1. h = [i \in 0 .. k + 1 |-> ReachAt(ls, h, i)]
        BY <2>2, <2>3
      <3>. QED  BY <3>1
    <2>. QED  BY <2>4
  <1>3. Nat \subseteq T
    <2>. HIDE DEF T
    <2>. QED  BY <1>1, <1>2, SetInduction
  <1>4. \E f : f = [i \in 0 .. n |-> ReachAt(ls, f, i)]
    BY <1>3
  <1>. QED  BY <1>4 DEF ReachFcn

LEMMA WithinStep ==
  ASSUME NEW ls
  PROVE  /\ Within(ls, 0) = {RootUrl}
         /\ \A k \in Nat : Within(ls, k + 1) = Grown(ls, Within(ls, k))
  <1>1. ReachFcn(ls, 0)[0] = {RootUrl}
    <2>1. ReachFcn(ls, 0) = [i \in 0 .. 0 |-> ReachAt(ls, ReachFcn(ls, 0), i)]
      BY ReachFcnExists
    <2>. DEFINE f == ReachFcn(ls, 0)
    <2>. HIDE DEF f
    <2>2. f = [i \in 0 .. 0 |-> ReachAt(ls, f, i)]
      BY <2>1 DEF f
    <2>3. f[0] = {RootUrl}
      BY <2>2 DEF ReachAt
    <2>. QED  BY <2>3 DEF f
  <1>2. ASSUME NEW k \in Nat PROVE Within(ls, k + 1) = Grown(ls, Within(ls, k))
    <2>. DEFINE f == ReachFcn(ls, k)
                g == ReachFcn(ls, k + 1)
                T == {i \in Nat : i <= k => f[i] = g[i]}
    <2>1. f = [i \in 0 .. k |-> ReachAt(ls, f, i)]
      BY ReachFcnExists
    <2>2. g = [i \in 0 .. k + 1 |-> ReachAt(ls, g, i)]
      <3>1. k + 1 \in Nat
        OBVIOUS
      <3>. QED  BY <3>1, ReachFcnExists
    <2>. HIDE DEF f, g
    <2>3. 0 \in T
      <3>1. f[0] = {RootUrl} /\ g[0] = {RootUrl}
        BY <2>1, <2>2 DEF ReachAt
      <3>. QED  BY <3>1
    <2>4. ASSUME NEW i \in Nat, i \in T PROVE i + 1 \in T
      <3>. SUFFICES ASSUME i + 1 <= k PROVE f[i + 1] = g[i + 1]
        OBVIOUS
      <3>1. i + 1 \in 0 .. k /\ i + 1 \in 0 .. k + 1 /\ i + 1 # 0 /\ (i + 1) - 1 = i /\ i <= k
        OBVIOUS
      <3>2. f[i + 1] = Grown(ls, f[i]) /\ g[i + 1] = Grown(ls, g[i])
        BY <2>1, <2>2, <3>1 DEF ReachAt
      <3>. QED  BY <2>4, <3>1, <3>2
    <2>5. Nat \subseteq T
      <3>. HIDE DEF T
      <3>. QED  BY <2>3, <2>4, SetInduction
    <2>6. f[k] = g[k]
      BY <2>5
    <2>7. k + 1 \in 0 .. k + 1 /\ k + 1 # 0 /\ (k + 1) - 1 = k
      OBVIOUS
    <2>8. g[k + 1] = Grown(ls, g[k])
      BY <2>2, <2>7 DEF ReachAt
    <2>. QED  BY <2>6, <2>8 DEF Within, f, g
  <1>. QED  BY <1>1, <1>2 DEF Within

LEMMA WithinGrows ==
  ASSUME NEW ls, NEW k \in Nat
  PROVE  \A j \in 0 .. k : Within(ls, j) \subseteq Within(ls, k)
  <1>. DEFINE T == {n \in Nat : \A j \in 0 .. n : Within(ls, j) \subseteq Within(ls, n)}
  <1>1. 0 \in T
    OBVIOUS
  <1>2. ASSUME NEW n \in Nat, n \in T PROVE n + 1 \in T
    <2>1. Within(ls, n) \subseteq Within(ls, n + 1)
      <3>1. Within(ls, n + 1) = Grown(ls, Within(ls, n))
        BY WithinStep
      <3>. QED  BY <3>1 DEF Grown
    <2>2. \A j \in 0 .. n + 1 : j = n + 1 \/ j \in 0 .. n
      OBVIOUS
    <2>. QED  BY <1>2, <2>1, <2>2
  <1>3. Nat \subseteq T
    <2>. HIDE DEF T
    <2>. QED  BY <1>1, <1>2, SetInduction
  <1>. QED  BY <1>3

LEMMA WithinMore ==
  ASSUME NEW ls, NEW more, ls \subseteq more, NEW k \in Nat
  PROVE  Within(ls, k) \subseteq Within(more, k)
  <1>. DEFINE T == {n \in Nat : Within(ls, n) \subseteq Within(more, n)}
  <1>1. 0 \in T
    BY WithinStep
  <1>2. ASSUME NEW n \in Nat, n \in T PROVE n + 1 \in T
    <2>1. Grown(ls, Within(ls, n)) \subseteq Grown(more, Within(more, n))
      BY <1>2 DEF Grown
    <2>. QED  BY <2>1, WithinStep
  <1>3. Nat \subseteq T
    <2>. HIDE DEF T
    <2>. QED  BY <1>1, <1>2, SetInduction
  <1>. QED  BY <1>3

\* The entries of an index that k steps do not lead to add nothing to k + 1 of them.
LEMMA WithinKept ==
  ASSUME NEW ls, NEW more, ls \subseteq more, NEW u, \A l \in more \ ls : l[1] = u,
         NEW k \in Nat, u \notin Within(ls, k)
  PROVE  \A j \in 0 .. k + 1 : Within(more, j) = Within(ls, j)
  <1>. DEFINE T == {n \in Nat : n <= k + 1 => Within(more, n) = Within(ls, n)}
  <1>1. 0 \in T
    BY WithinStep
  <1>2. ASSUME NEW n \in Nat, n \in T PROVE n + 1 \in T
    <2>. SUFFICES ASSUME n + 1 <= k + 1 PROVE Within(more, n + 1) = Within(ls, n + 1)
      OBVIOUS
    <2>1. n \in 0 .. k /\ Within(more, n) = Within(ls, n)
      BY <1>2
    <2>2. u \notin Within(ls, n)
      BY <2>1, WithinGrows
    <2>3. Grown(more, Within(ls, n)) = Grown(ls, Within(ls, n))
      BY <2>2 DEF Grown
    <2>. QED  BY <2>1, <2>3, WithinStep
  <1>3. Nat \subseteq T
    <2>. HIDE DEF T
    <2>. QED  BY <1>1, <1>2, SetInduction
  <1>. QED  BY <1>3

-----------------------------------------------------------------------------
(* The fold over the entries of a urlset.                                    *)

EntriesOf(base, entries, iter, s) ==
    IF s = {} THEN base ELSE AddCandidate(iter[s \ {Max(s)}], entries[Max(s)])
EntriesFold(base, entries) ==
    CHOOSE iter : iter = [s \in SUBSET (DOMAIN entries) |-> EntriesOf(base, entries, iter, s)]
Unread(entries) == [counts |-> [counts EXCEPT !.raw = @ + Len(entries)], best |-> best]

LEMMA EntriesFolded ==
  ASSUME NEW entries
  PROVE  WithCandidates(entries) = EntriesFold(Unread(entries), entries)[DOMAIN entries]
  BY DEF WithCandidates, FoldLeft, MapThenFoldSet, EntriesFold, EntriesOf, AddCandidate, Unread

LEMMA EntriesFoldExists ==
  ASSUME NEW base, NEW entries, NEW n \in Nat
  PROVE  \E iter : iter = [s \in SUBSET (1 .. n) |-> EntriesOf(base, entries, iter, s)]
  <1>. DEFINE T == {k \in Nat : \E iter : iter = [s \in SUBSET (1 .. k) |-> EntriesOf(base, entries, iter, s)]}
  <1>1. 0 \in T
    <2>. DEFINE g == [s \in SUBSET (1 .. 0) |-> base]
    <2>1. \A s \in SUBSET (1 .. 0) : EntriesOf(base, entries, g, s) = base
      BY DEF EntriesOf
    <2>2. g = [s \in SUBSET (1 .. 0) |-> EntriesOf(base, entries, g, s)]
      BY <2>1
    <2>. QED  BY <2>2
  <1>2. ASSUME NEW k \in Nat, k \in T PROVE k + 1 \in T
    <2>1. PICK g : g = [s \in SUBSET (1 .. k) |-> EntriesOf(base, entries, g, s)]
      BY <1>2
    <2>. DEFINE h == [s \in SUBSET (1 .. k + 1) |->
                        IF k + 1 \in s THEN AddCandidate(g[s \ {k + 1}], entries[k + 1]) ELSE g[s]]
    <2>2. ASSUME NEW s \in SUBSET (1 .. k + 1) PROVE h[s] = EntriesOf(base, entries, h, s)
      <3>1. \A r \in SUBSET (1 .. k) : r \in SUBSET (1 .. k + 1) /\ k + 1 \notin r /\ h[r] = g[r]
        OBVIOUS
      <3>2. CASE k + 1 \in s
        <4>1. Max(s) = k + 1 /\ s # {}
          BY <3>2, LastOfInitial
        <4>2. s \ {k + 1} \in SUBSET (1 .. k)
          OBVIOUS
        <4>3. h[s] = AddCandidate(g[s \ {k + 1}], entries[k + 1])
          BY <3>2
        <4>. HIDE DEF h
        <4>. QED  BY <3>1, <4>1, <4>2, <4>3 DEF EntriesOf
      <3>3. CASE k + 1 \notin s
        <4>1. s \in SUBSET (1 .. k) /\ s \ {Max(s)} \in SUBSET (1 .. k)
          <5>1. \A y \in 1 .. k + 1 : y = k + 1 \/ y \in 1 .. k
            OBVIOUS
          <5>. QED  BY <3>3, <5>1
        <4>2. h[s] = g[s] /\ h[s \ {Max(s)}] = g[s \ {Max(s)}]
          BY <3>1, <4>1
        <4>3. g[s] = EntriesOf(base, entries, g, s)
          BY <2>1, <4>1
        <4>. HIDE DEF h
        <4>. QED  BY <4>2, <4>3 DEF EntriesOf
      <3>. QED  BY <3>2, <3>3
    <2>3. h = [s \in SUBSET (1 .. k + 1) |-> h[s]]
      OBVIOUS
    <2>4. h = [s \in SUBSET (1 .. k + 1) |-> EntriesOf(base, entries, h, s)]
      <3>. HIDE DEF h
      <3>. QED  BY <2>2, <2>3
    <2>5. \E iter : iter = [s \in SUBSET (1 .. k + 1) |-> EntriesOf(base, entries, iter, s)]
      <3>. HIDE DEF h
      <3>. QED  BY <2>4
    <2>. QED  BY <2>5
  <1>3. Nat \subseteq T
    <2>. HIDE DEF T
    <2>. QED  BY <1>1, <1>2, SetInduction
  <1>. QED  BY <1>3

LEMMA EntriesFoldStep ==
  ASSUME NEW X, NEW base, NEW entries \in Seq(X)
  PROVE  /\ EntriesFold(base, entries)[1 .. 0] = base
         /\ \A k \in 1 .. Len(entries) :
              EntriesFold(base, entries)[1 .. k] = AddCandidate(EntriesFold(base, entries)[1 .. k - 1], entries[k])
  <1>. DEFINE n == Len(entries)
              iter == EntriesFold(base, entries)
  <1>1. n \in Nat /\ DOMAIN entries = 1 .. n
    OBVIOUS
  <1>. HIDE DEF n
  <1>2. iter = [s \in SUBSET (1 .. n) |-> EntriesOf(base, entries, iter, s)]
    <2>1. \E it : it = [s \in SUBSET (1 .. n) |-> EntriesOf(base, entries, it, s)]
      BY <1>1, EntriesFoldExists
    <2>. QED  BY <1>1, <2>1 DEF EntriesFold
  <1>. HIDE DEF iter
  <1>3. iter[1 .. 0] = base
    <2>1. 1 .. 0 = {} /\ 1 .. 0 \in SUBSET (1 .. n)
      BY <1>1
    <2>. QED  BY <1>2, <2>1 DEF EntriesOf
  <1>4. ASSUME NEW k \in 1 .. n PROVE iter[1 .. k] = AddCandidate(iter[1 .. k - 1], entries[k])
    <2>1. k \in Nat \ {0} /\ k \in 1 .. k /\ 1 .. k \in SUBSET (1 .. n)
      BY <1>1
    <2>2. Max(1 .. k) = k /\ 1 .. k # {}
      BY <2>1, LastOfInitial
    <2>3. (1 .. k) \ {k} = 1 .. k - 1
      BY <2>1
    <2>. QED  BY <1>2, <2>1, <2>2, <2>3 DEF EntriesOf
  <1>. QED  BY <1>3, <1>4 DEF n, iter


-----------------------------------------------------------------------------
(* What the candidates and counters are after some of the entries.           *)

CountRow == [raw : Nat, duplicate : Nat, invalid_url : Nat, disallowed_host : Nat, invalid_lastmod : Nat]
OffersInv(kept, offered) ==
  /\ DOMAIN kept = {o[1] : o \in offered}
  /\ \A o \in offered : kept[o[1]] >= o[2]
  /\ \A u \in DOMAIN kept : <<u, kept[u]>> \in offered
KeptRow(kept) == DOMAIN kept \subseteq Locations /\ \A u \in DOMAIN kept : kept[u] \in Nat
Refused(c) == c.duplicate + c.invalid_url + c.disallowed_host
ReadInv(acc, raw, offered, total) ==
  /\ acc.counts \in CountRow /\ acc.counts.raw = raw
  /\ KeptRow(acc.best) /\ OffersInv(acc.best, offered)
  /\ Cardinality(DOMAIN acc.best) + Refused(acc.counts) = total
Offer(entry) == IF entry.loc \in Locations THEN {<<entry.loc, Hint(entry.lastmod)>>} ELSE {}

LEMMA HintOK == \A e \in Entries : Hint(e.lastmod) \in Nat
  <1>. SUFFICES ASSUME NEW e \in Entries PROVE Hint(e.lastmod) \in Nat
    OBVIOUS
  <1>1. e.lastmod \in Stamps \/ e.lastmod = Undated \/ e.lastmod = Garbled
    BY DEF Entries
  <1>2. \A s \in Stamps : s \in Nat
    BY SitemapAssumption
  <1>. QED  BY <1>1, <1>2 DEF Hint, Garbled, Undated

LEMMA KeptStep ==
  ASSUME NEW kept, NEW offered, KeptRow(kept), OffersInv(kept, offered), \A o \in offered : o[2] \in Nat,
         NEW e \in Entries, e.loc \in Locations
  PROVE  LET new == Kept(kept, e)
         IN  /\ KeptRow(new) /\ OffersInv(new, offered \cup {<<e.loc, Hint(e.lastmod)>>})
             /\ DOMAIN new = DOMAIN kept \cup {e.loc}
  <1>. DEFINE hint == Hint(e.lastmod)
              new == Kept(kept, e)
              offer == <<e.loc, hint>>
  <1>1. hint \in Nat
    BY HintOK
  <1>2. CASE e.loc \in DOMAIN kept /\ kept[e.loc] >= hint
    <2>1. new = kept
      BY <1>2 DEF Kept
    <2>2. offer[1] = e.loc /\ offer[2] = hint
      OBVIOUS
    <2>. HIDE DEF new, hint, offer
    <2>3. OffersInv(kept, offered \cup {offer})
      BY <1>2, <2>2 DEF OffersInv
    <2>. QED  BY <1>2, <2>1, <2>3 DEF new, offer, hint
  <1>3. CASE ~(e.loc \in DOMAIN kept /\ kept[e.loc] >= hint)
    <2>1. /\ DOMAIN new = DOMAIN kept \cup {e.loc} /\ new[e.loc] = hint
          /\ \A u \in DOMAIN kept : u # e.loc => new[u] = kept[u]
      BY <1>3 DEF Kept
    <2>2. offer[1] = e.loc /\ offer[2] = hint
      OBVIOUS
    <2>. HIDE DEF new, hint
    <2>3. KeptRow(new)
      BY <1>1, <2>1 DEF KeptRow
    <2>4. \A o \in offered \cup {offer} : new[o[1]] >= o[2]
      <3>1. ASSUME NEW o \in offered PROVE new[o[1]] >= o[2]
        <4>1. o[1] \in DOMAIN kept /\ kept[o[1]] >= o[2] /\ kept[o[1]] \in Nat /\ o[2] \in Nat
          BY DEF OffersInv, KeptRow
        <4>2. CASE o[1] # e.loc
          BY <2>1, <4>1, <4>2
        <4>3. CASE o[1] = e.loc
          <5>1. ~(kept[o[1]] >= hint)
            BY <1>3, <4>1, <4>3
          <5>. QED  BY <1>1, <2>1, <4>1, <4>3, <5>1
        <4>. QED  BY <4>2, <4>3
      <3>2. new[offer[1]] >= offer[2]
        BY <1>1, <2>1, <2>2
      <3>. QED  BY <3>1, <3>2
    <2>5. \A u \in DOMAIN new : <<u, new[u]>> \in offered \cup {offer}
      BY <2>1 DEF OffersInv
    <2>6. DOMAIN new = {o[1] : o \in offered \cup {offer}}
      BY <2>1, <2>2 DEF OffersInv
    <2>7. OffersInv(new, offered \cup {offer})
      <3>. HIDE DEF offer
      <3>. QED  BY <2>4, <2>5, <2>6 DEF OffersInv
    <2>. QED  BY <2>1, <2>3, <2>7 DEF new, hint
  <1>. QED  BY <1>2, <1>3

LEMMA CountedStep ==
  ASSUME NEW c \in CountRow, NEW kept, NEW e \in Entries
  PROVE  LET new == Counted(c, kept, e)
         IN  /\ new \in CountRow /\ new.raw = c.raw
             /\ Refused(new) = Refused(c) + (IF e.loc \in Locations /\ e.loc \notin DOMAIN kept THEN 0 ELSE 1)
  <1>1. e.loc \in Locations \/ e.loc = Elsewhere \/ e.loc \in Malformed
    BY DEF Entries, EntryUrls
  <1>2. CASE e.loc \in Malformed
    BY <1>2, AddressesAssumption DEF Counted, CountRow, Refused
  <1>3. CASE e.loc = Elsewhere
    <2>1. e.loc \notin Malformed /\ e.loc \notin Locations
      BY <1>3, AddressesAssumption DEF Elsewhere, Malformed
    <2>. QED  BY <1>3, <2>1 DEF Counted, CountRow, Refused
  <1>4. CASE e.loc \in Locations
    <2>1. e.loc \notin Malformed /\ e.loc # Elsewhere
      BY <1>4, AddressesAssumption
    <2>. DEFINE again == IF e.loc \in DOMAIN kept THEN 1 ELSE 0
                garbled == IF e.lastmod = Garbled THEN 1 ELSE 0
    <2>2. Counted(c, kept, e) = [[c EXCEPT !.duplicate = @ + again] EXCEPT !.invalid_lastmod = @ + garbled]
      BY <2>1 DEF Counted
    <2>3. again \in Nat /\ garbled \in Nat /\ again = IF e.loc \notin DOMAIN kept THEN 0 ELSE 1
      OBVIOUS
    <2>. HIDE DEF again, garbled
    <2>. DEFINE mid == [c EXCEPT !.duplicate = @ + again]
    <2>4. /\ mid \in CountRow /\ mid.raw = c.raw /\ mid.duplicate = c.duplicate + again
          /\ mid.invalid_url = c.invalid_url /\ mid.disallowed_host = c.disallowed_host
      BY <2>3 DEF CountRow
    <2>5. Counted(c, kept, e) = [mid EXCEPT !.invalid_lastmod = @ + garbled]
      BY <2>2
    <2>. HIDE DEF mid
    <2>. DEFINE new == [mid EXCEPT !.invalid_lastmod = @ + garbled]
    <2>6. /\ new \in CountRow /\ new.raw = mid.raw /\ new.duplicate = mid.duplicate
          /\ new.invalid_url = mid.invalid_url /\ new.disallowed_host = mid.disallowed_host
      BY <2>3, <2>4 DEF CountRow
    <2>. HIDE DEF new
    <2>7. Counted(c, kept, e) = new
      BY <2>5 DEF new
    <2>8. c.duplicate \in Nat /\ c.invalid_url \in Nat /\ c.disallowed_host \in Nat
      BY DEF CountRow
    <2>9. Refused(new) = Refused(c) + (IF e.loc \in Locations /\ e.loc \notin DOMAIN kept THEN 0 ELSE 1)
      BY <1>4, <2>3, <2>4, <2>6, <2>8 DEF Refused
    <2>. QED  BY <2>4, <2>6, <2>7, <2>9
  <1>. QED  BY <1>1, <1>2, <1>3, <1>4

LEMMA CandidateStep ==
  ASSUME NEW acc, NEW raw, NEW offered, NEW total, ReadInv(acc, raw, offered, total),
         \A o \in offered : o[2] \in Nat, NEW e \in Entries
  PROVE  ReadInv(AddCandidate(acc, e), raw, offered \cup Offer(e), total + 1)
  <1>. DEFINE new == AddCandidate(acc, e)
              newBest == IF e.loc \in Locations THEN Kept(acc.best, e) ELSE acc.best
  <1>1. new.counts = Counted(acc.counts, acc.best, e) /\ new.best = newBest
    BY DEF AddCandidate
  <1>2. /\ new.counts \in CountRow /\ new.counts.raw = raw
        /\ Refused(new.counts) = Refused(acc.counts)
              + (IF e.loc \in Locations /\ e.loc \notin DOMAIN acc.best THEN 0 ELSE 1)
    BY <1>1, CountedStep DEF ReadInv
  <1>3. IsFiniteSet(DOMAIN acc.best) /\ Cardinality(DOMAIN acc.best) \in Nat
    BY SitemapAssumption, FS_Subset, FS_CardinalityType DEF ReadInv, KeptRow
  <1>4. KeptRow(newBest) /\ OffersInv(newBest, offered \cup Offer(e))
        /\ DOMAIN newBest = DOMAIN acc.best \cup (IF e.loc \in Locations THEN {e.loc} ELSE {})
    <2>1. CASE e.loc \in Locations
      BY <2>1, KeptStep DEF ReadInv, Offer
    <2>2. CASE e.loc \notin Locations
      BY <2>2 DEF ReadInv, Offer
    <2>. QED  BY <2>1, <2>2
  <1>5. Cardinality(DOMAIN newBest) = Cardinality(DOMAIN acc.best)
          + (IF e.loc \in Locations /\ e.loc \notin DOMAIN acc.best THEN 1 ELSE 0)
    <2>1. CASE e.loc \in Locations
      <3>1. DOMAIN newBest = DOMAIN acc.best \cup {e.loc}
        BY <1>4, <2>1
      <3>2. Cardinality(DOMAIN acc.best \cup {e.loc})
              = IF e.loc \in DOMAIN acc.best THEN Cardinality(DOMAIN acc.best) ELSE Cardinality(DOMAIN acc.best) + 1
        BY <1>3, FS_AddElement
      <3>. HIDE DEF newBest
      <3>. QED  BY <1>3, <2>1, <3>1, <3>2
    <2>2. CASE e.loc \notin Locations
      BY <1>3, <2>2
    <2>. QED  BY <2>1, <2>2
  <1>6. Refused(acc.counts) \in Nat
    BY DEF ReadInv, CountRow, Refused
  <1>7. Cardinality(DOMAIN newBest) + Refused(new.counts) = total + 1
    <2>. HIDE DEF newBest, new
    <2>1. Cardinality(DOMAIN acc.best) + Refused(acc.counts) = total
      BY DEF ReadInv
    <2>. QED  BY <1>2, <1>3, <1>5, <1>6, <2>1
  <1>. QED  BY <1>1, <1>2, <1>4, <1>7 DEF ReadInv

\* What k of the entries offer.
Offered(entries, k) ==
    {<<entries[i].loc, Hint(entries[i].lastmod)>> :
        i \in {j \in 1 .. k : entries[j].loc \in Locations}}

LEMMA OfferedStep ==
  ASSUME NEW entries, NEW k \in Nat
  PROVE  /\ Offered(entries, 0) = {}
         /\ Offered(entries, k + 1) = Offered(entries, k) \cup Offer(entries[k + 1])
  <1>1. Offered(entries, 0) = {}
    BY DEF Offered
  <1>2. k + 1 \in 1 .. k + 1 /\ \A j \in 1 .. k + 1 : j = k + 1 \/ j \in 1 .. k
    OBVIOUS
  <1>3. \A j \in 1 .. k : j \in 1 .. k + 1
    OBVIOUS
  <1>. QED  BY <1>1, <1>2, <1>3 DEF Offered, Offer

LEMMA CandidatesRead ==
  ASSUME NEW base, NEW raw, NEW offered, NEW total \in Nat, ReadInv(base, raw, offered, total),
         \A o \in offered : o[2] \in Nat, NEW entries \in Seq(Entries)
  PROVE  ReadInv(EntriesFold(base, entries)[DOMAIN entries], raw,
                 offered \cup Offered(entries, Len(entries)), total + Len(entries))
  <1>. DEFINE n == Len(entries)
              acc(k) == EntriesFold(base, entries)[1 .. k]
              T == {k \in Nat : k <= n =>
                      ReadInv(acc(k), raw, offered \cup Offered(entries, k), total + k)}
  <1>1. n \in Nat /\ DOMAIN entries = 1 .. n /\ \A i \in 1 .. n : entries[i] \in Entries
    OBVIOUS
  <1>2. acc(0) = base /\ \A k \in 1 .. n : acc(k) = AddCandidate(acc(k - 1), entries[k])
    BY EntriesFoldStep
  <1>. HIDE DEF n, acc
  <1>3. 0 \in T
    <2>1. offered \cup Offered(entries, 0) = offered /\ total + 0 = total
      BY OfferedStep
    <2>. QED  BY <1>2, <2>1
  <1>4. ASSUME NEW k \in Nat, k \in T PROVE k + 1 \in T
    <2>. SUFFICES ASSUME k + 1 <= n
                  PROVE  ReadInv(acc(k + 1), raw, offered \cup Offered(entries, k + 1), total + (k + 1))
      OBVIOUS
    <2>1. k + 1 \in 1 .. n /\ (k + 1) - 1 = k /\ k <= n
      BY <1>1
    <2>2. ReadInv(acc(k), raw, offered \cup Offered(entries, k), total + k)
      BY <1>4, <2>1
    <2>3. acc(k + 1) = AddCandidate(acc(k), entries[k + 1]) /\ entries[k + 1] \in Entries
      BY <1>1, <1>2, <2>1
    <2>4. \A o \in offered \cup Offered(entries, k) : o[2] \in Nat
      <3>1. \A i \in 1 .. k : entries[i] \in Entries
        BY <1>1, <2>1
      <3>. QED  BY <3>1, HintOK DEF Offered
    <2>. DEFINE so == offered \cup Offered(entries, k)
                sum == total + k
    <2>5. ReadInv(acc(k), raw, so, sum) /\ \A o \in so : o[2] \in Nat
      BY <2>2, <2>4
    <2>6. offered \cup Offered(entries, k + 1) = so \cup Offer(entries[k + 1])
      <3>1. Offered(entries, k + 1) = Offered(entries, k) \cup Offer(entries[k + 1])
        BY OfferedStep
      <3>. QED  BY <3>1
    <2>6a. total + (k + 1) = sum + 1
      OBVIOUS
    <2>. HIDE DEF so, sum
    <2>7. ReadInv(AddCandidate(acc(k), entries[k + 1]), raw, so \cup Offer(entries[k + 1]), sum + 1)
      BY <2>3, <2>5, CandidateStep
    <2>. QED  BY <2>3, <2>6, <2>6a, <2>7
  <1>5. Nat \subseteq T
    <2>. HIDE DEF T
    <2>. QED  BY <1>3, <1>4, SetInduction
  <1>6. ReadInv(acc(n), raw, offered \cup Offered(entries, n), total + n)
    BY <1>1, <1>5
  <1>. QED  BY <1>1, <1>6 DEF acc, n

-----------------------------------------------------------------------------
(* The traversal: sn the addresses read, q the queue, ls the links found.    *)

QueueRows == EntryUrls \X (0 .. MaxDepth)
Pending(q) == {q[i][1] : i \in DOMAIN q}
Waiting(q, k) == {q[i][1] : i \in {j \in DOMAIN q : q[j][2] <= k}}
BreadthFirst(q) ==
  \A i, j \in DOMAIN q : i <= j => q[i][2] <= q[j][2] /\ q[j][2] <= q[i][2] + 1
Connected(sn, q, ls) ==
  /\ ls \subseteq Locations \X Nat \X EntryUrls
  /\ \A l \in ls : l[1] \in sn /\ l[3] \in sn \cup Pending(q)
  /\ RootUrl \in sn \cup Pending(q)
Cited(q, ls) == \A u \in Pending(q) : u = RootUrl \/ \E l \in ls : l[3] = u
LedTo(sn, ls) == sn # {} => sn \subseteq Within(ls, Cardinality(sn) - 1)
NothingMissed(sn, q, ls) == \A k \in Nat : Within(ls, k) \subseteq sn \cup Waiting(q, k)
TreeInv(sn, q, ls) ==
  /\ Connected(sn, q, ls) /\ Cited(q, ls) /\ LedTo(sn, ls)
  /\ BreadthFirst(q) /\ NothingMissed(sn, q, ls)

LEMMA TailRows ==
  ASSUME NEW q \in Seq(QueueRows), q # <<>>
  PROVE  /\ Tail(q) \in Seq(QueueRows) /\ Head(q) \in QueueRows
         /\ Head(q)[1] \in Pending(q)
         /\ Pending(q) = {Head(q)[1]} \cup Pending(Tail(q))
         /\ \A k : Waiting(q, k) \subseteq {Head(q)[1]} \cup Waiting(Tail(q), k)
         /\ BreadthFirst(q) =>
              /\ BreadthFirst(Tail(q))
              /\ \A i \in DOMAIN q : Head(q)[2] <= q[i][2] /\ q[i][2] <= Head(q)[2] + 1
              /\ \A i \in DOMAIN Tail(q) : /\ Head(q)[2] <= Tail(q)[i][2]
                                          /\ Tail(q)[i][2] <= Head(q)[2] + 1
  <1>. DEFINE n == Len(q)
              t == Tail(q)
              h == Head(q)
  <1>1. /\ n \in Nat \ {0} /\ DOMAIN q = 1 .. n /\ h = q[1] /\ h \in QueueRows
        /\ t \in Seq(QueueRows) /\ DOMAIN t = 1 .. n - 1
        /\ \A i \in 1 .. n - 1 : t[i] = q[i + 1]
    BY HeadTailProperties
  <1>. HIDE DEF n, t, h
  <1>2. \A i \in 1 .. n : i = 1 \/ (i - 1 \in 1 .. n - 1 /\ t[i - 1] = q[i])
    <2>. SUFFICES ASSUME NEW i \in 1 .. n, i # 1 PROVE i - 1 \in 1 .. n - 1 /\ t[i - 1] = q[i]
      OBVIOUS
    <2>1. i - 1 \in 1 .. n - 1 /\ (i - 1) + 1 = i
      BY <1>1
    <2>. QED  BY <1>1, <2>1
  <1>3. 1 \in 1 .. n /\ \A i \in 1 .. n - 1 : i + 1 \in 1 .. n /\ i \in 1 .. n /\ 1 <= i + 1
    BY <1>1
  <1>4. h[1] \in Pending(q) /\ Pending(q) = {h[1]} \cup Pending(t)
    <2>1. h[1] \in Pending(q)
      BY <1>1, <1>3 DEF Pending
    <2>2. Pending(t) \subseteq Pending(q)
      BY <1>1, <1>3 DEF Pending
    <2>3. ASSUME NEW i \in 1 .. n PROVE q[i][1] \in {h[1]} \cup Pending(t)
      <3>1. CASE i = 1
        BY <1>1, <3>1
      <3>2. CASE i # 1
        <4>1. i - 1 \in 1 .. n - 1 /\ t[i - 1] = q[i]
          BY <1>2, <3>2
        <4>. QED  BY <1>1, <4>1 DEF Pending
      <3>. QED  BY <3>1, <3>2
    <2>4. Pending(q) \subseteq {h[1]} \cup Pending(t)
      BY <1>1, <2>3 DEF Pending
    <2>. QED  BY <2>1, <2>2, <2>4
  <1>5. ASSUME NEW k PROVE Waiting(q, k) \subseteq {h[1]} \cup Waiting(t, k)
    <2>1. ASSUME NEW i \in 1 .. n, q[i][2] <= k PROVE q[i][1] \in {h[1]} \cup Waiting(t, k)
      <3>1. CASE i = 1
        BY <1>1, <3>1
      <3>2. CASE i # 1
        <4>1. i - 1 \in 1 .. n - 1 /\ t[i - 1] = q[i]
          BY <1>2, <3>2
        <4>. QED  BY <1>1, <2>1, <4>1 DEF Waiting
      <3>. QED  BY <3>1, <3>2
    <2>. QED  BY <1>1, <2>1 DEF Waiting
  <1>6. ASSUME BreadthFirst(q)
        PROVE  \A i \in DOMAIN q : h[2] <= q[i][2] /\ q[i][2] <= h[2] + 1
    BY <1>1, <1>3, <1>6 DEF BreadthFirst
  <1>7. ASSUME BreadthFirst(q), NEW i \in DOMAIN t
        PROVE  h[2] <= t[i][2] /\ t[i][2] <= h[2] + 1
    BY <1>1, <1>3, <1>6, <1>7
  <1>8. ASSUME BreadthFirst(q) PROVE BreadthFirst(t)
    <2>1. ASSUME NEW i \in 1 .. n - 1, NEW j \in 1 .. n - 1, i <= j
          PROVE  t[i][2] <= t[j][2] /\ t[j][2] <= t[i][2] + 1
      <3>1. i + 1 \in 1 .. n /\ j + 1 \in 1 .. n /\ i + 1 <= j + 1
        BY <1>1, <2>1
      <3>2. t[i] = q[i + 1] /\ t[j] = q[j + 1]
        BY <1>1
      <3>3. \A a, b \in 1 .. n : a <= b => q[a][2] <= q[b][2] /\ q[b][2] <= q[a][2] + 1
        BY <1>1, <1>8 DEF BreadthFirst
      <3>. QED  BY <3>1, <3>2, <3>3
    <2>. QED  BY <1>1, <2>1 DEF BreadthFirst
  <1>. QED  BY <1>1, <1>4, <1>5, <1>6, <1>7, <1>8 DEF t, h

\* The head was read before.
LEMMA TreeSkip ==
  ASSUME NEW sn, NEW ls, NEW q \in Seq(QueueRows), q # <<>>, TreeInv(sn, q, ls),
         Head(q)[1] \in sn
  PROVE  TreeInv(sn, Tail(q), ls)
  <1>. DEFINE t == Tail(q)
              u == Head(q)[1]
  <1>1. /\ Pending(q) = {u} \cup Pending(t) /\ BreadthFirst(t)
        /\ \A k : Waiting(q, k) \subseteq {u} \cup Waiting(t, k)
    BY TailRows DEF TreeInv
  <1>2. u \in sn
    OBVIOUS
  <1>. HIDE DEF t, u
  <1>3. Connected(sn, t, ls) /\ Cited(t, ls)
    BY <1>1, <1>2 DEF TreeInv, Connected, Cited
  <1>4. NothingMissed(sn, t, ls)
    BY <1>1, <1>2 DEF TreeInv, NothingMissed
  <1>. QED  BY <1>1, <1>3, <1>4 DEF TreeInv, t

\* A new address is one step further than some address read before it.
LEMMA NewIsLedTo ==
  ASSUME NEW sn, IsFiniteSet(sn), NEW q, NEW ls, Connected(sn, q, ls), Cited(q, ls), LedTo(sn, ls),
         NEW u \in Pending(q), u \notin sn
  PROVE  LedTo(sn \cup {u}, ls)
  <1>. DEFINE c == Cardinality(sn)
  <1>1. c \in Nat /\ Cardinality(sn \cup {u}) = c + 1 /\ (c + 1) - 1 = c
    BY FS_CardinalityType, FS_AddElement
  <1>2. sn # {} => c # 0 /\ c - 1 \in 0 .. c /\ (c - 1) + 1 = c /\ c - 1 \in Nat
    BY <1>1, FS_EmptySet
  <1>3. sn \subseteq Within(ls, c)
    <2>1. sn # {} => sn \subseteq Within(ls, c - 1)
      BY DEF LedTo
    <2>. HIDE DEF c
    <2>. QED  BY <1>1, <1>2, <2>1, WithinGrows
  <1>4. u \in Within(ls, c)
    <2>1. CASE u = RootUrl
      <3>1. 0 \in 0 .. c
        BY <1>1
      <3>2. RootUrl \in Within(ls, 0)
        BY WithinStep
      <3>. HIDE DEF c
      <3>. QED  BY <1>1, <2>1, <3>1, <3>2, WithinGrows
    <2>2. CASE \E l \in ls : l[3] = u
      <3>1. PICK l \in ls : l[3] = u
        BY <2>2
      <3>2. l[1] \in sn
        BY DEF Connected
      <3>3. l[1] \in Within(ls, c - 1)
        BY <3>2 DEF LedTo
      <3>4. Within(ls, c) = Grown(ls, Within(ls, c - 1))
        <4>1. Within(ls, (c - 1) + 1) = Grown(ls, Within(ls, c - 1))
          BY <1>2, <3>2, WithinStep
        <4>. QED  BY <1>2, <3>2, <4>1
      <3>. HIDE DEF c
      <3>. QED  BY <3>1, <3>3, <3>4 DEF Grown
    <2>. QED  BY <2>1, <2>2 DEF Cited
  <1>. QED  BY <1>1, <1>3, <1>4 DEF LedTo

\* The head is read and has no children.
LEMMA TreeLeaf ==
  ASSUME NEW sn, IsFiniteSet(sn), NEW ls, NEW q \in Seq(QueueRows), q # <<>>, TreeInv(sn, q, ls),
         Head(q)[1] \notin sn
  PROVE  TreeInv(sn \cup {Head(q)[1]}, Tail(q), ls)
  <1>. DEFINE t == Tail(q)
              u == Head(q)[1]
              new == sn \cup {u}
  <1>1. /\ Pending(q) = {u} \cup Pending(t) /\ BreadthFirst(t)
        /\ \A k : Waiting(q, k) \subseteq {u} \cup Waiting(t, k)
    BY TailRows DEF TreeInv
  <1>2. LedTo(new, ls)
    <2>1. u \in Pending(q)
      BY <1>1
    <2>. QED  BY <2>1, NewIsLedTo DEF TreeInv
  <1>3. sn \subseteq new /\ u \in new
    OBVIOUS
  <1>. HIDE DEF t, u, new
  <1>4. Connected(new, t, ls) /\ Cited(t, ls)
    BY <1>1, <1>3 DEF TreeInv, Connected, Cited
  <1>5. NothingMissed(new, t, ls)
    BY <1>1, <1>3 DEF TreeInv, NothingMissed
  <1>. QED  BY <1>1, <1>2, <1>4, <1>5 DEF TreeInv, t, u, new

\* No chain of citations leaves the addresses cited.
LEMMA WithinCited ==
  ASSUME NEW ls, NEW set, RootUrl \in set, \A l \in ls : l[3] \in set, NEW k \in Nat
  PROVE  Within(ls, k) \subseteq set
  <1>. DEFINE T == {n \in Nat : Within(ls, n) \subseteq set}
  <1>1. 0 \in T
    BY WithinStep
  <1>2. ASSUME NEW n \in Nat, n \in T PROVE n + 1 \in T
    <2>1. Grown(ls, Within(ls, n)) \subseteq set
      BY <1>2 DEF Grown
    <2>. QED  BY <2>1, WithinStep
  <1>3. Nat \subseteq T
    <2>. HIDE DEF T
    <2>. QED  BY <1>1, <1>2, SetInduction
  <1>. QED  BY <1>3

Kids(entries, depth) == [i \in DOMAIN entries |-> <<entries[i].loc, depth + 1>>]
Cites(u, entries) == {<<u, i, entries[i].loc>> : i \in DOMAIN entries}

\* The head was not met at a smaller depth.
LEMMA NotNearer ==
  ASSUME NEW sn, NEW ls, NEW q \in Seq(QueueRows), q # <<>>, TreeInv(sn, q, ls),
         Head(q)[1] \notin sn, NEW k \in Nat, k < Head(q)[2]
  PROVE  Head(q)[1] \notin Within(ls, k)
  <1>1. \A i \in DOMAIN q : Head(q)[2] <= q[i][2]
    BY TailRows DEF TreeInv
  <1>2. Head(q)[2] \in Nat /\ \A i \in DOMAIN q : q[i][2] \in Nat
    <2>1. Head(q) \in QueueRows /\ \A i \in DOMAIN q : q[i] \in QueueRows
      BY TailRows
    <2>2. \A r \in QueueRows : r[2] \in Nat
      BY SitemapAssumption DEF QueueRows
    <2>. QED  BY <2>1, <2>2
  <1>3. Waiting(q, k) = {}
    <2>1. \A i \in DOMAIN q : ~(q[i][2] <= k)
      BY <1>1, <1>2
    <2>. QED  BY <2>1 DEF Waiting
  <1>4. Within(ls, k) \subseteq sn \cup Waiting(q, k)
    BY DEF TreeInv, NothingMissed
  <1>. QED  BY <1>3, <1>4

\* The head is an index.
LEMMA TreeIndex ==
  ASSUME NEW sn, sn \subseteq Locations, IsFiniteSet(sn), NEW ls, NEW q \in Seq(QueueRows), q # <<>>,
         TreeInv(sn, q, ls),
         Head(q)[1] \in Locations \ sn, NEW entries \in Seq(Children),
         entries = <<>> \/ Head(q)[2] < MaxDepth
  PROVE  LET kids == Kids(entries, Head(q)[2])
         IN  /\ Tail(q) \o kids \in Seq(QueueRows)
             /\ TreeInv(sn \cup {Head(q)[1]}, Tail(q) \o kids, ls \cup Cites(Head(q)[1], entries))
  <1>. DEFINE t == Tail(q)
              u == Head(q)[1]
              d == Head(q)[2]
              kids == Kids(entries, d)
              m == Len(t)
              n == Len(entries)
              nq == t \o kids
              new == sn \cup {u}
              cites == Cites(u, entries)
              more == ls \cup cites
  <1>1. /\ t \in Seq(QueueRows) /\ Pending(q) = {u} \cup Pending(t) /\ BreadthFirst(t)
        /\ \A k : Waiting(q, k) \subseteq {u} \cup Waiting(t, k)
        /\ \A i \in DOMAIN t : d <= t[i][2] /\ t[i][2] <= d + 1
    BY TailRows DEF TreeInv
  <1>2. d \in 0 .. MaxDepth /\ d \in Nat
    <2>1. \A r \in QueueRows : r[2] \in 0 .. MaxDepth
      BY DEF QueueRows
    <2>2. Head(q) \in QueueRows
      BY TailRows
    <2>. QED  BY SitemapAssumption, <2>1, <2>2
  <1>3. /\ n \in Nat /\ DOMAIN entries = 1 .. n /\ \A i \in 1 .. n : entries[i].loc \in EntryUrls
        /\ kids \in Seq(QueueRows) /\ Len(kids) = n
        /\ \A i \in 1 .. n : kids[i] = <<entries[i].loc, d + 1>>
    <2>1. n \in Nat /\ DOMAIN entries = 1 .. n /\ \A i \in 1 .. n : entries[i] \in Children
      OBVIOUS
    <2>2. \A c \in Children : c.loc \in EntryUrls
      BY DEF Children
    <2>3. \A i \in 1 .. n : <<entries[i].loc, d + 1>> \in QueueRows
      <3>1. ASSUME NEW i \in 1 .. n PROVE d + 1 \in 0 .. MaxDepth
        <4>1. d < MaxDepth
          BY <2>1
        <4>. QED  BY SitemapAssumption, <1>2, <4>1
      <3>. QED  BY <2>1, <2>2, <3>1 DEF QueueRows
    <2>. HIDE DEF n, d
    <2>4. kids = [i \in 1 .. n |-> <<entries[i].loc, d + 1>>]
      BY <2>1 DEF Kids
    <2>. QED  BY <2>1, <2>2, <2>3, <2>4
  <1>4. m \in Nat /\ DOMAIN t = 1 .. m /\ \A i \in 1 .. m : t[i][2] \in Nat
    <2>1. \A r \in QueueRows : r[2] \in Nat
      BY SitemapAssumption DEF QueueRows
    <2>2. \A i \in 1 .. m : t[i] \in QueueRows
      BY <1>1
    <2>. QED  BY <1>1, <2>1, <2>2
  <1>. HIDE DEF kids
  <1>5. /\ nq \in Seq(QueueRows) /\ DOMAIN nq = 1 .. m + n
        /\ \A i \in 1 .. m + n : nq[i] = IF i <= m THEN t[i] ELSE kids[i - m]
    <2>1. m = Len(t) /\ n = Len(kids) /\ nq = t \o kids
      BY <1>3
    <2>. HIDE DEF m, n, nq, t
    <2>2. /\ t \o kids \in Seq(QueueRows) /\ Len(t \o kids) = Len(t) + Len(kids)
          /\ \A i \in 1 .. Len(t) + Len(kids) :
               (t \o kids)[i] = IF i <= Len(t) THEN t[i] ELSE kids[i - Len(t)]
      BY <1>1, <1>3, ConcatProperties
    <2>3. /\ nq \in Seq(QueueRows) /\ Len(nq) = m + n
          /\ \A i \in 1 .. m + n : nq[i] = IF i <= m THEN t[i] ELSE kids[i - m]
      BY <2>1, <2>2
    <2>. QED  BY <2>3
  <1>. HIDE DEF t, d, m, n, nq
  <1>6. \A i \in 1 .. m : i \in 1 .. m + n /\ nq[i] = t[i]
    <2>. SUFFICES ASSUME NEW i \in 1 .. m PROVE i \in 1 .. m + n /\ nq[i] = t[i]
      OBVIOUS
    <2>1. i \in 1 .. m + n /\ i <= m
      BY <1>3, <1>4
    <2>. QED  BY <1>5, <2>1
  <1>7. \A i \in 1 .. n : m + i \in 1 .. m + n /\ nq[m + i] = <<entries[i].loc, d + 1>>
    <2>. SUFFICES ASSUME NEW i \in 1 .. n
                  PROVE  m + i \in 1 .. m + n /\ nq[m + i] = <<entries[i].loc, d + 1>>
      OBVIOUS
    <2>1. m + i \in 1 .. m + n /\ ~(m + i <= m) /\ (m + i) - m = i
      BY <1>3, <1>4
    <2>. QED  BY <1>3, <1>5, <2>1
  <1>8. ASSUME NEW i \in 1 .. m + n
        PROVE  (i \in 1 .. m) \/ (i - m \in 1 .. n /\ nq[i] = <<entries[i - m].loc, d + 1>>)
    <2>1. CASE i <= m
      BY <1>4, <2>1
    <2>2. CASE ~(i <= m)
      <3>1. i - m \in 1 .. n
        BY <1>3, <1>4, <2>2
      <3>. QED  BY <1>3, <1>5, <2>2, <3>1
    <2>. QED  BY <2>1, <2>2
  <1>9. Pending(nq) = Pending(t) \cup {c[3] : c \in cites}
    <2>1. Pending(t) \subseteq Pending(nq)
      BY <1>4, <1>5, <1>6 DEF Pending
    <2>2. \A c \in cites : c[3] \in Pending(nq)
      <3>1. \A i \in 1 .. n : entries[i].loc \in Pending(nq)
        <4>. SUFFICES ASSUME NEW i \in 1 .. n PROVE entries[i].loc \in Pending(nq)
          OBVIOUS
        <4>1. m + i \in DOMAIN nq /\ nq[m + i][1] = entries[i].loc
          BY <1>5, <1>7
        <4>. QED  BY <4>1 DEF Pending
      <3>. QED  BY <1>3, <3>1 DEF Cites
    <2>3. ASSUME NEW i \in 1 .. m + n PROVE nq[i][1] \in Pending(t) \cup {c[3] : c \in cites}
      <3>1. CASE i \in 1 .. m
        BY <1>4, <1>6, <3>1 DEF Pending
      <3>2. CASE i - m \in 1 .. n /\ nq[i] = <<entries[i - m].loc, d + 1>>
        <4>1. <<u, i - m, entries[i - m].loc>> \in cites
          BY <1>3, <3>2 DEF Cites
        <4>2. nq[i][1] = <<u, i - m, entries[i - m].loc>>[3]
          BY <3>2
        <4>. QED  BY <4>1, <4>2
      <3>. QED  BY <1>8, <3>1, <3>2
    <2>4. Pending(nq) \subseteq Pending(t) \cup {c[3] : c \in cites}
      BY <1>5, <2>3 DEF Pending
    <2>. QED  BY <2>1, <2>2, <2>4
  <1>10. /\ cites \subseteq Locations \X Nat \X EntryUrls
         /\ \A c \in cites : c[1] = u
    BY <1>3 DEF Cites
  <1>11. \A k : Waiting(t, k) \subseteq Waiting(nq, k)
    BY <1>4, <1>5, <1>6 DEF Waiting
  <1>17. ASSUME NEW i \in 1 .. m + n PROVE d <= nq[i][2] /\ nq[i][2] <= d + 1 /\ nq[i][2] \in Nat
    <2>1. CASE i \in 1 .. m
      BY <1>1, <1>4, <1>6, <2>1
    <2>2. CASE i - m \in 1 .. n /\ nq[i] = <<entries[i - m].loc, d + 1>>
      <3>1. nq[i][2] = d + 1
        BY <2>2
      <3>. QED  BY <1>2, <3>1
    <2>. QED  BY <1>8, <2>1, <2>2
  <1>12. BreadthFirst(nq)
    <2>1. ASSUME NEW i \in 1 .. m + n PROVE d <= nq[i][2] /\ nq[i][2] <= d + 1 /\ nq[i][2] \in Nat
      BY <1>17
    <2>2. ASSUME NEW i \in 1 .. m + n, NEW j \in 1 .. m + n, i <= j
          PROVE  nq[i][2] <= nq[j][2] /\ nq[j][2] <= nq[i][2] + 1
      <3>1. nq[j][2] <= nq[i][2] + 1
        <4>1. d <= nq[i][2] /\ nq[j][2] <= d + 1 /\ nq[i][2] \in Nat /\ nq[j][2] \in Nat
          BY <2>1
        <4>. QED  BY <1>2, <4>1
      <3>2. CASE j \in 1 .. m
        <4>1. i \in 1 .. m
          BY <1>3, <1>4, <2>2, <3>2
        <4>. QED  BY <1>1, <1>4, <1>6, <2>2, <3>1, <3>2, <4>1 DEF BreadthFirst
      <3>3. CASE nq[j] = <<entries[j - m].loc, d + 1>>
        <4>1. nq[j][2] = d + 1 /\ nq[i][2] <= d + 1
          BY <2>1, <3>3
        <4>. QED  BY <3>1, <4>1
      <3>. QED  BY <1>8, <3>2, <3>3
    <2>. QED  BY <1>5, <2>2 DEF BreadthFirst
  <1>13. LedTo(new, more)
    <2>1. u \in Pending(q) /\ u \notin sn
      BY <1>1
    <2>. HIDE DEF u
    <2>2. LedTo(new, ls)
      BY <2>1, NewIsLedTo DEF TreeInv
    <2>3. Cardinality(new) \in Nat /\ Cardinality(new) # 0 /\ new # {}
      BY FS_AddElement, FS_CardinalityType, FS_EmptySet
    <2>4. Cardinality(new) - 1 \in Nat
      BY <2>3
    <2>. HIDE DEF new, more
    <2>5. ls \subseteq more
      BY DEF more
    <2>6. Within(ls, Cardinality(new) - 1) \subseteq Within(more, Cardinality(new) - 1)
      BY <2>4, <2>5, WithinMore
    <2>. QED  BY <2>2, <2>3, <2>6 DEF LedTo
  <1>14. Connected(new, nq, more)
    <2>1. \A l \in ls : l[1] \in sn /\ l[3] \in sn \cup {u} \cup Pending(t)
      BY <1>1 DEF TreeInv, Connected
    <2>. QED  BY <1>1, <1>9, <1>10, <2>1 DEF TreeInv, Connected
  <1>15. Cited(nq, more)
    BY <1>1, <1>9 DEF TreeInv, Cited
  <1>16. ASSUME NEW k \in Nat PROVE Within(more, k) \subseteq new \cup Waiting(nq, k)
    <2>1. CASE k <= d
      <3>1. Within(more, k) = Within(ls, k)
        <4>1. CASE d = 0
          <5>1. k = 0
            BY <1>2, <2>1, <4>1
          <5>. QED  BY <5>1, WithinStep
        <4>2. CASE d # 0
          <5>1. d - 1 \in Nat /\ d - 1 < d /\ (d - 1) + 1 = d /\ k \in 0 .. (d - 1) + 1
            BY <1>2, <2>1, <4>2
          <5>2. u \notin Within(ls, d - 1)
            BY <5>1, NotNearer DEF d
          <5>. HIDE DEF u, more, cites
          <5>3. ls \subseteq more /\ \A l \in more \ ls : l[1] = u
            BY <1>10 DEF more
          <5>. QED  BY <5>1, <5>2, <5>3, WithinKept
        <4>. QED  BY <4>1, <4>2
      <3>2. Within(ls, k) \subseteq sn \cup Waiting(q, k)
        BY DEF TreeInv, NothingMissed
      <3>. QED  BY <1>1, <1>11, <3>1, <3>2
    <2>2. CASE ~(k <= d)
      <3>1. Pending(nq) \subseteq Waiting(nq, k)
        <4>1. \A i \in 1 .. m + n : nq[i][2] <= k
          <5>. SUFFICES ASSUME NEW i \in 1 .. m + n PROVE nq[i][2] <= k
            OBVIOUS
          <5>1. nq[i][2] <= d + 1 /\ nq[i][2] \in Nat
            BY <1>17
          <5>. QED  BY <1>2, <2>2, <5>1
        <4>. QED  BY <1>5, <4>1 DEF Pending, Waiting
      <3>2. RootUrl \in new \cup Pending(nq) /\ \A l \in more : l[3] \in new \cup Pending(nq)
        BY <1>14 DEF Connected
      <3>. HIDE DEF new, more
      <3>3. Within(more, k) \subseteq new \cup Pending(nq)
        BY <3>2, WithinCited
      <3>. QED  BY <3>1, <3>3
    <2>. QED  BY <2>1, <2>2
  <1>. QED  BY <1>5, <1>12, <1>13, <1>14, <1>15, <1>16 DEF TreeInv, NothingMissed, nq, kids, t, d

-----------------------------------------------------------------------------
(* The inductive invariant.                                                  *)

\* No limit and no error has ended the parse.
Unrefused == phase \in {"submitted", "parsing", "parsed"}
RowsInv ==
  /\ seen \subseteq Locations /\ Cardinality(seen) <= MaxFiles
  /\ counts \in CountRow /\ counts.raw <= MaxEntries
  /\ KeptRow(best)
  /\ queue \in Seq(QueueRows)
CountsInv ==
  /\ IsFiniteSet(links)
  /\ counts.raw = Cardinality(links) + (Cardinality(DOMAIN best) + Refused(counts))
SitemapInv ==
  /\ RowsInv
  /\ Unrefused => /\ TreeInv(seen, queue, links) /\ CountsInv /\ starved = {}
                  /\ OffersInv(best, offers) /\ \A o \in offers : o[2] \in Nat
  /\ phase = "parsed" => queue = <<>>
  /\ DepthIsShortest

LEMMA DocumentRead ==
  ASSUME NEW doc \in Documents, NEW room \in Int
  PROVE  /\ DocumentError(doc, room) \notin {"submitted", "parsing", "parsed"}
         /\ ParseRefusal(DocumentError(doc, room)) \notin {"submitted", "parsing", "parsed"}
         /\ DocumentError(doc, room) = "none" =>
              /\ Len(doc.entries) \in Nat /\ Len(doc.entries) <= room
              /\ doc.root = "sitemapindex" => doc.entries \in Seq(Children)
              /\ doc.root = "urlset" => doc.entries \in Seq(Entries)
  <1>1. DocumentError(doc, room) \notin {"submitted", "parsing", "parsed"}
    BY DEF DocumentError, DecodeError
  <1>2. ParseRefusal(DocumentError(doc, room)) \notin {"submitted", "parsing", "parsed"}
    BY DEF ParseRefusal
  <1>3. ASSUME DocumentError(doc, room) = "none" PROVE Len(doc.entries) <= room
    <2>1. ~(Len(doc.entries) > room)
      BY <1>3 DEF DocumentError, DecodeError
    <2>2. \A X : SeqOf(X, MaxPerFile) \subseteq Seq(X)
      BY SitemapAssumption DEF SeqOf
    <2>3. Len(doc.entries) \in Nat
      <3>1. doc.entries \in Seq(Children) \/ doc.entries \in Seq(Entries) \/ doc.entries = <<>>
        BY <2>2 DEF Documents
      <3>. QED  BY <3>1
    <2>. QED  BY <2>1, <2>3
  <1>4. /\ Len(doc.entries) \in Nat
        /\ doc.root = "sitemapindex" => doc.entries \in Seq(Children)
        /\ doc.root = "urlset" => doc.entries \in Seq(Entries)
    <2>1. \A X : SeqOf(X, MaxPerFile) \subseteq Seq(X)
      BY SitemapAssumption DEF SeqOf
    <2>2. \A X : <<>> \in Seq(X)
      OBVIOUS
    <2>3. CASE doc \in [body : {"plain"}, root : {"urlset"}, entries : SeqOf(Entries, MaxPerFile), broken : {FALSE}]
      <3>1. doc.root = "urlset" /\ doc.entries \in SeqOf(Entries, MaxPerFile)
        BY <2>3
      <3>. QED  BY <2>1, <3>1
    <2>4. CASE doc \in [body : {"plain", "gzip"}, root : {"sitemapindex"},
                        entries : SeqOf(Children, MaxPerFile), broken : {FALSE}]
      <3>1. doc.root = "sitemapindex" /\ doc.entries \in SeqOf(Children, MaxPerFile)
        BY <2>4
      <3>. QED  BY <2>1, <3>1
    <2>5. CASE doc \in [body : Bodies, root : {"urlset", "html", "none"}, entries : {<<>>}, broken : BOOLEAN]
      <3>1. doc.entries = <<>>
        BY <2>5
      <3>. QED  BY <2>2, <3>1
    <2>. QED  BY <2>3, <2>4, <2>5 DEF Documents
  <1>. QED  BY <1>1, <1>2, <1>3, <1>4

LEMMA CitesCount ==
  ASSUME NEW ls, IsFiniteSet(ls), NEW u, \A l \in ls : l[1] # u, NEW entries \in Seq(Children)
  PROVE  /\ IsFiniteSet(ls \cup Cites(u, entries))
         /\ Cardinality(ls \cup Cites(u, entries)) = Cardinality(ls) + Len(entries)
  <1>. DEFINE n == Len(entries)
              cites == Cites(u, entries)
              f == [i \in 1 .. n |-> <<u, i, entries[i].loc>>]
  <1>1. n \in Nat /\ DOMAIN entries = 1 .. n
    OBVIOUS
  <1>2. IsFiniteSet(1 .. n) /\ Cardinality(1 .. n) = n
    <2>. HIDE DEF n
    <2>1. IsFiniteSet(1 .. n) /\ Cardinality(1 .. n) = IF 1 > n THEN 0 ELSE n - 1 + 1
      BY <1>1, FS_Interval
    <2>. QED  BY <1>1, <2>1
  <1>3. f \in Bijection(1 .. n, cites)
    <2>1. cites = {<<u, i, entries[i].loc>> : i \in 1 .. n}
      BY <1>1 DEF Cites
    <2>. HIDE DEF n, cites
    <2>2. \A i \in 1 .. n : f[i] = <<u, i, entries[i].loc>>
      OBVIOUS
    <2>3. f \in [1 .. n -> cites]
      BY <2>1
    <2>4. \A i, j \in 1 .. n : f[i] = f[j] => i = j
      BY <2>2
    <2>5. \A c \in cites : \E i \in 1 .. n : f[i] = c
      BY <2>1, <2>2
    <2>. HIDE DEF f
    <2>6. f \in Injection(1 .. n, cites)
      BY <2>3, <2>4 DEF Injection, IsInjective
    <2>7. f \in Surjection(1 .. n, cites)
      BY <2>3, <2>5 DEF Surjection
    <2>. QED  BY <2>6, <2>7 DEF Bijection
  <1>4. IsFiniteSet(cites) /\ Cardinality(cites) = n
    <2>. HIDE DEF f, n, cites
    <2>. QED  BY <1>2, <1>3, FS_Bijection DEF ExistsBijection
  <1>5. ls \cap cites = {}
    BY DEF Cites
  <1>6. Cardinality(ls \cap cites) = 0 /\ Cardinality(ls) \in Nat
    BY <1>5, FS_EmptySet, FS_CardinalityType
  <1>. HIDE DEF n, cites
  <1>7. /\ IsFiniteSet(ls \cup cites)
        /\ Cardinality(ls \cup cites) = Cardinality(ls) + Cardinality(cites) - Cardinality(ls \cap cites)
    BY <1>4, FS_Union
  <1>8. Cardinality(ls \cup cites) = Cardinality(ls) + n
    BY <1>1, <1>4, <1>6, <1>7
  <1>. QED  BY <1>7, <1>8 DEF n, cites

LEMMA SeenFinite == SitemapInv => IsFiniteSet(seen) /\ Cardinality(seen) \in Nat
  BY SitemapAssumption, FS_Subset, FS_CardinalityType DEF SitemapInv, RowsInv

LEMMA SitemapInitInv == SitemapInit => SitemapInv
  <1>. SUFFICES ASSUME SitemapInit PROVE SitemapInv
    OBVIOUS
  <1>. USE DEF SitemapInit
  <1>1. /\ queue = <<<<RootUrl, 0>>>> /\ DOMAIN queue = {1} /\ queue[1][1] = RootUrl /\ queue[1][2] = 0
        /\ queue # <<>> /\ phase = "submitted" /\ links = {} /\ seen = {} /\ starved = {}
    OBVIOUS
  <1>2. queue \in Seq(QueueRows)
    <2>1. <<RootUrl, 0>> \in QueueRows
      BY SitemapAssumption DEF QueueRows, EntryUrls
    <2>. QED  BY <2>1
  <1>3. Cardinality({}) = 0 /\ IsFiniteSet({})
    BY FS_EmptySet
  <1>4. best = <<>> /\ DOMAIN best = {} /\ offers = {} /\ counts = NoCounts
    OBVIOUS
  <1>5. RowsInv
    BY SitemapAssumption, <1>1, <1>2, <1>3, <1>4 DEF RowsInv, KeptRow, CountRow, NoCounts
  <1>6. CountsInv
    BY <1>1, <1>3, <1>4 DEF CountsInv, Refused, NoCounts
  <1>7. OffersInv(best, offers)
    BY <1>4 DEF OffersInv
  <1>8. Pending(queue) = {RootUrl}
    BY <1>1 DEF Pending
  <1>9. NothingMissed(seen, queue, links)
    <2>1. ASSUME NEW k \in Nat PROVE Within({}, k) \subseteq Waiting(queue, k)
      <3>1. RootUrl \in Waiting(queue, k)
        BY <1>1 DEF Waiting
      <3>. QED  BY <3>1, WithinCited
    <2>. QED  BY <1>1, <2>1 DEF NothingMissed
  <1>10. TreeInv(seen, queue, links)
    BY <1>1, <1>8, <1>9 DEF TreeInv, Connected, Cited, LedTo, BreadthFirst
  <1>. QED  BY <1>1, <1>4, <1>5, <1>6, <1>7, <1>10 DEF SitemapInv, DepthIsShortest

LEMMA SitemapNextInv == SitemapInv /\ [SitemapNext]_sitemapVars => SitemapInv'
  <1>. SUFFICES ASSUME SitemapInv, [SitemapNext]_sitemapVars PROVE SitemapInv'
    OBVIOUS
  <1>1. ASSUME UNCHANGED <<links, starved>> PROVE DepthIsShortest'
    BY <1>1 DEF SitemapInv, DepthIsShortest, Reached
  <1>2. ASSUME UNCHANGED <<queue, seen, best, counts, offers, links, starved>>, phase' # "parsed",
               phase \in {"submitted", "parsing"}
        PROVE  SitemapInv'
    BY <1>1, <1>2 DEF SitemapInv, RowsInv, CountsInv, Unrefused
  <1>3. ASSUME RowsInv', phase' \notin {"submitted", "parsing", "parsed"}, UNCHANGED <<links, starved>>
        PROVE  SitemapInv'
    BY <1>1, <1>3 DEF SitemapInv, Unrefused
  <1>4. CASE Validate
    <2>1. \A error \in FetchErrors : FetchRefusal(error) # "parsed"
      BY DEF FetchRefusal
    <2>2. \A doc \in Documents : ParseRefusal(DocumentError(doc, MaxEntries)) # "parsed"
      BY DEF ParseRefusal
    <2>. QED  BY <1>2, <1>4, <2>1, <2>2 DEF Validate
  <1>5. CASE ParseOneSkipped
    <2>. DEFINE url == Head(queue)[1]
    <2>1. CASE ChildError(url) # "none" /\ ParseFails(ChildError(url))
      <3>1. ChildError(url) # "parsed"
        BY DEF ChildError
      <3>. QED  BY <1>2, <1>5, <2>1, <3>1 DEF ParseOneSkipped, ParseFails
    <2>2. CASE /\ url \in seen /\ queue' = Tail(queue)
               /\ UNCHANGED <<phase, seen, best, counts, offers, links, starved>>
      <3>1. phase = "parsing" /\ queue # <<>> /\ queue \in Seq(QueueRows) /\ TreeInv(seen, queue, links)
        BY <1>5 DEF ParseOneSkipped, SitemapInv, RowsInv, Unrefused
      <3>2. TreeInv(seen, queue', links) /\ queue' \in Seq(QueueRows)
        BY <2>2, <3>1, TreeSkip, TailRows
      <3>. QED  BY <1>1, <2>2, <3>1, <3>2 DEF SitemapInv, RowsInv, CountsInv, Unrefused
    <2>3. CASE ParseFails("sitemap_limit")
      BY <1>2, <1>5, <2>3 DEF ParseOneSkipped, ParseFails
    <2>. QED  BY <1>5, <2>1, <2>2, <2>3 DEF ParseOneSkipped
  <1>6. ASSUME NextFile, seen' = seen \cup {Head(queue)[1]}
        PROVE  /\ phase = "parsing" /\ queue \in Seq(QueueRows) /\ queue # <<>>
               /\ Head(queue)[1] \in Locations \ seen /\ Tail(queue) \in Seq(QueueRows)
               /\ seen' \subseteq Locations /\ Cardinality(seen') <= MaxFiles
               /\ TreeInv(seen, queue, links) /\ CountsInv /\ starved = {}
               /\ OffersInv(best, offers) /\ \A o \in offers : o[2] \in Nat
    <2>1. /\ phase = "parsing" /\ queue \in Seq(QueueRows) /\ queue # <<>>
          /\ Head(queue)[1] \in Locations \ seen /\ Cardinality(seen) < MaxFiles /\ seen \subseteq Locations
      BY <1>6 DEF NextFile, SitemapInv, RowsInv
    <2>2. Cardinality(seen') = Cardinality(seen) + 1 /\ Cardinality(seen) \in Nat
      BY <1>6, <2>1, SeenFinite, FS_AddElement
    <2>3. Cardinality(seen') <= MaxFiles /\ seen' \subseteq Locations
      BY <1>6, <2>1, <2>2, SitemapAssumption
    <2>4. Tail(queue) \in Seq(QueueRows)
      BY <2>1, TailRows
    <2>. QED  BY <2>1, <2>3, <2>4 DEF SitemapInv, Unrefused
  <1>7. ASSUME seen' \subseteq Locations, Cardinality(seen') <= MaxFiles, queue' = Tail(queue),
               Tail(queue) \in Seq(QueueRows), UNCHANGED <<counts, best>>
        PROVE  RowsInv'
    BY <1>7 DEF SitemapInv, RowsInv
  <1>8. CASE FetchFails
    <2>1. NextFile /\ seen' = seen \cup {Head(queue)[1]} /\ queue' = Tail(queue)
          /\ phase' \notin {"submitted", "parsing", "parsed"} /\ UNCHANGED <<best, counts, links, starved>>
      BY <1>8 DEF FetchFails
    <2>2. RowsInv'
      BY <1>6, <1>7, <2>1
    <2>. QED  BY <1>3, <2>1, <2>2
  <1>9. CASE ParseOne
    <2>. DEFINE url == Head(queue)[1]
                depth == Head(queue)[2]
                room == MaxEntries - counts.raw
    <2>1. NextFile /\ seen' = seen \cup {url}
      BY <1>9 DEF ParseOne
    <2>2. PICK doc \in Documents :
            \/ /\ DocumentError(doc, room) # "none" /\ phase' = DocumentError(doc, room) /\ queue' = Tail(queue)
               /\ UNCHANGED <<best, counts, offers, links, starved>>
            \/ /\ DocumentError(doc, room) = "none" /\ doc.root = "sitemapindex"
               /\ QueueChildren(url, depth, doc.entries)
               /\ counts' = [counts EXCEPT !.raw = @ + Len(doc.entries)]
            \/ /\ DocumentError(doc, room) = "none" /\ doc.root = "urlset" /\ AddCandidates(doc.entries)
               /\ queue' = Tail(queue)
      BY <1>9 DEF ParseOne
    <2>3. /\ phase = "parsing" /\ queue \in Seq(QueueRows) /\ queue # <<>>
          /\ url \in Locations \ seen /\ Tail(queue) \in Seq(QueueRows)
          /\ seen' \subseteq Locations /\ Cardinality(seen') <= MaxFiles
          /\ TreeInv(seen, queue, links) /\ CountsInv /\ starved = {}
          /\ OffersInv(best, offers) /\ \A o \in offers : o[2] \in Nat
      BY <1>6, <2>1
    <2>. DEFINE n == Len(doc.entries)
    <2>4. /\ counts \in CountRow /\ counts.raw \in Nat /\ MaxEntries \in Nat /\ counts.raw <= MaxEntries
          /\ room \in Int /\ KeptRow(best) /\ IsFiniteSet(seen) /\ seen \subseteq Locations
      BY SitemapAssumption, SeenFinite DEF SitemapInv, RowsInv, CountRow
    <2>5. /\ DocumentError(doc, room) \notin {"submitted", "parsing", "parsed"}
          /\ DocumentError(doc, room) = "none" =>
              /\ n \in Nat /\ n <= room
              /\ doc.root = "sitemapindex" => doc.entries \in Seq(Children)
              /\ doc.root = "urlset" => doc.entries \in Seq(Entries)
      <3>. HIDE DEF room
      <3>. QED  BY <2>4, DocumentRead
    <2>6. CASE /\ DocumentError(doc, room) # "none" /\ phase' = DocumentError(doc, room)
               /\ queue' = Tail(queue) /\ UNCHANGED <<best, counts, offers, links, starved>>
      <3>1. RowsInv'
        BY <1>7, <2>3, <2>6
      <3>. QED  BY <1>3, <2>5, <2>6, <3>1
    <2>. DEFINE base == [counts EXCEPT !.raw = @ + n]
    <2>7. ASSUME n \in Nat, n <= room
          PROVE  /\ base \in CountRow /\ base.raw = counts.raw + n /\ base.raw <= MaxEntries
                 /\ Refused(base) = Refused(counts)
      <3>1. base \in CountRow /\ base.raw = counts.raw + n /\ Refused(base) = Refused(counts)
        BY <2>4, <2>7 DEF CountRow, Refused
      <3>. HIDE DEF base, n
      <3>2. counts.raw + n <= MaxEntries
        BY <2>4, <2>7
      <3>. QED  BY <3>1, <3>2
    <2>8. /\ IsFiniteSet(links) /\ Cardinality(links) \in Nat
          /\ IsFiniteSet(DOMAIN best) /\ Cardinality(DOMAIN best) \in Nat
          /\ Refused(counts) \in Nat
          /\ counts.raw = Cardinality(links) + (Cardinality(DOMAIN best) + Refused(counts))
      <3>1. IsFiniteSet(DOMAIN best)
        BY <2>4, SitemapAssumption, FS_Subset DEF KeptRow
      <3>. QED  BY <2>3, <2>4, <3>1, FS_CardinalityType DEF CountsInv, CountRow, Refused
    <2>9. CASE /\ DocumentError(doc, room) = "none" /\ doc.root = "sitemapindex"
               /\ QueueChildren(url, depth, doc.entries) /\ counts' = base
      <3>. DEFINE entries == doc.entries
                  more == links \cup Cites(url, entries)
      <3>1. entries \in Seq(Children) /\ n \in Nat /\ n <= room
        BY <2>5, <2>9
      <3>2. links' = more /\ best' = best /\ offers' = offers
        BY <2>9 DEF QueueChildren, Cites
      <3>3. CASE entries # <<>> /\ depth >= MaxDepth
        <4>1. phase' = "depth_limit" /\ starved' = {url} /\ queue' = Tail(queue)
          BY <2>3, <2>9, <3>3 DEF QueueChildren
        <4>2. RowsInv'
          BY <2>3, <2>4, <2>7, <2>9, <3>1, <3>2, <4>1 DEF RowsInv
        <4>3. ASSUME MaxDepth # 0 PROVE url \notin Reached(MaxDepth - 1)'
          <5>1. depth = MaxDepth /\ MaxDepth \in Nat /\ MaxDepth - 1 \in Nat /\ MaxDepth - 1 < depth
            <6>1. Head(queue) \in QueueRows
              BY <2>3, TailRows
            <6>2. depth \in 0 .. MaxDepth
              BY <6>1 DEF QueueRows
            <6>. HIDE DEF depth
            <6>. QED  BY <3>3, <4>3, <6>2, SitemapAssumption
          <5>2. url \notin Within(links, MaxDepth - 1)
            BY <2>3, <5>1, NotNearer
          <5>3. links \subseteq more /\ \A l \in more \ links : l[1] = url
            BY DEF Cites
          <5>4. MaxDepth - 1 \in 0 .. (MaxDepth - 1) + 1
            BY <5>1
          <5>. HIDE DEF more, url
          <5>5. Within(more, MaxDepth - 1) = Within(links, MaxDepth - 1)
            BY <5>1, <5>2, <5>3, <5>4, WithinKept
          <5>6. Reached(MaxDepth - 1)' = Within(links', MaxDepth - 1)
            BY DEF Reached, Within, ReachFcn, ReachAt, Grown
          <5>. QED  BY <3>2, <5>2, <5>5, <5>6
        <4>4. DepthIsShortest'
          BY <4>1, <4>3 DEF DepthIsShortest
        <4>. QED  BY <4>1, <4>2, <4>4 DEF SitemapInv, Unrefused
      <3>4. CASE ~(entries # <<>> /\ depth >= MaxDepth)
        <4>1. /\ queue' = Tail(queue) \o Kids(entries, depth) /\ phase' = phase /\ starved' = {}
          BY <2>3, <2>9, <3>4 DEF QueueChildren, Queued, Kids
        <4>2. entries = <<>> \/ depth < MaxDepth
          <5>1. Head(queue) \in QueueRows
            BY <2>3, TailRows
          <5>2. depth \in 0 .. MaxDepth
            BY <5>1 DEF QueueRows
          <5>. HIDE DEF depth
          <5>. QED  BY <3>4, <5>2, SitemapAssumption
        <4>3. queue' \in Seq(QueueRows) /\ TreeInv(seen', queue', links')
          <5>. HIDE DEF entries
          <5>1. /\ Tail(queue) \o Kids(entries, depth) \in Seq(QueueRows)
                /\ TreeInv(seen \cup {url}, Tail(queue) \o Kids(entries, depth), links \cup Cites(url, entries))
            BY <2>3, <2>4, <3>1, <4>2, TreeIndex
          <5>. QED  BY <2>1, <3>2, <4>1, <5>1
        <4>4. RowsInv'
          BY <2>3, <2>4, <2>7, <2>9, <3>1, <3>2, <4>3 DEF RowsInv
        <4>5. CountsInv'
          <5>1. \A l \in links : l[1] # url
            BY <2>3 DEF TreeInv, Connected
          <5>2. IsFiniteSet(more) /\ Cardinality(more) = Cardinality(links) + n
            <6>. HIDE DEF url, entries
            <6>1. /\ IsFiniteSet(links \cup Cites(url, entries))
                  /\ Cardinality(links \cup Cites(url, entries)) = Cardinality(links) + Len(entries)
              BY <2>8, <3>1, <5>1, CitesCount
            <6>. QED  BY <6>1 DEF entries
          <5>3. base.raw = counts.raw + n /\ Refused(base) = Refused(counts)
            BY <2>7, <3>1
          <5>. HIDE DEF base, more, n
          <5>4. base.raw = Cardinality(more) + (Cardinality(DOMAIN best) + Refused(base))
            BY <2>8, <3>1, <5>2, <5>3
          <5>5. counts' = base /\ links' = more /\ best' = best
            BY <2>9, <3>2
          <5>. QED  BY <5>2, <5>4, <5>5 DEF CountsInv, Refused
        <4>. QED  BY <2>3, <3>2, <4>1, <4>3, <4>4, <4>5 DEF SitemapInv, Unrefused, DepthIsShortest
      <3>. QED  BY <3>3, <3>4
    <2>10. CASE /\ DocumentError(doc, room) = "none" /\ doc.root = "urlset" /\ AddCandidates(doc.entries)
                /\ queue' = Tail(queue)
      <3>. DEFINE entries == doc.entries
                  fold == EntriesFold(Unread(entries), entries)[DOMAIN entries]
                  total == Cardinality(DOMAIN best) + Refused(counts)
      <3>1. entries \in Seq(Entries) /\ n \in Nat /\ n <= room
        BY <2>5, <2>10
      <3>2. /\ counts' = fold.counts /\ best' = fold.best /\ UNCHANGED <<phase, links, starved>>
            /\ offers' = offers \cup Offered(entries, n)
        <4>1. DOMAIN entries = 1 .. n
          BY <3>1
        <4>2. {j \in DOMAIN entries : entries[j].loc \in Locations} = {j \in 1 .. n : entries[j].loc \in Locations}
          BY <4>1
        <4>. QED  BY <2>10, <4>2, EntriesFolded DEF AddCandidates, Offered
      <3>3. ReadInv(Unread(entries), counts.raw + n, offers, total)
        <4>1. Unread(entries).counts = base /\ Unread(entries).best = best
          BY DEF Unread
        <4>2. /\ base \in CountRow /\ base.raw = counts.raw + n /\ Refused(base) = Refused(counts)
          BY <2>7, <3>1
        <4>. QED  BY <2>3, <2>4, <4>1, <4>2 DEF ReadInv
      <3>4. total \in Nat
        BY <2>8
      <3>5. ReadInv(fold, counts.raw + n, offers', total + n)
        <4>. DEFINE raw == counts.raw + n
                    b == Unread(entries)
        <4>1. ReadInv(b, raw, offers, total)
          BY <3>3
        <4>. HIDE DEF total, entries, raw, b
        <4>2. ReadInv(EntriesFold(b, entries)[DOMAIN entries], raw, offers \cup Offered(entries, Len(entries)), total + Len(entries))
          BY <2>3, <3>1, <3>4, <4>1, CandidatesRead
        <4>. QED  BY <3>2, <4>2 DEF raw, b, entries
      <3>. HIDE DEF fold
      <3>6. /\ counts' \in CountRow /\ counts'.raw = counts.raw + n /\ KeptRow(best') /\ OffersInv(best', offers')
            /\ Cardinality(DOMAIN best') + Refused(counts') = total + n
        BY <3>2, <3>5 DEF ReadInv
      <3>7. counts'.raw <= MaxEntries
        BY <2>4, <3>1, <3>6
      <3>8. RowsInv'
        BY <2>3, <2>10, <3>6, <3>7 DEF RowsInv
      <3>9. TreeInv(seen', queue', links')
        <4>1. TreeInv(seen \cup {url}, Tail(queue), links)
          BY <2>3, <2>4, TreeLeaf
        <4>. QED  BY <2>1, <2>10, <3>2, <4>1
      <3>10. CountsInv'
        <4>. HIDE DEF n
        <4>1. counts'.raw = Cardinality(links) + (Cardinality(DOMAIN best') + Refused(counts'))
          BY <2>4, <2>8, <3>1, <3>4, <3>6
        <4>. QED  BY <2>8, <3>2, <4>1 DEF CountsInv, Refused
      <3>11. \A o \in offers' : o[2] \in Nat
        <4>1. \A i \in 1 .. n : entries[i] \in Entries
          BY <3>1
        <4>. HIDE DEF n, entries
        <4>2. \A o \in Offered(entries, n) : o[2] \in Nat
          BY <4>1, HintOK DEF Offered
        <4>. QED  BY <2>3, <3>2, <4>2
      <3>12. DepthIsShortest'
        BY <1>1, <3>2
      <3>. QED  BY <2>3, <3>2, <3>6, <3>8, <3>9, <3>10, <3>11, <3>12 DEF SitemapInv, Unrefused
    <2>. QED  BY <2>2, <2>6, <2>9, <2>10
  <1>10. CASE ParseReturns
    <2>1. phase = "parsing" /\ queue = <<>> /\ UNCHANGED <<queue, seen, best, counts, offers, links, starved>>
      BY <1>10 DEF ParseReturns
    <2>. QED  BY <1>1, <2>1 DEF SitemapInv, RowsInv, CountsInv, Unrefused
  <1>11. CASE UNCHANGED sitemapVars
    <2>. USE <1>11 DEF sitemapVars
    <2>. QED  BY <1>1 DEF SitemapInv, RowsInv, CountsInv, Unrefused
  <1>. QED  BY <1>4, <1>5, <1>8, <1>9, <1>10, <1>11 DEF SitemapNext

\* A parse that returns has read what the root leads to and nothing else.
LEMMA InvIsSound == SitemapInv => SitemapTypeOK /\ ParseIsSound
  <1>. SUFFICES ASSUME SitemapInv PROVE SitemapTypeOK /\ ParseIsSound
    OBVIOUS
  <1>1. SitemapTypeOK
    <2>1. \A i \in DOMAIN queue : queue[i] \in EntryUrls \X (0 .. MaxDepth)
      BY DEF SitemapInv, RowsInv, QueueRows
    <2>. QED  BY <2>1 DEF SitemapInv, RowsInv, KeptRow, SitemapTypeOK
  <1>2. ASSUME phase = "parsed" PROVE seen = Reached(MaxFiles)
    <2>1. /\ queue = <<>> /\ TreeInv(seen, queue, links) /\ Cardinality(seen) <= MaxFiles
          /\ IsFiniteSet(seen) /\ Cardinality(seen) \in Nat /\ MaxFiles \in Nat
      BY <1>2, SeenFinite, SitemapAssumption DEF SitemapInv, RowsInv, Unrefused
    <2>2. Pending(queue) = {} /\ \A k : Waiting(queue, k) = {}
      BY <2>1 DEF Pending, Waiting
    <2>3. Within(links, MaxFiles) \subseteq seen /\ RootUrl \in seen
      BY <2>1, <2>2 DEF TreeInv, Connected, NothingMissed
    <2>4. Cardinality(seen) - 1 \in 0 .. MaxFiles
      <3>1. Cardinality(seen) # 0
        BY <2>1, <2>3, FS_EmptySet
      <3>. QED  BY <2>1, <3>1
    <2>5. seen \subseteq Within(links, Cardinality(seen) - 1)
      BY <2>1, <2>3 DEF TreeInv, LedTo
    <2>6. Within(links, Cardinality(seen) - 1) \subseteq Within(links, MaxFiles)
      BY <2>1, <2>4, WithinGrows
    <2>. QED  BY <2>3, <2>5, <2>6, ReachedIsWithin
  <1>3. ParsedIsReachable
    BY <1>2 DEF ParsedIsReachable, SitemapInv, Unrefused, OffersInv
  <1>4. DiagnosticsAddUp
    <2>. SUFFICES ASSUME phase = "parsed"
                  PROVE  counts.raw = Cardinality(links) + Cardinality(DOMAIN best) + counts.duplicate
                                        + counts.invalid_url + counts.disallowed_host
      BY DEF DiagnosticsAddUp
    <2>1. CountsInv /\ counts \in CountRow /\ KeptRow(best)
      BY DEF SitemapInv, RowsInv, Unrefused
    <2>2. Cardinality(links) \in Nat /\ Cardinality(DOMAIN best) \in Nat
      BY <2>1, SitemapAssumption, FS_Subset, FS_CardinalityType DEF CountsInv, KeptRow
    <2>. QED  BY <2>1, <2>2 DEF CountsInv, CountRow, Refused
  <1>. QED  BY <1>1, <1>3, <1>4 DEF ParseIsSound, SitemapInv

\* Whatever the documents of a site refer to one another, in cycles or beyond the
\* limits, a parse has read what its root leads to within the depth and nothing
\* else, offers the latest date it has seen of each page, and its diagnostics
\* account for every entry.
THEOREM ParseIsSoundHolds == SitemapSpec => [](SitemapTypeOK /\ ParseIsSound)
  BY SitemapInitInv, SitemapNextInv, InvIsSound, PTL DEF SitemapSpec

===============================================================================
