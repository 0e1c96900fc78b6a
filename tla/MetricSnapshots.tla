---------------------------- MODULE MetricSnapshots ---------------------------
(***************************************************************************)
(* The daily observations of core/metric_history.py: hourly sweeps, which  *)
(* overlap or die, write one snapshot per site and day while the counts    *)
(* they observe go on changing, and a chart reads them.                    *)
(***************************************************************************)
EXTENDS Integers, FiniteSets, FiniteSetsExt

CONSTANTS
    Watched,  \* sites
    Sweeps,   \* workers that run capture_daily_metrics
    MaxDay,   \* bound: days in a behaviour
    MaxCount  \* bound: links counted

ASSUME SnapshotAssumption == MaxDay \in Nat \ {0} /\ MaxCount \in Nat

VARIABLES
    today,     \* the UTC day
    linkCounts,     \* the links of each site, as they stand
    snapshot,  \* ProjectMetricSnapshot rows, by site and day
    sweep      \* the sweeps

snapshotVars == <<today, linkCounts, snapshot, sweep>>

NoSweep == [at |-> "idle", day |-> 0, pending |-> {}, counts |-> [p \in Watched |-> 0]]
SnapshotInit ==
    /\ today = 1 /\ linkCounts = [p \in Watched |-> 0] /\ snapshot = {}
    /\ sweep = [s \in Sweeps |-> NoSweep]

Rows(p, d) == {r \in snapshot : r.site = p /\ r.day = d}

Midnight == today < MaxDay /\ today' = today + 1 /\ UNCHANGED <<linkCounts, snapshot, sweep>>
LinksChange ==
    /\ \E p \in Watched, n \in 0 .. MaxCount : linkCounts' = [linkCounts EXCEPT ![p] = n]
    /\ UNCHANGED <<today, snapshot, sweep>>

\* The day is fixed, and the sites without a row of that day are read.
StartSweep(s) ==
    /\ sweep[s].at = "idle"
    /\ sweep' = [sweep EXCEPT ![s] = [NoSweep EXCEPT !.at = "count", !.day = today,
                                                     !.pending = {p \in Watched : Rows(p, today) = {}}]]
    /\ UNCHANGED <<today, linkCounts, snapshot>>

\* DashboardService.link_counts, once for a batch of sites.
CountLinks(s) ==
    /\ sweep[s].at = "count"
    /\ sweep' = [sweep EXCEPT ![s].at = "write", ![s].counts = linkCounts]
    /\ UNCHANGED <<today, linkCounts, snapshot>>

\* Mutant: update_or_create.
WriteSnapshotMutant(s, p) ==
    /\ sweep[s].at = "write" /\ p \in sweep[s].pending
    /\ snapshot' = (snapshot \ Rows(p, sweep[s].day))
            \cup {[site |-> p, day |-> sweep[s].day, links |-> sweep[s].counts[p]]}
    /\ sweep' = [sweep EXCEPT ![s].pending = @ \ {p}] /\ UNCHANGED <<today, linkCounts>>

\* get_or_create on the unique site and day: a row that is there stays.
WriteSnapshot(s, p) ==
    /\ sweep[s].at = "write" /\ p \in sweep[s].pending
    /\ snapshot' = IF Rows(p, sweep[s].day) # {} THEN snapshot
                   ELSE snapshot \cup {[site |-> p, day |-> sweep[s].day, links |-> sweep[s].counts[p]]}
    /\ sweep' = [sweep EXCEPT ![s].pending = @ \ {p}] /\ UNCHANGED <<today, linkCounts>>

\* The sweep has written all, or its worker dies; a site deleted meanwhile ends it
\* with an error.
EndSweep(s) ==
    /\ sweep[s].at # "idle" /\ sweep' = [sweep EXCEPT ![s] = NoSweep]
    /\ UNCHANGED <<today, linkCounts, snapshot>>

SnapshotNext ==
    \/ Midnight \/ LinksChange
    \/ \E s \in Sweeps : \/ StartSweep(s) \/ CountLinks(s) \/ EndSweep(s)
                         \/ \E p \in Watched : WriteSnapshot(s, p)

SnapshotSpec == SnapshotInit /\ [][SnapshotNext]_snapshotVars

-----------------------------------------------------------------------------
(* The chart of the last `span` days: its points, and the pairs of days     *)
(* that it joins by a line.                                                 *)

ChartPoints(p, span) == {r.day : r \in {x \in snapshot : x.site = p /\ x.day > today - span}}
ChartLines(p, span) ==
    {line \in ChartPoints(p, span) \X ChartPoints(p, span) : line[2] = line[1] + 1}

-----------------------------------------------------------------------------
(* Properties.                                                             *)

SnapshotTypeOK ==
    /\ snapshot \subseteq [site : Watched, day : 1 .. MaxDay, links : 0 .. MaxCount]
    /\ \A p \in Watched : ChartLines(p, 3) \subseteq {<<today - 2, today - 1>>, <<today - 1, today>>}

\* A site has one row a day, of the sweep that wrote first: however sweeps overlap,
\* are repeated or run into the next day, none of them revises what was observed.
SnapshotsStay ==
    [][\A p \in Watched, d \in 1 .. MaxDay : Rows(p, d) # {} => Rows(p, d)' = Rows(p, d)]_snapshotVars

=============================================================================
