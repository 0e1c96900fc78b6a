----------------------------- MODULE SiteCleanup ------------------------------
(***************************************************************************)
(* What a deleted site leaves in Qdrant: ProjectService.delete and         *)
(* delete_account, the queued delete_project_points, the sweep of          *)
(* search/cleanup.py, and articles that are being published meanwhile.     *)
(***************************************************************************)
EXTENDS FiniteSets

CONSTANTS
    Deleted,    \* sites of one member
    Cleaners,   \* workers that delete points
    NoSite

ASSUME CleanupAssumption == NoSite \notin Deleted /\ IsFiniteSet(Deleted)

VARIABLES
    there,      \* sites that exist
    points,     \* sites that have points in the collection
    intent,     \* ProjectDeletionCleanup rows: their sites
    due,        \* rows whose next_attempt_at has come
    sent,       \* delete_project_points messages
    cleaner,    \* what each worker is doing
    upserting,  \* the site whose article is being upserted
    late        \* history: sites a point was upserted for after their deletion

cleanupVars == <<there, points, intent, due, sent, cleaner, upserting, late>>

CleanupInit ==
    /\ there = Deleted /\ points = {} /\ intent = {} /\ due = {} /\ sent = {}
    /\ cleaner = [c \in Cleaners |-> [at |-> "idle", site |-> NoSite]]
    /\ upserting = NoSite /\ late = {}

-----------------------------------------------------------------------------
(* Publication: the article is read, its point is written, and only then   *)
(* _mark_active finds that the article is gone.                            *)

ReadArticle(s) ==
    /\ upserting = NoSite /\ s \in there /\ upserting' = s
    /\ UNCHANGED <<there, points, intent, due, sent, cleaner, late>>

UpsertPoint ==
    /\ upserting # NoSite /\ upserting' = NoSite
    /\ points' = points \cup {upserting}
    /\ late' = IF upserting \in there THEN late ELSE late \cup {upserting}
    /\ UNCHANGED <<there, intent, due, sent, cleaner>>

-----------------------------------------------------------------------------
(* Deletion.                                                               *)

\* queue_project_deletion: nothing is sent if indexing is off or the broker fails.
Enqueued(s) == {sent, sent \cup {s}}

\* The row and the deletion are one transaction; the message follows it.
DeleteSiteRow(s) ==
    /\ s \in there
    /\ there' = there \ {s} /\ intent' = intent \cup {s} /\ due' = due \cup {s}
    /\ sent' \in Enqueued(s)
    /\ UNCHANGED <<points, cleaner, upserting, late>>

\* The cascade from the user passes ProjectService by: no row and no message.
DeleteMember ==
    /\ there # {} /\ there' = {}
    /\ UNCHANGED <<points, intent, due, sent, cleaner, upserting, late>>

-----------------------------------------------------------------------------
(* Workers.                                                                *)

Works(c, s) == cleaner' = [cleaner EXCEPT ![c] = [at |-> "delete", site |-> s]]

\* A worker takes the message; Django-Q may deliver it again.
TakeMessage(c) ==
    /\ cleaner[c].at = "idle"
    /\ \E s \in sent : /\ Works(c, s)
                       /\ \E again \in BOOLEAN : sent' = IF again THEN sent ELSE sent \ {s}
    /\ UNCHANGED <<there, points, intent, due, upserting, late>>

\* recover_project_deletions advances next_attempt_at before it deletes.
Sweep(c) ==
    /\ cleaner[c].at = "idle"
    /\ \E s \in intent \cap due : Works(c, s) /\ due' = due \ {s}
    /\ UNCHANGED <<there, points, intent, sent, upserting, late>>

FiveMinutes ==
    /\ due' = intent /\ due # intent
    /\ UNCHANGED <<there, points, intent, sent, cleaner, upserting, late>>

\* Mutant: the row is deleted whatever became of the points.
DeletePointsMutant(c) ==
    /\ cleaner[c].at = "delete"
    /\ cleaner' = [cleaner EXCEPT ![c].at = "row"]
    /\ \E fails \in BOOLEAN :
        points' = IF fails THEN points ELSE points \ {cleaner[c].site}
    /\ UNCHANGED <<there, intent, due, sent, upserting, late>>

\* delete_project_points: the points, then the row.
DeletePoints(c) ==
    /\ cleaner[c].at = "delete"
    /\ cleaner' = [cleaner EXCEPT ![c].at = "row"]
    /\ points' = points \ {cleaner[c].site}
    /\ UNCHANGED <<there, intent, due, sent, upserting, late>>

DeleteRow(c) ==
    /\ cleaner[c].at = "row"
    /\ intent' = intent \ {cleaner[c].site} /\ due' = due \ {cleaner[c].site}
    /\ cleaner' = [cleaner EXCEPT ![c] = [at |-> "idle", site |-> NoSite]]
    /\ UNCHANGED <<there, points, sent, upserting, late>>

\* Qdrant or the database fails, or the worker dies.
CleanerFails(c) ==
    /\ cleaner[c].at # "idle"
    /\ cleaner' = [cleaner EXCEPT ![c] = [at |-> "idle", site |-> NoSite]]
    /\ UNCHANGED <<there, points, intent, due, sent, upserting, late>>

CleanupNext ==
    \/ \E s \in Deleted : ReadArticle(s) \/ DeleteSiteRow(s)
    \/ UpsertPoint \/ DeleteMember \/ FiveMinutes
    \/ \E c \in Cleaners : \/ TakeMessage(c) \/ Sweep(c) \/ DeletePoints(c)
                           \/ DeleteRow(c) \/ CleanerFails(c)

CleanupSpec == CleanupInit /\ [][CleanupNext]_cleanupVars

-----------------------------------------------------------------------------
(* Properties.                                                             *)

\* The types of the tables.
CleanupTypeOK ==
    /\ intent \subseteq Deleted /\ due \subseteq intent /\ points \subseteq Deleted
    /\ intent \cap there = {} /\ sent \cap there = {}

\* The row of a deleted site stays until its points are gone, whatever fails,
\* dies, overlaps or is delivered twice.  Points that were written after the
\* deletion are not covered: nothing looks for them once the row is gone.
RowOutlivesPoints ==
    [][\A s \in intent \ intent' : s \in points => s \in late]_cleanupVars
=============================================================================
