------------------------------ MODULE SiteRatings -----------------------------
(***************************************************************************)
(* The columns of a Project row that several writers share: the forms of   *)
(* projects.py, which write every column of a row they read unlocked, and  *)
(* the Domain Rating tasks of domain_ratings.py and its backfill command,  *)
(* which ask a provider between reading the host and writing its rating.   *)
(***************************************************************************)
EXTENDS Integers, FiniteSets

CONSTANTS
    Projects,   \* rows of one owner
    SiteHosts,  \* normalized hosts
    Tasks,      \* processes that refresh ratings
    Batch,      \* limit of a sweep or a backfill
    NoValue

ASSUME RatingsAssumption ==
    /\ Batch \in Nat \ {0} /\ NoValue \notin SiteHosts \cup Projects
    /\ IsFiniteSet(Projects) /\ IsFiniteSet(SiteHosts)

VARIABLES
    row,       \* Project rows; a rating is the host it is of
    form,      \* the site form that holds the owner's lock
    task       \* what each refresh has read and has still to do

siteVars == <<row, form, task>>

NoRow == [exists |-> FALSE, host |-> NoValue, rating |-> NoValue, due |-> TRUE]
NoForm == [project |-> NoValue, read |-> NoRow, host |-> NoValue]
NoTask == [todo |-> {}, project |-> NoValue, host |-> NoValue]

SitesInit ==
    /\ row = [p \in Projects |-> NoRow] /\ form = NoForm
    /\ task = [t \in Tasks |-> NoTask]

-----------------------------------------------------------------------------
(* What the owner may post.                                                *)

PostedForms == {"canonical", "capitals", "trailing_dot", "default_port"}
RefusedForms == {"ftp", "credentials", "no_host", "too_long", "bad_port"}

\* normalize_sitemap_url: the host, or nothing.
NormalizedHostOf(posted) == IF posted.form \in RefusedForms THEN NoValue ELSE posted.host
Posted == [form : PostedForms \cup RefusedForms, host : SiteHosts]
Accepted == {NormalizedHostOf(u) : u \in Posted} \ {NoValue}

\* IntegrityError on the unique host: ProjectHostConflict.
Taken(p, h) == \E q \in Projects \ {p} : row[q].host = h

\* The owner's Profile row is locked by one form at a time.
OwnerFree == form.project = NoValue

CreateProject(p) ==
    /\ OwnerFree /\ ~row[p].exists
    /\ \E h \in Accepted :
        /\ ~Taken(p, h) /\ row' = [row EXCEPT ![p] = [NoRow EXCEPT !.exists = TRUE, !.host = h]]
    /\ UNCHANGED <<form, task>>

\* update reads the row without its lock ...
UpdateRead(p) ==
    /\ OwnerFree /\ row[p].exists
    /\ \E h \in Accepted : form' = [project |-> p, read |-> row[p], host |-> h]
    /\ UNCHANGED <<row, task>>

\* ... and writes all of it; another host has no rating.
Written(old, h) ==
    IF h = old.host THEN old ELSE [old EXCEPT !.host = h, !.rating = NoValue, !.due = TRUE]
UpdateSave ==
    /\ ~OwnerFree
    /\ LET p == form.project
       IN  IF Taken(p, form.host) THEN UNCHANGED row
           ELSE row' = [row EXCEPT ![p] = Written(form.read, form.host)]
    /\ form' = NoForm
    /\ UNCHANGED task

DeleteProject(p) ==
    /\ OwnerFree /\ row[p].exists
    /\ row' = [row EXCEPT ![p] = NoRow]
    /\ UNCHANGED <<form, task>>

-----------------------------------------------------------------------------
(* Domain Rating.                                                          *)

\* A queued refresh of a new host is for one project; the sweep takes those that
\* are due, the backfill those that were never rated, a batch of them at most.
Unrated(p) == row[p].exists /\ row[p].rating = NoValue
Starts(t, todo) == task[t] = NoTask /\ task' = [task EXCEPT ![t].todo = todo]
QueuedRefresh(t) == /\ \E p \in Projects : Starts(t, {p})
                    /\ UNCHANGED <<row, form>>
SweepDue(t) ==
    LET due == {p \in Projects : row[p].exists /\ row[p].due}
    IN  /\ \E todo \in SUBSET due \ {{}} :
            /\ Cardinality(todo) <= Batch /\ Starts(t, todo)
            /\ \A p \in todo, q \in due \ todo : Unrated(q) => Unrated(p)
        /\ UNCHANGED <<row, form>>
Backfill(t) ==
    /\ \E todo \in SUBSET {p \in Projects : Unrated(p)} \ {{}} :
        Cardinality(todo) <= Batch /\ Starts(t, todo)
    /\ UNCHANGED <<row, form>>

\* refresh_project_domain_rating reads the host, or finds the project missing.
RefreshRead(t) ==
    /\ task[t].project = NoValue
    /\ \E p \in task[t].todo :
        task' = [task EXCEPT ![t] = [todo |-> @.todo \ {p},
                                     project |-> IF row[p].exists THEN p ELSE NoValue,
                                     host |-> row[p].host]]
    /\ UNCHANGED <<row, form>>

\* _validate_status and _parse_rating: what the answer is.
Statuses == {200, 401, 404, 429, 503}
Ratings == {"in_range", "above_100", "not_a_number"}
Outcome(status, rating) ==
    CASE status = 200 -> IF rating = "in_range" THEN "rated" ELSE "provider_invalid_response"
      [] status = 401 -> "provider_authentication_failed"
      [] status = 429 -> "provider_rate_limited"
      [] status = 503 -> "provider_unavailable"
      [] OTHER        -> "provider_http_error"

\* Mutant: the rating is written to the project whatever its host is now.
StoresMutant(t) == row[task[t].project].exists

\* The UPDATE is conditional on the host that was asked for.
Stores(t) == row[task[t].project].exists /\ row[task[t].project].host = task[t].host

RefreshStore(t) ==
    /\ task[t].project # NoValue
    /\ \E status \in Statuses, rating \in Ratings :
        row' = IF Outcome(status, rating) = "rated" /\ Stores(t)
               THEN [row EXCEPT ![task[t].project].rating = task[t].host,
                                ![task[t].project].due = FALSE]
               ELSE row
    /\ task' = [task EXCEPT ![t].project = NoValue, ![t].host = NoValue]
    /\ UNCHANGED form

\* Thirty days after a rating was written it is due again.
RatingDue(p) ==
    /\ row[p].exists /\ ~row[p].due /\ row' = [row EXCEPT ![p].due = TRUE]
    /\ UNCHANGED <<form, task>>

SitesNext ==
    \/ \E p \in Projects : \/ CreateProject(p) \/ UpdateRead(p) \/ DeleteProject(p)
                           \/ RatingDue(p)
    \/ UpdateSave
    \/ \E t \in Tasks : \/ QueuedRefresh(t) \/ SweepDue(t) \/ Backfill(t)
                         \/ RefreshRead(t) \/ RefreshStore(t)

SitesSpec == SitesInit /\ [][SitesNext]_siteVars

-----------------------------------------------------------------------------
(* Properties.                                                             *)

\* The types of the rows.
SitesTypeOK ==
    /\ \A p \in Projects : /\ row[p].host \in SiteHosts \cup {NoValue}
                           /\ row[p].rating \in SiteHosts \cup {NoValue}
                           /\ row[p].rating = NoValue => row[p].due
                           /\ row[p].exists <=> row[p].host # NoValue
    /\ \A p, q \in Projects : row[p].exists /\ row[p].host = row[q].host => p = q

\* A site's rating is the rating of its host, though the site may move to
\* another host while the provider is asked, and a form may write back the row
\* it had read before.
RatingOfItsHost == \A p \in Projects : row[p].rating \in {NoValue, row[p].host}

=============================================================================
