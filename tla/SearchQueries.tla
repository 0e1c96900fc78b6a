------------------------------ MODULE SearchQueries ----------------------------
(***************************************************************************)
(* One search of search/service.py while the corpus changes: the scope is  *)
(* read from the database, the query embedded by a provider, the points    *)
(* chosen by the vector index from the payload they were written with, and *)
(* every candidate judged again in the database.  Texts and vectors are    *)
(* left out: a higher article number is a better match.                    *)
(***************************************************************************)
EXTENDS Integers, FiniteSets, FiniteSetsExt

CONSTANTS
    Sources,     \* active or suspended sites
    Articles,    \* numbers: the order of their scores for the query
    SourceOf,    \* the site of each article
    Domains,     \* normalized hosts
    Tongues,     \* languages of articles
    Oversample,  \* candidates asked for each result wanted: limit * 3
    MaxChanges   \* bound: changes of the corpus in a behaviour

ASSUME QueryAssumption ==
    /\ Articles \subseteq Nat /\ IsFiniteSet(Articles) /\ SourceOf \in [Articles -> Sources]
    /\ {Oversample, MaxChanges} \subseteq Nat /\ Oversample > 0

VARIABLES
    site,     \* Project: host and whether it is active
    article,  \* Article: is_active, its language, and whether its embedding is current
    point,    \* the payload of its point in the index, while it has one
    query,    \* the search under way
    changes,  \* how often the corpus has changed
    steady    \* history: articles that could be found ever since the search began

queryVars == <<site, article, point, query, changes, steady>>

NoQuery == [at |-> "idle", limit |-> 1, language |-> "any", excluded |-> {}, scope |-> {},
            hits |-> {}, full |-> FALSE, result |-> {}]
NoPoint == [host |-> "none", lang |-> "none"]
Hosted == {h \in [Sources -> Domains] : \A s, t \in Sources : h[s] = h[t] => s = t}
QueryInit ==
    /\ \E h \in Hosted, l \in [Articles -> Tongues] :
        /\ site = [s \in Sources |-> [host |-> h[s], active |-> TRUE]]
        /\ article = [a \in Articles |-> [live |-> TRUE, lang |-> l[a], embedded |-> TRUE]]
        /\ point = [a \in Articles |-> [host |-> h[SourceOf[a]], lang |-> l[a]]]
    /\ query = NoQuery /\ changes = 0 /\ steady = {}

-----------------------------------------------------------------------------
(* What the database and the index hold.                                   *)

\* The conditions of _authorized_search_hits on a row.
Servable(a) == article[a].live /\ article[a].embedded /\ site[SourceOf[a]].active

\* Qdrant's filter, on the payload.
Matches(a) ==
    /\ point[a] # NoPoint /\ SourceOf[a] \in query.scope
    /\ query.language \in {"any", point[a].lang} /\ point[a].host \notin query.excluded

-----------------------------------------------------------------------------
(* The corpus changes.                                                     *)

Changed == /\ changes < MaxChanges /\ changes' = changes + 1
           /\ UNCHANGED query
           /\ steady' = {a \in steady : Servable(a)' /\ Matches(a)'}

\* Another text, or another language: the article is a draft until it is indexed.
Rewrite(a) ==
    /\ \E l \in Tongues : article' = [article EXCEPT ![a] = [live |-> FALSE, lang |-> l, embedded |-> FALSE]]
    /\ UNCHANGED <<site, point>> /\ Changed

\* The embedding succeeds; upsert_article writes the point, then _mark_active.
Reembed(a) ==
    /\ ~article[a].embedded /\ article' = [article EXCEPT ![a].embedded = TRUE]
    /\ UNCHANGED <<site, point>> /\ Changed
PutPoint(a) ==
    /\ article[a].embedded /\ site[SourceOf[a]].active
    /\ point' = [point EXCEPT ![a] = [host |-> site[SourceOf[a]].host, lang |-> article[a].lang]]
    /\ UNCHANGED <<site, article>> /\ Changed
ShowArticle(a) ==
    /\ article[a].embedded /\ site[SourceOf[a]].active /\ ~article[a].live
    /\ article' = [article EXCEPT ![a].live = TRUE]
    /\ UNCHANGED <<site, point>> /\ Changed

\* deactivate_article deletes the point first.
DropPoint(a) ==
    /\ point' = [point EXCEPT ![a] = NoPoint] /\ UNCHANGED <<site, article>> /\ Changed
HideArticle(a) ==
    /\ article[a].live /\ point[a] = NoPoint /\ article' = [article EXCEPT ![a].live = FALSE]
    /\ UNCHANGED <<site, point>> /\ Changed

\* A suspension; and a site that moves, which no point is told.
Suspend(s) ==
    /\ site' = [site EXCEPT ![s].active = ~@] /\ UNCHANGED <<article, point>> /\ Changed
RenameSite(s) ==
    /\ \E h \in Domains \ {site[t].host : t \in Sources} : site' = [site EXCEPT ![s].host = h]
    /\ UNCHANGED <<article, point>> /\ Changed

-----------------------------------------------------------------------------
(* The search.                                                             *)

\* The inputs that _normalize_query, the limit, _normalize_language and
\* _normalize_excluded_domains refuse.
Refusals == {"invalid_query", "query_required", "query_too_long", "invalid_limit",
             "invalid_language", "invalid_excluded_domain", "too_many_excluded_domains",
             "account_inactive"}

Searching == UNCHANGED <<site, article, point, changes>>
Ends(code) == query' = [NoQuery EXCEPT !.at = code]

\* The account and the eligible projects are read; without any, the answer is empty.
StartSearch ==
    /\ query.at = "idle" /\ Searching
    /\ \/ \E code \in Refusals : Ends(code) /\ steady' = {}
       \/ \E lang \in Tongues \cup {"any"}, excluded \in kSubset(1, Domains) \cup {{}} :
            LET scope == {s \in Sources : site[s].active}
            IN  /\ query' = [NoQuery EXCEPT !.at = IF scope = {} THEN "answered" ELSE "embed",
                                            !.language = lang, !.excluded = excluded, !.scope = scope]
                /\ steady' = {a \in Articles : Servable(a) /\ Matches(a)'}

\* The provider fails, or its vector has another length or a value that is none.
EmbedQuery ==
    /\ query.at = "embed"
    /\ \/ \E code \in {"query_embedding_unavailable", "query_embedding_invalid"} : Ends(code)
       \/ query' = [query EXCEPT !.at = "points"]
    /\ UNCHANGED steady /\ Searching

\* min(limit * 3, 150)
Asked(limit) == limit * Oversample

\* Mutant: one more is taken before the loop looks at the limit.
BestMutant(set, n) == {a \in set : Cardinality({b \in set : b > a}) <= n}

\* The first n by descending score.
Best(set, n) == {a \in set : Cardinality({b \in set : b > a}) < n}

\* semantic_search up to the index: the collection is validated, its best points
\* are taken, and a point whose payload or score is unusable is passed over.
QueryPoints ==
    /\ query.at = "points"
    /\ \/ \E code \in {"search_index_invalid", "search_index_unavailable"} : Ends(code)
       \/ LET found == Best({a \in Articles : Matches(a)}, Asked(query.limit))
          IN  query' = [query EXCEPT !.at = "judge", !.hits = found,
                                     !.full = Cardinality(found) = Asked(query.limit)]
    /\ UNCHANGED steady /\ Searching

\* Mutant: the best candidates are taken first and judged then.
JudgeMutant ==
    /\ query.at = "judge"
    /\ query' = [query EXCEPT !.at = "answered",
                              !.result = {a \in Best(query.hits, query.limit) : Servable(a)}]
    /\ UNCHANGED steady /\ Searching

\* _authorized_search_hits, in one statement.
Judge ==
    /\ query.at = "judge"
    /\ query' = [query EXCEPT !.at = "answered",
                              !.result = Best({a \in query.hits : Servable(a)}, query.limit)]
    /\ UNCHANGED steady /\ Searching

\* The caller has the answer or the error.
EndSearch ==
    /\ query.at \notin {"idle", "embed", "points", "judge"}
    /\ query' = NoQuery /\ steady' = {} /\ Searching

QueryNext ==
    \/ \E a \in Articles : \/ Rewrite(a) \/ Reembed(a) \/ PutPoint(a) \/ ShowArticle(a)
                           \/ DropPoint(a) \/ HideArticle(a)
    \/ \E s \in Sources : Suspend(s) \/ RenameSite(s)
    \/ StartSearch \/ EmbedQuery \/ QueryPoints \/ Judge \/ EndSearch

QuerySpec == QueryInit /\ [][QueryNext]_queryVars

-----------------------------------------------------------------------------
(* The excerpt of a result, by the length of its text, the place of the     *)
(* first query term and the places of its blanks.                           *)

Excerpt(length, pivot, blanks, most) ==
    IF length <= most THEN [first |-> 0, end |-> length]
    ELSE LET start == Max({0, pivot - most \div 3})
             end == Min({length, start + most})
             first == IF end - start < most THEN Max({0, end - most}) ELSE start
             after == {b \in blanks : first <= b /\ b < end}
             opened == IF first > 0 /\ after # {} THEN Min(after) + 1 ELSE first
             before == {b \in blanks : opened < b /\ b < end}
         IN  [first |-> opened, end |-> IF end < length /\ before # {} THEN Max(before) ELSE end]

-----------------------------------------------------------------------------
(* Properties.                                                             *)

\* The types; an answer has as many results as asked for at most, and an excerpt
\* stays within its text and its length.
ExcerptFits ==
    \A length \in 1 .. 7, blanks \in SUBSET {2, 4} : \A pivot \in 0 .. length - 1 :
        LET e == Excerpt(length, pivot, blanks, 4)
        IN  0 <= e.first /\ e.first <= e.end /\ e.end <= length /\ e.end - e.first <= 4
QueryTypeOK ==
    /\ Cardinality(query.result) <= query.limit /\ query.result \subseteq query.hits
    /\ \A a \in Articles : point[a] = NoPoint \/ point[a].host \in Domains
    /\ query.at = "idle" => ExcerptFits

\* An article that could be found throughout a search is found, unless as many
\* better ones are, or better candidates used up the oversampling.
SteadyIsFound ==
    query.at = "answered" =>
        \A a \in steady \ query.result :
            \/ Cardinality({b \in query.result : b > a}) = query.limit
            \/ query.full /\ \A b \in query.hits : b > a

\* A search does not return an article of a domain it was told to leave out.
ExcludedStayOut ==
    [][query.at = "judge" /\ query'.at = "answered" =>
        \A a \in query'.result : site[SourceOf[a]].host \notin query.excluded]_queryVars

=============================================================================
