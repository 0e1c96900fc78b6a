----------------------------- MODULE NetworkGraph -----------------------------
(***************************************************************************)
(* The graph of links detected between member sites: network_graph.py and  *)
(* the transactions that call it (ingestion, publication, removal and the  *)
(* operations on sites).  Under READ COMMITTED an ingestion is not atomic: *)
(* what it inserts is invisible to others until it commits, so it is two   *)
(* steps.  Every other transaction reconciles rows that exist, waits for   *)
(* their locks, and reads again when it has them; it is one step.          *)
(***************************************************************************)
EXTENDS FiniteSets

CONSTANTS
    Sites,      \* projects
    Pages,      \* articles
    SiteOf,     \* the project of an article
    Hosts,      \* normalized hosts
    Urls,       \* normalized destinations
    HostOf,     \* the host of a destination
    Links,      \* destinations a page may show, as <<page, url>>
    Nil        \* no site, no page, no transaction

ASSUME GraphAssumption ==
    /\ IsFiniteSet(Pages) /\ IsFiniteSet(Urls)
    /\ SiteOf \in [Pages -> Sites] /\ HostOf \in [Urls -> Hosts]
    /\ Links \subseteq Pages \X Urls /\ Nil \notin Sites \cup Pages \cup Hosts

VARIABLES
    net,        \* the committed rows
    ingesting,  \* the ingestion that is open
    overlapped, \* history: links of an ingestion that another transaction missed
    givenUp     \* history: links to a URL that one of two pages gave up

graphVars == <<net, ingesting, overlapped, givenUp>>

-----------------------------------------------------------------------------
(* Rows: Project.state and normalized_host, Article.is_active, the URLs of *)
(* an article (its canonical URL and ArticleSourceURL rows),               *)
(* OutboundLinkObservation.is_active and DetectedNetworkLink.              *)

NoEdge == [site |-> Nil, page |-> Nil, active |-> FALSE]
Closed == [page |-> Nil, rows |-> Nil, inserted |-> {}, locked |-> {}]

GraphInit ==
    /\ net = [state |-> [s \in Sites |-> "absent"], host |-> [s \in Sites |-> Nil],
              active |-> [p \in Pages |-> FALSE], urls |-> [p \in Pages |-> {}],
              seen |-> [l \in Links |-> "absent"], edge |-> [l \in Links |-> NoEdge]]
    /\ ingesting = Closed /\ overlapped = {} /\ givenUp = {}

Linked(n) == {l \in Links : n.seen[l] # "absent"}
Source(l) == SiteOf[l[1]]

\* resolve_destination: the site at the URL's host, and the only page of it that
\* has the URL.
Resolve(n, u) ==
    LET site == {s \in Sites : n.state[s] # "absent" /\ n.host[s] = HostOf[u]}
        pages(s) == {p \in Pages : SiteOf[p] = s /\ u \in n.urls[p]}
    IN  IF site = {} THEN NoEdge
        ELSE LET s == CHOOSE s \in site : TRUE
             IN  [NoEdge EXCEPT !.site = s,
                                !.page = IF Cardinality(pages(s)) = 1
                                         THEN CHOOSE p \in pages(s) : TRUE ELSE Nil]

\* _is_active.
IsActive(n, l, site, page) ==
    /\ n.seen[l] = "active" /\ n.active[l[1]]
    /\ n.state[Source(l)] = "active" /\ n.state[site] = "active"
    /\ page # Nil => n.active[page]

\* reconcile_observation: an unresolved link, or one into its own site, has no
\* edge or keeps an inactive one.
Edge(n, l) ==
    LET found == Resolve(n, l[2])
        old == n.edge[l]
    IN  IF found.site = Nil
        THEN IF old = NoEdge THEN old ELSE [old EXCEPT !.page = Nil, !.active = FALSE]
        ELSE IF found.site = Source(l)
        THEN IF old = NoEdge THEN old ELSE [old EXCEPT !.page = found.page, !.active = FALSE]
        ELSE [found EXCEPT !.active = IsActive(n, l, found.site, found.page)]

Reconciled(n, links) ==
    [n EXCEPT !.edge = [l \in Links |-> IF l \in links THEN Edge(n, l) ELSE n.edge[l]]]

\* reconcile_article.
OfPage(n, p) == {l \in Linked(n) : l[1] = p \/ l[2] \in n.urls[p] \/ n.edge[l].page = p}

\* Mutant: links to the site's host that have no edge yet are left alone.
OfSiteMutant(n, s) == {l \in Linked(n) : Source(l) = s \/ n.edge[l].site = s}

\* reconcile_project.
OfSite(n, s) == {l \in Linked(n) : \/ Source(l) = s \/ n.edge[l].site = s
                                   \/ HostOf[l[2]] = n.host[s]}

-----------------------------------------------------------------------------
(* Locks.  An open ingestion holds its project, article and observations.  *)

Open == ingesting.page # Nil
SiteFree(s) == Open => SiteOf[ingesting.page] # s
PageFree(p) == SiteFree(SiteOf[p])

\* A transaction that reconciles `links` and leaves the rows n.
Commit(n, links) ==
    /\ links \cap ingesting.locked = {}
    /\ net' = Reconciled(n, links)
    /\ overlapped' = (overlapped \ links) \cup ingesting.inserted
                       \cup {l \in links : Open /\ net'.edge[l].page = ingesting.page}
    /\ givenUp' = givenUp \ links
    /\ UNCHANGED ingesting

-----------------------------------------------------------------------------
(* Ingestion.                                                              *)

\* _reconcile_links: what the page shows is observed, what it no longer shows is
\* inactive.
Observed(n, p, shown) ==
    [n EXCEPT !.seen = [l \in Links |->
        IF l[1] # p THEN n.seen[l]
        ELSE IF l \in shown THEN "active"
        ELSE IF n.seen[l] = "active" THEN "inactive" ELSE n.seen[l]]]

\* ingest up to its commit, on the rows it reads: a page that is not READY shows
\* nothing new and is inactive; a changed one is inactive until it is published.
Ingested(n, p, ready, keeps, urls, shown) ==
    LET found == [n EXCEPT !.urls[p] = urls, !.active[p] = (@ /\ ready /\ keeps)]
    IN  IF ready THEN Observed(found, p, shown) ELSE found

IngestOpen(p) ==
    /\ ~Open /\ net.state[SiteOf[p]] # "absent"
    /\ \E ready \in BOOLEAN, keeps \in BOOLEAN, urls \in SUBSET Urls,
          shown \in SUBSET {l \in Links : l[1] = p} :
        /\ \A u \in urls : HostOf[u] = net.host[SiteOf[p]]
        /\ LET rows == Ingested(net, p, ready, keeps, urls, shown)
           IN  ingesting' = [page |-> p, rows |-> Reconciled(rows, OfPage(rows, p)),
                             inserted |-> Linked(rows) \ Linked(net),
                             locked |-> OfPage(rows, p) \cap Linked(net)]
    /\ UNCHANGED <<net, overlapped, givenUp>>

\* The rows it wrote become visible; other rows may have changed since.
IngestCommit ==
    /\ Open
    /\ LET p == ingesting.page
           written == ingesting.inserted \cup ingesting.locked
           merged(old, new) == [l \in Links |-> IF l \in written THEN new[l] ELSE old[l]]
       IN  /\ net' = [net EXCEPT !.urls[p] = ingesting.rows.urls[p],
                                 !.active[p] = ingesting.rows.active[p],
                                 !.seen = merged(@, ingesting.rows.seen),
                                 !.edge = merged(@, ingesting.rows.edge)]
           /\ givenUp' = (givenUp \cup {l \in Linked(net) : l[2] \in net.urls[p] \ ingesting.rows.urls[p]})
                           \ written
    /\ ingesting' = Closed /\ UNCHANGED overlapped

IngestAbort ==
    /\ Open /\ ingesting' = Closed
    /\ overlapped' = overlapped \ ingesting.inserted /\ UNCHANGED <<net, givenUp>>

-----------------------------------------------------------------------------
(* The other transactions that reconcile.                                  *)

\* _mark_active; deactivate_article, reconcile_sitemap, reconcile_terminal_fetch.
Publish(p) ==
    /\ PageFree(p) /\ net.state[SiteOf[p]] = "active" /\ net.urls[p] # {}
    /\ LET n == [net EXCEPT !.active[p] = TRUE] IN Commit(n, OfPage(n, p))
Unpublish(p) ==
    /\ PageFree(p) /\ net.active[p]
    /\ LET n == [net EXCEPT !.active[p] = FALSE] IN Commit(n, OfPage(n, p))

\* ProjectService.create, update with another host, suspend and reactivate.
Unclaimed(h) == \A s \in Sites : net.host[s] # h
CreateSite(s, h) ==
    /\ net.state[s] = "absent" /\ Unclaimed(h)
    /\ LET n == [net EXCEPT !.state[s] = "active", !.host[s] = h] IN Commit(n, OfSite(n, s))
MoveSite(s, h) ==
    /\ SiteFree(s) /\ net.state[s] # "absent" /\ Unclaimed(h)
    /\ LET n == [net EXCEPT !.host[s] = h] IN Commit(n, OfSite(n, s))
Transition(s) ==
    /\ SiteFree(s) /\ net.state[s] # "absent"
    /\ LET n == [net EXCEPT !.state[s] = IF @ = "active" THEN "suspended" ELSE "active"]
       IN  Commit(n, OfSite(n, s))

\* ProjectService.delete, or the account's deletion: foreign keys cascade to the
\* site's articles, their observations and every edge of either end.
DeleteSite(s) ==
    /\ SiteFree(s) /\ net.state[s] # "absent"
    /\ \A l \in ingesting.locked \cup ingesting.inserted :
        s \notin {Source(l), net.edge[l].site, ingesting.rows.edge[l].site}
    /\ LET gone(l) == Source(l) = s \/ net.edge[l].site = s
       IN  net' = [state |-> [net.state EXCEPT ![s] = "absent"],
                   host |-> [net.host EXCEPT ![s] = Nil],
                   active |-> [p \in Pages |-> net.active[p] /\ SiteOf[p] # s],
                   urls |-> [p \in Pages |-> IF SiteOf[p] = s THEN {} ELSE net.urls[p]],
                   seen |-> [l \in Links |-> IF Source(l) = s THEN "absent" ELSE net.seen[l]],
                   edge |-> [l \in Links |-> IF gone(l) THEN NoEdge ELSE net.edge[l]]]
    /\ overlapped' = {l \in overlapped \cup ingesting.inserted : Source(l) # s}
    /\ givenUp' = {l \in givenUp : Source(l) # s}
    /\ UNCHANGED ingesting

GraphNext ==
    \/ \E p \in Pages : IngestOpen(p) \/ Publish(p) \/ Unpublish(p)
    \/ IngestCommit \/ IngestAbort
    \/ \E s \in Sites : \/ \E h \in Hosts : CreateSite(s, h) \/ MoveSite(s, h)
                        \/ Transition(s) \/ DeleteSite(s)

GraphSpec == GraphInit /\ [][GraphNext]_graphVars

-----------------------------------------------------------------------------
(* Queries and properties.                                                 *)

\* links_given and links_received of a site's owner.
Crossing == {l \in Links : net.edge[l].site \notin {Nil, Source(l)}}
Given(s) == {l \in Crossing : Source(l) = s /\ net.edge[l].active}
Received(s) == {l \in Crossing : net.edge[l].site = s /\ net.edge[l].active}

\* The types of the rows.
GraphTypeOK ==
    /\ \A s \in Sites : (net.state[s] = "absent") <=> (net.host[s] = Nil)
    /\ \A s, t \in Sites : net.host[s] = net.host[t] => s = t \/ net.host[s] = Nil
    /\ \A l \in Links : net.seen[l] \in {"absent", "active", "inactive"}
                          /\ (net.seen[l] = "absent" => net.edge[l] = NoEdge)

\* An edge a member is shown is active only while its observation, both articles
\* and both sites are, whatever is published, removed, suspended, moved, deleted
\* and created in whatever order, except for a link that was inserted while
\* another transaction committed, or was resolved meanwhile to the article that
\* was being ingested: neither of the two saw the other.
ShownEdgeIsActive ==
    \A s \in Sites : \A l \in (Given(s) \cup Received(s)) \ overlapped :
        /\ net.seen[l] = "active" /\ net.active[l[1]]
        /\ net.state[Source(l)] = "active" /\ net.state[net.edge[l].site] = "active"
        /\ net.edge[l].page # Nil => net.active[net.edge[l].page]

\* No active edge stays within one site, though sites move to each other's hosts.
EdgesCross ==
    \A l \in Links : net.edge[l].active => net.edge[l].site # Source(l)

\* The derived graph is never stale: whatever committed last, an edge is active
\* exactly if reconciling it again would make it so.  A link is excepted whose
\* URL two pages had until one of them gave it up: nothing looks at it again.
GraphIsCurrent ==
    \A l \in Linked(net) \ (overlapped \cup givenUp) :
        net.edge[l].active <=> Edge(net, l).active
\* What members see of the network is true of their sites as they are now.
GraphIsFaithful == ShownEdgeIsActive /\ EdgesCross /\ GraphIsCurrent

=============================================================================
