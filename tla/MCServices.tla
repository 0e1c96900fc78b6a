------------------------------- MODULE MCServices ------------------------------
(***************************************************************************)
(* Small instances, for TLC, of the components that share no state with the *)
(* crawl or with each other: a behaviour is one of the component `part`,    *)
(* with the variables of all the others at rest.                            *)
(***************************************************************************)
EXTENDS Accounts, OAuthTokens, NetworkGraph, SiteCleanup, SiteRatings, SitemapParsing,
        ApiRequests, SearchQueries, IndexNow, CollectionBootstrap, Rollout,
        PageExtraction, MetricSnapshots, TLC

VARIABLE part

-----------------------------------------------------------------------------
(* Values of the constants.                                                *)

\* Subscription events: an early and a later one, an ending of the same second as
\* the later one, which only the customer's id finds, and a checkout.
Event(created, kind, status) ==
    [created |-> created, kind |-> kind, status |-> status,
     ending |-> FALSE, ours |-> TRUE, named |-> TRUE]
SmallEvents ==
    {Event(1, "updated", "active"), Event(2, "updated", "incomplete"),
     [Event(2, "deleted", "active") EXCEPT !.named = FALSE], Event(1, "checkout", "active")}

\* Client metadata: good, and with two of the things that are refused.
GoodClient ==
    [uris |-> {"https"}, method |-> "none", grants |-> {"authorization_code", "refresh_token"},
     responses |-> {"code"}, scope |-> {"mcp:user"}, name |-> "short"]
PostedClients ==
    {GoodClient, [GoodClient EXCEPT !.uris = {"http"}], [GoodClient EXCEPT !.responses = {"token"}]}

\* A page of one site, which links to a URL that either page of the other site
\* may have.
PageSites == [p \in Pages |-> IF p = "a" THEN "s1" ELSE "s2"]
UrlHosts == [u \in Urls |-> "h2"]
PageLinks == {<<"a", "u">>}

ArticleSources == [a \in Articles |-> IF a = 3 THEN "s2" ELSE "s1"]
UrlSections == [u \in PublicUrls |-> IF u = 1 THEN "static" ELSE "blog"]

\* The members' requests are alike.
Alike == Permutations(Sessions)

-----------------------------------------------------------------------------
(* Composition.                                                            *)

Parts == {"accounts", "oauth", "graph", "cleanup", "ratings", "sitemap", "api", "search",
          "indexnow", "bootstrap", "rollout", "extraction", "snapshots"}

\* The search starts from one of the equal arrangements of hosts and languages;
\* at rest, so do the sitemap of the public site and the bootstrap commands.  Of
\* the keys at the start only a legacy key has been shown, where a step of the
\* component cannot show it: no step depends on what was shown.
FewArrangements ==
    /\ \A a \in Articles : article[a].lang = IF a = 1 THEN "de" ELSE "en"
    /\ site["s1"].host = "d1" /\ site["s2"].host = "d2"
    /\ part # "indexnow" => page = [u \in PublicUrls |-> 1]
    /\ part # "bootstrap" => \A b \in Boots : boot[b].size = 1
    /\ handedOut = {profile.key} \cap {LegacyKey}
    /\ part # "accounts" => Opens(profile)

ServicesInit ==
    /\ part \in Parts
    /\ AccountInit /\ OAuthInit /\ GraphInit /\ CleanupInit /\ SitesInit /\ SitemapInit /\ ApiInit
    /\ QueryInit /\ NoticeInit /\ BootstrapInit /\ RolloutInit /\ ExtractionInit /\ SnapshotInit
    /\ FewArrangements

Only(name) ==
    /\ UNCHANGED part
    /\ IF name = "accounts" THEN TRUE ELSE UNCHANGED accountVars
    /\ IF name = "oauth" THEN TRUE ELSE UNCHANGED oauthVars
    /\ IF name = "graph" THEN TRUE ELSE UNCHANGED graphVars
    /\ IF name = "cleanup" THEN TRUE ELSE UNCHANGED cleanupVars
    /\ IF name = "ratings" THEN TRUE ELSE UNCHANGED siteVars
    /\ IF name = "sitemap" THEN TRUE ELSE UNCHANGED sitemapVars
    /\ IF name = "api" THEN TRUE ELSE UNCHANGED apiVars
    /\ IF name = "search" THEN TRUE ELSE UNCHANGED queryVars
    /\ IF name = "indexnow" THEN TRUE ELSE UNCHANGED noticeVars
    /\ IF name = "bootstrap" THEN TRUE ELSE UNCHANGED bootVars
    /\ IF name = "rollout" THEN TRUE ELSE UNCHANGED rolloutVars
    /\ IF name = "extraction" THEN TRUE ELSE UNCHANGED extractionVars
    /\ IF name = "snapshots" THEN TRUE ELSE UNCHANGED snapshotVars

ServicesNext ==
    \/ part = "accounts" /\ AccountNext /\ Only("accounts")
    \/ part = "oauth" /\ OAuthNext /\ Only("oauth")
    \/ part = "graph" /\ GraphNext /\ Only("graph")
    \/ part = "cleanup" /\ CleanupNext /\ Only("cleanup")
    \/ part = "ratings" /\ SitesNext /\ Only("ratings")
    \/ part = "sitemap" /\ SitemapNext /\ Only("sitemap")
    \/ part = "api" /\ ApiNext /\ Only("api")
    \/ part = "search" /\ QueryNext /\ Only("search")
    \/ part = "indexnow" /\ NoticeNext /\ Only("indexnow")
    \/ part = "bootstrap" /\ BootstrapNext /\ Only("bootstrap")
    \/ part = "rollout" /\ RolloutNext /\ Only("rollout")
    \/ part = "extraction" /\ ExtractionNext /\ Only("extraction")
    \/ part = "snapshots" /\ SnapshotNext /\ Only("snapshots")

servicesVars ==
    <<part, accountVars, oauthVars, graphVars, cleanupVars, siteVars, sitemapVars, apiVars,
      queryVars, noticeVars, bootVars, rolloutVars, extractionVars, snapshotVars>>
ServicesSpec == ServicesInit /\ [][ServicesNext]_servicesVars

-----------------------------------------------------------------------------
(* Properties.                                                             *)

\* The type invariant of the component that runs.
ServicesTypeOK ==
    /\ part = "accounts" => AccountTypeOK
    /\ part = "oauth" => OAuthTypeOK
    /\ part = "graph" => GraphTypeOK
    /\ part = "cleanup" => CleanupTypeOK
    /\ part = "ratings" => SitesTypeOK
    /\ part = "sitemap" => SitemapTypeOK
    /\ part = "api" => ApiTypeOK
    /\ part = "search" => QueryTypeOK
    /\ part = "indexnow" => NoticeTypeOK
    /\ part = "bootstrap" => BootstrapTypeOK
    /\ part = "rollout" => RolloutTypeOK
    /\ part = "extraction" => ExtractionTypeOK
    /\ part = "snapshots" => SnapshotTypeOK

\* What several processes may create at the same time is created once, and all of
\* them go on with that one: the vector collection, and the extraction of a job.
CreatedOnce == EnsuredMatches /\ OneExtraction
=============================================================================
